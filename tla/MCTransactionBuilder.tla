------------------------ MODULE MCTransactionBuilder ------------------------
EXTENDS TransactionBuilder
CONSTANTS o1, o2, c1, c2
MCObjects == {o1, o2}
MCCoins == <<c1, c2>>
Symmetry == Permutations(MCObjects)
=============================================================================
