-------------------------- MODULE MCSerialExecutor --------------------------
EXTENDS SerialExecutor, TLC

Symmetry == Permutations(Tx)
=============================================================================
