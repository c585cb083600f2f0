SPECIFICATION Spec
CONSTANTS
  t1 = t1  t2 = t2  t3 = t3
  Tx <- MCTx
  Object = {o1}
  MaxPoolSize = 2
  CoinBatchSize = 2
  InitialCoins = 1
  NoCoin = NoCoin
INVARIANTS
  TypeOK
  CoinHeldOnce
  GasCoinsCurrent
CHECK_DEADLOCK FALSE
