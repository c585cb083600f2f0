SPECIFICATION Spec
CONSTANTS
  t1 = t1  t2 = t2  t3 = t3
  Tx <- MCTx
  Object = {o1}
  MaxPoolSize = 2
  CoinBatchSize = 1
  InitialCoins = 2
  NoCoin = NoCoin
PROPERTIES
  SetAsideCoinsAreUsed
CHECK_DEADLOCK FALSE
