CONSTANTS
  Calls = 3
  Key = {k1, k2}
  None = None
  Primed = Primed
  MaxBatchSize = 2
  MaxVersion = 1
  MaxEdits = 2
SPECIFICATION FairSpec
INVARIANTS
  TypeOK
  FetchOnce
  ClearForgets
  FailuresForgotten
PROPERTY
  EveryLoadSettles
CHECK_DEADLOCK FALSE
