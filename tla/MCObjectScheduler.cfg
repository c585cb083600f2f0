SPECIFICATION SchedulerFairSpec
CONSTANTS
  Tx = {t1, t2, t3, t4}
  Object = {o1, o2}
  MaxPoolSize = 2
INVARIANTS
  SchedulerTypeOK
  ConflictOrder
  QueueInvariant
  SlotsAccounted
PROPERTIES
  ImplementsSerializedExecution
  EveryTaskSettles
CHECK_DEADLOCK FALSE
