SPECIFICATION LockFairSpec
CONSTANTS
  Call = {c1, c2, c3, c4}
  NoLock = NoLock
INVARIANTS
  LockTypeOK
  OverlapsNeedWaiters
PROPERTIES
  EveryCallGetsThrough
CHECK_DEADLOCK FALSE
