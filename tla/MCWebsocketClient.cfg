CONSTANTS
  Sub = {s1, s2}
  None = None
  Signalled = {s1}
  MaxReconnects = 1
  MaxCloses = 3
  MaxLosses = 1
SPECIFICATION FairSpec
INVARIANTS
  TypeOK
  EventsReachTheirOwner
  NoSubscriptionForgotten
  EachTimeoutRobsOne
PROPERTY
  SentCallsSettle
CHECK_DEADLOCK FALSE
