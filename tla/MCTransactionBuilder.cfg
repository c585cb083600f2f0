CONSTANTS
  o1 = o1  o2 = o2  c1 = c1  c2 = c2
  Objects <- MCObjects
  Coins <- MCCoins
  MaxCommands = 4
  MaxForks = 2
  MaxPrepares = 2
  MaxSpecial = 2
SPECIFICATION Spec
SYMMETRY Symmetry
INVARIANTS
  TypeOK
  ReferencesKeepMeaning
  NoForwardReference
  CommandsInCallOrder
CHECK_DEADLOCK FALSE
