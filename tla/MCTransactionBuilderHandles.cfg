CONSTANTS
  o1 = o1  o2 = o2  c1 = c1  c2 = c2
  Objects <- MCObjects
  Coins <- MCCoins
  MaxCommands = 4
  MaxForks = 2
  MaxPrepares = 1
  MaxSpecial = 0
SPECIFICATION Spec
SYMMETRY Symmetry
INVARIANT PlaceholdersFollow
CHECK_DEADLOCK FALSE
