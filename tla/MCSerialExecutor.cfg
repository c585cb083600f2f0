CONSTANTS
  Tx = {t1, t2, t3}
  Object = {c1, c2, o1}
  Coin = {c1,c2}
  InputSets = {{o1},{c1,o1}}
  None = None
  MaxHeight = 2
SPECIFICATION Spec
INVARIANTS
  TypeOK
  NeverBehindAnswers
  ResetHeals
  AloneNeverRefused
SYMMETRY Symmetry
CHECK_DEADLOCK FALSE
