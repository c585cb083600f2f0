SPECIFICATION KioskSpec
CHECK_DEADLOCK FALSE
CONSTANTS
  Owned = {plain, personal}
  Personal = {personal}
  None = none
  MaxCommands = 7
  MaxReplacements = 2
INVARIANTS KioskTypeOK PersonalCapGivenBack KioskSharedOnce
