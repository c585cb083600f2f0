SPECIFICATION Spec
CONSTANTS
  a1 = a1
  a2 = a2
  Accounts = {a1, a2}
  AccountLists <- MCAccountLists
  Channels = {c1, c2}
  Slush = slush
  Extension = extension
  NoWallet = noWallet
  NoAccount = noAccount
  OtherChains = {a2}
  AutoConnectEnabled = TRUE
  MaxEvents = 5
INVARIANTS
  WalletTypeOK
  AnswersReachTheirRequest
  GoneWalletsNotCurrent
  ShownAccounts
PROPERTY RequestsSettle
\* with the events used up the page may be at rest
CHECK_DEADLOCK FALSE
