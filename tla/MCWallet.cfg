\* Two accounts, one order sent.
CONSTANTS
  a1 = a1
  a2 = a2
  Address = {a1, a2}
  NoAddress = none
  NoOrder = NoOrder
  MaxOrdersSent = 1
SPECIFICATION WalletFairSpec
CHECK_DEADLOCK FALSE
INVARIANTS
  FlagsHeld
  OwnTransaction
PROPERTIES
  SyncFollows
