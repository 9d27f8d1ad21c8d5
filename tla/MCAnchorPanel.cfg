\* Two accounts, two amounts; one transfer, of another tab or of this one; three changes of the form or the account.
SPECIFICATION FairSpec
CONSTANTS
  a1 = a1  a2 = a2  x1 = x1  x2 = x2
  Accounts = {a1, a2}
  Amounts = {x1, x2}
  DefaultAmount = x1
  WithdrawalKind = "withdrawal"
  MaxTransfers = 1
  MaxAttempts = 2
  MaxChanges = 3
  None = None
CHECK_DEADLOCK FALSE
INVARIANTS
  PaysItsWithdrawal
  ReportsWhatHappened
PROPERTIES
  PanelFrees
