\* Two orders or two milestones of one order, one contract balance, shared accounts.
CONSTANTS
  buyer = buyer
  supplier = supplier
  attestor = attestor
  resolver = resolver
  funder = funder
  Account = {buyer, supplier, attestor, resolver, funder}
  NoAccount = NoAccount
  Contract = Contract
  Usdc = usdc
  Asset = {usdc}
  Proposals <- TwoOrders
  Digest = {d1, d2}
  ZeroDigest = zero
  NoDigest = none
  MilestoneAmounts = {2}
  Payments = {1, 2, 3}
  Expiries = {1}
  InitialBalance <- Wallets
  MAX_OFFER_VALIDITY = 2
  MAX_REQUEST_VALIDITY = 4
  TEMPORARY_LIFETIME_THRESHOLD = 1
  TEMPORARY_BUMP_AMOUNT = 3
  MAX_OFFERS_PER_MILESTONE = 2
  MAX_MILESTONES_PER_ORDER = 2
  MaxOrders = 2
  MaxMilestones = 2
  MaxOffers = 1
  MaxDisputes = 2
  Horizon = 0
SPECIFICATION Spec
CHECK_DEADLOCK FALSE
INVARIANTS
  AccountsReconcile
  SettlementAlwaysPayable
  CompletedWithLastMilestone
PROPERTIES
  TermsFrozen
