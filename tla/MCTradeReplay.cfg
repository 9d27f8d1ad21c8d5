\* One milestone, told from its first event to its last, by a feed other trades may fill.
CONSTANTS
  buyer = buyer
  supplier = supplier
  attestor = attestor
  resolver = resolver
  funder = funder
  Account = {buyer, supplier, attestor, resolver, funder}
  NoAccount = NoAccount
  Contract = Contract
  Usdc = usdc
  Asset = {usdc}
  Proposals <- OneOrder
  Digest = {d1}
  ZeroDigest = zero
  NoDigest = none
  MilestoneAmounts = {2}
  Payments = {1, 2}
  Expiries = {1}
  InitialBalance <- Wallets
  MAX_OFFER_VALIDITY = 1
  MAX_REQUEST_VALIDITY = 1
  TEMPORARY_LIFETIME_THRESHOLD = 1
  TEMPORARY_BUMP_AMOUNT = 2
  MAX_OFFERS_PER_MILESTONE = 2
  MAX_MILESTONES_PER_ORDER = 1
  MaxOrders = 1
  MaxMilestones = 1
  MaxOffers = 2
  MaxDisputes = 1
  Horizon = 1
  MaxPending = 3
  TransactionIndexed = TRUE
  MaxPictured = 4
SPECIFICATION ReplaySpec
CHECK_DEADLOCK FALSE
INVARIANTS
  SupplierToldTruly
  EndToldTruly
PROPERTIES
  DoneStaysDone
