\* A tab open since any moment, beside clients of every kind: two offers in turn, no disputes.
CONSTANTS
  buyer = buyer
  supplier = supplier
  attestor = attestor
  resolver = resolver
  funder = funder
  Account = {buyer, supplier, attestor, resolver, funder}
  NoAccount = NoAccount
  Contract = Contract
  Usdc = usdc
  Asset = {usdc}
  Proposals <- OneOrder
  Digest = {d1}
  ZeroDigest = zero
  NoDigest = none
  MilestoneAmounts = {2}
  Payments = {1}
  Expiries = {1, 2}
  InitialBalance <- Wallets
  MAX_OFFER_VALIDITY = 1
  MAX_REQUEST_VALIDITY = 2
  TEMPORARY_LIFETIME_THRESHOLD = 1
  TEMPORARY_BUMP_AMOUNT = 2
  MAX_OFFERS_PER_MILESTONE = 2
  MAX_MILESTONES_PER_ORDER = 1
  MaxOrders = 1
  MaxMilestones = 1
  MaxOffers = 2
  MaxDisputes = 0
  Horizon = 2
  MaxPending = 3
  TransactionIndexed = TRUE
  RequestDays = {1, 2}
  OfferDays = {1}
SPECIFICATION WatchSpec
CHECK_DEADLOCK FALSE
INVARIANTS
  OldReviewsHold
