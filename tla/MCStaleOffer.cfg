\* Expected violation: an offer of an earlier round is accepted under a new request.
CONSTANTS
  buyer = buyer
  supplier = supplier
  attestor = attestor
  resolver = resolver
  funder = funder
  Account = {buyer, supplier, attestor, resolver, funder}
  NoAccount = NoAccount
  Contract = Contract
  Usdc = usdc
  Asset = {usdc}
  Proposals <- OneOrder
  Digest = {d1}
  ZeroDigest = zero
  NoDigest = none
  MilestoneAmounts = {2}
  Payments = {1, 2}
  Expiries = {1, 2, 4}
  InitialBalance <- Wallets
  MAX_OFFER_VALIDITY = 2
  MAX_REQUEST_VALIDITY = 4
  TEMPORARY_LIFETIME_THRESHOLD = 1
  TEMPORARY_BUMP_AMOUNT = 3
  MAX_OFFERS_PER_MILESTONE = 2
  MAX_MILESTONES_PER_ORDER = 1
  MaxOrders = 1
  MaxMilestones = 1
  MaxOffers = 2
  MaxDisputes = 2
  Horizon = 4
SPECIFICATION Spec
CHECK_DEADLOCK FALSE
INVARIANTS
  AcceptedMatchesRequest
