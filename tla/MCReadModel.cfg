\* One milestone through financing, evidence, dispute and payout, with up to
\* three events waiting for the indexer.
CONSTANTS
  buyer = buyer
  supplier = supplier
  attestor = attestor
  resolver = resolver
  funder = funder
  Account = {buyer, supplier, attestor, resolver, funder}
  NoAccount = NoAccount
  Contract = Contract
  Usdc = usdc
  Asset = {usdc}
  Proposals <- OneOrder
  Digest = {d1}
  ZeroDigest = zero
  NoDigest = none
  MilestoneAmounts = {2}
  Payments = {1, 2}
  Expiries = {1, 2}
  InitialBalance <- Wallets
  MAX_OFFER_VALIDITY = 1
  MAX_REQUEST_VALIDITY = 2
  TEMPORARY_LIFETIME_THRESHOLD = 1
  TEMPORARY_BUMP_AMOUNT = 2
  MAX_OFFERS_PER_MILESTONE = 2
  MAX_MILESTONES_PER_ORDER = 1
  MaxOrders = 1
  MaxMilestones = 2
  MaxOffers = 2
  MaxDisputes = 1
  Horizon = 1
  MaxPending = 3
  TransactionIndexed = TRUE
  RequestDays = {1, 2}
  OfferDays = {1}
SPECIFICATION QuietSpec
CHECK_DEADLOCK FALSE
INVARIANTS
  RowsFollow
  PagingIrrelevant
  VolumesAreMoney
  FiguresMatchCatalogue
  OfferedSucceeds
  NobodyForgotten
