\* One milestone, several rounds of finance requests and offers.
\* Supplier, attestor and resolver are diligent; buyer and funders do anything or nothing.
CONSTANTS
  buyer = buyer
  supplier = supplier
  attestor = attestor
  resolver = resolver
  funder = funder
  Account = {buyer, supplier, attestor, resolver, funder}
  NoAccount = NoAccount
  Contract = Contract
  Usdc = usdc
  Asset = {usdc}
  Proposals <- OneOrder
  Digest = {d1}
  ZeroDigest = zero
  NoDigest = none
  MilestoneAmounts = {2}
  Payments = {1, 2, 3}
  Expiries = {1, 2, 3}
  InitialBalance <- Wallets
  MAX_OFFER_VALIDITY = 1
  MAX_REQUEST_VALIDITY = 3
  TEMPORARY_LIFETIME_THRESHOLD = 1
  TEMPORARY_BUMP_AMOUNT = 2
  MAX_OFFERS_PER_MILESTONE = 2
  MAX_MILESTONES_PER_ORDER = 1
  MaxOrders = 1
  MaxMilestones = 1
  MaxOffers = 2
  MaxDisputes = 2
  Horizon = 3
SPECIFICATION SupplierFairSpec
CHECK_DEADLOCK FALSE
INVARIANTS
  ProtectedInFull
  FinancingSound
  OffersStand
  DisputeCoherent
  FunderRepaidWithoutSupplier
PROPERTIES
  ImplementsPayment
  SupplierNeverStranded
