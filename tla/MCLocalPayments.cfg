\* Two requests about one transfer, a pass and a replay, interleaved at will.
SPECIFICATION HistorySpec
CONSTANTS
  s = s  payer = payer  anchor = anchor
  t1 = t1  t2 = t2  h1 = h1  h2 = h2  h3 = h3
  p1 = p1  p2 = p2
  m1 = m1  m2 = m2
  Transfers = {t1}
  Posts = {p1, p2}
  Bodies <- RaceBodies
  Payments <- PaymentsDef
  LowerHashes = {h1, h2, h3}
  Milestones = {m1}
  Supplier <- SupplierDef
  Buyer <- BuyerDef
  MaxTime = 1
  MaxReplays = 1
  None = None
INVARIANTS
  PublishedIsReal
  HashesHold
PROPERTIES
  VerdictSurvives
