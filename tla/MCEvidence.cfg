\* One milestone with both panels, and uploads for no milestone by another client.
SPECIFICATION OnePanelSpec
CONSTANTS
  d1 = d1  d2 = d2  m1 = m1  m2 = m2
  Documents = {d1, d2}
  Milestones = {m1}
  Suppliers = {m1}
  Attestors = {m1}
  PostedFor = {None}
  MaxEvents = 3
  MaxReplays = 1
  None = None
SYMMETRY DocumentSymmetry
INVARIANTS
  DocumentBehind
  AnchoredAndListed
  VerifiedIsFrozen
