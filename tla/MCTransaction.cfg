\* Two actions of one panel, the first of which reads a balance before it starts: the
\* second click may come in turn, or while the first still awaits the balance.  Every
\* awaited call settles.
CONSTANTS
  a1 = a1
  a2 = a2
  Address = {a1, a2}
  NoAddress = none
  AsksFirst = {1}
  MaxRuns = 2
  MaxLedger = 2
SPECIFICATION PanelFairSpec
CHECK_DEADLOCK FALSE
INVARIANTS
  PanelTruthful
PROPERTIES
  NeverTakenBack
  PanelRecovers
