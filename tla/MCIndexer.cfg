\* Two processes in watch mode, one replay, a stream started after a row its last event updates.
CONSTANTS
  Worker = {w1, w2}
  Log <- ChainLog
  StartLedger = 2
  PageLimit = 2
  CursorOptional = FALSE
  MaxLedger = 3
  MaxResets = 1
SPECIFICATION FairSpec
INVARIANTS
  PrefixOnce
PROPERTIES
  MirrorsForward
  CatchesUp
  ParkedIsReported
