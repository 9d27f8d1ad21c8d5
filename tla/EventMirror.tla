----------------------------- MODULE EventMirror -----------------------------
(***************************************************************************)
(* What an indexer promises: its derived tables are at every moment those  *)
(* of a prefix of the chain's event log, each effective event counted      *)
(* exactly once, and they may be dropped and rebuilt.                      *)
(***************************************************************************)
EXTENDS Integers

CONSTANTS
  Event,      \* positions in the chain's log
  Effective   \* the events that change the derived tables

VARIABLES
  log,        \* events the chain has published
  mirror,     \* events the derived tables stand for
  tally       \* how many times each event is counted in them

vars == <<log, mirror, tally>>

Prefix(S, T) == S \subseteq T /\ \A e \in S, d \in T : d < e => d \in S

Counted(S) == [e \in Event |-> IF e \in S \cap Effective THEN 1 ELSE 0]

Init == mirror = {} /\ tally = Counted({})

Publish == log \subseteq log' /\ Prefix(log, log') /\ UNCHANGED <<mirror, tally>>

Extend ==
  /\ mirror \subseteq mirror'
  /\ Prefix(mirror', log)
  /\ tally' = Counted(mirror')
  /\ UNCHANGED log

Rebuild == mirror' = {} /\ tally' = Counted({}) /\ UNCHANGED log

Next == Publish \/ Extend \/ Rebuild

Spec == Init /\ [][Next]_vars

=============================================================================
