----------------------------- MODULE MCEvidence -----------------------------
(* Instances of Evidence: two documents, one or two milestones.              *)
EXTENDS EvidenceProperties, TLC

CONSTANTS d1, d2, m1, m2

DocumentSymmetry == Permutations({d1, d2})

\* Bound: one of the two panels is in use, beside all the other clients.
OnePanel ==
  \/ \A m \in Suppliers : supplier[m] = newForm
  \/ \A m \in Attestors : attestor[m] = newReview
OnePanelSpec == Init /\ [][Next /\ OnePanel']_vars
=============================================================================
