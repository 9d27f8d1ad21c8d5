----------------------------- MODULE MCReadModel -----------------------------
(***************************************************************************)
(* Small instances of the contract's log, the read models, the figures and *)
(* the calls the pages offer on them.                                      *)
(***************************************************************************)
EXTENDS ReadModelProperties, WorkspaceProperties

CONSTANTS buyer, supplier, attestor, resolver, funder

OneOrder ==
  {[buyer |-> buyer, supplier |-> supplier, attestor |-> attestor, resolver |-> resolver]}

Wallets == [a \in Account |-> IF a \in {buyer, funder} THEN 2 ELSE 0]

\* No tab stays open and no report is computed while batches commit.
QuietInit == ReadInit /\ snapshot = NoSnapshot /\ volumes = {} /\ page = EmptyPage
QuietSpec ==
  /\ QuietInit
  /\ [][ReadNext /\ UNCHANGED <<snapshot, volumes, page>>]_<<readVars, snapshot, volumes, page>>

=============================================================================
