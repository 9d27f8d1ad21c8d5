----------------------------- MODULE MCWorkspace -----------------------------
(***************************************************************************)
(* Small instances of the workspace: one order, one or two funders.        *)
(***************************************************************************)
EXTENDS WorkspaceProperties

CONSTANTS buyer, supplier, attestor, resolver, funder

OneOrder ==
  {[buyer |-> buyer, supplier |-> supplier, attestor |-> attestor, resolver |-> resolver]}

Wallets == [a \in Account |-> IF a \in {buyer, funder} THEN 2 ELSE 0]

=============================================================================
