--------------------------- MODULE MCMilvanceCore ---------------------------
(***************************************************************************)
(* Small instances of the contract for TLC.                                *)
(***************************************************************************)
EXTENDS MilvanceCoreProperties

CONSTANTS buyer, supplier, attestor, resolver, funder

OneOrder ==
  {[buyer |-> buyer, supplier |-> supplier, attestor |-> attestor, resolver |-> resolver]}

\* A second order whose supplier is the first order's funder and whose buyer is
\* its supplier: the same accounts on different sides.
TwoOrders ==
  OneOrder \cup
  {[buyer |-> supplier, supplier |-> funder, attestor |-> attestor, resolver |-> resolver]}

\* Enough money for one milestone of the largest amount.
Wallets == [a \in Account |-> IF a \in {buyer, funder} THEN 2 ELSE 0]

=============================================================================
