---------------------------- MODULE MCTradeReplay ----------------------------
(* Small instances of the told trade: one order of one or two milestones.    *)
EXTENDS TradeReplayProperties

CONSTANTS buyer, supplier, attestor, resolver, funder

OneOrder ==
  {[buyer |-> buyer, supplier |-> supplier, attestor |-> attestor, resolver |-> resolver]}

Wallets == [a \in Account |-> IF a \in {buyer, funder} THEN 2 ELSE 0]

=============================================================================
