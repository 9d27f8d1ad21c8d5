---------------------------- MODULE MCLocalPayments ----------------------------
(* Instances of the local-payment reports: one or two transfers, a supplier  *)
(* and a buyer, hashes of real conversions and of somebody else's payment.   *)
EXTENDS LocalPaymentsProperties, TLC

CONSTANTS s, payer, anchor, t1, t2, p1, p2, h1, h2, h3, m1, m2

Paid(from, to, at) ==
  [successful |-> TRUE, approved |-> TRUE, from |-> from, to |-> to, amount |-> 1, at |-> at]

\* h1: the supplier's off-ramp; h2: another wallet's; h3: the buyer's on-ramp.
PaymentsDef == (h1 :> Paid(s, anchor, 1)) @@ (h2 :> Paid(payer, anchor, 0)) @@ (h3 :> Paid(anchor, payer, 1))

Report(t, direction, wallet, hash, usdc, status) ==
  [transfer |-> t, direction |-> direction, wallet |-> wallet, hash |-> hash, usdc |-> usdc,
   status |-> status, forbidden |-> FALSE]

OffRamps == {Report(t1, "USDC_TO_TRY", s, h, 1, "completed") : h \in {h1, h2}}
WithoutHash == {Report(t1, "USDC_TO_TRY", s, None, 1, "completed")}
OnRamps == {Report(t2, "TRY_TO_USDC", payer, h, 1, "completed") : h \in {h3, h2}}
Unfinished == {Report(t1, "USDC_TO_TRY", s, h1, 1, "pending_stellar")}
WithToken == {[Report(t1, "USDC_TO_TRY", s, h1, 1, "completed") EXCEPT !.forbidden = TRUE]}

RaceBodies == OffRamps \cup WithoutHash \cup WithToken
AllBodies == OffRamps \cup OnRamps \cup WithToken
SomeBodies == OffRamps \cup Unfinished

SupplierDef == [m \in Milestones |-> s]
BuyerDef == [m \in Milestones |-> payer]
=============================================================================
