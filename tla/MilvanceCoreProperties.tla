----------------------- MODULE MilvanceCoreProperties -----------------------
(***************************************************************************)
(* What the contract must keep: the escrow, the financing round, disputes, *)
(* the accounts, and that nobody's money is stuck.                         *)
(***************************************************************************)
EXTENDS MilvanceCore, Functions

OrderStatus == {"Absent", "Created", "Active", "Completed", "Cancelled"}
MilestoneStatus == {"Absent", "Unfunded"} \cup Protected \cup Terminal
Sum == (Payments \cap Nat) \cup {0}     \* what a payment field holds
Holder == Account \cup {Contract}
SomeAccount == Account \cup {NoAccount}

OrderRecord ==
  [buyer: SomeAccount, supplier: SomeAccount, attestor: SomeAccount, resolver: SomeAccount,
   asset: Asset, status: OrderStatus]
MilestoneRecord ==
  [order_id: OrderId \cup {0}, amount: Nat, funded_amount: Nat,
   evidence_hash: Digest \cup {NoDigest}, status: MilestoneStatus]
RequestRecord ==
  [requested_principal: Sum, expires_at: Nat, status: {"Absent", "Open", "Accepted", "Cancelled"}]
AcceptedRecord ==
  [id: OfferId \cup {0}, funder: SomeAccount, principal: Sum, repayment: Sum, expires_at: Nat,
   status: {"Absent", "Accepted", "Funded"}]
PositionRecord ==
  [offer_id: OfferId \cup {0}, funder: SomeAccount, principal: Sum, repayment: Sum,
   status: {"Absent", "Active", "Repaid", "Closed"}]
DisputeRecord ==
  [milestone_id: MilestoneId \cup {0}, opened_by: SomeAccount,
   status: {"Absent", "Open", "ResolvedSettle", "ResolvedRefund"}]
OfferRecord ==
  [milestone_id: MilestoneId \cup {0}, funder: SomeAccount, principal: Sum, repayment: Sum,
   expires_at: Nat, live_until: Nat, status: {"Absent", "Open", "Accepted", "Cancelled"}]
IndexRecord == [ids: SUBSET OfferId, live_until: Nat]

\* Every storage entry has the shape types.rs gives it, and no wallet is overdrawn.
TypeOK ==
  /\ orders \in [OrderId -> OrderRecord]
  /\ order_milestones \in [OrderId -> SUBSET MilestoneId]
  /\ milestones \in [MilestoneId -> MilestoneRecord]
  /\ requests \in [MilestoneId -> RequestRecord]
  /\ accepted \in [MilestoneId -> AcceptedRecord]
  /\ positions \in [MilestoneId -> PositionRecord]
  /\ disputes \in [DisputeId -> DisputeRecord]
  /\ milestone_dispute \in [MilestoneId -> DisputeId \cup {0}]
  /\ offers \in [OfferId -> OfferRecord]
  /\ milestone_offers \in [MilestoneId -> IndexRecord]
  /\ order_count \in 0..MaxOrders /\ milestone_count \in 0..MaxMilestones
  /\ offer_count \in 0..MaxOffers /\ dispute_count \in 0..MaxDisputes
  /\ balances \in [Holder -> Int] /\ \A a \in Account : balances[a] >= 0
  /\ now \in 0..Horizon

-----------------------------------------------------------------------------
(* Escrow *)

\* A milestone that anyone may rely on holds its full amount, whatever round of
\* requests, offers, evidence and disputes it went through; one that ended holds
\* nothing (escrow.rs is_fully_funded; invariants 5 and 23).
ProtectedInFull ==
  \A m \in MilestoneId :
    LET milestone == milestones[m] IN
    /\ milestone.status \in Protected =>
         milestone.funded_amount = milestone.amount /\ milestone.amount > 0
    /\ milestone.status = "Unfunded" => milestone.funded_amount < milestone.amount
    /\ milestone.status \in Terminal \cup {"Absent"} => milestone.funded_amount = 0

\* The one balance the contract holds for all milestones is exactly what the
\* milestones say they hold, and no unit of the token appears or disappears.
AccountsReconcile ==
  /\ balances[Contract] = SumFunction([m \in MilestoneId |-> milestones[m].funded_amount])
  /\ SumFunction(balances) = SumFunction(InitialBalance)

\* Whatever happened to the other milestones, one that is verified can be paid
\* out at once by its supplier, and one in dispute can be refunded at once: the
\* shared balance covers it and the repayment fits (settlement.rs compute).
SettlementAlwaysPayable ==
  \A m \in MilestoneId :
    /\ milestones[m].status = "Verified" => ENABLED settle_milestone(m, order_of(m).supplier)
    /\ milestones[m].status = "Disputed" => ENABLED resolve_refund(m)

\* An order is completed exactly when its last milestone ends, and no milestone
\* of a completed or cancelled order holds money (complete_order_if_finished is
\* a consequence, "never an action anyone invokes directly").
CompletedWithLastMilestone ==
  \A o \in OrderId :
    LET ended == order_milestones[o] # {} /\ \A m \in order_milestones[o] :
                   milestones[m].status \in Terminal
    IN  /\ orders[o].status = "Completed" <=> ended
        /\ orders[o].status = "Cancelled" =>
             \A m \in order_milestones[o] : milestones[m].status = "Unfunded" /\
                                            milestones[m].funded_amount = 0

-----------------------------------------------------------------------------
(* Financing *)

\* Request, selected offer and position of a milestone always tell one story,
\* at most one of them open: the request is accepted exactly while an offer is
\* selected, the selection is funded exactly when the position exists and the
\* position carries its economics, and each is where the milestone's status says
\* (invariant 1, and the second independent barriers of lib.rs).
FinancingCoherent ==
  \A m \in MilestoneId :
    LET status == milestones[m].status
        offer == accepted[m]
        position == positions[m]
    IN
    /\ requests[m].status = "Accepted" <=> offer.status # "Absent"
    /\ requests[m].status = "Open" => status = "FinanceRequested"
    /\ offer.status = "Accepted" => status = "FinanceRequested"
    /\ status = "FinanceRequested" => requests[m].status \in {"Open", "Accepted"}
    /\ offer.status = "Funded" <=> position.status # "Absent"
    /\ position.status # "Absent" =>
         /\ position.offer_id = offer.id /\ position.funder = offer.funder
         /\ position.principal = offer.principal /\ position.repayment = offer.repayment
    /\ position.status = "Active" => status \in {"Financed", "Submitted", "Verified", "Disputed"}
    /\ position.status = "Repaid" => status = "Settled"
    /\ position.status = "Closed" => status = "Refunded"
    /\ status = "Financed" => position.status = "Active"

\* Nobody is ever promised more than is locked: a selected or a funded offer's
\* repayment fits in the escrow its milestone actually holds, until it ends
\* (financing.rs: "a funder can never be promised more than the verified
\* milestone can ever pay out").
RepaymentCovered ==
  \A m \in MilestoneId :
    /\ accepted[m].status = "Accepted" =>
         /\ 0 < accepted[m].principal /\ accepted[m].principal <= accepted[m].repayment
         /\ accepted[m].repayment <= milestones[m].funded_amount
    /\ positions[m].status = "Active" =>
         /\ 0 < positions[m].principal /\ positions[m].principal <= positions[m].repayment
         /\ positions[m].repayment <= milestones[m].funded_amount

\* The offers a supplier is shown side by side are all of this milestone, of the
\* open round, and advance exactly the principal asked for, so they differ only
\* in price (make_offer's PrincipalMismatch; the index is emptied with its round).
PresentedOffersComparable ==
  \A m \in MilestoneId :
    requests[m].status = "Open" => \A f \in get_open_offers(m) :
      /\ offers[f].milestone_id = m
      /\ offers[f].principal = requests[m].requested_principal

\* An offer expires by its timestamp, never by disappearing (storage.rs: "an
\* offer's storage always outlives its business expiry").
StorageOutlivesOffer ==
  \A f \in OfferId :
    offers[f].status # "Absent" => offers[f].expires_at <= offers[f].live_until

\* Once paid, an advance's economics never change and it ends once, with its
\* milestone.
PositionFrozen ==
  [][\A m \in MilestoneId : positions[m].status # "Absent" =>
       /\ [positions'[m] EXCEPT !.status = positions[m].status] = positions[m]
       /\ positions'[m].status # positions[m].status =>
            /\ positions[m].status = "Active"
            /\ <<positions'[m].status, milestones'[m].status>> \in
                 {<<"Repaid", "Settled">>, <<"Closed", "Refunded">>}]_vars

\* The financing round of a milestone is one story, and one the locked money can
\* pay for.
FinancingSound == FinancingCoherent /\ RepaymentCovered

\* What a supplier compares is comparable and stays until it expires.
OffersStand == PresentedOffersComparable /\ StorageOutlivesOffer

-----------------------------------------------------------------------------
(* Evidence and disputes *)

\* A milestone is in dispute exactly while the dispute it is linked to is open,
\* no other dispute is open on it, and a decided one has ended it the way it was
\* decided or left it to settle.
DisputeCoherent ==
  /\ \A m \in MilestoneId :
       milestones[m].status = "Disputed" <=>
         milestone_dispute[m] # 0 /\ disputes[milestone_dispute[m]].status = "Open"
  /\ \A d \in DisputeId :
       LET m == disputes[d].milestone_id IN
       /\ disputes[d].status # "Absent" => m # 0 /\ milestone_dispute[m] = d
       /\ disputes[d].status = "ResolvedSettle" => milestones[m].status \in {"Verified", "Settled"}
       /\ disputes[d].status = "ResolvedRefund" => milestones[m].status = "Refunded"

\* What was attested, disputed or paid for is what stays committed: the digest of
\* a milestone changes only while it is being worked on.
EvidenceFrozen ==
  [][\A m \in MilestoneId :
       milestones'[m].evidence_hash # milestones[m].evidence_hash =>
         /\ milestones[m].status \in {"Funded", "Financed", "Submitted"}
         /\ milestones'[m].status = "Submitted"
         /\ milestones'[m].evidence_hash # NoDigest]_vars

\* What was lent on and what was attested stays as it was.
TermsFrozen == PositionFrozen /\ EvidenceFrozen

-----------------------------------------------------------------------------
(* The abstract payment *)

stage_of(status) ==
  CASE status = "Absent" -> "None"
    [] status = "Unfunded" -> "Open"
    [] status \in Protected -> "Locked"
    [] status = "Settled" -> "Paid"
    [] status = "Refunded" -> "Returned"

deal_of(m) ==
  IF milestones[m].status = "Absent"
  THEN [buyer |-> NoAccount, supplier |-> NoAccount, price |-> 0]
  ELSE [buyer |-> order_of(m).buyer, supplier |-> order_of(m).supplier,
        price |-> milestones[m].amount]

PP == INSTANCE ProtectedPayment WITH
  Payment <- MilestoneId, Party <- Account, NoParty <- NoAccount, Vault <- Contract,
  Amount <- Payments \cup MilestoneAmounts,
  deal <- [m \in MilestoneId |-> deal_of(m)],
  stage <- [m \in MilestoneId |-> stage_of(milestones[m].status)],
  locked <- [m \in MilestoneId |-> milestones[m].funded_amount],
  loan <- [m \in MilestoneId |-> [funder |-> positions[m].funder,
                                  principal |-> positions[m].principal,
                                  repayment |-> positions[m].repayment]],
  wallet <- balances

\* Each milestone is a protected payment: every invocation is a step of the
\* abstract payment or invisible to it.
ImplementsPayment == PP!PaySpec

-----------------------------------------------------------------------------
(* Nobody's money is stuck *)

\* A supplier that does its part gets the milestone to an end, whatever the buyer
\* and the funders do or leave undone: an unanswered request, a selected offer
\* nobody pays and a dispute all come to an end.
SupplierNeverStranded ==
  \A m \in MilestoneId :
    milestones[m].status \in Protected ~> milestones[m].status \in Terminal

\* The funder of a verified milestone does not depend on the supplier: its own
\* call pays the repayment, whole, to the wallet that advanced the principal.
FunderRepaidWithoutSupplier ==
  \A m \in MilestoneId :
    milestones[m].status = "Verified" /\ positions[m].status = "Active" =>
      LET f == positions[m].funder IN
      ENABLED /\ settle_milestone(m, f)
              /\ balances'[f] = balances[f] + positions[m].repayment
              /\ positions'[m].status = "Repaid"

-----------------------------------------------------------------------------
(* Statements of the source the code does not keep                          *)

\* "Closing the request already makes them unacceptable": an accepted offer
\* advances what the request it is accepted for asks.
AcceptedMatchesRequest ==
  \A m \in MilestoneId :
    accepted[m].status = "Accepted" =>
      accepted[m].principal = requests[m].requested_principal

\* get_open_offers: "Offers on a milestone that are still open and still live".
OpenOffersStayListed ==
  \A f \in OfferId :
    LET m == offers[f].milestone_id IN
    /\ offers[f].status = "Open" /\ is_live(offers[f].expires_at)
    /\ requests[m].status = "Open"
    /\ offers[f].principal = requests[m].requested_principal
    => f \in get_open_offers(m)

\* types.rs, Milestone: a buyer whose payment is locked can always ask for a
\* decision.
BuyerNeverStranded ==
  \A m \in MilestoneId :
    in_active_order(m, Protected \ {"Verified", "Disputed"}) /\ dispute_count < MaxDisputes =>
      ENABLED open_dispute(m, order_of(m).buyer)

=============================================================================
