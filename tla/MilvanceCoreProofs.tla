------------------------- MODULE MilvanceCoreProofs -------------------------
(***************************************************************************)
(* The contract's safety, for any accounts, amounts, limits and clock:     *)
(* storage keeps its shape; the escrow, the order's completion, the        *)
(* financing round, the offers and the disputes follow from one inductive  *)
(* invariant.  Then where the money is: the contract's one balance is what *)
(* its milestones hold, so no payout is ever refused for the sake of       *)
(* another, and each milestone is a protected payment, every invocation a  *)
(* step of ProtectedPayment or invisible to it.                            *)
(***************************************************************************)
EXTENDS MilvanceCoreProperties, FiniteSetTheorems, WellFoundedInduction, TLAPS

-----------------------------------------------------------------------------
(* Storage keeps its shape                                                 *)

LEMMA IdFacts ==
  /\ OrderId \subseteq Nat \ {0} /\ MilestoneId \subseteq Nat \ {0}
  /\ OfferId \subseteq Nat \ {0} /\ DisputeId \subseteq Nat \ {0}
BY LimitsAssumption DEF OrderId, MilestoneId, OfferId, DisputeId

LEMMA SumFacts == Sum \subseteq Nat /\ \A p \in Payments : p >= 0 => p \in Sum
BY ValuesAssumption DEF Sum

LEMMA BlankRecords ==
  /\ NoOrder \in OrderRecord /\ NoMilestone \in MilestoneRecord
  /\ NoRequest \in RequestRecord /\ NoAccepted \in AcceptedRecord
  /\ NoPosition \in PositionRecord /\ NoDispute \in DisputeRecord
  /\ NoOffer \in OfferRecord /\ NoIndex \in IndexRecord
BY PartiesAssumption
   DEF NoOrder, OrderRecord, OrderStatus, SomeAccount, NoMilestone, MilestoneRecord,
       MilestoneStatus, NoRequest, RequestRecord, NoAccepted, AcceptedRecord, NoPosition,
       PositionRecord, NoDispute, DisputeRecord, NoOffer, OfferRecord, NoIndex, IndexRecord, Sum

\* The clock, the counters and the milestones as numbers, which is what most steps need.
LEMMA TypeFacts ==
  ASSUME TypeOK
  PROVE  /\ now \in Nat /\ offer_count \in Nat /\ order_count \in Nat
         /\ milestone_count \in Nat /\ dispute_count \in Nat
         /\ \A m \in MilestoneId :
              /\ milestones[m] \in MilestoneRecord
              /\ milestones[m].amount \in Nat /\ milestones[m].funded_amount \in Nat
              /\ milestones[m].order_id \in OrderId \cup {0}
              /\ positions[m].principal \in Nat /\ positions[m].repayment \in Nat
              /\ accepted[m].principal \in Nat /\ accepted[m].repayment \in Nat
              /\ accepted[m].expires_at \in Nat /\ requests[m].expires_at \in Nat
<1>1. /\ now \in Nat /\ offer_count \in Nat /\ order_count \in Nat
      /\ milestone_count \in Nat /\ dispute_count \in Nat
  BY LimitsAssumption DEF TypeOK
<1>2. \A m \in MilestoneId : /\ milestones[m] \in MilestoneRecord
                             /\ positions[m] \in PositionRecord
                             /\ accepted[m] \in AcceptedRecord
                             /\ requests[m] \in RequestRecord
  BY DEF TypeOK
<1>3. /\ \A r \in MilestoneRecord : /\ r.amount \in Nat /\ r.funded_amount \in Nat
                                   /\ r.order_id \in OrderId \cup {0}
      /\ \A r \in PositionRecord : r.principal \in Nat /\ r.repayment \in Nat
      /\ \A r \in AcceptedRecord : /\ r.principal \in Nat /\ r.repayment \in Nat
                                  /\ r.expires_at \in Nat
      /\ \A r \in RequestRecord : r.expires_at \in Nat
  BY SumFacts DEF MilestoneRecord, PositionRecord, AcceptedRecord, RequestRecord
<1>. QED
  BY <1>1, <1>2, <1>3

LEMMA TypeInit == Init => TypeOK
<1>. SUFFICES ASSUME Init PROVE TypeOK
  OBVIOUS
<1>1. balances \in [Holder -> Int] /\ \A a \in Account : balances[a] >= 0
  BY ValuesAssumption, PartiesAssumption DEF Init, Holder
<1>. QED
  BY <1>1, BlankRecords, LimitsAssumption DEF Init, TypeOK

-----------------------------------------------------------------------------
(* Orders and escrow                                                        *)

LEMMA TypeCreateOrder ==
  ASSUME TypeOK, NEW roles \in Proposals, create_order(roles)
  PROVE  TypeOK'
<1>1. order_count + 1 \in OrderId /\ order_count' \in 0..MaxOrders
  BY LimitsAssumption DEF TypeOK, OrderId, create_order
<1>2. roles \in [buyer: Account, supplier: Account, attestor: Account, resolver: Account]
  BY PartiesAssumption
<1>3. [buyer |-> roles.buyer, supplier |-> roles.supplier, attestor |-> roles.attestor,
       resolver |-> roles.resolver, asset |-> Usdc, status |-> "Created"] \in OrderRecord
  BY <1>2, PartiesAssumption DEF OrderRecord, SomeAccount, OrderStatus
<1>4. orders' \in [OrderId -> OrderRecord]
  BY <1>1, <1>3 DEF TypeOK, create_order
<1>. QED
  BY <1>1, <1>4 DEF TypeOK, create_order, financeVars, disputeVars

LEMMA TypeCreateMilestone ==
  ASSUME TypeOK, NEW o \in OrderId, NEW amount \in MilestoneAmounts, create_milestone(o, amount)
  PROVE  TypeOK'
<1>1. milestone_count + 1 \in MilestoneId /\ milestone_count' \in 0..MaxMilestones
  BY LimitsAssumption DEF TypeOK, MilestoneId, create_milestone
<1>2. [order_id |-> o, amount |-> amount, funded_amount |-> 0, evidence_hash |-> NoDigest,
       status |-> "Unfunded"] \in MilestoneRecord
  BY ValuesAssumption DEF MilestoneRecord, MilestoneStatus, create_milestone
<1>3. milestones' \in [MilestoneId -> MilestoneRecord]
  BY <1>1, <1>2 DEF TypeOK, create_milestone
<1>4. order_milestones' \in [OrderId -> SUBSET MilestoneId]
  BY <1>1 DEF TypeOK, create_milestone
<1>. QED
  BY <1>1, <1>3, <1>4 DEF TypeOK, create_milestone, financeVars, disputeVars

LEMMA OrderUpdate ==
  ASSUME TypeOK, NEW o \in OrderId, NEW status \in OrderStatus
  PROVE  [orders EXCEPT ![o].status = status] \in [OrderId -> OrderRecord]
<1>1. orders \in [OrderId -> OrderRecord]
  BY DEF TypeOK
<1>. QED
  BY <1>1 DEF OrderRecord

LEMMA TypeAcceptOrder == ASSUME TypeOK, NEW o \in OrderId, accept_order(o) PROVE TypeOK'
<1>1. orders' \in [OrderId -> OrderRecord]
  BY OrderUpdate DEF accept_order, OrderStatus
<1>. QED
  BY <1>1 DEF TypeOK, accept_order, financeVars, disputeVars

LEMMA TypeCancelOrder == ASSUME TypeOK, NEW o \in OrderId, cancel_order(o) PROVE TypeOK'
<1>1. orders' \in [OrderId -> OrderRecord]
  BY OrderUpdate DEF cancel_order, OrderStatus
<1>. QED
  BY <1>1 DEF TypeOK, cancel_order, financeVars, disputeVars

\* A milestone keeps its shape when its money, digest or status changes.
LEMMA MilestoneUpdate ==
  ASSUME TypeOK, NEW m \in MilestoneId, NEW status \in MilestoneStatus
  PROVE  /\ [milestones EXCEPT ![m].status = status] \in [MilestoneId -> MilestoneRecord]
         /\ \A digest \in Digest :
              [milestones EXCEPT ![m].evidence_hash = digest, ![m].status = status]
                \in [MilestoneId -> MilestoneRecord]
         /\ \A amount \in Nat :
              /\ [milestones EXCEPT ![m].funded_amount = amount] \in [MilestoneId -> MilestoneRecord]
              /\ [milestones EXCEPT ![m].funded_amount = amount, ![m].status = status]
                   \in [MilestoneId -> MilestoneRecord]
<1>1. milestones \in [MilestoneId -> MilestoneRecord]
  BY DEF TypeOK
<1>2. [milestones EXCEPT ![m].status = status] \in [MilestoneId -> MilestoneRecord]
  BY <1>1 DEF MilestoneRecord
<1>3. \A digest \in Digest :
        [milestones EXCEPT ![m].evidence_hash = digest, ![m].status = status]
          \in [MilestoneId -> MilestoneRecord]
  BY <1>1 DEF MilestoneRecord
<1>4. \A amount \in Nat :
        [milestones EXCEPT ![m].funded_amount = amount] \in [MilestoneId -> MilestoneRecord]
  BY <1>1 DEF MilestoneRecord
<1>5. \A amount \in Nat :
        [milestones EXCEPT ![m].funded_amount = amount, ![m].status = status]
          \in [MilestoneId -> MilestoneRecord]
  BY <1>1 DEF MilestoneRecord
<1>. QED
  BY <1>2, <1>3, <1>4, <1>5

LEMMA Statuses ==
  /\ Protected \subseteq MilestoneStatus /\ Terminal \subseteq MilestoneStatus
  /\ "Unfunded" \in MilestoneStatus
BY DEF MilestoneStatus

\* A transfer the token accepts overdraws nobody.
LEMMA TransferTypes ==
  ASSUME TypeOK, NEW from, NEW to, NEW amount \in Nat, from \in Account => can_pay(from, amount)
  PROVE  /\ transferred(from, to, amount) \in [Holder -> Int]
         /\ \A a \in Account : transferred(from, to, amount)[a] >= 0
<1>1. balances \in [Holder -> Int] /\ \A a \in Account : a \in Holder /\ balances[a] >= 0
  BY DEF TypeOK, Holder
<1>. QED
  BY <1>1 DEF transferred, can_pay

LEMMA TypeFundMilestone ==
  ASSUME TypeOK, NEW m \in MilestoneId, NEW amount \in Payments, NEW asset \in Asset,
         fund_milestone(m, amount, asset)
  PROVE  TypeOK'
<1>. DEFINE total == milestones[m].funded_amount + amount
<1>1. amount \in Nat /\ total \in Nat
  BY ValuesAssumption, TypeFacts DEF fund_milestone
<1>2. status_after(m, total) \in MilestoneStatus
  BY DEF status_after, MilestoneStatus, Protected
<1>3. milestones' \in [MilestoneId -> MilestoneRecord]
  BY <1>1, <1>2, MilestoneUpdate DEF fund_milestone
<1>4. balances' \in [Holder -> Int] /\ \A a \in Account : balances'[a] >= 0
  BY <1>1, TransferTypes DEF fund_milestone
<1>. QED
  BY <1>3, <1>4 DEF TypeOK, fund_milestone, orderVars, financeVars, disputeVars

LEMMA TypeCancelPartialFunding ==
  ASSUME TypeOK, NEW m \in MilestoneId, cancel_partial_funding(m)
  PROVE  TypeOK'
<1>1. milestones[m].funded_amount \in Nat
  BY TypeFacts
<1>2. [milestones EXCEPT ![m].funded_amount = 0] \in [MilestoneId -> MilestoneRecord]
  BY MilestoneUpdate, Statuses
<1>3. balances' \in [Holder -> Int] /\ \A a \in Account : balances'[a] >= 0
  BY <1>1, PartiesAssumption, TransferTypes DEF cancel_partial_funding
<1>. QED
  BY <1>2, <1>3 DEF TypeOK, cancel_partial_funding, orderVars, financeVars, disputeVars

-----------------------------------------------------------------------------
(* Financing                                                                *)

\* Writing an offer or an index gives it a lifetime.
LEMMA WithStatus ==
  ASSUME NEW offer \in OfferRecord, NEW status \in {"Absent", "Open", "Accepted", "Cancelled"},
         now \in Nat
  PROVE  with_status(offer, status) \in OfferRecord
<1>1. extended(offer.live_until) \in Nat
  BY LimitsAssumption DEF extended, OfferRecord
<1>. QED
  BY <1>1 DEF with_status, OfferRecord

LEMMA WithIndex ==
  ASSUME NEW index \in IndexRecord, NEW ids \in SUBSET OfferId, now \in Nat
  PROVE  with_index(index, ids) \in IndexRecord
<1>1. extended(index.live_until) \in Nat
  BY LimitsAssumption DEF extended, IndexRecord
<1>. QED
  BY <1>1 DEF with_index, IndexRecord

LEMMA EmptyIndex ==
  ASSUME TypeOK, NEW m \in MilestoneId
  PROVE  [milestone_offers EXCEPT ![m] = with_index(@, {})] \in [MilestoneId -> IndexRecord]
<1>1. milestone_offers \in [MilestoneId -> IndexRecord]
  BY DEF TypeOK
<1>2. with_index(milestone_offers[m], {}) \in IndexRecord
  BY <1>1, WithIndex, TypeFacts
<1>. QED
  BY <1>1, <1>2

LEMMA RequestUpdate ==
  ASSUME TypeOK, NEW m, NEW status \in {"Open", "Accepted", "Cancelled"}
  PROVE  [requests EXCEPT ![m].status = status] \in [MilestoneId -> RequestRecord]
<1>1. requests \in [MilestoneId -> RequestRecord]
  BY DEF TypeOK
<1>. QED
  BY <1>1 DEF RequestRecord

LEMMA TypeRequestFinance ==
  ASSUME TypeOK, NEW m \in MilestoneId, NEW principal \in Payments, NEW expires_at \in Expiries,
         request_finance(m, principal, expires_at)
  PROVE  TypeOK'
<1>1. [requested_principal |-> principal, expires_at |-> expires_at, status |-> "Open"]
        \in RequestRecord
  BY ValuesAssumption DEF request_finance, RequestRecord, Sum
<1>2. [milestones EXCEPT ![m].status = "FinanceRequested"] \in [MilestoneId -> MilestoneRecord]
  BY MilestoneUpdate, Statuses DEF Protected
<1>3. requests' \in [MilestoneId -> RequestRecord]
  BY <1>1 DEF request_finance, TypeOK
<1>4. milestone_offers' \in [MilestoneId -> IndexRecord]
  BY EmptyIndex DEF request_finance
<1>. QED
  BY <1>2, <1>3, <1>4 DEF TypeOK, request_finance, orderVars, disputeVars

LEMMA TypeMakeOffer ==
  ASSUME TypeOK, NEW m \in MilestoneId, NEW funder \in Account, NEW principal \in Payments,
         NEW repayment \in Payments, NEW expires_at \in Expiries,
         make_offer(m, funder, principal, repayment, expires_at)
  PROVE  TypeOK'
<1>1. principal \in Sum /\ repayment \in Sum /\ expires_at \in Nat
  BY ValuesAssumption DEF make_offer, validate_economics, Sum
<1>2. offer_count + 1 \in OfferId /\ offer_count' \in 0..MaxOffers
  BY LimitsAssumption DEF make_offer, TypeOK, OfferId
<1>3. now + TEMPORARY_BUMP_AMOUNT \in Nat /\ funder \in SomeAccount
  BY TypeFacts, LimitsAssumption DEF SomeAccount
<1>4. [milestone_id |-> m, funder |-> funder, principal |-> principal, repayment |-> repayment,
       expires_at |-> expires_at, live_until |-> now + TEMPORARY_BUMP_AMOUNT, status |-> "Open"]
        \in OfferRecord
  BY <1>1, <1>3 DEF OfferRecord
<1>5. offers' \in [OfferId -> OfferRecord]
  BY <1>2, <1>4 DEF make_offer, TypeOK
<1>6. milestone_offers' \in [MilestoneId -> IndexRecord]
  <2>1. milestone_offers \in [MilestoneId -> IndexRecord] /\ now \in Nat
    BY TypeFacts DEF TypeOK
  <2>2. milestone_offers[m].ids \cup {offer_count + 1} \in SUBSET OfferId
    BY <1>2, <2>1 DEF IndexRecord
  <2>3. with_index(milestone_offers[m], milestone_offers[m].ids \cup {offer_count + 1}) \in IndexRecord
    BY <2>1, <2>2, WithIndex
  <2>. QED
    BY <2>1, <2>3 DEF make_offer
<1>. QED
  BY <1>2, <1>5, <1>6 DEF TypeOK, make_offer, orderVars, disputeVars

LEMMA OfferUpdate ==
  ASSUME TypeOK, NEW f \in OfferId, NEW status \in {"Accepted", "Cancelled"}
  PROVE  [offers EXCEPT ![f] = with_status(@, status)] \in [OfferId -> OfferRecord]
<1>1. offers \in [OfferId -> OfferRecord] /\ now \in Nat
  BY TypeFacts DEF TypeOK
<1>2. with_status(offers[f], status) \in OfferRecord
  BY <1>1, WithStatus
<1>. QED
  BY <1>1, <1>2

LEMMA TypeCancelOffer ==
  ASSUME TypeOK, NEW f \in OfferId, cancel_offer(f)
  PROVE  TypeOK'
<1>1. offers' \in [OfferId -> OfferRecord]
  BY OfferUpdate DEF cancel_offer
<1>. QED
  BY <1>1 DEF TypeOK, cancel_offer, orderVars, disputeVars

LEMMA TypeAcceptOffer ==
  ASSUME TypeOK, NEW f \in OfferId, accept_offer(f)
  PROVE  TypeOK'
<1>. DEFINE m == offers[f].milestone_id
            taken == [id |-> f, funder |-> offers[f].funder, principal |-> offers[f].principal,
                      repayment |-> offers[f].repayment, expires_at |-> offers[f].expires_at,
                      status |-> "Accepted"]
<1>1. offers' \in [OfferId -> OfferRecord]
  BY OfferUpdate DEF accept_offer
<1>2. requests' \in [MilestoneId -> RequestRecord]
  BY RequestUpdate DEF accept_offer
<1>3. taken \in AcceptedRecord
  <2>1. offers[f] \in OfferRecord
    BY DEF TypeOK
  <2>. QED
    BY <2>1 DEF OfferRecord, AcceptedRecord
<1>4. accepted' = [accepted EXCEPT ![m] = taken]
  BY DEF accept_offer
<1>5. accepted' \in [MilestoneId -> AcceptedRecord]
  <2>. HIDE DEF taken, m
  <2>. QED
    BY <1>3, <1>4 DEF TypeOK
<1>. QED
  BY <1>1, <1>2, <1>5 DEF TypeOK, accept_offer, orderVars, disputeVars

LEMMA TypeFundAdvance ==
  ASSUME TypeOK, NEW m \in MilestoneId, fund_advance(m)
  PROVE  TypeOK'
<1>1. accepted \in [MilestoneId -> AcceptedRecord] /\ accepted[m] \in AcceptedRecord
  BY DEF TypeOK
<1>2. positions' \in [MilestoneId -> PositionRecord]
  <2>. DEFINE opened == [offer_id |-> accepted[m].id, funder |-> accepted[m].funder,
                         principal |-> accepted[m].principal,
                         repayment |-> accepted[m].repayment, status |-> "Active"]
  <2>1. opened \in PositionRecord
    BY <1>1 DEF AcceptedRecord, PositionRecord
  <2>2. positions' = [positions EXCEPT ![m] = opened]
    BY DEF fund_advance
  <2>. HIDE DEF opened
  <2>. QED
    BY <2>1, <2>2 DEF TypeOK
<1>3. accepted' \in [MilestoneId -> AcceptedRecord]
  BY <1>1 DEF fund_advance, AcceptedRecord
<1>4. [milestones EXCEPT ![m].status = "Financed"] \in [MilestoneId -> MilestoneRecord]
  BY MilestoneUpdate, Statuses DEF Protected
<1>5. balances' \in [Holder -> Int] /\ \A a \in Account : balances'[a] >= 0
  BY TypeFacts, TransferTypes DEF fund_advance
<1>. QED
  BY <1>2, <1>3, <1>4, <1>5 DEF TypeOK, fund_advance, orderVars, disputeVars

LEMMA TypeReleaseExpired ==
  ASSUME TypeOK, NEW m \in MilestoneId, release_expired_acceptance(m)
  PROVE  TypeOK'
<1>1. accepted' \in [MilestoneId -> AcceptedRecord]
  BY BlankRecords DEF release_expired_acceptance, TypeOK
<1>2. offers' \in [OfferId -> OfferRecord]
  <2>1. offers \in [OfferId -> OfferRecord] /\ now \in Nat
    BY TypeFacts DEF TypeOK
  <2>2. \A g \in OfferId : with_status(offers[g], "Cancelled") \in OfferRecord
    BY <2>1, WithStatus
  <2>. QED
    BY <2>1, <2>2 DEF release_expired_acceptance
<1>3. requests' \in [MilestoneId -> RequestRecord]
  BY RequestUpdate DEF release_expired_acceptance
<1>4. milestones' \in [MilestoneId -> MilestoneRecord]
  <2>1. \A status \in {"FinanceRequested", "Funded"} :
          [milestones EXCEPT ![m].status = status] \in [MilestoneId -> MilestoneRecord]
    BY MilestoneUpdate, Statuses DEF Protected
  <2>. QED
    BY <2>1 DEF release_expired_acceptance
<1>. QED
  BY <1>1, <1>2, <1>3, <1>4 DEF TypeOK, release_expired_acceptance, orderVars, disputeVars

LEMMA TypeCancelRequest ==
  ASSUME TypeOK, NEW m \in MilestoneId, cancel_finance_request(m)
  PROVE  TypeOK'
<1>1. requests' \in [MilestoneId -> RequestRecord]
  BY RequestUpdate DEF cancel_finance_request
<1>2. [milestones EXCEPT ![m].status = "Funded"] \in [MilestoneId -> MilestoneRecord]
  BY MilestoneUpdate, Statuses DEF Protected
<1>3. milestone_offers' \in [MilestoneId -> IndexRecord]
  BY EmptyIndex DEF cancel_finance_request
<1>. QED
  BY <1>1, <1>2, <1>3 DEF TypeOK, cancel_finance_request, orderVars, disputeVars

-----------------------------------------------------------------------------
(* Evidence, settlement and dispute                                         *)

LEMMA TypeSubmitEvidence ==
  ASSUME TypeOK, NEW m \in MilestoneId, NEW digest \in Digest, submit_evidence(m, digest)
  PROVE  TypeOK'
<1>1. [milestones EXCEPT ![m].evidence_hash = digest, ![m].status = "Submitted"]
        \in [MilestoneId -> MilestoneRecord]
  BY MilestoneUpdate, Statuses DEF Protected
<1>. QED
  BY <1>1 DEF TypeOK, submit_evidence, orderVars, financeVars, disputeVars

LEMMA TypeAttest ==
  ASSUME TypeOK, NEW m \in MilestoneId, NEW digest, attest_milestone(m, digest)
  PROVE  TypeOK'
<1>1. [milestones EXCEPT ![m].status = "Verified"] \in [MilestoneId -> MilestoneRecord]
  BY MilestoneUpdate, Statuses DEF Protected
<1>. QED
  BY <1>1 DEF TypeOK, attest_milestone, orderVars, financeVars, disputeVars

LEMMA EndedPosition ==
  ASSUME TypeOK, NEW m \in MilestoneId, NEW status \in {"Repaid", "Closed"},
         ended_position(m, status)
  PROVE  positions' \in [MilestoneId -> PositionRecord]
<1>1. positions \in [MilestoneId -> PositionRecord] /\ positions[m] \in PositionRecord
  BY DEF TypeOK
<1>2. [positions[m] EXCEPT !.status = IF @ = "Active" THEN status ELSE @] \in PositionRecord
  BY <1>1 DEF PositionRecord
<1>3. positions' = [positions EXCEPT ![m] = [positions[m] EXCEPT !.status =
                     IF @ = "Active" THEN status ELSE @]]
  BY <1>1 DEF ended_position, PositionRecord
<1>. QED
  BY <1>1, <1>2, <1>3

LEMMA CompletedOrder ==
  ASSUME TypeOK, NEW o \in OrderId \cup {0}, complete_order_if_finished(o)
  PROVE  orders' \in [OrderId -> OrderRecord]
<1>1. orders \in [OrderId -> OrderRecord]
  BY DEF TypeOK
<1>2. [orders EXCEPT ![o].status = "Completed"] \in [OrderId -> OrderRecord]
  BY <1>1 DEF OrderRecord, OrderStatus
<1>. QED
  BY <1>1, <1>2 DEF complete_order_if_finished

\* The waterfall divides what is locked, so neither leg is negative.
LEMMA Waterfall ==
  ASSUME TypeOK, NEW m \in MilestoneId,
         compute(m).funder_repayment <= milestones[m].funded_amount
  PROVE  /\ compute(m).funder_repayment \in Nat /\ compute(m).supplier_payout \in Nat
         /\ compute(m).funder_repayment + compute(m).supplier_payout = milestones[m].funded_amount
<1>1. milestones[m].funded_amount \in Nat /\ positions[m].repayment \in Nat
  BY TypeFacts
<1>. QED
  BY <1>1 DEF compute

LEMMA TypeSettle ==
  ASSUME TypeOK, NEW m \in MilestoneId, NEW caller \in Account, settle_milestone(m, caller)
  PROVE  TypeOK'
<1>1. [milestones EXCEPT ![m].funded_amount = 0, ![m].status = "Settled"]
        \in [MilestoneId -> MilestoneRecord]
  BY MilestoneUpdate, Statuses DEF Terminal
<1>2. positions' \in [MilestoneId -> PositionRecord]
  BY EndedPosition DEF settle_milestone
<1>3. orders' \in [OrderId -> OrderRecord]
  BY CompletedOrder, TypeFacts DEF settle_milestone
<1>4. balances' \in [Holder -> Int] /\ \A a \in Account : balances'[a] >= 0
  <2>. DEFINE remainder(a) == IF a = order_of(m).supplier THEN compute(m).supplier_payout ELSE 0
              repayment(a) == IF a = positions[m].funder THEN compute(m).funder_repayment ELSE 0
              locked == milestones[m].funded_amount
  <2>1. balances \in [Holder -> Int] /\ \A a \in Account : balances[a] >= 0
    BY DEF TypeOK
  <2>2. \A a : remainder(a) \in Nat /\ repayment(a) \in Nat
    BY Waterfall DEF settle_milestone
  <2>3. locked \in Nat
    BY TypeFacts
  <2>4. balances' = [a \in Holder |-> IF a = Contract THEN balances[a] - locked
                                      ELSE balances[a] + remainder(a) + repayment(a)]
    BY <2>1 DEF settle_milestone, paid_out
  <2>5. Contract \notin Account /\ Account \subseteq Holder
    BY PartiesAssumption DEF Holder
  <2>. HIDE DEF remainder, repayment, locked
  <2>6. \A a \in Holder : balances'[a] \in Int
    BY <2>1, <2>2, <2>3, <2>4
  <2>7. \A a \in Account : balances'[a] >= 0
    BY <2>1, <2>2, <2>4, <2>5
  <2>. QED
    BY <2>4, <2>6, <2>7
<1>. QED
  BY <1>1, <1>2, <1>3, <1>4 DEF TypeOK, settle_milestone, disputeVars

LEMMA TypeOpenDispute ==
  ASSUME TypeOK, NEW m \in MilestoneId, NEW caller \in Account, open_dispute(m, caller)
  PROVE  TypeOK'
<1>1. dispute_count + 1 \in DisputeId /\ dispute_count' \in 0..MaxDisputes
  <2>1. dispute_count \in 0..MaxDisputes
    BY DEF TypeOK
  <2>2. dispute_count < MaxDisputes /\ dispute_count' = dispute_count + 1
    BY DEF open_dispute
  <2>. QED
    BY <2>1, <2>2, LimitsAssumption DEF DisputeId
<1>2. [milestone_id |-> m, opened_by |-> caller, status |-> "Open"] \in DisputeRecord
  BY DEF DisputeRecord, SomeAccount
<1>3. disputes' \in [DisputeId -> DisputeRecord]
  BY <1>1, <1>2 DEF open_dispute, TypeOK
<1>4. milestone_dispute' \in [MilestoneId -> DisputeId \cup {0}]
  BY <1>1 DEF open_dispute, TypeOK
<1>5. [milestones EXCEPT ![m].status = "Disputed"] \in [MilestoneId -> MilestoneRecord]
  BY MilestoneUpdate, Statuses DEF Protected
<1>. QED
  BY <1>1, <1>3, <1>4, <1>5 DEF TypeOK, open_dispute, orderVars, financeVars

LEMMA DisputeUpdate ==
  ASSUME TypeOK, NEW m, NEW status \in {"ResolvedSettle", "ResolvedRefund"},
         resolved(m, status)
  PROVE  disputes' \in [DisputeId -> DisputeRecord]
<1>1. disputes \in [DisputeId -> DisputeRecord]
  BY DEF TypeOK
<1>. QED
  BY <1>1 DEF resolved, DisputeRecord

LEMMA TypeResolveSettle ==
  ASSUME TypeOK, NEW m \in MilestoneId, resolve_settle(m)
  PROVE  TypeOK'
<1>1. [milestones EXCEPT ![m].status = "Verified"] \in [MilestoneId -> MilestoneRecord]
  BY MilestoneUpdate, Statuses DEF Protected
<1>2. disputes' \in [DisputeId -> DisputeRecord]
  BY DisputeUpdate DEF resolve_settle
<1>. QED
  BY <1>1, <1>2 DEF TypeOK, resolve_settle, resolved, orderVars, financeVars

LEMMA TypeResolveRefund ==
  ASSUME TypeOK, NEW m \in MilestoneId, resolve_refund(m)
  PROVE  TypeOK'
<1>1. [milestones EXCEPT ![m].funded_amount = 0, ![m].status = "Refunded"]
        \in [MilestoneId -> MilestoneRecord]
  BY MilestoneUpdate, Statuses DEF Terminal
<1>2. disputes' \in [DisputeId -> DisputeRecord]
  BY DisputeUpdate DEF resolve_refund
<1>3. positions' \in [MilestoneId -> PositionRecord]
  BY EndedPosition DEF resolve_refund
<1>4. orders' \in [OrderId -> OrderRecord]
  BY CompletedOrder, TypeFacts DEF resolve_refund
<1>5. balances' \in [Holder -> Int] /\ \A a \in Account : balances'[a] >= 0
  BY TypeFacts, PartiesAssumption, TransferTypes DEF resolve_refund
<1>. QED
  BY <1>1, <1>2, <1>3, <1>4, <1>5 DEF TypeOK, resolve_refund, resolved

LEMMA TypeAdvanceLedger ==
  ASSUME TypeOK, advance_ledger
  PROVE  TypeOK'
<1>1. offers' \in [OfferId -> OfferRecord]
  BY BlankRecords DEF TypeOK, advance_ledger
<1>2. milestone_offers' \in [MilestoneId -> IndexRecord]
  BY BlankRecords DEF TypeOK, advance_ledger
<1>3. now' \in 0..Horizon
  BY LimitsAssumption DEF TypeOK, advance_ledger
<1>. QED
  BY <1>1, <1>2, <1>3 DEF TypeOK, advance_ledger, orderVars, disputeVars

-----------------------------------------------------------------------------
LEMMA TypeStutters == TypeOK /\ UNCHANGED vars => TypeOK'
BY DEF TypeOK, vars, orderVars, financeVars, disputeVars

LEMMA TypeStep == TypeOK /\ [Next]_vars => TypeOK'
BY TypeCreateOrder, TypeCreateMilestone, TypeAcceptOrder, TypeCancelOrder, TypeFundMilestone,
   TypeCancelPartialFunding, TypeRequestFinance, TypeMakeOffer, TypeCancelOffer, TypeAcceptOffer,
   TypeFundAdvance, TypeReleaseExpired, TypeCancelRequest, TypeSubmitEvidence, TypeAttest,
   TypeSettle, TypeOpenDispute, TypeResolveSettle, TypeResolveRefund, TypeAdvanceLedger,
   TypeStutters
   DEF Next

\* Every storage entry has the shape types.rs gives it and no wallet is overdrawn,
\* by any invocation, for any accounts, amounts, limits and clock.
THEOREM TypeCorrect == Spec => []TypeOK
<1>. QED
  BY TypeInit, TypeStep, PTL DEF Spec

-----------------------------------------------------------------------------
(* The inductive invariant                                                  *)

\* Orders and milestones are numbered as they are created; a milestone belongs
\* to one order, between two accounts, and an absent one is blank.
Registered ==
  /\ \A o \in OrderId :
       /\ orders[o].status # "Absent" <=> o <= order_count
       /\ orders[o].status # "Absent" =>
            /\ orders[o].buyer \in Account /\ orders[o].supplier \in Account
            /\ orders[o].buyer # orders[o].supplier
       /\ \A m \in MilestoneId :
            m \in order_milestones[o] <=>
              milestones[m].status # "Absent" /\ milestones[m].order_id = o
  /\ \A m \in MilestoneId :
       /\ milestones[m].status # "Absent" <=> m <= milestone_count
       /\ milestones[m].status # "Absent" =>
            milestones[m].order_id \in OrderId /\ order_of(m).status # "Absent"
       /\ milestones[m].status = "Absent" => milestones[m] = NoMilestone

\* No money reaches a milestone before its order is active.
UntouchedBefore ==
  \A m \in MilestoneId :
    milestones[m].status # "Absent" /\ order_of(m).status \in {"Created", "Cancelled"} =>
      milestones[m].status = "Unfunded" /\ milestones[m].funded_amount = 0

\* Offers are numbered as they are made, by accounts, on milestones; their storage
\* is never promised further than one bump ahead; an index lists offers of its
\* milestone's round only, until the round is closed.
OffersRegistered ==
  /\ \A f \in OfferId :
       /\ offers[f].live_until <= now + TEMPORARY_BUMP_AMOUNT
       /\ offers[f].status # "Absent" =>
            /\ f <= offer_count
            /\ offers[f].milestone_id \in MilestoneId /\ offers[f].funder \in Account
            /\ offers[f].expires_at <= offers[f].live_until
  /\ \A m \in MilestoneId :
       /\ \A f \in milestone_offers[m].ids : f <= offer_count
       /\ requests[m].status \in {"Open", "Accepted"} =>
            \A f \in milestone_offers[m].ids : offers[f].status # "Absent" =>
              /\ offers[f].milestone_id = m
              /\ offers[f].principal = requests[m].requested_principal
       /\ accepted[m].status # "Absent" => accepted[m].funder \in Account
       /\ positions[m].status = "Absent" => positions[m] = NoPosition

\* Disputes are numbered as they are opened, and linked both ways.
DisputesRegistered ==
  /\ \A d \in DisputeId : disputes[d].status # "Absent" <=> d <= dispute_count
  /\ \A m \in MilestoneId : milestone_dispute[m] # 0 =>
       /\ disputes[milestone_dispute[m]].status # "Absent"
       /\ disputes[milestone_dispute[m]].milestone_id = m

ContractInv ==
  /\ TypeOK /\ Registered
  /\ ProtectedInFull
  /\ UntouchedBefore /\ CompletedWithLastMilestone
  /\ OffersRegistered /\ FinancingSound
  /\ DisputesRegistered /\ DisputeCoherent

-----------------------------------------------------------------------------
(* Orders and milestones                                                    *)

\* What every step but the two that create keeps of the records it rewrites.
Kept ==
  /\ UNCHANGED <<order_milestones, order_count, milestone_count>>
  /\ \A o \in OrderId :
       /\ orders'[o].buyer = orders[o].buyer /\ orders'[o].supplier = orders[o].supplier
       /\ orders'[o].status = "Absent" <=> orders[o].status = "Absent"
  /\ \A m \in MilestoneId :
       /\ milestones'[m].order_id = milestones[m].order_id
       /\ milestones'[m].amount = milestones[m].amount
       /\ milestones'[m].status = "Absent" <=> milestones[m].status = "Absent"
       /\ milestones[m].status = "Absent" => milestones'[m] = milestones[m]

\* The one milestone a step works on, in an order that is active.
Touches(m) ==
  /\ milestones[m].status \notin {"Absent"} \cup Terminal /\ order_of(m).status = "Active"
  /\ milestones'[m].status # "Absent"
  /\ milestones'[m].order_id = milestones[m].order_id
  /\ milestones'[m].amount = milestones[m].amount
  /\ \A k \in MilestoneId : k # m => milestones'[k] = milestones[k]

\* A step that works on a milestone and leaves it open.
Works(m) ==
  /\ Touches(m) /\ milestones'[m].status \notin Terminal
  /\ UNCHANGED <<orders, order_milestones, order_count, milestone_count>>

\* A step that ends a milestone, and its order with the last one.
Ends(m) ==
  /\ Touches(m) /\ milestones'[m].status \in Terminal /\ milestones'[m].funded_amount = 0
  /\ complete_order_if_finished(milestones[m].order_id)
  /\ UNCHANGED <<order_milestones, order_count, milestone_count>>

\* A step that leaves orders and milestones as they are.
Aside == UNCHANGED <<orderVars, milestones, milestone_count>>

Opens == \E o \in OrderId, amount \in MilestoneAmounts : create_milestone(o, amount)
Orders ==
  \/ \E roles \in Proposals : create_order(roles)
  \/ \E o \in OrderId : accept_order(o) \/ cancel_order(o)

LEMMA MilestoneTypes ==
  ASSUME TypeOK
  PROVE  /\ milestones \in [MilestoneId -> MilestoneRecord]
         /\ orders \in [OrderId -> OrderRecord]
BY DEF TypeOK

LEMMA Working ==
  ASSUME TypeOK, NEW m \in MilestoneId
  PROVE  /\ \A amount \in Payments, asset \in Asset : fund_milestone(m, amount, asset) => Works(m)
         /\ cancel_partial_funding(m) => Works(m)
         /\ \A principal \in Payments, expires_at \in Expiries :
              request_finance(m, principal, expires_at) => Works(m)
         /\ fund_advance(m) => Works(m)
         /\ release_expired_acceptance(m) => Works(m)
         /\ cancel_finance_request(m) => Works(m)
         /\ \A digest \in Digest : submit_evidence(m, digest) \/ attest_milestone(m, digest) => Works(m)
         /\ \A caller \in Account : open_dispute(m, caller) => Works(m)
         /\ resolve_settle(m) => Works(m)
<1>1. milestones \in [MilestoneId -> MilestoneRecord]
  BY DEF TypeOK
<1>. USE <1>1 DEF MilestoneRecord, Works, Touches, in_active_order, Terminal, orderVars
<1>2. ASSUME NEW amount \in Payments, NEW asset \in Asset, fund_milestone(m, amount, asset)
      PROVE  Works(m)
  BY <1>2 DEF fund_milestone, status_after
<1>3. ASSUME cancel_partial_funding(m) PROVE Works(m)
  BY <1>3 DEF cancel_partial_funding
<1>4. ASSUME NEW principal \in Payments, NEW expires_at \in Expiries,
             request_finance(m, principal, expires_at)
      PROVE  Works(m)
  BY <1>4 DEF request_finance
<1>5. ASSUME fund_advance(m) PROVE Works(m)
  BY <1>5 DEF fund_advance
<1>6. ASSUME release_expired_acceptance(m) PROVE Works(m)
  BY <1>6 DEF release_expired_acceptance
<1>7. ASSUME cancel_finance_request(m) PROVE Works(m)
  BY <1>7 DEF cancel_finance_request
<1>8. ASSUME NEW digest \in Digest, submit_evidence(m, digest) \/ attest_milestone(m, digest)
      PROVE  Works(m)
  BY <1>8 DEF submit_evidence, attest_milestone, Workable
<1>9. ASSUME NEW caller \in Account, open_dispute(m, caller) PROVE Works(m)
  BY <1>9 DEF open_dispute, Workable
<1>10. ASSUME resolve_settle(m) PROVE Works(m)
  BY <1>10 DEF resolve_settle, resolvable
<1>. QED
  BY <1>2, <1>3, <1>4, <1>5, <1>6, <1>7, <1>8, <1>9, <1>10

LEMMA Ending ==
  ASSUME TypeOK, NEW m \in MilestoneId
  PROVE  /\ \A caller \in Account : settle_milestone(m, caller) => Ends(m)
         /\ resolve_refund(m) => Ends(m)
<1>1. milestones \in [MilestoneId -> MilestoneRecord]
  BY DEF TypeOK
<1>. USE <1>1 DEF MilestoneRecord, Ends, Touches, in_active_order, Terminal, orderVars
<1>2. ASSUME NEW caller \in Account, settle_milestone(m, caller) PROVE Ends(m)
  BY <1>2 DEF settle_milestone
<1>3. ASSUME resolve_refund(m) PROVE Ends(m)
  BY <1>3 DEF resolve_refund, resolvable
<1>. QED
  BY <1>2, <1>3

LEMMA Besides ==
  /\ \A m \in MilestoneId, funder \in Account, principal, repayment \in Payments,
        expires_at \in Expiries :
       make_offer(m, funder, principal, repayment, expires_at) => Aside
  /\ \A f \in OfferId : cancel_offer(f) \/ accept_offer(f) => Aside
  /\ advance_ledger => Aside
  /\ UNCHANGED vars => Aside
BY DEF make_offer, cancel_offer, accept_offer, advance_ledger, vars, orderVars, Aside

\* Every step, by what it does to orders and milestones.
LEMMA StepKinds ==
  ASSUME TypeOK, [Next]_vars
  PROVE  Orders \/ Opens \/ Aside \/ \E m \in MilestoneId : Works(m) \/ Ends(m)
BY Working, Ending, Besides DEF Next, Orders, Opens

LEMMA OpeningFresh ==
  ASSUME TypeOK, Registered, Opens
  PROVE  \E o \in OrderId : \E amount \in MilestoneAmounts :
           /\ create_milestone(o, amount)
           /\ milestone_count + 1 \in MilestoneId
           /\ milestones[milestone_count + 1].status = "Absent"
           /\ milestones[milestone_count + 1] = NoMilestone
<1>1. PICK o \in OrderId, amount \in MilestoneAmounts : create_milestone(o, amount)
  BY DEF Opens
<1>2. milestone_count + 1 \in MilestoneId /\ milestone_count \in Nat
  BY <1>1, LimitsAssumption DEF create_milestone, TypeOK, MilestoneId
<1>. QED
  BY <1>1, <1>2 DEF Registered

LEMMA KeptBy ==
  ASSUME TypeOK, NEW m \in MilestoneId, Works(m) \/ Ends(m)
  PROVE  Kept
<1>1. orders \in [OrderId -> OrderRecord]
  BY DEF TypeOK
<1>2. \A k \in MilestoneId :
        /\ milestones'[k].order_id = milestones[k].order_id
        /\ milestones'[k].amount = milestones[k].amount
        /\ milestones'[k].status = "Absent" <=> milestones[k].status = "Absent"
        /\ milestones[k].status = "Absent" => milestones'[k] = milestones[k]
  BY DEF Works, Ends, Touches
<1>3. \A o \in OrderId :
        /\ orders'[o].buyer = orders[o].buyer /\ orders'[o].supplier = orders[o].supplier
        /\ orders'[o].status = "Absent" <=> orders[o].status = "Absent"
  <2>1. CASE Works(m)
    BY <2>1 DEF Works
  <2>2. CASE Ends(m)
    <3>1. order_of(m).status = "Active"
      BY <2>2 DEF Ends, Touches
    <3>. QED
      BY <1>1, <2>2, <3>1 DEF Ends, complete_order_if_finished, OrderRecord, order_of
  <2>. QED
    BY <2>1, <2>2
<1>. QED
  BY <1>2, <1>3 DEF Kept, Works, Ends

LEMMA RegisteredKept ==
  ASSUME TypeOK, Registered, Kept
  PROVE  Registered'
<1>1. \A m \in MilestoneId : milestones[m].status # "Absent" => milestones[m].order_id \in OrderId
  BY DEF Registered
<1>2. \A m \in MilestoneId : milestones'[m].order_id = milestones[m].order_id
  BY DEF Kept
<1>3. \A m \in MilestoneId : milestones[m].status # "Absent" => order_of(m)'.status # "Absent"
  BY <1>1, <1>2 DEF Kept, Registered, order_of
<1>4. \A m \in MilestoneId :
       /\ milestones'[m].status # "Absent" <=> m <= milestone_count'
       /\ milestones'[m].status # "Absent" =>
            milestones'[m].order_id \in OrderId /\ order_of(m)'.status # "Absent"
       /\ milestones'[m].status = "Absent" => milestones'[m] = NoMilestone
  BY <1>1, <1>2, <1>3 DEF Kept, Registered
<1>5. \A o \in OrderId :
       /\ orders'[o].status # "Absent" <=> o <= order_count'
       /\ orders'[o].status # "Absent" =>
            /\ orders'[o].buyer \in Account /\ orders'[o].supplier \in Account
            /\ orders'[o].buyer # orders'[o].supplier
       /\ \A m \in MilestoneId :
            m \in order_milestones'[o] <=>
              milestones'[m].status # "Absent" /\ milestones'[m].order_id = o
  BY DEF Kept, Registered
<1>. QED
  BY <1>4, <1>5 DEF Registered

LEMMA RegisteredOrders ==
  ASSUME TypeOK, Registered, Orders
  PROVE  Registered'
<1>1. orders \in [OrderId -> OrderRecord] /\ order_count \in Nat /\ OrderId \subseteq Nat
  BY TypeFacts, IdFacts DEF TypeOK
<1>2. ASSUME NEW roles \in Proposals, create_order(roles)
      PROVE  Registered'
  <2>1. roles.buyer \in Account /\ roles.supplier \in Account /\ roles.buyer # roles.supplier
    BY <1>2, PartiesAssumption DEF create_order
  <2>2. order_count + 1 \in OrderId
    BY <1>1, <1>2, LimitsAssumption DEF create_order, OrderId
  <2>3. /\ orders'[order_count + 1].buyer = roles.buyer
        /\ orders'[order_count + 1].supplier = roles.supplier
        /\ orders'[order_count + 1].status = "Created"
        /\ \A o \in OrderId : o # order_count + 1 => orders'[o] = orders[o]
    BY <1>1, <1>2, <2>2 DEF create_order
  <2>4. order_count' = order_count + 1 /\ UNCHANGED <<order_milestones, milestones, milestone_count>>
    BY <1>2 DEF create_order
  <2>5. \A o \in OrderId :
         /\ orders'[o].status # "Absent" <=> o <= order_count'
         /\ orders'[o].status # "Absent" =>
              /\ orders'[o].buyer \in Account /\ orders'[o].supplier \in Account
              /\ orders'[o].buyer # orders'[o].supplier
    <3>1. \A o \in OrderId : o <= order_count' <=> o <= order_count \/ o = order_count + 1
      BY <1>1, <2>4
    <3>2. \A o \in OrderId : o # order_count + 1 =>
            /\ orders[o].status # "Absent" <=> o <= order_count
            /\ orders[o].status # "Absent" =>
                 /\ orders[o].buyer \in Account /\ orders[o].supplier \in Account
                 /\ orders[o].buyer # orders[o].supplier
      BY DEF Registered
    <3>. QED
      BY <2>1, <2>3, <3>1, <3>2
  <2>6. \A m \in MilestoneId :
          milestones[m].status # "Absent" =>
            milestones[m].order_id \in OrderId /\ order_of(m)'.status # "Absent"
    BY <2>3, <2>4 DEF Registered, order_of
  <2>. QED
    BY <2>4, <2>5, <2>6 DEF Registered
<1>3. ASSUME NEW o \in OrderId, accept_order(o) \/ cancel_order(o)
      PROVE  Registered'
  <2>1. Kept
    BY <1>1, <1>3 DEF Kept, accept_order, cancel_order, OrderRecord
  <2>. QED
    BY <2>1, RegisteredKept
<1>. QED
  BY <1>2, <1>3 DEF Orders

LEMMA RegisteredOpens ==
  ASSUME TypeOK, Registered, Opens
  PROVE  Registered'
<1>1. PICK o \in OrderId, amount \in MilestoneAmounts :
        /\ create_milestone(o, amount)
        /\ milestone_count + 1 \in MilestoneId
        /\ milestones[milestone_count + 1] = NoMilestone
  BY OpeningFresh
<1>0. PICK new \in MilestoneId : new = milestone_count + 1
  BY <1>1
<1>2. /\ MilestoneId \subseteq Nat /\ milestone_count \in Nat
      /\ milestone_count' = new /\ UNCHANGED <<orders, order_count>>
      /\ orders[o].status # "Absent"
  BY <1>0, <1>1, TypeFacts, IdFacts DEF create_milestone
<1>3. /\ milestones'[new].status = "Unfunded" /\ milestones'[new].order_id = o
      /\ \A m \in MilestoneId : m # new => milestones'[m] = milestones[m]
  BY <1>0, <1>1 DEF create_milestone, TypeOK
<1>4. /\ order_milestones'[o] = order_milestones[o] \cup {new}
      /\ \A p \in OrderId : p # o => order_milestones'[p] = order_milestones[p]
  BY <1>0, <1>1 DEF create_milestone, TypeOK
<1>5. milestones[new].status = "Absent"
  BY <1>0, <1>1 DEF NoMilestone
<1>6. \A m \in MilestoneId :
       /\ milestones'[m].status # "Absent" <=> m <= milestone_count'
       /\ milestones'[m].status # "Absent" =>
            milestones'[m].order_id \in OrderId /\ order_of(m)'.status # "Absent"
       /\ milestones'[m].status = "Absent" => milestones'[m] = NoMilestone
  <2>1. \A m \in MilestoneId : m <= milestone_count' <=> m <= milestone_count \/ m = new
    BY <1>0, <1>2
  <2>2. \A m \in MilestoneId : m # new =>
           /\ milestones'[m].status # "Absent" <=> m <= milestone_count'
           /\ milestones'[m].status # "Absent" =>
                milestones'[m].order_id \in OrderId /\ order_of(m)'.status # "Absent"
           /\ milestones'[m].status = "Absent" => milestones'[m] = NoMilestone
    <3>1. \A m \in MilestoneId : m # new =>
           /\ milestones[m].status # "Absent" <=> m <= milestone_count
           /\ milestones[m].status # "Absent" =>
                milestones[m].order_id \in OrderId /\ orders[milestones[m].order_id].status # "Absent"
           /\ milestones[m].status = "Absent" => milestones[m] = NoMilestone
      BY DEF Registered, order_of
    <3>. QED
      BY <2>1, <1>2, <1>3, <3>1 DEF order_of
  <2>3. order_of(new)' = orders[o]
    BY <1>2, <1>3 DEF order_of
  <2>. QED
    BY <2>1, <2>2, <2>3, <1>2, <1>3
<1>7. \A p \in OrderId : \A m \in MilestoneId :
        m \in order_milestones'[p] <=>
          milestones'[m].status # "Absent" /\ milestones'[m].order_id = p
  BY <1>3, <1>4, <1>5 DEF Registered
<1>. QED
  BY <1>2, <1>6, <1>7 DEF Registered

LEMMA RegisteredStep ==
  ASSUME TypeOK, Registered, [Next]_vars
  PROVE  Registered'
<1>1. ASSUME Aside PROVE Kept
  BY <1>1 DEF Aside, Kept, orderVars
<1>. QED
  BY <1>1, StepKinds, RegisteredOrders, RegisteredOpens, KeptBy, RegisteredKept

-----------------------------------------------------------------------------
(* Escrow                                                                   *)

\* What ProtectedInFull says of one milestone.
InFull(milestone) ==
  /\ milestone.status \in Protected =>
       milestone.funded_amount = milestone.amount /\ milestone.amount > 0
  /\ milestone.status = "Unfunded" => milestone.funded_amount < milestone.amount
  /\ milestone.status \in Terminal \cup {"Absent"} => milestone.funded_amount = 0

LEMMA InFullFacts ==
  /\ ProtectedInFull <=> \A m \in MilestoneId : InFull(milestones[m])
  /\ ProtectedInFull' <=> \A m \in MilestoneId : InFull(milestones'[m])
BY DEF ProtectedInFull, InFull

LEMMA InFullWorks ==
  ASSUME TypeOK, NEW m \in MilestoneId, InFull(milestones[m])
  PROVE  /\ \A amount \in Payments, asset \in Asset :
              fund_milestone(m, amount, asset) => InFull(milestones'[m])
         /\ cancel_partial_funding(m) => InFull(milestones'[m])
         /\ \A principal \in Payments, expires_at \in Expiries :
              request_finance(m, principal, expires_at) => InFull(milestones'[m])
         /\ fund_advance(m) => InFull(milestones'[m])
         /\ release_expired_acceptance(m) => InFull(milestones'[m])
         /\ cancel_finance_request(m) => InFull(milestones'[m])
         /\ \A digest \in Digest :
              submit_evidence(m, digest) \/ attest_milestone(m, digest) => InFull(milestones'[m])
         /\ \A caller \in Account :
              settle_milestone(m, caller) \/ open_dispute(m, caller) => InFull(milestones'[m])
         /\ resolve_settle(m) \/ resolve_refund(m) => InFull(milestones'[m])
<1>1. /\ milestones \in [MilestoneId -> MilestoneRecord]
      /\ milestones[m].amount \in Nat /\ milestones[m].funded_amount \in Nat
  BY TypeFacts DEF TypeOK
<1>. USE <1>1 DEF MilestoneRecord, in_active_order, Protected, Terminal, InFull
<1>2. ASSUME NEW amount \in Payments, NEW asset \in Asset, fund_milestone(m, amount, asset)
      PROVE  InFull(milestones'[m])
  <2>. DEFINE total == milestones[m].funded_amount + amount
  <2>1. total \in Nat /\ 0 < total /\ total <= milestones[m].amount
    BY <1>2, ValuesAssumption DEF fund_milestone
  <2>2. /\ milestones'[m].funded_amount = total /\ milestones'[m].amount = milestones[m].amount
        /\ milestones'[m].status = IF total = milestones[m].amount THEN "Funded" ELSE "Unfunded"
    BY <1>2 DEF fund_milestone, status_after
  <2>. QED
    BY <2>1, <2>2
<1>3. ASSUME cancel_partial_funding(m) PROVE InFull(milestones'[m])
  BY <1>3 DEF cancel_partial_funding
<1>4. ASSUME NEW principal \in Payments, NEW expires_at \in Expiries,
             request_finance(m, principal, expires_at)
      PROVE  InFull(milestones'[m])
  BY <1>4 DEF request_finance
<1>5. ASSUME fund_advance(m) PROVE InFull(milestones'[m])
  BY <1>5 DEF fund_advance
<1>6. ASSUME release_expired_acceptance(m) PROVE InFull(milestones'[m])
  BY <1>6 DEF release_expired_acceptance
<1>7. ASSUME cancel_finance_request(m) PROVE InFull(milestones'[m])
  BY <1>7 DEF cancel_finance_request
<1>8. ASSUME NEW digest \in Digest, submit_evidence(m, digest) \/ attest_milestone(m, digest)
      PROVE  InFull(milestones'[m])
  BY <1>8 DEF submit_evidence, attest_milestone, Workable
<1>9. ASSUME NEW caller \in Account, settle_milestone(m, caller) \/ open_dispute(m, caller)
      PROVE  InFull(milestones'[m])
  BY <1>9 DEF settle_milestone, open_dispute, Workable
<1>10. ASSUME resolve_settle(m) \/ resolve_refund(m) PROVE InFull(milestones'[m])
  BY <1>10 DEF resolve_settle, resolve_refund, resolvable
<1>. QED
  BY <1>2, <1>3, <1>4, <1>5, <1>6, <1>7, <1>8, <1>9, <1>10

LEMMA InFullOpens ==
  ASSUME TypeOK, Registered, ProtectedInFull, Opens
  PROVE  ProtectedInFull'
<1>1. PICK o \in OrderId, amount \in MilestoneAmounts :
        create_milestone(o, amount) /\ milestone_count + 1 \in MilestoneId
  BY OpeningFresh
<1>2. PICK new \in MilestoneId : new = milestone_count + 1
  BY <1>1
<1>3. /\ milestones'[new].status = "Unfunded" /\ milestones'[new].amount > 0
      /\ milestones'[new].funded_amount = 0
      /\ \A m \in MilestoneId : m # new => milestones'[m] = milestones[m]
  BY <1>1, <1>2 DEF create_milestone, TypeOK
<1>4. InFull(milestones'[new])
  BY <1>3 DEF InFull, Protected, Terminal
<1>. QED
  BY <1>3, <1>4, InFullFacts

LEMMA ProtectedStep ==
  ASSUME TypeOK, Registered, ProtectedInFull, [Next]_vars
  PROVE  ProtectedInFull'
<1>1. ASSUME Orders \/ Aside PROVE ProtectedInFull'
  BY <1>1, InFullFacts DEF Orders, Aside, create_order, accept_order, cancel_order
<1>2. ASSUME NEW m \in MilestoneId, Works(m) \/ Ends(m), InFull(milestones'[m])
      PROVE  ProtectedInFull'
  BY <1>2, InFullFacts DEF Works, Ends, Touches
<1>. QED
  BY <1>1, <1>2, InFullOpens, InFullWorks, Working, Ending, Besides, InFullFacts
     DEF Next, Orders, Opens

-----------------------------------------------------------------------------
(* Completing                                                               *)

Completing == Registered /\ UntouchedBefore /\ CompletedWithLastMilestone

LEMMA CompletionAside ==
  ASSUME Completing, Aside
  PROVE  UntouchedBefore' /\ CompletedWithLastMilestone'
BY DEF Completing, Aside, orderVars, UntouchedBefore, CompletedWithLastMilestone, order_of

LEMMA CompletionOrders ==
  ASSUME TypeOK, Completing, Orders
  PROVE  UntouchedBefore' /\ CompletedWithLastMilestone'
<1>1. orders \in [OrderId -> OrderRecord] /\ order_count \in Nat
  BY TypeFacts DEF TypeOK
<1>2. UNCHANGED <<order_milestones, milestones>>
  BY DEF Orders, create_order, accept_order, cancel_order
<1>3. ASSUME NEW o \in OrderId, \A p \in OrderId : p # o => orders'[p] = orders[p],
             \/ /\ orders[o].status = "Absent" /\ orders'[o].status = "Created"
             \/ /\ orders[o].status = "Created" /\ orders'[o].status \in {"Active", "Cancelled"}
      PROVE  UntouchedBefore' /\ CompletedWithLastMilestone'
  <2>1. UntouchedBefore'
    BY <1>2, <1>3 DEF Completing, UntouchedBefore, Registered, order_of
  <2>2. \A m \in order_milestones[o] : milestones[m].status = "Unfunded" /\ milestones[m].funded_amount = 0
    BY <1>3 DEF Completing, UntouchedBefore, Registered, order_of, TypeOK
  <2>. QED
    BY <1>2, <1>3, <2>1, <2>2 DEF Completing, CompletedWithLastMilestone, Terminal
<1>4. ASSUME NEW roles \in Proposals, create_order(roles)
      PROVE  UntouchedBefore' /\ CompletedWithLastMilestone'
  <2>1. PICK new \in OrderId : new = order_count + 1
    BY <1>1, <1>4, LimitsAssumption DEF create_order, OrderId
  <2>2. orders[new].status = "Absent"
    BY <1>1, <2>1 DEF Completing, Registered
  <2>3. orders'[new].status = "Created" /\ \A p \in OrderId : p # new => orders'[p] = orders[p]
    BY <1>1, <1>4, <2>1 DEF create_order
  <2>. QED
    BY <1>3, <2>2, <2>3
<1>5. ASSUME NEW o \in OrderId, accept_order(o) \/ cancel_order(o)
      PROVE  UntouchedBefore' /\ CompletedWithLastMilestone'
  <2>1. /\ orders[o].status = "Created" /\ orders'[o].status \in {"Active", "Cancelled"}
        /\ \A p \in OrderId : p # o => orders'[p] = orders[p]
    BY <1>1, <1>5 DEF accept_order, cancel_order, OrderRecord
  <2>. QED
    BY <1>3, <2>1
<1>. QED
  BY <1>4, <1>5 DEF Orders

LEMMA CompletionOpens ==
  ASSUME TypeOK, Completing, Opens
  PROVE  UntouchedBefore' /\ CompletedWithLastMilestone'
<1>1. PICK o \in OrderId, amount \in MilestoneAmounts :
        create_milestone(o, amount) /\ milestone_count + 1 \in MilestoneId
  BY OpeningFresh DEF Completing
<1>2. PICK new \in MilestoneId : new = milestone_count + 1
  BY <1>1
<1>3. /\ milestones'[new].status = "Unfunded" /\ milestones'[new].funded_amount = 0
      /\ milestones'[new].order_id = o
      /\ \A m \in MilestoneId : m # new => milestones'[m] = milestones[m]
      /\ order_milestones'[o] = order_milestones[o] \cup {new}
      /\ \A p \in OrderId : p # o => order_milestones'[p] = order_milestones[p]
      /\ orders[o].status = "Created" /\ UNCHANGED orders
  BY <1>1, <1>2 DEF create_milestone, TypeOK
<1>4. milestones[new].status = "Absent"
  BY <1>1, <1>2, TypeFacts, OpeningFresh DEF Completing, Registered
<1>5. UntouchedBefore'
  BY <1>3 DEF Completing, UntouchedBefore, order_of
<1>6. \A p \in OrderId : new \notin order_milestones[p] /\ order_milestones[p] \subseteq MilestoneId
  BY <1>4 DEF Completing, Registered, TypeOK
<1>. QED
  BY <1>3, <1>5, <1>6 DEF Completing, CompletedWithLastMilestone, Terminal

LEMMA CompletionWorks ==
  ASSUME TypeOK, Completing, NEW m \in MilestoneId, Works(m)
  PROVE  UntouchedBefore' /\ CompletedWithLastMilestone'
<1>. USE DEF Completing, Works, Touches
<1>1. \A k \in MilestoneId : k # m => milestones'[k] = milestones[k] /\ order_of(k)' = order_of(k)
  BY DEF order_of
<1>2. order_of(m)' = order_of(m) /\ order_of(m).status = "Active"
  BY DEF order_of
<1>3. UntouchedBefore'
  BY <1>1, <1>2 DEF UntouchedBefore
<1>4. \A o \in OrderId : order_milestones[o] \subseteq MilestoneId /\
        (m \in order_milestones[o] => orders[o].status = "Active")
  BY DEF Registered, TypeOK, order_of
<1>. QED
  BY <1>1, <1>3, <1>4 DEF CompletedWithLastMilestone

LEMMA CompletionEnds ==
  ASSUME TypeOK, Completing, NEW m \in MilestoneId, Ends(m)
  PROVE  UntouchedBefore' /\ CompletedWithLastMilestone'
<1>. USE DEF Completing, Ends, Touches
<1>1. PICK o \in OrderId : o = milestones[m].order_id
  BY DEF Registered
<1>2. /\ orders[o].status = "Active" /\ m \in order_milestones[o]
      /\ \A p \in OrderId : p # o => m \notin order_milestones[p]
      /\ \A p \in OrderId : order_milestones[p] \subseteq MilestoneId
  BY <1>1 DEF Registered, TypeOK, order_of
<1>3. /\ \A p \in OrderId : p # o => orders'[p] = orders[p]
      /\ orders'[o].status =
           IF \A k \in order_milestones[o] : milestones'[k].status \in Terminal
           THEN "Completed" ELSE "Active"
  BY <1>1, <1>2 DEF complete_order_if_finished, TypeOK, OrderRecord
<1>4. UntouchedBefore'
  <2>1. ASSUME NEW k \in MilestoneId, milestones'[k].status # "Absent",
               order_of(k)'.status \in {"Created", "Cancelled"}
        PROVE  milestones'[k].status = "Unfunded" /\ milestones'[k].funded_amount = 0
    <3>1. milestones'[k].order_id # o
      BY <1>3, <2>1 DEF order_of
    <3>2. k # m
      BY <1>1, <3>1
    <3>3. milestones'[k] = milestones[k] /\ milestones[k].order_id \in OrderId
      BY <2>1, <3>2 DEF Registered
    <3>4. order_of(k)' = order_of(k)
      BY <1>3, <3>1, <3>3 DEF order_of
    <3>. QED
      BY <2>1, <3>3, <3>4 DEF UntouchedBefore
  <2>. QED
    BY <2>1 DEF UntouchedBefore
<1>5. CompletedWithLastMilestone'
  <2>1. ASSUME NEW p \in OrderId, p # o
        PROVE  /\ orders'[p] = orders[p] /\ order_milestones'[p] = order_milestones[p]
               /\ \A k \in order_milestones[p] : milestones'[k] = milestones[k]
    BY <1>2, <1>3, <2>1
  <2>2. order_milestones'[o] = order_milestones[o] /\ order_milestones[o] # {}
    BY <1>2
  <2>. QED
    BY <1>3, <2>1, <2>2 DEF CompletedWithLastMilestone
<1>. QED
  BY <1>4, <1>5

LEMMA CompletionStep ==
  ASSUME TypeOK, Completing, [Next]_vars
  PROVE  UntouchedBefore' /\ CompletedWithLastMilestone'
BY StepKinds, CompletionAside, CompletionOrders, CompletionOpens, CompletionWorks, CompletionEnds

-----------------------------------------------------------------------------
(* Disputes                                                                 *)

DisputeInv == DisputesRegistered /\ DisputeCoherent

LEMMA DisputeTypes ==
  ASSUME TypeOK
  PROVE  /\ \A d \in DisputeId :
              /\ d # 0
              /\ disputes[d].milestone_id \in MilestoneId \cup {0}
              /\ disputes[d].status \in {"Absent", "Open", "ResolvedSettle", "ResolvedRefund"}
         /\ \A m \in MilestoneId : m # 0 /\ milestone_dispute[m] \in DisputeId \cup {0}
<1>1. \A d \in DisputeId : disputes[d] \in DisputeRecord
  BY DEF TypeOK
<1>. QED
  BY <1>1, IdFacts DEF TypeOK, DisputeRecord

\* A milestone none of whose disputes is open or decided has none.
LEMMA Undisputed ==
  ASSUME TypeOK, DisputeInv, NEW m \in MilestoneId,
         milestones[m].status \notin {"Disputed", "Verified", "Settled", "Refunded"}
  PROVE  /\ \A d \in DisputeId : disputes[d].status # "Absent" => disputes[d].milestone_id # m
         /\ milestone_dispute[m] = 0
<1>1. \A d \in DisputeId : disputes[d].status # "Absent" => disputes[d].milestone_id # m
  BY DisputeTypes DEF DisputeInv, DisputeCoherent
<1>. QED
  BY <1>1, DisputeTypes DEF DisputeInv, DisputesRegistered

\* Working on a milestone without dispute, or settling one, disputes nothing.
LEMMA DisputeElsewhere ==
  ASSUME TypeOK, DisputeInv, NEW m \in MilestoneId, UNCHANGED disputeVars,
         \A k \in MilestoneId : k # m => milestones'[k].status = milestones[k].status,
         \/ /\ milestones[m].status \notin {"Disputed", "Verified", "Settled", "Refunded"}
            /\ milestones'[m].status # "Disputed"
         \/ milestones[m].status = "Verified" /\ milestones'[m].status = "Settled"
  PROVE  DisputeInv'
<1>1. DisputesRegistered'
  BY DEF DisputeInv, DisputesRegistered, disputeVars
<1>2. ASSUME NEW k \in MilestoneId
      PROVE  milestones'[k].status = "Disputed" <=> milestones[k].status = "Disputed"
  BY <1>2
<1>3. \A k \in MilestoneId : milestones'[k].status = "Disputed" <=>
        milestone_dispute'[k] # 0 /\ disputes'[milestone_dispute'[k]].status = "Open"
  BY <1>2 DEF DisputeInv, DisputeCoherent, disputeVars
<1>4. ASSUME NEW d \in DisputeId
      PROVE  LET k == disputes'[d].milestone_id IN
             /\ disputes'[d].status # "Absent" => k # 0 /\ milestone_dispute'[k] = d
             /\ disputes'[d].status = "ResolvedSettle" => milestones'[k].status \in {"Verified", "Settled"}
             /\ disputes'[d].status = "ResolvedRefund" => milestones'[k].status = "Refunded"
  <2>1. CASE disputes[d].status = "Absent"
    BY <2>1 DEF disputeVars
  <2>2. CASE disputes[d].status # "Absent"
    <3>1. disputes[d].milestone_id \in MilestoneId
      BY <2>2, DisputeTypes DEF DisputeInv, DisputeCoherent
    <3>2. CASE disputes[d].milestone_id = m
      <4>1. milestones[m].status = "Verified" /\ milestones'[m].status = "Settled"
        BY <2>2, <3>2, Undisputed
      <4>. QED
        BY <3>2, <4>1 DEF DisputeInv, DisputeCoherent, disputeVars
    <3>3. CASE disputes[d].milestone_id # m
      BY <3>1, <3>3 DEF DisputeInv, DisputeCoherent, disputeVars
    <3>. QED
      BY <3>2, <3>3
  <2>. QED
    BY <2>1, <2>2
<1>5. DisputeCoherent'
  BY <1>3, <1>4 DEF DisputeCoherent
<1>. QED
  BY <1>1, <1>5 DEF DisputeInv

LEMMA DisputeOpens ==
  ASSUME TypeOK, DisputeInv, NEW m \in MilestoneId, NEW caller \in Account, open_dispute(m, caller)
  PROVE  DisputeInv'
<1>1. PICK new \in DisputeId : new = dispute_count + 1
  <2>1. dispute_count \in 0..MaxDisputes /\ dispute_count < MaxDisputes
    BY DEF TypeOK, open_dispute
  <2>. QED
    BY <2>1, LimitsAssumption DEF DisputeId
<1>2. dispute_count \in Nat /\ DisputeId \subseteq Nat
  BY TypeFacts, IdFacts
<1>3. /\ disputes'[new].milestone_id = m /\ disputes'[new].status = "Open"
      /\ \A d \in DisputeId : d # new => disputes'[d] = disputes[d]
      /\ milestone_dispute'[m] = new
      /\ \A k \in MilestoneId : k # m => milestone_dispute'[k] = milestone_dispute[k]
      /\ milestones'[m].status = "Disputed"
      /\ \A k \in MilestoneId : k # m => milestones'[k] = milestones[k]
      /\ dispute_count' = new
  <2>1. milestones \in [MilestoneId -> MilestoneRecord]
    BY DEF TypeOK
  <2>. QED
    BY <1>1, <2>1 DEF open_dispute, TypeOK, MilestoneRecord
<1>4. /\ \A d \in DisputeId : disputes[d].status # "Absent" => disputes[d].milestone_id # m
      /\ milestone_dispute[m] = 0
  BY Undisputed DEF open_dispute, in_active_order, Workable
<1>5. /\ disputes[new].status = "Absent"
      /\ \A k \in MilestoneId : milestone_dispute[k] # new
  <2>1. disputes[new].status = "Absent"
    BY <1>1, <1>2 DEF DisputeInv, DisputesRegistered
  <2>. QED
    BY <2>1, DisputeTypes DEF DisputeInv, DisputesRegistered
<1>6. DisputesRegistered'
  <2>1. \A d \in DisputeId : d <= dispute_count' <=> d <= dispute_count \/ d = new
    BY <1>1, <1>2, <1>3
  <2>2. \A d \in DisputeId : disputes'[d].status # "Absent" <=> d <= dispute_count'
    BY <1>3, <2>1 DEF DisputeInv, DisputesRegistered
  <2>3. \A k \in MilestoneId : milestone_dispute'[k] # 0 =>
          /\ disputes'[milestone_dispute'[k]].status # "Absent"
          /\ disputes'[milestone_dispute'[k]].milestone_id = k
    BY <1>3, <1>5, DisputeTypes DEF DisputeInv, DisputesRegistered
  <2>. QED
    BY <2>2, <2>3 DEF DisputesRegistered
<1>7. DisputeCoherent'
  <2>1. \A k \in MilestoneId : milestones'[k].status = "Disputed" <=>
          milestone_dispute'[k] # 0 /\ disputes'[milestone_dispute'[k]].status = "Open"
    BY <1>3, <1>5, DisputeTypes DEF DisputeInv, DisputeCoherent
  <2>2. ASSUME NEW d \in DisputeId
        PROVE  LET k == disputes'[d].milestone_id IN
               /\ disputes'[d].status # "Absent" => k # 0 /\ milestone_dispute'[k] = d
               /\ disputes'[d].status = "ResolvedSettle" => milestones'[k].status \in {"Verified", "Settled"}
               /\ disputes'[d].status = "ResolvedRefund" => milestones'[k].status = "Refunded"
    <3>1. CASE d = new
      BY <1>3, <3>1, DisputeTypes
    <3>2. CASE d # new
      <4>1. disputes'[d] = disputes[d]
        BY <1>3, <3>2
      <4>2. disputes[d].status # "Absent" =>
              disputes[d].milestone_id \in MilestoneId /\ disputes[d].milestone_id # m
        BY <1>4, DisputeTypes DEF DisputeInv, DisputeCoherent
      <4>. QED
        BY <1>3, <4>1, <4>2 DEF DisputeInv, DisputeCoherent
    <3>. QED
      BY <3>1, <3>2
  <2>. QED
    BY <2>1, <2>2 DEF DisputeCoherent
<1>. QED
  BY <1>6, <1>7 DEF DisputeInv

LEMMA DisputeDecided ==
  ASSUME TypeOK, DisputeInv, NEW m \in MilestoneId, resolvable(m),
         \A k \in MilestoneId : k # m => milestones'[k].status = milestones[k].status,
         \/ resolved(m, "ResolvedSettle") /\ milestones'[m].status = "Verified"
         \/ resolved(m, "ResolvedRefund") /\ milestones'[m].status = "Refunded"
  PROVE  DisputeInv'
<1>1. PICK e \in DisputeId : e = milestone_dispute[m] /\ disputes[e].status = "Open"
  BY DisputeTypes DEF resolvable
<1>2. disputes[e].milestone_id = m /\ e # 0
  BY <1>1, DisputeTypes DEF DisputeInv, DisputesRegistered
<1>3. /\ \A d \in DisputeId : d # e => disputes'[d] = disputes[d]
      /\ disputes'[e].milestone_id = m
      /\ \/ disputes'[e].status = "ResolvedSettle" /\ milestones'[m].status = "Verified"
         \/ disputes'[e].status = "ResolvedRefund" /\ milestones'[m].status = "Refunded"
      /\ UNCHANGED <<milestone_dispute, dispute_count>>
  BY <1>1, <1>2 DEF resolved, TypeOK, DisputeRecord
<1>4. \A k \in MilestoneId : k # m => milestone_dispute[k] # e
  BY <1>1, <1>2 DEF DisputeInv, DisputesRegistered
<1>5. \A d \in DisputeId : d # e /\ disputes[d].status # "Absent" =>
        disputes[d].milestone_id \in MilestoneId /\ disputes[d].milestone_id # m
  BY <1>1, DisputeTypes DEF DisputeInv, DisputeCoherent
<1>6. DisputesRegistered'
  BY <1>1, <1>2, <1>3, <1>4, DisputeTypes DEF DisputeInv, DisputesRegistered
<1>7. \A k \in MilestoneId : milestones'[k].status = "Disputed" <=>
        milestone_dispute'[k] # 0 /\ disputes'[milestone_dispute'[k]].status = "Open"
  BY <1>1, <1>3, <1>4, DisputeTypes DEF DisputeInv, DisputeCoherent
<1>8. ASSUME NEW d \in DisputeId
      PROVE  LET k == disputes'[d].milestone_id IN
             /\ disputes'[d].status # "Absent" => k # 0 /\ milestone_dispute'[k] = d
             /\ disputes'[d].status = "ResolvedSettle" => milestones'[k].status \in {"Verified", "Settled"}
             /\ disputes'[d].status = "ResolvedRefund" => milestones'[k].status = "Refunded"
  <2>1. CASE d = e
    BY <1>1, <1>3, <2>1, DisputeTypes
  <2>2. CASE d # e
    BY <1>3, <1>5, <2>2 DEF DisputeInv, DisputeCoherent
  <2>. QED
    BY <2>1, <2>2
<1>9. DisputeCoherent'
  BY <1>7, <1>8 DEF DisputeCoherent
<1>. QED
  BY <1>6, <1>9 DEF DisputeInv

\* What an invocation without dispute does to the status of its milestone.
Undisputing(m) ==
  /\ UNCHANGED disputeVars
  /\ \A k \in MilestoneId : k # m => milestones'[k].status = milestones[k].status
  /\ \/ /\ milestones[m].status \notin {"Disputed", "Verified", "Settled", "Refunded"}
        /\ milestones'[m].status # "Disputed"
     \/ milestones[m].status = "Verified" /\ milestones'[m].status = "Settled"

LEMMA WithoutDispute ==
  ASSUME TypeOK, NEW m \in MilestoneId
  PROVE  /\ \A amount \in Payments, asset \in Asset :
              fund_milestone(m, amount, asset) => Undisputing(m)
         /\ cancel_partial_funding(m) => Undisputing(m)
         /\ \A principal \in Payments, expires_at \in Expiries :
              request_finance(m, principal, expires_at) => Undisputing(m)
         /\ fund_advance(m) => Undisputing(m)
         /\ release_expired_acceptance(m) => Undisputing(m)
         /\ cancel_finance_request(m) => Undisputing(m)
         /\ \A digest \in Digest :
              submit_evidence(m, digest) \/ attest_milestone(m, digest) => Undisputing(m)
         /\ \A caller \in Account : settle_milestone(m, caller) => Undisputing(m)
<1>1. milestones \in [MilestoneId -> MilestoneRecord]
  BY DEF TypeOK
<1>. USE <1>1 DEF MilestoneRecord, in_active_order, Undisputing
<1>2. ASSUME NEW amount \in Payments, NEW asset \in Asset, fund_milestone(m, amount, asset)
      PROVE  Undisputing(m)
  BY <1>2 DEF fund_milestone, status_after
<1>3. ASSUME cancel_partial_funding(m) PROVE Undisputing(m)
  BY <1>3 DEF cancel_partial_funding
<1>4. ASSUME NEW principal \in Payments, NEW expires_at \in Expiries,
             request_finance(m, principal, expires_at)
      PROVE  Undisputing(m)
  BY <1>4 DEF request_finance
<1>5. ASSUME fund_advance(m) PROVE Undisputing(m)
  BY <1>5 DEF fund_advance
<1>6. ASSUME release_expired_acceptance(m) PROVE Undisputing(m)
  BY <1>6 DEF release_expired_acceptance
<1>7. ASSUME cancel_finance_request(m) PROVE Undisputing(m)
  BY <1>7 DEF cancel_finance_request
<1>8. ASSUME NEW digest \in Digest, submit_evidence(m, digest) \/ attest_milestone(m, digest)
      PROVE  Undisputing(m)
  BY <1>8 DEF submit_evidence, attest_milestone, Workable
<1>9. ASSUME NEW caller \in Account, settle_milestone(m, caller) PROVE Undisputing(m)
  BY <1>9 DEF settle_milestone
<1>. QED
  BY <1>2, <1>3, <1>4, <1>5, <1>6, <1>7, <1>8, <1>9

LEMMA DisputeStep ==
  ASSUME TypeOK, Registered, DisputeInv, [Next]_vars
  PROVE  DisputeInv'
<1>1. ASSUME UNCHANGED <<milestones, disputeVars>> PROVE DisputeInv'
  BY <1>1 DEF DisputeInv, DisputesRegistered, DisputeCoherent, disputeVars
<1>2. ASSUME Opens PROVE DisputeInv'
  <2>1. PICK o \in OrderId, amount \in MilestoneAmounts :
          /\ create_milestone(o, amount)
          /\ milestone_count + 1 \in MilestoneId
          /\ milestones[milestone_count + 1].status = "Absent"
    BY <1>2, OpeningFresh
  <2>2. PICK new \in MilestoneId : new = milestone_count + 1
    BY <2>1
  <2>3. /\ milestones'[new].status = "Unfunded" /\ UNCHANGED disputeVars
        /\ \A m \in MilestoneId : m # new => milestones'[m] = milestones[m]
    BY <2>1, <2>2 DEF create_milestone, TypeOK
  <2>. QED
    BY <2>1, <2>2, <2>3, DisputeElsewhere
<1>3. ASSUME NEW m \in MilestoneId, Undisputing(m) PROVE DisputeInv'
  BY <1>3, DisputeElsewhere DEF Undisputing
<1>4. ASSUME NEW m \in MilestoneId, resolve_settle(m) \/ resolve_refund(m) PROVE DisputeInv'
  <2>1. resolvable(m)
    BY <1>4 DEF resolve_settle, resolve_refund
  <2>2. /\ \A k \in MilestoneId : k # m => milestones'[k].status = milestones[k].status
        /\ \/ resolved(m, "ResolvedSettle") /\ milestones'[m].status = "Verified"
           \/ resolved(m, "ResolvedRefund") /\ milestones'[m].status = "Refunded"
    <3>1. milestones \in [MilestoneId -> MilestoneRecord]
      BY DEF TypeOK
    <3>. QED
      BY <1>4, <3>1 DEF resolve_settle, resolve_refund, MilestoneRecord
  <2>. QED
    BY <2>1, <2>2, DisputeDecided
<1>5. ASSUME Orders PROVE UNCHANGED <<milestones, disputeVars>>
  BY <1>5 DEF Orders, create_order, accept_order, cancel_order
<1>6. /\ \A m \in MilestoneId, funder \in Account, principal, repayment \in Payments,
            expires_at \in Expiries :
           make_offer(m, funder, principal, repayment, expires_at) =>
             UNCHANGED <<milestones, disputeVars>>
      /\ \A f \in OfferId : cancel_offer(f) \/ accept_offer(f) => UNCHANGED <<milestones, disputeVars>>
      /\ advance_ledger => UNCHANGED <<milestones, disputeVars>>
      /\ UNCHANGED vars => UNCHANGED <<milestones, disputeVars>>
  BY DEF make_offer, cancel_offer, accept_offer, advance_ledger, vars
<1>. QED
  BY <1>1, <1>2, <1>3, <1>4, <1>5, <1>6, WithoutDispute, DisputeOpens DEF Next, Orders, Opens

-----------------------------------------------------------------------------
(* Financing                                                                *)

\* What FinancingSound says of one milestone.
Coherent(m) ==
  LET status == milestones[m].status
      offer == accepted[m]
      position == positions[m]
  IN
  /\ requests[m].status = "Accepted" <=> offer.status # "Absent"
  /\ requests[m].status = "Open" => status = "FinanceRequested"
  /\ offer.status = "Accepted" => status = "FinanceRequested"
  /\ status = "FinanceRequested" => requests[m].status \in {"Open", "Accepted"}
  /\ offer.status = "Funded" <=> position.status # "Absent"
  /\ position.status # "Absent" =>
       /\ position.offer_id = offer.id /\ position.funder = offer.funder
       /\ position.principal = offer.principal /\ position.repayment = offer.repayment
  /\ position.status = "Active" => status \in {"Financed", "Submitted", "Verified", "Disputed"}
  /\ position.status = "Repaid" => status = "Settled"
  /\ position.status = "Closed" => status = "Refunded"
  /\ status = "Financed" => position.status = "Active"
Covered(m) ==
  /\ accepted[m].status = "Accepted" =>
       /\ 0 < accepted[m].principal /\ accepted[m].principal <= accepted[m].repayment
       /\ accepted[m].repayment <= milestones[m].funded_amount
  /\ positions[m].status = "Active" =>
       /\ 0 < positions[m].principal /\ positions[m].principal <= positions[m].repayment
       /\ positions[m].repayment <= milestones[m].funded_amount
Sound(m) == Coherent(m) /\ Covered(m)

LEMMA SoundFacts ==
  /\ FinancingSound <=> \A m \in MilestoneId : Sound(m)
  /\ FinancingSound' <=> \A m \in MilestoneId : Sound(m)'
BY DEF FinancingSound, FinancingCoherent, RepaymentCovered, Sound, Coherent, Covered

LEMMA SoundElsewhere ==
  ASSUME FinancingSound, NEW m \in MilestoneId, Sound(m)',
         \A k \in MilestoneId : k # m =>
           /\ milestones'[k] = milestones[k] /\ requests'[k] = requests[k]
           /\ accepted'[k] = accepted[k] /\ positions'[k] = positions[k]
  PROVE  FinancingSound'
<1>1. \A k \in MilestoneId : k # m => Sound(k)'
  BY SoundFacts DEF Sound, Coherent, Covered
<1>. QED
  BY <1>1, SoundFacts

LEMMA FinanceTypes ==
  ASSUME TypeOK
  PROVE  /\ milestones \in [MilestoneId -> MilestoneRecord]
         /\ requests \in [MilestoneId -> RequestRecord]
         /\ accepted \in [MilestoneId -> AcceptedRecord]
         /\ positions \in [MilestoneId -> PositionRecord]
         /\ offers \in [OfferId -> OfferRecord]
         /\ milestone_offers \in [MilestoneId -> IndexRecord]
         /\ \A m \in MilestoneId :
              /\ requests[m].status \in {"Absent", "Open", "Accepted", "Cancelled"}
              /\ accepted[m].status \in {"Absent", "Accepted", "Funded"}
              /\ positions[m].status \in {"Absent", "Active", "Repaid", "Closed"}
<1>1. /\ milestones \in [MilestoneId -> MilestoneRecord]
      /\ requests \in [MilestoneId -> RequestRecord]
      /\ accepted \in [MilestoneId -> AcceptedRecord]
      /\ positions \in [MilestoneId -> PositionRecord]
      /\ offers \in [OfferId -> OfferRecord]
      /\ milestone_offers \in [MilestoneId -> IndexRecord]
  BY DEF TypeOK
<1>2. \A m \in MilestoneId :
        /\ requests[m] \in RequestRecord /\ accepted[m] \in AcceptedRecord
        /\ positions[m] \in PositionRecord
  BY <1>1
<1>. QED
  BY <1>1, <1>2 DEF RequestRecord, AcceptedRecord, PositionRecord

\* The milestone moves, its round does not.
LEMMA SoundWorks ==
  ASSUME TypeOK, FinancingSound, NEW m \in MilestoneId,
         UNCHANGED <<requests, accepted, positions>>,
         \A k \in MilestoneId : k # m => milestones'[k] = milestones[k],
         \/ /\ milestones[m].status \in {"Absent", "Unfunded"}
            /\ milestones'[m].status \in {"Unfunded", "Funded"}
         \/ /\ milestones[m].status \in {"Funded", "Financed", "Submitted", "Disputed"}
            /\ milestones'[m].status \in {"Submitted", "Verified", "Disputed"}
            /\ milestones'[m].funded_amount = milestones[m].funded_amount
  PROVE  FinancingSound'
<1>1. Sound(m)
  BY SoundFacts
<1>2. Sound(m)'
  BY <1>1, FinanceTypes DEF Sound, Coherent, Covered
<1>. QED
  BY <1>2, SoundElsewhere

\* The milestone ends, and the position with it.
LEMMA SoundEnds ==
  ASSUME TypeOK, FinancingSound, NEW m \in MilestoneId,
         UNCHANGED <<requests, accepted>>,
         \A k \in MilestoneId : k # m => milestones'[k] = milestones[k],
         \/ /\ milestones[m].status = "Verified" /\ milestones'[m].status = "Settled"
            /\ ended_position(m, "Repaid")
         \/ /\ milestones[m].status = "Disputed" /\ milestones'[m].status = "Refunded"
            /\ ended_position(m, "Closed")
  PROVE  FinancingSound'
<1>1. Sound(m) /\ positions \in [MilestoneId -> PositionRecord]
  BY SoundFacts, FinanceTypes
<1>2. /\ \A k \in MilestoneId : k # m => positions'[k] = positions[k]
      /\ positions'[m].offer_id = positions[m].offer_id
      /\ positions'[m].funder = positions[m].funder
      /\ positions'[m].principal = positions[m].principal
      /\ positions'[m].repayment = positions[m].repayment
      /\ positions'[m].status =
           IF positions[m].status = "Active"
           THEN IF milestones[m].status = "Verified" THEN "Repaid" ELSE "Closed"
           ELSE positions[m].status
  BY <1>1 DEF ended_position, PositionRecord
<1>3. Sound(m)'
  BY <1>1, <1>2, FinanceTypes DEF Sound, Coherent, Covered
<1>. QED
  BY <1>2, <1>3, SoundElsewhere

LEMMA SoundRequest ==
  ASSUME TypeOK, FinancingSound, NEW m \in MilestoneId, NEW principal, NEW expires_at,
         request_finance(m, principal, expires_at)
  PROVE  FinancingSound'
<1>1. Sound(m)
  BY SoundFacts
<1>2. /\ milestones[m].status \in {"Funded", "FinanceRequested"}
      /\ milestones'[m].status = "FinanceRequested"
      /\ milestones'[m].funded_amount = milestones[m].funded_amount
      /\ requests'[m].status = "Open" /\ UNCHANGED <<accepted, positions>>
      /\ \A k \in MilestoneId : k # m => milestones'[k] = milestones[k] /\ requests'[k] = requests[k]
  BY FinanceTypes DEF request_finance, in_active_order, MilestoneRecord
<1>3. milestones[m].status = "FinanceRequested" => requests[m].status # "Accepted"
  BY DEF request_finance, replaceable
<1>4. accepted[m].status = "Absent" /\ positions[m].status = "Absent"
  BY <1>1, <1>2, <1>3, FinanceTypes DEF Sound, Coherent
<1>5. Sound(m)'
  BY <1>2, <1>4 DEF Sound, Coherent, Covered
<1>. QED
  BY <1>2, <1>5, SoundElsewhere

LEMMA SoundAccept ==
  ASSUME TypeOK, FinancingSound, OffersRegistered, NEW f \in OfferId, accept_offer(f)
  PROVE  FinancingSound'
<1>1. PICK m \in MilestoneId : m = offers[f].milestone_id
  BY DEF accept_offer, OffersRegistered
<1>2. Sound(m)
  BY SoundFacts
<1>3. /\ requests'[m].status = "Accepted" /\ accepted'[m].status = "Accepted"
      /\ accepted'[m].principal = offers[f].principal
      /\ accepted'[m].repayment = offers[f].repayment
      /\ positions[m].status = "Absent" /\ UNCHANGED <<milestones, positions>>
      /\ milestones[m].status = "FinanceRequested"
      /\ \A k \in MilestoneId : k # m => requests'[k] = requests[k] /\ accepted'[k] = accepted[k]
  BY <1>1, FinanceTypes DEF accept_offer, in_active_order, RequestRecord
<1>4. /\ 0 < offers[f].principal /\ offers[f].principal <= offers[f].repayment
      /\ offers[f].repayment <= milestones[m].funded_amount
  BY <1>1 DEF accept_offer, validate_economics
<1>5. Sound(m)'
  BY <1>2, <1>3, <1>4 DEF Sound, Coherent, Covered
<1>. QED
  BY <1>3, <1>5, SoundElsewhere

LEMMA SoundAdvance ==
  ASSUME TypeOK, FinancingSound, NEW m \in MilestoneId, fund_advance(m)
  PROVE  FinancingSound'
<1>1. Sound(m)
  BY SoundFacts
<1>2. /\ milestones'[m].status = "Financed"
      /\ milestones'[m].funded_amount = milestones[m].funded_amount
      /\ \A k \in MilestoneId : k # m => milestones'[k] = milestones[k]
  BY FinanceTypes DEF fund_advance, MilestoneRecord
<1>3. /\ accepted[m].status = "Accepted" /\ accepted'[m].status = "Funded"
      /\ accepted'[m].id = accepted[m].id /\ accepted'[m].funder = accepted[m].funder
      /\ accepted'[m].principal = accepted[m].principal
      /\ accepted'[m].repayment = accepted[m].repayment
      /\ \A k \in MilestoneId : k # m => accepted'[k] = accepted[k]
  BY FinanceTypes DEF fund_advance, AcceptedRecord
<1>4. /\ positions'[m].status = "Active" /\ positions'[m].offer_id = accepted[m].id
      /\ positions'[m].funder = accepted[m].funder
      /\ positions'[m].principal = accepted[m].principal
      /\ positions'[m].repayment = accepted[m].repayment
      /\ \A k \in MilestoneId : k # m => positions'[k] = positions[k]
  BY FinanceTypes DEF fund_advance
<1>5. UNCHANGED requests
  BY DEF fund_advance
<1>6. Sound(m)'
  BY <1>1, <1>2, <1>3, <1>4, <1>5 DEF Sound, Coherent, Covered
<1>. QED
  BY <1>2, <1>3, <1>4, <1>5, <1>6, SoundElsewhere

LEMMA SoundRelease ==
  ASSUME TypeOK, FinancingSound, NEW m \in MilestoneId, release_expired_acceptance(m)
  PROVE  FinancingSound'
<1>1. Sound(m)
  BY SoundFacts
<1>2. /\ \/ milestones'[m].status = "FinanceRequested" /\ requests'[m].status = "Open"
         \/ milestones'[m].status = "Funded" /\ requests'[m].status = "Cancelled"
      /\ milestones'[m].funded_amount = milestones[m].funded_amount
      /\ \A k \in MilestoneId : k # m => milestones'[k] = milestones[k] /\ requests'[k] = requests[k]
  BY FinanceTypes DEF release_expired_acceptance, MilestoneRecord, RequestRecord
<1>3. /\ accepted'[m].status = "Absent" /\ positions[m].status = "Absent" /\ UNCHANGED positions
      /\ \A k \in MilestoneId : k # m => accepted'[k] = accepted[k]
  BY FinanceTypes DEF release_expired_acceptance, NoAccepted
<1>4. Sound(m)'
  BY <1>2, <1>3 DEF Sound, Coherent, Covered
<1>. QED
  BY <1>2, <1>3, <1>4, SoundElsewhere

LEMMA SoundCancel ==
  ASSUME TypeOK, FinancingSound, NEW m \in MilestoneId, cancel_finance_request(m)
  PROVE  FinancingSound'
<1>1. /\ milestones'[m].status = "Funded" /\ requests'[m].status = "Cancelled"
      /\ accepted[m].status = "Absent" /\ positions[m].status = "Absent"
      /\ UNCHANGED <<accepted, positions>>
      /\ \A k \in MilestoneId : k # m => milestones'[k] = milestones[k] /\ requests'[k] = requests[k]
  BY FinanceTypes DEF cancel_finance_request, MilestoneRecord, RequestRecord
<1>2. Sound(m)'
  BY <1>1 DEF Sound, Coherent, Covered
<1>. QED
  BY <1>1, <1>2, SoundElsewhere

\* Steps outside the round.
Unfinanced(m) ==
  /\ UNCHANGED <<requests, accepted, positions>>
  /\ \A k \in MilestoneId : k # m => milestones'[k] = milestones[k]
  /\ \/ /\ milestones[m].status \in {"Absent", "Unfunded"}
        /\ milestones'[m].status \in {"Unfunded", "Funded"}
     \/ /\ milestones[m].status \in {"Funded", "Financed", "Submitted", "Disputed"}
        /\ milestones'[m].status \in {"Submitted", "Verified", "Disputed"}
        /\ milestones'[m].funded_amount = milestones[m].funded_amount

LEMMA OutsideRound ==
  ASSUME TypeOK, NEW m \in MilestoneId
  PROVE  /\ \A amount \in Payments, asset \in Asset :
              fund_milestone(m, amount, asset) => Unfinanced(m)
         /\ cancel_partial_funding(m) => Unfinanced(m)
         /\ \A digest \in Digest :
              submit_evidence(m, digest) \/ attest_milestone(m, digest) => Unfinanced(m)
         /\ \A caller \in Account : open_dispute(m, caller) => Unfinanced(m)
         /\ resolve_settle(m) => Unfinanced(m)
<1>1. milestones \in [MilestoneId -> MilestoneRecord]
  BY DEF TypeOK
<1>. USE <1>1 DEF MilestoneRecord, in_active_order, Unfinanced, financeVars
<1>2. ASSUME NEW amount \in Payments, NEW asset \in Asset, fund_milestone(m, amount, asset)
      PROVE  Unfinanced(m)
  BY <1>2 DEF fund_milestone, status_after
<1>3. ASSUME cancel_partial_funding(m) PROVE Unfinanced(m)
  BY <1>3 DEF cancel_partial_funding
<1>4. ASSUME NEW digest \in Digest, submit_evidence(m, digest) \/ attest_milestone(m, digest)
      PROVE  Unfinanced(m)
  BY <1>4 DEF submit_evidence, attest_milestone, Workable
<1>5. ASSUME NEW caller \in Account, open_dispute(m, caller) PROVE Unfinanced(m)
  BY <1>5 DEF open_dispute, Workable
<1>6. ASSUME resolve_settle(m) PROVE Unfinanced(m)
  BY <1>6 DEF resolve_settle, resolvable
<1>. QED
  BY <1>2, <1>3, <1>4, <1>5, <1>6

LEMMA SoundStep ==
  ASSUME TypeOK, Registered, OffersRegistered, FinancingSound, [Next]_vars
  PROVE  FinancingSound'
<1>1. ASSUME UNCHANGED <<milestones, requests, accepted, positions>> PROVE FinancingSound'
  BY <1>1, SoundFacts DEF Sound, Coherent, Covered
<1>2. ASSUME Opens PROVE FinancingSound'
  <2>1. PICK o \in OrderId, amount \in MilestoneAmounts :
          /\ create_milestone(o, amount)
          /\ milestone_count + 1 \in MilestoneId
          /\ milestones[milestone_count + 1].status = "Absent"
    BY <1>2, OpeningFresh
  <2>2. PICK new \in MilestoneId : new = milestone_count + 1
    BY <2>1
  <2>3. /\ milestones'[new].status = "Unfunded" /\ UNCHANGED <<requests, accepted, positions>>
        /\ \A m \in MilestoneId : m # new => milestones'[m] = milestones[m]
    BY <2>1, <2>2 DEF create_milestone, TypeOK, financeVars
  <2>. QED
    BY <2>1, <2>2, <2>3, SoundWorks
<1>3. ASSUME NEW m \in MilestoneId, Unfinanced(m) PROVE FinancingSound'
  BY <1>3, SoundWorks DEF Unfinanced
<1>4. ASSUME NEW m \in MilestoneId,
             (\E caller \in Account : settle_milestone(m, caller)) \/ resolve_refund(m)
      PROVE  FinancingSound'
  <2>1. /\ UNCHANGED <<requests, accepted>>
        /\ \A k \in MilestoneId : k # m => milestones'[k] = milestones[k]
        /\ \/ /\ milestones[m].status = "Verified" /\ milestones'[m].status = "Settled"
              /\ ended_position(m, "Repaid")
           \/ /\ milestones[m].status = "Disputed" /\ milestones'[m].status = "Refunded"
              /\ ended_position(m, "Closed")
    BY <1>4, FinanceTypes
       DEF settle_milestone, resolve_refund, resolvable, in_active_order, MilestoneRecord
  <2>. QED
    BY <2>1, SoundEnds
<1>5. ASSUME Orders PROVE UNCHANGED <<milestones, requests, accepted, positions>>
  BY <1>5 DEF Orders, create_order, accept_order, cancel_order, financeVars
<1>6. /\ \A m \in MilestoneId, funder \in Account, principal, repayment \in Payments,
            expires_at \in Expiries :
           make_offer(m, funder, principal, repayment, expires_at) =>
             UNCHANGED <<milestones, requests, accepted, positions>>
      /\ \A f \in OfferId : cancel_offer(f) => UNCHANGED <<milestones, requests, accepted, positions>>
      /\ advance_ledger => UNCHANGED <<milestones, requests, accepted, positions>>
      /\ UNCHANGED vars => UNCHANGED <<milestones, requests, accepted, positions>>
  BY DEF make_offer, cancel_offer, advance_ledger, vars, financeVars
<1>. QED
  BY <1>1, <1>2, <1>3, <1>4, <1>5, <1>6, OutsideRound, SoundRequest, SoundAccept, SoundAdvance,
     SoundRelease, SoundCancel
     DEF Next, Orders, Opens

-----------------------------------------------------------------------------
(* Offers                                                                   *)

\* What OffersRegistered says of one offer, and of one milestone's round.
OfferKept(f) ==
  /\ offers[f].live_until <= now + TEMPORARY_BUMP_AMOUNT
  /\ offers[f].status # "Absent" =>
       /\ f <= offer_count
       /\ offers[f].milestone_id \in MilestoneId /\ offers[f].funder \in Account
       /\ offers[f].expires_at <= offers[f].live_until
RoundListed(m) ==
  /\ \A f \in milestone_offers[m].ids : f <= offer_count
  /\ requests[m].status \in {"Open", "Accepted"} =>
       \A f \in milestone_offers[m].ids : offers[f].status # "Absent" =>
         /\ offers[f].milestone_id = m
         /\ offers[f].principal = requests[m].requested_principal
RoundOwned(m) ==
  /\ accepted[m].status # "Absent" => accepted[m].funder \in Account
  /\ positions[m].status = "Absent" => positions[m] = NoPosition

LEMMA OffersParts ==
  /\ OffersRegistered <=>
       /\ \A f \in OfferId : OfferKept(f)
       /\ \A m \in MilestoneId : RoundListed(m) /\ RoundOwned(m)
  /\ OffersRegistered' <=>
       /\ \A f \in OfferId : OfferKept(f)'
       /\ \A m \in MilestoneId : RoundListed(m)' /\ RoundOwned(m)'
BY DEF OffersRegistered, OfferKept, RoundListed, RoundOwned

LEMMA OfferTypes ==
  ASSUME TypeOK
  PROVE  /\ now \in Nat /\ TEMPORARY_BUMP_AMOUNT \in Nat /\ offer_count \in Nat
         /\ \A f \in OfferId :
              /\ f \in Nat /\ offers[f] \in OfferRecord
              /\ offers[f].live_until \in Nat /\ offers[f].expires_at \in Nat
         /\ \A m \in MilestoneId : milestone_offers[m].ids \subseteq OfferId
<1>1. /\ \A f \in OfferId : offers[f] \in OfferRecord
      /\ \A m \in MilestoneId : milestone_offers[m] \in IndexRecord
  BY DEF TypeOK
<1>. QED
  BY <1>1, TypeFacts, IdFacts, LimitsAssumption DEF OfferRecord, IndexRecord

\* Rewriting an offer's status only lengthens its life, by no more than one bump.
LEMMA Rewritten ==
  ASSUME TypeOK, NEW f \in OfferId, OfferKept(f), NEW status
  PROVE  LET offer == with_status(offers[f], status) IN
         /\ offer.status = status /\ offer.milestone_id = offers[f].milestone_id
         /\ offer.funder = offers[f].funder /\ offer.principal = offers[f].principal
         /\ offer.expires_at = offers[f].expires_at
         /\ offers[f].live_until <= offer.live_until
         /\ offer.live_until <= now + TEMPORARY_BUMP_AMOUNT
<1>1. /\ offers[f].live_until <= extended(offers[f].live_until)
      /\ extended(offers[f].live_until) <= now + TEMPORARY_BUMP_AMOUNT
  BY OfferTypes, LimitsAssumption DEF extended, OfferKept
<1>2. offers[f] \in OfferRecord
  BY OfferTypes
<1>. QED
  BY <1>1, <1>2 DEF with_status, OfferRecord

\* Offers whose status alone is rewritten, or that are as they were, stay listed.
LEMMA OffersRewritten ==
  ASSUME TypeOK, OffersRegistered, UNCHANGED <<now, offer_count>>,
         \A f \in OfferId :
           \/ offers'[f] = offers[f]
           \/ /\ offers[f].status # "Absent"
              /\ \E status : offers'[f] = with_status(offers[f], status)
  PROVE  \A f \in OfferId :
           /\ OfferKept(f)'
           /\ offers'[f].status # "Absent" =>
                /\ offers[f].status # "Absent"
                /\ offers'[f].milestone_id = offers[f].milestone_id
                /\ offers'[f].principal = offers[f].principal
<1>. SUFFICES ASSUME NEW f \in OfferId
              PROVE  /\ OfferKept(f)'
                     /\ offers'[f].status # "Absent" =>
                          /\ offers[f].status # "Absent"
                          /\ offers'[f].milestone_id = offers[f].milestone_id
                          /\ offers'[f].principal = offers[f].principal
  OBVIOUS
<1>1. OfferKept(f)
  BY OffersParts
<1>2. CASE offers'[f] = offers[f]
  BY <1>1, <1>2 DEF OfferKept
<1>3. ASSUME NEW status, offers[f].status # "Absent", offers'[f] = with_status(offers[f], status)
      PROVE  /\ OfferKept(f)'
             /\ offers[f].status # "Absent"
             /\ offers'[f].milestone_id = offers[f].milestone_id
             /\ offers'[f].principal = offers[f].principal
  <2>1. offers[f] \in OfferRecord /\ extended(offers[f].live_until) \in Nat
    BY OfferTypes, LimitsAssumption DEF extended
  <2>2. offers'[f].live_until \in Nat
    BY <1>3, <2>1 DEF with_status, OfferRecord
  <2>. QED
    BY <1>1, <1>3, <2>2, Rewritten, OfferTypes DEF OfferKept
<1>. QED
  BY <1>2, <1>3

LEMMA OffersAside ==
  ASSUME OffersRegistered,
         UNCHANGED <<offers, offer_count, milestone_offers, requests, accepted, positions, now>>
  PROVE  OffersRegistered'
BY OffersParts DEF OfferKept, RoundListed, RoundOwned

LEMMA OffersEnds ==
  ASSUME TypeOK, OffersRegistered, NEW m \in MilestoneId, NEW status \in {"Repaid", "Closed"},
         UNCHANGED <<offers, offer_count, milestone_offers, requests, accepted, now>>,
         ended_position(m, status)
  PROVE  OffersRegistered'
<1>1. positions \in [MilestoneId -> PositionRecord]
  BY FinanceTypes
<1>2. \A k \in MilestoneId : positions'[k].status = "Absent" => positions'[k] = positions[k]
  BY <1>1 DEF ended_position, PositionRecord
<1>. QED
  BY <1>2, OffersParts DEF OfferKept, RoundListed, RoundOwned

LEMMA OffersRequest ==
  ASSUME TypeOK, OffersRegistered, NEW m \in MilestoneId, NEW principal, NEW expires_at,
         request_finance(m, principal, expires_at) \/ cancel_finance_request(m)
  PROVE  OffersRegistered'
<1>1. /\ UNCHANGED <<offers, offer_count, accepted, positions, now>>
      /\ milestone_offers'[m].ids = {}
      /\ \A k \in MilestoneId : k # m =>
           milestone_offers'[k] = milestone_offers[k] /\ requests'[k] = requests[k]
  BY FinanceTypes DEF request_finance, cancel_finance_request, with_index
<1>2. \A f \in OfferId : OfferKept(f)'
  BY <1>1, OffersParts DEF OfferKept
<1>3. ASSUME NEW k \in MilestoneId PROVE RoundListed(k)' /\ RoundOwned(k)'
  <2>1. RoundListed(k) /\ RoundOwned(k)
    BY OffersParts
  <2>2. CASE k = m
    BY <1>1, <2>1, <2>2 DEF RoundListed, RoundOwned
  <2>3. CASE k # m
    BY <1>1, <2>1, <2>3 DEF RoundListed, RoundOwned
  <2>. QED
    BY <2>2, <2>3
<1>. QED
  BY <1>2, <1>3, OffersParts

LEMMA OffersMade ==
  ASSUME TypeOK, OffersRegistered, NEW m \in MilestoneId, NEW funder \in Account,
         NEW principal \in Payments, NEW repayment \in Payments, NEW expires_at \in Expiries,
         make_offer(m, funder, principal, repayment, expires_at)
  PROVE  OffersRegistered'
<1>1. PICK new \in OfferId : new = offer_count + 1
  BY LimitsAssumption DEF make_offer, TypeOK, OfferId
<1>2. /\ offers'[new].status = "Open" /\ offers'[new].milestone_id = m
      /\ offers'[new].funder = funder /\ offers'[new].principal = principal
      /\ offers'[new].expires_at = expires_at
      /\ offers'[new].live_until = now + TEMPORARY_BUMP_AMOUNT
      /\ \A f \in OfferId : f # new => offers'[f] = offers[f]
  BY <1>1, FinanceTypes DEF make_offer
<1>3. /\ milestone_offers'[m].ids = milestone_offers[m].ids \cup {new}
      /\ \A k \in MilestoneId : k # m => milestone_offers'[k] = milestone_offers[k]
      /\ offer_count' = new /\ UNCHANGED <<requests, accepted, positions, now>>
      /\ requests[m].status = "Open" /\ requests[m].requested_principal = principal
  BY <1>1, FinanceTypes DEF make_offer, with_index
<1>4. expires_at \in Nat /\ expires_at <= now + TEMPORARY_BUMP_AMOUNT
  BY OfferTypes, ValuesAssumption, LimitsAssumption, StorageAssumption DEF make_offer, validate_expiry
<1>5. ASSUME NEW f \in OfferId PROVE OfferKept(f)'
  <2>1. OfferKept(f) /\ f \in Nat
    BY OffersParts, OfferTypes
  <2>2. CASE f = new
    BY <1>1, <1>2, <1>3, <1>4, <2>2, OfferTypes DEF OfferKept
  <2>3. CASE f # new
    BY <1>1, <1>2, <1>3, <2>1, <2>3, OfferTypes DEF OfferKept
  <2>. QED
    BY <2>2, <2>3
<1>6. ASSUME NEW k \in MilestoneId PROVE RoundListed(k)' /\ RoundOwned(k)'
  <2>1. /\ RoundListed(k) /\ RoundOwned(k)
        /\ milestone_offers[k].ids \subseteq OfferId
        /\ \A f \in milestone_offers[k].ids : f # new /\ f <= new
    BY <1>1, OffersParts, OfferTypes DEF RoundListed
  <2>2. CASE k = m
    <3>1. ASSUME NEW f \in milestone_offers'[m].ids
          PROVE  /\ f <= offer_count'
                 /\ offers'[f].status # "Absent" =>
                      offers'[f].milestone_id = m /\ offers'[f].principal = principal
      <4>1. CASE f = new
        BY <1>1, <1>2, <1>3, <4>1, OfferTypes
      <4>2. CASE f \in milestone_offers[m].ids
        BY <1>2, <1>3, <2>1, <2>2, <4>2 DEF RoundListed
      <4>. QED
        BY <1>3, <4>1, <4>2
    <3>. QED
      BY <1>3, <2>1, <2>2, <3>1 DEF RoundListed, RoundOwned
  <2>3. CASE k # m
    BY <1>2, <1>3, <2>1, <2>3 DEF RoundListed, RoundOwned
  <2>. QED
    BY <2>2, <2>3
<1>. QED
  BY <1>5, <1>6, OffersParts

LEMMA OffersCancelled ==
  ASSUME TypeOK, OffersRegistered, NEW f \in OfferId, cancel_offer(f)
  PROVE  OffersRegistered'
<1>1. /\ UNCHANGED <<offer_count, milestone_offers, requests, accepted, positions, now>>
      /\ \A g \in OfferId :
           \/ offers'[g] = offers[g]
           \/ /\ offers[g].status # "Absent"
              /\ offers'[g] = with_status(offers[g], "Cancelled")
  BY FinanceTypes DEF cancel_offer
<1>2. \A g \in OfferId :
        /\ OfferKept(g)'
        /\ offers'[g].status # "Absent" =>
             /\ offers[g].status # "Absent"
             /\ offers'[g].milestone_id = offers[g].milestone_id
             /\ offers'[g].principal = offers[g].principal
  BY <1>1, OffersRewritten
<1>. QED
  BY <1>1, <1>2, OffersParts, OfferTypes DEF RoundListed, RoundOwned

LEMMA OffersAccepted ==
  ASSUME TypeOK, OffersRegistered, NEW f \in OfferId, accept_offer(f)
  PROVE  OffersRegistered'
<1>1. PICK m \in MilestoneId : m = offers[f].milestone_id
  BY DEF accept_offer, OffersRegistered
<1>2. /\ UNCHANGED <<offer_count, milestone_offers, positions, now>>
      /\ \A g \in OfferId :
           \/ offers'[g] = offers[g]
           \/ /\ offers[g].status # "Absent"
              /\ offers'[g] = with_status(offers[g], "Accepted")
  BY FinanceTypes DEF accept_offer
<1>3. /\ requests[m].status = "Open" /\ requests'[m].status = "Accepted"
      /\ requests'[m].requested_principal = requests[m].requested_principal
      /\ accepted'[m].funder = offers[f].funder /\ offers[f].funder \in Account
      /\ \A k \in MilestoneId : k # m => requests'[k] = requests[k] /\ accepted'[k] = accepted[k]
  BY <1>1, FinanceTypes DEF accept_offer, RequestRecord, OffersRegistered
<1>4. \A g \in OfferId :
        /\ OfferKept(g)'
        /\ offers'[g].status # "Absent" =>
             /\ offers[g].status # "Absent"
             /\ offers'[g].milestone_id = offers[g].milestone_id
             /\ offers'[g].principal = offers[g].principal
  BY <1>2, OffersRewritten
<1>5. ASSUME NEW k \in MilestoneId PROVE RoundListed(k)' /\ RoundOwned(k)'
  <2>1. RoundListed(k) /\ RoundOwned(k) /\ milestone_offers[k].ids \subseteq OfferId
    BY OffersParts, OfferTypes
  <2>2. CASE k = m
    BY <1>2, <1>3, <1>4, <2>1, <2>2 DEF RoundListed, RoundOwned
  <2>3. CASE k # m
    BY <1>2, <1>3, <1>4, <2>1, <2>3 DEF RoundListed, RoundOwned
  <2>. QED
    BY <2>2, <2>3
<1>. QED
  BY <1>4, <1>5, OffersParts

LEMMA OffersAdvanced ==
  ASSUME TypeOK, OffersRegistered, NEW m \in MilestoneId, fund_advance(m)
  PROVE  OffersRegistered'
<1>1. /\ UNCHANGED <<offers, offer_count, milestone_offers, requests, now>>
      /\ accepted'[m].funder = accepted[m].funder /\ accepted[m].status # "Absent"
      /\ positions'[m].status # "Absent"
      /\ \A k \in MilestoneId : k # m => accepted'[k] = accepted[k] /\ positions'[k] = positions[k]
  BY FinanceTypes DEF fund_advance, AcceptedRecord
<1>. QED
  BY <1>1, OffersParts DEF OfferKept, RoundListed, RoundOwned

LEMMA OffersReleased ==
  ASSUME TypeOK, OffersRegistered, FinancingSound, NEW m \in MilestoneId,
         release_expired_acceptance(m)
  PROVE  OffersRegistered'
<1>1. /\ UNCHANGED <<offer_count, milestone_offers, positions, now>>
      /\ \A g \in OfferId :
           \/ offers'[g] = offers[g]
           \/ /\ offers[g].status # "Absent"
              /\ offers'[g] = with_status(offers[g], "Cancelled")
  BY FinanceTypes DEF release_expired_acceptance
<1>2. /\ requests[m].status = "Accepted"
      /\ requests'[m].requested_principal = requests[m].requested_principal
      /\ accepted'[m].status = "Absent"
      /\ \A k \in MilestoneId : k # m => requests'[k] = requests[k] /\ accepted'[k] = accepted[k]
  BY FinanceTypes DEF release_expired_acceptance, RequestRecord, NoAccepted, FinancingSound,
                      FinancingCoherent
<1>3. \A g \in OfferId :
        /\ OfferKept(g)'
        /\ offers'[g].status # "Absent" =>
             /\ offers[g].status # "Absent"
             /\ offers'[g].milestone_id = offers[g].milestone_id
             /\ offers'[g].principal = offers[g].principal
  BY <1>1, OffersRewritten
<1>4. ASSUME NEW k \in MilestoneId PROVE RoundListed(k)' /\ RoundOwned(k)'
  <2>1. RoundListed(k) /\ RoundOwned(k) /\ milestone_offers[k].ids \subseteq OfferId
    BY OffersParts, OfferTypes
  <2>2. CASE k = m
    BY <1>1, <1>2, <1>3, <2>1, <2>2 DEF RoundListed, RoundOwned
  <2>3. CASE k # m
    BY <1>1, <1>2, <1>3, <2>1, <2>3 DEF RoundListed, RoundOwned
  <2>. QED
    BY <2>2, <2>3
<1>. QED
  BY <1>3, <1>4, OffersParts

LEMMA OffersAged ==
  ASSUME TypeOK, OffersRegistered, advance_ledger
  PROVE  OffersRegistered'
<1>1. /\ now' = now + 1 /\ UNCHANGED <<offer_count, requests, accepted, positions>>
      /\ \A f \in OfferId : offers'[f] = offers[f] \/ offers'[f] = NoOffer
      /\ \A m \in MilestoneId :
           milestone_offers'[m] = milestone_offers[m] \/ milestone_offers'[m].ids = {}
  BY FinanceTypes DEF advance_ledger, NoIndex
<1>2. \A f \in OfferId : OfferKept(f)'
  BY <1>1, OffersParts, OfferTypes DEF OfferKept, NoOffer
<1>3. ASSUME NEW m \in MilestoneId PROVE RoundListed(m)' /\ RoundOwned(m)'
  <2>1. RoundListed(m) /\ RoundOwned(m) /\ milestone_offers[m].ids \subseteq OfferId
    BY OffersParts, OfferTypes
  <2>. QED
    BY <1>1, <2>1 DEF RoundListed, RoundOwned, NoOffer
<1>. QED
  BY <1>2, <1>3, OffersParts

LEMMA OffersStep ==
  ASSUME TypeOK, OffersRegistered, FinancingSound, [Next]_vars
  PROVE  OffersRegistered'
<1>. DEFINE Still ==
       UNCHANGED <<offers, offer_count, milestone_offers, requests, accepted, positions, now>>
<1>1. ASSUME Orders \/ Opens PROVE Still
  BY <1>1 DEF Orders, Opens, create_order, create_milestone, accept_order, cancel_order, financeVars
<1>2. ASSUME NEW m \in MilestoneId
      PROVE  /\ \A amount \in Payments, asset \in Asset : fund_milestone(m, amount, asset) => Still
             /\ cancel_partial_funding(m) => Still
             /\ \A digest \in Digest : submit_evidence(m, digest) \/ attest_milestone(m, digest) => Still
             /\ \A caller \in Account : open_dispute(m, caller) => Still
             /\ resolve_settle(m) => Still
  BY DEF fund_milestone, cancel_partial_funding, submit_evidence, attest_milestone, open_dispute,
         resolve_settle, financeVars
<1>3. UNCHANGED vars => Still
  BY DEF vars, financeVars
<1>4. ASSUME NEW m \in MilestoneId
      PROVE  /\ \A caller \in Account : settle_milestone(m, caller) => OffersRegistered'
             /\ resolve_refund(m) => OffersRegistered'
  BY OffersEnds DEF settle_milestone, resolve_refund
<1>5. Still => OffersRegistered'
  BY OffersAside
<1>. HIDE DEF Still
<1>. QED
  BY <1>1, <1>2, <1>3, <1>4, <1>5, OffersRequest, OffersMade, OffersCancelled, OffersAccepted,
     OffersAdvanced, OffersReleased, OffersAged
     DEF Next, Orders, Opens

-----------------------------------------------------------------------------
(* The invariant, and what it gives                                         *)

LEMMA InvInit == Init => ContractInv
<1>. SUFFICES ASSUME Init PROVE ContractInv
  OBVIOUS
<1>. USE DEF Init
<1>1. TypeOK
  BY TypeInit
<1>2. Registered
  BY IdFacts DEF Registered, NoOrder, NoMilestone, order_of
<1>3. ProtectedInFull /\ UntouchedBefore /\ CompletedWithLastMilestone
  BY DEF ProtectedInFull, UntouchedBefore, CompletedWithLastMilestone, NoOrder, NoMilestone,
         Protected, Terminal
<1>4. OffersRegistered
  BY LimitsAssumption DEF OffersRegistered, NoOffer, NoIndex, NoRequest, NoAccepted
<1>5. FinancingSound
  BY SoundFacts DEF Sound, Coherent, Covered, NoRequest, NoAccepted, NoPosition, NoMilestone
<1>6. DisputesRegistered /\ DisputeCoherent
  BY IdFacts DEF DisputesRegistered, DisputeCoherent, NoDispute, NoMilestone
<1>. QED
  BY <1>1, <1>2, <1>3, <1>4, <1>5, <1>6 DEF ContractInv

LEMMA InvStep == ContractInv /\ [Next]_vars => ContractInv'
BY TypeStep, RegisteredStep, ProtectedStep, CompletionStep, OffersStep, SoundStep, DisputeStep
   DEF ContractInv, Completing, DisputeInv

LEMMA InvHolds == Spec => []ContractInv
<1>. QED
  BY InvInit, InvStep, PTL DEF Spec

\* A milestone that anyone may rely on holds its full amount, one still being
\* funded holds less and one that ended holds nothing, through any round of
\* requests, offers, evidence and disputes (escrow.rs).
THEOREM EscrowProtected == Spec => []ProtectedInFull
<1>1. ContractInv => ProtectedInFull
  BY DEF ContractInv
<1>. QED
  BY <1>1, InvHolds, PTL

\* Request, selected offer and position tell one story, and what is promised to a
\* funder fits in what is locked (financing.rs).
THEOREM FinancingCorrect == Spec => []FinancingSound
<1>1. ContractInv => FinancingSound
  BY DEF ContractInv
<1>. QED
  BY <1>1, InvHolds, PTL

\* The offers a supplier compares are of this milestone's round and this principal,
\* and their storage outlives their expiry (lib.rs make_offer, storage.rs).
THEOREM OffersComparable == Spec => []OffersStand
<1>1. ContractInv => OffersStand
  BY DEF ContractInv, OffersRegistered, OffersStand, PresentedOffersComparable,
         StorageOutlivesOffer, get_open_offers, TypeOK, IndexRecord
<1>. QED
  BY <1>1, InvHolds, PTL

\* A milestone is in dispute exactly while its one open dispute is, and a decided
\* dispute ended it the way it was decided or left it to settle.
THEOREM DisputesConsistent == Spec => []DisputeCoherent
<1>1. ContractInv => DisputeCoherent
  BY DEF ContractInv
<1>. QED
  BY <1>1, InvHolds, PTL

\* An order is completed exactly when its last milestone ends, and a cancelled one
\* holds no money (complete_order_if_finished).
THEOREM OrdersCompleteInTime == Spec => []CompletedWithLastMilestone
<1>1. ContractInv => CompletedWithLastMilestone
  BY DEF ContractInv
<1>. QED
  BY <1>1, InvHolds, PTL

-----------------------------------------------------------------------------
(* What a step may never do                                                 *)

\* The economics of an advance stay, and it ends with its milestone.
AdvanceStays(m) ==
  positions[m].status # "Absent" =>
    /\ [positions'[m] EXCEPT !.status = positions[m].status] = positions[m]
    /\ positions'[m].status # positions[m].status =>
         /\ positions[m].status = "Active"
         /\ <<positions'[m].status, milestones'[m].status>> \in
              {<<"Repaid", "Settled">>, <<"Closed", "Refunded">>}

\* A digest changes by delivery only, while the milestone is worked on.
DigestStays(m) ==
  milestones'[m].evidence_hash # milestones[m].evidence_hash =>
    /\ milestones[m].status \in {"Funded", "Financed", "Submitted"}
    /\ milestones'[m].status = "Submitted"
    /\ milestones'[m].evidence_hash # NoDigest

LEMMA AdvanceStep ==
  ASSUME TypeOK, [Next]_vars, NEW m \in MilestoneId
  PROVE  AdvanceStays(m)
<1>1. positions[m] \in PositionRecord /\ positions \in [MilestoneId -> PositionRecord]
  BY FinanceTypes
<1>2. ASSUME positions'[m] = positions[m] PROVE AdvanceStays(m)
  BY <1>1, <1>2 DEF AdvanceStays, PositionRecord
<1>3. ASSUME NEW k \in MilestoneId, fund_advance(k) PROVE AdvanceStays(m)
  <2>1. positions[k].status = "Absent" /\ (k # m => positions'[m] = positions[m])
    BY <1>1, <1>3 DEF fund_advance
  <2>. QED
    BY <1>2, <2>1 DEF AdvanceStays
<1>4. ASSUME NEW k \in MilestoneId, NEW status \in {"Repaid", "Closed"}, ended_position(k, status),
             milestones'[k].status = IF status = "Repaid" THEN "Settled" ELSE "Refunded"
      PROVE  AdvanceStays(m)
  <2>1. CASE k # m
    BY <1>1, <1>2, <1>4, <2>1 DEF ended_position
  <2>2. CASE k = m
    <3>1. positions'[m] = [positions[m] EXCEPT
            !.status = IF positions[m].status = "Active" THEN status ELSE positions[m].status]
      BY <1>1, <1>4, <2>2 DEF ended_position, PositionRecord
    <3>. QED
      BY <1>1, <1>4, <2>2, <3>1 DEF AdvanceStays, PositionRecord
  <2>. QED
    BY <2>1, <2>2
<1>5. ASSUME NEW k \in MilestoneId,
             (\E caller \in Account : settle_milestone(k, caller)) \/ resolve_refund(k)
      PROVE  AdvanceStays(m)
  <2>1. \/ ended_position(k, "Repaid") /\ milestones'[k].status = "Settled"
        \/ ended_position(k, "Closed") /\ milestones'[k].status = "Refunded"
    BY <1>5, FinanceTypes DEF settle_milestone, resolve_refund, MilestoneRecord
  <2>. QED
    BY <1>4, <2>1
<1>6. ASSUME \/ Orders \/ Opens \/ UNCHANGED vars
             \/ \E k \in MilestoneId : Unfinanced(k) \/ cancel_finance_request(k)
                                       \/ release_expired_acceptance(k)
             \/ \E k \in MilestoneId : \E principal, expires_at : request_finance(k, principal, expires_at)
             \/ \E k \in MilestoneId : \E funder, principal, repayment, expires_at :
                  make_offer(k, funder, principal, repayment, expires_at)
             \/ \E f \in OfferId : cancel_offer(f) \/ accept_offer(f)
             \/ advance_ledger
      PROVE  positions' = positions
  <2>1. CASE Orders \/ Opens \/ UNCHANGED vars
    BY <2>1 DEF Orders, Opens, create_order, create_milestone, accept_order, cancel_order, vars,
       financeVars
  <2>2. CASE \E k \in MilestoneId : Unfinanced(k) \/ cancel_finance_request(k)
                                    \/ release_expired_acceptance(k)
    BY <2>2 DEF Unfinanced, cancel_finance_request, release_expired_acceptance, financeVars
  <2>3. CASE \E k \in MilestoneId : \E principal, expires_at : request_finance(k, principal, expires_at)
    BY <2>3 DEF request_finance
  <2>4. CASE \E k \in MilestoneId : \E funder, principal, repayment, expires_at :
               make_offer(k, funder, principal, repayment, expires_at)
    BY <2>4 DEF make_offer, financeVars
  <2>5. CASE (\E f \in OfferId : cancel_offer(f) \/ accept_offer(f)) \/ advance_ledger
    BY <2>5 DEF cancel_offer, accept_offer, advance_ledger, financeVars
  <2>. QED
    BY <1>6, <2>1, <2>2, <2>3, <2>4, <2>5
<1>. QED
  BY <1>2, <1>3, <1>5, <1>6, OutsideRound DEF Next, Orders, Opens

LEMMA DigestStep ==
  ASSUME TypeOK, Registered, [Next]_vars, NEW m \in MilestoneId
  PROVE  DigestStays(m)
<1>1. milestones \in [MilestoneId -> MilestoneRecord]
  BY DEF TypeOK
<1>2. ASSUME milestones'[m].evidence_hash = milestones[m].evidence_hash PROVE DigestStays(m)
  BY <1>2 DEF DigestStays
<1>3. ASSUME NEW k \in MilestoneId, NEW digest \in Digest, submit_evidence(k, digest)
      PROVE  DigestStays(m)
  <2>1. /\ k # m => milestones'[m] = milestones[m]
        /\ milestones'[k].evidence_hash = digest /\ milestones'[k].status = "Submitted"
        /\ milestones[k].status \in Workable
    BY <1>1, <1>3 DEF submit_evidence, in_active_order, MilestoneRecord
  <2>. QED
    BY <2>1, PartiesAssumption DEF DigestStays, Workable
<1>4. ASSUME Opens PROVE DigestStays(m)
  <2>1. PICK o \in OrderId, amount \in MilestoneAmounts :
          /\ create_milestone(o, amount)
          /\ milestone_count + 1 \in MilestoneId
          /\ milestones[milestone_count + 1] = NoMilestone
    BY <1>4, OpeningFresh
  <2>2. milestones'[m].evidence_hash = milestones[m].evidence_hash
    BY <1>1, <2>1 DEF create_milestone, NoMilestone
  <2>. QED
    BY <1>2, <2>2
<1>5. ASSUME Orders \/ Aside PROVE milestones' = milestones
  BY <1>5 DEF Orders, Aside, create_order, accept_order, cancel_order
<1>6. ASSUME NEW k \in MilestoneId,
             \/ \E amount, asset : fund_milestone(k, amount, asset)
             \/ cancel_partial_funding(k)
             \/ \E principal, expires_at : request_finance(k, principal, expires_at)
             \/ fund_advance(k) \/ release_expired_acceptance(k) \/ cancel_finance_request(k)
             \/ \E digest : attest_milestone(k, digest)
             \/ \E caller : settle_milestone(k, caller) \/ open_dispute(k, caller)
             \/ resolve_settle(k) \/ resolve_refund(k)
      PROVE  milestones'[m].evidence_hash = milestones[m].evidence_hash
  <2>1. \/ \E status : milestones' = [milestones EXCEPT ![k].status = status]
        \/ \E total : milestones' = [milestones EXCEPT ![k].funded_amount = total]
        \/ \E total, status :
             milestones' = [milestones EXCEPT ![k].funded_amount = total, ![k].status = status]
    BY <1>6 DEF fund_milestone, cancel_partial_funding, request_finance, fund_advance,
       release_expired_acceptance, cancel_finance_request, attest_milestone, settle_milestone,
       open_dispute, resolve_settle, resolve_refund
  <2>2. ASSUME NEW status, milestones' = [milestones EXCEPT ![k].status = status]
        PROVE  milestones'[m].evidence_hash = milestones[m].evidence_hash
    BY <1>1, <2>2 DEF MilestoneRecord
  <2>3. ASSUME NEW total, milestones' = [milestones EXCEPT ![k].funded_amount = total]
        PROVE  milestones'[m].evidence_hash = milestones[m].evidence_hash
    BY <1>1, <2>3 DEF MilestoneRecord
  <2>4. ASSUME NEW total, NEW status,
               milestones' = [milestones EXCEPT ![k].funded_amount = total, ![k].status = status]
        PROVE  milestones'[m].evidence_hash = milestones[m].evidence_hash
    BY <1>1, <2>4 DEF MilestoneRecord
  <2>. QED
    BY <2>1, <2>2, <2>3, <2>4
<1>. QED
  BY <1>2, <1>3, <1>4, <1>5, <1>6, Besides DEF Next, Orders, Opens

\* Once paid, an advance's economics never change and it ends once, with its
\* milestone; the digest that was attested, disputed or paid for stays.
THEOREM TermsKept == Spec => TermsFrozen
<1>1. ContractInv /\ [Next]_vars => /\ [\A m \in MilestoneId : AdvanceStays(m)]_vars
                                    /\ [\A m \in MilestoneId : DigestStays(m)]_vars
  BY AdvanceStep, DigestStep DEF ContractInv
<1>2. Spec => /\ [][\A m \in MilestoneId : AdvanceStays(m)]_vars
              /\ [][\A m \in MilestoneId : DigestStays(m)]_vars
  BY <1>1, InvHolds, PTL DEF Spec
<1>. QED
  BY <1>2 DEF TermsFrozen, PositionFrozen, EvidenceFrozen, AdvanceStays, DigestStays

-----------------------------------------------------------------------------
(* Sums of functions on finite sets                                         *)

\* A sum takes the elements in an order of its own (SumFunctionOnSet, unfolded): g
\* holds the sums of f over the subsets of S.
pick(s) == CHOOSE x \in s : TRUE
IsSum(g, f, S) ==
  g = [s \in SUBSET S |-> IF s = {} THEN 0 ELSE f[pick(s)] + g[s \ {pick(s)}]]

LEMMA SumUnfold ==
  ASSUME NEW f, NEW S
  PROVE  SumFunctionOnSet(f, S) = (CHOOSE g : IsSum(g, f, S))[S]
BY DEF SumFunctionOnSet, FoldFunctionOnSet, MapThenFoldSet, IsSum, pick

\* Induction on the subsets of a finite set, by a least counterexample.
LEMMA LeastSubset ==
  ASSUME NEW S, IsFiniteSet(S), NEW T, T \subseteq SUBSET S, T # {}
  PROVE  \E x \in T : \A y \in T : y \subseteq x => y = x
<1>1. IsWellFoundedOn(StrictSubsetOrdering(S), SUBSET S)
  BY FS_StrictSubsetOrderingWellFounded, FS_FiniteSubsetsOfFinite
<1>2. PICK x \in T : \A y \in T : ~ (<<y, x>> \in StrictSubsetOrdering(S))
  BY <1>1, WFMin
<1>3. x \in SUBSET S
  OBVIOUS
<1>. QED
  BY <1>2, <1>3 DEF StrictSubsetOrdering

LEMMA Picks == ASSUME NEW s, s # {} PROVE pick(s) \in s
BY DEF pick

\* The sums over the subsets of at most n elements.
SumTo(g, f, S, n) ==
  /\ g \in [SUBSET S -> Int]
  /\ \A s \in SUBSET S : Cardinality(s) <= n =>
       g[s] = IF s = {} THEN 0 ELSE f[pick(s)] + g[s \ {pick(s)}]

\* Every finite set has a sum.
LEMMA SumExists ==
  ASSUME NEW S, IsFiniteSet(S), NEW f, \A x \in S : f[x] \in Int
  PROVE  \E g \in [SUBSET S -> Int] : IsSum(g, f, S)
<1>0. \A s \in SUBSET S : IsFiniteSet(s) /\ Cardinality(s) \in Nat /\ Cardinality(s) <= Cardinality(S)
                         /\ Cardinality(S) \in Nat /\ (Cardinality(s) = 0 <=> s = {})
  BY FS_Subset, FS_CardinalityType, FS_EmptySet
<1>1. \E g : SumTo(g, f, S, 0)
  <2>. DEFINE g == [s \in SUBSET S |-> 0]
  <2>1. g \in [SUBSET S -> Int] /\ \A s \in SUBSET S : g[s] = 0
    OBVIOUS
  <2>2. \A s \in SUBSET S : Cardinality(s) <= 0 => s = {}
    BY <1>0
  <2>. HIDE DEF g
  <2>3. SumTo(g, f, S, 0)
    BY <2>1, <2>2 DEF SumTo
  <2>. QED BY <2>3
<1>2. ASSUME NEW n \in Nat, NEW g, SumTo(g, f, S, n)
      PROVE  \E h : SumTo(h, f, S, n + 1)
  <2>. DEFINE h == [s \in SUBSET S |->
                 IF Cardinality(s) <= n \/ s = {} THEN g[s] ELSE f[pick(s)] + g[s \ {pick(s)}]]
  <2>0. g \in [SUBSET S -> Int]
    BY <1>2 DEF SumTo
  <2>1. \A s \in SUBSET S : s # {} => pick(s) \in S /\ s \ {pick(s)} \in SUBSET S
                                       /\ f[pick(s)] \in Int
    BY Picks
  <2>2. h \in [SUBSET S -> Int]
    BY <2>0, <2>1
  <2>3. ASSUME NEW s \in SUBSET S, Cardinality(s) <= n + 1, s # {}
        PROVE  h[s] = f[pick(s)] + h[s \ {pick(s)}]
    <3>1. /\ Cardinality(s \ {pick(s)}) = Cardinality(s) - 1
          /\ Cardinality(s) \in Nat
      BY <2>3, <1>0, Picks, FS_RemoveElement
    <3>2. h[s \ {pick(s)}] = g[s \ {pick(s)}]
      BY <3>1, <2>1, <2>3
    <3>3. h[s] = f[pick(s)] + g[s \ {pick(s)}]
      <4>1. CASE Cardinality(s) <= n
        BY <4>1, <1>2, <2>3 DEF SumTo
      <4>2. CASE ~ Cardinality(s) <= n
        BY <4>2, <2>3
      <4>. QED BY <4>1, <4>2
    <3>. QED BY <3>2, <3>3
  <2>4. h[{}] = 0
    <3>1. {} \in SUBSET S /\ Cardinality({}) = 0
      BY FS_EmptySet
    <3>. QED BY <3>1, <1>2 DEF SumTo
  <2>. HIDE DEF h
  <2>5. SumTo(h, f, S, n + 1)
    BY <2>2, <2>3, <2>4 DEF SumTo
  <2>. QED BY <2>5
<1>3. \A s \in SUBSET S : \E g : SumTo(g, f, S, Cardinality(s))
  <2>. DEFINE Bad == {s \in SUBSET S : ~ \E g : SumTo(g, f, S, Cardinality(s))}
  <2>. SUFFICES ASSUME Bad # {} PROVE FALSE
    OBVIOUS
  <2>1. PICK s \in Bad : \A t \in Bad : t \subseteq s => t = s
    <3>1. Bad \subseteq SUBSET S
      OBVIOUS
    <3>. HIDE DEF Bad
    <3>. QED BY <3>1, LeastSubset
  <2>2. s \in SUBSET S /\ s # {}
    BY <1>1, <2>1, FS_EmptySet
  <2>3. s \ {pick(s)} \in SUBSET S /\ s \ {pick(s)} \notin Bad
    BY <2>1, <2>2, Picks
  <2>4. PICK g : SumTo(g, f, S, Cardinality(s \ {pick(s)}))
    BY <2>3
  <2>5. Cardinality(s \ {pick(s)}) \in Nat /\ Cardinality(s \ {pick(s)}) + 1 = Cardinality(s)
    BY <2>2, <1>0, Picks, FS_RemoveElement
  <2>6. \E h : SumTo(h, f, S, Cardinality(s))
    BY <1>2, <2>4, <2>5
  <2>. QED BY <2>1, <2>6
<1>5. PICK g : SumTo(g, f, S, Cardinality(S))
  BY <1>3
<1>6. g \in [SUBSET S -> Int] /\ \A s \in SUBSET S :
         g[s] = IF s = {} THEN 0 ELSE f[pick(s)] + g[s \ {pick(s)}]
  BY <1>5, <1>0 DEF SumTo
<1>. QED BY <1>6 DEF IsSum

\* The two ways to take one element from a sum.
Unrolls(g, f, S) ==
  /\ g[{}] = 0
  /\ \A s \in SUBSET S : s # {} => g[s] = f[pick(s)] + g[s \ {pick(s)}]
AnyOrder(g, f, S) == \A s \in SUBSET S : \A x \in s : g[s] = f[x] + g[s \ {x}]

LEMMA SumAt == ASSUME NEW f, NEW S, NEW g, IsSum(g, f, S) PROVE Unrolls(g, f, S)
<1>1. {} \in SUBSET S
  OBVIOUS
<1>. QED BY <1>1 DEF IsSum, Unrolls

\* Two sums of functions that agree on a set agree on it.
LEMMA SumAgrees ==
  ASSUME NEW S, IsFiniteSet(S), NEW S1, NEW S2, S \subseteq S1, S \subseteq S2,
         NEW f1, NEW f2, \A x \in S : f1[x] = f2[x],
         NEW g1, NEW g2, IsSum(g1, f1, S1), IsSum(g2, f2, S2)
  PROVE  g1[S] = g2[S]
<1>a. Unrolls(g1, f1, S1)
  BY SumAt
<1>b. Unrolls(g2, f2, S2)
  BY SumAt
<1>. DEFINE Bad == {s \in SUBSET S : g1[s] # g2[s]}
<1>. SUFFICES ASSUME Bad # {} PROVE FALSE
  OBVIOUS
<1>1. PICK s \in Bad : \A t \in Bad : t \subseteq s => t = s
  <2>1. Bad \subseteq SUBSET S
    OBVIOUS
  <2>. HIDE DEF Bad
  <2>. QED BY <2>1, LeastSubset
<1>2. s \in SUBSET S1 /\ s \in SUBSET S2 /\ s \in SUBSET S /\ g1[s] # g2[s]
  BY <1>1
<1>c. \A t \in SUBSET S : t \notin Bad => g1[t] = g2[t]
  OBVIOUS
<1>. HIDE DEF Bad
<1>3. /\ s = {} => g1[s] = 0 /\ g2[s] = 0
      /\ s # {} => /\ g1[s] = f1[pick(s)] + g1[s \ {pick(s)}]
                   /\ g2[s] = f2[pick(s)] + g2[s \ {pick(s)}]
  BY <1>2, <1>a, <1>b DEF Unrolls
<1>4. s # {}
  BY <1>2, <1>3
<1>5. pick(s) \in s
  BY <1>4, Picks
<1>6. g1[s \ {pick(s)}] = g2[s \ {pick(s)}]
  BY <1>1, <1>2, <1>5, <1>c
<1>. QED
  BY <1>2, <1>3, <1>4, <1>5, <1>6

\* The sum over a subset is found in the sums of any larger set.
LEMMA SumValue ==
  ASSUME NEW S, IsFiniteSet(S), NEW f, \A x \in S : f[x] \in Int,
         NEW g, IsSum(g, f, S), NEW s \in SUBSET S
  PROVE  SumFunctionOnSet(f, s) = g[s]
<1>1. IsFiniteSet(s) /\ \A x \in s : f[x] \in Int
  BY FS_Subset
<1>2. PICK h : IsSum(h, f, s)
  BY <1>1, SumExists
<1>3. IsSum(CHOOSE k : IsSum(k, f, s), f, s)
  BY <1>2
<1>. QED
  BY <1>1, <1>3, SumAgrees, SumUnfold

\* In whatever order the elements are taken.
LEMMA SumInAnyOrder ==
  ASSUME NEW S, IsFiniteSet(S), NEW f, \A x \in S : f[x] \in Int,
         NEW g \in [SUBSET S -> Int], IsSum(g, f, S)
  PROVE  AnyOrder(g, f, S)
<1>a. Unrolls(g, f, S)
  BY SumAt
<1>. DEFINE Bad == {s \in SUBSET S : \E x \in s : g[s] # f[x] + g[s \ {x}]}
<1>. SUFFICES ASSUME Bad # {} PROVE FALSE
  BY DEF AnyOrder
<1>1. PICK s \in Bad : \A t \in Bad : t \subseteq s => t = s
  <2>1. Bad \subseteq SUBSET S
    OBVIOUS
  <2>. HIDE DEF Bad
  <2>. QED BY <2>1, LeastSubset
<1>2. s \in SUBSET S
  BY <1>1
<1>3. PICK x \in s : g[s] # f[x] + g[s \ {x}]
  BY <1>1
<1>4. pick(s) \in s
  BY <1>3, Picks
<1>5. g[s] = f[pick(s)] + g[s \ {pick(s)}]
  BY <1>2, <1>3, <1>a DEF Unrolls
<1>6. x # pick(s)
  BY <1>3, <1>5
<1>7. g[s \ {pick(s)}] = f[x] + g[(s \ {pick(s)}) \ {x}]
  <2>1. s \ {pick(s)} \notin Bad /\ s \ {pick(s)} \in SUBSET S /\ x \in s \ {pick(s)}
    BY <1>1, <1>2, <1>3, <1>4, <1>6
  <2>. QED BY <2>1
<1>8. g[s \ {x}] = f[pick(s)] + g[(s \ {x}) \ {pick(s)}]
  <2>1. s \ {x} \notin Bad /\ s \ {x} \in SUBSET S /\ pick(s) \in s \ {x}
    BY <1>1, <1>2, <1>3, <1>4, <1>6
  <2>. QED BY <2>1
<1>9. (s \ {pick(s)}) \ {x} = (s \ {x}) \ {pick(s)}
  OBVIOUS
<1>10. \E rest \in Int : g[s \ {pick(s)}] = f[x] + rest /\ g[s \ {x}] = f[pick(s)] + rest
  <2>1. (s \ {x}) \ {pick(s)} \in SUBSET S
    BY <1>2
  <2>2. g[(s \ {x}) \ {pick(s)}] \in Int
    BY <2>1
  <2>. QED BY <1>7, <1>8, <1>9, <2>2, Zenon
<1>11. f[x] \in Int /\ f[pick(s)] \in Int
  BY <1>2, <1>3, <1>4
<1>. HIDE DEF Bad
<1>. QED
  BY <1>3, <1>5, <1>10, <1>11

\* What a sum is, without its order.
LEMMA SumRemove ==
  ASSUME NEW S, IsFiniteSet(S), NEW f, \A x \in S : f[x] \in Int
  PROVE  /\ SumFunctionOnSet(f, S) \in Int
         /\ \A x \in S : /\ SumFunctionOnSet(f, S \ {x}) \in Int
                         /\ SumFunctionOnSet(f, S) = f[x] + SumFunctionOnSet(f, S \ {x})
<1>1. PICK g \in [SUBSET S -> Int] : IsSum(g, f, S)
  BY SumExists
<1>2. S \in SUBSET S /\ \A x \in S : S \ {x} \in SUBSET S
  OBVIOUS
<1>3. \A s \in SUBSET S : SumFunctionOnSet(f, s) = g[s]
  BY <1>1, SumValue
<1>4. AnyOrder(g, f, S)
  BY <1>1, SumInAnyOrder
<1>. QED
  BY <1>1, <1>2, <1>3, <1>4 DEF AnyOrder

\* Functions that agree have the same sum.
LEMMA SumSame ==
  ASSUME NEW S, IsFiniteSet(S), NEW f, NEW h, \A x \in S : f[x] \in Int /\ h[x] = f[x]
  PROVE  SumFunctionOnSet(h, S) = SumFunctionOnSet(f, S)
<1>1. PICK g : IsSum(g, f, S)
  BY SumExists
<1>2. PICK k : IsSum(k, h, S)
  BY SumExists
<1>3. g[S] = k[S]
  BY <1>1, <1>2, SumAgrees
<1>4. SumFunctionOnSet(f, S) = g[S] /\ SumFunctionOnSet(h, S) = k[S]
  BY <1>1, <1>2, SumValue
<1>. QED
  BY <1>3, <1>4

\* A change at one point changes the sum by as much.
LEMMA SumChange ==
  ASSUME NEW S, IsFiniteSet(S), NEW f, NEW h, \A x \in S : f[x] \in Int,
         NEW x \in S, NEW d \in Int, h[x] = f[x] + d, \A y \in S \ {x} : h[y] = f[y]
  PROVE  SumFunctionOnSet(h, S) = SumFunctionOnSet(f, S) + d
<1>1. IsFiniteSet(S \ {x}) /\ \A y \in S : h[y] \in Int
  BY FS_RemoveElement
<1>2. SumFunctionOnSet(h, S \ {x}) = SumFunctionOnSet(f, S \ {x})
  BY <1>1, SumSame
<1>3. /\ SumFunctionOnSet(h, S) = h[x] + SumFunctionOnSet(h, S \ {x})
      /\ SumFunctionOnSet(f, S) = f[x] + SumFunctionOnSet(f, S \ {x})
      /\ SumFunctionOnSet(f, S \ {x}) \in Int
  BY <1>1, SumRemove
<1>. QED
  BY <1>2, <1>3

\* A part is no more than the whole.
LEMMA SumNatural ==
  ASSUME NEW S, IsFiniteSet(S), NEW f, \A x \in S : f[x] \in Nat
  PROVE  /\ SumFunctionOnSet(f, S) \in Nat
         /\ \A x \in S : f[x] <= SumFunctionOnSet(f, S)
<1>0. \A x \in S : f[x] \in Int
  OBVIOUS
<1>1. PICK g \in [SUBSET S -> Int] : IsSum(g, f, S)
  BY <1>0, SumExists
<1>a. Unrolls(g, f, S)
  BY <1>1, SumAt
<1>b. g[{}] >= 0
  BY <1>a DEF Unrolls
<1>2. \A s \in SUBSET S : g[s] >= 0
  <2>. DEFINE Bad == {s \in SUBSET S : ~ (g[s] >= 0)}
  <2>. SUFFICES ASSUME Bad # {} PROVE FALSE
    OBVIOUS
  <2>1. PICK s \in Bad : \A t \in Bad : t \subseteq s => t = s
    <3>1. Bad \subseteq SUBSET S
      OBVIOUS
    <3>. HIDE DEF Bad
    <3>. QED BY <3>1, LeastSubset
  <2>2. s # {}
    <3>1. s \in SUBSET S /\ ~ (g[s] >= 0)
      BY <2>1
    <3>. HIDE DEF Bad
    <3>. QED BY <3>1, <1>b
  <2>3. pick(s) \in s /\ s \in SUBSET S
    BY <2>1, <2>2, Picks
  <2>4. g[s \ {pick(s)}] >= 0
    BY <2>1, <2>3
  <2>5. g[s] = f[pick(s)] + g[s \ {pick(s)}]
    BY <2>2, <2>3, <1>a DEF Unrolls
  <2>6. f[pick(s)] \in Nat /\ g[s \ {pick(s)}] \in Int
    BY <1>1, <2>3
  <2>. QED BY <2>1, <2>4, <2>5, <2>6
<1>3. \A s \in SUBSET S : SumFunctionOnSet(f, s) = g[s]
  BY <1>0, <1>1, SumValue
<1>4. \A x \in S : SumFunctionOnSet(f, S) = f[x] + SumFunctionOnSet(f, S \ {x})
  BY <1>0, SumRemove
<1>5. \A x \in S : S \ {x} \in SUBSET S
  OBVIOUS
<1>6. \A s \in SUBSET S : SumFunctionOnSet(f, s) \in Nat
  BY <1>1, <1>2, <1>3
<1>7. ASSUME NEW x \in S PROVE f[x] <= SumFunctionOnSet(f, S)
  <2>1. SumFunctionOnSet(f, S \ {x}) \in Nat
    BY <1>5, <1>6
  <2>. QED BY <2>1, <1>4
<1>8. S \in SUBSET S
  OBVIOUS
<1>. QED
  BY <1>6, <1>7, <1>8

LEMMA SumZero ==
  ASSUME NEW S, IsFiniteSet(S), NEW f, \A x \in S : f[x] = 0
  PROVE  SumFunctionOnSet(f, S) = 0
<1>. DEFINE g == [s \in SUBSET S |-> 0]
<1>1. \A s \in SUBSET S : g[s] = IF s = {} THEN 0 ELSE f[pick(s)] + g[s \ {pick(s)}]
  <2>1. ASSUME NEW s \in SUBSET S, s # {} PROVE 0 = f[pick(s)] + g[s \ {pick(s)}]
    <3>1. pick(s) \in S /\ s \ {pick(s)} \in SUBSET S
      BY <2>1, Picks
    <3>. QED BY <3>1
  <2>. QED BY <2>1
<1>2. IsSum(g, f, S)
  BY <1>1 DEF IsSum
<1>3. \A x \in S : f[x] \in Int
  OBVIOUS
<1>4. g[S] = 0 /\ S \in SUBSET S
  OBVIOUS
<1>. HIDE DEF g
<1>. QED BY <1>2, <1>3, <1>4, SumValue

-----------------------------------------------------------------------------
(* The accounts                                                             *)

\* What each milestone holds.
Locked == [m \in MilestoneId |-> milestones[m].funded_amount]

LEMMA Finite == IsFiniteSet(MilestoneId) /\ IsFiniteSet(Holder)
<1>1. 1 \in Int /\ MaxMilestones \in Int
  BY LimitsAssumption
<1>2. IsFiniteSet(MilestoneId)
  BY <1>1, FS_Interval DEF MilestoneId
<1>3. IsFiniteSet(Holder)
  BY AccountsAssumption, FS_AddElement DEF Holder
<1>. QED
  BY <1>2, <1>3

\* Money that changes hands is neither made nor lost.
Moved(received, wallets, from, to, amount) ==
  \A a \in Holder : received[a] =
    wallets[a] - (IF a = from THEN amount ELSE 0) + (IF a = to THEN amount ELSE 0)

LEMMA MovedConserves ==
  ASSUME NEW wallets \in [Holder -> Int], NEW from \in Holder, NEW to \in Holder,
         NEW amount \in Int, NEW received \in [Holder -> Int],
         Moved(received, wallets, from, to, amount)
  PROVE  SumFunction(received) = SumFunction(wallets)
<1>. DEFINE paid == [a \in Holder |-> wallets[a] - (IF a = from THEN amount ELSE 0)]
<1>1. /\ \A a \in Holder : wallets[a] \in Int /\ paid[a] \in Int
      /\ paid[from] = wallets[from] + (0 - amount)
      /\ \A a \in Holder \ {from} : paid[a] = wallets[a]
      /\ received[to] = paid[to] + amount
      /\ \A a \in Holder \ {to} : received[a] = paid[a]
      /\ 0 - amount \in Int
  BY DEF Moved
<1>. HIDE DEF paid
<1>2. SumFunctionOnSet(paid, Holder) = SumFunctionOnSet(wallets, Holder) + (0 - amount)
  BY <1>1, SumChange, Finite
<1>3. SumFunctionOnSet(received, Holder) = SumFunctionOnSet(paid, Holder) + amount
  BY <1>1, SumChange, Finite
<1>4. SumFunctionOnSet(wallets, Holder) \in Int
  BY <1>1, Finite, SumRemove
<1>5. SumFunctionOnSet(received, Holder) = SumFunctionOnSet(wallets, Holder)
  BY <1>2, <1>3, <1>4
<1>6. DOMAIN received = Holder /\ DOMAIN wallets = Holder
  OBVIOUS
<1>. QED
  BY <1>5, <1>6 DEF SumFunction

LEMMA TransferConserves ==
  ASSUME balances \in [Holder -> Int], NEW from \in Holder, NEW to \in Holder, NEW amount \in Int
  PROVE  SumFunction(transferred(from, to, amount)) = SumFunction(balances)
<1>. DEFINE received == transferred(from, to, amount)
<1>1. received \in [Holder -> Int] /\ Moved(received, balances, from, to, amount)
  BY DEF transferred, Moved
<1>. HIDE DEF received
<1>2. SumFunction(received) = SumFunction(balances)
  BY <1>1, MovedConserves
<1>. QED
  BY <1>2 DEF received

\* A step that moves an amount into a milestone's escrow, or out of it, and keeps
\* the money together.
Deposits(m, amount) ==
  /\ balances'[Contract] = balances[Contract] + amount
  /\ milestones'[m].funded_amount = milestones[m].funded_amount + amount
  /\ \A k \in MilestoneId : k # m => milestones'[k] = milestones[k]
  /\ SumFunction(balances') = SumFunction(balances)

LEMMA LockedTypes ==
  ASSUME TypeOK
  PROVE  /\ DOMAIN Locked = MilestoneId /\ DOMAIN Locked' = MilestoneId
         /\ \A m \in MilestoneId : Locked[m] = milestones[m].funded_amount /\ Locked[m] \in Nat
         /\ \A m \in MilestoneId : Locked'[m] = milestones'[m].funded_amount
BY TypeFacts DEF Locked

LEMMA DepositsReconcile ==
  ASSUME TypeOK, AccountsReconcile, NEW m \in MilestoneId, NEW amount \in Int, Deposits(m, amount)
  PROVE  AccountsReconcile'
<1>1. \A k \in MilestoneId : Locked[k] \in Int
  BY LockedTypes
<1>2. Locked'[m] = Locked[m] + amount /\ \A k \in MilestoneId \ {m} : Locked'[k] = Locked[k]
  BY LockedTypes DEF Deposits
<1>3. SumFunctionOnSet(Locked', MilestoneId) = SumFunctionOnSet(Locked, MilestoneId) + amount
  BY <1>1, <1>2, SumChange, Finite
<1>4. SumFunction(Locked') = SumFunction(Locked) + amount
  BY <1>3, LockedTypes DEF SumFunction
<1>. QED
  BY <1>4 DEF Deposits, AccountsReconcile, Locked

LEMMA ReconcilesQuietly ==
  ASSUME TypeOK, AccountsReconcile, UNCHANGED balances,
         \A m \in MilestoneId : milestones'[m].funded_amount = milestones[m].funded_amount
  PROVE  AccountsReconcile'
<1>1. Locked' = Locked
  BY DEF Locked
<1>. QED
  BY <1>1 DEF AccountsReconcile, Locked

LEMMA Members == ASSUME TypeOK
                 PROVE  /\ balances \in [Holder -> Int] /\ Contract \in Holder
                        /\ \A a \in Account : a \in Holder /\ a # Contract
BY PartiesAssumption DEF TypeOK, Holder

LEMMA Buyers ==
  ASSUME ContractInv, NEW m \in MilestoneId, milestones[m].status # "Absent"
  PROVE  order_of(m).buyer \in Account /\ order_of(m).supplier \in Account
BY DEF ContractInv, Registered, order_of

\* A transfer between the contract and an account.
LEMMA Transferred ==
  ASSUME TypeOK, NEW a \in Account, NEW amount \in Int
  PROVE  /\ transferred(a, Contract, amount)[Contract] = balances[Contract] + amount
         /\ transferred(Contract, a, amount)[Contract] = balances[Contract] - amount
         /\ \A b \in Account : transferred(a, b, amount)[Contract] = balances[Contract]
         /\ SumFunction(transferred(a, Contract, amount)) = SumFunction(balances)
         /\ SumFunction(transferred(Contract, a, amount)) = SumFunction(balances)
         /\ \A b \in Account : SumFunction(transferred(a, b, amount)) = SumFunction(balances)
<1>1. /\ balances \in [Holder -> Int] /\ Contract \in Holder
      /\ \A b \in Account : b \in Holder /\ b # Contract
  BY Members
<1>2. /\ SumFunction(transferred(a, Contract, amount)) = SumFunction(balances)
      /\ SumFunction(transferred(Contract, a, amount)) = SumFunction(balances)
      /\ \A b \in Account : SumFunction(transferred(a, b, amount)) = SumFunction(balances)
  BY <1>1, TransferConserves
<1>. QED
  BY <1>1, <1>2 DEF transferred

LEMMA FundDeposits ==
  ASSUME ContractInv, NEW m \in MilestoneId, NEW amount \in Payments, NEW asset \in Asset,
         fund_milestone(m, amount, asset)
  PROVE  Deposits(m, amount) /\ amount \in Int
<1>1. TypeOK /\ amount \in Int /\ milestones \in [MilestoneId -> MilestoneRecord]
  BY ValuesAssumption DEF ContractInv, TypeOK
<1>2. milestones[m].status # "Absent"
  BY DEF fund_milestone, in_active_order
<1>3. order_of(m).buyer \in Account
  BY <1>2, Buyers
<1>4. /\ balances'[Contract] = balances[Contract] + amount
      /\ SumFunction(balances') = SumFunction(balances)
  BY <1>1, <1>3, Transferred DEF fund_milestone
<1>5. /\ milestones'[m].funded_amount = milestones[m].funded_amount + amount
      /\ \A k \in MilestoneId : k # m => milestones'[k] = milestones[k]
  BY <1>1 DEF fund_milestone, MilestoneRecord
<1>. QED
  BY <1>1, <1>4, <1>5 DEF Deposits

\* What the refund and the partial refund do to the accounts.
LEMMA ReturnDeposits ==
  ASSUME ContractInv, NEW m \in MilestoneId, cancel_partial_funding(m) \/ resolve_refund(m)
  PROVE  Deposits(m, 0 - milestones[m].funded_amount)
<1>1. TypeOK /\ milestones \in [MilestoneId -> MilestoneRecord] /\ milestones[m].funded_amount \in Int
  BY TypeFacts DEF ContractInv, TypeOK
<1>2. milestones[m].status # "Absent"
  BY DEF cancel_partial_funding, resolve_refund, resolvable, in_active_order
<1>3. order_of(m).buyer \in Account
  BY <1>2, Buyers
<1>4. balances' = transferred(Contract, order_of(m).buyer, milestones[m].funded_amount)
  BY DEF cancel_partial_funding, resolve_refund
<1>5. /\ balances'[Contract] = balances[Contract] - milestones[m].funded_amount
      /\ SumFunction(balances') = SumFunction(balances)
  BY <1>1, <1>3, <1>4, Transferred
<1>6. balances[Contract] \in Int
  BY <1>1, Members
<1>7. /\ milestones'[m].funded_amount = 0
      /\ \A k \in MilestoneId : k # m => milestones'[k] = milestones[k]
  BY <1>1 DEF cancel_partial_funding, resolve_refund, MilestoneRecord
<1>. QED
  BY <1>1, <1>5, <1>6, <1>7 DEF Deposits

LEMMA AdvanceConserves ==
  ASSUME ContractInv, NEW m \in MilestoneId, fund_advance(m)
  PROVE  Deposits(m, 0)
<1>1. /\ TypeOK /\ milestones \in [MilestoneId -> MilestoneRecord]
      /\ milestones[m].funded_amount \in Int /\ accepted[m].principal \in Int
  BY TypeFacts DEF ContractInv, TypeOK
<1>2. milestones[m].status # "Absent" /\ accepted[m].status # "Absent"
  BY DEF fund_advance, in_active_order
<1>3. order_of(m).supplier \in Account /\ accepted[m].funder \in Account
  BY <1>2, Buyers DEF ContractInv, OffersRegistered
<1>4. balances' = transferred(accepted[m].funder, order_of(m).supplier, accepted[m].principal)
  BY DEF fund_advance
<1>5. balances'[Contract] = balances[Contract] /\ SumFunction(balances') = SumFunction(balances)
  BY <1>1, <1>3, <1>4, Transferred
<1>6. balances[Contract] \in Int
  BY <1>1, Members
<1>7. /\ milestones'[m].funded_amount = milestones[m].funded_amount
      /\ \A k \in MilestoneId : k # m => milestones'[k] = milestones[k]
  BY <1>1 DEF fund_advance, MilestoneRecord
<1>. QED
  BY <1>1, <1>5, <1>6, <1>7 DEF Deposits

\* The waterfall is two transfers of the contract's.
LEMMA SettleDeposits ==
  ASSUME ContractInv, NEW m \in MilestoneId, NEW caller \in Account, settle_milestone(m, caller)
  PROVE  Deposits(m, 0 - milestones[m].funded_amount)
<1>. DEFINE payout == compute(m).supplier_payout
            owed == compute(m).funder_repayment
            supplier == order_of(m).supplier
            creditor == IF positions[m].status = "Active" THEN positions[m].funder ELSE supplier
            first == transferred(Contract, supplier, payout)
            second == [a \in Holder |-> first[a] - (IF a = Contract THEN owed ELSE 0)
                                              + (IF a = creditor THEN owed ELSE 0)]
<1>1. /\ TypeOK /\ milestones \in [MilestoneId -> MilestoneRecord]
      /\ milestones[m].funded_amount \in Int
  BY TypeFacts DEF ContractInv, TypeOK
<1>2. milestones[m].status # "Absent"
  BY DEF settle_milestone, in_active_order
<1>3. supplier \in Account
  BY <1>2, Buyers
<1>4. creditor \in Account
  <2>1. CASE positions[m].status = "Active"
    <3>1. accepted[m].status = "Funded" /\ positions[m].funder = accepted[m].funder
      BY <2>1 DEF ContractInv, FinancingSound, FinancingCoherent
    <3>2. accepted[m].funder \in Account
      BY <3>1 DEF ContractInv, OffersRegistered
    <3>. QED BY <2>1, <3>1, <3>2
  <2>. QED BY <2>1, <1>3
<1>5. /\ payout \in Nat /\ owed \in Nat /\ owed + payout = milestones[m].funded_amount
      /\ positions[m].status # "Active" => owed = 0
  <2>1. compute(m).funder_repayment <= milestones[m].funded_amount
    BY DEF settle_milestone
  <2>2. positions[m].status # "Active" => owed = 0
    BY DEF compute
  <2>. QED BY <1>1, <2>1, <2>2, Waterfall
<1>6. /\ balances \in [Holder -> Int] /\ Contract \in Holder
      /\ \A a \in Account : a \in Holder /\ a # Contract
  BY <1>1, Members
<1>7. balances' = second
  <2>1. balances' = paid_out(m)
    BY DEF settle_milestone
  <2>2. paid_out(m) = [a \in Holder |->
          IF a = Contract THEN balances[a] - milestones[m].funded_amount
          ELSE balances[a] + (IF a = supplier THEN payout ELSE 0)
                           + (IF a = positions[m].funder THEN owed ELSE 0)]
    BY <1>6 DEF paid_out
  <2>3. ASSUME NEW a \in Holder
        PROVE  second[a] = IF a = Contract THEN balances[a] - milestones[m].funded_amount
                          ELSE balances[a] + (IF a = supplier THEN payout ELSE 0)
                                           + (IF a = positions[m].funder THEN owed ELSE 0)
    <3>0. balances[a] \in Int /\ DOMAIN balances = Holder
      BY <1>6
    <3>1. first[a] = balances[a] - (IF a = Contract THEN payout ELSE 0)
                                 + (IF a = supplier THEN payout ELSE 0)
      BY <3>0 DEF transferred
    <3>2. second[a] = first[a] - (IF a = Contract THEN owed ELSE 0)
                             + (IF a = creditor THEN owed ELSE 0)
      OBVIOUS
    <3>. HIDE DEF first, second, payout, owed, supplier
    <3>3. CASE a = Contract
      BY <3>0, <3>1, <3>2, <3>3, <1>1, <1>3, <1>4, <1>5, <1>6
    <3>4. CASE a # Contract /\ positions[m].status = "Active"
      BY <3>0, <3>1, <3>2, <3>4, <1>5
    <3>5. CASE a # Contract /\ positions[m].status # "Active"
      BY <3>0, <3>1, <3>2, <3>5, <1>5
    <3>. QED BY <3>3, <3>4, <3>5
  <2>. QED BY <2>1, <2>2, <2>3
<1>8. SumFunction(first) = SumFunction(balances)
  BY <1>1, <1>3, <1>5, Transferred
<1>9. SumFunction(second) = SumFunction(first)
  <2>1. first \in [Holder -> Int]
    BY <1>5, <1>6 DEF transferred
  <2>. HIDE DEF first, owed, creditor
  <2>2. second \in [Holder -> Int] /\ Moved(second, first, Contract, creditor, owed)
    BY <2>1, <1>5 DEF Moved
  <2>3. creditor \in Holder /\ owed \in Int
    BY <1>4, <1>5, <1>6
  <2>. HIDE DEF second
  <2>. QED BY <2>1, <2>2, <2>3, <1>6, MovedConserves
<1>10. balances'[Contract] = balances[Contract] - milestones[m].funded_amount
  BY <1>6 DEF settle_milestone, paid_out
<1>11. /\ milestones'[m].funded_amount = 0
       /\ \A k \in MilestoneId : k # m => milestones'[k] = milestones[k]
  BY <1>1 DEF settle_milestone, MilestoneRecord
<1>12. balances[Contract] \in Int
  BY <1>6
<1>13. SumFunction(balances') = SumFunction(balances)
  BY <1>7, <1>8, <1>9
<1>. QED
  BY <1>1, <1>10, <1>11, <1>12, <1>13 DEF Deposits

\* The other steps leave every account and every escrow alone.
Quiet ==
  /\ UNCHANGED balances
  /\ \A m \in MilestoneId : milestones'[m].funded_amount = milestones[m].funded_amount

LEMMA QuietSteps ==
  ASSUME TypeOK, NEW m \in MilestoneId
  PROVE  /\ \A principal \in Payments, expires_at \in Expiries :
              request_finance(m, principal, expires_at) => Quiet
         /\ release_expired_acceptance(m) => Quiet
         /\ cancel_finance_request(m) => Quiet
         /\ \A digest \in Digest : submit_evidence(m, digest) \/ attest_milestone(m, digest) => Quiet
         /\ \A caller \in Account : open_dispute(m, caller) => Quiet
         /\ resolve_settle(m) => Quiet
<1>1. milestones \in [MilestoneId -> MilestoneRecord]
  BY DEF TypeOK
<1>. USE <1>1 DEF MilestoneRecord, Quiet
<1>2. ASSUME NEW principal \in Payments, NEW expires_at \in Expiries,
             request_finance(m, principal, expires_at)
      PROVE  Quiet
  BY <1>2 DEF request_finance
<1>3. ASSUME release_expired_acceptance(m) PROVE Quiet
  BY <1>3 DEF release_expired_acceptance
<1>4. ASSUME cancel_finance_request(m) PROVE Quiet
  BY <1>4 DEF cancel_finance_request
<1>5. ASSUME NEW digest \in Digest, submit_evidence(m, digest) \/ attest_milestone(m, digest)
      PROVE  Quiet
  BY <1>5 DEF submit_evidence, attest_milestone
<1>6. ASSUME NEW caller \in Account, open_dispute(m, caller) PROVE Quiet
  BY <1>6 DEF open_dispute
<1>7. ASSUME resolve_settle(m) PROVE Quiet
  BY <1>7 DEF resolve_settle
<1>. QED
  BY <1>2, <1>3, <1>4, <1>5, <1>6, <1>7

LEMMA QuietAside ==
  /\ \A m \in MilestoneId, funder \in Account, principal, repayment \in Payments,
        expires_at \in Expiries :
       make_offer(m, funder, principal, repayment, expires_at) => Quiet
  /\ \A f \in OfferId : cancel_offer(f) \/ accept_offer(f) => Quiet
  /\ advance_ledger => Quiet
  /\ UNCHANGED vars => Quiet
  /\ \A roles \in Proposals : create_order(roles) => Quiet
  /\ \A o \in OrderId : accept_order(o) \/ cancel_order(o) => Quiet
BY DEF make_offer, cancel_offer, accept_offer, advance_ledger, vars, create_order, accept_order,
       cancel_order, Quiet

LEMMA QuietOpens == ContractInv /\ Opens => Quiet
<1>. SUFFICES ASSUME ContractInv, Opens PROVE Quiet
  OBVIOUS
<1>1. PICK o \in OrderId : \E amount \in MilestoneAmounts :
        /\ create_milestone(o, amount) /\ milestone_count + 1 \in MilestoneId
        /\ milestones[milestone_count + 1] = NoMilestone
  BY OpeningFresh DEF ContractInv
<1>2. milestones \in [MilestoneId -> MilestoneRecord]
  BY DEF ContractInv, TypeOK
<1>. QED
  BY <1>1, <1>2 DEF create_milestone, NoMilestone, Quiet

LEMMA ReconcileStep == ContractInv /\ AccountsReconcile /\ [Next]_vars => AccountsReconcile'
<1>. SUFFICES ASSUME ContractInv, AccountsReconcile, [Next]_vars PROVE AccountsReconcile'
  OBVIOUS
<1>1. TypeOK
  BY DEF ContractInv
<1>2. ASSUME Quiet PROVE AccountsReconcile'
  BY <1>1, <1>2, ReconcilesQuietly DEF Quiet
<1>3. ASSUME NEW m \in MilestoneId, NEW amount \in Int, Deposits(m, amount)
      PROVE  AccountsReconcile'
  BY <1>1, <1>3, DepositsReconcile
<1>4. \A m \in MilestoneId : 0 - milestones[m].funded_amount \in Int
  BY <1>1, TypeFacts
<1>5. Quiet \/ \E m \in MilestoneId : \E amount \in Int : Deposits(m, amount)
  <2>1. CASE Orders
    BY <2>1, QuietAside DEF Orders
  <2>2. CASE Opens
    BY <2>2, QuietOpens
  <2>3. ASSUME NEW m \in MilestoneId, NEW amount \in Payments, NEW asset \in Asset,
               fund_milestone(m, amount, asset)
        PROVE  \E sum \in Int : Deposits(m, sum)
    BY <2>3, FundDeposits
  <2>4. ASSUME NEW m \in MilestoneId, cancel_partial_funding(m) \/ resolve_refund(m)
        PROVE  \E sum \in Int : Deposits(m, sum)
    BY <2>4, <1>4, ReturnDeposits
  <2>5. ASSUME NEW m \in MilestoneId, fund_advance(m)
        PROVE  \E sum \in Int : Deposits(m, sum)
    BY <2>5, AdvanceConserves
  <2>6. ASSUME NEW m \in MilestoneId, NEW caller \in Account, settle_milestone(m, caller)
        PROVE  \E sum \in Int : Deposits(m, sum)
    BY <2>6, <1>4, SettleDeposits
  <2>. QED
    BY <2>1, <2>2, <2>3, <2>4, <2>5, <2>6, <1>1, QuietSteps, QuietAside DEF Next, Orders, Opens
<1>. QED
  BY <1>2, <1>3, <1>5

LEMMA ReconcileInit == Init => AccountsReconcile
<1>. SUFFICES ASSUME Init PROVE AccountsReconcile
  OBVIOUS
<1>1. /\ balances = [a \in Holder |-> IF a = Contract THEN 0 ELSE InitialBalance[a]]
      /\ DOMAIN balances = Holder /\ DOMAIN InitialBalance = Account
  BY ValuesAssumption DEF Init, Holder
<1>2. /\ Contract \in Holder /\ Holder \ {Contract} = Account
      /\ \A a \in Account : a # Contract /\ a \in Holder /\ InitialBalance[a] \in Int
  BY PartiesAssumption, ValuesAssumption DEF Holder
<1>3. /\ \A a \in Holder : balances[a] \in Int
      /\ \A a \in Account : balances[a] = InitialBalance[a]
      /\ balances[Contract] = 0
  BY <1>1, <1>2
<1>4. SumFunctionOnSet(balances, Account) = SumFunctionOnSet(InitialBalance, Account)
  BY <1>2, <1>3, AccountsAssumption, SumSame
<1>5. /\ SumFunctionOnSet(balances, Holder) =
           balances[Contract] + SumFunctionOnSet(balances, Holder \ {Contract})
      /\ SumFunctionOnSet(balances, Holder \ {Contract}) \in Int
  BY <1>2, <1>3, Finite, SumRemove
<1>6. SumFunction(balances) = SumFunction(InitialBalance)
  <2>1. DOMAIN balances = Holder /\ DOMAIN InitialBalance = Account
    BY <1>1
  <2>2. SumFunctionOnSet(balances, Holder) = SumFunctionOnSet(InitialBalance, Account)
    <3>1. SumFunctionOnSet(balances, Holder \ {Contract}) = SumFunctionOnSet(balances, Account)
      BY <1>2, Zenon
    <3>. QED BY <3>1, <1>3, <1>4, <1>5
  <2>. QED BY <2>1, <2>2 DEF SumFunction
<1>7. \A m \in MilestoneId : Locked[m] = 0
  BY DEF Init, Locked, NoMilestone
<1>8. DOMAIN Locked = MilestoneId
  BY DEF Locked
<1>9. SumFunction(Locked) = 0
  BY <1>7, <1>8, SumZero, Finite DEF SumFunction
<1>. QED
  BY <1>3, <1>6, <1>9 DEF AccountsReconcile, Locked

\* The one balance the contract holds is the sum of what its milestones hold, and
\* no unit of the token is made or lost, by any invocation (escrow.rs and
\* settlement.rs pay every milestone from this balance).
THEOREM AccountsBalance == Spec => []AccountsReconcile
<1>. QED
  BY ReconcileInit, ReconcileStep, InvHolds, PTL DEF Spec

\* The guards of the two invocations that pay a milestone out, for its supplier and
\* for its resolver (settle_milestone, resolve_dispute).
PayoutAccepted ==
  \A m \in MilestoneId :
    /\ milestones[m].status \in {"Verified", "Disputed"} =>
         /\ order_of(m).status = "Active"
         /\ 0 < milestones[m].funded_amount
         /\ can_pay(Contract, milestones[m].funded_amount)
         /\ compute(m).funder_repayment <= milestones[m].funded_amount
    /\ milestones[m].status = "Verified" =>
         /\ is_beneficiary(m, order_of(m).supplier)
         /\ positions[m].status = "Active" => is_beneficiary(m, positions[m].funder)
    /\ milestones[m].status = "Disputed" => resolvable(m)

LEMMA EscrowCovered ==
  ASSUME TypeOK, AccountsReconcile, NEW m \in MilestoneId
  PROVE  can_pay(Contract, milestones[m].funded_amount)
<1>1. \A k \in MilestoneId : Locked[k] \in Nat
  BY LockedTypes
<1>2. Locked[m] <= SumFunctionOnSet(Locked, MilestoneId)
  BY <1>1, Finite, SumNatural
<1>3. SumFunctionOnSet(Locked, MilestoneId) = balances[Contract]
  BY LockedTypes DEF AccountsReconcile, Locked, SumFunction
<1>. QED
  BY <1>2, <1>3, LockedTypes DEF can_pay

LEMMA UnderwayIsActive ==
  ASSUME ContractInv, NEW m \in MilestoneId, milestones[m].status \in {"Verified", "Disputed"}
  PROVE  order_of(m).status = "Active"
<1>1. /\ milestones[m].order_id \in OrderId /\ order_of(m).status # "Absent"
      /\ m \in order_milestones[milestones[m].order_id]
  BY DEF ContractInv, Registered
<1>2. order_of(m).status \notin {"Created", "Cancelled"}
  BY DEF ContractInv, UntouchedBefore
<1>3. order_of(m).status # "Completed"
  BY <1>1 DEF ContractInv, CompletedWithLastMilestone, Terminal, order_of
<1>4. order_of(m).status \in OrderStatus
  BY <1>1 DEF ContractInv, TypeOK, OrderRecord, order_of
<1>. QED
  BY <1>1, <1>2, <1>3, <1>4 DEF OrderStatus

\* Whatever happened to the other milestones, a verified one passes every check of
\* settle_milestone, called by its supplier or by its funder, and a disputed one
\* every check of a refund: the shared balance covers it and the repayment fits.
THEOREM PayoutsNeverRefused == Spec => []PayoutAccepted
<1>1. ContractInv /\ AccountsReconcile => PayoutAccepted
  <2>. SUFFICES ASSUME ContractInv, AccountsReconcile, NEW m \in MilestoneId,
                       milestones[m].status \in {"Verified", "Disputed"}
                PROVE  /\ order_of(m).status = "Active"
                       /\ 0 < milestones[m].funded_amount
                       /\ can_pay(Contract, milestones[m].funded_amount)
                       /\ compute(m).funder_repayment <= milestones[m].funded_amount
                       /\ milestones[m].status = "Verified" =>
                            /\ is_beneficiary(m, order_of(m).supplier)
                            /\ positions[m].status = "Active" =>
                                 is_beneficiary(m, positions[m].funder)
                       /\ milestones[m].status = "Disputed" => resolvable(m)
    BY DEF PayoutAccepted
  <2>1. TypeOK
    BY DEF ContractInv
  <2>2. order_of(m).status = "Active"
    BY UnderwayIsActive
  <2>3. 0 < milestones[m].funded_amount /\ milestones[m].funded_amount \in Nat
    BY <2>1, TypeFacts DEF ContractInv, ProtectedInFull, Protected
  <2>4. compute(m).funder_repayment <= milestones[m].funded_amount
    BY <2>3 DEF ContractInv, FinancingSound, RepaymentCovered, compute
  <2>5. milestones[m].status = "Disputed" => resolvable(m)
    BY <2>2 DEF ContractInv, DisputeCoherent, resolvable, in_active_order
  <2>. QED
    BY <2>1, <2>2, <2>3, <2>4, <2>5, EscrowCovered DEF is_beneficiary
<1>. QED
  BY <1>1, InvHolds, AccountsBalance, PTL

-----------------------------------------------------------------------------
(* Each milestone is a protected payment                                    *)

\* What the abstract payment sees.
Deals == [m \in MilestoneId |-> deal_of(m)]
Stages == [m \in MilestoneId |-> stage_of(milestones[m].status)]
LockedSums == [m \in MilestoneId |-> milestones[m].funded_amount]
loan_of(m) == [funder |-> positions[m].funder, principal |-> positions[m].principal,
               repayment |-> positions[m].repayment]
Loans == [m \in MilestoneId |-> loan_of(m)]

LEMMA StageFacts ==
  /\ stage_of("Absent") = "None" /\ stage_of("Unfunded") = "Open"
  /\ \A status \in Protected : stage_of(status) = "Locked"
  /\ stage_of("Settled") = "Paid" /\ stage_of("Refunded") = "Returned"
BY DEF stage_of, Protected

\* Steps invisible to a payment: its deal, its stage, its money and its loan stay.
Invisible(m) ==
  /\ deal_of(m)' = deal_of(m)
  /\ stage_of(milestones'[m].status) = stage_of(milestones[m].status)
  /\ milestones'[m].funded_amount = milestones[m].funded_amount
  /\ loan_of(m)' = loan_of(m)

LEMMA Stutters ==
  ASSUME \A m \in MilestoneId : Invisible(m), UNCHANGED balances
  PROVE  UNCHANGED PP!payVars
BY DEF Invisible, PP!payVars, loan_of

LEMMA DealsKept ==
  ASSUME TypeOK, Registered, Kept, NEW m \in MilestoneId
  PROVE  deal_of(m)' = deal_of(m)
BY DEF Kept, Registered, deal_of, order_of

\* A deposited milestone's deal: its order's parties and its amount.
LEMMA DealFacts ==
  ASSUME Registered, NEW m \in MilestoneId, milestones[m].status # "Absent"
  PROVE  /\ deal_of(m).buyer = order_of(m).buyer /\ deal_of(m).supplier = order_of(m).supplier
         /\ deal_of(m).price = milestones[m].amount
         /\ order_of(m).buyer \in Account /\ order_of(m).supplier \in Account
         /\ order_of(m).buyer # order_of(m).supplier
BY DEF Registered, deal_of, order_of

LEMMA RefinesInit == Init => PP!PayInit
<1>. SUFFICES ASSUME Init PROVE PP!PayInit
  OBVIOUS
<1>1. balances \in [Account \cup {Contract} -> Int] /\ balances[Contract] = 0
  BY ValuesAssumption, PartiesAssumption DEF Init
<1>2. /\ Deals = [m \in MilestoneId |-> PP!NoDeal]
      /\ Stages = [m \in MilestoneId |-> "None"]
      /\ LockedSums = [m \in MilestoneId |-> 0]
      /\ Loans = [m \in MilestoneId |-> PP!NoLoan]
  BY StageFacts DEF Init, Deals, Stages, LockedSums, Loans, loan_of, deal_of, NoMilestone,
                    NoPosition, PP!NoDeal, PP!NoLoan
<1>. QED
  BY <1>1, <1>2 DEF PP!PayInit, Deals, Stages, LockedSums, Loans, loan_of

-----------------------------------------------------------------------------
(* One payment moves                                                        *)

LEMMA OneMoves ==
  ASSUME NEW m \in MilestoneId, \A k \in MilestoneId : k # m => Invisible(k)
  PROVE  /\ Deals' = [Deals EXCEPT ![m] = deal_of(m)']
         /\ Stages' = [Stages EXCEPT ![m] = stage_of(milestones'[m].status)]
         /\ LockedSums' = [LockedSums EXCEPT ![m] = milestones'[m].funded_amount]
         /\ Loans' = [Loans EXCEPT ![m] = loan_of(m)']
BY DEF Invisible, Deals, Stages, LockedSums, Loans

\* A payment whose milestone a step works on keeps its deal; the others do not move.
LEMMA OthersStay ==
  ASSUME TypeOK, Registered, NEW m \in MilestoneId, Works(m) \/ Ends(m),
         \A k \in MilestoneId : k # m => positions'[k] = positions[k]
  PROVE  /\ \A k \in MilestoneId : k # m => Invisible(k)
         /\ deal_of(m)' = deal_of(m)
<1>1. Kept
  BY KeptBy
<1>2. \A k \in MilestoneId : deal_of(k)' = deal_of(k)
  BY <1>1, DealsKept
<1>3. \A k \in MilestoneId : k # m => milestones'[k] = milestones[k]
  BY DEF Works, Ends, Touches
<1>. QED
  BY <1>2, <1>3 DEF Invisible, loan_of

LEMMA RefinesAgree ==
  ASSUME ContractInv, Opens
  PROVE  PP!PayNext
<1>1. PICK o \in OrderId, amount \in MilestoneAmounts :
        /\ create_milestone(o, amount)
        /\ milestone_count + 1 \in MilestoneId
        /\ milestones[milestone_count + 1] = NoMilestone
  BY OpeningFresh DEF ContractInv
<1>2. PICK new \in MilestoneId : new = milestone_count + 1
  BY <1>1
<1>3. /\ milestones'[new].status = "Unfunded" /\ milestones'[new].order_id = o
      /\ milestones'[new].amount = amount /\ milestones'[new].funded_amount = 0
      /\ \A m \in MilestoneId : m # new => milestones'[m] = milestones[m]
      /\ UNCHANGED <<orders, positions, balances>>
      /\ orders[o].status # "Absent" /\ amount > 0
  BY <1>1, <1>2 DEF create_milestone, ContractInv, TypeOK, financeVars
<1>4. \A k \in MilestoneId : k # new => Invisible(k)
  BY <1>3 DEF Invisible, deal_of, order_of, loan_of
<1>5. /\ deal_of(new)' = [buyer |-> orders[o].buyer, supplier |-> orders[o].supplier,
                          price |-> amount]
      /\ loan_of(new)' = loan_of(new)
  BY <1>3 DEF deal_of, order_of, loan_of
<1>6. /\ orders[o].buyer \in Account /\ orders[o].supplier \in Account
      /\ orders[o].buyer # orders[o].supplier
  BY <1>3 DEF ContractInv, Registered
<1>7. Stages[new] = "None" /\ LockedSums[new] = 0
  BY <1>1, <1>2, StageFacts DEF Stages, LockedSums, NoMilestone
<1>8. /\ Deals' = [Deals EXCEPT ![new] = [buyer |-> orders[o].buyer,
                                          supplier |-> orders[o].supplier, price |-> amount]]
      /\ Stages' = [Stages EXCEPT ![new] = "Open"]
      /\ LockedSums' = LockedSums /\ Loans' = Loans
  <2>1. stage_of(milestones'[new].status) = "Open"
    BY <1>3, StageFacts
  <2>2. LockedSums' = [LockedSums EXCEPT ![new] = LockedSums[new]]
        /\ Loans' = [Loans EXCEPT ![new] = Loans[new]]
    BY <1>3, <1>4, <1>5, <1>7, OneMoves DEF Loans
  <2>. QED
    BY <1>4, <1>5, <2>1, <2>2, OneMoves DEF LockedSums, Loans
<1>9. PP!Agree(new, orders[o].buyer, orders[o].supplier, amount)
  BY <1>3, <1>6, <1>7, <1>8 DEF PP!Agree, Deals, Stages, LockedSums, Loans, loan_of
<1>. QED
  BY <1>6, <1>9 DEF PP!PayNext

LEMMA RefinesDeposit ==
  ASSUME ContractInv, NEW m \in MilestoneId, NEW amount \in Payments, NEW asset \in Asset,
         fund_milestone(m, amount, asset)
  PROVE  PP!PayNext
<1>. DEFINE total == milestones[m].funded_amount + amount
<1>1. /\ milestones[m].status = "Unfunded" /\ amount > 0 /\ total <= milestones[m].amount
      /\ amount <= balances[order_of(m).buyer]
      /\ balances' = transferred(order_of(m).buyer, Contract, amount)
      /\ milestones'[m].funded_amount = total
      /\ milestones'[m].status = IF total = milestones[m].amount THEN "Funded" ELSE "Unfunded"
      /\ UNCHANGED positions
  BY FinanceTypes DEF ContractInv, fund_milestone, in_active_order, can_pay, status_after,
                      MilestoneRecord, financeVars
<1>2. /\ \A k \in MilestoneId : k # m => Invisible(k)
      /\ deal_of(m)' = deal_of(m) /\ loan_of(m)' = loan_of(m)
  BY <1>1, Working, OthersStay DEF ContractInv, loan_of
<1>3. /\ deal_of(m).buyer = order_of(m).buyer /\ deal_of(m).price = milestones[m].amount
  BY <1>1, DealFacts DEF ContractInv
<1>4. /\ Stages[m] = "Open"
      /\ stage_of(milestones'[m].status) = IF total = milestones[m].amount THEN "Locked" ELSE "Open"
  BY <1>1, StageFacts DEF Stages, Protected
<1>5. /\ Deals' = Deals /\ Loans' = Loans
      /\ Stages' = [Stages EXCEPT ![m] = IF total = milestones[m].amount THEN "Locked" ELSE "Open"]
      /\ LockedSums' = [LockedSums EXCEPT ![m] = LockedSums[m] + amount]
  BY <1>1, <1>2, <1>4, OneMoves DEF Deals, Loans, LockedSums
<1>6. PP!Deposit(m, amount)
  BY <1>1, <1>3, <1>4, <1>5
     DEF PP!Deposit, PP!moved, transferred, Deals, Stages, LockedSums, Loans, loan_of
<1>. QED
  BY <1>6 DEF PP!PayNext

LEMMA RefinesTakeBack ==
  ASSUME ContractInv, NEW m \in MilestoneId, cancel_partial_funding(m)
  PROVE  PP!PayNext
<1>1. /\ milestones[m].status = "Unfunded" /\ milestones[m].funded_amount > 0
      /\ balances' = transferred(Contract, order_of(m).buyer, milestones[m].funded_amount)
      /\ milestones'[m].funded_amount = 0 /\ milestones'[m].status = "Unfunded"
      /\ UNCHANGED positions
  BY FinanceTypes DEF ContractInv, cancel_partial_funding, in_active_order, MilestoneRecord,
                      financeVars
<1>2. /\ \A k \in MilestoneId : k # m => Invisible(k)
      /\ deal_of(m)' = deal_of(m) /\ loan_of(m)' = loan_of(m)
  BY <1>1, Working, OthersStay DEF ContractInv, loan_of
<1>3. deal_of(m).buyer = order_of(m).buyer
  BY <1>1, DealFacts DEF ContractInv
<1>4. Stages[m] = "Open" /\ stage_of(milestones'[m].status) = "Open"
  BY <1>1, StageFacts DEF Stages
<1>5. /\ Deals' = Deals /\ Loans' = Loans /\ Stages' = Stages
      /\ LockedSums' = [LockedSums EXCEPT ![m] = 0]
  BY <1>1, <1>2, <1>4, OneMoves DEF Deals, Loans, Stages
<1>6. PP!TakeBack(m)
  BY <1>1, <1>3, <1>4, <1>5
     DEF PP!TakeBack, PP!moved, transferred, Deals, Stages, LockedSums, Loans, loan_of
<1>. QED
  BY <1>6 DEF PP!PayNext

LEMMA RefinesLend ==
  ASSUME ContractInv, NEW m \in MilestoneId, fund_advance(m)
  PROVE  PP!PayNext
<1>. DEFINE offer == accepted[m]
<1>1. /\ milestones[m].status = "FinanceRequested" /\ milestones'[m].status = "Financed"
      /\ milestones'[m].funded_amount = milestones[m].funded_amount
      /\ offer.status = "Accepted" /\ positions[m].status = "Absent"
      /\ offer.funder \notin {order_of(m).buyer, order_of(m).supplier}
      /\ 0 < offer.principal /\ offer.principal <= offer.repayment
      /\ offer.repayment <= milestones[m].funded_amount
      /\ offer.principal <= balances[offer.funder]
      /\ balances' = transferred(offer.funder, order_of(m).supplier, offer.principal)
  BY FinanceTypes DEF ContractInv, fund_advance, in_active_order, validate_funder,
                      validate_economics, can_pay, MilestoneRecord
<1>2. /\ positions'[m].funder = offer.funder /\ positions'[m].principal = offer.principal
      /\ positions'[m].repayment = offer.repayment
      /\ \A k \in MilestoneId : k # m => positions'[k] = positions[k]
  BY FinanceTypes DEF ContractInv, fund_advance
<1>3. /\ \A k \in MilestoneId : k # m => Invisible(k)
      /\ deal_of(m)' = deal_of(m)
  BY <1>2, Working, OthersStay DEF ContractInv
<1>4. /\ deal_of(m).buyer = order_of(m).buyer /\ deal_of(m).supplier = order_of(m).supplier
      /\ deal_of(m).price = milestones[m].funded_amount
  BY <1>1, DealFacts DEF ContractInv, ProtectedInFull, Protected
<1>5. offer.funder \in Account /\ Loans[m] = PP!NoLoan
  BY <1>1 DEF ContractInv, OffersRegistered, Loans, loan_of, NoPosition, PP!NoLoan
<1>6. offer.principal \in Payments /\ offer.repayment \in Payments
  <2>1. offer \in AcceptedRecord
    BY FinanceTypes DEF ContractInv
  <2>. QED
    BY <1>1, <2>1, SumFacts DEF AcceptedRecord, Sum
<1>7. Stages[m] = "Locked" /\ stage_of(milestones'[m].status) = "Locked"
  BY <1>1, StageFacts DEF Stages, Protected
<1>8. /\ Deals' = Deals /\ Stages' = Stages /\ LockedSums' = LockedSums
      /\ Loans' = [Loans EXCEPT ![m] = [funder |-> offer.funder, principal |-> offer.principal,
                                        repayment |-> offer.repayment]]
  <2>1. loan_of(m)' = [funder |-> offer.funder, principal |-> offer.principal,
                       repayment |-> offer.repayment]
    BY <1>2 DEF loan_of
  <2>2. Stages' = Stages
    BY <1>3, <1>7, OneMoves DEF Stages
  <2>3. LockedSums' = LockedSums
    BY <1>1, <1>3, OneMoves DEF LockedSums
  <2>4. Deals' = Deals
    BY <1>3, OneMoves DEF Deals
  <2>. QED
    BY <1>3, <2>1, <2>2, <2>3, <2>4, OneMoves
<1>9. PICK funder \in Account, principal \in Payments, repayment \in Payments :
        funder = offer.funder /\ principal = offer.principal /\ repayment = offer.repayment
  BY <1>5, <1>6
<1>10. PP!Lend(m, funder, principal, repayment)
  BY <1>1, <1>4, <1>5, <1>7, <1>8, <1>9
     DEF PP!Lend, PP!moved, transferred, Deals, Stages, LockedSums, Loans, loan_of
<1>. QED
  BY <1>10 DEF PP!PayNext

\* The position of a milestone about to end is active, or there never was one.
LEMMA EndingLoan ==
  ASSUME ContractInv, NEW m \in MilestoneId, milestones[m].status \in {"Verified", "Disputed"}
  PROVE  \/ /\ positions[m].status = "Active" /\ positions[m].funder \in Account
            /\ 0 < positions[m].repayment /\ positions[m].repayment <= milestones[m].funded_amount
         \/ positions[m] = NoPosition
<1>1. Sound(m) /\ positions[m].status \in {"Absent", "Active", "Repaid", "Closed"}
  BY SoundFacts, FinanceTypes DEF ContractInv
<1>2. CASE positions[m].status = "Absent"
  BY <1>2 DEF ContractInv, OffersRegistered
<1>3. CASE positions[m].status = "Active"
  <2>1. positions[m].funder \in Account
    BY <1>1, <1>3 DEF ContractInv, OffersRegistered, Sound, Coherent
  <2>2. positions[m].repayment \in Nat /\ positions[m].principal \in Nat
    BY TypeFacts DEF ContractInv
  <2>. QED
    BY <1>1, <1>3, <2>1, <2>2 DEF Sound, Covered
<1>. QED
  BY <1>1, <1>2, <1>3 DEF Sound, Coherent

LEMMA LoanEnds ==
  ASSUME TypeOK, NEW m \in MilestoneId, NEW status, ended_position(m, status)
  PROVE  \A k \in MilestoneId : /\ loan_of(k)' = loan_of(k)
                                /\ k # m => positions'[k] = positions[k]
<1>1. positions \in [MilestoneId -> PositionRecord]
  BY FinanceTypes
<1>. QED
  BY <1>1 DEF ended_position, loan_of, PositionRecord

LEMMA RefinesPay ==
  ASSUME ContractInv, NEW m \in MilestoneId, NEW caller \in Account, settle_milestone(m, caller)
  PROVE  PP!PayNext
<1>1. /\ milestones[m].status = "Verified" /\ milestones'[m].status = "Settled"
      /\ milestones'[m].funded_amount = 0 /\ balances' = paid_out(m)
      /\ ended_position(m, "Repaid")
  BY FinanceTypes DEF ContractInv, settle_milestone, in_active_order, MilestoneRecord
<1>2. /\ \A k \in MilestoneId : loan_of(k)' = loan_of(k)
      /\ \A k \in MilestoneId : k # m => positions'[k] = positions[k]
  BY <1>1, LoanEnds DEF ContractInv
<1>3. /\ \A k \in MilestoneId : k # m => Invisible(k)
      /\ deal_of(m)' = deal_of(m)
  BY <1>2, Ending, OthersStay DEF ContractInv
<1>4. /\ deal_of(m).supplier = order_of(m).supplier /\ order_of(m).supplier \in Account
      /\ deal_of(m).price = milestones[m].funded_amount
  BY <1>1, DealFacts DEF ContractInv, ProtectedInFull, Protected
<1>5. Stages[m] = "Locked" /\ stage_of(milestones'[m].status) = "Paid"
  BY <1>1, StageFacts DEF Stages, Protected
<1>6. /\ Deals' = Deals /\ Loans' = Loans
      /\ Stages' = [Stages EXCEPT ![m] = "Paid"] /\ LockedSums' = [LockedSums EXCEPT ![m] = 0]
  BY <1>1, <1>2, <1>3, <1>5, OneMoves DEF Deals, Loans
<1>7. balances' = [a \in DOMAIN balances |->
        balances[a] + (IF a = Contract THEN -deal_of(m).price ELSE 0)
                    + (IF a = loan_of(m).funder THEN loan_of(m).repayment ELSE 0)
                    + (IF a = deal_of(m).supplier THEN deal_of(m).price - loan_of(m).repayment ELSE 0)]
  <2>. DEFINE locked == milestones[m].funded_amount
              owed == positions[m].repayment
              funder == positions[m].funder
              supplier == order_of(m).supplier
  <2>1. /\ locked \in Int /\ owed \in Int /\ supplier # Contract
        /\ owed # 0 => funder # Contract
        /\ owed = IF positions[m].status = "Active" THEN positions[m].repayment ELSE 0
        /\ \A a \in DOMAIN balances : balances[a] \in Int
    BY <1>1, <1>4, EndingLoan, PartiesAssumption, TypeFacts DEF ContractInv, TypeOK, NoPosition
  <2>2. balances' = [a \in DOMAIN balances |->
          IF a = Contract THEN balances[a] - locked
          ELSE balances[a] + (IF a = supplier THEN locked - owed ELSE 0)
                           + (IF a = funder THEN owed ELSE 0)]
    BY <1>1, <2>1 DEF paid_out, compute
  <2>3. deal_of(m).price = locked /\ deal_of(m).supplier = supplier
        /\ loan_of(m).funder = funder /\ loan_of(m).repayment = owed
    BY <1>4 DEF loan_of
  <2>. HIDE DEF locked, owed, funder, supplier
  <2>. QED
    BY <2>1, <2>2, <2>3
<1>8. PP!Pay(m)
  BY <1>5, <1>6, <1>7 DEF PP!Pay, Deals, Stages, LockedSums, Loans, loan_of
<1>. QED
  BY <1>8 DEF PP!PayNext

LEMMA RefinesGiveBack ==
  ASSUME ContractInv, NEW m \in MilestoneId, resolve_refund(m)
  PROVE  PP!PayNext
<1>1. /\ milestones[m].status = "Disputed" /\ milestones'[m].status = "Refunded"
      /\ milestones'[m].funded_amount = 0
      /\ balances' = transferred(Contract, order_of(m).buyer, milestones[m].funded_amount)
      /\ ended_position(m, "Closed")
  BY FinanceTypes DEF ContractInv, resolve_refund, resolvable, in_active_order, MilestoneRecord
<1>2. /\ \A k \in MilestoneId : loan_of(k)' = loan_of(k)
      /\ \A k \in MilestoneId : k # m => positions'[k] = positions[k]
  BY <1>1, LoanEnds DEF ContractInv
<1>3. /\ \A k \in MilestoneId : k # m => Invisible(k)
      /\ deal_of(m)' = deal_of(m)
  BY <1>2, Ending, OthersStay DEF ContractInv
<1>4. /\ deal_of(m).buyer = order_of(m).buyer /\ deal_of(m).price = milestones[m].funded_amount
  BY <1>1, DealFacts DEF ContractInv, ProtectedInFull, Protected
<1>5. Stages[m] = "Locked" /\ stage_of(milestones'[m].status) = "Returned"
  BY <1>1, StageFacts DEF Stages, Protected
<1>6. /\ Deals' = Deals /\ Loans' = Loans
      /\ Stages' = [Stages EXCEPT ![m] = "Returned"] /\ LockedSums' = [LockedSums EXCEPT ![m] = 0]
  BY <1>1, <1>2, <1>3, <1>5, OneMoves DEF Deals, Loans
<1>7. PP!GiveBack(m)
  BY <1>1, <1>4, <1>5, <1>6
     DEF PP!GiveBack, PP!moved, transferred, Deals, Stages, LockedSums, Loans, loan_of
<1>. QED
  BY <1>7 DEF PP!PayNext

-----------------------------------------------------------------------------
(* The others are invisible                                                 *)

\* Works on a milestone without touching its money, its stage or any position.
LEMMA RefinesQuietly ==
  ASSUME ContractInv, NEW m \in MilestoneId, Works(m), UNCHANGED <<positions, balances>>,
         milestones[m].status \in Protected, milestones'[m].status \in Protected,
         milestones'[m].funded_amount = milestones[m].funded_amount
  PROVE  UNCHANGED PP!payVars
<1>1. /\ \A k \in MilestoneId : k # m => Invisible(k)
      /\ deal_of(m)' = deal_of(m)
  BY OthersStay DEF ContractInv
<1>2. Invisible(m)
  BY <1>1, StageFacts DEF Invisible, loan_of
<1>. QED
  BY <1>1, <1>2, Stutters

LEMMA QuietWork ==
  ASSUME TypeOK, NEW m \in MilestoneId,
         \/ \E principal \in Payments, expires_at \in Expiries :
              request_finance(m, principal, expires_at)
         \/ release_expired_acceptance(m) \/ cancel_finance_request(m)
         \/ \E digest \in Digest : submit_evidence(m, digest) \/ attest_milestone(m, digest)
         \/ \E caller \in Account : open_dispute(m, caller)
         \/ resolve_settle(m)
  PROVE  /\ Works(m) /\ UNCHANGED <<positions, balances>>
         /\ milestones[m].status \in Protected /\ milestones'[m].status \in Protected
         /\ milestones'[m].funded_amount = milestones[m].funded_amount
<1>1. milestones \in [MilestoneId -> MilestoneRecord]
  BY DEF TypeOK
<1>2. Works(m)
  BY Working
<1>. USE <1>1 DEF MilestoneRecord, in_active_order, financeVars, Protected
<1>3. CASE \E principal \in Payments, expires_at \in Expiries :
             request_finance(m, principal, expires_at)
  BY <1>2, <1>3 DEF request_finance
<1>4. CASE release_expired_acceptance(m) \/ cancel_finance_request(m)
  BY <1>2, <1>4 DEF release_expired_acceptance, cancel_finance_request
<1>5. CASE \E digest \in Digest : submit_evidence(m, digest) \/ attest_milestone(m, digest)
  BY <1>2, <1>5 DEF submit_evidence, attest_milestone, Workable
<1>6. CASE \E caller \in Account : open_dispute(m, caller)
  BY <1>2, <1>6 DEF open_dispute, Workable
<1>7. CASE resolve_settle(m)
  BY <1>2, <1>7 DEF resolve_settle, resolvable
<1>. QED
  BY <1>3, <1>4, <1>5, <1>6, <1>7

LEMMA RefinesOrders ==
  ASSUME ContractInv, Orders
  PROVE  UNCHANGED PP!payVars
<1>1. orders \in [OrderId -> OrderRecord] /\ order_count \in Nat /\ OrderId \subseteq Nat
  BY TypeFacts, IdFacts DEF ContractInv, TypeOK
<1>2. UNCHANGED <<milestones, positions, balances>>
  BY DEF Orders, create_order, accept_order, cancel_order, financeVars
<1>3. \A o \in OrderId : orders[o].status # "Absent" =>
        orders'[o].buyer = orders[o].buyer /\ orders'[o].supplier = orders[o].supplier
  <2>1. ASSUME NEW roles \in Proposals, create_order(roles), NEW o \in OrderId,
               orders[o].status # "Absent"
        PROVE  orders'[o] = orders[o]
    <3>1. o # order_count + 1
      BY <1>1, <2>1 DEF ContractInv, Registered
    <3>. QED
      BY <1>1, <2>1, <3>1 DEF create_order
  <2>2. ASSUME NEW p \in OrderId, accept_order(p) \/ cancel_order(p), NEW o \in OrderId
        PROVE  orders'[o].buyer = orders[o].buyer /\ orders'[o].supplier = orders[o].supplier
    BY <1>1, <2>2 DEF accept_order, cancel_order, OrderRecord
  <2>. QED
    BY <2>1, <2>2 DEF Orders
<1>4. \A m \in MilestoneId : Invisible(m)
  BY <1>2, <1>3 DEF Invisible, deal_of, order_of, loan_of, ContractInv, Registered
<1>. QED
  BY <1>2, <1>4, Stutters

LEMMA RefinesAside ==
  ASSUME UNCHANGED <<orders, milestones, positions, balances>>
  PROVE  UNCHANGED PP!payVars
BY Stutters DEF Invisible, deal_of, order_of, loan_of

LEMMA Asides ==
  /\ \A m \in MilestoneId, funder \in Account, principal, repayment \in Payments,
        expires_at \in Expiries :
       make_offer(m, funder, principal, repayment, expires_at) =>
         UNCHANGED <<orders, milestones, positions, balances>>
  /\ \A f \in OfferId :
       cancel_offer(f) \/ accept_offer(f) => UNCHANGED <<orders, milestones, positions, balances>>
  /\ advance_ledger => UNCHANGED <<orders, milestones, positions, balances>>
  /\ UNCHANGED vars => UNCHANGED <<orders, milestones, positions, balances>>
BY DEF make_offer, cancel_offer, accept_offer, advance_ledger, vars, orderVars, financeVars

LEMMA RefinesStep ==
  ASSUME ContractInv, [Next]_vars
  PROVE  [PP!PayNext]_(PP!payVars)
<1>1. TypeOK
  BY DEF ContractInv
<1>2. ASSUME Orders PROVE UNCHANGED PP!payVars
  BY <1>2, RefinesOrders
<1>3. ASSUME NEW m \in MilestoneId,
             \/ \E principal \in Payments, expires_at \in Expiries :
                  request_finance(m, principal, expires_at)
             \/ release_expired_acceptance(m) \/ cancel_finance_request(m)
             \/ \E digest \in Digest : submit_evidence(m, digest) \/ attest_milestone(m, digest)
             \/ \E caller \in Account : open_dispute(m, caller)
             \/ resolve_settle(m)
      PROVE  UNCHANGED PP!payVars
  BY <1>1, <1>3, QuietWork, RefinesQuietly
<1>. QED
  BY <1>2, <1>3, Asides, RefinesAside, RefinesAgree, RefinesDeposit, RefinesTakeBack, RefinesLend,
     RefinesPay, RefinesGiveBack
     DEF Next, Orders, Opens

\* Each milestone is a protected payment: the buyer's money is locked for one
\* deal and leaves once, to the supplier behind at most one funder or back, and
\* an advance moves between two wallets without touching it, by any invocation.
THEOREM ContractImplementsPayment == Spec => ImplementsPayment
<1>1. Spec => PP!PayInit /\ [][PP!PayNext]_(PP!payVars)
  BY RefinesInit, RefinesStep, InvHolds, PTL DEF Spec
<1>. QED
  BY <1>1 DEF ImplementsPayment, PP!PaySpec
=============================================================================
