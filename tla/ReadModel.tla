------------------------------ MODULE ReadModel ------------------------------
(***************************************************************************)
(* The read models: apps/api/src/indexer/decoder.ts puts the events of a   *)
(* page in order, projector.ts applies each to the tables, and a batch     *)
(* commits as a whole or not at all.                                       *)
(*                                                                         *)
(* Batches arrive in chain order (module Indexer), so a row's lastEventId  *)
(* only ever decides within one batch: it is kept while the batch runs.    *)
(* An event's id is its position in the chain, which the RPC always gives; *)
(* the transaction's index is a field of its own that a response may lack. *)
(* Parsing and number ranges are left out, as are columns that copy the    *)
(* order's parties or the milestone's amount onto other rows.              *)
(***************************************************************************)
EXTENDS EventLog, SequencesExt

CONSTANT TransactionIndexed     \* whether responses carry transactionIndex

VARIABLE tables
readVars == <<logVars, tables>>

\* Keys of each table; a position's key is its offer.
Tables ==
  [orders |-> OrderId, milestones |-> MilestoneId, requests |-> MilestoneId, offers |-> OfferId,
   positions |-> OfferId, settlements |-> MilestoneId, refunds |-> MilestoneId,
   disputes |-> DisputeId, anchors |-> MilestoneId]

NoRow == [status |-> "none"]
EmptyTables == [t \in DOMAIN Tables |-> [k \in Tables[t] |-> NoRow]]
rowsOf(t, table) == {k \in Tables[table] : t[table][k] # NoRow}

-----------------------------------------------------------------------------
(* decoder.ts *)

decodeEvent(raw) == [raw EXCEPT !.tx = IF TransactionIndexed THEN @ ELSE 0]

\* Faulty variant: the index within its transaction first.
index_first(a, b) ==
  \/ a.index < b.index
  \/ a.index = b.index /\ a.id < b.id

compareEventOrder(a, b) ==
  \/ a.ledger < b.ledger
  \/ /\ a.ledger = b.ledger
     /\ \/ a.tx < b.tx
        \/ a.tx = b.tx /\ a.index < b.index
        \/ a.tx = b.tx /\ a.index = b.index /\ a.id < b.id

\* sort(compareEventOrder): no two ids are equal, so an event's place is one more
\* than the number of events before it.
sort(events) ==
  LET before(i) == {j \in DOMAIN events : compareEventOrder(events[j], events[i])}
  IN  [place \in DOMAIN events |->
         events[CHOOSE i \in DOMAIN events : Cardinality(before(i)) = place - 1]]

-----------------------------------------------------------------------------
(* One batch: the tables so far, the last event of each row, a throw *)

begin(t) ==
  [tables |-> t, last |-> [table \in DOMAIN Tables |-> [k \in Tables[table] |-> 0]],
   failed |-> FALSE]
fail(state) == [state EXCEPT !.failed = TRUE]

missing(state, table, k) == state.tables[table][k] = NoRow
isNewer(state, table, k, e) == state.last[table][k] < e.id

write(state, table, k, row, e) ==
  [state EXCEPT !.tables[table][k] = row, !.last[table][k] = e.id]
\* upsert with nothing to update
create(state, table, k, row, e) ==
  IF missing(state, table, k) THEN write(state, table, k, row, e) ELSE state
\* updateMany
set(state, table, k, changes, e) ==
  write(state, table, k, joined(changes, state.tables[table][k]), e)
\* the monotonic guard
update(state, table, k, changes, e) ==
  IF isNewer(state, table, k, e) THEN set(state, table, k, changes, e) ELSE state

\* The active positions of a milestone, and updateMany on them.
activePositions(state, m) ==
  {f \in rowsOf(state.tables, "positions") :
     state.tables.positions[f].milestone = m /\ state.tables.positions[f].status = "Active"}
endPositions(state, m, status, e) ==
  FoldSet(LAMBDA f, s : set(s, "positions", f, [status |-> status], e),
          state, activePositions(state, m))

-----------------------------------------------------------------------------
(* projectEvent, by event *)

released_to_funded(e) == "Funded"
releasedStatus(e) == IF e.request_reopened THEN "FinanceRequested" ELSE "Funded"
expectedClosed(e) == IF e.funder_advance_outstanding > 0 THEN 1 ELSE 0
\* A payout empties the escrow.
escrowLeft(state, m) == 0

orderCreated(state, e) ==
  create(state, "orders", e.order,
         [buyer |-> e.buyer, supplier |-> e.supplier, attestor |-> e.attestor,
          resolver |-> e.resolver, asset |-> e.asset, status |-> "Created", at |-> e.ledger], e)

orderMoved(state, e) ==
  LET status == CASE e.name = "order_accepted" -> "Active"
                  [] e.name = "order_cancelled" -> "Cancelled"
                  [] e.name = "order_completed" -> "Completed"
  IN  IF missing(state, "orders", e.order) THEN fail(state)
      ELSE update(state, "orders", e.order, [status |-> status], e)

milestoneCreated(state, e) ==
  IF missing(state, "orders", e.order) THEN fail(state)
  ELSE create(state, "milestones", e.milestone,
              [order_id |-> e.order, amount |-> e.amount, funded_amount |-> 0,
               evidence_hash |-> NoDigest, status |-> "Unfunded"], e)

updateMilestone(state, e, changes) == update(state, "milestones", e.milestone, changes, e)

milestoneFunded(state, e) ==
  updateMilestone(state, e, [funded_amount |-> e.funded_amount,
                             status |-> IF e.fully_funded THEN "Funded" ELSE "Unfunded"])
partialFundingCancelled(state, e) ==
  updateMilestone(state, e, [funded_amount |-> 0, status |-> "Unfunded"])

financeRequested(state, e) ==
  LET row == [requested_principal |-> e.requested_principal, expires_at |-> e.expires_at,
              status |-> "Open"]
      requested == IF missing(state, "requests", e.milestone)
                   THEN create(state, "requests", e.milestone, row, e)
                   ELSE update(state, "requests", e.milestone, row, e)
  IN  updateMilestone(requested, e, [status |-> "FinanceRequested"])

financeRequestCancelled(state, e) ==
  IF missing(state, "requests", e.milestone) THEN fail(state)
  ELSE updateMilestone(update(state, "requests", e.milestone, [status |-> "Cancelled"], e), e,
                       [status |-> "Funded"])

fundingOfferCreated(state, e) ==
  create(state, "offers", e.offer,
         [milestone |-> e.milestone, funder |-> e.funder, principal |-> e.principal,
          repayment |-> e.repayment, expires_at |-> e.expires_at, status |-> "Open"], e)

\* An offer's own event that is not newer leaves the request alone too.
fundingOfferCancelled(state, e) ==
  IF missing(state, "offers", e.offer) THEN fail(state)
  ELSE update(state, "offers", e.offer, [status |-> "Cancelled"], e)
offerAccepted(state, e) ==
  IF missing(state, "offers", e.offer) THEN fail(state)
  ELSE IF ~isNewer(state, "offers", e.offer, e) THEN state
  ELSE IF missing(state, "requests", e.milestone) THEN fail(state)
  ELSE update(set(state, "offers", e.offer, [status |-> "Accepted"], e),
              "requests", e.milestone, [status |-> "Accepted"], e)

advanceFunded(state, e) ==
  LET row == [milestone |-> e.milestone, funder |-> e.funder, principal |-> e.principal,
              repayment |-> e.repayment, status |-> "Active"]
  IN  IF missing(state, "offers", e.offer) THEN fail(state)
      ELSE updateMilestone(set(create(state, "positions", e.offer, row, e),
                               "offers", e.offer, [status |-> "Funded"], e),
                           e, [status |-> "Financed"])

acceptanceReleased(state, e) ==
  IF missing(state, "offers", e.offer) \/ missing(state, "requests", e.milestone)
  THEN fail(state)
  ELSE updateMilestone(
         update(set(state, "offers", e.offer, [status |-> "Cancelled"], e),
                "requests", e.milestone,
                [status |-> IF e.request_reopened THEN "Open" ELSE "Cancelled"], e),
         e, [status |-> releasedStatus(e)])

\* The link to uploaded documents is module Evidence's.
evidenceSubmitted(state, e) ==
  LET submitted == updateMilestone(state, e, [evidence_hash |-> e.evidence_hash,
                                              status |-> "Submitted"])
      row == [content_hash |-> e.evidence_hash, status |-> "Anchored"]
  IN  IF missing(state, "anchors", e.milestone)
      THEN create(submitted, "anchors", e.milestone, row, e)
      ELSE update(submitted, "anchors", e.milestone, row, e)

milestoneVerified(state, e) ==
  updateMilestone(state, e, [evidence_hash |-> e.evidence_hash, status |-> "Verified"])

milestoneSettled(state, e) ==
  LET m == e.milestone
      row == [protected_amount |-> e.protected_amount, funder_repayment |-> e.funder_repayment,
              supplier_payout |-> e.supplier_payout, order |-> e.order, at |-> e.ledger]
      settled == updateMilestone(create(state, "settlements", m, row, e), e,
                                 [status |-> "Settled", funded_amount |-> escrowLeft(state, m)])
  IN  IF e.funder_repayment = 0 THEN settled
      ELSE IF Cardinality(activePositions(settled, m)) # 1 THEN fail(state)
      ELSE endPositions(settled, m, "Repaid", e)

milestoneRefunded(state, e) ==
  LET m == e.milestone
      row == [refunded_amount |-> e.refunded_amount, order |-> e.order, at |-> e.ledger]
      refunded == updateMilestone(create(state, "refunds", m, row, e), e,
                                  [status |-> "Refunded", funded_amount |-> escrowLeft(state, m)])
  IN  IF Cardinality(activePositions(refunded, m)) # expectedClosed(e) THEN fail(state)
      ELSE endPositions(refunded, m, "Closed", e)

disputeOpened(state, e) ==
  updateMilestone(create(state, "disputes", e.dispute,
                         [milestone |-> e.milestone, status |-> "Open"], e),
                  e, [status |-> "Disputed"])

\* The milestone is the dispute row's.
disputeResolved(state, e) ==
  LET row == state.tables.disputes[e.dispute]
      status == IF e.settled THEN "ResolvedSettle" ELSE "ResolvedRefund"
      resolved_row == set(state, "disputes", e.dispute, [status |-> status], e)
  IN  IF missing(state, "disputes", e.dispute) THEN fail(state)
      ELSE IF ~isNewer(state, "disputes", e.dispute, e) THEN state
      ELSE IF missing(state, "milestones", row.milestone) THEN fail(state)
      ELSE IF ~e.settled THEN resolved_row
      ELSE update(resolved_row, "milestones", row.milestone, [status |-> "Verified"], e)

\* requireMilestone: the events that look their milestone up before anything else.
RequiresMilestone ==
  {"milestone_funded", "partial_funding_cancelled", "finance_requested",
   "finance_request_cancelled", "funding_offer_created", "advance_funded",
   "acceptance_released", "evidence_submitted", "milestone_verified", "milestone_settled",
   "milestone_refunded", "dispute_opened"}

projectEvent(state, e) ==
  IF state.failed THEN state
  ELSE IF e.name \in RequiresMilestone /\ missing(state, "milestones", e.milestone)
  THEN fail(state)
  ELSE CASE e.name = "order_created" -> orderCreated(state, e)
         [] e.name \in {"order_accepted", "order_cancelled", "order_completed"} ->
              orderMoved(state, e)
         [] e.name = "milestone_created" -> milestoneCreated(state, e)
         [] e.name = "milestone_funded" -> milestoneFunded(state, e)
         [] e.name = "partial_funding_cancelled" -> partialFundingCancelled(state, e)
         [] e.name = "finance_requested" -> financeRequested(state, e)
         [] e.name = "finance_request_cancelled" -> financeRequestCancelled(state, e)
         [] e.name = "funding_offer_created" -> fundingOfferCreated(state, e)
         [] e.name = "funding_offer_cancelled" -> fundingOfferCancelled(state, e)
         [] e.name = "offer_accepted" -> offerAccepted(state, e)
         [] e.name = "advance_funded" -> advanceFunded(state, e)
         [] e.name = "acceptance_released" -> acceptanceReleased(state, e)
         [] e.name = "evidence_submitted" -> evidenceSubmitted(state, e)
         [] e.name = "milestone_verified" -> milestoneVerified(state, e)
         [] e.name = "milestone_settled" -> milestoneSettled(state, e)
         [] e.name = "milestone_refunded" -> milestoneRefunded(state, e)
         [] e.name = "dispute_opened" -> disputeOpened(state, e)
         [] e.name = "dispute_resolved" -> disputeResolved(state, e)

-----------------------------------------------------------------------------
(* The events of one page, decoded, put in order and applied *)

projectBatch(events, t) ==
  LET ordered == sort([i \in DOMAIN events |-> decodeEvent(events[i])])
      after == FoldLeft(projectEvent, begin(t), ordered)
  IN  [tables |-> after.tables, failed |-> after.failed]

\* Events and their transactions are ranked among the pending ones.
ranked(events) ==
  [i \in DOMAIN events |-> [events[i] EXCEPT !.tx = @ - events[1].tx + 1, !.id = i]]

\* The next n pending events; a batch that throws is rolled back.
applyBatch(n) ==
  /\ n \in 1..Len(published)
  /\ LET batch == projectBatch(SubSeq(published, 1, n), tables) IN
       /\ ~batch.failed
       /\ tables' = batch.tables
  /\ published' = ranked(SubSeq(published, n + 1, Len(published)))
  /\ UNCHANGED vars

drained == published = <<>>

-----------------------------------------------------------------------------
(* ReconcileService: a row against what the contract's getter returns, in   *)
(* which an enumeration is its discriminant                                 *)

OrderDiscriminant == [Created |-> 0, Active |-> 1, Completed |-> 2, Cancelled |-> 3]
MilestoneDiscriminant ==
  [Unfunded |-> 0, Funded |-> 1, FinanceRequested |-> 2, Financed |-> 3, Submitted |-> 4,
   Verified |-> 5, Disputed |-> 6, Settled |-> 7, Refunded |-> 8]
ORDER_STATUS_BY_INDEX == <<"Created", "Active", "Completed", "Cancelled">>
MILESTONE_STATUS_BY_INDEX ==
  <<"Unfunded", "Funded", "FinanceRequested", "Financed", "Submitted", "Verified", "Disputed",
    "Settled", "Refunded">>
statusName(from, value) == from[value + 1]

reconcile(entry, row, fields, status) ==
  LET onChain == entry.status # "Absent"
      inDatabase == row # NoRow
  IN  [presentOnChain |-> onChain, presentInDatabase |-> inDatabase,
       reconciled |-> /\ onChain /\ inDatabase
                      /\ \A k \in fields : row[k] = entry[k]
                      /\ row.status = status]

reconcileOrder(o) ==
  reconcile(orders[o], tables.orders[o], {"buyer", "supplier", "attestor", "resolver", "asset"},
            statusName(ORDER_STATUS_BY_INDEX, OrderDiscriminant[orders[o].status]))
reconcileMilestone(m) ==
  reconcile(milestones[m], tables.milestones[m], {"order_id", "amount", "funded_amount"},
            statusName(MILESTONE_STATUS_BY_INDEX, MilestoneDiscriminant[milestones[m].status]))

ReadInit == LogInit /\ tables = EmptyTables
ReadNext ==
  \/ ContractStep /\ UNCHANGED tables
  \/ \E n \in 1..MaxPending : applyBatch(n)
ReadSpec == ReadInit /\ [][ReadNext]_readVars

=============================================================================
