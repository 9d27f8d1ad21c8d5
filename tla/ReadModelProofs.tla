-------------------------- MODULE ReadModelProofs ---------------------------
(***************************************************************************)
(* The read models, what an open tab states and what the tour tells follow *)
(* the contract, for any accounts, amounts, limits, pages and length of    *)
(* the log.                                                                *)
(*                                                                         *)
(* The invariant says that the pending events lead from the tables to      *)
(* tables that mirror the contract.  An invocation lengthens the trail and *)
(* a page shortens it, so the trail never depends on how the log is cut;   *)
(* the sort of a page is the identity because the log is in chain order.   *)
(***************************************************************************)
EXTENDS MirrorProofs, WorkspaceProperties, TradeReplayProperties

-----------------------------------------------------------------------------
(* The invariant of the read models                                         *)

\* Whatever is pending leads from the tables to tables that say what the contract says.
ReadInv == ContractInv /\ Shaped(tables) /\ Followed

LEMMA EmptyFacts ==
  /\ Shaped(EmptyTables)
  /\ \A table \in DOMAIN Tables : \A k \in Tables[table] : EmptyTables[table][k] = NoRow
BY DEF EmptyTables, Shaped

LEMMA ReadInvInit == ReadInit => ReadInv
<1>. SUFFICES ASSUME Init, published = <<>>, tables = EmptyTables PROVE ReadInv
  BY DEF ReadInit, LogInit
<1>1. ContractInv
  BY InvInit
<1>t. PICK t : t = tables
  OBVIOUS
<1>2. Shaped(t) /\ \A table \in DOMAIN Tables : \A k \in Tables[table] : t[table][k] = NoRow
  BY <1>t, EmptyFacts
<1>3. Follows(t)
  <2>1. Leads(published, t, t)
    BY LeadsNowhere
  <2>2. now \in Nat /\ \A i \in 1..Len(published) : published[i].ledger <= now
    BY DEF Init
  <2>. QED BY <1>t, <2>1, <2>2 DEF Follows
<1>4. /\ \A o \in OrderId : t["orders"][o] = NoRow /\ orders[o].status = "Absent"
      /\ \A m \in MilestoneId :
           /\ t["milestones"][m] = NoRow /\ milestones[m].status = "Absent"
           /\ milestones[m].evidence_hash = NoDigest
           /\ t["requests"][m] = NoRow /\ requests[m].status = "Absent"
           /\ accepted[m].status = "Absent" /\ positions[m].status = "Absent"
           /\ t["settlements"][m] = NoRow /\ t["refunds"][m] = NoRow
      /\ \A f \in OfferId : /\ t["offers"][f] = NoRow /\ offers[f].status = "Absent"
                            /\ t["positions"][f] = NoRow /\ f > offer_count
      /\ \A d \in DisputeId : t["disputes"][d] = NoRow /\ disputes[d].status = "Absent"
  <2>1. /\ \A o \in OrderId : t["orders"][o] = NoRow
        /\ \A m \in MilestoneId :
             /\ t["milestones"][m] = NoRow /\ t["requests"][m] = NoRow
             /\ t["settlements"][m] = NoRow /\ t["refunds"][m] = NoRow
        /\ \A f \in OfferId : t["offers"][f] = NoRow /\ t["positions"][f] = NoRow
        /\ \A d \in DisputeId : t["disputes"][d] = NoRow
    BY <1>2, TableNames
  <2>2. /\ \A o \in OrderId : orders[o].status = "Absent"
        /\ \A m \in MilestoneId : milestones[m].status = "Absent"
        /\ \A m \in MilestoneId : milestones[m].evidence_hash = NoDigest
        /\ \A m \in MilestoneId : requests[m].status = "Absent"
    BY DEF Init, NoOrder, NoMilestone, NoRequest
  <2>3. /\ \A m \in MilestoneId : accepted[m].status = "Absent" /\ positions[m].status = "Absent"
        /\ \A f \in OfferId : offers[f].status = "Absent" /\ f > offer_count
        /\ \A d \in DisputeId : disputes[d].status = "Absent"
    BY DEF Init, NoAccepted, NoPosition, NoOffer, NoDispute, OfferId
  <2>. QED BY <2>1, <2>2, <2>3
<1>5. /\ Same(t["orders"], orders, OrderFields, OrderId) /\ OrdersTimed(t)
      /\ Same(t["milestones"], milestones, MilestoneFields, MilestoneId)
      /\ Same(t["requests"], requests, RequestFields, MilestoneId)
  BY <1>4 DEF Same, OrdersTimed
<1>6. OffersMirrored(t) /\ PositionsMirrored(t)
  BY <1>4 DEF OffersMirrored, OffersPlaced, TermsMirrored, PositionsMirrored
<1>7. DisputesMirrored(t) /\ AnchorsMirrored(t) /\ PayoutsMirrored(t)
  BY <1>4 DEF Same, DisputesMirrored, AnchorsMirrored, PayoutsMirrored
<1>8. Mirror(t)
  BY <1>2, <1>5, <1>6, <1>7 DEF Mirror
<1>. QED BY <1>1, <1>t, <1>2, <1>3, <1>8 DEF ReadInv, Followed

\* A contract that stands still, in tables that may have caught up.
LEMMA MirrorAside ==
  ASSUME NEW t, Mirror(t), UNCHANGED vars
  PROVE  Mirror(t)'
<1>1. /\ UNCHANGED <<orders, milestones, requests, accepted, positions, offers, offer_count>>
      /\ UNCHANGED <<disputes, now>>
  BY DEF vars, orderVars, financeVars, disputeVars
<1>2. /\ Same(t["orders"], orders', OrderFields, OrderId) /\ OrdersTimed(t)'
      /\ Same(t["milestones"], milestones', MilestoneFields, MilestoneId)
      /\ Same(t["requests"], requests', RequestFields, MilestoneId)
  BY <1>1, OrderRowsAside, MilestoneRowsAside, RequestRowsAside
<1>3. /\ OffersMirrored(t)' /\ PositionsMirrored(t)' /\ DisputesMirrored(t)'
      /\ AnchorsMirrored(t)'
  BY <1>1, OfferRowsAside, PositionRowsAside, DisputeRowsAside, AnchorRowsAside
<1>4. PayoutsMirrored(t)'
  BY <1>1 DEF Mirror, PayoutsMirrored
<1>5. Shaped(t)
  BY DEF Mirror
<1>. QED BY <1>2, <1>3, <1>4, <1>5, MirrorParts

\* Every invocation of the contract is a step of the contract.
LEMMA StepsOfContract == ContractStep => Next
<1>1. OrderCalls => Next
  BY DEF OrderCalls, Next, invoke_create_order, invoke_create_milestone, invoke_accept_order,
     invoke_cancel_order
<1>2. EscrowCalls => Next
  BY PartiesAssumption DEF EscrowCalls, Next, invoke_fund_milestone,
     invoke_cancel_partial_funding
<1>3. FinancingCalls => Next
  BY DEF FinancingCalls, Next, invoke_request_finance, invoke_cancel_finance_request,
     invoke_make_offer, invoke_fund_advance, invoke_release_expired_acceptance,
     invoke_cancel_offer, invoke_accept_offer
<1>4. DeliveryCalls => Next
  BY DEF DeliveryCalls, Next, invoke_submit_evidence, invoke_attest_milestone,
     invoke_settle_milestone, invoke_open_dispute, invoke_resolve_settle, invoke_resolve_refund
<1>. QED BY <1>1, <1>2, <1>3, <1>4 DEF ContractStep, Next

\* The log still leads to what the contract says after any of them.
LEMMA FollowContract ==
  ASSUME ContractInv, Followed, ContractStep, UNCHANGED tables
  PROVE  Followed'
<1>1. PICK u : Follows(u) /\ Mirror(u)
  BY DEF Followed
<1>2. CASE OrderCalls
  <2>1. CASE \E roles \in Proposals : invoke_create_order(roles)
    BY <1>1, <2>1, FollowCreateOrder
  <2>2. CASE \E o \in OrderId, amount \in MilestoneAmounts : invoke_create_milestone(o, amount)
    BY <1>1, <2>2, FollowCreateMilestone
  <2>3. CASE \E o \in OrderId : invoke_accept_order(o)
    BY <1>1, <2>3, FollowAcceptOrder
  <2>4. CASE \E o \in OrderId : invoke_cancel_order(o)
    BY <1>1, <2>4, FollowCancelOrder
  <2>. QED BY <1>2, <2>1, <2>2, <2>3, <2>4 DEF OrderCalls
<1>3. CASE EscrowCalls
  BY <1>1, <1>3, FollowFundMilestone, FollowCancelPartialFunding DEF EscrowCalls
<1>4. CASE FinancingCalls
  <2>1. CASE \E m \in MilestoneId, principal \in Payments, expires_at \in Expiries :
               invoke_request_finance(m, principal, expires_at)
    BY <1>1, <2>1, FollowRequest
  <2>2. CASE \E m \in MilestoneId : invoke_cancel_finance_request(m)
    BY <1>1, <2>2, FollowCancelRequest
  <2>3. CASE \E m \in MilestoneId, funder \in Account, principal, repayment \in Payments,
                expires_at \in Expiries :
               invoke_make_offer(m, funder, principal, repayment, expires_at)
    BY <1>1, <2>3, FollowMakeOffer
  <2>4. CASE \E m \in MilestoneId : invoke_fund_advance(m)
    BY <1>1, <2>4, FollowAdvance
  <2>5. CASE \E m \in MilestoneId : invoke_release_expired_acceptance(m)
    BY <1>1, <2>5, FollowRelease
  <2>6. CASE \E f \in OfferId : invoke_cancel_offer(f)
    BY <1>1, <2>6, FollowCancelOffer
  <2>7. CASE \E f \in OfferId : invoke_accept_offer(f)
    BY <1>1, <2>7, FollowAcceptOffer
  <2>. QED BY <1>4, <2>1, <2>2, <2>3, <2>4, <2>5, <2>6, <2>7 DEF FinancingCalls
<1>5. CASE DeliveryCalls
  <2>1. CASE \E m \in MilestoneId, digest \in Digest : invoke_submit_evidence(m, digest)
    BY <1>1, <2>1, FollowSubmit
  <2>2. CASE \E m \in MilestoneId, digest \in Digest : invoke_attest_milestone(m, digest)
    BY <1>1, <2>2, FollowAttest
  <2>3. CASE \E m \in MilestoneId, caller \in Account : invoke_settle_milestone(m, caller)
    BY <1>1, <2>3, FollowSettle
  <2>4. CASE \E m \in MilestoneId, caller \in Account : invoke_open_dispute(m, caller)
    BY <1>1, <2>4, FollowOpenDispute
  <2>5. CASE \E m \in MilestoneId : invoke_resolve_settle(m)
    BY <1>1, <2>5, FollowResolveSettle
  <2>6. CASE \E m \in MilestoneId : invoke_resolve_refund(m)
    BY <1>1, <2>6, FollowRefund
  <2>. QED BY <1>5, <2>1, <2>2, <2>3, <2>4, <2>5, <2>6 DEF DeliveryCalls
<1>6. CASE advance_ledger /\ UNCHANGED published
  BY <1>1, <1>6, FollowLedger
<1>. QED BY <1>2, <1>3, <1>4, <1>5, <1>6 DEF ContractStep

\* A batch moves the tables along the way the log leads.
LEMMA FollowBatch ==
  ASSUME TransactionIndexed = TRUE, ReadInv, NEW n, applyBatch(n)
  PROVE  Shaped(tables)' /\ Followed'
<1>1. PICK u : Follows(u) /\ Mirror(u)
  BY DEF ReadInv, Followed
<1>2. /\ n \in 1..Len(published) /\ UNCHANGED vars /\ Shaped(tables)
      /\ tables' = projectBatch(SubSeq(published, 1, n), tables).tables
      /\ published' = ranked(SubSeq(published, n + 1, Len(published)))
  BY DEF applyBatch, ReadInv
<1>3. /\ Shaped(tables') /\ Leads(published', tables', u)
      /\ \A i \in 1..Len(published') :
           n + i \in 1..Len(published) /\ published'[i].ledger = published[n + i].ledger
  BY <1>1, <1>2, PageLeads DEF Follows
<1>4. now' = now
  BY <1>2 DEF vars
<1>5. Follows(u)'
  <2>1. now' \in Nat /\ \A i \in 1..Len(published') : published'[i].ledger <= now'
    BY <1>1, <1>3, <1>4 DEF Follows
  <2>. QED BY <1>3, <2>1 DEF Follows
<1>6. Mirror(u)'
  BY <1>1, <1>2, MirrorAside
<1>7. Shaped(tables)'
  BY <1>3 DEF Shaped
<1>. QED BY <1>5, <1>6, <1>7 DEF Followed

LEMMA ReadInvStep ==
  ASSUME TransactionIndexed = TRUE, ReadInv, [ReadNext]_readVars
  PROVE  ReadInv'
<1>1. CASE ContractStep /\ UNCHANGED tables
  <2>1. ContractInv'
    BY <1>1, StepsOfContract, InvStep DEF ReadInv
  <2>2. Followed'
    BY <1>1, FollowContract DEF ReadInv
  <2>3. Shaped(tables)'
    BY <1>1 DEF ReadInv, Shaped
  <2>. QED BY <2>1, <2>2, <2>3 DEF ReadInv
<1>2. ASSUME NEW n \in 1..MaxPending, applyBatch(n) PROVE ReadInv'
  <2>1. UNCHANGED vars
    BY <1>2 DEF applyBatch
  <2>2. ContractInv'
    BY <2>1, InvStep DEF ReadInv
  <2>3. Shaped(tables)' /\ Followed'
    BY <1>2, FollowBatch
  <2>. QED BY <2>2, <2>3 DEF ReadInv
<1>3. CASE UNCHANGED readVars
  <2>1. UNCHANGED vars /\ UNCHANGED <<published, tables>>
    BY <1>3 DEF readVars, logVars
  <2>2. ContractInv'
    BY <2>1, InvStep DEF ReadInv
  <2>3. Shaped(tables)'
    BY <2>1 DEF ReadInv, Shaped
  <2>4. PICK u : Follows(u) /\ Mirror(u)
    BY DEF ReadInv, Followed
  <2>5. Follows(u)'
    <3>1. now' = now
      BY <2>1 DEF vars
    <3>. QED BY <2>1, <2>4, <3>1 DEF Follows
  <2>6. Mirror(u)'
    BY <2>1, <2>4, MirrorAside
  <2>. QED BY <2>2, <2>3, <2>5, <2>6 DEF ReadInv, Followed
<1>. QED BY <1>1, <1>2, <1>3 DEF ReadNext

-----------------------------------------------------------------------------
(* The rows follow the contract                                             *)

\* Once nothing is pending the tables say what the contract says.
LEMMA DrainedMirror ==
  ASSUME ReadInv, drained PROVE Mirror(tables)
<1>1. PICK u : Leads(<<>>, tables, u) /\ Mirror(u)
  BY DEF ReadInv, Followed, Follows, drained
<1>2. PICK trail : trail[0] = tables /\ trail[Len(<<>>)] = u
  BY <1>1 DEF Leads, Trail
<1>3. Len(<<>>) = 0
  OBVIOUS
<1>. QED BY <1>1, <1>2, <1>3

\* The discriminant of a status is read back as the status.
LEMMA StatusNames ==
  /\ \A s \in {"Created", "Active", "Completed", "Cancelled"} :
       statusName(ORDER_STATUS_BY_INDEX, OrderDiscriminant[s]) = s
  /\ \A s \in {"Unfunded"} \cup Protected \cup Terminal :
       statusName(MILESTONE_STATUS_BY_INDEX, MilestoneDiscriminant[s]) = s
BY DEF statusName, ORDER_STATUS_BY_INDEX, OrderDiscriminant, MILESTONE_STATUS_BY_INDEX,
   MilestoneDiscriminant, Protected, Terminal

\* Reconciliation of a row that says what the entry says finds nothing.
LEMMA NothingToSay ==
  ASSUME NEW entry, NEW row, NEW fields, NEW some, some \subseteq fields, NEW status,
         row = NoRow <=> entry.status = "Absent",
         entry.status # "Absent" => Says(row, entry, fields) /\ status = entry.status
  PROVE  Reconciled(reconcile(entry, row, some, status))
<1>. DEFINE result == reconcile(entry, row, some, status)
<1>1. /\ result.presentOnChain = (entry.status # "Absent")
      /\ result.presentInDatabase = (row # NoRow)
      /\ result.reconciled = /\ entry.status # "Absent" /\ row # NoRow
                             /\ \A k \in some : row[k] = entry[k]
                             /\ row.status = status
  BY DEF reconcile
<1>. HIDE DEF result
<1>2. entry.status # "Absent" =>
        (\A k \in some : row[k] = entry[k]) /\ row.status = status
  BY DEF Says
<1>. QED BY <1>1, <1>2 DEF Reconciled, result

LEMMA SaysAgrees ==
  ASSUME NEW rows, NEW entries, NEW fields, NEW keys, Same(rows, entries, fields, keys),
         NEW k \in keys
  PROVE  agrees(rows[k], entries[k], fields)
BY DEF Same, Says, agrees

LEMMA MirrorReconciles ==
  ASSUME ContractInv, Mirror(tables)
  PROVE  RowsReconcile
<1>1. ASSUME NEW o \in OrderId PROVE Reconciled(reconcileOrder(o))
  <2>. DEFINE status == statusName(ORDER_STATUS_BY_INDEX, OrderDiscriminant[orders[o].status])
              some == {"buyer", "supplier", "attestor", "resolver", "asset"}
  <2>1. orders[o].status # "Absent" => status = orders[o].status
    <3>1. orders[o].status \in OrderStatus
      BY DEF ContractInv, TypeOK, OrderRecord
    <3>. QED BY <3>1, StatusNames DEF OrderStatus
  <2>2. tables["orders"][o] = NoRow <=> orders[o].status = "Absent"
    BY RowsThere
  <2>3. orders[o].status # "Absent" => Says(tables["orders"][o], orders[o], OrderFields)
    BY DEF Mirror, Same
  <2>4. some \subseteq OrderFields
    BY DEF OrderFields
  <2>. HIDE DEF status, some
  <2>5. Reconciled(reconcile(orders[o], tables["orders"][o], some, status))
    BY <2>1, <2>2, <2>3, <2>4, NothingToSay
  <2>. QED BY <2>5 DEF reconcileOrder, status, some
<1>2. ASSUME NEW m \in MilestoneId PROVE Reconciled(reconcileMilestone(m))
  <2>. DEFINE status ==
                statusName(MILESTONE_STATUS_BY_INDEX, MilestoneDiscriminant[milestones[m].status])
              some == {"order_id", "amount", "funded_amount"}
  <2>1. milestones[m].status # "Absent" => status = milestones[m].status
    <3>1. milestones[m].status \in MilestoneStatus
      BY DEF ContractInv, TypeOK, MilestoneRecord
    <3>. QED BY <3>1, StatusNames DEF MilestoneStatus
  <2>2. tables["milestones"][m] = NoRow <=> milestones[m].status = "Absent"
    BY RowsThere
  <2>3. milestones[m].status # "Absent" =>
          Says(tables["milestones"][m], milestones[m], MilestoneFields)
    BY DEF Mirror, Same
  <2>4. some \subseteq MilestoneFields
    BY DEF MilestoneFields
  <2>. HIDE DEF status, some
  <2>5. Reconciled(reconcile(milestones[m], tables["milestones"][m], some, status))
    BY <2>1, <2>2, <2>3, <2>4, NothingToSay
  <2>. QED BY <2>5 DEF reconcileMilestone, status, some
<1>3. ASSUME NEW m \in MilestoneId
      PROVE  agrees(tables.requests[m], requests[m], {"requested_principal", "expires_at"})
  BY SaysAgrees DEF Mirror, RequestFields
<1>4. ASSUME NEW m \in MilestoneId PROVE SelectedOfferRow(m)
  BY DEF Mirror, OffersMirrored, OffersPlaced, SelectedOfferRow
<1>5. ASSUME NEW m \in MilestoneId, positions[m].status # "Absent"
      PROVE  agrees(tables.positions[positions[m].offer_id], positions[m],
                    {"funder", "principal", "repayment"})
  <2>1. Says(tables["positions"][positions[m].offer_id], positions[m], PositionFields)
    BY <1>5 DEF Mirror, PositionsMirrored
  <2>. QED BY <1>5, <2>1 DEF Says, PositionFields, agrees
<1>6. ASSUME NEW m \in MilestoneId, milestones[m].evidence_hash # NoDigest
      PROVE  /\ tables.milestones[m].evidence_hash = milestones[m].evidence_hash
             /\ tables.anchors[m].content_hash = milestones[m].evidence_hash
  <2>1. milestones[m].status # "Absent"
    BY <1>6 DEF ContractInv, Registered, NoMilestone
  <2>2. Says(tables["milestones"][m], milestones[m], MilestoneFields)
    BY <2>1 DEF Mirror, Same
  <2>. QED BY <1>6, <2>2 DEF Says, MilestoneFields, Mirror, AnchorsMirrored
<1>7. ASSUME NEW d \in DisputeId PROVE agrees(tables.disputes[d], disputes[d], {})
  BY SaysAgrees DEF Mirror, DisputesMirrored
<1>. QED BY <1>1, <1>2, <1>3, <1>4, <1>5, <1>6, <1>7 DEF RowsReconcile

LEMMA NothingParks ==
  ASSUME TransactionIndexed = TRUE, ReadInv
  PROVE  NeverParked
<1>1. PICK u : Leads(published, tables, u)
  BY DEF ReadInv, Followed, Follows
<1>2. ASSUME NEW n \in 1..Len(published)
      PROVE  ~projectBatch(SubSeq(published, 1, n), tables).failed
  BY <1>1, PageLeads DEF ReadInv
<1>. QED BY <1>2 DEF NeverParked

\* While responses carry the transaction's index, no batch the chain published
\* fails closed, and once the tables have caught up they say what the contract
\* says, however the events were paged (decoder.ts, projector.ts).
THEOREM RowsFollowContract ==
  ASSUME TransactionIndexed = TRUE
  PROVE  ReadSpec => []RowsFollow
<1>1. ReadInit => ReadInv
  BY ReadInvInit
<1>2. ReadInv /\ [ReadNext]_readVars => ReadInv'
  BY ReadInvStep
<1>3. ReadInv => RowsFollow
  <2>1. ReadInv => NeverParked
    BY NothingParks
  <2>2. ReadInv => RowsReconcile
    <3>1. ASSUME ReadInv PROVE RowsReconcile
      <4>1. CASE drained
        BY <3>1, <4>1, DrainedMirror, MirrorReconciles DEF ReadInv
      <4>2. CASE ~drained
        BY <4>2 DEF RowsReconcile
      <4>. QED BY <4>1, <4>2
    <3>. QED BY <3>1
  <2>. QED BY <2>1, <2>2 DEF RowsFollow
<1>. QED BY <1>1, <1>2, <1>3, PTL DEF ReadSpec

-----------------------------------------------------------------------------
(* Pages                                                                    *)

\* An event alone in its batch does what it does in a longer one.
LEMMA AloneApplies ==
  ASSUME TransactionIndexed = TRUE, NEW t, Shaped(t), NEW e, Numbered(e), e.id # 0,
         NEW u, Applies(t, e, u)
  PROVE  projectBatch(<<e>>, t).tables = u /\ Shaped(u)
<1>d. PICK d : d = decodeEvent(e)
  OBVIOUS
<1>1. Like(e, d) /\ Numbered(d) /\ d.id = e.id /\ d.id \in Nat \ {0}
  BY <1>d, Decoded DEF Numbered
<1>q. PICK q : q = [i \in DOMAIN <<e>> |-> decodeEvent(<<e>>[i])]
  OBVIOUS
<1>2. DOMAIN q = 1..1 /\ q[1] = d
  BY <1>d, <1>q
<1>3. sort(q) = q
  <2>. DEFINE before(i) == {j \in DOMAIN q : compareEventOrder(q[j], q[i])}
  <2>1. ~compareEventOrder(d, d)
    BY <1>1 DEF compareEventOrder, Numbered
  <2>2. Cardinality(before(1)) = 1 - 1
    <3>1. before(1) = {}
      BY <1>2, <2>1
    <3>. HIDE DEF before
    <3>. QED BY <3>1, FS_EmptySet
  <2>. HIDE DEF before
  <2>3. (CHOOSE i \in DOMAIN q : Cardinality(before(i)) = 1 - 1) = 1
    BY <1>2, <2>2
  <2>4. sort(q) = [nth \in 1..1 |->
                     q[CHOOSE i \in DOMAIN q : Cardinality(before(i)) = nth - 1]]
    BY <1>2 DEF sort, before
  <2>5. q = [nth \in 1..1 |-> q[nth]]
    BY <1>q, <1>2
  <2>6. ASSUME NEW nth \in 1..1
        PROVE  q[CHOOSE i \in DOMAIN q : Cardinality(before(i)) = nth - 1] = q[nth]
    <3>1. nth = 1
      OBVIOUS
    <3>. QED BY <2>3, <3>1
  <2>. QED BY <2>4, <2>5, <2>6
<1>4. PICK after : after = fold("batch", begin(t), q)
  OBVIOUS
<1>5. projectBatch(<<e>>, t) = [tables |-> after.tables, failed |-> after.failed]
  BY <1>3, <1>4, <1>q, BatchUnfold
<1>6. PICK g : Batched(g, begin(t), q, 1) /\ after = g[1..1]
  <2>1. \E g : Batched(g, begin(t), q, 1) /\ fold("batch", begin(t), q) = g[1..1]
    BY <1>2, BatchFold
  <2>. QED BY <1>4, <2>1
<1>7. after = projectEvent(begin(t), d)
  <2>1. 1 \in 1..1 /\ 1..(1 - 1) = {}
    OBVIOUS
  <2>. QED BY <1>2, <1>6, <2>1 DEF Batched
<1>8. Going(begin(t), d, {}) /\ begin(t).tables = t
  BY <1>1, Begun
<1>9. Going(after, d, DOMAIN Tables) /\ after.tables = u
  BY <1>1, <1>7, <1>8 DEF Applies
<1>10. Shaped(u)
  BY <1>9 DEF Going
<1>. QED BY <1>5, <1>9, <1>10

\* One batch for each event comes to the same tables.
LEMMA SinglesLead ==
  ASSUME TransactionIndexed = TRUE, NEW p, Logged(p), NEW t, Shaped(t),
         NEW trail, Trail(trail, p, t)
  PROVE  fold("single", t, p) = trail[Len(p)]
<1>. DEFINE n == Len(p)
<1>1. n \in Nat /\ DOMAIN p = 1..n
  BY DEF Logged
<1>2. \A i \in 1..n : Numbered(p[i]) /\ p[i].id = i /\ Applies(trail[i - 1], p[i], trail[i])
  BY DEF Logged, InOrder, Trail
<1>. HIDE DEF n
<1>3. PICK g : OneByOne(g, t, p, n) /\ fold("single", t, p) = g[1..n]
  BY <1>1, SingleFold
<1>4. g[{}] = t /\ \A i \in 1..n : g[1..i] = projectBatch(<<p[i]>>, g[1..(i - 1)]).tables
  BY <1>3 DEF OneByOne
<1>. DEFINE Good(i) == g[1..i] = trail[i] /\ Shaped(trail[i])
<1>5. Good(0)
  <2>1. 1..0 = {} /\ trail[0] = t
    BY DEF Trail
  <2>. QED BY <1>4, <2>1
<1>6. ASSUME NEW i \in 1..n, Good(i - 1) PROVE Good(i)
  <2>1. /\ Shaped(trail[i - 1]) /\ Numbered(p[i]) /\ p[i].id # 0
        /\ Applies(trail[i - 1], p[i], trail[i])
    BY <1>1, <1>2, <1>6
  <2>2. projectBatch(<<p[i]>>, trail[i - 1]).tables = trail[i] /\ Shaped(trail[i])
    BY <2>1, AloneApplies
  <2>. QED BY <1>4, <1>6, <2>2
<1>. HIDE DEF Good
<1>7. Good(n)
  <2>. DEFINE Bad == {i \in 0..n : ~Good(i)}
  <2>. SUFFICES ASSUME Bad # {} PROVE FALSE
    BY <1>1
  <2>1. PICK i \in Bad : \A j \in Bad : i <= j
    BY <1>1, LeastNumber
  <2>2. i \in 1..n /\ i - 1 \in 0..n /\ i - 1 \notin Bad
    BY <1>1, <1>5, <2>1
  <2>. QED BY <1>6, <2>1, <2>2
<1>. QED BY <1>3, <1>7 DEF Good, n

\* While responses carry the transaction's index, the pending events leave the
\* same tables in one batch and in a batch each: no replay can tell how the log
\* was paged the first time (decoder.ts compareEventOrder, projector.ts isNewer).
THEOREM PagesMakeNoDifference ==
  ASSUME TransactionIndexed = TRUE
  PROVE  ReadSpec => []PagingIrrelevant
<1>1. ReadInit => ReadInv
  BY ReadInvInit
<1>2. ReadInv /\ [ReadNext]_readVars => ReadInv'
  BY ReadInvStep
<1>3. ReadInv => PagingIrrelevant
  <2>. SUFFICES ASSUME ReadInv PROVE PagingIrrelevant
    OBVIOUS
  <2>1. PICK u : Leads(published, tables, u)
    BY DEF ReadInv, Followed, Follows
  <2>2. PICK trail : Trail(trail, published, tables)
    BY <2>1 DEF Leads
  <2>3. Logged(published) /\ Shaped(tables)
    BY <2>1 DEF Leads, ReadInv
  <2>4. projectBatch(published, tables).tables = trail[Len(published)]
    BY <2>2, <2>3, BatchLeads
  <2>5. fold("single", tables, published) = trail[Len(published)]
    BY <2>2, <2>3, SinglesLead
  <2>. QED BY <2>4, <2>5, FoldUnfold DEF PagingIrrelevant
<1>. QED BY <1>1, <1>2, <1>3, PTL DEF ReadSpec

-----------------------------------------------------------------------------
(* The figures                                                              *)

\* Ids are handed out in sequence, so a counter counts the entries that are there.
LEMMA UpTo ==
  ASSUME NEW limit \in Nat, NEW n \in 0..limit, NEW S,
         \A x : x \in S <=> x \in 1..limit /\ x <= n
  PROVE  Cardinality(S) = n
<1>1. S = 1..n
  <2>1. \A x \in 1..limit : x <= n <=> x \in 1..n
    OBVIOUS
  <2>2. \A x \in 1..n : x \in 1..limit
    OBVIOUS
  <2>3. \A x : x \in S <=> x \in 1..n
    BY <2>1, <2>2
  <2>. QED BY <2>3
<1>2. Cardinality(1..n) = n
  BY FS_Interval
<1>. QED BY <1>1, <1>2

\* As many rows of each table as the contract made entries of its kind.
LEMMA RowsCounted ==
  ASSUME NEW t, ContractInv, Mirror(t)
  PROVE  /\ Cardinality(rowsOf(t, "orders")) = order_count
         /\ Cardinality(rowsOf(t, "milestones")) = milestone_count
         /\ Cardinality(rowsOf(t, "offers")) = offer_count
         /\ Cardinality(rowsOf(t, "disputes")) = dispute_count
<1>1. /\ order_count \in 0..MaxOrders /\ milestone_count \in 0..MaxMilestones
      /\ offer_count \in 0..MaxOffers /\ dispute_count \in 0..MaxDisputes
  BY DEF ContractInv, TypeOK
<1>2. MaxOrders \in Nat /\ MaxMilestones \in Nat /\ MaxOffers \in Nat /\ MaxDisputes \in Nat
  BY LimitsAssumption
<1>3. \A o : o \in rowsOf(t, "orders") <=> o \in 1..MaxOrders /\ o <= order_count
  BY RowsThere, TableNames DEF rowsOf, OrderId, ContractInv, Registered
<1>4. \A m : m \in rowsOf(t, "milestones") <=> m \in 1..MaxMilestones /\ m <= milestone_count
  BY RowsThere, TableNames DEF rowsOf, MilestoneId, ContractInv, Registered
<1>5. \A f : f \in rowsOf(t, "offers") <=> f \in 1..MaxOffers /\ f <= offer_count
  <2>1. \A f \in OfferId : t["offers"][f] = NoRow <=> f > offer_count
    BY DEF Mirror, OffersMirrored, OffersPlaced
  <2>. QED BY <1>1, <2>1, TableNames DEF rowsOf, OfferId
<1>6. \A d : d \in rowsOf(t, "disputes") <=> d \in 1..MaxDisputes /\ d <= dispute_count
  BY RowsThere, TableNames DEF rowsOf, DisputeId, ContractInv, DisputesRegistered
<1>. QED BY <1>1, <1>2, <1>3, <1>4, <1>5, <1>6, UpTo

\* Orders and milestones whose rows have a status are those whose entries have it.
LEMMA StatusesCounted ==
  ASSUME NEW t, ContractInv, Mirror(t)
  PROVE  /\ \A statuses : "Absent" \notin statuses =>
              withStatus(t, "orders", statuses) = {o \in OrderId : orders[o].status \in statuses}
         /\ \A statuses : "Absent" \notin statuses =>
              withStatus(t, "milestones", statuses)
                = {m \in MilestoneId : milestones[m].status \in statuses}
<1>1. \A o \in OrderId : orders[o].status # "Absent" =>
        t["orders"][o].status = orders[o].status
  BY DEF Mirror, Same, Says
<1>2. \A m \in MilestoneId : milestones[m].status # "Absent" =>
        t["milestones"][m].status = milestones[m].status
  BY DEF Mirror, Same, Says
<1>3. /\ \A o \in OrderId : t["orders"][o] = NoRow <=> orders[o].status = "Absent"
      /\ \A m \in MilestoneId : t["milestones"][m] = NoRow <=> milestones[m].status = "Absent"
  BY RowsThere
<1>. QED BY <1>1, <1>2, <1>3, TableNames DEF withStatus, rowsOf

\* An advance has one row, at its offer, and two advances are of two offers.
LEMMA AdvancesCounted ==
  ASSUME NEW t, ContractInv, Mirror(t)
  PROVE  Cardinality(rowsOf(t, "positions"))
           = Cardinality({m \in MilestoneId : positions[m].status # "Absent"})
<1>. DEFINE Lent == {m \in MilestoneId : positions[m].status # "Absent"}
            Rows == rowsOf(t, "positions")
            at == [m \in Lent |-> positions[m].offer_id]
<1>1. /\ \A f \in OfferId : t["positions"][f] # NoRow =>
           /\ t["positions"][f].milestone \in MilestoneId
           /\ positions[t["positions"][f].milestone].status # "Absent"
           /\ positions[t["positions"][f].milestone].offer_id = f
      /\ \A m \in MilestoneId : positions[m].status # "Absent" =>
           /\ positions[m].offer_id \in OfferId
           /\ "milestone" \in DOMAIN t["positions"][positions[m].offer_id]
           /\ t["positions"][positions[m].offer_id].milestone = m
  BY DEF Mirror, PositionsMirrored
<1>2. "milestone" \notin DOMAIN NoRow
  BY DEF NoRow
<1>3. Rows = {f \in OfferId : t["positions"][f] # NoRow}
  BY TableNames DEF rowsOf
<1>4. \A m \in Lent : at[m] \in Rows
  BY <1>1, <1>2, <1>3
<1>5. \A m, n \in Lent : at[m] = at[n] => m = n
  BY <1>1
<1>6. \A f \in Rows : \E m \in Lent : at[m] = f
  BY <1>1, <1>3
<1>7. at \in Bijection(Lent, Rows)
  <2>1. at \in [Lent -> Rows]
    BY <1>4
  <2>. HIDE DEF at, Lent, Rows
  <2>. QED BY <1>5, <1>6, <2>1 DEF Bijection, Injection, Surjection, IsInjective
<1>8. IsFiniteSet(Lent)
  <2>1. IsFiniteSet(MilestoneId)
    BY LimitsAssumption, FS_Interval DEF MilestoneId
  <2>. QED BY <2>1, FS_Subset
<1>. HIDE DEF at, Lent, Rows
<1>9. Cardinality(Rows) = Cardinality(Lent)
  BY <1>7, <1>8, FS_Bijection DEF ExistsBijection
<1>. QED BY <1>9 DEF Lent, Rows

LEMMA MirrorCounts ==
  ASSUME ContractInv, Mirror(tables)
  PROVE  \A k \in DOMAIN catalogue : protocolActivity(tables)[k] = catalogue[k]
<1>. DEFINE figures == protocolActivity(tables)
<1>1. /\ Cardinality(rowsOf(tables, "orders")) = order_count
      /\ Cardinality(rowsOf(tables, "milestones")) = milestone_count
      /\ Cardinality(rowsOf(tables, "offers")) = offer_count
      /\ Cardinality(rowsOf(tables, "disputes")) = dispute_count
  BY RowsCounted
<1>2. /\ withStatus(tables, "orders", {"Active", "Completed"})
           = {o \in OrderId : orders[o].status \in {"Active", "Completed"}}
      /\ withStatus(tables, "orders", {"Completed"})
           = {o \in OrderId : orders[o].status \in {"Completed"}}
      /\ withStatus(tables, "milestones", PROTECTED_STATES)
           = {m \in MilestoneId : milestones[m].status \in PROTECTED_STATES}
  <2>1. "Absent" \notin PROTECTED_STATES
    BY DEF PROTECTED_STATES, Protected, Terminal
  <2>. QED BY <2>1, StatusesCounted
<1>3. {o \in OrderId : orders[o].status \in {"Completed"}}
        = {o \in OrderId : /\ orders[o].status = "Active" \/ orders[o].status = "Completed"
                           /\ order_milestones[o] # {}
                           /\ \A m \in order_milestones[o] : Reached(m, Terminal)}
  <2>1. \A o \in OrderId : orders[o].status = "Completed" <=>
          /\ order_milestones[o] # {}
          /\ \A m \in order_milestones[o] : Reached(m, Terminal)
    BY DEF ContractInv, CompletedWithLastMilestone, Reached
  <2>. QED BY <2>1
<1>4. rowsOf(tables, "requests") = {m \in MilestoneId : requests[m].status # "Absent"}
  BY RowsThere, TableNames DEF rowsOf
<1>5. Cardinality(rowsOf(tables, "positions"))
        = Cardinality({m \in MilestoneId : positions[m].status # "Absent"})
  BY AdvancesCounted
<1>6. /\ rowsOf(tables, "settlements") = {m \in MilestoneId : Reached(m, {"Settled"})}
      /\ rowsOf(tables, "refunds") = {m \in MilestoneId : Reached(m, {"Refunded"})}
  BY TableNames DEF rowsOf, Mirror, PayoutsMirrored, Reached
<1>7. {m \in MilestoneId : milestones[m].status \in PROTECTED_STATES}
        = {m \in MilestoneId : Reached(m, Protected \cup Terminal)}
  BY DEF PROTECTED_STATES, Reached
<1>8. DOMAIN catalogue =
        {"ordersCreated", "ordersAccepted", "ordersCompleted", "milestonesCreated",
         "milestonesProtected", "financeRequests", "fundingOffers", "advancesFunded",
         "milestonesSettled", "disputesOpened", "milestonesRefunded"}
  BY DEF catalogue
<1>9. /\ figures["ordersCreated"] = catalogue["ordersCreated"]
      /\ figures["ordersAccepted"] = catalogue["ordersAccepted"]
      /\ figures["milestonesCreated"] = catalogue["milestonesCreated"]
      /\ figures["fundingOffers"] = catalogue["fundingOffers"]
      /\ figures["disputesOpened"] = catalogue["disputesOpened"]
  BY <1>1, <1>2 DEF protocolActivity, catalogue
<1>10. /\ figures["ordersCompleted"] = catalogue["ordersCompleted"]
       /\ figures["milestonesProtected"] = catalogue["milestonesProtected"]
  BY <1>2, <1>3, <1>7 DEF protocolActivity, catalogue
<1>11. /\ figures["financeRequests"] = catalogue["financeRequests"]
       /\ figures["advancesFunded"] = catalogue["advancesFunded"]
       /\ figures["milestonesSettled"] = catalogue["milestonesSettled"]
       /\ figures["milestonesRefunded"] = catalogue["milestonesRefunded"]
  BY <1>4, <1>5, <1>6 DEF protocolActivity, catalogue
<1>. HIDE DEF figures
<1>12. \A k \in DOMAIN catalogue : figures[k] = catalogue[k]
  BY <1>8, <1>9, <1>10, <1>11
<1>. QED BY <1>12 DEF figures

\* A set of times that have passed has a last one.
LEMMA MaxOfTimes ==
  ASSUME NEW n \in Nat, NEW S, S \subseteq 0..n, S # {}
  PROVE  Max(S) \in S
<1>. DEFINE B == {n - x : x \in S}
<1>1. B \subseteq 0..n /\ B # {}
  <2>1. \A x \in S : n - x \in 0..n
    OBVIOUS
  <2>. QED BY <2>1
<1>2. PICK b \in B : \A j \in B : b <= j
  <2>. HIDE DEF B
  <2>. QED BY <1>1, LeastNumber
<1>3. PICK x \in S : b = n - x
  OBVIOUS
<1>4. \A y \in S : x >= y
  <2>1. \A y \in S : n - y \in B /\ y \in 0..n
    OBVIOUS
  <2>2. \A y \in S : b <= n - y
    BY <1>2, <2>1
  <2>. HIDE DEF B
  <2>. QED BY <1>3, <2>1, <2>2
<1>. QED BY <1>4 DEF Max

\* An order's payouts fall between its creation and now, and a completed order has one.
LEMMA OrderTimed ==
  ASSUME NEW t, ContractInv, Mirror(t), NEW o \in OrderId, orders[o].status = "Completed"
  PROVE  terminalAt(t, o) - t["orders"][o].at \in 0..Horizon /\ terminalAt(t, o) >= 0
<1>. DEFINE times == {t.settlements[m].at : m \in {n \in rowsOf(t, "settlements") :
                                                      t.settlements[n].order = o}}
                     \cup {t.refunds[m].at : m \in {n \in rowsOf(t, "refunds") :
                                                        t.refunds[n].order = o}}
            start == t["orders"][o].at
<1>1. now \in 0..Horizon /\ Horizon \in Nat /\ start \in 0..now
  <2>1. now \in 0..Horizon /\ Horizon \in Nat
    BY LimitsAssumption DEF ContractInv, TypeOK
  <2>2. t["orders"][o] # NoRow
    BY RowsThere
  <2>. QED BY <2>1, <2>2 DEF Mirror, OrdersTimed
<1>2. ASSUME NEW table \in {"settlements", "refunds"}, NEW m \in rowsOf(t, table),
             t[table][m].order = o
      PROVE  t[table][m].at \in start..now
  <2>1. m \in MilestoneId /\ t[table][m] # NoRow
    BY <1>2, TableNames DEF rowsOf
  <2>. QED BY <1>2, <2>1 DEF Mirror, PayoutsMirrored
<1>3. times \subseteq start..now
  BY <1>2
<1>4. times # {}
  <2>1. PICK m \in order_milestones[o] : milestones[m].status \in Terminal
    BY DEF ContractInv, CompletedWithLastMilestone
  <2>2. m \in MilestoneId
    BY DEF ContractInv, TypeOK
  <2>3. milestones[m].order_id = o
    BY <2>1, <2>2 DEF ContractInv, Registered
  <2>4. CASE milestones[m].status = "Settled"
    <3>1. t["settlements"][m] # NoRow /\ t["settlements"][m].order = o
      BY <2>2, <2>3, <2>4 DEF Mirror, PayoutsMirrored
    <3>2. m \in rowsOf(t, "settlements")
      BY <2>2, <3>1, TableNames DEF rowsOf
    <3>3. t.settlements[m].at \in times
      BY <3>1, <3>2
    <3>. QED BY <3>3
  <2>5. CASE milestones[m].status = "Refunded"
    <3>1. t["refunds"][m] # NoRow /\ t["refunds"][m].order = o
      BY <2>2, <2>3, <2>5 DEF Mirror, PayoutsMirrored
    <3>2. m \in rowsOf(t, "refunds")
      BY <2>2, <3>1, TableNames DEF rowsOf
    <3>3. t.refunds[m].at \in times
      BY <3>1, <3>2
    <3>. QED BY <3>3
  <2>. QED BY <2>1, <2>4, <2>5 DEF Terminal
<1>5. terminalAt(t, o) = Max(times)
  BY <1>4 DEF terminalAt
<1>. HIDE DEF times
<1>6. Max(times) \in times
  <2>1. now \in Nat /\ times \subseteq 0..now
    BY <1>1, <1>3
  <2>. QED BY <1>4, <2>1, MaxOfTimes
<1>7. terminalAt(t, o) \in start..now
  BY <1>3, <1>5, <1>6
<1>. QED BY <1>1, <1>7

LEMMA MirrorTimes ==
  ASSUME ContractInv, Mirror(tables)
  PROVE  LET times == completionTimes(tables) IN
         /\ DOMAIN times = {o \in OrderId : orders[o].status = "Completed"}
         /\ \A o \in DOMAIN times : times[o] \in 0..Horizon
<1>. DEFINE Done == {o \in OrderId : orders[o].status = "Completed"}
            Timed == {p \in withStatus(tables, "orders", {"Completed"}) :
                        terminalAt(tables, p) >= 0}
<1>1. \A o \in Done : /\ terminalAt(tables, o) - tables["orders"][o].at \in 0..Horizon
                      /\ terminalAt(tables, o) >= 0
  BY OrderTimed
<1>2. withStatus(tables, "orders", {"Completed"}) = Done
  <2>1. withStatus(tables, "orders", {"Completed"})
          = {o \in OrderId : orders[o].status \in {"Completed"}}
    BY StatusesCounted
  <2>. QED BY <2>1
<1>3. Timed = Done
  BY <1>1, <1>2
<1>4. completionTimes(tables)
        = [o \in Timed |-> terminalAt(tables, o) - tables["orders"][o].at]
  BY DEF completionTimes
<1>. HIDE DEF Timed, Done
<1>5. /\ DOMAIN completionTimes(tables) = Done
      /\ \A o \in Done : completionTimes(tables)[o] \in 0..Horizon
  BY <1>1, <1>3, <1>4
<1>. QED BY <1>5 DEF Done

\* While responses carry the transaction's index, every published count is what
\* the catalogue says it counts, and every completed order is timed
\* (public-metrics.ts, definitions.ts).
THEOREM FiguresAreCatalogues ==
  ASSUME TransactionIndexed = TRUE
  PROVE  ReadSpec => []FiguresMatchCatalogue
<1>1. ReadInit => ReadInv
  BY ReadInvInit
<1>2. ReadInv /\ [ReadNext]_readVars => ReadInv'
  BY ReadInvStep
<1>3. ReadInv => FiguresMatchCatalogue
  <2>1. ASSUME ReadInv PROVE FiguresMatchCatalogue
    <3>1. CASE drained
      <4>1. ContractInv /\ Mirror(tables)
        BY <2>1, <3>1, DrainedMirror DEF ReadInv
      <4>2. CountsMatchCatalogue
        BY <4>1, MirrorCounts DEF CountsMatchCatalogue
      <4>3. CompletionsTimed
        BY <4>1, MirrorTimes DEF CompletionsTimed
      <4>. QED BY <4>2, <4>3 DEF FiguresMatchCatalogue
    <3>2. CASE ~drained
      BY <3>2 DEF FiguresMatchCatalogue, CountsMatchCatalogue, CompletionsTimed
    <3>. QED BY <3>1, <3>2
  <2>. QED BY <2>1
<1>. QED BY <1>1, <1>2, <1>3, PTL DEF ReadSpec

-----------------------------------------------------------------------------
(* Reviews                                                                  *)

\* What a row says of money that stays true, however old the row: the amount of a
\* milestone, the repayment of a position, and the terms of an accepted offer until
\* they expire.
AmountStands(m, row) ==
  /\ {"amount", "funded_amount"} \subseteq DOMAIN row
  /\ milestones[m].status # "Absent" /\ row.amount = milestones[m].amount
RepaymentStands(m, row) ==
  positions[m].status # "Absent" /\ row.repayment = positions[m].repayment
OfferStands(m, f, row) ==
  row.status = "Accepted" =>
    /\ row.expires_at \in Nat
    /\ live(row.expires_at, now) =>
         /\ accepted[m].status # "Absent" /\ accepted[m].id = f
         /\ \A x \in {"principal", "repayment", "expires_at"} : accepted[m][x] = row[x]

\* Rows of the database, before they have caught up.
RowsStand(t) ==
  /\ \A m \in MilestoneId :
       t["milestones"][m] # NoRow => AmountStands(m, t["milestones"][m])
  /\ \A f \in OfferId :
       /\ t["positions"][f] # NoRow =>
            LET m == t["positions"][f].milestone
            IN  m \in MilestoneId /\ RepaymentStands(m, t["positions"][f])
       /\ t["offers"][f] # NoRow =>
            LET m == t["offers"][f].milestone
            IN  m \in MilestoneId /\ OfferStands(m, f, t["offers"][f])

\* A milestone is served as funded in full when its row says so.
MilestoneStands(m, row) ==
  AmountStands(m, row) /\ (row.fullyFunded => row.funded_amount = row.amount)

\* What a tab holds.
PageShaped(p) ==
  /\ p = [order |-> p.order, finance |-> p.finance, rendered |-> p.rendered]
  /\ p.finance = [m \in MilestoneId |-> p.finance[m]]
OrderStands(order) ==
  order # NoRow =>
    \A m \in MilestoneId : m \in DOMAIN order.milestones => MilestoneStands(m, order.milestones[m])
FinanceStands(m, finance) ==
  /\ \A f \in DOMAIN finance.positions : RepaymentStands(m, finance.positions[f])
  /\ \A f \in DOMAIN finance.offers : OfferStands(m, f, finance.offers[f])
PageStands(p) ==
  PageShaped(p) /\ OrderStands(p.order) /\ \A m \in MilestoneId : FinanceStands(m, p.finance[m])

WatchInv == ReadInv /\ RowsStand(tables) /\ PageStands(page)

\* A selection stays until it expires, and its terms as long as it is stored.
SelectionStays(m) ==
  accepted[m].status # "Absent" /\ live(accepted[m].expires_at, now) =>
    /\ accepted'[m].status # "Absent"
    /\ \A x \in {"id", "principal", "repayment", "expires_at"} : accepted'[m][x] = accepted[m][x]

LEMMA SelectionStep ==
  ASSUME TypeOK, [Next]_vars, NEW m \in MilestoneId
  PROVE  SelectionStays(m)
<1>1. accepted[m] \in AcceptedRecord /\ accepted \in [MilestoneId -> AcceptedRecord]
  BY FinanceTypes
<1>2. ASSUME accepted'[m] = accepted[m] PROVE SelectionStays(m)
  BY <1>2 DEF SelectionStays
<1>3. ASSUME NEW f \in OfferId, accept_offer(f) PROVE SelectionStays(m)
  <2>1. CASE offers[f].milestone_id = m
    BY <1>3, <2>1 DEF accept_offer, SelectionStays
  <2>2. CASE offers[f].milestone_id # m
    BY <1>1, <1>2, <1>3, <2>2 DEF accept_offer
  <2>. QED BY <2>1, <2>2
<1>4. ASSUME NEW k \in MilestoneId, fund_advance(k) PROVE SelectionStays(m)
  <2>1. accepted' = [accepted EXCEPT ![k] = [accepted[k] EXCEPT !.status = "Funded"]]
    BY <1>4 DEF fund_advance
  <2>2. CASE k = m
    BY <1>1, <2>1, <2>2 DEF SelectionStays, AcceptedRecord
  <2>3. CASE k # m
    BY <1>1, <1>2, <2>1, <2>3
  <2>. QED BY <2>2, <2>3
<1>5. ASSUME NEW k \in MilestoneId, release_expired_acceptance(k) PROVE SelectionStays(m)
  <2>1. /\ accepted' = [accepted EXCEPT ![k] = NoAccepted]
        /\ ~is_live(accepted[k].expires_at)
    BY <1>5 DEF release_expired_acceptance
  <2>2. CASE k = m
    BY <2>1, <2>2 DEF SelectionStays, is_live, live
  <2>3. CASE k # m
    BY <1>1, <1>2, <2>1, <2>3
  <2>. QED BY <2>2, <2>3
<1>6. ASSUME \/ Orders \/ Opens \/ UNCHANGED vars
             \/ \E k \in MilestoneId : Unfinanced(k) \/ cancel_finance_request(k)
                                       \/ resolve_refund(k)
             \/ \E k \in MilestoneId : \E caller \in Account : settle_milestone(k, caller)
             \/ \E k \in MilestoneId : \E principal, expires_at : request_finance(k, principal, expires_at)
             \/ \E k \in MilestoneId : \E funder, principal, repayment, expires_at :
                  make_offer(k, funder, principal, repayment, expires_at)
             \/ \E f \in OfferId : cancel_offer(f)
             \/ advance_ledger
      PROVE  accepted' = accepted
  <2>1. CASE Orders \/ Opens \/ UNCHANGED vars
    BY <2>1 DEF Orders, Opens, create_order, create_milestone, accept_order, cancel_order, vars,
       financeVars
  <2>2. CASE \E k \in MilestoneId : Unfinanced(k) \/ cancel_finance_request(k) \/ resolve_refund(k)
    BY <2>2 DEF Unfinanced, cancel_finance_request, resolve_refund, financeVars
  <2>3. CASE \E k \in MilestoneId : \E caller \in Account : settle_milestone(k, caller)
    BY <2>3 DEF settle_milestone
  <2>4. CASE \E k \in MilestoneId : \E principal, expires_at : request_finance(k, principal, expires_at)
    BY <2>4 DEF request_finance
  <2>5. CASE \E k \in MilestoneId : \E funder, principal, repayment, expires_at :
               make_offer(k, funder, principal, repayment, expires_at)
    BY <2>5 DEF make_offer
  <2>6. CASE (\E f \in OfferId : cancel_offer(f)) \/ advance_ledger
    BY <2>6 DEF cancel_offer, advance_ledger
  <2>. QED BY <1>6, <2>1, <2>2, <2>3, <2>4, <2>5, <2>6
<1>. QED
  BY <1>2, <1>3, <1>4, <1>5, <1>6, OutsideRound DEF Next, Orders, Opens

LEMMA AmountStep ==
  ASSUME ContractInv, [Next]_vars, NEW m \in MilestoneId, milestones[m].status # "Absent"
  PROVE  milestones'[m].status # "Absent" /\ milestones'[m].amount = milestones[m].amount
<1>1. TypeOK /\ Registered /\ milestones \in [MilestoneId -> MilestoneRecord]
  BY MilestoneTypes DEF ContractInv
<1>2. CASE Orders \/ Aside
  BY <1>2 DEF Orders, Aside, create_order, accept_order, cancel_order
<1>3. CASE Opens
  <2>1. PICK o \in OrderId, amount \in MilestoneAmounts :
          /\ create_milestone(o, amount)
          /\ milestone_count + 1 \in MilestoneId
          /\ milestones[milestone_count + 1] = NoMilestone
    BY <1>1, <1>3, OpeningFresh
  <2>2. m # milestone_count + 1
    BY <2>1 DEF NoMilestone
  <2>. QED BY <1>1, <2>1, <2>2 DEF create_milestone
<1>4. ASSUME NEW k \in MilestoneId, Works(k) \/ Ends(k)
      PROVE  milestones'[m].status # "Absent" /\ milestones'[m].amount = milestones[m].amount
  BY <1>1, <1>4, KeptBy DEF Kept
<1>. QED BY <1>1, <1>2, <1>3, <1>4, StepKinds

LEMMA ClockStep ==
  ASSUME TypeOK, [Next]_vars PROVE now \in Nat /\ now' \in Nat /\ now <= now'
<1>1. now \in Nat /\ now' \in Nat
  BY TypeStep, LimitsAssumption DEF TypeOK
<1>2. ASSUME advance_ledger PROVE now <= now'
  <2>1. now' = now + 1
    BY <1>2 DEF advance_ledger
  <2>. QED BY <1>1, <2>1
<1>3. ASSUME UNCHANGED vars PROVE now' = now
  BY <1>3 DEF vars
<1>4. ASSUME Orders \/ Opens PROVE now' = now
  <2>1. ASSUME NEW roles \in Proposals, create_order(roles) PROVE now' = now
    BY <2>1 DEF create_order
  <2>2. ASSUME NEW o \in OrderId, accept_order(o) \/ cancel_order(o) PROVE now' = now
    BY <2>2 DEF accept_order, cancel_order
  <2>3. ASSUME NEW o \in OrderId, NEW amount \in MilestoneAmounts, create_milestone(o, amount)
        PROVE  now' = now
    BY <2>3 DEF create_milestone
  <2>. QED BY <1>4, <2>1, <2>2, <2>3 DEF Orders, Opens
<1>5. ASSUME NEW m \in MilestoneId PROVE
        /\ \A amount, asset : fund_milestone(m, amount, asset) => now' = now
        /\ \A principal, expires_at : request_finance(m, principal, expires_at) => now' = now
        /\ \A funder, principal, repayment, expires_at :
             make_offer(m, funder, principal, repayment, expires_at) => now' = now
        /\ cancel_partial_funding(m) \/ cancel_finance_request(m) => now' = now
        /\ fund_advance(m) \/ release_expired_acceptance(m) => now' = now
  <2>1. \A amount, asset : fund_milestone(m, amount, asset) => now' = now
    BY DEF fund_milestone
  <2>2. \A principal, expires_at : request_finance(m, principal, expires_at) => now' = now
    BY DEF request_finance
  <2>3. \A funder, principal, repayment, expires_at :
          make_offer(m, funder, principal, repayment, expires_at) => now' = now
    BY DEF make_offer
  <2>4. cancel_partial_funding(m) \/ cancel_finance_request(m) => now' = now
    BY DEF cancel_partial_funding, cancel_finance_request
  <2>5. fund_advance(m) \/ release_expired_acceptance(m) => now' = now
    BY DEF fund_advance, release_expired_acceptance
  <2>. QED BY <2>1, <2>2, <2>3, <2>4, <2>5
<1>6. ASSUME NEW m \in MilestoneId PROVE
        /\ \A digest : submit_evidence(m, digest) \/ attest_milestone(m, digest) => now' = now
        /\ \A caller : settle_milestone(m, caller) \/ open_dispute(m, caller) => now' = now
        /\ resolve_settle(m) \/ resolve_refund(m) => now' = now
  <2>1. \A digest : submit_evidence(m, digest) \/ attest_milestone(m, digest) => now' = now
    BY DEF submit_evidence, attest_milestone
  <2>2. \A caller : settle_milestone(m, caller) \/ open_dispute(m, caller) => now' = now
    BY DEF settle_milestone, open_dispute
  <2>3. resolve_settle(m) \/ resolve_refund(m) => now' = now
    BY DEF resolve_settle, resolve_refund
  <2>. QED BY <2>1, <2>2, <2>3
<1>7. ASSUME NEW f \in OfferId, cancel_offer(f) \/ accept_offer(f) PROVE now' = now
  BY <1>7 DEF cancel_offer, accept_offer
<1>8. now' = now \/ now <= now'
  BY <1>2, <1>3, <1>4, <1>5, <1>6, <1>7 DEF Next, Orders, Opens
<1>. QED BY <1>1, <1>8

\* Whatever is signed, what stood still stands.
LEMMA StandsOn ==
  ASSUME ContractInv, [Next]_vars, NEW m \in MilestoneId, NEW f, NEW row
  PROVE  /\ AmountStands(m, row) => AmountStands(m, row)'
         /\ RepaymentStands(m, row) => RepaymentStands(m, row)'
         /\ OfferStands(m, f, row) => OfferStands(m, f, row)'
<1>1. AmountStands(m, row) => AmountStands(m, row)'
  BY AmountStep DEF AmountStands
<1>2. ASSUME RepaymentStands(m, row) PROVE RepaymentStands(m, row)'
  <2>1. TypeOK /\ TypeOK'
    BY TypeStep DEF ContractInv
  <2>2. AdvanceStays(m)
    BY <2>1, AdvanceStep
  <2>3. positions[m] \in PositionRecord /\ positions'[m] \in PositionRecord
    BY <2>1 DEF TypeOK
  <2>4. positions'[m].status # "Absent"
    BY <1>2, <2>2 DEF AdvanceStays, RepaymentStands
  <2>5. positions'[m].repayment = positions[m].repayment
    BY <1>2, <2>2, <2>3 DEF AdvanceStays, RepaymentStands, PositionRecord
  <2>. QED BY <1>2, <2>4, <2>5 DEF RepaymentStands
<1>3. ASSUME OfferStands(m, f, row) PROVE OfferStands(m, f, row)'
  <2>1. TypeOK
    BY DEF ContractInv
  <2>2. SelectionStays(m) /\ now \in Nat /\ now' \in Nat /\ now <= now'
    BY <2>1, SelectionStep, ClockStep
  <2>3. ASSUME row.status = "Accepted", live(row.expires_at, now')
        PROVE  /\ accepted'[m].status # "Absent" /\ accepted'[m].id = f
               /\ \A x \in {"principal", "repayment", "expires_at"} : accepted'[m][x] = row[x]
    <3>1. row.expires_at \in Nat /\ live(row.expires_at, now)
      BY <1>3, <2>2, <2>3 DEF OfferStands, live
    <3>. QED BY <1>3, <2>2, <2>3, <3>1 DEF OfferStands, SelectionStays
  <2>. QED BY <1>3, <2>3 DEF OfferStands
<1>. QED BY <1>1, <1>2, <1>3

\* Rows that have caught up stand.
LEMMA MirrorStands ==
  ASSUME ContractInv, NEW t, Mirror(t) PROVE RowsStand(t)
<1>1. ASSUME NEW m \in MilestoneId, t["milestones"][m] # NoRow
      PROVE  AmountStands(m, t["milestones"][m])
  BY <1>1 DEF Mirror, Same, Says, MilestoneFields, AmountStands
<1>2. ASSUME NEW f \in OfferId, t["positions"][f] # NoRow
      PROVE  /\ t["positions"][f].milestone \in MilestoneId
             /\ RepaymentStands(t["positions"][f].milestone, t["positions"][f])
  <2>1. PICK m : m = t["positions"][f].milestone
    OBVIOUS
  <2>2. m \in MilestoneId /\ positions[m].status # "Absent" /\ positions[m].offer_id = f
    BY <1>2, <2>1 DEF Mirror, PositionsMirrored
  <2>3. Says(t["positions"][f], positions[m], PositionFields)
    BY <2>2 DEF Mirror, PositionsMirrored
  <2>. QED BY <2>1, <2>2, <2>3 DEF RepaymentStands, Says, PositionFields
<1>3. ASSUME NEW f \in OfferId, t["offers"][f] # NoRow
      PROVE  /\ t["offers"][f].milestone \in MilestoneId
             /\ OfferStands(t["offers"][f].milestone, f, t["offers"][f])
  <2>1. PICK m : m = t["offers"][f].milestone
    OBVIOUS
  <2>2. TermsMirrored(t)
    BY DEF Mirror, OffersMirrored
  <2>3. m \in MilestoneId
    BY <1>3, <2>1, <2>2 DEF TermsMirrored
  <2>4. ASSUME t["offers"][f].status = "Accepted"
        PROVE  /\ accepted[m].status = "Accepted" /\ accepted[m].id = f
               /\ \A x \in OfferFields : t["offers"][f][x] = accepted[m][x]
    <3>1. accepted[m].status = "Accepted" /\ accepted[m].id = f
      BY <1>3, <2>1, <2>2, <2>4 DEF TermsMirrored
    <3>. QED BY <2>2, <2>3, <3>1 DEF TermsMirrored
  <2>5. accepted[m].expires_at \in Nat
    <3>1. accepted[m] \in AcceptedRecord
      BY <2>3 DEF ContractInv, TypeOK
    <3>. QED BY <3>1 DEF AcceptedRecord
  <2>6. OfferStands(m, f, t["offers"][f])
    BY <2>4, <2>5 DEF OfferStands, OfferFields
  <2>. QED BY <2>1, <2>3, <2>6
<1>. QED BY <1>1, <1>2, <1>3 DEF RowsStand

LEMMA RowsStandOn ==
  ASSUME ContractInv, [Next]_vars, NEW t, RowsStand(t) PROVE RowsStand(t)'
<1>1. ASSUME NEW m \in MilestoneId, t["milestones"][m] # NoRow
      PROVE  AmountStands(m, t["milestones"][m])'
  BY <1>1, StandsOn DEF RowsStand
<1>2. ASSUME NEW f \in OfferId, t["positions"][f] # NoRow
      PROVE  /\ t["positions"][f].milestone \in MilestoneId
             /\ RepaymentStands(t["positions"][f].milestone, t["positions"][f])'
  BY <1>2, StandsOn DEF RowsStand
<1>3. ASSUME NEW f \in OfferId, t["offers"][f] # NoRow
      PROVE  /\ t["offers"][f].milestone \in MilestoneId
             /\ OfferStands(t["offers"][f].milestone, f, t["offers"][f])'
  BY <1>3, StandsOn DEF RowsStand
<1>. QED BY <1>1, <1>2, <1>3 DEF RowsStand

LEMMA PageStandsOn ==
  ASSUME ContractInv, [Next]_vars, NEW p, PageStands(p) PROVE PageStands(p)'
<1>1. ASSUME NEW m \in MilestoneId, p.order # NoRow, m \in DOMAIN p.order.milestones
      PROVE  MilestoneStands(m, p.order.milestones[m])'
  <2>1. PICK row : row = p.order.milestones[m]
    OBVIOUS
  <2>2. MilestoneStands(m, row)
    BY <1>1, <2>1 DEF PageStands, OrderStands
  <2>3. AmountStands(m, row)'
    BY <2>2, StandsOn DEF MilestoneStands
  <2>4. MilestoneStands(m, row)'
    BY <2>2, <2>3 DEF MilestoneStands
  <2>. QED BY <2>1, <2>4
<1>2. OrderStands(p.order)'
  BY <1>1 DEF OrderStands
<1>3. ASSUME NEW m \in MilestoneId PROVE FinanceStands(m, p.finance[m])'
  <2>1. PICK finance : finance = p.finance[m]
    OBVIOUS
  <2>2. FinanceStands(m, finance)
    BY <2>1 DEF PageStands
  <2>3. ASSUME NEW f \in DOMAIN finance.positions
        PROVE  RepaymentStands(m, finance.positions[f])'
    BY <2>2, StandsOn DEF FinanceStands
  <2>4. ASSUME NEW f \in DOMAIN finance.offers
        PROVE  OfferStands(m, f, finance.offers[f])'
    BY <2>2, StandsOn DEF FinanceStands
  <2>5. FinanceStands(m, finance)'
    BY <2>3, <2>4 DEF FinanceStands
  <2>. QED BY <2>1, <2>5
<1>4. PageShaped(p)'
  BY DEF PageStands, PageShaped
<1>. QED BY <1>2, <1>3, <1>4 DEF PageStands

\* What the API serves from rows that stand, stands.
LEMMA OrderServed ==
  ASSUME NEW t, RowsStand(t), NEW o PROVE OrderStands(getOrder(t, o))
<1>. DEFINE served == {n \in rowsOf(t, "milestones") : t.milestones[n].order_id = o}
            changes == [milestones |-> [m \in served |-> serialiseMilestone(t, m)]]
<1>1. getOrder(t, o) = joined(changes, t.orders[o])
  BY DEF getOrder
<1>2. DOMAIN changes = {"milestones"} /\ changes.milestones = [m \in served |-> serialiseMilestone(t, m)]
  OBVIOUS
<1>. HIDE DEF changes
<1>3. getOrder(t, o).milestones = [m \in served |-> serialiseMilestone(t, m)]
  <2>1. \A x \in DOMAIN changes : joined(changes, t.orders[o])[x] = changes[x]
    BY ONLY JoinedFacts
  <2>. QED BY <1>1, <1>2, <2>1
<1>4. ASSUME NEW m \in served PROVE MilestoneStands(m, serialiseMilestone(t, m))
  <2>1. PICK row : row = t["milestones"][m]
    OBVIOUS
  <2>2. PICK full : full = [fullyFunded |-> row.funded_amount = row.amount /\ row.amount > 0]
    OBVIOUS
  <2>3. serialiseMilestone(t, m) = joined(full, row)
    BY <2>1, <2>2 DEF serialiseMilestone
  <2>4. /\ DOMAIN full = {"fullyFunded"}
        /\ full.fullyFunded <=> row.funded_amount = row.amount /\ row.amount > 0
    BY <2>2
  <2>5. /\ DOMAIN joined(full, row) = DOMAIN full \cup DOMAIN row
        /\ \A x \in DOMAIN full : joined(full, row)[x] = full[x]
        /\ \A x \in DOMAIN row \ DOMAIN full : joined(full, row)[x] = row[x]
    BY ONLY JoinedFacts
  <2>6. m \in MilestoneId /\ AmountStands(m, row)
    BY <2>1, TableNames DEF RowsStand, rowsOf
  <2>7. PICK view : view = joined(full, row)
    OBVIOUS
  <2>8. /\ {"amount", "funded_amount"} \subseteq DOMAIN view
        /\ view.amount = row.amount /\ view.funded_amount = row.funded_amount
        /\ view.fullyFunded = full.fullyFunded
    BY <2>4, <2>5, <2>6, <2>7 DEF AmountStands
  <2>9. AmountStands(m, view)
    BY <2>6, <2>8 DEF AmountStands
  <2>10. MilestoneStands(m, view)
    BY <2>4, <2>8, <2>9 DEF MilestoneStands
  <2>. QED BY <2>3, <2>7, <2>10
<1>. HIDE DEF served
<1>. QED BY <1>3, <1>4 DEF OrderStands

LEMMA FinanceServed ==
  ASSUME NEW t, RowsStand(t), NEW m \in MilestoneId
  PROVE  FinanceStands(m, getMilestoneFinance(t, m))
<1>. DEFINE finance == getMilestoneFinance(t, m)
<1>1. /\ finance.offers = rowsAbout(t, "offers", m)
      /\ finance.positions = rowsAbout(t, "positions", m)
  BY DEF getMilestoneFinance
<1>. HIDE DEF finance
<1>2. ASSUME NEW f \in DOMAIN finance.positions PROVE RepaymentStands(m, finance.positions[f])
  <2>1. /\ f \in OfferId /\ t["positions"][f] # NoRow /\ t["positions"][f].milestone = m
        /\ finance.positions[f] = t["positions"][f]
    BY <1>1, <1>2, TableNames DEF rowsAbout, rowsOf
  <2>. QED BY <2>1 DEF RowsStand
<1>3. ASSUME NEW f \in DOMAIN finance.offers PROVE OfferStands(m, f, finance.offers[f])
  <2>1. /\ f \in OfferId /\ t["offers"][f] # NoRow /\ t["offers"][f].milestone = m
        /\ finance.offers[f] = t["offers"][f]
    BY <1>1, <1>3, TableNames DEF rowsAbout, rowsOf
  <2>. QED BY <2>1 DEF RowsStand
<1>4. FinanceStands(m, finance)
  BY <1>2, <1>3 DEF FinanceStands
<1>. QED BY <1>4 DEF finance

\* A batch of all pending events leaves tables that mirror the contract.
LEMMA CaughtUp ==
  ASSUME TransactionIndexed = TRUE, ReadInv, applyBatch(Len(published))
  PROVE  Mirror(tables')
<1>. DEFINE n == Len(published)
<1>1. PICK u : Follows(u) /\ Mirror(u)
  BY DEF ReadInv, Followed
<1>2. /\ n \in 1..Len(published) /\ Shaped(tables)
      /\ tables' = projectBatch(SubSeq(published, 1, n), tables).tables
      /\ published' = ranked(SubSeq(published, n + 1, Len(published)))
  BY DEF applyBatch, ReadInv
<1>3. /\ Leads(published', tables', u)
      /\ \A i \in 1..Len(published') : n + i \in 1..Len(published)
  BY <1>1, <1>2, PageLeads DEF Follows
<1>4. PICK p : p = published'
  OBVIOUS
<1>5. PICK t : t = tables'
  OBVIOUS
<1>6. Leads(p, t, u)
  BY <1>3, <1>4, <1>5
<1>7. Len(p) \in Nat
  <2>1. PICK S : p \in Seq(S)
    BY <1>6 DEF Leads, Logged
  <2>. QED BY <2>1
<1>8. n \in Nat
  BY <1>2
<1>9. \A i \in 1..Len(p) : n + i \in 1..n
  BY <1>3, <1>4
<1>. HIDE DEF n
<1>10. Len(p) = 0
  BY <1>7, <1>8, <1>9
<1>11. PICK trail : Trail(trail, p, t) /\ trail[Len(p)] = u
  BY <1>6 DEF Leads
<1>12. t = u
  BY <1>10, <1>11 DEF Trail
<1>. QED BY <1>1, <1>5, <1>12

LEMMA WatchInit == WorkspaceInit => WatchInv
<1>. SUFFICES ASSUME ReadInit, page = EmptyPage PROVE WatchInv
  BY DEF WorkspaceInit
<1>1. ReadInv
  BY ReadInvInit
<1>2. RowsStand(tables)
  BY EmptyFacts, TableNames DEF ReadInit, RowsStand
<1>3. PageStands(page)
  BY DEF EmptyPage, NotLoaded, PageStands, PageShaped, OrderStands, FinanceStands
<1>. QED BY <1>1, <1>2, <1>3 DEF WatchInv

LEMMA WatchStep ==
  ASSUME TransactionIndexed = TRUE, WatchInv, [WatchNext]_workspaceVars
  PROVE  WatchInv'
<1>1. PICK p : p = page
  OBVIOUS
<1>2. PICK t : t = tables
  OBVIOUS
<1>3. /\ ContractInv /\ ReadInv /\ RowsStand(t) /\ PageStands(p)
  BY <1>1, <1>2 DEF WatchInv, ReadInv
<1>4. ASSUME UNCHANGED readVars PROVE ReadInv' /\ RowsStand(tables)' /\ PageStands(p)'
  <2>1. ReadInv' /\ UNCHANGED vars /\ tables' = tables
    BY <1>3, <1>4, ReadInvStep DEF readVars, logVars
  <2>2. RowsStand(t)' /\ PageStands(p)'
    BY <1>3, <2>1, RowsStandOn, PageStandsOn
  <2>. QED BY <1>2, <2>1, <2>2
<1>5. CASE ContractStep /\ UNCHANGED <<tables, page>>
  <2>1. ReadInv'
    BY <1>3, <1>5, ReadInvStep DEF ReadNext
  <2>2. Next
    BY <1>5, StepsOfContract
  <2>3. RowsStand(t)' /\ PageStands(p)'
    BY <1>3, <2>2, RowsStandOn, PageStandsOn
  <2>. QED BY <1>1, <1>2, <1>5, <2>1, <2>3 DEF WatchInv
<1>6. CASE applyBatch(Len(published)) /\ UNCHANGED page
  <2>1. UNCHANGED vars
    BY <1>6 DEF applyBatch
  <2>2. ContractInv'
    BY <1>3, <2>1, InvStep
  <2>3. Shaped(tables)' /\ Followed'
    BY <1>3, <1>6, FollowBatch
  <2>4. PICK w : w = tables'
    OBVIOUS
  <2>5. Mirror(w)
    BY <1>3, <1>6, <2>4, CaughtUp
  <2>6. RowsStand(w) /\ PageStands(p)
    BY <1>3, <2>5, MirrorStands
  <2>7. RowsStand(w)' /\ PageStands(p)'
    BY <1>3, <2>1, <2>6, RowsStandOn, PageStandsOn
  <2>. QED BY <1>1, <1>6, <2>2, <2>3, <2>4, <2>7 DEF WatchInv, ReadInv
<1>7. ASSUME NEW o \in OrderId, fetchOrder(o) PROVE WatchInv'
  <2>1. PICK order : order = getOrder(t, o)
    OBVIOUS
  <2>2. OrderStands(order)
    BY <1>3, <2>1, OrderServed
  <2>3. PICK q : q = [p EXCEPT !.order = order, !.rendered = now]
    OBVIOUS
  <2>4. page' = q /\ UNCHANGED readVars
    BY <1>1, <1>2, <1>7, <2>1, <2>3 DEF fetchOrder
  <2>5. q.order = order /\ q.finance = p.finance /\ PageShaped(q)
    BY <1>3, <2>3 DEF PageStands, PageShaped
  <2>6. PageStands(q)
    BY <1>3, <2>2, <2>5 DEF PageStands
  <2>7. ReadInv' /\ RowsStand(tables)' /\ UNCHANGED vars
    BY <1>4, <2>4 DEF readVars, logVars
  <2>8. PageStands(q)'
    BY <1>3, <2>6, <2>7, PageStandsOn
  <2>. QED BY <2>4, <2>7, <2>8 DEF WatchInv
<1>8. ASSUME NEW m \in MilestoneId, fetchFinance(m) PROVE WatchInv'
  <2>1. PICK finance : finance = getMilestoneFinance(t, m)
    OBVIOUS
  <2>2. FinanceStands(m, finance)
    BY <1>3, <2>1, FinanceServed
  <2>3. PICK q : q = [p EXCEPT !.finance[m] = finance, !.rendered = now]
    OBVIOUS
  <2>4. page' = q /\ UNCHANGED readVars
    BY <1>1, <1>2, <1>8, <2>1, <2>3 DEF fetchFinance
  <2>5. /\ q.order = p.order /\ q.finance = [p.finance EXCEPT ![m] = finance]
        /\ q = [order |-> q.order, finance |-> q.finance, rendered |-> q.rendered]
    BY <1>3, <2>3 DEF PageStands, PageShaped
  <2>6. p.finance = [k \in MilestoneId |-> p.finance[k]]
    BY <1>3 DEF PageStands, PageShaped
  <2>7. /\ q.finance = [k \in MilestoneId |-> q.finance[k]]
        /\ \A k \in MilestoneId : q.finance[k] = IF k = m THEN finance ELSE p.finance[k]
    BY <2>5, <2>6
  <2>8. PageStands(q)
    BY <1>3, <2>2, <2>5, <2>7 DEF PageStands, PageShaped
  <2>9. ReadInv' /\ RowsStand(tables)' /\ UNCHANGED vars
    BY <1>4, <2>4 DEF readVars, logVars
  <2>10. PageStands(q)'
    BY <1>3, <2>8, <2>9, PageStandsOn
  <2>. QED BY <2>4, <2>9, <2>10 DEF WatchInv
<1>9. CASE UNCHANGED workspaceVars
  <2>1. UNCHANGED readVars /\ page' = p
    BY <1>1, <1>9 DEF workspaceVars
  <2>2. ReadInv' /\ RowsStand(tables)' /\ PageStands(p)'
    BY <1>4, <2>1
  <2>. QED BY <2>1, <2>2 DEF WatchInv
<1>. QED BY <1>5, <1>6, <1>7, <1>8, <1>9 DEF WatchNext, index

LEMMA PreviewsHold == ASSUME WatchInv PROVE PreviewIsPaid
<1>. SUFFICES ASSUME NEW m \in MilestoneId, page.order # NoRow, m \in DOMAIN page.order.milestones,
                     milestones[m].status = "Verified", page.order.milestones[m].fullyFunded,
                     withRowStatus(page.finance[m].positions, "Active") # {}
              PROVE  LET view == moneyView(page.order.milestones[m], page.finance[m]) IN
                     /\ view.repayment = compute(m).funder_repayment
                     /\ view.remainder = compute(m).supplier_payout
  BY DEF PreviewIsPaid
<1>1. PICK row : row = page.order.milestones[m]
  OBVIOUS
<1>2. PICK finance : finance = page.finance[m]
  OBVIOUS
<1>3. /\ ContractInv /\ MilestoneStands(m, row) /\ FinanceStands(m, finance)
  BY <1>1, <1>2 DEF WatchInv, ReadInv, PageStands, OrderStands
<1>4. row.funded_amount = milestones[m].funded_amount
  BY <1>1, <1>3 DEF MilestoneStands, AmountStands, ContractInv, ProtectedInFull, Protected
<1>5. PICK active : active = withRowStatus(finance.positions, "Active")
  OBVIOUS
<1>6. PICK f : f = CHOOSE g \in active : TRUE
  OBVIOUS
<1>7. f \in active /\ f \in DOMAIN finance.positions
  BY <1>2, <1>5, <1>6 DEF withRowStatus
<1>8. positions[m].status # "Absent" /\ finance.positions[f].repayment = positions[m].repayment
  BY <1>3, <1>7 DEF FinanceStands, RepaymentStands
<1>9. positions[m].status = "Active"
  <2>1. TypeOK /\ FinancingCoherent
    BY <1>3 DEF ContractInv, FinancingSound
  <2>2. positions[m].status \in {"Absent", "Active", "Repaid", "Closed"}
    BY <2>1, FinanceTypes
  <2>. QED BY <1>8, <2>1, <2>2 DEF FinancingCoherent
<1>10. /\ compute(m).funder_repayment = positions[m].repayment
       /\ compute(m).supplier_payout = milestones[m].funded_amount - positions[m].repayment
  BY <1>9 DEF compute
<1>11. /\ moneyView(row, finance).repayment = finance.positions[f].repayment
       /\ moneyView(row, finance).remainder = row.funded_amount - finance.positions[f].repayment
  BY <1>5, <1>6, <1>7 DEF moneyView
<1>. QED BY <1>1, <1>2, <1>4, <1>8, <1>10, <1>11

\* The advance is offered of an accepted offer only.
LEMMA AdvanceOffered ==
  ASSUME NEW wallet, NEW order, NEW milestone, NEW finance, NEW time,
         NEW action \in milestoneActions(wallet, order, milestone, finance, time),
         action.kind = "fund-advance"
  PROVE  /\ action.offer \in DOMAIN finance.offers
         /\ finance.offers[action.offer].status = "Accepted"
<1>1. /\ \A kind, condition : \A a \in offered(kind, condition) : a.kind = kind
      /\ \A kind, ids : \A a \in offeredEach(kind, ids) : a.kind = kind /\ a.offer \in ids
  BY DEF offered, offeredEach
<1>2. action \notin protectActions(wallet, order, milestone)
  BY <1>1 DEF protectActions
<1>3. action \notin supplierFinanceActions(wallet, order, milestone, finance, time)
  BY <1>1 DEF supplierFinanceActions
<1>4. action \notin deliveryActions(wallet, order, milestone, finance)
  BY <1>1 DEF deliveryActions
<1>5. action \in funderActions(wallet, order, milestone, finance, time)
  BY <1>2, <1>3, <1>4 DEF milestoneActions
<1>6. action.offer \in acceptedOffer(finance)
  <2>. DEFINE mine == {f \in DOMAIN finance.offers : finance.offers[f].funder = wallet}
              payable == {f \in mine \cap acceptedOffer(finance) :
                            /\ milestone.status = "FinanceRequested"
                            /\ live(finance.offers[f].expires_at, time)}
              asked == /\ canActAsFunder(wallet, order)
                       /\ milestone.status = "FinanceRequested"
                       /\ finance.request.status = "Open"
                       /\ live(finance.request.expires_at, time)
              open == mine \cap withRowStatus(finance.offers, "Open")
  <2>1. \/ action \in offered("make-offer", asked) \/ action \in offeredEach("cancel-offer", open)
        \/ action \in offeredEach("fund-advance", payable)
    BY <1>5 DEF funderActions
  <2>2. payable \subseteq acceptedOffer(finance)
    OBVIOUS
  <2>. HIDE DEF asked, open, payable
  <2>3. action \in offeredEach("fund-advance", payable)
    BY <1>1, <2>1
  <2>. QED BY <1>1, <2>2, <2>3
<1>. QED BY <1>6 DEF acceptedOffer, withRowStatus

LEMMA LiveReviewsHold == ASSUME WatchInv PROVE LiveReviewIsSent
<1>. SUFFICES ASSUME NEW m \in MilestoneId, NEW wallet \in Account, NEW action \in shown(wallet, m),
                     action.kind = "fund-advance",
                     live(page.finance[m].offers[action.offer].expires_at, now)
              PROVE  /\ accepted[m].id = action.offer
                     /\ accepted[m].principal = page.finance[m].offers[action.offer].principal
                     /\ accepted[m].repayment = page.finance[m].offers[action.offer].repayment
  BY DEF LiveReviewIsSent
<1>1. PICK finance : finance = page.finance[m]
  OBVIOUS
<1>2. PICK f : f = action.offer
  OBVIOUS
<1>3. action \in milestoneActions(wallet, page.order, page.order.milestones[m], finance, page.rendered)
  BY <1>1 DEF shown
<1>4. f \in DOMAIN finance.offers /\ finance.offers[f].status = "Accepted"
  BY <1>2, <1>3, AdvanceOffered
<1>5. FinanceStands(m, finance)
  BY <1>1 DEF WatchInv, PageStands
<1>. QED BY <1>1, <1>2, <1>4, <1>5 DEF FinanceStands, OfferStands

\* While responses carry the transaction's index, what a page of any age states of
\* money is what happens: the split of a verified milestone whose position it shows is
\* the one settle_milestone pays, and an advance reviewed before the offer expired
\* is the one fund_advance sends (order-detail.tsx, milestone-actions.tsx).
THEOREM OldPagesHold ==
  ASSUME TransactionIndexed = TRUE
  PROVE  WatchSpec => []OldReviewsHold
<1>1. WorkspaceInit => WatchInv
  BY WatchInit
<1>2. WatchInv /\ [WatchNext]_workspaceVars => WatchInv'
  BY WatchStep
<1>3. WatchInv => OldReviewsHold
  BY PreviewsHold, LiveReviewsHold DEF OldReviewsHold
<1>. QED BY <1>1, <1>2, <1>3, PTL DEF WatchSpec

-----------------------------------------------------------------------------
(* The two pages a funder acts from                                         *)

\* The offers of a page whose advance it asks the wallet for, and the request it
\* invites it to answer.
Payable(wallet, milestone, finance, time) ==
  {f \in DOMAIN finance.offers :
     /\ finance.offers[f].funder = wallet /\ finance.offers[f].status = "Accepted"
     /\ milestone.status = "FinanceRequested" /\ live(finance.offers[f].expires_at, time)}
Invited(wallet, order, milestone, finance, time) ==
  /\ canActAsFunder(wallet, order) /\ milestone.status = "FinanceRequested"
  /\ finance.request.status = "Open" /\ live(finance.request.expires_at, time)

LEMMA OfferedToFunders ==
  ASSUME NEW wallet, NEW order, NEW milestone, NEW finance, NEW time, order.status = "Active"
  PROVE  LET actions == milestoneActions(wallet, order, milestone, finance, time) IN
         /\ \A action \in actions : action.kind = "fund-advance" =>
              action.offer \in Payable(wallet, milestone, finance, time)
         /\ \A f \in Payable(wallet, milestone, finance, time) :
              \E action \in actions : action.kind = "fund-advance" /\ action.offer = f
         /\ (\E action \in actions : action.kind = "make-offer") <=>
              Invited(wallet, order, milestone, finance, time)
<1>. DEFINE actions == milestoneActions(wallet, order, milestone, finance, time)
            mine == {f \in DOMAIN finance.offers : finance.offers[f].funder = wallet}
            payable == {f \in mine \cap acceptedOffer(finance) :
                          /\ milestone.status = "FinanceRequested"
                          /\ live(finance.offers[f].expires_at, time)}
            asked == /\ canActAsFunder(wallet, order)
                     /\ milestone.status = "FinanceRequested"
                     /\ finance.request.status = "Open"
                     /\ live(finance.request.expires_at, time)
            open == mine \cap withRowStatus(finance.offers, "Open")
            funding == funderActions(wallet, order, milestone, finance, time)
<1>1. /\ \A kind, condition : \A a \in offered(kind, condition) : a.kind = kind /\ condition
      /\ \A kind, ids : \A a \in offeredEach(kind, ids) : a.kind = kind /\ a.offer \in ids
  BY DEF offered, offeredEach
<1>2. /\ \A kind : \E a \in offered(kind, TRUE) : a.kind = kind
      /\ \A kind, ids : \A f \in ids : \E a \in offeredEach(kind, ids) : a.kind = kind /\ a.offer = f
  <2>1. ASSUME NEW kind PROVE \E a \in offered(kind, TRUE) : a.kind = kind
    <3>1. [kind |-> kind, offer |-> 0] \in offered(kind, TRUE)
      BY DEF offered
    <3>. QED BY <3>1
  <2>2. ASSUME NEW kind, NEW ids, NEW f \in ids
        PROVE  \E a \in offeredEach(kind, ids) : a.kind = kind /\ a.offer = f
    <3>1. [kind |-> kind, offer |-> f] \in offeredEach(kind, ids)
      BY DEF offeredEach
    <3>. QED BY <3>1
  <2>. QED BY <2>1, <2>2
<1>3. ASSUME NEW action \in actions, action.kind \in {"fund-advance", "make-offer"}
      PROVE  action \in funding
  <2>1. action \notin protectActions(wallet, order, milestone)
    BY <1>1, <1>3 DEF protectActions
  <2>2. action \notin supplierFinanceActions(wallet, order, milestone, finance, time)
    BY <1>1, <1>3 DEF supplierFinanceActions
  <2>3. action \notin deliveryActions(wallet, order, milestone, finance)
    BY <1>1, <1>3 DEF deliveryActions
  <2>. QED BY <2>1, <2>2, <2>3 DEF milestoneActions
<1>4. funding \subseteq actions
  BY DEF milestoneActions
<1>5. funding = offered("make-offer", asked) \cup offeredEach("cancel-offer", open)
                \cup offeredEach("fund-advance", payable)
  BY DEF funderActions
<1>6. payable = Payable(wallet, milestone, finance, time)
  BY DEF Payable, acceptedOffer, withRowStatus
<1>7. asked <=> Invited(wallet, order, milestone, finance, time)
  BY DEF Invited
<1>. HIDE DEF actions, payable, asked, open, funding
<1>8. ASSUME NEW action \in actions, action.kind = "fund-advance" PROVE action.offer \in payable
  BY <1>1, <1>3, <1>5, <1>8
<1>9. ASSUME NEW f \in payable
      PROVE  \E action \in actions : action.kind = "fund-advance" /\ action.offer = f
  <2>1. PICK a \in offeredEach("fund-advance", payable) : a.kind = "fund-advance" /\ a.offer = f
    BY <1>2
  <2>. QED BY <1>4, <1>5, <2>1
<1>10. ASSUME NEW action \in actions, action.kind = "make-offer" PROVE asked
  BY <1>1, <1>3, <1>5, <1>10
<1>11. ASSUME asked PROVE \E action \in actions : action.kind = "make-offer"
  <2>1. offered("make-offer", asked) = offered("make-offer", TRUE)
    BY <1>11 DEF offered
  <2>2. PICK a \in offered("make-offer", TRUE) : a.kind = "make-offer"
    BY <1>2
  <2>. QED BY <1>4, <1>5, <2>1, <2>2
<1>. QED BY <1>6, <1>7, <1>8, <1>9, <1>10, <1>11 DEF actions

\* The rows a page is served say what the database's say.
LEMMA RolesServed ==
  ASSUME NEW t, NEW o, OrderFields \cup {"status"} \subseteq DOMAIN t["orders"][o]
  PROVE  \A x \in OrderFields \cup {"status"} : getOrder(t, o)[x] = t["orders"][o][x]
<1>. DEFINE served == {n \in rowsOf(t, "milestones") : t.milestones[n].order_id = o}
            changes == [milestones |-> [m \in served |-> serialiseMilestone(t, m)]]
<1>1. PICK row : row = t["orders"][o]
  OBVIOUS
<1>2. getOrder(t, o) = joined(changes, row)
  BY <1>1 DEF getOrder
<1>3. DOMAIN changes = {"milestones"}
  OBVIOUS
<1>. HIDE DEF changes
<1>4. \A x \in DOMAIN row \ DOMAIN changes : joined(changes, row)[x] = row[x]
  BY ONLY JoinedFacts
<1>. QED BY <1>1, <1>2, <1>3, <1>4 DEF OrderFields

LEMMA StatusServed ==
  ASSUME NEW t, NEW m \in rowsOf(t, "milestones"), "status" \in DOMAIN t["milestones"][m],
         NEW o, o = t["milestones"][m].order_id
  PROVE  getOrder(t, o).milestones[m].status = t["milestones"][m].status
<1>. DEFINE served == {n \in rowsOf(t, "milestones") : t.milestones[n].order_id = o}
            changes == [milestones |-> [n \in served |-> serialiseMilestone(t, n)]]
<1>1. PICK order : order = t["orders"][o]
  OBVIOUS
<1>2. getOrder(t, o) = joined(changes, order)
  BY <1>1 DEF getOrder
<1>3. DOMAIN changes = {"milestones"} /\ m \in served
      /\ changes.milestones = [n \in served |-> serialiseMilestone(t, n)]
  OBVIOUS
<1>. HIDE DEF changes
<1>4. \A x \in DOMAIN changes : joined(changes, order)[x] = changes[x]
  BY ONLY JoinedFacts
<1>5. getOrder(t, o).milestones[m] = serialiseMilestone(t, m)
  BY <1>2, <1>3, <1>4
<1>. HIDE DEF served
<1>6. PICK row : row = t["milestones"][m]
  OBVIOUS
<1>7. PICK full : full = [fullyFunded |-> row.funded_amount = row.amount /\ row.amount > 0]
  OBVIOUS
<1>8. serialiseMilestone(t, m) = joined(full, row) /\ "status" \in DOMAIN row \ DOMAIN full
  BY <1>6, <1>7 DEF serialiseMilestone
<1>9. \A x \in DOMAIN row \ DOMAIN full : joined(full, row)[x] = row[x]
  BY ONLY JoinedFacts
<1>. QED BY <1>5, <1>6, <1>8, <1>9

\* A milestone that may be financed is one of an active order.
LEMMA FinancedOrder ==
  ASSUME ContractInv, NEW m \in MilestoneId, milestones[m].status = "FinanceRequested"
  PROVE  milestones[m].order_id \in OrderId /\ order_of(m).status = "Active"
<1>1. TypeOK /\ Registered /\ UntouchedBefore /\ CompletedWithLastMilestone
  BY DEF ContractInv
<1>2. PICK o : o = milestones[m].order_id
  OBVIOUS
<1>3. o \in OrderId /\ orders[o].status # "Absent" /\ m \in order_milestones[o]
  BY <1>1, <1>2 DEF Registered, order_of
<1>4. orders[o].status \notin {"Created", "Cancelled"}
  BY <1>1, <1>2 DEF UntouchedBefore, order_of
<1>5. orders[o].status # "Completed"
  BY <1>1, <1>3 DEF CompletedWithLastMilestone, Terminal
<1>6. orders[o].status \in OrderStatus
  BY <1>1, <1>3, MilestoneTypes DEF OrderRecord
<1>. QED BY <1>2, <1>3, <1>4, <1>5, <1>6 DEF OrderStatus, order_of

\* An offer's row says accepted of the selected offer exactly, in its words.
LEMMA AcceptedRow ==
  ASSUME ContractInv, NEW t, Mirror(t), NEW f \in OfferId, NEW m \in MilestoneId
  PROVE  /\ (t["offers"][f] # NoRow /\ t["offers"][f].milestone = m /\ t["offers"][f].status = "Accepted")
              <=> (accepted[m].status = "Accepted" /\ accepted[m].id = f)
         /\ accepted[m].status = "Accepted" /\ accepted[m].id = f =>
              /\ t["offers"][f].funder = accepted[m].funder
              /\ t["offers"][f].expires_at = accepted[m].expires_at
<1>1. OffersPlaced(t) /\ TermsMirrored(t) /\ offer_count \in Nat
  BY TypeFacts DEF Mirror, OffersMirrored, ContractInv
<1>2. ASSUME t["offers"][f] # NoRow, t["offers"][f].milestone = m, t["offers"][f].status = "Accepted"
      PROVE  accepted[m].status = "Accepted" /\ accepted[m].id = f
  BY <1>1, <1>2 DEF TermsMirrored
<1>3. ASSUME accepted[m].status = "Accepted", accepted[m].id = f
      PROVE  /\ t["offers"][f] # NoRow /\ t["offers"][f].milestone = m
             /\ t["offers"][f].status = "Accepted"
             /\ \A x \in OfferFields : t["offers"][f][x] = accepted[m][x]
  <2>1. f <= offer_count /\ t["offers"][f].milestone = m /\ t["offers"][f].status = "Accepted"
    BY <1>1, <1>3 DEF OffersPlaced
  <2>2. t["offers"][f] # NoRow
    BY <1>1, <2>1 DEF OffersPlaced, OfferId
  <2>3. \A x \in OfferFields : t["offers"][f][x] = accepted[m][x]
    BY <1>1, <1>3 DEF TermsMirrored
  <2>. QED BY <2>1, <2>2, <2>3
<1>4. {"funder", "expires_at"} \subseteq OfferFields
  BY DEF OfferFields
<1>. QED BY <1>2, <1>3, <1>4

\* What a page just loaded offers a wallet for a milestone.
OfferedNow(wallet, m) ==
  LET o == tables.milestones[m].order_id IN
  milestoneActions(wallet, getOrder(tables, o), getOrder(tables, o).milestones[m],
                   getMilestoneFinance(tables, m), now)
\* The offers selected on a milestone that a wallet has to pay now.
Selected(wallet, m) ==
  {f \in OfferId : /\ accepted[m].status = "Accepted" /\ accepted[m].id = f
                   /\ accepted[m].funder = wallet /\ is_live(accepted[m].expires_at)}
\* A milestone whose request a wallet may answer now.
Answerable(wallet, m) ==
  /\ requests[m].status = "Open" /\ is_live(requests[m].expires_at)
  /\ orderRolesFor(wallet, order_of(m)) = {}

LEMMA RolesAgree ==
  ASSUME NEW wallet, NEW order, NEW other,
         \A x \in OrderFields \cup {"status"} : order[x] = other[x]
  PROVE  orderRolesFor(wallet, order) = orderRolesFor(wallet, other)
BY DEF orderRolesFor, OrderFields

\* Of an open milestone, what the page just loaded shows is what the contract holds.
LEMMA PageLoaded ==
  ASSUME ContractInv, Mirror(tables), NEW m \in MilestoneId, milestones[m].status # "Absent",
         NEW order, order = getOrder(tables, tables.milestones[m].order_id),
         NEW finance, finance = getMilestoneFinance(tables, m)
  PROVE  /\ m \in rowsOf(tables, "milestones")
         /\ order.milestones[m].status = milestones[m].status
         /\ \A x \in OrderFields \cup {"status"} : order[x] = order_of(m)[x]
         /\ finance.offers = rowsAbout(tables, "offers", m) /\ finance.request = tables["requests"][m]
<1>1. /\ m \in rowsOf(tables, "milestones")
      /\ Says(tables["milestones"][m], milestones[m], MilestoneFields)
  <2>1. tables["milestones"][m] # NoRow
    BY RowsThere
  <2>2. Says(tables["milestones"][m], milestones[m], MilestoneFields)
    BY DEF Mirror, Same
  <2>. QED BY <2>1, <2>2, TableNames DEF rowsOf
<1>2. PICK o : o = tables["milestones"][m].order_id
  OBVIOUS
<1>3. /\ o = milestones[m].order_id /\ "status" \in DOMAIN tables["milestones"][m]
      /\ tables["milestones"][m].status = milestones[m].status
  BY <1>1, <1>2 DEF Says, MilestoneFields
<1>4. o \in OrderId /\ orders[o].status # "Absent"
  BY <1>3 DEF ContractInv, Registered, order_of
<1>5. Says(tables["orders"][o], orders[o], OrderFields)
  BY <1>4 DEF Mirror, Same
<1>6. order = getOrder(tables, o)
  BY <1>2
<1>7. order.milestones[m].status = milestones[m].status
  <2>1. getOrder(tables, o).milestones[m].status = tables["milestones"][m].status
    BY ONLY <1>1, <1>2, <1>3, StatusServed
  <2>. QED BY <1>3, <1>6, <2>1
<1>8. \A x \in OrderFields \cup {"status"} : order[x] = orders[o][x]
  BY <1>5, <1>6, RolesServed DEF Says
<1>9. /\ finance.offers = rowsAbout(tables, "offers", m)
      /\ finance.request = tables["requests"][m]
  BY DEF getMilestoneFinance
<1>. QED BY <1>1, <1>3, <1>7, <1>8, <1>9 DEF order_of

\* The order page asks for exactly the advances selected, and invites to exactly the
\* open requests of orders the wallet has no part in.
LEMMA OrderPageAsks ==
  ASSUME ContractInv, Mirror(tables), NEW m \in MilestoneId, milestones[m].status # "Absent",
         NEW wallet
  PROVE  /\ \A f : f \in Selected(wallet, m) <=>
                   \E action \in OfferedNow(wallet, m) :
                     action.kind = "fund-advance" /\ action.offer = f
         /\ Answerable(wallet, m) <=>
              \E action \in OfferedNow(wallet, m) : action.kind = "make-offer"
<1>1. PICK order : order = getOrder(tables, tables.milestones[m].order_id)
  OBVIOUS
<1>2. PICK finance : finance = getMilestoneFinance(tables, m)
  OBVIOUS
<1>3. PICK milestone : milestone = order.milestones[m]
  OBVIOUS
<1>4. OfferedNow(wallet, m) = milestoneActions(wallet, order, milestone, finance, now)
  BY <1>1, <1>2, <1>3 DEF OfferedNow
<1>5. /\ milestone.status = milestones[m].status
      /\ \A x \in OrderFields \cup {"status"} : order[x] = order_of(m)[x]
      /\ finance.offers = rowsAbout(tables, "offers", m) /\ finance.request = tables["requests"][m]
  BY <1>1, <1>2, <1>3, PageLoaded
<1>6. order.status = order_of(m).status /\ FinancingCoherent
  BY <1>5 DEF ContractInv, FinancingSound
<1>7. \A f : f \in Payable(wallet, milestone, finance, now) <=> f \in Selected(wallet, m)
  <2>1. ASSUME NEW f \in Payable(wallet, milestone, finance, now) PROVE f \in Selected(wallet, m)
    <3>1. /\ f \in OfferId /\ tables["offers"][f] # NoRow /\ tables["offers"][f].milestone = m
          /\ finance.offers[f] = tables["offers"][f]
      BY <1>5, TableNames DEF Payable, rowsAbout, rowsOf
    <3>2. /\ tables["offers"][f].status = "Accepted" /\ tables["offers"][f].funder = wallet
          /\ live(tables["offers"][f].expires_at, now)
      BY <3>1 DEF Payable
    <3>3. /\ accepted[m].status = "Accepted" /\ accepted[m].id = f
          /\ tables["offers"][f].funder = accepted[m].funder
          /\ tables["offers"][f].expires_at = accepted[m].expires_at
      BY <3>1, <3>2, AcceptedRow
    <3>. QED BY <3>1, <3>2, <3>3 DEF Selected, live, is_live
  <2>2. ASSUME NEW f \in Selected(wallet, m) PROVE f \in Payable(wallet, milestone, finance, now)
    <3>1. /\ f \in OfferId /\ accepted[m].status = "Accepted" /\ accepted[m].id = f
          /\ accepted[m].funder = wallet /\ is_live(accepted[m].expires_at)
      BY DEF Selected
    <3>2. /\ tables["offers"][f] # NoRow /\ tables["offers"][f].milestone = m
          /\ tables["offers"][f].status = "Accepted"
          /\ tables["offers"][f].funder = accepted[m].funder
          /\ tables["offers"][f].expires_at = accepted[m].expires_at
      BY <3>1, AcceptedRow
    <3>3. f \in DOMAIN finance.offers /\ finance.offers[f] = tables["offers"][f]
      BY <1>5, <3>1, <3>2, TableNames DEF rowsAbout, rowsOf
    <3>4. milestone.status = "FinanceRequested"
      BY <1>5, <1>6, <3>1 DEF FinancingCoherent
    <3>. QED BY <3>1, <3>2, <3>3, <3>4 DEF Payable, live, is_live
  <2>. QED BY <2>1, <2>2
<1>8. Invited(wallet, order, milestone, finance, now) <=> Answerable(wallet, m)
  <2>1. orderRolesFor(wallet, order) = orderRolesFor(wallet, order_of(m))
    BY <1>5, RolesAgree
  <2>2. Same(tables["requests"], requests, RequestFields, MilestoneId)
    BY DEF Mirror
  <2>3. ASSUME requests[m].status = "Open"
        PROVE  /\ finance.request.status = "Open"
               /\ finance.request.expires_at = requests[m].expires_at
               /\ milestone.status = "FinanceRequested"
    <3>1. Says(tables["requests"][m], requests[m], RequestFields)
      BY <2>2, <2>3 DEF Same
    <3>. QED BY <1>5, <1>6, <2>3, <3>1 DEF Says, RequestFields, FinancingCoherent
  <2>4. ASSUME finance.request.status = "Open" PROVE requests[m].status = "Open"
    <3>1. requests[m].status # "Absent"
      BY <1>5, <2>2, <2>4 DEF Same, NoRow
    <3>2. Says(tables["requests"][m], requests[m], RequestFields)
      BY <2>2, <3>1 DEF Same
    <3>. QED BY <1>5, <2>4, <3>2 DEF Says
  <2>. QED BY <2>1, <2>3, <2>4 DEF Invited, Answerable, canActAsFunder, live, is_live
<1>9. CASE order.status = "Active"
  <2>1. PICK actions : actions = milestoneActions(wallet, order, milestone, finance, now)
    OBVIOUS
  <2>2. /\ \A action \in actions : action.kind = "fund-advance" =>
             action.offer \in Payable(wallet, milestone, finance, now)
        /\ \A f \in Payable(wallet, milestone, finance, now) :
             \E action \in actions : action.kind = "fund-advance" /\ action.offer = f
        /\ (\E action \in actions : action.kind = "make-offer") <=>
             Invited(wallet, order, milestone, finance, now)
    BY <1>9, <2>1, OfferedToFunders
  <2>3. OfferedNow(wallet, m) = actions
    BY <1>4, <2>1
  <2>. QED BY <1>7, <1>8, <2>2, <2>3
<1>10. CASE order.status # "Active"
  <2>1. milestones[m].status # "FinanceRequested"
    BY <1>6, <1>10, FinancedOrder
  <2>2. accepted[m].status # "Accepted" /\ requests[m].status # "Open"
    BY <1>6, <2>1 DEF FinancingCoherent
  <2>3. OfferedNow(wallet, m) = {}
    BY <1>4, <1>10 DEF milestoneActions
  <2>. QED BY <2>2, <2>3 DEF Selected, Answerable
<1>. QED BY <1>9, <1>10

\* So does the funding page.
LEMMA FundingPageAsks ==
  ASSUME ContractInv, Mirror(tables), NEW wallet
  PROVE  /\ \A f : f \in awaitingAdvance(tables, wallet) <=>
                   \E m \in MilestoneId : f \in Selected(wallet, m)
         /\ \A m : m \in opportunities(tables, wallet) <=>
                   m \in MilestoneId /\ Answerable(wallet, m)
<1>1. FinancingCoherent /\ TermsMirrored(tables)
  BY DEF ContractInv, FinancingSound, Mirror, OffersMirrored
<1>2. ASSUME NEW m \in MilestoneId, milestones[m].status = "FinanceRequested"
      PROVE  tables["milestones"][m].status = "FinanceRequested"
  BY <1>2 DEF Mirror, Same, Says
<1>3. ASSUME NEW f \in awaitingAdvance(tables, wallet)
      PROVE  \E m \in MilestoneId : f \in Selected(wallet, m)
  <2>1. /\ f \in OfferId /\ tables["offers"][f] # NoRow /\ tables["offers"][f].funder = wallet
        /\ tables["offers"][f].status = "Accepted" /\ live(tables["offers"][f].expires_at, now)
    BY TableNames DEF awaitingAdvance, fundingOffers, rowsOf
  <2>2. PICK m : m = tables["offers"][f].milestone
    OBVIOUS
  <2>3. m \in MilestoneId
    BY <1>1, <2>1, <2>2 DEF TermsMirrored
  <2>4. /\ accepted[m].status = "Accepted" /\ accepted[m].id = f
        /\ tables["offers"][f].funder = accepted[m].funder
        /\ tables["offers"][f].expires_at = accepted[m].expires_at
    BY <2>1, <2>2, <2>3, AcceptedRow
  <2>5. f \in Selected(wallet, m)
    BY <2>1, <2>4 DEF Selected, live, is_live
  <2>. QED BY <2>3, <2>5
<1>4. ASSUME NEW m \in MilestoneId, NEW f \in Selected(wallet, m)
      PROVE  f \in awaitingAdvance(tables, wallet)
  <2>1. /\ f \in OfferId /\ accepted[m].status = "Accepted" /\ accepted[m].id = f
        /\ accepted[m].funder = wallet /\ is_live(accepted[m].expires_at)
    BY DEF Selected
  <2>2. /\ tables["offers"][f] # NoRow /\ tables["offers"][f].milestone = m
        /\ tables["offers"][f].status = "Accepted"
        /\ tables["offers"][f].funder = accepted[m].funder
        /\ tables["offers"][f].expires_at = accepted[m].expires_at
    BY <2>1, AcceptedRow
  <2>3. tables["milestones"][m].status = "FinanceRequested"
    BY <1>1, <1>2, <2>1 DEF FinancingCoherent
  <2>. QED BY <2>1, <2>2, <2>3, TableNames DEF awaitingAdvance, fundingOffers, rowsOf, live, is_live
<1>5. ASSUME NEW m \in MilestoneId, tables["requests"][m].status = "Open" \/ requests[m].status = "Open"
      PROVE  /\ tables["requests"][m] # NoRow /\ tables["requests"][m].status = "Open"
             /\ requests[m].status = "Open"
             /\ tables["requests"][m].expires_at = requests[m].expires_at
             /\ orderRolesFor(wallet, getOrder(tables, tables.milestones[m].order_id)) =
                  orderRolesFor(wallet, order_of(m))
  <2>1. Same(tables["requests"], requests, RequestFields, MilestoneId)
    BY DEF Mirror
  <2>2. requests[m].status # "Absent"
    BY <1>5, <2>1 DEF Same, NoRow
  <2>3. Says(tables["requests"][m], requests[m], RequestFields)
    BY <2>1, <2>2 DEF Same
  <2>4. /\ tables["requests"][m].status = "Open" /\ requests[m].status = "Open"
        /\ tables["requests"][m].expires_at = requests[m].expires_at
    BY <1>5, <2>3 DEF Says, RequestFields
  <2>5. milestones[m].status # "Absent"
    BY <1>1, <2>4 DEF FinancingCoherent
  <2>6. PICK order : order = getOrder(tables, tables.milestones[m].order_id)
    OBVIOUS
  <2>7. PICK finance : finance = getMilestoneFinance(tables, m)
    OBVIOUS
  <2>8. \A x \in OrderFields \cup {"status"} : order[x] = order_of(m)[x]
    BY <2>5, <2>6, <2>7, PageLoaded
  <2>. QED BY <2>4, <2>6, <2>8, RolesAgree DEF NoRow
<1>6. ASSUME NEW m \in opportunities(tables, wallet) PROVE m \in MilestoneId /\ Answerable(wallet, m)
  <2>1. /\ m \in MilestoneId /\ tables["requests"][m].status = "Open"
        /\ live(tables["requests"][m].expires_at, now)
        /\ orderRolesFor(wallet, getOrder(tables, tables.milestones[m].order_id)) = {}
    BY TableNames DEF opportunities, fundingOpportunities, rowsOf, canActAsFunder
  <2>. QED BY <1>5, <2>1 DEF Answerable, live, is_live
<1>7. ASSUME NEW m \in MilestoneId, Answerable(wallet, m) PROVE m \in opportunities(tables, wallet)
  <2>1. requests[m].status = "Open" /\ is_live(requests[m].expires_at)
        /\ orderRolesFor(wallet, order_of(m)) = {}
    BY <1>7 DEF Answerable
  <2>. QED BY <1>5, <2>1, TableNames DEF opportunities, fundingOpportunities, rowsOf, canActAsFunder,
            live, is_live
<1>. QED BY <1>3, <1>4, <1>6, <1>7

LEMMA PagesAgree == ASSUME ReadInv PROVE FundingPagesAgree
<1>. SUFFICES ASSUME indexed, NEW wallet \in Account
     PROVE  /\ awaitingAdvance(tables, wallet) =
                 {action.offer : action \in {a \in UNION {OfferedNow(wallet, m) :
                                                            m \in rowsOf(tables, "milestones")} :
                                               a.kind = "fund-advance"}}
            /\ opportunities(tables, wallet) =
                 {m \in rowsOf(tables, "milestones") :
                    \E action \in OfferedNow(wallet, m) : action.kind = "make-offer"}
            /\ awaitingAdvance(tables, wallet) =
                 {accepted[m].id : m \in {n \in MilestoneId :
                    /\ accepted[n].status = "Accepted" /\ accepted[n].funder = wallet
                    /\ is_live(accepted[n].expires_at)}}
  BY DEF FundingPagesAgree, OfferedNow
<1>1. ContractInv /\ Mirror(tables)
  BY DrainedMirror DEF indexed, drained, ReadInv
<1>2. FinancingCoherent /\ accepted \in [MilestoneId -> AcceptedRecord] /\ OffersPlaced(tables)
  BY <1>1, FinanceTypes DEF ContractInv, FinancingSound, Mirror, OffersMirrored
<1>3. \A m \in MilestoneId : m \in rowsOf(tables, "milestones") <=> milestones[m].status # "Absent"
  BY <1>1, RowsThere, TableNames DEF rowsOf
<1>4. rowsOf(tables, "milestones") \subseteq MilestoneId
  BY TableNames DEF rowsOf
<1>5. ASSUME NEW m \in MilestoneId, accepted[m].status = "Accepted" \/ requests[m].status = "Open"
      PROVE  m \in rowsOf(tables, "milestones")
  BY <1>2, <1>3, <1>5 DEF FinancingCoherent
<1>6. \A m \in rowsOf(tables, "milestones") :
        /\ \A f : f \in Selected(wallet, m) <=>
                  \E action \in OfferedNow(wallet, m) :
                    action.kind = "fund-advance" /\ action.offer = f
        /\ Answerable(wallet, m) <=>
             \E action \in OfferedNow(wallet, m) : action.kind = "make-offer"
  BY <1>1, <1>3, <1>4, OrderPageAsks
<1>7. /\ \A f : f \in awaitingAdvance(tables, wallet) <=>
                \E m \in MilestoneId : f \in Selected(wallet, m)
      /\ \A m : m \in opportunities(tables, wallet) <=>
                m \in MilestoneId /\ Answerable(wallet, m)
  BY <1>1, FundingPageAsks
<1>8. \A f : (\E m \in MilestoneId : f \in Selected(wallet, m)) <=>
             (\E m \in rowsOf(tables, "milestones") : f \in Selected(wallet, m))
  BY <1>4, <1>5 DEF Selected
<1>9. awaitingAdvance(tables, wallet) =
        {action.offer : action \in {a \in UNION {OfferedNow(wallet, m) :
                                                   m \in rowsOf(tables, "milestones")} :
                                      a.kind = "fund-advance"}}
  <2>1. \A f : f \in awaitingAdvance(tables, wallet) <=>
               \E m \in rowsOf(tables, "milestones") : \E action \in OfferedNow(wallet, m) :
                 action.kind = "fund-advance" /\ action.offer = f
    BY <1>6, <1>7, <1>8
  <2>. QED BY <2>1
<1>10. opportunities(tables, wallet) =
         {m \in rowsOf(tables, "milestones") :
            \E action \in OfferedNow(wallet, m) : action.kind = "make-offer"}
  <2>1. \A m \in MilestoneId : Answerable(wallet, m) => m \in rowsOf(tables, "milestones")
    BY <1>5 DEF Answerable
  <2>. QED BY <1>4, <1>6, <1>7, <2>1
<1>11. awaitingAdvance(tables, wallet) =
         {accepted[m].id : m \in {n \in MilestoneId :
            /\ accepted[n].status = "Accepted" /\ accepted[n].funder = wallet
            /\ is_live(accepted[n].expires_at)}}
  <2>1. \A m \in MilestoneId : accepted[m].status = "Accepted" => accepted[m].id \in OfferId
    BY <1>2 DEF OffersPlaced
  <2>2. \A f : f \in awaitingAdvance(tables, wallet) <=>
               \E m \in MilestoneId :
                 /\ accepted[m].status = "Accepted" /\ accepted[m].funder = wallet
                 /\ is_live(accepted[m].expires_at) /\ accepted[m].id = f
    BY <1>7, <2>1 DEF Selected
  <2>. QED BY <2>2
<1>. QED BY <1>9, <1>10, <1>11

\* While responses carry the transaction's index, the two pages a funder acts from
\* agree once the tables have caught up: both ask it for the advances of exactly the
\* live offers of its own that suppliers selected, and invite it to the same open
\* requests (funding-view.tsx, actions.ts); nobody who was chosen is forgotten.
THEOREM FundingPagesTogether ==
  ASSUME TransactionIndexed = TRUE
  PROVE  WatchSpec => []FundingPagesAgree
<1>1. WorkspaceInit => WatchInv
  BY WatchInit
<1>2. WatchInv /\ [WatchNext]_workspaceVars => WatchInv'
  BY WatchStep
<1>3. WatchInv => FundingPagesAgree
  BY PagesAgree DEF WatchInv
<1>. QED BY <1>1, <1>2, <1>3, PTL DEF WatchSpec

-----------------------------------------------------------------------------
(* A trade as it is told: what the events of a milestone say of its end     *)

\* An event of this name tells of the milestone.
Speaks(log, m, name) ==
  \E i \in DOMAIN log :
    "milestone" \in DOMAIN log[i] /\ log[i].milestone = m /\ log[i].name = name
Heard(m, name) == name \in happened[m] \/ Speaks(published, m, name)

\* A milestone's end, and nothing else, is published as its end.
EndingNames == {"milestone_settled", "milestone_refunded"}
EndsHeard ==
  \A m \in MilestoneId :
    /\ Heard(m, "milestone_settled") <=> milestones[m].status = "Settled"
    /\ Heard(m, "milestone_refunded") <=> milestones[m].status = "Refunded"

\* An event that tells of no milestone's end.
Silent(e) == "name" \in DOMAIN e /\ e.name \notin EndingNames
\* An event of the milestone.
Names(e, m, name) ==
  {"name", "milestone"} \subseteq DOMAIN e /\ e.milestone = m /\ e.name = name

LEMMA EventFields ==
  ASSUME NEW name, NEW nth, NEW fields
  PROVE  LET e == event(name, nth, fields) IN
         /\ "name" \in DOMAIN e /\ e.name = name
         /\ "milestone" \in DOMAIN fields =>
              "milestone" \in DOMAIN e /\ e.milestone = fields.milestone
<1>. DEFINE head == [name |-> name, index |-> nth]
            e == joined(head, fields)
<1>1. DOMAIN head = {"name", "index"} /\ head.name = name
  OBVIOUS
<1>. HIDE DEF head
<1>2. /\ DOMAIN e = DOMAIN head \cup DOMAIN fields
      /\ \A x \in DOMAIN head : e[x] = head[x]
      /\ \A x \in DOMAIN fields \ DOMAIN head : e[x] = fields[x]
  BY ONLY JoinedFacts
<1>3. e = event(name, nth, fields)
  BY DEF event, head
<1>. HIDE DEF e
<1>. QED BY <1>1, <1>2, <1>3

LEMMA StampKeeps ==
  ASSUME NEW e, NEW k
  PROVE  /\ Silent(e) => Silent(stamped(e, k))
         /\ \A m, name : Names(e, m, name) => Names(stamped(e, k), m, name)
<1>. DEFINE s == stamp(k)
            d == joined(e, s)
<1>1. DOMAIN d = DOMAIN e \cup DOMAIN s /\ \A x \in DOMAIN e : d[x] = e[x]
  BY ONLY JoinedFacts
<1>2. d = stamped(e, k)
  BY DEF stamped
<1>. HIDE DEF d, s
<1>. QED BY <1>1, <1>2 DEF Silent, Names

LEMMA SilentEvent ==
  ASSUME NEW name, name \notin EndingNames, NEW nth, NEW fields
  PROVE  Silent(event(name, nth, fields))
BY EventFields DEF Silent

\* A call that ends no milestone and publishes nothing of an end.
LEMMA QuietCall ==
  ASSUME EndsHeard, published = <<>>, UNCHANGED happened, NoneEnds,
         \A i \in DOMAIN published' : Silent(published'[i])
  PROVE  EndsHeard'
<1>1. \A m \in MilestoneId : \A name \in EndingNames :
        ~Speaks(published, m, name) /\ ~Speaks(published', m, name)
  BY DEF Speaks, Silent
<1>2. \A m \in MilestoneId : \A name \in EndingNames :
        Heard(m, name)' <=> Heard(m, name)
  BY <1>1 DEF Heard
<1>. QED BY <1>2 DEF EndsHeard, EndingNames, NoneEnds

LEMMA QuietOne ==
  ASSUME EndsHeard, published = <<>>, UNCHANGED happened, NoneEnds, NEW u, Follows(u),
         NEW e, Silent(e), publish(<<e>>)
  PROVE  EndsHeard'
<1>1. published' = Append(<<>>, stamped(e, 1))
  BY PublishedSeq
<1>2. Silent(stamped(e, 1))
  BY StampKeeps
<1>3. \A i \in DOMAIN published' : published'[i] = stamped(e, 1)
  BY <1>1
<1>. QED BY <1>2, <1>3, QuietCall

\* A call that ends one milestone and says so first.
LEMMA EndingCall ==
  ASSUME EndsHeard, published = <<>>, UNCHANGED happened, NEW m \in MilestoneId,
         NEW status \in Terminal, milestones[m].status \notin Terminal,
         milestones'[m].status = status,
         \A k \in MilestoneId : k # m => milestones'[k] = milestones[k],
         1 \in DOMAIN published',
         Names(published'[1], m,
               IF status = "Settled" THEN "milestone_settled" ELSE "milestone_refunded"),
         \A i \in DOMAIN published' : i # 1 => Silent(published'[i])
  PROVE  EndsHeard'
<1>1. /\ \A k \in MilestoneId : \A name : ~Speaks(published, k, name)
      /\ \A k \in MilestoneId : k # m => \A name \in EndingNames : ~Speaks(published', k, name)
  BY DEF Speaks, Silent, Names
<1>2. /\ Speaks(published', m, "milestone_settled") <=> status = "Settled"
      /\ Speaks(published', m, "milestone_refunded") <=> status = "Refunded"
  BY DEF Speaks, Silent, Names, Terminal, EndingNames
<1>3. \A k \in MilestoneId : k # m =>
        /\ Heard(k, "milestone_settled")' <=> milestones'[k].status = "Settled"
        /\ Heard(k, "milestone_refunded")' <=> milestones'[k].status = "Refunded"
  BY <1>1 DEF Heard, EndsHeard, EndingNames
<1>4. /\ Heard(m, "milestone_settled")' <=> milestones'[m].status = "Settled"
      /\ Heard(m, "milestone_refunded")' <=> milestones'[m].status = "Refunded"
  BY <1>1, <1>2 DEF Heard, EndsHeard, Terminal
<1>. QED BY <1>3, <1>4 DEF EndsHeard

\* No call but a settlement and a refund ends a milestone.
LEMMA WorkEndsNone ==
  ASSUME ContractInv, [Next]_vars
  PROVE  /\ \A m \in MilestoneId : Works(m) => NoneEnds
         /\ Orders \/ Opens \/ Aside => NoneEnds
<1>1. ASSUME NEW m \in MilestoneId, Works(m) PROVE NoneEnds
  BY <1>1 DEF Works, Touches, NoneEnds, Terminal
<1>2. ASSUME Orders \/ Aside PROVE NoneEnds
  <2>1. milestones' = milestones
    BY <1>2 DEF Orders, Aside, create_order, accept_order, cancel_order
  <2>. QED BY <2>1 DEF NoneEnds
<1>3. ASSUME Opens PROVE NoneEnds
  <2>1. PICK o \in OrderId, amount \in MilestoneAmounts :
          /\ create_milestone(o, amount)
          /\ milestone_count + 1 \in MilestoneId
          /\ milestones[milestone_count + 1].status = "Absent"
    BY <1>3, OpeningFresh DEF ContractInv
  <2>2. milestones \in [MilestoneId -> MilestoneRecord]
    BY DEF ContractInv, TypeOK
  <2>n. PICK n \in MilestoneId : n = milestone_count + 1
    BY <2>1
  <2>3. /\ milestones'[n].status = "Unfunded"
        /\ \A k \in MilestoneId : k # n => milestones'[k] = milestones[k]
    BY <2>1, <2>2, <2>n DEF create_milestone
  <2>. QED BY <2>1, <2>n, <2>3 DEF NoneEnds, Terminal
<1>. QED BY <1>1, <1>2, <1>3

LEMMA HeardOrders ==
  ASSUME ContractInv, NEW u, Follows(u), EndsHeard, published = <<>>, UNCHANGED happened,
         OrderCalls
  PROVE  EndsHeard'
<1>1. ASSUME NEW roles \in Proposals, invoke_create_order(roles) PROVE EndsHeard'
  <2>1. Silent(OrderCreated(order_count + 1, roles))
    BY SilentEvent DEF OrderCreated, EndingNames
  <2>2. NoneEnds
    BY <1>1, WorkEndsNone DEF invoke_create_order, Next, Orders
  <2>. QED BY <1>1, <2>1, <2>2, QuietOne DEF invoke_create_order
<1>2. ASSUME NEW o \in OrderId, NEW amount \in MilestoneAmounts, invoke_create_milestone(o, amount)
      PROVE  EndsHeard'
  <2>1. Silent(MilestoneCreated(o, milestone_count + 1, amount))
    BY SilentEvent DEF MilestoneCreated, EndingNames
  <2>2. NoneEnds
    BY <1>2, WorkEndsNone DEF invoke_create_milestone, Next, Opens
  <2>. QED BY <1>2, <2>1, <2>2, QuietOne DEF invoke_create_milestone
<1>3. ASSUME NEW o \in OrderId, invoke_accept_order(o) \/ invoke_cancel_order(o) PROVE EndsHeard'
  <2>1. Silent(OrderMoved("order_accepted", o, 0)) /\ Silent(OrderMoved("order_cancelled", o, 0))
    BY SilentEvent DEF OrderMoved, EndingNames
  <2>2. NoneEnds
    BY <1>3, WorkEndsNone DEF invoke_accept_order, invoke_cancel_order, Next, Orders
  <2>. QED BY <1>3, <2>1, <2>2, QuietOne DEF invoke_accept_order, invoke_cancel_order
<1>. QED BY <1>1, <1>2, <1>3 DEF OrderCalls

LEMMA HeardEscrow ==
  ASSUME ContractInv, NEW u, Follows(u), EndsHeard, published = <<>>, UNCHANGED happened,
         EscrowCalls
  PROVE  EndsHeard'
<1>0. TypeOK
  BY DEF ContractInv
<1>1. ASSUME NEW m \in MilestoneId, NEW amount \in Payments, invoke_fund_milestone(m, amount)
      PROVE  EndsHeard'
  <2>1. Silent(MilestoneFunded(m, amount))
    BY SilentEvent DEF MilestoneFunded, EndingNames
  <2>2. Works(m) /\ Next
    BY <1>0, <1>1, Working, PartiesAssumption DEF invoke_fund_milestone, Next
  <2>. QED BY <1>1, <2>1, <2>2, WorkEndsNone, QuietOne DEF invoke_fund_milestone
<1>2. ASSUME NEW m \in MilestoneId, invoke_cancel_partial_funding(m) PROVE EndsHeard'
  <2>1. Silent(PartialFundingCancelled(m))
    BY SilentEvent DEF PartialFundingCancelled, EndingNames
  <2>2. Works(m) /\ Next
    BY <1>0, <1>2, Working DEF invoke_cancel_partial_funding, Next
  <2>. QED BY <1>2, <2>1, <2>2, WorkEndsNone, QuietOne DEF invoke_cancel_partial_funding
<1>. QED BY <1>1, <1>2 DEF EscrowCalls

LEMMA HeardFinancing ==
  ASSUME ContractInv, NEW u, Follows(u), EndsHeard, published = <<>>, UNCHANGED happened,
         FinancingCalls
  PROVE  EndsHeard'
<1>0. TypeOK
  BY DEF ContractInv
<1>1. ASSUME NEW m \in MilestoneId, NEW principal \in Payments, NEW expires_at \in Expiries,
             invoke_request_finance(m, principal, expires_at)
      PROVE  EndsHeard'
  <2>1. Silent(FinanceRequested(m, principal, expires_at))
    BY SilentEvent DEF FinanceRequested, EndingNames
  <2>2. Works(m) /\ Next
    BY <1>0, <1>1, Working DEF invoke_request_finance, Next
  <2>. QED BY <1>1, <2>1, <2>2, WorkEndsNone, QuietOne DEF invoke_request_finance
<1>2. ASSUME NEW m \in MilestoneId, invoke_cancel_finance_request(m) PROVE EndsHeard'
  <2>1. Silent(FinanceRequestCancelled(m))
    BY SilentEvent DEF FinanceRequestCancelled, EndingNames
  <2>2. Works(m) /\ Next
    BY <1>0, <1>2, Working DEF invoke_cancel_finance_request, Next
  <2>. QED BY <1>2, <2>1, <2>2, WorkEndsNone, QuietOne DEF invoke_cancel_finance_request
<1>3. ASSUME NEW m \in MilestoneId, NEW funder \in Account, NEW principal \in Payments,
             NEW repayment \in Payments, NEW expires_at \in Expiries,
             invoke_make_offer(m, funder, principal, repayment, expires_at)
      PROVE  EndsHeard'
  <2>1. Silent(FundingOfferCreated(offer_count + 1, m, funder, principal, repayment, expires_at))
    BY SilentEvent DEF FundingOfferCreated, EndingNames
  <2>2. Aside /\ Next
    BY <1>3, Besides DEF invoke_make_offer, Next
  <2>. QED BY <1>3, <2>1, <2>2, WorkEndsNone, QuietOne DEF invoke_make_offer
<1>4. ASSUME NEW m \in MilestoneId, invoke_fund_advance(m) PROVE EndsHeard'
  <2>1. Silent(AdvanceFunded(m))
    BY SilentEvent DEF AdvanceFunded, EndingNames
  <2>2. Works(m) /\ Next
    BY <1>0, <1>4, Working DEF invoke_fund_advance, Next
  <2>. QED BY <1>4, <2>1, <2>2, WorkEndsNone, QuietOne DEF invoke_fund_advance
<1>5. ASSUME NEW m \in MilestoneId, invoke_release_expired_acceptance(m) PROVE EndsHeard'
  <2>1. Silent(AcceptanceReleased(m))
    BY SilentEvent DEF AcceptanceReleased, EndingNames
  <2>2. Works(m) /\ Next
    BY <1>0, <1>5, Working DEF invoke_release_expired_acceptance, Next
  <2>. QED BY <1>5, <2>1, <2>2, WorkEndsNone, QuietOne DEF invoke_release_expired_acceptance
<1>6. ASSUME NEW f \in OfferId, invoke_cancel_offer(f) \/ invoke_accept_offer(f) PROVE EndsHeard'
  <2>1. Silent(OfferMoved("funding_offer_cancelled", f)) /\ Silent(OfferMoved("offer_accepted", f))
    BY SilentEvent DEF OfferMoved, EndingNames
  <2>2. Aside /\ Next
    BY <1>6, Besides DEF invoke_cancel_offer, invoke_accept_offer, Next
  <2>. QED BY <1>6, <2>1, <2>2, WorkEndsNone, QuietOne DEF invoke_cancel_offer, invoke_accept_offer
<1>. QED BY <1>1, <1>2, <1>3, <1>4, <1>5, <1>6 DEF FinancingCalls

\* What follows the first event of a call that ends a milestone is silent.
LEMMA SilentCompletion ==
  ASSUME NEW m, NEW nth
  PROVE  \/ Completion(m, nth) = <<>>
         \/ \E e : Silent(e) /\ Completion(m, nth) = <<e>>
<1>1. Silent(OrderMoved("order_completed", milestones[m].order_id, nth))
  BY SilentEvent DEF OrderMoved, EndingNames
<1>. QED BY <1>1 DEF Completion

LEMMA HeardSettle ==
  ASSUME ContractInv, NEW u, Follows(u), EndsHeard, published = <<>>, UNCHANGED happened,
         NEW m \in MilestoneId, NEW caller \in Account, invoke_settle_milestone(m, caller)
  PROVE  EndsHeard'
<1>k. PICK k : k = Transfers(m)
  OBVIOUS
<1>a. PICK a : a = MilestoneSettled(m, k)
  OBVIOUS
<1>1. settle_milestone(m, caller) /\ publish(<<a>> \o Completion(m, k + 1))
  BY <1>a, <1>k DEF invoke_settle_milestone
<1>2. Names(a, m, "milestone_settled")
  <2>. DEFINE head == [milestone |-> m, order |-> milestones[m].order_id,
                       protected_amount |-> milestones[m].funded_amount]
              sums == compute(m)
              fields == joined(head, sums)
  <2>1. a = event("milestone_settled", k, fields)
    BY <1>a DEF MilestoneSettled
  <2>2. "milestone" \in DOMAIN head /\ head.milestone = m
    OBVIOUS
  <2>. HIDE DEF head, sums
  <2>3. "milestone" \in DOMAIN fields /\ fields.milestone = m
    BY <2>2, JoinedFacts
  <2>. HIDE DEF fields
  <2>. QED BY <2>1, <2>3, EventFields DEF Names
<1>3. /\ milestones[m].status \notin Terminal /\ milestones'[m].status = "Settled"
      /\ \A j \in MilestoneId : j # m => milestones'[j] = milestones[j]
  <2>1. milestones \in [MilestoneId -> MilestoneRecord]
    BY DEF ContractInv, TypeOK
  <2>. QED BY <1>1, <2>1 DEF settle_milestone, in_active_order, Terminal, MilestoneRecord
<1>4. /\ 1 \in DOMAIN published' /\ published'[1] = stamped(a, 1)
      /\ \A i \in DOMAIN published' : i # 1 => Silent(published'[i])
  <2>1. CASE Completion(m, k + 1) = <<>>
    <3>1. publish(<<a>>)
      BY <1>1, <2>1, OneThenMore
    <3>2. published' = Append(<<>>, stamped(a, 1))
      BY <3>1, PublishedSeq
    <3>. QED BY <3>2
  <2>2. ASSUME NEW b, Silent(b), Completion(m, k + 1) = <<b>>
        PROVE  /\ 1 \in DOMAIN published' /\ published'[1] = stamped(a, 1)
               /\ \A i \in DOMAIN published' : i # 1 => Silent(published'[i])
    <3>1. publish(<<a, b>>)
      BY <1>1, <2>2, OneThenMore
    <3>2. published' = Append(Append(<<>>, stamped(a, 1)), stamped(b, 2))
      BY <3>1, PublishedSeq
    <3>3. Silent(stamped(b, 2))
      BY <2>2, StampKeeps
    <3>. QED BY <3>2, <3>3
  <2>. QED BY <2>1, <2>2, SilentCompletion
<1>5. Names(stamped(a, 1), m, "milestone_settled")
  BY <1>2, StampKeeps
<1>6. "Settled" \in Terminal
  BY DEF Terminal
<1>. QED BY <1>3, <1>4, <1>5, <1>6, EndingCall

LEMMA HeardRefund ==
  ASSUME ContractInv, NEW u, Follows(u), EndsHeard, published = <<>>, UNCHANGED happened,
         NEW m \in MilestoneId, invoke_resolve_refund(m)
  PROVE  EndsHeard'
<1>a. PICK a : a = MilestoneRefunded(m)
  OBVIOUS
<1>b. PICK b : b = DisputeResolved(m, FALSE, 2)
  OBVIOUS
<1>1. resolve_refund(m) /\ publish(<<a, b>> \o Completion(m, 3))
  BY <1>a, <1>b DEF invoke_resolve_refund
<1>2. Names(a, m, "milestone_refunded") /\ Silent(b)
  BY <1>a, <1>b, EventFields, SilentEvent DEF MilestoneRefunded, DisputeResolved, Names, EndingNames
<1>3. /\ milestones[m].status \notin Terminal /\ milestones'[m].status = "Refunded"
      /\ \A j \in MilestoneId : j # m => milestones'[j] = milestones[j]
  <2>1. milestones \in [MilestoneId -> MilestoneRecord]
    BY DEF ContractInv, TypeOK
  <2>. QED BY <1>1, <2>1 DEF resolve_refund, resolvable, in_active_order, Terminal, MilestoneRecord
<1>4. Silent(stamped(b, 2))
  BY <1>2, StampKeeps
<1>5. /\ 1 \in DOMAIN published' /\ published'[1] = stamped(a, 1)
      /\ \A i \in DOMAIN published' : i # 1 => Silent(published'[i])
  <2>1. CASE Completion(m, 3) = <<>>
    <3>1. publish(<<a, b>>)
      BY <1>1, <2>1, TwoThenMore
    <3>2. published' = Append(Append(<<>>, stamped(a, 1)), stamped(b, 2))
      BY <3>1, PublishedSeq
    <3>. QED BY <1>4, <3>2
  <2>2. ASSUME NEW c, Silent(c), Completion(m, 3) = <<c>>
        PROVE  /\ 1 \in DOMAIN published' /\ published'[1] = stamped(a, 1)
               /\ \A i \in DOMAIN published' : i # 1 => Silent(published'[i])
    <3>1. publish(<<a, b, c>>)
      BY <1>1, <2>2, TwoThenMore
    <3>2. published' = Append(Append(Append(<<>>, stamped(a, 1)), stamped(b, 2)), stamped(c, 3))
      BY <3>1, PublishedSeq
    <3>3. Silent(stamped(c, 3))
      BY <2>2, StampKeeps
    <3>. QED BY <1>4, <3>2, <3>3
  <2>. QED BY <2>1, <2>2, SilentCompletion
<1>6. Names(stamped(a, 1), m, "milestone_refunded")
  BY <1>2, StampKeeps
<1>7. "Refunded" \in Terminal
  BY DEF Terminal
<1>. QED BY <1>3, <1>5, <1>6, <1>7, EndingCall

LEMMA HeardDelivery ==
  ASSUME ContractInv, NEW u, Follows(u), EndsHeard, published = <<>>, UNCHANGED happened,
         DeliveryCalls
  PROVE  EndsHeard'
<1>0. TypeOK
  BY DEF ContractInv
<1>1. ASSUME NEW m \in MilestoneId, NEW digest \in Digest, invoke_submit_evidence(m, digest)
      PROVE  EndsHeard'
  <2>1. Silent(EvidenceSubmitted(m, digest))
    BY SilentEvent DEF EvidenceSubmitted, EndingNames
  <2>2. Works(m) /\ Next
    BY <1>0, <1>1, Working DEF invoke_submit_evidence, Next
  <2>. QED BY <1>1, <2>1, <2>2, WorkEndsNone, QuietOne DEF invoke_submit_evidence
<1>2. ASSUME NEW m \in MilestoneId, NEW digest \in Digest, invoke_attest_milestone(m, digest)
      PROVE  EndsHeard'
  <2>1. Silent(MilestoneVerified(m, digest))
    BY SilentEvent DEF MilestoneVerified, EndingNames
  <2>2. Works(m) /\ Next
    BY <1>0, <1>2, Working DEF invoke_attest_milestone, Next
  <2>. QED BY <1>2, <2>1, <2>2, WorkEndsNone, QuietOne DEF invoke_attest_milestone
<1>3. ASSUME NEW m \in MilestoneId, NEW caller \in Account, invoke_open_dispute(m, caller)
      PROVE  EndsHeard'
  <2>1. Silent(DisputeOpened(m, caller))
    BY SilentEvent DEF DisputeOpened, EndingNames
  <2>2. Works(m) /\ Next
    BY <1>0, <1>3, Working DEF invoke_open_dispute, Next
  <2>. QED BY <1>3, <2>1, <2>2, WorkEndsNone, QuietOne DEF invoke_open_dispute
<1>4. ASSUME NEW m \in MilestoneId, invoke_resolve_settle(m) PROVE EndsHeard'
  <2>1. Silent(DisputeResolved(m, TRUE, 0))
    BY SilentEvent DEF DisputeResolved, EndingNames
  <2>2. Works(m) /\ Next
    BY <1>0, <1>4, Working DEF invoke_resolve_settle, Next
  <2>. QED BY <1>4, <2>1, <2>2, WorkEndsNone, QuietOne DEF invoke_resolve_settle
<1>. QED BY <1>1, <1>2, <1>3, <1>4, HeardSettle, HeardRefund DEF DeliveryCalls

LEMMA HeardContract ==
  ASSUME ReadInv, EndsHeard, published = <<>>, UNCHANGED happened, ContractStep
  PROVE  EndsHeard'
<1>1. ContractInv /\ \E u : Follows(u)
  BY DEF ReadInv, Followed
<1>2. CASE advance_ledger /\ UNCHANGED published
  <2>1. UNCHANGED milestones
    BY <1>2 DEF advance_ledger
  <2>2. NoneEnds /\ \A i \in DOMAIN published' : Silent(published'[i])
    BY <1>2, <2>1 DEF NoneEnds
  <2>. QED BY <2>2, QuietCall
<1>. QED BY <1>1, <1>2, HeardOrders, HeardEscrow, HeardFinancing, HeardDelivery DEF ContractStep

\* A batch of all that is pending leaves nothing pending.
LEMMA NothingLeft ==
  ASSUME ReadInv, applyBatch(Len(published))
  PROVE  published' = <<>>
<1>1. PICK S : published \in Seq(S)
  BY DEF ReadInv, Followed, Follows, Leads, Logged
<1>2. PICK left : left = SubSeq(published, Len(published) + 1, Len(published))
  OBVIOUS
<1>3. left = <<>>
  BY <1>1, <1>2
<1>4. published' = ranked(left)
  BY <1>2 DEF applyBatch
<1>. QED BY <1>3, <1>4 DEF ranked

LEMMA HeardTold ==
  ASSUME ReadInv, EndsHeard, Told
  PROVE  EndsHeard'
<1>1. published' = <<>> /\ milestones' = milestones
  BY NothingLeft DEF Told, applyBatch, vars
<1>2. \A m \in MilestoneId : \A name \in EndingNames : name \in happened'[m] <=> Heard(m, name)
  BY DEF Told, Heard, Speaks
<1>3. \A m \in MilestoneId : \A name \in EndingNames : Heard(m, name)' <=> Heard(m, name)
  BY <1>1, <1>2 DEF Heard, Speaks
<1>. QED BY <1>1, <1>3 DEF EndsHeard, EndingNames

-----------------------------------------------------------------------------
(* A trade as it is told: what the contract says of the progress            *)

\* The signals of the core path, as the contract has them.
Signals(m) ==
  LET milestone == milestones[m]
  IN  [created |-> TRUE,
       accepted |-> orders[milestone.order_id].status # "Created",
       protected |-> milestone.status # "Unfunded",
       evidenced |-> \/ milestone.evidence_hash # NoDigest
                     \/ milestone.status \in {"Submitted", "Verified", "Settled"},
       verified |-> milestone.status \in {"Verified", "Settled"},
       settled |-> milestone.status = "Settled"]
CoreSteps == {"created", "accepted", "protected", "evidenced", "verified", "settled"}

\* What is delivered has a digest.
DigestsThere ==
  \A m \in MilestoneId :
    milestones[m].status = "Submitted" => milestones[m].evidence_hash # NoDigest

\* What a chain of n steps implies is of the chain, grows with what is seen, and is all
\* of it once the last step is seen.
Chained(seen, chain, n) ==
  /\ implied(seen, chain) \subseteq Range(chain)
  /\ seen[chain[n]] => implied(seen, chain) = Range(chain)
  /\ \A i \in 1..n : seen[chain[i]] => chain[i] \in implied(seen, chain)
ChainOf(chain, n) == n \in Nat /\ n > 0 /\ Len(chain) = n /\ DOMAIN chain = 1..n
Confirmed(seen, later, steps) == \A x \in steps : seen[x] => later[x]

LEMMA CoreNames ==
  /\ Range(Core) = CoreSteps
  /\ Range(Financing) = {"requested", "offered", "chosen", "advanced"}
  /\ ChainOf(Core, 6) /\ Core[3] = "protected" /\ Core[6] = "settled"
  /\ ChainOf(Financing, 4) /\ Financing[4] = "advanced"
<1>1. /\ Len(Core) = 6 /\ DOMAIN Core = 1..6 /\ Core[1] = "created" /\ Core[2] = "accepted"
      /\ Core[3] = "protected" /\ Core[4] = "evidenced" /\ Core[5] = "verified"
      /\ Core[6] = "settled"
  BY DEF Core
<1>2. /\ Len(Financing) = 4 /\ DOMAIN Financing = 1..4 /\ Financing[1] = "requested"
      /\ Financing[2] = "offered" /\ Financing[3] = "chosen" /\ Financing[4] = "advanced"
  BY DEF Financing
<1>3. \A i : i \in 1..6 <=> i \in {1, 2, 3, 4, 5, 6}
  OBVIOUS
<1>4. \A i : i \in 1..4 <=> i \in {1, 2, 3, 4}
  OBVIOUS
<1>5. Range(Core) = CoreSteps
  BY <1>1, <1>3 DEF Range, CoreSteps
<1>6. Range(Financing) = {"requested", "offered", "chosen", "advanced"}
  BY <1>2, <1>4 DEF Range
<1>. QED BY <1>1, <1>2, <1>5, <1>6 DEF ChainOf

LEMMA ImpliedFacts ==
  ASSUME NEW seen, NEW chain, NEW n, ChainOf(chain, n)
  PROVE  Chained(seen, chain, n)
<1>1. \A x : x \in implied(seen, chain) <=>
        \E i \in 1..n : x = chain[i] /\ \E k \in i..n : seen[chain[k]]
  BY DEF implied, ChainOf
<1>2. \A x : x \in Range(chain) <=> \E i \in 1..n : x = chain[i]
  BY DEF Range, ChainOf
<1>3. n \in 1..n /\ \A i \in 1..n : n \in i..n /\ i \in i..n
  BY DEF ChainOf
<1>. QED BY <1>1, <1>2, <1>3 DEF Chained

LEMMA ImpliedGrows ==
  ASSUME NEW seen, NEW later, NEW chain, NEW n, ChainOf(chain, n),
         Confirmed(seen, later, Range(chain))
  PROVE  implied(seen, chain) \subseteq implied(later, chain)
<1>1. \A x : x \in implied(seen, chain) <=>
        \E i \in 1..n : x = chain[i] /\ \E k \in i..n : seen[chain[k]]
  BY DEF implied, ChainOf
<1>2. \A x : x \in implied(later, chain) <=>
        \E i \in 1..n : x = chain[i] /\ \E k \in i..n : later[chain[k]]
  BY DEF implied, ChainOf
<1>3. \A i \in 1..n : \A k \in i..n : k \in 1..n /\ chain[k] \in Range(chain)
  BY DEF Range, ChainOf
<1>. QED BY <1>1, <1>2, <1>3 DEF Confirmed

\* The last step of the core path is done exactly when it is seen.
LEMMA LastImplied ==
  ASSUME NEW seen
  PROVE  "settled" \in implied(seen, Core) <=> seen["settled"]
<1>1. \A i \in 1..6 : Core[i] = "settled" => i = 6
  <2>1. \A i : i \in 1..6 <=> i \in {1, 2, 3, 4, 5, 6}
    OBVIOUS
  <2>. QED BY <2>1 DEF Core
<1>2. "settled" \in implied(seen, Core) <=>
        \E i \in 1..6 : "settled" = Core[i] /\ \E k \in i..6 : seen[Core[k]]
  BY CoreNames DEF implied, ChainOf
<1>3. 6 \in 1..6 /\ \A k : k \in 6..6 <=> k = 6
  OBVIOUS
<1>. QED BY <1>1, <1>2, <1>3, CoreNames

LEMMA PlacesOf ==
  /\ place("Unfunded") = 1 /\ place("Funded") = 2 /\ place("FinanceRequested") = 3
  /\ place("Financed") = 4 /\ place("Submitted") = 5 /\ place("Verified") = 6
<1>1. /\ DOMAIN ORDERED_STATUSES = 1..6
      /\ ORDERED_STATUSES[1] = "Unfunded" /\ ORDERED_STATUSES[2] = "Funded"
      /\ ORDERED_STATUSES[3] = "FinanceRequested" /\ ORDERED_STATUSES[4] = "Financed"
      /\ ORDERED_STATUSES[5] = "Submitted" /\ ORDERED_STATUSES[6] = "Verified"
  BY DEF ORDERED_STATUSES
<1>2. \A i : i \in 1..6 <=> i \in {1, 2, 3, 4, 5, 6}
  OBVIOUS
<1>3. ASSUME NEW s, NEW n \in 1..6, ORDERED_STATUSES[n] = s,
             \A i \in 1..6 : ORDERED_STATUSES[i] = s => i = n
      PROVE  place(s) = n
  <2>1. \A i \in DOMAIN ORDERED_STATUSES : ORDERED_STATUSES[i] = s <=> i = n
    BY <1>1, <1>3
  <2>2. place(s) = CHOOSE i \in DOMAIN ORDERED_STATUSES : ORDERED_STATUSES[i] = s
    BY DEF place
  <2>3. n \in DOMAIN ORDERED_STATUSES
    BY <1>1
  <2>. QED BY <2>1, <2>2, <2>3
<1>4. \A i \in 1..6 : i = 1 \/ i = 2 \/ i = 3 \/ i = 4 \/ i = 5 \/ i = 6
  OBVIOUS
<1>5. 1 \in 1..6 /\ 2 \in 1..6 /\ 3 \in 1..6 /\ 4 \in 1..6 /\ 5 \in 1..6 /\ 6 \in 1..6
  OBVIOUS
<1>. QED BY <1>1, <1>3, <1>4, <1>5

\* What a status proves of the steps before it.
LEMMA ReachedFacts ==
  ASSUME NEW status \in {"Unfunded"} \cup Protected \cup Terminal
  PROVE  /\ reached(status, "Funded") <=> status # "Unfunded"
         /\ reached(status, "Submitted") <=> status \in {"Submitted", "Verified", "Settled"}
         /\ reached(status, "Verified") <=> status \in {"Verified", "Settled"}
         /\ reached(status, "Financed") => status # "Unfunded"
         /\ status = "Settled" =>
              reached(status, "FinanceRequested") /\ reached(status, "Financed")
BY PlacesOf DEF reached, Protected, Terminal

\* What the rows say of the core path is what the contract has, and an advance only of
\* what is protected.
LEMMA SeenOfContract ==
  ASSUME ContractInv, Mirror(tables), NEW m \in MilestoneId, tables["milestones"][m] # NoRow
  PROVE  /\ \A x \in CoreSteps : observed(m)[x] <=> Signals(m)[x]
         /\ observed(m)["advanced"] => Signals(m)["protected"]
         /\ milestones[m].status = "Settled" =>
              observed(m)["requested"] /\ observed(m)["advanced"]
<1>r. PICK row : row = tables["milestones"][m]
  OBVIOUS
<1>s. PICK status : status = milestones[m].status
  OBVIOUS
<1>1. /\ status # "Absent" /\ Says(row, milestones[m], MilestoneFields)
  <2>1. status # "Absent"
    BY <1>s, RowsThere
  <2>. QED BY <1>r, <1>s, <2>1 DEF Mirror, Same
<1>2. /\ row.status = status /\ row.order_id = milestones[m].order_id
      /\ row.amount = milestones[m].amount /\ row.funded_amount = milestones[m].funded_amount
      /\ row.evidence_hash = milestones[m].evidence_hash
  BY <1>1, <1>s DEF Says, MilestoneFields
<1>3. status \in {"Unfunded"} \cup Protected \cup Terminal
  <2>1. milestones[m] \in MilestoneRecord
    BY DEF ContractInv, TypeOK
  <2>. QED BY <1>1, <1>s, <2>1 DEF MilestoneRecord, MilestoneStatus
<1>4. tables["orders"][row.order_id].status = orders[milestones[m].order_id].status
  <2>1. milestones[m].order_id \in OrderId /\ orders[milestones[m].order_id].status # "Absent"
    BY <1>1, <1>s DEF ContractInv, Registered, order_of
  <2>2. Says(tables["orders"][milestones[m].order_id], orders[milestones[m].order_id], OrderFields)
    BY <2>1 DEF Mirror, Same
  <2>. QED BY <1>2, <2>2 DEF Says
<1>5. status = "Unfunded" => milestones[m].funded_amount # milestones[m].amount
  <2>1. milestones[m].funded_amount \in Nat /\ milestones[m].amount \in Nat
    <3>1. milestones[m] \in MilestoneRecord
      BY DEF ContractInv, TypeOK
    <3>. QED BY <3>1 DEF MilestoneRecord
  <2>2. milestones[m].status = "Unfunded" =>
          milestones[m].funded_amount < milestones[m].amount
    BY DEF ContractInv, ProtectedInFull
  <2>. QED BY <1>s, <2>1, <2>2
<1>6. settledRecord(m) <=> status = "Settled"
  BY <1>2, <1>r, <1>s DEF settledRecord, Mirror, PayoutsMirrored
<1>7. PICK paid : paid = {f \in rowsOf(tables, "positions") : tables["positions"][f].milestone = m}
  OBVIOUS
<1>8. paid # {} => status # "Unfunded"
  <2>. SUFFICES ASSUME NEW f \in paid PROVE status # "Unfunded"
    OBVIOUS
  <2>1. f \in OfferId /\ tables["positions"][f] # NoRow /\ tables["positions"][f].milestone = m
    BY <1>7, TableNames DEF rowsOf
  <2>2. positions[m].status # "Absent"
    BY <2>1 DEF Mirror, PositionsMirrored
  <2>3. positions[m].status \in {"Active", "Repaid", "Closed"}
    <3>1. TypeOK
      BY DEF ContractInv
    <3>. QED BY <2>2, <3>1, FinanceTypes
  <2>. QED BY <1>s, <2>3 DEF ContractInv, FinancingSound, FinancingCoherent
<1>9. /\ observed(m)["created"] = TRUE
      /\ observed(m)["accepted"] = (tables["orders"][row.order_id].status # "Created")
      /\ observed(m)["protected"] = (row.funded_amount = row.amount \/ reached(row.status, "Funded"))
      /\ observed(m)["requested"] = (tables["requests"][m] # NoRow
                                      \/ reached(row.status, "FinanceRequested"))
      /\ observed(m)["advanced"] = (paid # {} \/ reached(row.status, "Financed"))
      /\ observed(m)["evidenced"] = (row.evidence_hash # NoDigest \/ reached(row.status, "Submitted"))
      /\ observed(m)["verified"] = reached(row.status, "Verified")
      /\ observed(m)["settled"] = settledRecord(m)
  BY <1>r, <1>7 DEF observed
<1>10. /\ Signals(m)["created"] = TRUE
       /\ Signals(m)["accepted"] = (orders[milestones[m].order_id].status # "Created")
       /\ Signals(m)["protected"] = (status # "Unfunded")
       /\ Signals(m)["evidenced"] = (\/ milestones[m].evidence_hash # NoDigest
                                     \/ status \in {"Submitted", "Verified", "Settled"})
       /\ Signals(m)["verified"] = (status \in {"Verified", "Settled"})
       /\ Signals(m)["settled"] = (status = "Settled")
  BY <1>s DEF Signals
<1>11. /\ reached(status, "Funded") <=> status # "Unfunded"
       /\ reached(status, "Submitted") <=> status \in {"Submitted", "Verified", "Settled"}
       /\ reached(status, "Verified") <=> status \in {"Verified", "Settled"}
       /\ reached(status, "Financed") => status # "Unfunded"
       /\ status = "Settled" =>
            reached(status, "FinanceRequested") /\ reached(status, "Financed")
  BY <1>3, ReachedFacts
<1>12. \A x \in CoreSteps : observed(m)[x] <=> Signals(m)[x]
  <2>1. /\ observed(m)["created"] <=> Signals(m)["created"]
        /\ observed(m)["accepted"] <=> Signals(m)["accepted"]
        /\ observed(m)["protected"] <=> Signals(m)["protected"]
        /\ observed(m)["evidenced"] <=> Signals(m)["evidenced"]
        /\ observed(m)["verified"] <=> Signals(m)["verified"]
        /\ observed(m)["settled"] <=> Signals(m)["settled"]
    BY <1>2, <1>4, <1>5, <1>6, <1>9, <1>10, <1>11
  <2>. QED BY <2>1 DEF CoreSteps
<1>13. observed(m)["advanced"] => Signals(m)["protected"]
  BY <1>2, <1>8, <1>9, <1>10, <1>11
<1>14. status = "Settled" => observed(m)["requested"] /\ observed(m)["advanced"]
  BY <1>2, <1>9, <1>11
<1>. QED BY <1>s, <1>12, <1>13, <1>14

\* The steps done: those its own chain implies, and the protection of an advance.
LEMMA DoneCore ==
  ASSUME NEW m, NEW seen, seen = observed(m)
  PROVE  /\ doneSteps(m) \cap CoreSteps =
              implied(seen, Core) \cup (IF seen["advanced"] THEN {"protected"} ELSE {})
         /\ seen["advanced"] => Range(Financing) \subseteq doneSteps(m)
         /\ "settled" \in doneSteps(m) <=> seen["settled"]
<1>. DEFINE core == implied(seen, Core)
            financing == implied(seen, Financing)
<1>1. core \subseteq CoreSteps
  <2>1. Chained(seen, Core, 6)
    BY CoreNames, ImpliedFacts
  <2>. QED BY <2>1, CoreNames DEF Chained
<1>2. /\ financing \subseteq {"requested", "offered", "chosen", "advanced"}
      /\ seen["advanced"] => financing = Range(Financing)
      /\ "advanced" \in financing <=> seen["advanced"]
  <2>1. /\ financing \subseteq Range(Financing)
        /\ seen["advanced"] => financing = Range(Financing)
    <3>1. Chained(seen, Financing, 4)
      BY CoreNames, ImpliedFacts
    <3>. QED BY <3>1, CoreNames DEF Chained
  <2>2. "advanced" \in financing => seen["advanced"]
    <3>1. \A i \in 1..4 : Financing[i] = "advanced" => i = 4
      <4>1. \A i : i \in 1..4 <=> i \in {1, 2, 3, 4}
        OBVIOUS
      <4>. QED BY <4>1 DEF Financing
    <3>2. "advanced" \in financing <=>
            \E i \in 1..4 : "advanced" = Financing[i] /\ \E k \in i..4 : seen[Financing[k]]
      BY CoreNames DEF implied, ChainOf
    <3>3. \A k : k \in 4..4 <=> k = 4
      OBVIOUS
    <3>. QED BY <3>1, <3>2, <3>3, CoreNames
  <2>. QED BY <2>1, <2>2, CoreNames
<1>3. doneSteps(m) = IF "advanced" \in core \cup financing
                     THEN core \cup financing \cup {"protected"} ELSE core \cup financing
  BY DEF doneSteps
<1>4. "settled" \in core <=> seen["settled"]
  BY LastImplied
<1>. HIDE DEF core, financing
<1>5. "advanced" \notin CoreSteps /\ "protected" \in CoreSteps
      /\ CoreSteps \cap {"requested", "offered", "chosen", "advanced"} = {}
      /\ "settled" \in CoreSteps /\ "settled" # "protected"
  BY DEF CoreSteps
<1>6. "advanced" \in core \cup financing <=> seen["advanced"]
  BY <1>1, <1>2, <1>5
<1>7. doneSteps(m) \cap CoreSteps = core \cup (IF seen["advanced"] THEN {"protected"} ELSE {})
  BY <1>1, <1>2, <1>3, <1>5, <1>6
<1>8. seen["advanced"] => Range(Financing) \subseteq doneSteps(m)
  BY <1>2, <1>3
<1>9. "settled" \in doneSteps(m) <=> seen["settled"]
  BY <1>2, <1>3, <1>4, <1>5
<1>. QED BY <1>7, <1>8, <1>9 DEF core

\* In tables that mirror the contract the core steps done are those its signals imply.
LEMMA DoneOfContract ==
  ASSUME ContractInv, Mirror(tables), NEW m \in MilestoneId, tables["milestones"][m] # NoRow
  PROVE  doneSteps(m) \cap CoreSteps = implied(Signals(m), Core)
<1>. DEFINE seen == observed(m)
            had == Signals(m)
<1>1. /\ \A x \in CoreSteps : seen[x] <=> had[x]
      /\ seen["advanced"] => had["protected"]
  BY SeenOfContract
<1>2. doneSteps(m) \cap CoreSteps =
        implied(seen, Core) \cup (IF seen["advanced"] THEN {"protected"} ELSE {})
  BY DoneCore
<1>. HIDE DEF seen, had
<1>3. implied(seen, Core) = implied(had, Core)
  <2>1. Confirmed(seen, had, Range(Core)) /\ Confirmed(had, seen, Range(Core))
    BY <1>1, CoreNames DEF Confirmed
  <2>2. PICK s, h : s = seen /\ h = had
    OBVIOUS
  <2>3. implied(s, Core) \subseteq implied(h, Core) /\ implied(h, Core) \subseteq implied(s, Core)
    BY <2>1, <2>2, CoreNames, ImpliedGrows
  <2>. QED BY <2>2, <2>3
<1>4. had["protected"] => "protected" \in implied(had, Core)
  <2>1. PICK h : h = had
    OBVIOUS
  <2>2. Chained(h, Core, 6) /\ 3 \in 1..6
    BY CoreNames, ImpliedFacts
  <2>. QED BY <2>1, <2>2, CoreNames DEF Chained
<1>. QED BY <1>1, <1>2, <1>3, <1>4 DEF had

\* No step takes back what was protected, verified or settled, and what is delivered
\* has a digest.
Onward(m) ==
  LET status == milestones[m].status
  IN  /\ status \notin {"Absent", "Unfunded"} => milestones'[m].status # "Unfunded"
      /\ status = "Verified" => milestones'[m].status \in {"Verified", "Settled"}
      /\ status = "Settled" => milestones'[m].status = "Settled"
      /\ milestones'[m].status = "Submitted" =>
           \/ status = "Submitted" /\ milestones'[m].evidence_hash = milestones[m].evidence_hash
           \/ milestones'[m].evidence_hash # NoDigest

LEMMA OnwardStep ==
  ASSUME ContractInv, [Next]_vars, NEW m \in MilestoneId
  PROVE  Onward(m)
<1>0. TypeOK /\ Registered /\ milestones \in [MilestoneId -> MilestoneRecord]
  BY DEF ContractInv, TypeOK
<1>1. ASSUME milestones'[m] = milestones[m] PROVE Onward(m)
  BY <1>1 DEF Onward
<1>2. ASSUME NEW k \in MilestoneId, Touches(k), Onward(k) PROVE Onward(m)
  BY <1>1, <1>2 DEF Touches
<1>3. ASSUME NEW k \in MilestoneId, Works(k) \/ Ends(k) PROVE Touches(k)
  BY <1>3 DEF Works, Ends
<1>4. ASSUME Orders \/ Aside PROVE Onward(m)
  <2>1. milestones' = milestones
    BY <1>4 DEF Orders, Aside, create_order, accept_order, cancel_order
  <2>. QED BY <1>1, <2>1
<1>5. ASSUME Opens PROVE Onward(m)
  <2>1. PICK o \in OrderId, amount \in MilestoneAmounts :
          /\ create_milestone(o, amount)
          /\ milestone_count + 1 \in MilestoneId
          /\ milestones[milestone_count + 1].status = "Absent"
    BY <1>0, <1>5, OpeningFresh
  <2>n. PICK n \in MilestoneId : n = milestone_count + 1
    BY <2>1
  <2>2. /\ milestones'[n].status = "Unfunded" /\ milestones[n].status = "Absent"
        /\ \A k \in MilestoneId : k # n => milestones'[k] = milestones[k]
    BY <1>0, <2>1, <2>n DEF create_milestone
  <2>3. CASE m = n
    BY <2>2, <2>3 DEF Onward
  <2>4. CASE m # n
    BY <1>1, <2>2, <2>4
  <2>. QED BY <2>3, <2>4
<1>6. ASSUME NEW k \in MilestoneId,
             \/ \E amount \in Payments, asset \in Asset : fund_milestone(k, amount, asset)
             \/ cancel_partial_funding(k)
      PROVE  Onward(m)
  <2>1. Touches(k)
    BY <1>0, <1>3, <1>6, Working
  <2>t. milestones \in [MilestoneId -> MilestoneRecord]
    BY <1>0
  <2>2. milestones[k].status = "Unfunded" /\ milestones'[k].status \in {"Unfunded", "Funded"}
    <3>1. ASSUME NEW amount \in Payments, NEW asset \in Asset, fund_milestone(k, amount, asset)
          PROVE  /\ milestones[k].status = "Unfunded"
                 /\ milestones'[k].status \in {"Unfunded", "Funded"}
      BY <2>t, <3>1 DEF fund_milestone, in_active_order, status_after, MilestoneRecord
    <3>2. CASE cancel_partial_funding(k)
      BY <2>t, <3>2 DEF cancel_partial_funding, in_active_order, MilestoneRecord
    <3>. QED BY <1>6, <3>1, <3>2
  <2>. QED BY <1>2, <2>1, <2>2 DEF Onward
<1>7. ASSUME NEW k \in MilestoneId,
             \/ \E principal \in Payments, expires_at \in Expiries :
                  request_finance(k, principal, expires_at)
             \/ fund_advance(k) \/ release_expired_acceptance(k) \/ cancel_finance_request(k)
      PROVE  Onward(m)
  <2>1. Touches(k)
    BY <1>0, <1>3, <1>7, Working
  <2>2. /\ milestones[k].status \in {"Funded", "FinanceRequested"}
        /\ milestones'[k].status \in {"Funded", "FinanceRequested", "Financed"}
    BY <1>0, <1>7 DEF request_finance, fund_advance, release_expired_acceptance,
       cancel_finance_request, in_active_order, MilestoneRecord
  <2>. QED BY <1>2, <2>1, <2>2 DEF Onward
<1>8. ASSUME NEW k \in MilestoneId, NEW digest \in Digest, submit_evidence(k, digest)
      PROVE  Onward(m)
  <2>1. Touches(k)
    BY <1>0, <1>3, <1>8, Working
  <2>2. /\ milestones[k].status \in Workable /\ milestones'[k].status = "Submitted"
        /\ milestones'[k].evidence_hash = digest
    BY <1>0, <1>8 DEF submit_evidence, in_active_order, MilestoneRecord
  <2>. QED BY <1>2, <2>1, <2>2, PartiesAssumption DEF Onward, Workable
<1>9. ASSUME NEW k \in MilestoneId,
             \/ \E digest \in Digest : attest_milestone(k, digest)
             \/ \E caller \in Account : open_dispute(k, caller)
             \/ resolve_settle(k)
      PROVE  Onward(m)
  <2>1. Touches(k)
    BY <1>0, <1>3, <1>9, Working
  <2>2. ASSUME NEW digest \in Digest, attest_milestone(k, digest)
        PROVE  milestones[k].status = "Submitted" /\ milestones'[k].status = "Verified"
    BY <1>0, <2>2 DEF attest_milestone, in_active_order, MilestoneRecord
  <2>3. ASSUME NEW caller \in Account, open_dispute(k, caller)
        PROVE  milestones[k].status \in Workable /\ milestones'[k].status = "Disputed"
    BY <1>0, <2>3 DEF open_dispute, in_active_order, MilestoneRecord
  <2>4. ASSUME resolve_settle(k)
        PROVE  milestones[k].status = "Disputed" /\ milestones'[k].status = "Verified"
    BY <1>0, <2>4 DEF resolve_settle, resolvable, in_active_order, MilestoneRecord
  <2>5. /\ milestones[k].status \in Workable \cup {"Disputed"}
        /\ milestones'[k].status \in {"Verified", "Disputed"}
    BY <1>9, <2>2, <2>3, <2>4 DEF Workable
  <2>. QED BY <1>2, <2>1, <2>5 DEF Onward, Workable
<1>10. ASSUME NEW k \in MilestoneId,
              (\E caller \in Account : settle_milestone(k, caller)) \/ resolve_refund(k)
       PROVE  Onward(m)
  <2>1. Touches(k)
    BY <1>0, <1>3, <1>10, Ending
  <2>2. \/ milestones[k].status = "Verified" /\ milestones'[k].status = "Settled"
        \/ milestones[k].status = "Disputed" /\ milestones'[k].status = "Refunded"
    BY <1>0, <1>10 DEF settle_milestone, resolve_refund, resolvable, in_active_order,
       MilestoneRecord
  <2>. QED BY <1>2, <2>1, <2>2 DEF Onward
<1>11. ASSUME \/ \E k \in MilestoneId, funder \in Account, principal, repayment \in Payments,
                    expires_at \in Expiries :
                   make_offer(k, funder, principal, repayment, expires_at)
              \/ \E f \in OfferId : cancel_offer(f) \/ accept_offer(f)
              \/ advance_ledger
              \/ UNCHANGED vars
       PROVE  Onward(m)
  BY <1>4, <1>11, Besides
<1>. QED BY <1>4, <1>5, <1>6, <1>7, <1>8, <1>9, <1>10, <1>11 DEF Next, Orders, Opens

\* An order that was accepted, completed or cancelled is not just created again.
LEMMA OrdersOnward ==
  ASSUME ContractInv, [Next]_vars, NEW o \in OrderId,
         orders[o].status \notin {"Absent", "Created"}
  PROVE  orders'[o].status # "Created"
<1>0. TypeOK /\ Registered /\ orders \in [OrderId -> OrderRecord]
  BY DEF ContractInv, TypeOK
<1>1. ASSUME Orders PROVE orders'[o].status # "Created"
  <2>1. ASSUME NEW roles \in Proposals, create_order(roles) PROVE orders'[o].status # "Created"
    <3>1. o <= order_count /\ o \in Nat /\ order_count \in Nat
      BY <1>0, TypeFacts, IdFacts DEF Registered
    <3>. QED BY <1>0, <2>1, <3>1 DEF create_order
  <2>2. ASSUME NEW p \in OrderId, accept_order(p) \/ cancel_order(p)
        PROVE  orders'[o].status # "Created"
    BY <1>0, <2>2 DEF accept_order, cancel_order, OrderRecord
  <2>. QED BY <1>1, <2>1, <2>2 DEF Orders
<1>2. ASSUME Opens \/ Aside PROVE orders'[o].status # "Created"
  BY <1>2 DEF Opens, Aside, create_milestone, orderVars
<1>3. ASSUME NEW k \in MilestoneId, Works(k) \/ Ends(k) PROVE orders'[o].status # "Created"
  BY <1>0, <1>3 DEF Works, Ends, complete_order_if_finished, OrderRecord
<1>. QED BY <1>0, <1>1, <1>2, <1>3, StepKinds

\* What the contract has of the core path, it keeps.
LEMMA SignalsStay ==
  ASSUME ContractInv, DigestsThere, [Next]_vars, NEW m \in MilestoneId,
         milestones[m].status # "Absent"
  PROVE  Confirmed(Signals(m), Signals(m)', CoreSteps)
<1>0. TypeOK /\ Registered
  BY DEF ContractInv
<1>1. Onward(m) /\ DigestStays(m)
  BY <1>0, OnwardStep, DigestStep
<1>2. /\ milestones'[m].order_id = milestones[m].order_id /\ milestones[m].order_id \in OrderId
      /\ orders[milestones[m].order_id].status # "Absent"
  <2>1. milestones[m].order_id \in OrderId /\ orders[milestones[m].order_id].status # "Absent"
    BY <1>0 DEF Registered, order_of
  <2>2. milestones'[m].order_id = milestones[m].order_id
    <3>1. CASE Orders \/ Aside
      BY <3>1 DEF Orders, Aside, create_order, accept_order, cancel_order
    <3>2. CASE Opens
      <4>1. PICK o \in OrderId, amount \in MilestoneAmounts :
              /\ create_milestone(o, amount)
              /\ milestones[milestone_count + 1].status = "Absent"
        BY <1>0, <3>2, OpeningFresh
      <4>2. milestones \in [MilestoneId -> MilestoneRecord]
        BY <1>0 DEF TypeOK
      <4>. QED BY <4>1, <4>2 DEF create_milestone
    <3>3. CASE \E k \in MilestoneId : Works(k) \/ Ends(k)
      BY <3>3 DEF Works, Ends, Touches
    <3>. QED BY <1>0, <3>1, <3>2, <3>3, StepKinds
  <2>. QED BY <2>1, <2>2
<1>3. orders[milestones[m].order_id].status # "Created" =>
        orders'[milestones'[m].order_id].status # "Created"
  BY <1>2, OrdersOnward
<1>4. milestones[m].status # "Unfunded" => milestones'[m].status # "Unfunded"
  BY <1>1 DEF Onward
<1>5. milestones[m].status \in {"Verified", "Settled"} =>
        milestones'[m].status \in {"Verified", "Settled"}
  BY <1>1 DEF Onward
<1>6. (\/ milestones[m].evidence_hash # NoDigest
       \/ milestones[m].status \in {"Submitted", "Verified", "Settled"}) =>
        \/ milestones'[m].evidence_hash # NoDigest
        \/ milestones'[m].status \in {"Submitted", "Verified", "Settled"}
  BY <1>1, <1>5 DEF DigestStays, DigestsThere
<1>7. /\ Signals(m)["accepted"] => Signals(m)'["accepted"]
      /\ Signals(m)["protected"] => Signals(m)'["protected"]
      /\ Signals(m)["evidenced"] => Signals(m)'["evidenced"]
      /\ Signals(m)["verified"] => Signals(m)'["verified"]
      /\ Signals(m)["settled"] => Signals(m)'["settled"]
      /\ Signals(m)'["created"]
  <2>1. Signals(m)["accepted"] => Signals(m)'["accepted"]
    BY <1>3 DEF Signals
  <2>2. Signals(m)["protected"] => Signals(m)'["protected"]
    BY <1>4 DEF Signals
  <2>3. Signals(m)["evidenced"] => Signals(m)'["evidenced"]
    BY <1>6 DEF Signals
  <2>4. Signals(m)["verified"] => Signals(m)'["verified"]
    BY <1>5 DEF Signals
  <2>5. Signals(m)["settled"] => Signals(m)'["settled"]
    BY <1>1 DEF Signals, Onward
  <2>6. Signals(m)'["created"]
    BY DEF Signals
  <2>. QED BY <2>1, <2>2, <2>3, <2>4, <2>5, <2>6
<1>. QED BY <1>7 DEF Confirmed, CoreSteps

LEMMA DigestsStep ==
  ASSUME ContractInv, DigestsThere, [Next]_vars PROVE DigestsThere'
BY OnwardStep DEF Onward, DigestsThere

-----------------------------------------------------------------------------
(* A trade as it is told: the theorems                                      *)

ReplayInv == ReadInv /\ EndsHeard /\ DigestsThere

\* The core steps shown are those the contract's signals imply, and no more than those
\* while events are pending.
StepsCaughtUp ==
  published = <<>> =>
    \A m \in MilestoneId :
      /\ tables["milestones"][m] # NoRow <=> milestones[m].status # "Absent"
      /\ tables["milestones"][m] # NoRow =>
           doneSteps(m) \cap CoreSteps = implied(Signals(m), Core)
StepsHad ==
  \A m \in shownMilestones :
    /\ milestones[m].status # "Absent"
    /\ doneSteps(m) \cap CoreSteps \subseteq implied(Signals(m), Core)

LEMMA ReplayInvInit == ReplayInit => ReplayInv /\ StepsHad
<1>. SUFFICES ASSUME ReplayInit PROVE ReplayInv /\ StepsHad
  OBVIOUS
<1>1. ReadInv
  BY ReadInvInit DEF ReplayInit
<1>2. /\ published = <<>> /\ \A m \in MilestoneId : happened[m] = {}
      /\ \A m \in MilestoneId : milestones[m].status = "Absent"
  BY DEF ReplayInit, ReadInit, LogInit, Init, NoMilestone
<1>3. EndsHeard /\ DigestsThere
  BY <1>2 DEF EndsHeard, Heard, Speaks, DigestsThere
<1>4. shownMilestones = {}
  <2>1. PICK t : t = tables
    OBVIOUS
  <2>2. \A m \in MilestoneId : t["milestones"][m] = NoRow
    BY <2>1, EmptyFacts, TableNames DEF ReplayInit, ReadInit
  <2>. QED BY <2>1, <2>2 DEF shownMilestones
<1>. QED BY <1>1, <1>3, <1>4 DEF ReplayInv, StepsHad

LEMMA ReplayInvStep ==
  ASSUME TransactionIndexed = TRUE, ReplayInv, [ReplayNext]_replayVars
  PROVE  ReplayInv'
<1>1. ReadInv /\ ContractInv /\ EndsHeard /\ DigestsThere
  BY DEF ReplayInv, ReadInv
<1>2. CASE Call
  <2>1. ContractStep /\ UNCHANGED <<tables, happened>> /\ published = <<>>
    BY <1>2 DEF Call
  <2>2. ReadInv'
    BY <1>1, <2>1, ReadInvStep DEF ReadNext
  <2>3. EndsHeard'
    BY <1>1, <2>1, HeardContract
  <2>4. DigestsThere'
    BY <1>1, <2>1, StepsOfContract, DigestsStep
  <2>. QED BY <2>2, <2>3, <2>4 DEF ReplayInv
<1>3. CASE Told
  <2>1. applyBatch(Len(published)) /\ UNCHANGED vars
    BY <1>3 DEF Told, applyBatch
  <2>2. ContractInv' /\ DigestsThere'
    BY <1>1, <2>1, InvStep, DigestsStep
  <2>3. Shaped(tables)' /\ Followed'
    BY <1>1, <2>1, FollowBatch
  <2>4. EndsHeard'
    BY <1>1, <1>3, HeardTold
  <2>. QED BY <2>2, <2>3, <2>4 DEF ReplayInv, ReadInv
<1>4. CASE UNCHANGED <<readVars, happened>>
  <2>1. UNCHANGED <<vars, published, tables, happened>> /\ milestones' = milestones
    BY <1>4 DEF readVars, logVars, vars
  <2>2. ReadInv'
    BY <1>1, <1>4, ReadInvStep
  <2>3. EndsHeard'
    BY <1>1, <2>1 DEF EndsHeard, Heard, Speaks
  <2>4. DigestsThere'
    BY <1>1, <2>1 DEF DigestsThere
  <2>. QED BY <2>2, <2>3, <2>4 DEF ReplayInv
<1>. QED BY <1>2, <1>3, <1>4 DEF ReplayNext, OthersFillFeed, replayVars

LEMMA StepsCatchUp == ASSUME ReplayInv PROVE StepsCaughtUp
<1>. SUFFICES ASSUME published = <<>>, NEW m \in MilestoneId
              PROVE  /\ tables["milestones"][m] # NoRow <=> milestones[m].status # "Absent"
                     /\ tables["milestones"][m] # NoRow =>
                          doneSteps(m) \cap CoreSteps = implied(Signals(m), Core)
  BY DEF StepsCaughtUp
<1>1. ContractInv /\ Mirror(tables)
  BY DrainedMirror DEF ReplayInv, ReadInv, drained
<1>2. tables["milestones"][m] # NoRow <=> milestones[m].status # "Absent"
  BY <1>1, RowsThere
<1>. QED BY <1>1, <1>2, DoneOfContract

\* What is done is no less after a step, and still had.
LEMMA StepsStep ==
  ASSUME ReplayInv, StepsHad, StepsCaughtUp', [ReplayNext]_replayVars
  PROVE  /\ StepsHad'
         /\ \A m \in shownMilestones : doneSteps(m) \cap Range(Core) \subseteq doneSteps(m)'
<1>0. ContractInv /\ DigestsThere
  BY DEF ReplayInv, ReadInv
<1>1. ASSUME UNCHANGED tables, [Next]_vars
      PROVE  /\ StepsHad'
             /\ \A m \in shownMilestones : doneSteps(m) \cap Range(Core) \subseteq doneSteps(m)'
  <2>1. /\ shownMilestones' = shownMilestones
        /\ \A m : doneSteps(m)' = doneSteps(m)
    <3>1. \A m : observed(m)' = observed(m)
      BY <1>1 DEF observed, settledRecord
    <3>. QED BY <1>1, <3>1 DEF doneSteps, shownMilestones
  <2>2. ASSUME NEW m \in shownMilestones
        PROVE  /\ milestones'[m].status # "Absent"
               /\ doneSteps(m) \cap CoreSteps \subseteq implied(Signals(m)', Core)
    <3>1. /\ m \in MilestoneId /\ milestones[m].status # "Absent"
          /\ doneSteps(m) \cap CoreSteps \subseteq implied(Signals(m), Core)
      BY <2>2 DEF StepsHad, shownMilestones
    <3>2. milestones'[m].status # "Absent"
      BY <1>0, <1>1, <3>1, AmountStep
    <3>3. PICK had, later : had = Signals(m) /\ later = Signals(m)'
      OBVIOUS
    <3>4. Confirmed(had, later, CoreSteps)
      BY <1>0, <1>1, <3>1, <3>3, SignalsStay
    <3>5. implied(had, Core) \subseteq implied(later, Core)
      BY <3>4, CoreNames, ImpliedGrows
    <3>. QED BY <3>1, <3>2, <3>3, <3>5
  <2>3. StepsHad'
    BY <2>1, <2>2 DEF StepsHad
  <2>. QED BY <2>1, <2>3
<1>2. CASE Call
  BY <1>1, <1>2, StepsOfContract DEF Call
<1>3. CASE Told
  <2>1. published' = <<>> /\ milestones' = milestones /\ orders' = orders
    BY <1>3, NothingLeft DEF Told, applyBatch, ReplayInv, vars, orderVars
  <2>2. \A m : Signals(m)' = Signals(m)
    BY <2>1 DEF Signals
  <2>3. ASSUME NEW m \in MilestoneId
        PROVE  /\ tables'["milestones"][m] # NoRow <=> milestones[m].status # "Absent"
               /\ tables'["milestones"][m] # NoRow =>
                    doneSteps(m)' \cap CoreSteps = implied(Signals(m), Core)
    BY <2>1, <2>2 DEF StepsCaughtUp
  <2>4. StepsHad'
    BY <2>1, <2>2, <2>3 DEF StepsHad, shownMilestones
  <2>5. ASSUME NEW m \in shownMilestones
        PROVE  doneSteps(m) \cap Range(Core) \subseteq doneSteps(m)'
    <3>1. /\ m \in MilestoneId /\ milestones[m].status # "Absent"
          /\ doneSteps(m) \cap CoreSteps \subseteq implied(Signals(m), Core)
      BY <2>5 DEF StepsHad, shownMilestones
    <3>2. doneSteps(m)' \cap CoreSteps = implied(Signals(m), Core)
      BY <2>3, <3>1
    <3>. QED BY <3>1, <3>2, CoreNames
  <2>. QED BY <2>4, <2>5
<1>4. CASE UNCHANGED readVars
  BY <1>1, <1>4 DEF readVars, logVars
<1>. QED BY <1>2, <1>3, <1>4 DEF ReplayNext, OthersFillFeed, replayVars

LEMMA EndsTold == ASSUME ReplayInv PROVE EndToldTruly
<1>. SUFFICES ASSUME drained, NEW m \in shownMilestones
              PROVE  /\ "settled" \in doneSteps(m) <=> "milestone_settled" \in happened[m]
                     /\ "settled" \in skippedSteps(m) <=> "milestone_refunded" \in happened[m]
                     /\ waitsFor(m) <=>
                          happened[m] \cap {"milestone_settled", "milestone_refunded"} = {}
  BY DEF EndToldTruly, SettlementToldTruly, EndedWaitsForNobody
<1>1. /\ ContractInv /\ Mirror(tables)
      /\ m \in MilestoneId /\ tables["milestones"][m] # NoRow
  BY DrainedMirror DEF ReplayInv, ReadInv, shownMilestones
<1>2. /\ "milestone_settled" \in happened[m] <=> milestones[m].status = "Settled"
      /\ "milestone_refunded" \in happened[m] <=> milestones[m].status = "Refunded"
  BY <1>1 DEF ReplayInv, EndsHeard, Heard, Speaks, drained
<1>3. tables["milestones"][m].status = milestones[m].status
  BY <1>1, RowsThere DEF Mirror, Same, Says
<1>s. PICK seen : seen = observed(m)
  OBVIOUS
<1>4. /\ \A x \in CoreSteps : seen[x] <=> Signals(m)[x]
      /\ milestones[m].status = "Settled" => seen["requested"] /\ seen["advanced"]
  BY <1>1, <1>s, SeenOfContract
<1>5. "settled" \in doneSteps(m) <=> milestones[m].status = "Settled"
  <2>1. "settled" \in doneSteps(m) <=> seen["settled"]
    BY <1>s, DoneCore
  <2>. QED BY <1>4, <2>1 DEF CoreSteps, Signals
<1>6. "settled" \notin Range(Financing) /\ "settled" \in Steps
  BY CoreNames DEF Steps, CoreSteps
<1>7. "settled" \in skippedSteps(m) <=> milestones[m].status = "Refunded"
  BY <1>3, <1>5, <1>6 DEF skippedSteps
<1>8. milestones[m].status = "Settled" => ~waitsFor(m)
  <2>. SUFFICES ASSUME milestones[m].status = "Settled" PROVE ~waitsFor(m)
    OBVIOUS
  <2>1. Range(Financing) \subseteq doneSteps(m)
    BY <1>4, <1>s, DoneCore
  <2>2. Range(Core) \subseteq doneSteps(m)
    <3>1. PICK had : had = Signals(m)
      OBVIOUS
    <3>2. had["settled"]
      BY <3>1 DEF Signals
    <3>3. Chained(had, Core, 6)
      BY CoreNames, ImpliedFacts
    <3>4. implied(had, Core) = Range(Core)
      BY <3>2, <3>3, CoreNames DEF Chained
    <3>5. doneSteps(m) \cap CoreSteps = implied(had, Core)
      BY <1>1, <3>1, DoneOfContract
    <3>. QED BY <3>4, <3>5
  <2>. QED BY <2>1, <2>2 DEF waitsFor, Steps
<1>9. milestones[m].status = "Refunded" => ~waitsFor(m)
  BY <1>3 DEF waitsFor, skippedSteps
<1>10. milestones[m].status \notin {"Settled", "Refunded"} => waitsFor(m)
  BY <1>5, <1>6, <1>7 DEF waitsFor
<1>. QED BY <1>2, <1>5, <1>7, <1>8, <1>9, <1>10

\* While responses carry the transaction's index, what is told of a milestone's end is
\* what the contract published: the settlement is said done of a settled milestone,
\* skipped of a refunded one, and only an ended one waits for nobody (progress.ts).
THEOREM EndsAreTold ==
  ASSUME TransactionIndexed = TRUE
  PROVE  ReplaySpec => []EndToldTruly
<1>1. ReplayInit => ReplayInv
  BY ReplayInvInit
<1>2. ReplayInv /\ [ReplayNext]_replayVars => ReplayInv'
  BY ReplayInvStep
<1>3. ReplayInv => EndToldTruly
  BY EndsTold
<1>. QED BY <1>1, <1>2, <1>3, PTL DEF ReplaySpec

\* And a step of the core path that was told as done stays so, whatever dispute, new
\* delivery, refund or emptied escrow follows (demoProgress).
THEOREM ProgressIsKept ==
  ASSUME TransactionIndexed = TRUE
  PROVE  ReplaySpec => DoneStaysDone
<1>1. ReplayInit => ReplayInv /\ StepsHad
  BY ReplayInvInit
<1>2. ReplayInv /\ [ReplayNext]_replayVars => ReplayInv'
  BY ReplayInvStep
<1>3. ReplayInv => StepsCaughtUp
  BY StepsCatchUp
<1>4. ReplayInv /\ StepsHad /\ StepsCaughtUp' /\ [ReplayNext]_replayVars =>
        /\ StepsHad'
        /\ [\A m \in shownMilestones :
              doneSteps(m) \cap Range(Core) \subseteq doneSteps(m)']_replayVars
  BY StepsStep
<1>5. ReplaySpec =>
        [][\A m \in shownMilestones :
             doneSteps(m) \cap Range(Core) \subseteq doneSteps(m)']_replayVars
  BY <1>1, <1>2, <1>3, <1>4, PTL DEF ReplaySpec
<1>. QED BY <1>5 DEF DoneStaysDone

=============================================================================
