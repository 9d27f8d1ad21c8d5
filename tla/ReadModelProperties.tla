------------------------- MODULE ReadModelProperties -------------------------
(***************************************************************************)
(* What the read models promise about the contract they mirror, and what   *)
(* the published figures promise about the money on the ledger.            *)
(***************************************************************************)
EXTENDS PublicMetrics

\* Reconciliation compares a row with the contract's entry field by field.
agrees(row, entry, fields) ==
  IF entry.status = "Absent" THEN row = NoRow
  ELSE \A k \in fields \cup {"status"} : row[k] = entry[k]

\* The row of the offer a milestone selected says Funded once it was paid; the
\* contract's temporary copy stays Accepted and may be gone.
SelectedOfferRow(m) ==
  accepted[m].status # "Absent" => tables.offers[accepted[m].id].status = accepted[m].status

\* ReconcileService finds nothing to say about an entity.
Reconciled(result) ==
  /\ result.presentOnChain = result.presentInDatabase
  /\ result.presentOnChain => result.reconciled

\* Once every published event is applied, reconciliation of any order or
\* milestone finds no difference, and the rows it does not look at say what the
\* contract's entries say too: requests, selected offers, positions, evidence
\* and disputes, whichever pages the events arrived in.
RowsReconcile ==
  drained =>
    /\ \A o \in OrderId : Reconciled(reconcileOrder(o))
    /\ \A m \in MilestoneId :
         /\ Reconciled(reconcileMilestone(m))
         /\ agrees(tables.requests[m], requests[m], {"requested_principal", "expires_at"})
         /\ SelectedOfferRow(m)
         /\ positions[m].status # "Absent" =>
              agrees(tables.positions[positions[m].offer_id], positions[m],
                     {"funder", "principal", "repayment"})
         /\ milestones[m].evidence_hash # NoDigest =>
              /\ tables.milestones[m].evidence_hash = milestones[m].evidence_hash
              /\ tables.anchors[m].content_hash = milestones[m].evidence_hash
    /\ \A d \in DisputeId : agrees(tables.disputes[d], disputes[d], {})

\* A batch the chain really published never fails closed: the positions a
\* settlement or a refund ends, and the rows an event needs, are there
\* (projector.ts throws otherwise, and the cursor parks for good).
NeverParked == \A n \in 1..Len(published) : ~projectBatch(SubSeq(published, 1, n), tables).failed

\* The tables always can follow the contract, and once they have, they agree.
RowsFollow == NeverParked /\ RowsReconcile

\* How the log is cut into pages changes nothing: the pending events in one
\* batch leave the tables a batch per event would have left (a replay fetches
\* other pages than the first run did).
PagingIrrelevant ==
  projectBatch(published, tables).tables =
    FoldLeft(LAMBDA rows, e : projectBatch(<<e>>, rows).tables, tables, published)

\* A row that says escrow is held, and a payout row for the same milestone, never
\* coexist: the three sums of protectedVolume are disjoint in every database
\* state a reader can see.
HeldOrPaid ==
  \A m \in MilestoneId :
    /\ tables.settlements[m] = NoRow \/ tables.refunds[m] = NoRow
    /\ tables.settlements[m] # NoRow \/ tables.refunds[m] # NoRow =>
         tables.milestones[m].status \in Terminal /\ tables.milestones[m].funded_amount = 0

Paid(a) == InitialBalance[a] - balances[a]
PartyOf(role) == CHOOSE a \in Account : \A roles \in Proposals : roles[role] = a
Capital == {a \in Account : \A roles \in Proposals : a \notin {roles[r] : r \in DOMAIN roles}}

\* The published volumes are the money that moved between the wallets: what
\* buyers put in and got back, what funders advanced and were repaid, what
\* suppliers received.
VolumesAreTransfers ==
  drained =>
    LET figures == protocolActivity(tables) IN
    /\ Paid(PartyOf("buyer")) = figures.protectedVolume - figures.refundVolume
    /\ -Paid(PartyOf("supplier")) = figures.advanceVolume + figures.supplierResidualVolume
    /\ FoldSet(LAMBDA a, total : total + Paid(a), 0, Capital)
         = figures.advanceVolume - figures.funderRepaymentVolume

\* No sum counts money twice, and each is the money that moved.
VolumesAreMoney == HeldOrPaid /\ VolumesAreTransfers

\* Every count equals what the catalogue says it counts, read off the contract.
CountsMatchCatalogue ==
  drained => \A k \in DOMAIN catalogue : protocolActivity(tables)[k] = catalogue[k]

\* A completed order is timed: its last payout row is there, whichever way the
\* last milestone ended, and is not earlier than its creation (an order without
\* a time is silently left out of the median).
CompletionsTimed ==
  drained =>
    LET times == completionTimes(tables) IN
    /\ DOMAIN times = {o \in OrderId : orders[o].status = "Completed"}
    /\ \A o \in DOMAIN times : times[o] \in 0..Horizon

\* The figures are those of the catalogue, the times included.
FiguresMatchCatalogue == CountsMatchCatalogue /\ CompletionsTimed

-----------------------------------------------------------------------------
(* Statements of the source the code does not keep                          *)

\* "re-running the same event produces the same row rather than a second one"
RedeliveryIsNoOp ==
  published # <<>> =>
    LET e == decodeEvent(Head(published))
        once == projectEvent(begin(tables), e)
    IN  projectEvent(once, e) = once

\* "adding them is exact and double-counts nothing": a reported volume is the
\* volume of some database state during the report.
ReportedVolumeWasTrue == reported => protectedVolume(snapshot.rows) \in volumes

=============================================================================
