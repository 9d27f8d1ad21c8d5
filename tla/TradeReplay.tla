----------------------------- MODULE TradeReplay -----------------------------
(***************************************************************************)
(* The trade as the lab and the guided tour tell it: the tour's narration  *)
(* of the contract's events, the picture of money moving between the       *)
(* parties, and the progress of a milestone derived from the read models.  *)
(*                                                                         *)
(* The picture is a fold over the narrated events, so it is kept up to     *)
(* date event by event instead of from a kept feed.  The feed holds the    *)
(* newest events of every order: when other trades fill it, the earlier    *)
(* events of a trade are no longer told.                                   *)
(*                                                                         *)
(* Words, themes and layout are left out.                                  *)
(***************************************************************************)
EXTENDS ReadModel

CONSTANT
  MaxPictured      \* bound: no further call once a picture holds this much escrow

VARIABLES
  picture,         \* by order: the balances of the tour's last frame
  happened,        \* by milestone: the events the contract published for it
  whole            \* history: the feed has lost nothing of the story so far

replayVars == <<readVars, picture, happened, whole>>

ZERO == [escrow |-> 0, supplier |-> 0, funderExposed |-> 0, buyerRefunded |-> 0]

-----------------------------------------------------------------------------
(* tour.ts: narrate, belongsTo                                              *)

told(actor, amountMeans, amount) ==
  [actor |-> actor, amountMeans |-> amountMeans, amount |-> amount]

moved_by_whole_escrow(e) == told("contract", "repaid", e.protected_amount)
                              @@ [supplierPayout |-> e.protected_amount]
settledStep(e) == told("contract", "repaid", e.protected_amount)
                    @@ [supplierPayout |-> e.supplier_payout]

NarratedFirst ==
  [order_created |-> "buyer", milestone_created |-> "buyer", order_accepted |-> "supplier",
   finance_requested |-> "supplier", funding_offer_created |-> "funder",
   offer_accepted |-> "supplier", evidence_submitted |-> "supplier",
   milestone_verified |-> "attestor", dispute_opened |-> "buyer",
   dispute_resolved |-> "resolver", order_completed |-> "contract"]

Narrated == DOMAIN NarratedFirst \cup
  {"milestone_funded", "advance_funded", "milestone_settled", "milestone_refunded"}

\* Every other event is real and not part of the story.
narrate(e) ==
  CASE e.name = "milestone_funded" -> told("buyer", "protected", e.amount)
    [] e.name = "advance_funded" -> told("funder", "advanced", e.principal)
    [] e.name = "milestone_settled" -> settledStep(e)
    [] e.name = "milestone_refunded" -> told("resolver", "refunded", e.refunded_amount)
    [] OTHER -> told(NarratedFirst[e.name], "nothing", 0)

belongsTo(e, o, rows) ==
  \/ "order" \in DOMAIN e /\ e.order = o
  \/ "milestone" \in DOMAIN e /\ rows.milestones[e.milestone].order_id = o

\* buildTour: the narrated events of one order.
toured(events, o, rows) ==
  SelectSeq(events, LAMBDA e : e.name \in Narrated /\ belongsTo(e, o, rows))

-----------------------------------------------------------------------------
(* flow.ts: buildFlow                                                       *)

\* A settlement closes the exposure of the whole order; the other amounts move
\* nothing.
moved(balance, step) ==
  CASE step.amountMeans = "protected" -> [balance EXCEPT !.escrow = @ + step.amount]
    [] step.amountMeans = "advanced" ->
         [balance EXCEPT !.supplier = @ + step.amount, !.funderExposed = @ + step.amount]
    [] step.amountMeans = "repaid" ->
         [balance EXCEPT !.escrow = @ - step.amount, !.supplier = @ + step.supplierPayout,
                         !.funderExposed = 0]
    [] step.amountMeans = "refunded" ->
         [balance EXCEPT !.escrow = @ - step.amount, !.buyerRefunded = @ + step.amount]
    [] OTHER -> balance

buildFlow(balance, events, o, rows) ==
  FoldLeft(LAMBDA b, e : moved(b, narrate(e)), balance, toured(events, o, rows))

-----------------------------------------------------------------------------
(* progress.ts: demoProgress                                                *)

Core == <<"created", "accepted", "protected", "evidenced", "verified", "settled">>
Financing == <<"requested", "offered", "chosen", "advanced">>
Steps == Range(Core) \cup Range(Financing)

ORDERED_STATUSES ==
  <<"Unfunded", "Funded", "FinanceRequested", "Financed", "Submitted", "Verified">>
place(status) == CHOOSE i \in DOMAIN ORDERED_STATUSES : ORDERED_STATUSES[i] = status

\* Faulty variant: refunded and disputed milestones have no place in the order.
reached_in_order(status, target) ==
  \/ status = "Settled"
  \/ /\ status \in Range(ORDERED_STATUSES)
     /\ place(status) >= place(target)
reached(status, target) ==
  CASE status = "Settled" -> TRUE
    [] status \in {"Refunded", "Disputed"} -> target = "Funded"
    [] OTHER -> place(status) >= place(target)

\* Faulty variant: any end counts.
ended_record(m) == tables.milestones[m].status \in Terminal
settledRecord(m) == tables.milestones[m].status = "Settled" \/ tables.settlements[m] # NoRow

\* What the rows of a milestone, of its order and of its financing say.
observed(m) ==
  LET row == tables.milestones[m]
      offered == {f \in rowsOf(tables, "offers") : tables.offers[f].milestone = m}
      chosen == {f \in offered : tables.offers[f].status \in {"Accepted", "Funded"}}
      paid == {f \in rowsOf(tables, "positions") : tables.positions[f].milestone = m}
  IN  [created |-> TRUE,
       accepted |-> tables.orders[row.order_id].status # "Created",
       protected |-> row.funded_amount = row.amount \/ reached(row.status, "Funded"),
       requested |-> tables.requests[m] # NoRow \/ reached(row.status, "FinanceRequested"),
       offered |-> offered # {},
       chosen |-> chosen # {},
       advanced |-> paid # {} \/ reached(row.status, "Financed"),
       evidenced |-> row.evidence_hash # NoDigest \/ reached(row.status, "Submitted"),
       verified |-> reached(row.status, "Verified"),
       settled |-> settledRecord(m)]

\* A late signal proves the earlier steps of its chain; an advance also proves
\* the protection.
implied(seen, chain) ==
  {chain[i] : i \in {j \in DOMAIN chain : \E k \in j..Len(chain) : seen[chain[k]]}}

doneSteps(m) ==
  LET seen == observed(m)
      steps == implied(seen, Core) \cup implied(seen, Financing)
  IN  IF "advanced" \in steps THEN steps \cup {"protected"} ELSE steps

\* Financing the milestone has moved past without any of it.
financingSkipped(m) ==
  LET seen == observed(m)
  IN  /\ \/ seen.evidenced \/ seen.verified
         \/ tables.milestones[m].status \in Terminal \cup {"Disputed"}
      /\ ~seen.requested /\ ~seen.advanced

skippedSteps(m) ==
  (IF tables.milestones[m].status = "Refunded" THEN Steps
   ELSE IF financingSkipped(m) THEN Range(Financing) ELSE {}) \ doneSteps(m)

\* The first of the others is the one that must happen next.
waitsFor(m) == Steps \ (doneSteps(m) \cup skippedSteps(m)) # {}

-----------------------------------------------------------------------------
ReplayInit ==
  /\ ReadInit
  /\ picture = [o \in OrderId |-> ZERO]
  /\ happened = [m \in MilestoneId |-> {}]
  /\ whole = TRUE

\* The page shows what the indexer has applied, so a call waits until the
\* events before it are told; that loses no picture.
Call ==
  /\ published = <<>>
  /\ \A o \in OrderId : picture[o].escrow < MaxPictured
  /\ ContractStep
  /\ UNCHANGED <<tables, picture, happened, whole>>

Told ==
  /\ applyBatch(Len(published))
  /\ picture' = [o \in OrderId |-> buildFlow(picture[o], published, o, tables')]
  /\ happened' = [m \in MilestoneId |-> happened[m] \cup
       {e.name : e \in {published[i] : i \in
           {j \in DOMAIN published : "milestone" \in DOMAIN published[j]
                                     /\ published[j].milestone = m}}}]
  /\ UNCHANGED whole

\* As many events of other trades as the feed holds: nothing earlier is told.
OthersFillFeed ==
  /\ published = <<>>
  /\ picture' = [o \in OrderId |-> ZERO] /\ picture' # picture
  /\ whole' = FALSE
  /\ UNCHANGED <<readVars, happened>>

ReplayNext == Call \/ Told \/ OthersFillFeed
ReplaySpec == ReplayInit /\ [][ReplayNext]_replayVars

=============================================================================
