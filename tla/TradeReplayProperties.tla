----------------------- MODULE TradeReplayProperties -----------------------
(***************************************************************************)
(* What the tour and the progress of a trade may say about it.             *)
(***************************************************************************)
EXTENDS TradeReplay

milestonesOf(o) == {m \in MilestoneId : milestones[m].order_id = o}
total(amounts, ids) == FoldSet(LAMBDA m, sum : sum + amounts[m], 0, ids)
shownMilestones == {m \in MilestoneId : tables.milestones[m] # NoRow}

\* "USDC the supplier has actually received": the supplier's balance in the
\* picture is what the supplier's wallet got, advances and remainders, with
\* neither paid twice (flow.ts), as long as the feed holds the whole story.
SupplierPictured ==
  drained /\ whole =>
    \A s \in {orders[o].supplier : o \in {p \in OrderId : orders[p].status # "Absent"}} :
      balances[s] - InitialBalance[s] =
        FoldSet(LAMBDA o, sum : sum + picture[o].supplier, 0,
                {o \in OrderId : orders[o].status # "Absent" /\ orders[o].supplier = s})

\* However little of a trade the feed still tells, the picture never shows more
\* money with the supplier than its wallet got (buildFlow over a feed that lost
\* its first events).
NeverOverstated ==
  drained => \A o \in OrderId : orders[o].status # "Absent" =>
    picture[o].supplier <= balances[orders[o].supplier] - InitialBalance[orders[o].supplier]

\* What the picture shows with the supplier is what it got, or less if the feed
\* has lost the beginning.
SupplierToldTruly == SupplierPictured /\ NeverOverstated

\* The settlement step says done exactly of a milestone the contract settled,
\* and skipped exactly of one it refunded, whatever way either ended
\* ("pretending otherwise would be a lie about where funds went", progress.ts).
SettlementToldTruly ==
  drained => \A m \in shownMilestones :
    /\ "settled" \in doneSteps(m) <=> "milestone_settled" \in happened[m]
    /\ "settled" \in skippedSteps(m) <=> "milestone_refunded" \in happened[m]

\* Nothing is left waiting on anyone once the milestone has ended, and something
\* is before (demoProgress).
EndedWaitsForNobody ==
  drained => \A m \in shownMilestones :
    waitsFor(m) <=> happened[m] \cap {"milestone_settled", "milestone_refunded"} = {}

\* The end of a milestone is told as it was, and ends the waiting.
EndToldTruly == SettlementToldTruly /\ EndedWaitsForNobody

\* A step of the core path that was done is never taken back: not by a
\* dispute, a resubmission, a refund or an emptied escrow (the ordered statuses
\* stand in for what the rows no longer show).
DoneStaysDone ==
  [][\A m \in shownMilestones : doneSteps(m) \cap Range(Core) \subseteq doneSteps(m)']_replayVars

-----------------------------------------------------------------------------
(* Statements of the source the code does not keep                          *)

\* flow.ts: "Buyer money the contract is holding right now".
EscrowIsHeld ==
  drained => \A o \in OrderId :
    picture[o].escrow = total([m \in MilestoneId |-> milestones[m].funded_amount], milestonesOf(o))

\* flow.ts: "Funder money currently out in the world, not yet repaid".
ExposureIsOutstanding ==
  drained => \A o \in OrderId :
    picture[o].funderExposed =
      total([m \in MilestoneId |-> IF positions[m].status \in {"Active", "Closed"}
                                   THEN positions[m].principal ELSE 0], milestonesOf(o))

\* progress.ts: a milestone that moved past financing "without a request or a
\* position was simply never financed", shown as skipped: an advance said done
\* was paid.
AdvanceHappened ==
  drained => \A m \in shownMilestones :
    "advanced" \in doneSteps(m) => "advance_funded" \in happened[m]

\* progress.ts: "A milestone cannot be verified without evidence".
EvidenceHappened ==
  drained => \A m \in shownMilestones :
    "evidenced" \in doneSteps(m) => "evidence_submitted" \in happened[m]

\* progress.ts: "A step is done when the chain says it happened".
AcceptanceHappened ==
  drained => \A m \in shownMilestones :
    "accepted" \in doneSteps(m) => orders[milestones[m].order_id].status \in {"Active", "Completed"}

\* tour.ts: the actor is "Who acted, by role rather than by address".
DisputantNamed ==
  \A i \in DOMAIN published :
    published[i].name = "dispute_opened" =>
      order_of(published[i].milestone)[narrate(published[i]).actor] = published[i].opened_by

=============================================================================
