----------------------- MODULE LocalPaymentsProperties -----------------------
(***************************************************************************)
(* What the published local-money figures may rest on.                     *)
(***************************************************************************)
EXTENDS LocalPayments

Legs == [direction : Directions, wallet : {b.wallet : b \in Bodies}, usdc : {b.usdc : b \in Bodies},
         hash : Hash \cup {None}, status : {b.status : b \in Bodies}, verdict : Verdicts,
         at : Nat \cup {None}]

ASSUME RowsAssumption == None \notin Legs /\ "pass" \notin Posts

\* Every row has the columns of AnchorTransaction, and requests, pass and
\* cycles are what the code can hold.
LocalPaymentsTypeOK ==
  /\ now \in Nat /\ replays \in Nat
  /\ stage \in [Milestones -> 0..3] /\ rows \in [Milestones -> 0..3]
  /\ financedAt \in [Milestones -> Nat \cup {None}]
  /\ settledAt \in [Milestones -> Nat \cup {None}]
  /\ reports \in [Transfers -> Legs \cup {None}]
  /\ posts \in [Posts -> [body : Bodies, existing : Hash \cup {None, "absent"}] \cup {None}]
  /\ pass.step \in {"idle", "ask", "write", "derive", "store"}

-----------------------------------------------------------------------------
(* Facts about a leg                                                        *)

confirmed(t) == reports[t] # None /\ reports[t].verdict = "CONFIRMED"

\* A payment Stellar has closed which is the conversion a row reports.
Backs(leg, h) ==
  LET payment == Payments[h]
  IN  /\ payment.at <= now /\ payment.successful /\ payment.approved
      /\ payment.amount = leg.usdc
      /\ leg.direction = "TRY_TO_USDC" => payment.to = leg.wallet
      /\ leg.direction = "USDC_TO_TRY" => payment.from = leg.wallet

\* A payment of the approved asset by the milestone's supplier after its
\* advance, or to its buyer before its settlement.
BacksCycle(m, h) ==
  /\ Payments[h].successful /\ Payments[h].approved
  /\ \/ Payments[h].from = Supplier[m] /\ Payments[h].at >= financedAt[m]
     \/ Payments[h].to = Buyer[m] /\ Payments[h].at <= settledAt[m]

-----------------------------------------------------------------------------
(* Properties that survive every interleaving of posts, pass and replay     *)

\* A confirmed row is backed by some payment Stellar really records, of the
\* reported wallet, direction and amount, at the time the row says: however
\* posts and verdicts interleave, no report is confirmed out of nothing
\* (local-payments.controller.ts record, local-payment-cycles.ts
\* verifyReportedLegs).
ConfirmedIsReal ==
  \A t \in Transfers : confirmed(t) =>
    \E h \in Hash : Backs(reports[t], h) /\ reports[t].at = Payments[h].at

\* "Counts nothing, never counts wrongly": a milestone counted now, or stored
\* as VERIFIED, settled on chain after an advance, and Stellar records a
\* conversion of a party of that trade at the right time, whatever was
\* corrected, replayed or interrupted in between (deriveCycles, storeCycles).
CountedCycleIsReal ==
  \A m \in Milestones :
    m \in counted \/ (cycles[m] # None /\ cycles[m].status = "VERIFIED") =>
      stage[m] = 3 /\ \E h \in Hash : Payments[h].at <= now /\ BacksCycle(m, h)

\* Nothing is published that did not happen.
PublishedIsReal == ConfirmedIsReal /\ CountedCycleIsReal

\* A confirmation is lost only to a recheck or to a post that corrects the
\* hash it read: never to a replay, to deriving cycles, to a later verify or to
\* the end of the process ("a verdict, once reached, survives an indexer
\* replay").
VerdictSurvives ==
  [][\A t \in Transfers : confirmed(t) =>
        \/ confirmed(t)'
        \/ pass.mode = "recheck" /\ pass.leg = t
        \/ \E p \in Posts : /\ posts[p] # None /\ posts'[p] = None
                            /\ posts[p].body.transfer = t
                            /\ posts[p].body.hash \notin {None, posts[p].existing}]_vars

-----------------------------------------------------------------------------
(* Properties of the rows that were never in two hands                      *)

VARIABLE raced      \* history: transfers that two posts, or a post and a pass, held at once

Holding(t) == {p \in Posts : posts[p] # None /\ posts[p].body.transfer = t}
                \cup {process \in {"pass"} : t \in pass.todo}

HistoryInit == Init /\ raced = {}
HistorySpec ==
  /\ HistoryInit
  /\ [][Next /\ raced' = raced \cup {t \in Transfers : Cardinality(Holding(t)') > 1}]_<<vars, raced>>

\* The verdict on a row is about the hash the row holds: a corrected hash
\* never keeps the badge of the old one (the controller's comment on
\* hashChanged).  Only a row that was in two hands at once may break this.
VerdictOfHash ==
  \A t \in Transfers \ raced : reports[t] # None =>
    /\ reports[t].verdict = "CONFIRMED" => reports[t].hash \in LowerHashes /\ Backs(reports[t], reports[t].hash)
    /\ reports[t].verdict = "MISMATCHED" =>
         reports[t].hash \in LowerHashes /\ ~Backs(reports[t], reports[t].hash)

\* The hash stored with a verified cycle is a payment of a party to that
\* trade, so that anyone can look it up (CycleRow.legTxHash).
PublishedHash ==
  raced = {} => \A m \in Milestones : cycles[m] # None /\ cycles[m].status = "VERIFIED" =>
    cycles[m].leg \in LowerHashes /\ BacksCycle(m, cycles[m].leg)

\* A hash shown or stored stands for the payment it is said to be.
HashesHold == VerdictOfHash /\ PublishedHash

-----------------------------------------------------------------------------
(* Statements of the documentation the code does not keep                   *)

\* schema.prisma on UNVERIFIABLE: "Nothing to check against — no hash
\* reported, or Stellar has no such transaction".
UnverifiableIsUnknown ==
  [][pass.step = "write" /\ pass.answer.verdict = "UNVERIFIABLE" =>
       LET leg == pass.queue[pass.leg]
       IN  leg.hash = None \/ leg.usdc = None \/ Payments[leg.hash].at > now]_vars

\* definitions.ts: legsChainConfirmed counts the "AnchorTransaction rows with
\* stellarLegStatus CONFIRMED".
ConfirmedArePublished == legsChainConfirmed = Cardinality(confirmedLegs)

\* definitions.ts: medianTimeToLocalCashSeconds is the "median over confirmed
\* supplier off-ramp legs", so a leg gives at most one sample.
SamplesAreLegs == Cardinality(timeToCash) <= Cardinality(confirmedOffRamps)

=============================================================================
