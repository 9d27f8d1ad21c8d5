---------------------------- MODULE LocalPayments ----------------------------
(***************************************************************************)
(* Reports of Anchor transfers, their verification against Stellar and     *)
(* the completed local-payment finance cycles built on them: the           *)
(* local-payments controller, the cycles process and the local-money part  *)
(* of the public metrics.                                                  *)
(*                                                                         *)
(* A POST reads the stored hash and later upserts; a verification pass     *)
(* reads the rows, asks Horizon about each, and later writes each verdict  *)
(* by row id.  Posts and a pass interleave, Horizon may fail, the pass may *)
(* die, and the chain rows may be dropped by a replay.  The operator runs  *)
(* one pass at a time: a second command started beside it is left out.     *)
(*                                                                         *)
(* Abstracted: the patterns of ids and amounts (Bodies holds well-formed   *)
(* and refused ones), fixed-point text, one payment operation per Stellar  *)
(* transaction, and the four queries of deriveCycles, read here at once.   *)
(***************************************************************************)
EXTENDS Naturals, FiniteSets

CONSTANTS
  Transfers,      \* anchorTransactionId values
  Posts,          \* requests that may be in flight at one time
  Bodies,         \* the request bodies clients send
  Payments,       \* function: Stellar hash -> the payment it holds, with its close time
  LowerHashes,    \* the hashes written in lower case, which the verifier can look up
  Milestones, Supplier, Buyer,
  MaxTime, MaxReplays,
  None

Hash == DOMAIN Payments
Directions == {"TRY_TO_USDC", "USDC_TO_TRY"}
Verdicts == {"UNCHECKED", "CONFIRMED", "MISMATCHED", "UNVERIFIABLE"}

ASSUME LocalPaymentsAssumption ==
  /\ \A h \in Hash : Payments[h].at \in Nat
  /\ None \notin Hash /\ None \notin Nat /\ "absent" \notin Hash \cup {None}
  /\ LowerHashes \subseteq Hash

\* Finitely many requests are in flight; a body that is not refused names a
\* transfer.
ASSUME RequestsAssumption ==
  /\ IsFiniteSet(Posts) /\ None \notin Posts
  /\ \A b \in Bodies : b.transfer \in Transfers \cup {None}

VARIABLES
  now,            \* ledger close time
  stage, rows,    \* per milestone, on chain and in the read model: 0 absent, 1 created, 2 financed, 3 settled
  financedAt, settledAt,
  replays,
  reports,        \* AnchorTransaction, one row per transfer
  posts,          \* requests between their read and their upsert
  pass,           \* the cycles process
  cycles          \* LocalPaymentCycleReadModel

chainVars == <<now, stage, financedAt, settledAt>>
vars == <<chainVars, rows, replays, reports, posts, pass, cycles>>

-----------------------------------------------------------------------------
(* The decision logic, with faulty variants                                 *)

refused(b) == b.forbidden \/ b.direction \notin Directions \/ b.transfer = None
              \/ (b.hash # None /\ b.hash \notin Hash)

hash_never_changed(b, existing) == FALSE
\* A corrected hash invalidates whatever Stellar said about the old one.
hashChanged(b, existing) == b.hash # None /\ existing # "absent" /\ existing # b.hash

\* The column values of a row created from a body.
created(b) ==
  [direction |-> b.direction, wallet |-> b.wallet, usdc |-> b.usdc, hash |-> b.hash,
   status |-> b.status, verdict |-> "UNCHECKED", at |-> None]

\* An update writes the status, the hash when one is given, and drops the
\* verdict when the hash changed since the row was read.
updated(row, b, existing) ==
  LET kept == [row EXCEPT !.status = b.status, !.hash = IF b.hash = None THEN @ ELSE b.hash]
  IN  IF hashChanged(b, existing) THEN [kept EXCEPT !.verdict = "UNCHECKED", !.at = None] ELSE kept

right_asset_only(leg, payment) == payment.successful /\ payment.approved
\* On-ramp: the wallet must receive the USDC; off-ramp: it must send it.
matches(leg, payment) ==
  /\ payment.successful /\ payment.approved
  /\ leg.wallet = IF leg.direction = "TRY_TO_USDC" THEN payment.to ELSE payment.from
  /\ payment.amount = leg.usdc

\* The verdict on a leg when Stellar has closed ledgers up to a time.
verifyStellarLeg(leg, time) ==
  IF leg.hash \notin LowerHashes \/ leg.usdc = None \/ Payments[leg.hash].at > time
  THEN [verdict |-> "UNVERIFIABLE", at |-> None]
  ELSE IF matches(leg, Payments[leg.hash])
       THEN [verdict |-> "CONFIRMED", at |-> Payments[leg.hash].at]
       ELSE [verdict |-> "MISMATCHED", at |-> None]

every_report(mode) == {t \in Transfers : reports[t] # None}
\* verify looks at the unchecked rows, recheck at every row; derive and status at none.
toCheck(mode) == {t \in Transfers : /\ reports[t] # None
                                    /\ \/ mode = "recheck"
                                       \/ mode = "verify" /\ reports[t].verdict = "UNCHECKED"}

Horizon_outage == [verdict |-> "UNVERIFIABLE", at |-> None]

-----------------------------------------------------------------------------
(* deriveCycles: from the rows in the database alone                        *)

confirmedLegs == {t \in Transfers : reports[t] # None /\ reports[t].verdict = "CONFIRMED"}

\* The advance became local money: a conversion no earlier than the advance.
offRamp(m) == {t \in confirmedLegs : /\ reports[t].direction = "USDC_TO_TRY"
                                     /\ reports[t].wallet = Supplier[m]
                                     /\ reports[t].at # None /\ reports[t].at >= financedAt[m]}

\* Local capital entered the buyer's wallet before the milestone settled.
onRamp(m) == {t \in confirmedLegs : /\ rows[m] = 3
                                    /\ reports[t].direction = "TRY_TO_USDC"
                                    /\ reports[t].wallet = Buyer[m]
                                    /\ reports[t].at # None /\ reports[t].at <= settledAt[m]}

\* The legs a cycle may be linked to: the database returns them in no order.
supporting(m) == IF offRamp(m) # {} THEN offRamp(m) ELSE onRamp(m)

financed == {m \in Milestones : rows[m] >= 2}
counted == {m \in financed : rows[m] = 3 /\ supporting(m) # {}}

candidate == [status |-> "CANDIDATE", leg |-> None]

\* The answers deriveCycles may give: one row per financed milestone.
derivations ==
  {d \in [financed -> [status : {"CANDIDATE", "VERIFIED"}, leg : {None} \cup Hash]] :
     \A m \in financed :
       IF m \in counted THEN \E t \in supporting(m) : d[m] = [status |-> "VERIFIED", leg |-> reports[t].hash]
       ELSE d[m] = candidate}

\* storeCycles: upsert by milestone, skipping the milestones without a row.
stored(d) == [m \in Milestones |-> IF m \in DOMAIN d /\ rows[m] >= 1 THEN d[m] ELSE cycles[m]]

-----------------------------------------------------------------------------
(* Published figures                                                        *)

completed == {t \in Transfers : reports[t] # None /\ reports[t].status = "completed"}
legsChainConfirmed == Cardinality({t \in completed : reports[t].verdict = "CONFIRMED"})

confirmedOffRamps == {t \in completed : /\ reports[t].direction = "USDC_TO_TRY"
                                        /\ reports[t].verdict = "CONFIRMED" /\ reports[t].at # None}

\* One sample for each position that some confirmed off-ramp follows.
timeToCash == {m \in financed : \E t \in confirmedOffRamps : /\ reports[t].wallet = Supplier[m]
                                                            /\ reports[t].at >= financedAt[m]}

-----------------------------------------------------------------------------
(* Actions                                                                  *)

idle == [step |-> "idle", mode |-> None, queue |-> <<>>, todo |-> {}, leg |-> None,
         answer |-> None, derived |-> <<>>]

Init ==
  /\ now = 0 /\ replays = 0
  /\ stage = [m \in Milestones |-> 0] /\ rows = stage
  /\ financedAt = [m \in Milestones |-> None] /\ settledAt = financedAt
  /\ reports = [t \in Transfers |-> None]
  /\ posts = [p \in Posts |-> None]
  /\ pass = idle
  /\ cycles = [m \in Milestones |-> None]

\* POST /local-payments up to findUnique: the refusals, then the stored hash.
Receive(p, b) ==
  /\ posts[p] = None /\ ~refused(b)
  /\ posts' = [posts EXCEPT ![p] =
       [body |-> b, existing |-> IF reports[b.transfer] = None THEN "absent"
                                 ELSE reports[b.transfer].hash]]
  /\ UNCHANGED <<chainVars, rows, replays, reports, pass, cycles>>

\* The upsert, which sees the row as it is by then.
Upsert(p) ==
  /\ posts[p] # None
  /\ LET b == posts[p].body
         t == b.transfer
     IN  reports' = [reports EXCEPT ![t] =
           IF @ = None THEN created(b) ELSE updated(@, b, posts[p].existing)]
  /\ posts' = [posts EXCEPT ![p] = None]
  /\ UNCHANGED <<chainVars, rows, replays, pass, cycles>>

\* verifyReportedLegs reads its rows once, at the start of the pass.
StartPass(mode) ==
  /\ pass.step = "idle"
  /\ LET read == toCheck(mode)
     IN  pass' = [idle EXCEPT !.step = IF read = {} THEN "derive" ELSE "ask", !.mode = mode,
                              !.todo = read, !.queue = [t \in read |-> reports[t]]]
  /\ UNCHANGED <<chainVars, rows, replays, reports, posts, cycles>>

\* Horizon answers about one of the rows as they were read, or is unreachable.
AskHorizon(t) ==
  /\ pass.step = "ask" /\ t \in pass.todo
  /\ \E answer \in {verifyStellarLeg(pass.queue[t], now), Horizon_outage} :
       pass' = [pass EXCEPT !.step = "write", !.leg = t, !.answer = answer]
  /\ UNCHANGED <<chainVars, rows, replays, reports, posts, cycles>>

\* The verdict is written by row id, whatever the row says by then.
WriteVerdict ==
  /\ pass.step = "write"
  /\ reports' = [reports EXCEPT ![pass.leg] =
       [@ EXCEPT !.verdict = pass.answer.verdict, !.at = pass.answer.at]]
  /\ pass' = [pass EXCEPT !.todo = @ \ {pass.leg}, !.leg = None, !.answer = None,
                          !.step = IF pass.todo = {pass.leg} THEN "derive" ELSE "ask"]
  /\ UNCHANGED <<chainVars, rows, replays, posts, cycles>>

\* deriveCycles; the status mode only prints them.
Derive ==
  /\ pass.step = "derive"
  /\ IF pass.mode = "status" THEN pass' = idle
     ELSE \E d \in derivations : pass' = [idle EXCEPT !.step = "store", !.derived = d]
  /\ UNCHANGED <<chainVars, rows, replays, reports, posts, cycles>>

Store ==
  /\ pass.step = "store"
  /\ cycles' = stored(pass.derived)
  /\ pass' = idle
  /\ UNCHANGED <<chainVars, rows, replays, reports, posts>>

\* The cycles process dies; what it wrote stays.
PassDies ==
  /\ pass.step # "idle" /\ pass' = idle
  /\ UNCHANGED <<chainVars, rows, replays, reports, posts, cycles>>

Tick ==
  /\ now < MaxTime /\ now' = now + 1
  /\ UNCHANGED <<stage, financedAt, settledAt, rows, replays, reports, posts, pass, cycles>>

\* On chain: a milestone is created, financed, settled.
Progress(m) ==
  /\ stage[m] < 3
  /\ stage' = [stage EXCEPT ![m] = @ + 1]
  /\ financedAt' = IF stage[m] = 1 THEN [financedAt EXCEPT ![m] = now] ELSE financedAt
  /\ settledAt' = IF stage[m] = 2 THEN [settledAt EXCEPT ![m] = now] ELSE settledAt
  /\ UNCHANGED <<now, rows, replays, reports, posts, pass, cycles>>

\* The indexer projects the milestone's next event.
Project(m) ==
  /\ rows[m] < stage[m] /\ rows' = [rows EXCEPT ![m] = @ + 1]
  /\ UNCHANGED <<chainVars, replays, reports, posts, pass, cycles>>

\* indexer replay: the chain rows go, and with the milestones their cycles.
Replay ==
  /\ replays < MaxReplays /\ replays' = replays + 1
  /\ rows' = [m \in Milestones |-> 0]
  /\ cycles' = [m \in Milestones |-> None]
  /\ UNCHANGED <<chainVars, reports, posts, pass>>

Next ==
  \/ \E p \in Posts, b \in Bodies : Receive(p, b)
  \/ \E p \in Posts : Upsert(p)
  \/ \E mode \in {"verify", "recheck", "derive", "status"} : StartPass(mode)
  \/ \E t \in Transfers : AskHorizon(t)
  \/ WriteVerdict \/ Derive \/ Store \/ PassDies
  \/ Tick \/ Replay
  \/ \E m \in Milestones : Progress(m) \/ Project(m)

Spec == Init /\ [][Next]_vars

=============================================================================
