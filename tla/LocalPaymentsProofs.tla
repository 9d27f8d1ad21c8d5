------------------------- MODULE LocalPaymentsProofs -------------------------
(***************************************************************************)
(* For any transfers, requests, payments and trades: nothing is published  *)
(* that did not happen, a verdict survives, and a hash shown stands for    *)
(* the payment it is said to be.                                           *)
(***************************************************************************)
EXTENDS LocalPaymentsProperties, FiniteSetTheorems, TLAPS

-----------------------------------------------------------------------------
(* The inductive invariant                                                  *)

Entry == [body : Bodies, existing : Hash \cup {None, "absent"}]
Answer == [verdict : Verdicts, at : Nat \cup {None}]

\* What a verdict says of a report, by the hash it was asked about.
Judged(leg, answer) ==
  /\ answer.verdict = "CONFIRMED" =>
       leg.hash \in LowerHashes /\ Backs(leg, leg.hash) /\ answer.at = Payments[leg.hash].at
  /\ answer.verdict = "MISMATCHED" =>
       leg.hash \in LowerHashes /\ ~ matches(leg, Payments[leg.hash])

\* A row keeps the conversion it reports; only status, hash and verdict are rewritten.
SameConversion(row, leg) ==
  row.direction = leg.direction /\ row.wallet = leg.wallet /\ row.usdc = leg.usdc

PostsInv == \A p \in Posts : posts[p] # None => ~ refused(posts[p].body)

Reading == pass.step \in {"ask", "write"}

\* A pass in hand of rows: each still reports the conversion that was read, a
\* verifying pass found none of them confirmed, and an answer is about one of them.
PassInv ==
  /\ pass = [step |-> pass.step, mode |-> pass.mode, queue |-> pass.queue, todo |-> pass.todo,
             leg |-> pass.leg, answer |-> pass.answer, derived |-> pass.derived]
  /\ pass.todo \subseteq Transfers
  /\ ~ Reading => pass.todo = {}
  /\ Reading => pass.mode \in {"verify", "recheck"}
  /\ Reading => \A t \in pass.todo :
       /\ reports[t] \in Legs /\ pass.queue[t] \in Legs
       /\ SameConversion(reports[t], pass.queue[t])
       /\ pass.mode = "verify" => reports[t].verdict # "CONFIRMED"
  /\ pass.step = "write" =>
       /\ pass.leg \in pass.todo /\ pass.answer \in Answer
       /\ Judged(pass.queue[pass.leg], pass.answer)

\* The read model is never ahead of the chain, which dates what it records.
ChainInv ==
  \A m \in Milestones :
    /\ rows[m] <= stage[m]
    /\ stage[m] >= 2 => financedAt[m] \in Nat
    /\ stage[m] = 3 => settledAt[m] \in Nat

\* The trade settled after an advance, and a party of it converted at the right time.
Real(m) == stage[m] = 3 /\ \E h \in Hash : Payments[h].at <= now /\ BacksCycle(m, h)

\* What was derived or stored as verified happened, and stays so.
CyclesInv ==
  /\ \A m \in Milestones : cycles[m] # None /\ cycles[m].status = "VERIFIED" => Real(m)
  /\ pass.step = "store" =>
       \A m \in Milestones \cap DOMAIN pass.derived :
         pass.derived[m].status = "VERIFIED" => Real(m)

PaymentsInv ==
  LocalPaymentsTypeOK /\ PostsInv /\ PassInv /\ ChainInv /\ ConfirmedIsReal /\ CyclesInv

-----------------------------------------------------------------------------
(* Legs and verdicts                                                        *)

LEMMA PaymentTimes == \A h \in Hash : Payments[h].at \in Nat
BY LocalPaymentsAssumption

LEMMA VerdictJudges ==
  ASSUME NEW leg \in Legs, now \in Nat,
         NEW answer \in {verifyStellarLeg(leg, now), Horizon_outage}
  PROVE  answer \in Answer /\ Judged(leg, answer)
<1>1. CASE answer = Horizon_outage
  BY <1>1 DEF Horizon_outage, Answer, Verdicts, Judged
<1>2. CASE answer = [verdict |-> "UNVERIFIABLE", at |-> None]
  BY <1>2 DEF Answer, Verdicts, Judged
<1>3. CASE /\ leg.hash \in LowerHashes /\ ~ (Payments[leg.hash].at > now)
           /\ matches(leg, Payments[leg.hash])
           /\ answer = [verdict |-> "CONFIRMED", at |-> Payments[leg.hash].at]
  <2>1. leg.hash \in Hash /\ Payments[leg.hash].at \in Nat
    BY <1>3, LocalPaymentsAssumption
  <2>2. Backs(leg, leg.hash)
    BY <1>3, <2>1 DEF Backs, matches
  <2>. QED
    BY <1>3, <2>1, <2>2 DEF Answer, Verdicts, Judged
<1>4. CASE /\ leg.hash \in LowerHashes /\ ~ matches(leg, Payments[leg.hash])
           /\ answer = [verdict |-> "MISMATCHED", at |-> None]
  BY <1>4 DEF Answer, Verdicts, Judged
<1>. QED
  BY <1>1, <1>2, <1>3, <1>4 DEF verifyStellarLeg

LEMMA CreatedRow ==
  ASSUME NEW b \in Bodies, ~ refused(b)
  PROVE  created(b) \in Legs /\ created(b).verdict = "UNCHECKED"
BY DEF created, refused, Legs, Verdicts

LEMMA UpdatedRow ==
  ASSUME NEW row \in Legs, NEW b \in Bodies, ~ refused(b), NEW existing
  PROVE  /\ updated(row, b, existing) \in Legs
         /\ SameConversion(updated(row, b, existing), row)
         /\ \/ /\ updated(row, b, existing).verdict = row.verdict
               /\ updated(row, b, existing).at = row.at
               /\ ~ hashChanged(b, existing)
            \/ /\ updated(row, b, existing).verdict = "UNCHECKED"
               /\ hashChanged(b, existing)
         /\ updated(row, b, existing).hash = IF b.hash = None THEN row.hash ELSE b.hash
<1>. DEFINE kept == [row EXCEPT !.status = b.status, !.hash = IF b.hash = None THEN @ ELSE b.hash]
<1>1. b.hash \in Hash \cup {None}
  BY DEF refused
<1>2. /\ kept \in Legs /\ SameConversion(kept, row)
      /\ kept.verdict = row.verdict /\ kept.at = row.at
      /\ kept.hash = IF b.hash = None THEN row.hash ELSE b.hash
  BY <1>1 DEF Legs, SameConversion
<1>3. updated(row, b, existing) = IF hashChanged(b, existing)
                                  THEN [kept EXCEPT !.verdict = "UNCHECKED", !.at = None] ELSE kept
  BY DEF updated
<1>. HIDE DEF kept
<1>4. CASE hashChanged(b, existing)
  <2>. DEFINE unchecked == [kept EXCEPT !.verdict = "UNCHECKED", !.at = None]
  <2>1. unchecked \in Legs
    BY <1>2 DEF Legs, Verdicts
  <2>2. /\ unchecked.direction = kept.direction /\ unchecked.wallet = kept.wallet
        /\ unchecked.usdc = kept.usdc /\ unchecked.hash = kept.hash
        /\ unchecked.verdict = "UNCHECKED"
    BY <1>2 DEF Legs
  <2>3. updated(row, b, existing) = unchecked
    BY <1>3, <1>4
  <2>. HIDE DEF unchecked
  <2>. QED
    BY <1>2, <1>4, <2>1, <2>2, <2>3 DEF SameConversion
<1>5. CASE ~ hashChanged(b, existing)
  BY <1>2, <1>3, <1>5
<1>. QED
  BY <1>4, <1>5

\* Facts about a conversion carry over to a row that reports the same one.
LEMMA BacksSame ==
  ASSUME NEW row, NEW leg, SameConversion(row, leg), NEW h
  PROVE  /\ Backs(row, h) <=> Backs(leg, h)
         /\ matches(row, Payments[h]) <=> matches(leg, Payments[h])
BY DEF Backs, matches, SameConversion

LEMMA BacksLater ==
  ASSUME now \in Nat, now' \in Nat, now' >= now, NEW leg, NEW h \in Hash, Backs(leg, h)
  PROVE  Backs(leg, h)'
BY PaymentTimes DEF Backs


\* A counted milestone is real: its chain facts and a confirmed leg say so.
LEMMA CountedIsReal ==
  ASSUME LocalPaymentsTypeOK, ChainInv, ConfirmedIsReal, NEW m \in counted
  PROVE  m \in Milestones /\ Real(m)
<1>1. /\ m \in Milestones /\ rows[m] = 3 /\ supporting(m) # {}
      /\ rows[m] \in 0..3 /\ stage[m] \in 0..3 /\ rows[m] <= stage[m]
  BY DEF counted, financed, ChainInv, LocalPaymentsTypeOK
<1>2. stage[m] = 3
  BY <1>1
<1>3. PICK t \in supporting(m) : TRUE
  BY <1>1
<1>4. /\ t \in Transfers /\ confirmed(t) /\ reports[t].at # None
      /\ \/ /\ reports[t].direction = "USDC_TO_TRY" /\ reports[t].wallet = Supplier[m]
            /\ reports[t].at >= financedAt[m]
         \/ /\ reports[t].direction = "TRY_TO_USDC" /\ reports[t].wallet = Buyer[m]
            /\ reports[t].at <= settledAt[m]
  BY <1>3 DEF supporting, offRamp, onRamp, confirmedLegs, confirmed
<1>5. PICK h \in Hash : Backs(reports[t], h) /\ reports[t].at = Payments[h].at
  BY <1>4 DEF ConfirmedIsReal
<1>6. BacksCycle(m, h) /\ Payments[h].at <= now
  BY <1>4, <1>5 DEF Backs, BacksCycle
<1>. QED
  BY <1>1, <1>2, <1>6 DEF Real

\* A milestone is derived as verified only when it is counted.
LEMMA DerivedIsReal ==
  ASSUME LocalPaymentsTypeOK, ChainInv, ConfirmedIsReal, NEW d \in derivations,
         NEW m \in Milestones \cap DOMAIN d, d[m].status = "VERIFIED"
  PROVE  Real(m) /\ m \in counted
<1>1. m \in financed
  BY DEF derivations
<1>2. m \in counted
  BY <1>1 DEF derivations, candidate
<1>. QED
  BY <1>2, CountedIsReal

-----------------------------------------------------------------------------
(* What steps leave alone                                                   *)

LEMMA ConfirmedKept ==
  ASSUME LocalPaymentsTypeOK, ConfirmedIsReal, UNCHANGED reports, now' \in Nat, now' >= now
  PROVE  ConfirmedIsReal'
<1>. SUFFICES ASSUME NEW t \in Transfers, confirmed(t)'
              PROVE  (\E h \in Hash : Backs(reports[t], h) /\ reports[t].at = Payments[h].at)'
  BY DEF ConfirmedIsReal
<1>1. PICK h \in Hash : Backs(reports[t], h) /\ reports[t].at = Payments[h].at
  BY DEF ConfirmedIsReal, confirmed
<1>2. Backs(reports[t], h)'
  <2>1. Payments[h].at <= now'
    BY <1>1, PaymentTimes DEF Backs, LocalPaymentsTypeOK
  <2>. QED
    BY <1>1, <2>1 DEF Backs
<1>. QED
  BY <1>1, <1>2

LEMMA RealKept ==
  ASSUME LocalPaymentsTypeOK, now' \in Nat, now' >= now,
         NEW m \in Milestones, Real(m),
         stage'[m] = stage[m], financedAt'[m] = financedAt[m], settledAt'[m] = settledAt[m]
  PROVE  Real(m)'
<1>1. PICK h \in Hash : Payments[h].at <= now /\ BacksCycle(m, h)
  BY DEF Real
<1>2. Payments[h].at <= now'
  BY <1>1, PaymentTimes DEF LocalPaymentsTypeOK
<1>3. BacksCycle(m, h)'
  BY <1>1 DEF BacksCycle
<1>. QED
  BY <1>2, <1>3 DEF Real

LEMMA CyclesKept ==
  ASSUME LocalPaymentsTypeOK, CyclesInv, UNCHANGED <<stage, financedAt, settledAt, cycles>>,
         now' \in Nat, now' >= now, pass'.step = "store" => UNCHANGED pass
  PROVE  CyclesInv'
<1>1. ASSUME NEW m \in Milestones, Real(m) PROVE Real(m)'
  BY <1>1, RealKept
<1>. QED
  BY <1>1 DEF CyclesInv

LEMMA ChainKept ==
  ASSUME ChainInv, UNCHANGED <<stage, financedAt, settledAt, rows>>
  PROVE  ChainInv'
BY DEF ChainInv

\* A pass that other steps leave alone, with the rows it read.
LEMMA PassKept ==
  ASSUME PassInv, UNCHANGED <<pass, reports>>, now \in Nat, now' \in Nat, now' >= now
  PROVE  PassInv'
<1>1. ASSUME NEW leg, NEW answer, Judged(leg, answer) PROVE Judged(leg, answer)'
  <2>1. leg.hash \in LowerHashes => leg.hash \in Hash
    BY LocalPaymentsAssumption
  <2>2. leg.hash \in LowerHashes /\ Backs(leg, leg.hash) => Backs(leg, leg.hash)'
    BY <2>1, PaymentTimes DEF Backs
  <2>. QED
    BY <1>1, <2>2 DEF Judged, matches
<1>2. (pass.step = "write" => Judged(pass.queue[pass.leg], pass.answer))'
  BY <1>1 DEF PassInv
<1>3. Reading' <=> Reading
  BY DEF Reading
<1>. QED
  BY <1>2, <1>3 DEF PassInv

-----------------------------------------------------------------------------
(* Steps                                                                    *)

\* The row a request names, when it is not refused.
LEMMA NamedRow ==
  ASSUME LocalPaymentsTypeOK, NEW b \in Bodies, ~ refused(b)
  PROVE  b.transfer \in Transfers /\ reports[b.transfer] \in Legs \cup {None}
BY RequestsAssumption DEF refused, LocalPaymentsTypeOK

LEMMA ReceiveStep ==
  ASSUME PaymentsInv, NEW p \in Posts, NEW b \in Bodies, Receive(p, b)
  PROVE  PaymentsInv'
<1>. USE DEF PaymentsInv
<1>. DEFINE entry == [body |-> b, existing |-> IF reports[b.transfer] = None THEN "absent"
                                               ELSE reports[b.transfer].hash]
<1>1. /\ ~ refused(b) /\ posts' = [posts EXCEPT ![p] = entry]
      /\ UNCHANGED <<now, stage, financedAt, settledAt, rows, replays, reports, pass, cycles>>
  BY DEF Receive, chainVars
<1>2. entry \in Entry
  BY <1>1, NamedRow DEF Entry, Legs
<1>3. entry.body = b
  OBVIOUS
<1>. HIDE DEF entry
<1>4. posts' \in [Posts -> Entry \cup {None}]
  BY <1>1, <1>2 DEF LocalPaymentsTypeOK, Entry
<1>5. LocalPaymentsTypeOK'
  BY <1>1, <1>4 DEF LocalPaymentsTypeOK, Entry
<1>6. PostsInv'
  BY <1>1, <1>3 DEF PostsInv, LocalPaymentsTypeOK, refused
<1>7. now \in Nat /\ now' \in Nat /\ now' >= now
  BY <1>1 DEF LocalPaymentsTypeOK
<1>8. PassInv' /\ ConfirmedIsReal' /\ ChainInv' /\ CyclesInv'
  BY <1>1, <1>7, PassKept, ConfirmedKept, ChainKept, CyclesKept
<1>. QED
  BY <1>5, <1>6, <1>8

\* What an upsert does to the row it names: it is created, or keeps its
\* conversion and, unless the hash changed, its verdict.
LEMMA UpsertRow ==
  ASSUME LocalPaymentsTypeOK, PostsInv, NEW p \in Posts, Upsert(p)
  PROVE  LET b == posts[p].body  t == b.transfer
         IN  /\ b \in Bodies /\ ~ refused(b) /\ t \in Transfers
             /\ \A u \in Transfers : u # t => reports'[u] = reports[u]
             /\ reports' \in [Transfers -> Legs \cup {None}] /\ reports'[t] \in Legs
             /\ reports[t] = None => reports'[t].verdict = "UNCHECKED"
             /\ reports[t] # None => reports'[t] = updated(reports[t], b, posts[p].existing)
<1>. DEFINE b == posts[p].body
            t == b.transfer
            row == IF reports[t] = None THEN created(b) ELSE updated(reports[t], b, posts[p].existing)
<1>1. posts[p] # None /\ reports' = [reports EXCEPT ![t] = row]
  BY DEF Upsert
<1>2. b \in Bodies /\ ~ refused(b)
  BY <1>1 DEF PostsInv, LocalPaymentsTypeOK
<1>3. t \in Transfers /\ reports[t] \in Legs \cup {None}
  BY <1>2, NamedRow
<1>4. created(b) \in Legs /\ created(b).verdict = "UNCHECKED"
  BY <1>2, CreatedRow
<1>5. reports[t] # None => updated(reports[t], b, posts[p].existing) \in Legs
  BY <1>2, <1>3, UpdatedRow
<1>. HIDE DEF b, t
<1>6. row \in Legs
  BY <1>4, <1>5
<1>7. reports \in [Transfers -> Legs \cup {None}]
  BY DEF LocalPaymentsTypeOK
<1>8. reports' \in [Transfers -> Legs \cup {None}] /\ reports'[t] = row
      /\ \A u \in Transfers : u # t => reports'[u] = reports[u]
  BY <1>1, <1>3, <1>6, <1>7
<1>9. /\ reports[t] = None => reports'[t].verdict = "UNCHECKED"
      /\ reports[t] # None => reports'[t] = updated(reports[t], b, posts[p].existing)
  BY <1>4, <1>8
<1>. QED
  BY <1>2, <1>3, <1>6, <1>8, <1>9 DEF b, t

LEMMA UpsertStep ==
  ASSUME PaymentsInv, NEW p \in Posts, Upsert(p)
  PROVE  PaymentsInv'
<1>. USE DEF PaymentsInv
<1>. DEFINE b == posts[p].body
            t == b.transfer
            existing == posts[p].existing
<1>1. /\ posts' = [posts EXCEPT ![p] = None]
      /\ UNCHANGED <<now, stage, financedAt, settledAt, rows, replays, pass, cycles>>
  BY DEF Upsert, chainVars
<1>2. /\ b \in Bodies /\ ~ refused(b) /\ t \in Transfers
      /\ \A u \in Transfers : u # t => reports'[u] = reports[u]
      /\ reports' \in [Transfers -> Legs \cup {None}] /\ reports'[t] \in Legs
      /\ reports[t] = None => reports'[t].verdict = "UNCHECKED"
      /\ reports[t] # None => reports'[t] = updated(reports[t], b, existing)
  BY UpsertRow
<1>. HIDE DEF b, t, existing
<1>3. reports[t] \in Legs \cup {None}
  BY <1>2 DEF LocalPaymentsTypeOK
<1>4. reports[t] # None =>
        /\ SameConversion(reports'[t], reports[t])
        /\ \/ reports'[t].verdict = reports[t].verdict /\ reports'[t].at = reports[t].at
           \/ reports'[t].verdict = "UNCHECKED"
  BY <1>2, <1>3, UpdatedRow
<1>5. LocalPaymentsTypeOK'
  BY <1>1, <1>2 DEF LocalPaymentsTypeOK
<1>6. PostsInv'
  BY <1>1 DEF PostsInv, LocalPaymentsTypeOK, refused
<1>7. now \in Nat /\ now' \in Nat /\ now' >= now
  BY <1>1 DEF LocalPaymentsTypeOK
<1>8. ChainInv' /\ CyclesInv'
  BY <1>1, <1>7, ChainKept, CyclesKept
<1>9. ConfirmedIsReal'
  <2>. SUFFICES ASSUME NEW u \in Transfers, confirmed(u)'
                PROVE  (\E h \in Hash : Backs(reports[u], h) /\ reports[u].at = Payments[h].at)'
    BY DEF ConfirmedIsReal
  <2>1. /\ confirmed(u) /\ reports'[u].at = reports[u].at /\ SameConversion(reports'[u], reports[u])
    BY <1>2, <1>4 DEF confirmed, SameConversion
  <2>2. PICK h \in Hash : Backs(reports[u], h) /\ reports[u].at = Payments[h].at
    BY <2>1 DEF ConfirmedIsReal
  <2>3. Backs(reports[u], h)'
    BY <1>1, <2>1, <2>2 DEF Backs, SameConversion
  <2>. QED
    BY <2>1, <2>2, <2>3
<1>10. PassInv'
  <2>1. Reading => \A u \in pass.todo :
          /\ reports'[u] \in Legs /\ pass.queue[u] \in Legs
          /\ SameConversion(reports'[u], pass.queue[u])
          /\ pass.mode = "verify" => reports'[u].verdict # "CONFIRMED"
    <3>. SUFFICES ASSUME Reading, NEW u \in pass.todo
                  PROVE  /\ reports'[u] \in Legs /\ pass.queue[u] \in Legs
                         /\ SameConversion(reports'[u], pass.queue[u])
                         /\ pass.mode = "verify" => reports'[u].verdict # "CONFIRMED"
      OBVIOUS
    <3>1. /\ u \in Transfers /\ reports[u] \in Legs /\ pass.queue[u] \in Legs
          /\ SameConversion(reports[u], pass.queue[u])
          /\ pass.mode = "verify" => reports[u].verdict # "CONFIRMED"
      BY DEF PassInv
    <3>2. CASE u # t
      BY <1>2, <3>1, <3>2
    <3>3. CASE u = t
      BY <1>2, <1>4, <3>1, <3>3, RowsAssumption DEF SameConversion
    <3>. QED
      BY <3>2, <3>3
  <2>2. (pass.step = "write" => Judged(pass.queue[pass.leg], pass.answer))'
    BY <1>1 DEF PassInv, Judged, Backs, matches
  <2>3. Reading' <=> Reading
    BY <1>1 DEF Reading
  <2>. QED
    BY <1>1, <2>1, <2>2, <2>3 DEF PassInv
<1>. QED
  BY <1>5, <1>6, <1>8, <1>9, <1>10

LEMMA StartPassStep ==
  ASSUME PaymentsInv, NEW mode \in {"verify", "recheck", "derive", "status"}, StartPass(mode)
  PROVE  PaymentsInv'
<1>. USE DEF PaymentsInv
<1>. DEFINE read == toCheck(mode)
<1>1. /\ pass' = [step |-> IF read = {} THEN "derive" ELSE "ask", mode |-> mode,
                  queue |-> [t \in read |-> reports[t]], todo |-> read, leg |-> None,
                  answer |-> None, derived |-> <<>>]
      /\ UNCHANGED <<now, stage, financedAt, settledAt, rows, replays, reports, posts, cycles>>
  BY DEF StartPass, idle, chainVars
<1>2. /\ read \subseteq Transfers
      /\ read # {} => mode \in {"verify", "recheck"}
      /\ \A t \in read : /\ reports[t] \in Legs
                         /\ mode = "verify" => reports[t].verdict # "CONFIRMED"
  BY DEF toCheck, LocalPaymentsTypeOK
<1>. HIDE DEF read
<1>3. LocalPaymentsTypeOK' /\ PostsInv'
  BY <1>1 DEF LocalPaymentsTypeOK, PostsInv, refused
<1>4. now \in Nat /\ now' \in Nat /\ now' >= now
  BY <1>1 DEF LocalPaymentsTypeOK
<1>5. pass'.step # "store"
  BY <1>1
<1>6. ChainInv' /\ ConfirmedIsReal' /\ CyclesInv'
  BY <1>1, <1>4, <1>5, ChainKept, ConfirmedKept, CyclesKept
<1>7. PassInv'
  <2>1. Reading' <=> read # {}
    BY <1>1 DEF Reading
  <2>2. \A t \in read : /\ reports'[t] \in Legs /\ pass'.queue[t] \in Legs
                        /\ SameConversion(reports'[t], pass'.queue[t])
                        /\ pass'.mode = "verify" => reports'[t].verdict # "CONFIRMED"
    BY <1>1, <1>2 DEF SameConversion
  <2>3. pass'.step # "write" /\ pass'.todo = read /\ pass'.mode = mode
    BY <1>1
  <2>4. pass' = [step |-> pass'.step, mode |-> pass'.mode, queue |-> pass'.queue, todo |-> pass'.todo,
                 leg |-> pass'.leg, answer |-> pass'.answer, derived |-> pass'.derived]
    BY <1>1
  <2>. QED
    BY <1>2, <2>1, <2>2, <2>3, <2>4 DEF PassInv
<1>. QED
  BY <1>3, <1>6, <1>7

LEMMA AskHorizonStep ==
  ASSUME PaymentsInv, NEW t \in Transfers, AskHorizon(t)
  PROVE  PaymentsInv'
<1>. USE DEF PaymentsInv
<1>1. PICK answer \in {verifyStellarLeg(pass.queue[t], now), Horizon_outage} :
        pass' = [pass EXCEPT !.step = "write", !.leg = t, !.answer = answer]
  BY DEF AskHorizon
<1>2. /\ pass.step = "ask" /\ t \in pass.todo
      /\ UNCHANGED <<now, stage, financedAt, settledAt, rows, replays, reports, posts, cycles>>
  BY DEF AskHorizon, chainVars
<1>3. pass' = [step |-> "write", mode |-> pass.mode, queue |-> pass.queue, todo |-> pass.todo,
               leg |-> t, answer |-> answer, derived |-> pass.derived]
  BY <1>1 DEF PassInv
<1>4. pass.queue[t] \in Legs /\ now \in Nat /\ now' \in Nat /\ now' >= now
  BY <1>2 DEF PassInv, Reading, LocalPaymentsTypeOK
<1>5. answer \in Answer /\ Judged(pass.queue[t], answer)
  BY <1>4, VerdictJudges
<1>6. LocalPaymentsTypeOK' /\ PostsInv'
  BY <1>2, <1>3 DEF LocalPaymentsTypeOK, PostsInv, refused
<1>7. pass'.step # "store"
  BY <1>3
<1>8. ChainInv' /\ ConfirmedIsReal' /\ CyclesInv'
  BY <1>2, <1>4, <1>7, ChainKept, ConfirmedKept, CyclesKept
<1>9. PassInv'
  <2>1. Judged(pass.queue[t], answer)'
    BY <1>2, <1>5, <1>3 DEF Judged, Backs, matches
  <2>2. Reading /\ Reading'
    BY <1>2, <1>3 DEF Reading
  <2>3. /\ pass'.mode = pass.mode /\ pass'.queue = pass.queue /\ pass'.todo = pass.todo
        /\ pass'.leg = t /\ pass'.answer = answer /\ pass'.step = "write"
        /\ pass'.derived = pass.derived
    BY <1>3
  <2>. QED
    BY <1>2, <1>3, <1>5, <2>1, <2>2, <2>3 DEF PassInv
<1>. QED
  BY <1>6, <1>8, <1>9

\* What is written: the answer, on whatever row is there by then.
LEMMA WrittenRow ==
  ASSUME PaymentsInv, WriteVerdict
  PROVE  LET t == pass.leg
         IN  /\ t \in Transfers /\ t \in pass.todo /\ reports[t] \in Legs /\ pass.queue[t] \in Legs
             /\ SameConversion(reports[t], pass.queue[t])
             /\ pass.answer \in Answer /\ Judged(pass.queue[t], pass.answer)
             /\ \A u \in Transfers : u # t => reports'[u] = reports[u]
             /\ reports' \in [Transfers -> Legs \cup {None}]
             /\ reports'[t] = [reports[t] EXCEPT !.verdict = pass.answer.verdict, !.at = pass.answer.at]
             /\ reports'[t] \in Legs
             /\ reports'[t].hash = reports[t].hash
             /\ SameConversion(reports'[t], reports[t])
             /\ reports'[t].verdict = pass.answer.verdict /\ reports'[t].at = pass.answer.at
<1>. USE DEF PaymentsInv
<1>. DEFINE t == pass.leg
            row == [reports[t] EXCEPT !.verdict = pass.answer.verdict, !.at = pass.answer.at]
<1>1. /\ t \in pass.todo /\ t \in Transfers /\ reports[t] \in Legs /\ pass.queue[t] \in Legs
      /\ SameConversion(reports[t], pass.queue[t])
      /\ pass.answer \in Answer /\ Judged(pass.queue[t], pass.answer)
  BY DEF PassInv, Reading, WriteVerdict
<1>2. /\ row \in Legs /\ SameConversion(row, reports[t]) /\ row.hash = reports[t].hash
      /\ row.verdict = pass.answer.verdict /\ row.at = pass.answer.at
  BY <1>1 DEF Legs, Answer, SameConversion
<1>3. reports' = [reports EXCEPT ![t] = row]
  BY DEF WriteVerdict
<1>4. reports \in [Transfers -> Legs \cup {None}]
  BY DEF LocalPaymentsTypeOK
<1>. HIDE DEF t, row
<1>5. /\ reports' \in [Transfers -> Legs \cup {None}] /\ reports'[t] = row
      /\ \A u \in Transfers : u # t => reports'[u] = reports[u]
  BY <1>1, <1>2, <1>3, <1>4
<1>. QED
  BY <1>1, <1>2, <1>5 DEF t, row

LEMMA WriteVerdictStep ==
  ASSUME PaymentsInv, WriteVerdict
  PROVE  PaymentsInv'
<1>. USE DEF PaymentsInv
<1>. DEFINE t == pass.leg
<1>1. /\ t \in Transfers /\ t \in pass.todo /\ pass.queue[t] \in Legs
      /\ SameConversion(reports[t], pass.queue[t]) /\ Judged(pass.queue[t], pass.answer)
      /\ \A u \in Transfers : u # t => reports'[u] = reports[u]
      /\ reports' \in [Transfers -> Legs \cup {None}] /\ reports'[t] \in Legs
      /\ SameConversion(reports'[t], reports[t])
      /\ reports'[t].verdict = pass.answer.verdict /\ reports'[t].at = pass.answer.at
  BY WrittenRow
<1>2. /\ pass.step = "write"
      /\ pass' = [pass EXCEPT !.todo = @ \ {t}, !.leg = None, !.answer = None,
                              !.step = IF pass.todo = {t} THEN "derive" ELSE "ask"]
      /\ UNCHANGED <<now, stage, financedAt, settledAt, rows, replays, posts, cycles>>
  BY DEF WriteVerdict, chainVars
<1>3. pass' = [step |-> IF pass.todo = {t} THEN "derive" ELSE "ask", mode |-> pass.mode,
               queue |-> pass.queue, todo |-> pass.todo \ {t}, leg |-> None, answer |-> None,
               derived |-> pass.derived]
  BY <1>2 DEF PassInv
<1>. HIDE DEF t
<1>4. LocalPaymentsTypeOK' /\ PostsInv'
  BY <1>1, <1>2, <1>3 DEF LocalPaymentsTypeOK, PostsInv, refused
<1>5. /\ now \in Nat /\ now' \in Nat /\ now' >= now
      /\ pass'.step # "store"
  <2>1. pass'.step \in {"derive", "ask"}
    BY <1>3
  <2>. QED
    BY <1>2, <2>1 DEF LocalPaymentsTypeOK
<1>6. ChainInv' /\ CyclesInv'
  BY <1>2, <1>5, ChainKept, CyclesKept
<1>7. ConfirmedIsReal'
  <2>. SUFFICES ASSUME NEW u \in Transfers, confirmed(u)'
                PROVE  (\E h \in Hash : Backs(reports[u], h) /\ reports[u].at = Payments[h].at)'
    BY DEF ConfirmedIsReal
  <2>1. CASE u # t
    <3>1. confirmed(u) /\ reports'[u] = reports[u]
      BY <1>1, <2>1 DEF confirmed
    <3>2. PICK h \in Hash : Backs(reports[u], h) /\ reports[u].at = Payments[h].at
      BY <3>1 DEF ConfirmedIsReal
    <3>3. Backs(reports[u], h)'
      BY <1>2, <3>1, <3>2 DEF Backs
    <3>. QED
      BY <3>1, <3>2, <3>3
  <2>2. CASE u = t
    <3>1. pass.answer.verdict = "CONFIRMED"
      BY <1>1, <2>2 DEF confirmed
    <3>2. PICK h \in Hash : /\ Backs(pass.queue[t], h)
                            /\ pass.answer.at = Payments[h].at
      BY <1>1, <3>1, LocalPaymentsAssumption DEF Judged
    <3>3. Backs(reports[u], h)'
      BY <1>1, <1>2, <2>2, <3>2 DEF Backs, SameConversion
    <3>. QED
      BY <1>1, <2>2, <3>2, <3>3
  <2>. QED
    BY <2>1, <2>2
<1>8. PassInv'
  <2>1. Reading' => pass'.mode \in {"verify", "recheck"}
    BY <1>2, <1>3 DEF PassInv, Reading
  <2>2. \A u \in pass'.todo : /\ reports'[u] \in Legs /\ pass'.queue[u] \in Legs
                              /\ SameConversion(reports'[u], pass'.queue[u])
                              /\ pass'.mode = "verify" => reports'[u].verdict # "CONFIRMED"
    <3>. SUFFICES ASSUME NEW u \in pass.todo, u # t
                  PROVE  /\ reports'[u] \in Legs /\ pass.queue[u] \in Legs
                         /\ SameConversion(reports'[u], pass.queue[u])
                         /\ pass.mode = "verify" => reports'[u].verdict # "CONFIRMED"
      BY <1>3
    <3>1. u \in Transfers
      BY DEF PassInv
    <3>. QED
      BY <1>1, <1>2, <3>1 DEF PassInv, Reading
  <2>3. /\ pass'.step # "write" /\ pass'.todo = pass.todo \ {t}
        /\ (~ Reading' => pass'.todo = {})
    <3>1. CASE pass.todo = {t}
      BY <1>3, <3>1 DEF Reading
    <3>2. CASE pass.todo # {t}
      BY <1>3, <3>2 DEF Reading
    <3>. QED
      BY <3>1, <3>2
  <2>4. pass' = [step |-> pass'.step, mode |-> pass'.mode, queue |-> pass'.queue, todo |-> pass'.todo,
                 leg |-> pass'.leg, answer |-> pass'.answer, derived |-> pass'.derived]
    BY <1>3
  <2>5. pass'.todo \subseteq Transfers
    BY <2>3 DEF PassInv
  <2>. QED
    BY <2>1, <2>2, <2>3, <2>4, <2>5 DEF PassInv
<1>. QED
  BY <1>4, <1>6, <1>7, <1>8

LEMMA DeriveStep ==
  ASSUME PaymentsInv, Derive
  PROVE  PaymentsInv'
<1>. USE DEF PaymentsInv
<1>1. /\ pass.step = "derive"
      /\ UNCHANGED <<now, stage, financedAt, settledAt, rows, replays, reports, posts, cycles>>
  BY DEF Derive, chainVars
<1>2. now \in Nat /\ now' \in Nat /\ now' >= now
  BY <1>1 DEF LocalPaymentsTypeOK
<1>3. ChainInv' /\ ConfirmedIsReal'
  BY <1>1, <1>2, ChainKept, ConfirmedKept
<1>4. ASSUME NEW m \in Milestones, Real(m) PROVE Real(m)'
  BY <1>1, <1>2, <1>4, RealKept
<1>5. CASE pass' = idle
  <2>1. LocalPaymentsTypeOK' /\ PostsInv'
    BY <1>1, <1>5 DEF LocalPaymentsTypeOK, PostsInv, refused, idle
  <2>2. PassInv'
    BY <1>5 DEF PassInv, Reading, idle
  <2>3. CyclesInv'
    BY <1>1, <1>2, <1>5, CyclesKept DEF idle
  <2>. QED
    BY <1>3, <2>1, <2>2, <2>3
<1>6. CASE \E d \in derivations : pass' = [idle EXCEPT !.step = "store", !.derived = d]
  <2>1. PICK d \in derivations : pass' = [idle EXCEPT !.step = "store", !.derived = d]
    BY <1>6
  <2>2. pass' = [step |-> "store", mode |-> None, queue |-> <<>>, todo |-> {}, leg |-> None,
                 answer |-> None, derived |-> d]
    BY <2>1 DEF idle
  <2>3. LocalPaymentsTypeOK' /\ PostsInv'
    BY <1>1, <2>2 DEF LocalPaymentsTypeOK, PostsInv, refused
  <2>4. PassInv'
    BY <2>2 DEF PassInv, Reading
  <2>5. ASSUME NEW m \in Milestones \cap DOMAIN d, d[m].status = "VERIFIED"
        PROVE  Real(m)
    BY <2>5, DerivedIsReal
  <2>6. CyclesInv'
    BY <1>1, <1>4, <2>2, <2>5 DEF CyclesInv
  <2>. QED
    BY <1>3, <2>3, <2>4, <2>6
<1>. QED
  BY <1>5, <1>6 DEF Derive

LEMMA StoreStep ==
  ASSUME PaymentsInv, Store
  PROVE  PaymentsInv'
<1>. USE DEF PaymentsInv
<1>1. /\ pass.step = "store" /\ cycles' = stored(pass.derived) /\ pass' = idle
      /\ UNCHANGED <<now, stage, financedAt, settledAt, rows, replays, reports, posts>>
  BY DEF Store, chainVars
<1>2. now \in Nat /\ now' \in Nat /\ now' >= now
  BY <1>1 DEF LocalPaymentsTypeOK
<1>3. LocalPaymentsTypeOK' /\ PostsInv'
  BY <1>1 DEF LocalPaymentsTypeOK, PostsInv, refused, idle
<1>4. PassInv'
  BY <1>1 DEF PassInv, Reading, idle
<1>5. ChainInv' /\ ConfirmedIsReal'
  BY <1>1, <1>2, ChainKept, ConfirmedKept
<1>6. ASSUME NEW m \in Milestones, cycles'[m] # None, cycles'[m].status = "VERIFIED"
      PROVE  Real(m)'
  <2>1. Real(m)
    BY <1>1, <1>6 DEF stored, CyclesInv
  <2>. QED
    BY <1>1, <1>2, <2>1, RealKept
<1>7. pass'.step # "store"
  BY <1>1 DEF idle
<1>8. CyclesInv'
  BY <1>6, <1>7 DEF CyclesInv
<1>. QED
  BY <1>3, <1>4, <1>5, <1>8

LEMMA PassDiesStep ==
  ASSUME PaymentsInv, PassDies
  PROVE  PaymentsInv'
<1>. USE DEF PaymentsInv
<1>1. /\ pass' = idle
      /\ UNCHANGED <<now, stage, financedAt, settledAt, rows, replays, reports, posts, cycles>>
  BY DEF PassDies, chainVars
<1>2. now \in Nat /\ now' \in Nat /\ now' >= now
  BY <1>1 DEF LocalPaymentsTypeOK
<1>3. LocalPaymentsTypeOK' /\ PostsInv'
  BY <1>1 DEF LocalPaymentsTypeOK, PostsInv, refused, idle
<1>4. PassInv'
  BY <1>1 DEF PassInv, Reading, idle
<1>5. pass'.step # "store"
  BY <1>1 DEF idle
<1>6. ChainInv' /\ ConfirmedIsReal' /\ CyclesInv'
  BY <1>1, <1>2, <1>5, ChainKept, ConfirmedKept, CyclesKept
<1>. QED
  BY <1>3, <1>4, <1>6

LEMMA TickStep ==
  ASSUME PaymentsInv, Tick
  PROVE  PaymentsInv'
<1>. USE DEF PaymentsInv
<1>1. /\ now' = now + 1
      /\ UNCHANGED <<stage, financedAt, settledAt, rows, replays, reports, posts, pass, cycles>>
  BY DEF Tick
<1>2. now \in Nat /\ now' \in Nat /\ now' >= now
  BY <1>1 DEF LocalPaymentsTypeOK
<1>3. LocalPaymentsTypeOK' /\ PostsInv'
  BY <1>1, <1>2 DEF LocalPaymentsTypeOK, PostsInv, refused
<1>. QED
  BY <1>1, <1>2, <1>3, PassKept, ChainKept, ConfirmedKept, CyclesKept

\* A milestone moves on the chain or, after it, in the read model; what was
\* settled keeps its dates.
LEMMA MilestoneStep ==
  ASSUME PaymentsInv, NEW n \in Milestones, Progress(n) \/ Project(n)
  PROVE  PaymentsInv'
<1>. USE DEF PaymentsInv
<1>1. UNCHANGED <<now, replays, reports, posts, pass, cycles>>
  BY DEF Progress, Project, chainVars
<1>2. now \in Nat /\ now' \in Nat /\ now' >= now
  BY <1>1 DEF LocalPaymentsTypeOK
<1>3. PostsInv'
  BY <1>1 DEF PostsInv, refused
<1>4. PassInv' /\ ConfirmedIsReal'
  BY <1>1, <1>2, PassKept, ConfirmedKept
<1>5. /\ stage \in [Milestones -> 0..3] /\ rows \in [Milestones -> 0..3]
      /\ financedAt \in [Milestones -> Nat \cup {None}] /\ settledAt \in [Milestones -> Nat \cup {None}]
  BY DEF LocalPaymentsTypeOK
<1>6. CASE Project(n)
  <2>1. /\ rows[n] < stage[n] /\ rows' = [rows EXCEPT ![n] = @ + 1]
        /\ UNCHANGED <<stage, financedAt, settledAt>>
    BY <1>6 DEF Project, chainVars
  <2>2. stage[n] \in 0..3 /\ rows[n] \in 0..3
    BY <1>5
  <2>3. rows[n] + 1 \in 0..3 /\ rows[n] + 1 <= stage[n]
    BY <2>1, <2>2
  <2>4. /\ rows' \in [Milestones -> 0..3]
        /\ \A m \in Milestones : rows'[m] = IF m = n THEN rows[n] + 1 ELSE rows[m]
    BY <1>5, <2>1, <2>3
  <2>5. LocalPaymentsTypeOK'
    BY <1>1, <2>1, <2>4 DEF LocalPaymentsTypeOK
  <2>6. ChainInv'
    BY <2>1, <2>3, <2>4 DEF ChainInv
  <2>7. pass'.step = "store" => UNCHANGED pass
    BY <1>1
  <2>8. CyclesInv'
    BY <1>1, <1>2, <2>1, <2>7, CyclesKept
  <2>. QED
    BY <1>3, <1>4, <2>5, <2>6, <2>8
<1>7. CASE Progress(n)
  <2>1. /\ stage[n] < 3 /\ stage' = [stage EXCEPT ![n] = @ + 1]
        /\ financedAt' = IF stage[n] = 1 THEN [financedAt EXCEPT ![n] = now] ELSE financedAt
        /\ settledAt' = IF stage[n] = 2 THEN [settledAt EXCEPT ![n] = now] ELSE settledAt
        /\ UNCHANGED rows
    BY <1>7 DEF Progress
  <2>2. stage[n] \in 0..3 /\ stage[n] + 1 \in 0..3
    BY <1>5, <2>1
  <2>3. /\ stage' \in [Milestones -> 0..3]
        /\ \A m \in Milestones : stage'[m] = IF m = n THEN stage[n] + 1 ELSE stage[m]
    BY <1>5, <2>1, <2>2
  <2>4. /\ financedAt' \in [Milestones -> Nat \cup {None}]
        /\ \A m \in Milestones : financedAt'[m] = IF m = n /\ stage[n] = 1 THEN now ELSE financedAt[m]
    BY <1>2, <1>5, <2>1
  <2>5. /\ settledAt' \in [Milestones -> Nat \cup {None}]
        /\ \A m \in Milestones : settledAt'[m] = IF m = n /\ stage[n] = 2 THEN now ELSE settledAt[m]
    BY <1>2, <1>5, <2>1
  <2>6. LocalPaymentsTypeOK'
    BY <1>1, <2>1, <2>3, <2>4, <2>5 DEF LocalPaymentsTypeOK
  <2>7. ChainInv'
    <3>. SUFFICES ASSUME NEW m \in Milestones
                  PROVE  /\ rows'[m] <= stage'[m]
                         /\ stage'[m] >= 2 => financedAt'[m] \in Nat
                         /\ stage'[m] = 3 => settledAt'[m] \in Nat
      BY DEF ChainInv
    <3>1. /\ rows[m] <= stage[m] /\ rows[m] \in 0..3 /\ stage[m] \in 0..3
          /\ stage[m] >= 2 => financedAt[m] \in Nat
          /\ stage[m] = 3 => settledAt[m] \in Nat
      BY <1>5 DEF ChainInv
    <3>2. CASE m # n
      BY <2>1, <2>3, <2>4, <2>5, <3>1, <3>2
    <3>3. CASE m = n
      BY <1>2, <2>1, <2>2, <2>3, <2>4, <2>5, <3>1, <3>3
    <3>. QED
      BY <3>2, <3>3
  <2>8. ASSUME NEW m \in Milestones, Real(m) PROVE Real(m)'
    <3>1. m # n
      BY <2>1, <2>8 DEF Real
    <3>. QED
      BY <1>2, <2>3, <2>4, <2>5, <2>8, <3>1, RealKept
  <2>9. CyclesInv'
    BY <1>1, <2>8 DEF CyclesInv
  <2>. QED
    BY <1>3, <1>4, <2>6, <2>7, <2>9
<1>. QED
  BY <1>6, <1>7

LEMMA ReplayStep ==
  ASSUME PaymentsInv, Replay
  PROVE  PaymentsInv'
<1>. USE DEF PaymentsInv
<1>1. /\ rows' = [m \in Milestones |-> 0] /\ cycles' = [m \in Milestones |-> None]
      /\ replays' = replays + 1
      /\ UNCHANGED <<now, stage, financedAt, settledAt, reports, posts, pass>>
  BY DEF Replay, chainVars
<1>2. now \in Nat /\ now' \in Nat /\ now' >= now
  BY <1>1 DEF LocalPaymentsTypeOK
<1>3. LocalPaymentsTypeOK' /\ PostsInv'
  BY <1>1 DEF LocalPaymentsTypeOK, PostsInv, refused
<1>4. PassInv' /\ ConfirmedIsReal'
  BY <1>1, <1>2, PassKept, ConfirmedKept
<1>5. ChainInv'
  BY <1>1 DEF ChainInv, LocalPaymentsTypeOK
<1>6. ASSUME NEW m \in Milestones, Real(m) PROVE Real(m)'
  BY <1>1, <1>2, <1>6, RealKept
<1>7. CyclesInv'
  BY <1>1, <1>6 DEF CyclesInv
<1>. QED
  BY <1>3, <1>4, <1>5, <1>7

-----------------------------------------------------------------------------
(* The theorems that hold however posts and pass interleave                 *)

LEMMA PaymentsInit == Init => PaymentsInv
<1>. SUFFICES ASSUME Init PROVE PaymentsInv
  OBVIOUS
<1>1. /\ stage = [m \in Milestones |-> 0] /\ rows = stage /\ now = 0 /\ replays = 0
      /\ financedAt = [m \in Milestones |-> None] /\ settledAt = financedAt
      /\ reports = [t \in Transfers |-> None] /\ posts = [p \in Posts |-> None]
      /\ pass = idle /\ cycles = [m \in Milestones |-> None]
  BY DEF Init
<1>2. LocalPaymentsTypeOK
  BY <1>1 DEF LocalPaymentsTypeOK, idle
<1>3. PostsInv /\ ChainInv /\ ConfirmedIsReal
  BY <1>1 DEF PostsInv, ChainInv, ConfirmedIsReal, confirmed
<1>4. PassInv
  BY <1>1 DEF PassInv, Reading, idle
<1>5. CyclesInv
  BY <1>1 DEF CyclesInv, idle
<1>. QED
  BY <1>2, <1>3, <1>4, <1>5 DEF PaymentsInv

LEMMA PaymentsStutter == PaymentsInv /\ UNCHANGED vars => PaymentsInv'
<1>. SUFFICES ASSUME PaymentsInv, UNCHANGED vars PROVE PaymentsInv'
  OBVIOUS
<1>. USE DEF PaymentsInv
<1>1. UNCHANGED <<now, stage, financedAt, settledAt, rows, replays, reports, posts, pass, cycles>>
  BY DEF vars, chainVars
<1>2. now \in Nat /\ now' \in Nat /\ now' >= now
  BY <1>1 DEF LocalPaymentsTypeOK
<1>3. LocalPaymentsTypeOK' /\ PostsInv'
  BY <1>1 DEF LocalPaymentsTypeOK, PostsInv, refused
<1>. QED
  BY <1>1, <1>2, <1>3, PassKept, ChainKept, ConfirmedKept, CyclesKept

LEMMA PaymentsStep == PaymentsInv /\ [Next]_vars => PaymentsInv'
<1>. SUFFICES ASSUME PaymentsInv, [Next]_vars PROVE PaymentsInv'
  OBVIOUS
<1>1. CASE Next
  BY <1>1, ReceiveStep, UpsertStep, StartPassStep, AskHorizonStep, WriteVerdictStep, DeriveStep,
     StoreStep, PassDiesStep, TickStep, MilestoneStep, ReplayStep DEF Next
<1>2. CASE UNCHANGED vars
  BY <1>2, PaymentsStutter
<1>. QED
  BY <1>1, <1>2

\* The rows, requests, pass and cycles are always what the code can hold, and
\* the inductive invariant holds throughout.
THEOREM PaymentsInvariant == Spec => [](LocalPaymentsTypeOK /\ PaymentsInv)
<1>1. PaymentsInv => LocalPaymentsTypeOK
  BY DEF PaymentsInv
<1>. QED
  BY <1>1, PaymentsInit, PaymentsStep, PTL DEF Spec

LEMMA CountedCyclesReal == PaymentsInv => CountedCycleIsReal
<1>. SUFFICES ASSUME PaymentsInv PROVE CountedCycleIsReal
  OBVIOUS
<1>1. \A m \in counted : Real(m)
  BY CountedIsReal DEF PaymentsInv
<1>. QED
  BY <1>1 DEF CountedCycleIsReal, PaymentsInv, CyclesInv, Real

\* However posts, verdicts, replays and interruptions interleave, a confirmed
\* report is a payment Stellar records, and a counted or stored cycle is a
\* trade that settled after an advance, with a conversion of one of its parties.
THEOREM PublishedHappened == Spec => []PublishedIsReal
<1>1. PaymentsInv => PublishedIsReal
  BY CountedCyclesReal DEF PaymentsInv, PublishedIsReal
<1>. QED
  BY <1>1, PaymentsInvariant, PTL

\* A confirmation survives every step but a recheck of its row, or a post that
\* corrects the hash it read: a verifying pass holds no confirmed row.
LEMMA VerdictStep ==
  ASSUME PaymentsInv, [Next]_vars, NEW t \in Transfers, confirmed(t)
  PROVE  \/ confirmed(t)'
         \/ pass.mode = "recheck" /\ pass.leg = t
         \/ \E p \in Posts : /\ posts[p] # None /\ posts'[p] = None
                             /\ posts[p].body.transfer = t
                             /\ posts[p].body.hash \notin {None, posts[p].existing}
<1>. USE DEF PaymentsInv
<1>1. reports[t] # None /\ reports[t] \in Legs /\ reports[t].verdict = "CONFIRMED"
  BY DEF confirmed, LocalPaymentsTypeOK
<1>2. CASE UNCHANGED reports
  BY <1>1, <1>2 DEF confirmed
<1>3. ASSUME NEW p \in Posts, Upsert(p)
      PROVE  \/ confirmed(t)'
             \/ /\ posts[p] # None /\ posts'[p] = None /\ posts[p].body.transfer = t
                /\ posts[p].body.hash \notin {None, posts[p].existing}
  <2>. DEFINE b == posts[p].body
              existing == posts[p].existing
  <2>1. posts[p] # None /\ posts' = [posts EXCEPT ![p] = None]
    BY <1>3 DEF Upsert
  <2>2. posts'[p] = None
    BY <2>1 DEF LocalPaymentsTypeOK
  <2>3. /\ b \in Bodies /\ ~ refused(b)
        /\ t # b.transfer => reports'[t] = reports[t]
        /\ t = b.transfer => reports'[t] = updated(reports[t], b, existing) /\ reports'[t] \in Legs
    BY <1>1, <1>3, UpsertRow
  <2>. HIDE DEF b, existing
  <2>4. CASE t # b.transfer
    BY <1>1, <2>3, <2>4 DEF confirmed
  <2>5. CASE t = b.transfer /\ ~ hashChanged(b, existing)
    <3>1. reports'[t].verdict = reports[t].verdict
      BY <1>1, <2>3, <2>5, UpdatedRow
    <3>. QED
      BY <1>1, <2>3, <2>5, <3>1, RowsAssumption DEF confirmed
  <2>6. CASE t = b.transfer /\ hashChanged(b, existing)
    <3>1. b.hash \notin {None, existing}
      BY <2>6 DEF hashChanged
    <3>. QED
      BY <2>1, <2>2, <2>6, <3>1 DEF b, existing
  <2>. QED
    BY <2>4, <2>5, <2>6
<1>4. CASE WriteVerdict
  <2>1. CASE t # pass.leg
    BY <1>1, <1>4, <2>1, WrittenRow DEF confirmed
  <2>2. CASE t = pass.leg
    <3>1. pass.mode \in {"verify", "recheck"} /\ pass.mode # "verify"
      BY <1>1, <1>4, <2>2 DEF WriteVerdict, PassInv, Reading
    <3>. QED
      BY <2>2, <3>1
  <2>. QED
    BY <2>1, <2>2
<1>5. CASE UNCHANGED vars
  BY <1>2, <1>5 DEF vars
<1>6. CASE Next
  BY <1>2, <1>3, <1>4, <1>6 DEF Next, Receive, StartPass, AskHorizon, Derive, Store, PassDies, Tick,
     Progress, Project, Replay
<1>. QED
  BY <1>5, <1>6

\* "A verdict, once reached, survives an indexer replay", deriving, a later
\* verify and the end of the process.
THEOREM VerdictsSurvive == Spec => VerdictSurvives
<1>1. PaymentsInv /\ [Next]_vars =>
        [\A t \in Transfers : confirmed(t) =>
            \/ confirmed(t)'
            \/ pass.mode = "recheck" /\ pass.leg = t
            \/ \E p \in Posts : /\ posts[p] # None /\ posts'[p] = None
                                /\ posts[p].body.transfer = t
                                /\ posts[p].body.hash \notin {None, posts[p].existing}]_vars
  BY VerdictStep
<1>. QED
  BY <1>1, PaymentsInvariant, PTL DEF Spec, VerdictSurvives

-----------------------------------------------------------------------------
(* Rows that were never in two hands                                        *)

HistoryNext == Next /\ raced' = raced \cup {t \in Transfers : Cardinality(Holding(t)') > 1}

ReadHash(t) == IF reports[t] = None THEN "absent" ELSE reports[t].hash

Alone(t) == \A x, y \in Holding(t) : x = y

\* The only request that holds a row read the hash it still has; the only pass
\* that holds it read that hash too; and its verdict is about that hash.
RowInv(t) ==
  /\ Alone(t)
  /\ \A p \in Posts \cap Holding(t) : posts[p].existing = ReadHash(t)
  /\ t \in pass.todo => pass.queue[t].hash = reports[t].hash
  /\ reports[t] # None => Judged(reports[t], reports[t])

UnracedInv == \A t \in Transfers \ raced : RowInv(t)

Shown(m, h) == h \in LowerHashes /\ BacksCycle(m, h)

\* The hash derived or stored with a verified cycle is one of a party's conversions.
ShownInv ==
  raced = {} =>
    /\ \A m \in Milestones : cycles[m] # None /\ cycles[m].status = "VERIFIED" => Shown(m, cycles[m].leg)
    /\ pass.step = "store" =>
         \A m \in Milestones \cap DOMAIN pass.derived :
           pass.derived[m].status = "VERIFIED" => Shown(m, pass.derived[m].leg)

HistoryInv == PaymentsInv /\ UnracedInv /\ ShownInv

LEMMA AtMostOne ==
  ASSUME NEW S, S \subseteq Posts \cup {"pass"}, ~ (Cardinality(S) > 1)
  PROVE  \A x, y \in S : x = y
<1>1. IsFiniteSet(Posts \cup {"pass"})
  BY RequestsAssumption, FS_AddElement
<1>2. IsFiniteSet(S) /\ Cardinality(S) \in Nat
  BY <1>1, FS_Subset, FS_CardinalityType
<1>. SUFFICES ASSUME NEW x \in S, NEW y \in S, x # y PROVE FALSE
  OBVIOUS
<1>3. IsFiniteSet({x}) /\ Cardinality({x}) = 1
  BY FS_Singleton
<1>4. IsFiniteSet({x, y}) /\ Cardinality({x, y}) = 2
  <2>1. {x, y} = {x} \cup {y} /\ y \notin {x}
    OBVIOUS
  <2>. QED
    BY <1>3, <2>1, FS_AddElement
<1>5. Cardinality({x, y}) <= Cardinality(S)
  <2>1. {x, y} \subseteq S
    OBVIOUS
  <2>. QED
    BY <1>2, <2>1, FS_Subset
<1>. QED
  BY <1>2, <1>4, <1>5

\* What the history says of a row that is still in no two hands.
LEMMA UnracedNext ==
  ASSUME HistoryNext, NEW t \in Transfers \ raced'
  PROVE  t \notin raced /\ Alone(t)'
<1>1. t \notin raced /\ ~ (Cardinality(Holding(t)') > 1)
  BY DEF HistoryNext
<1>2. Holding(t)' \subseteq Posts \cup {"pass"}
  BY DEF Holding
<1>3. \A x, y \in Holding(t)' : x = y
  BY <1>1, <1>2, AtMostOne
<1>. QED
  BY <1>1, <1>3 DEF Alone

LEMMA JudgedLater ==
  ASSUME now \in Nat, now' \in Nat, now' >= now, NEW leg, NEW answer, Judged(leg, answer)
  PROVE  Judged(leg, answer)'
<1>1. leg.hash \in LowerHashes => leg.hash \in Hash
  BY LocalPaymentsAssumption
<1>2. leg.hash \in LowerHashes /\ Backs(leg, leg.hash) => Backs(leg, leg.hash)'
  BY <1>1, PaymentTimes DEF Backs
<1>. QED
  BY <1>2 DEF Judged, matches

\* A verdict reached about one leg judges a row with its hash and conversion.
LEMMA JudgedSame ==
  ASSUME NEW leg, NEW row, NEW answer, NEW judgement, Judged(leg, answer),
         SameConversion(row, leg), row.hash = leg.hash,
         judgement.verdict = answer.verdict, judgement.at = answer.at
  PROVE  Judged(row, judgement)
<1>1. \A h : /\ Backs(row, h) <=> Backs(leg, h)
             /\ matches(row, Payments[h]) <=> matches(leg, Payments[h])
  BY BacksSame
<1>. QED
  BY <1>1 DEF Judged

\* Steps that touch neither requests nor rows, and hand the pass no row.
LEMMA RowKept ==
  ASSUME LocalPaymentsTypeOK, NEW t \in Transfers, RowInv(t), Alone(t)', UNCHANGED <<reports, posts>>,
         t \in pass'.todo => t \in pass.todo /\ pass'.queue = pass.queue,
         now' \in Nat, now' >= now
  PROVE  RowInv(t)'
<1>1. \A p \in Posts \cap Holding(t)' : p \in Holding(t)
  BY RowsAssumption DEF Holding
<1>2. ReadHash(t)' = ReadHash(t)
  BY DEF ReadHash
<1>3. \A p \in Posts \cap Holding(t)' : posts'[p].existing = ReadHash(t)'
  BY <1>1, <1>2 DEF RowInv
<1>4. t \in pass'.todo => pass'.queue[t].hash = reports'[t].hash
  BY DEF RowInv
<1>5. reports[t] # None => Judged(reports[t], reports[t])'
  BY JudgedLater DEF RowInv, LocalPaymentsTypeOK
<1>6. reports'[t] # None => Judged(reports[t], reports[t])'
  BY <1>5
<1>. QED
  BY <1>3, <1>4, <1>6 DEF RowInv

LEMMA ReceiveRow ==
  ASSUME PaymentsInv, NEW t \in Transfers, RowInv(t), Alone(t)',
         NEW p \in Posts, NEW b \in Bodies, Receive(p, b)
  PROVE  RowInv(t)'
<1>. DEFINE entry == [body |-> b, existing |-> IF reports[b.transfer] = None THEN "absent"
                                               ELSE reports[b.transfer].hash]
<1>1. posts' = [posts EXCEPT ![p] = entry] /\ UNCHANGED <<now, reports, pass>>
  BY DEF Receive, chainVars
<1>2. posts'[p] = entry /\ \A q \in Posts : q # p => posts'[q] = posts[q]
  BY <1>1 DEF PaymentsInv, LocalPaymentsTypeOK
<1>3. ReadHash(t)' = ReadHash(t)
  BY <1>1 DEF ReadHash
<1>4. ASSUME NEW q \in Posts \cap Holding(t)' PROVE posts'[q].existing = ReadHash(t)
  <2>1. posts'[q] # None /\ posts'[q].body.transfer = t
    BY RowsAssumption DEF Holding
  <2>2. CASE q = p
    BY <1>2, <2>1, <2>2 DEF ReadHash
  <2>3. CASE q # p
    BY <1>2, <2>1, <2>3 DEF RowInv, Holding
  <2>. QED
    BY <2>2, <2>3
<1>5. (reports[t] # None => Judged(reports[t], reports[t]))'
  BY <1>1 DEF RowInv, Judged, Backs, matches
<1>6. (t \in pass.todo => pass.queue[t].hash = reports[t].hash)'
  BY <1>1 DEF RowInv
<1>7. \A q \in Posts \cap Holding(t)' : posts'[q].existing = ReadHash(t)'
  BY <1>3, <1>4
<1>. QED
  BY <1>5, <1>6, <1>7 DEF RowInv

LEMMA UpsertedRow ==
  ASSUME PaymentsInv, NEW t \in Transfers, RowInv(t), Alone(t)', NEW p \in Posts, Upsert(p)
  PROVE  RowInv(t)'
<1>. DEFINE b == posts[p].body
            existing == posts[p].existing
<1>1. posts[p] # None /\ posts' = [posts EXCEPT ![p] = None] /\ UNCHANGED <<now, pass>>
  BY DEF Upsert, chainVars
<1>2. posts'[p] = None /\ \A q \in Posts : q # p => posts'[q] = posts[q]
  BY <1>1 DEF PaymentsInv, LocalPaymentsTypeOK
<1>3. /\ b \in Bodies /\ ~ refused(b)
      /\ t # b.transfer => reports'[t] = reports[t]
      /\ t = b.transfer /\ reports[t] = None => reports'[t].verdict = "UNCHECKED"
      /\ t = b.transfer /\ reports[t] # None => reports'[t] = updated(reports[t], b, existing)
  BY UpsertRow DEF PaymentsInv
<1>4. \A q \in Posts \cap Holding(t)' : q # p /\ q \in Holding(t)
  BY <1>2, RowsAssumption DEF Holding
<1>5. CASE t # b.transfer
  <2>1. reports'[t] = reports[t]
    BY <1>3, <1>5
  <2>2. ReadHash(t)' = ReadHash(t)
    BY <2>1 DEF ReadHash
  <2>3. \A q \in Posts \cap Holding(t)' : posts'[q].existing = ReadHash(t)'
    BY <1>2, <1>4, <2>2 DEF RowInv
  <2>4. (reports[t] # None => Judged(reports[t], reports[t]))'
    BY <1>1, <2>1 DEF RowInv, Judged, Backs, matches
  <2>5. (t \in pass.todo => pass.queue[t].hash = reports[t].hash)'
    BY <1>1, <2>1 DEF RowInv
  <2>. QED
    BY <2>3, <2>4, <2>5 DEF RowInv
<1>6. CASE t = b.transfer
  <2>1. p \in Holding(t)
    BY <1>1, <1>6 DEF Holding
  <2>2. /\ \A x \in Holding(t) : x = p
        /\ existing = ReadHash(t)
    BY <2>1 DEF RowInv, Alone
  <2>3. \A q \in Posts \cap Holding(t)' : FALSE
    BY <1>4, <2>2
  <2>4. t \notin pass.todo
    BY <2>2, RowsAssumption DEF Holding
  <2>5. ASSUME reports'[t] # None PROVE Judged(reports'[t], reports'[t])
    <3>1. CASE reports[t] = None
      BY <1>3, <1>6, <3>1 DEF Judged
    <3>2. CASE reports[t] # None
      <4>1. reports[t] \in Legs /\ existing = reports[t].hash /\ reports[t].hash # "absent"
        BY <2>2, <3>2, LocalPaymentsAssumption DEF PaymentsInv, LocalPaymentsTypeOK, ReadHash, Legs
      <4>2. reports'[t] = updated(reports[t], b, existing)
        BY <1>3, <1>6, <3>2
      <4>. HIDE DEF b, existing
      <4>3. CASE hashChanged(b, existing)
        <5>1. reports'[t].verdict = "UNCHECKED"
          BY <1>3, <4>1, <4>2, <4>3, UpdatedRow
        <5>. QED
          BY <5>1 DEF Judged
      <4>4. CASE ~ hashChanged(b, existing)
        <5>1. /\ SameConversion(reports'[t], reports[t])
              /\ reports'[t].verdict = reports[t].verdict /\ reports'[t].at = reports[t].at
              /\ reports'[t].hash = IF b.hash = None THEN reports[t].hash ELSE b.hash
          BY <1>3, <4>1, <4>2, <4>4, UpdatedRow
        <5>2. reports'[t].hash = reports[t].hash
          BY <4>1, <4>4, <5>1 DEF hashChanged
        <5>3. Judged(reports[t], reports[t])
          BY <3>2 DEF RowInv
        <5>. QED
          BY <5>1, <5>2, <5>3, JudgedSame
      <4>. QED
        BY <4>3, <4>4
    <3>. QED
      BY <3>1, <3>2
  <2>6. (reports[t] # None => Judged(reports[t], reports[t]))'
    BY <1>1, <2>5 DEF Judged, Backs, matches
  <2>7. (t \in pass.todo => pass.queue[t].hash = reports[t].hash)'
    BY <1>1, <2>4
  <2>. QED
    BY <2>3, <2>6, <2>7 DEF RowInv
<1>. QED
  BY <1>5, <1>6

LEMMA StartedRow ==
  ASSUME PaymentsInv, NEW t \in Transfers, RowInv(t), Alone(t)', NEW mode, StartPass(mode)
  PROVE  RowInv(t)'
<1>. DEFINE read == toCheck(mode)
<1>1. /\ pass' = [step |-> IF read = {} THEN "derive" ELSE "ask", mode |-> mode,
                  queue |-> [u \in read |-> reports[u]], todo |-> read, leg |-> None,
                  answer |-> None, derived |-> <<>>]
      /\ UNCHANGED <<now, reports, posts>>
  BY DEF StartPass, idle, chainVars
<1>. HIDE DEF read
<1>2. \A p \in Posts \cap Holding(t)' : p \in Holding(t)
  BY <1>1, RowsAssumption DEF Holding
<1>3. ReadHash(t)' = ReadHash(t)
  BY <1>1 DEF ReadHash
<1>4. \A p \in Posts \cap Holding(t)' : posts'[p].existing = ReadHash(t)'
  BY <1>1, <1>2, <1>3 DEF RowInv
<1>5. t \in pass'.todo => pass'.queue[t].hash = reports'[t].hash
  BY <1>1
<1>6. (reports[t] # None => Judged(reports[t], reports[t]))'
  BY <1>1 DEF RowInv, Judged, Backs, matches
<1>. QED
  BY <1>4, <1>5, <1>6 DEF RowInv

LEMMA VerdictRow ==
  ASSUME PaymentsInv, NEW t \in Transfers, RowInv(t), Alone(t)', WriteVerdict
  PROVE  RowInv(t)'
<1>. DEFINE leg == pass.leg
<1>1. /\ leg \in pass.todo /\ reports[leg] \in Legs /\ pass.queue[leg] \in Legs
      /\ SameConversion(reports[leg], pass.queue[leg]) /\ Judged(pass.queue[leg], pass.answer)
      /\ t # leg => reports'[t] = reports[t]
      /\ reports'[leg] \in Legs /\ reports'[leg].hash = reports[leg].hash
      /\ SameConversion(reports'[leg], reports[leg])
      /\ reports'[leg].verdict = pass.answer.verdict /\ reports'[leg].at = pass.answer.at
  BY WrittenRow
<1>2. UNCHANGED <<now, posts>> /\ pass'.queue = pass.queue /\ pass'.todo = pass.todo \ {leg}
  BY DEF WriteVerdict, chainVars, PaymentsInv, PassInv
<1>. HIDE DEF leg
<1>3. ReadHash(t)' = ReadHash(t)
  <2>1. CASE t = leg
    BY <1>1, <2>1, RowsAssumption DEF ReadHash
  <2>2. CASE t # leg
    BY <1>1, <2>2 DEF ReadHash
  <2>. QED
    BY <2>1, <2>2
<1>4. \A p \in Posts \cap Holding(t)' : p \in Holding(t)
  BY <1>2, RowsAssumption DEF Holding
<1>5. \A p \in Posts \cap Holding(t)' : posts'[p].existing = ReadHash(t)'
  BY <1>2, <1>3, <1>4 DEF RowInv
<1>6. t \in pass'.todo => pass'.queue[t].hash = reports'[t].hash
  BY <1>1, <1>2 DEF RowInv
<1>7. reports'[t] # None => Judged(reports'[t], reports'[t])
  <2>1. CASE t # leg
    BY <1>1, <2>1 DEF RowInv
  <2>2. CASE t = leg
    <3>1. SameConversion(reports'[t], pass.queue[t]) /\ reports'[t].hash = pass.queue[t].hash
      BY <1>1, <2>2 DEF RowInv, SameConversion
    <3>. QED
      BY <1>1, <2>2, <3>1, JudgedSame
  <2>. QED
    BY <2>1, <2>2
<1>8. (reports[t] # None => Judged(reports[t], reports[t]))'
  BY <1>2, <1>7 DEF Judged, Backs, matches
<1>. QED
  BY <1>5, <1>6, <1>8 DEF RowInv

LEMMA UnracedStep ==
  ASSUME PaymentsInv, UnracedInv, HistoryNext
  PROVE  UnracedInv'
<1>. SUFFICES ASSUME NEW t \in Transfers \ raced'
              PROVE  RowInv(t)'
  BY DEF UnracedInv
<1>1. t \in Transfers /\ t \notin raced /\ Alone(t)'
  BY UnracedNext
<1>2. RowInv(t) /\ Next
  BY <1>1 DEF UnracedInv, HistoryNext
<1>3. LocalPaymentsTypeOK /\ PassInv
  BY DEF PaymentsInv
<1>4. now \in Nat
  BY <1>3 DEF LocalPaymentsTypeOK
<1>5. ASSUME NEW p \in Posts, NEW b \in Bodies, Receive(p, b) PROVE RowInv(t)'
  BY <1>1, <1>2, <1>5, ReceiveRow
<1>6. ASSUME NEW p \in Posts, Upsert(p) PROVE RowInv(t)'
  BY <1>1, <1>2, <1>6, UpsertedRow
<1>7. ASSUME NEW mode \in {"verify", "recheck", "derive", "status"}, StartPass(mode) PROVE RowInv(t)'
  BY <1>1, <1>2, <1>7, StartedRow
<1>8. ASSUME NEW u \in Transfers, AskHorizon(u) PROVE RowInv(t)'
  <2>1. /\ UNCHANGED <<reports, posts>> /\ now' \in Nat /\ now' >= now
        /\ pass'.todo = pass.todo /\ pass'.queue = pass.queue
    BY <1>3, <1>4, <1>8 DEF AskHorizon, chainVars, PassInv
  <2>. QED
    BY <1>1, <1>2, <1>3, <2>1, RowKept
<1>9. CASE WriteVerdict
  BY <1>1, <1>2, <1>9, VerdictRow
<1>10. CASE Derive \/ Store \/ PassDies
  <2>1. UNCHANGED <<reports, posts, now>>
    <3>1. CASE Derive
      BY <3>1 DEF Derive, chainVars
    <3>2. CASE Store \/ PassDies
      BY <3>2 DEF Store, PassDies, chainVars
    <3>. QED
      BY <1>10, <3>1, <3>2
  <2>2. pass' = idle \/ \E d \in derivations : pass' = [idle EXCEPT !.step = "store", !.derived = d]
    BY <1>10, Zenon DEF Derive, Store, PassDies
  <2>3. pass'.todo = {}
    <3>1. CASE pass' = idle
      BY <3>1 DEF idle
    <3>2. ASSUME NEW d, pass' = [idle EXCEPT !.step = "store", !.derived = d] PROVE pass'.todo = {}
      BY <3>2 DEF idle
    <3>. QED
      BY <2>2, <3>1, <3>2
  <2>. QED
    BY <1>1, <1>2, <1>3, <1>4, <2>1, <2>3, RowKept
<1>11. CASE Tick \/ Replay \/ \E m \in Milestones : Progress(m) \/ Project(m)
  <2>1. UNCHANGED <<reports, posts, pass>> /\ now' \in Nat /\ now' >= now
    BY <1>4, <1>11 DEF Tick, Replay, Progress, Project, chainVars
  <2>. QED
    BY <1>1, <1>2, <1>3, <2>1, RowKept
<1>. QED
  BY <1>2, <1>5, <1>6, <1>7, <1>8, <1>9, <1>10, <1>11 DEF Next

\* The hash derived for a counted milestone whose rows were in no two hands.
LEMMA DerivedIsShown ==
  ASSUME PaymentsInv, UnracedInv, raced = {}, NEW d \in derivations,
         NEW m \in Milestones \cap DOMAIN d, d[m].status = "VERIFIED"
  PROVE  Shown(m, d[m].leg)
<1>1. m \in counted
  BY DerivedIsReal DEF PaymentsInv
<1>2. m \in financed
  BY <1>1 DEF counted
<1>3. PICK t \in supporting(m) : d[m] = [status |-> "VERIFIED", leg |-> reports[t].hash]
  BY <1>1, <1>2 DEF derivations
<1>4. d[m].leg = reports[t].hash
  BY <1>3
<1>5. /\ t \in Transfers /\ confirmed(t)
      /\ \/ /\ reports[t].direction = "USDC_TO_TRY" /\ reports[t].wallet = Supplier[m]
            /\ reports[t].at >= financedAt[m]
         \/ /\ reports[t].direction = "TRY_TO_USDC" /\ reports[t].wallet = Buyer[m]
            /\ reports[t].at <= settledAt[m]
  BY <1>3 DEF supporting, offRamp, onRamp, confirmedLegs, confirmed
<1>6. /\ reports[t].hash \in LowerHashes /\ Backs(reports[t], reports[t].hash)
      /\ reports[t].at = Payments[reports[t].hash].at
  BY <1>5 DEF UnracedInv, RowInv, Judged, confirmed
<1>7. BacksCycle(m, reports[t].hash)
  BY <1>5, <1>6 DEF Backs, BacksCycle
<1>. QED
  BY <1>4, <1>6, <1>7 DEF Shown

\* A settled milestone keeps the dates of its advance and settlement.
LEMMA ShownKept ==
  ASSUME PaymentsInv, Next, NEW m \in Milestones, Real(m), NEW h, Shown(m, h)
  PROVE  Shown(m, h)'
<1>1. stage[m] = 3 /\ financedAt \in [Milestones -> Nat \cup {None}]
      /\ settledAt \in [Milestones -> Nat \cup {None}]
  BY DEF Real, PaymentsInv, LocalPaymentsTypeOK
<1>2. financedAt'[m] = financedAt[m] /\ settledAt'[m] = settledAt[m]
  <2>1. CASE \E n \in Milestones : Progress(n)
    BY <1>1, <2>1 DEF Progress
  <2>2. CASE UNCHANGED <<financedAt, settledAt>>
    BY <2>2
  <2>. QED
    BY <2>1, <2>2 DEF Next, chainVars, Receive, Upsert, StartPass, AskHorizon, WriteVerdict, Derive,
       Store, PassDies, Tick, Project, Replay
<1>. QED
  BY <1>2 DEF Shown, BacksCycle

LEMMA ShownStep ==
  ASSUME HistoryInv, HistoryNext
  PROVE  ShownInv'
<1>. USE DEF HistoryInv
<1>. SUFFICES ASSUME raced' = {} PROVE ShownInv'
  BY DEF ShownInv
<1>1. raced = {} /\ Next
  BY DEF HistoryNext
<1>2. PaymentsInv /\ UnracedInv /\ CyclesInv
  BY DEF PaymentsInv
<1>3. /\ \A m \in Milestones : cycles[m] # None /\ cycles[m].status = "VERIFIED" =>
           Real(m) /\ Shown(m, cycles[m].leg)
      /\ pass.step = "store" =>
           \A m \in Milestones \cap DOMAIN pass.derived :
             pass.derived[m].status = "VERIFIED" => Real(m) /\ Shown(m, pass.derived[m].leg)
  BY <1>1, <1>2 DEF ShownInv, CyclesInv
<1>4. ASSUME NEW m \in Milestones, cycles'[m] # None, cycles'[m].status = "VERIFIED"
      PROVE  Real(m) /\ Shown(m, cycles'[m].leg)
  <2>1. CASE UNCHANGED cycles
    BY <1>3, <1>4, <2>1
  <2>2. CASE Store
    BY <1>3, <1>4, <2>2 DEF Store, stored
  <2>3. CASE Replay
    BY <1>4, <2>3 DEF Replay
  <2>. QED
    BY <1>1, <2>1, <2>2, <2>3 DEF Next, Receive, Upsert, StartPass, AskHorizon, WriteVerdict, Derive,
       PassDies, Tick, Progress, Project
<1>5. ASSUME NEW m \in Milestones \cap DOMAIN pass'.derived, pass'.step = "store",
             pass'.derived[m].status = "VERIFIED"
      PROVE  Real(m) /\ Shown(m, pass'.derived[m].leg)
  <2>1. CASE UNCHANGED pass
    BY <1>3, <1>5, <2>1
  <2>2. CASE Derive
    <3>1. pass' # idle
      BY <1>5 DEF idle
    <3>2. PICK d \in derivations : pass' = [idle EXCEPT !.step = "store", !.derived = d]
      BY <2>2, <3>1, Zenon DEF Derive
    <3>3. pass'.derived = d
      BY <3>2 DEF idle
    <3>. QED
      BY <1>1, <1>2, <1>5, <3>3, DerivedIsReal, DerivedIsShown DEF PaymentsInv
  <2>3. CASE WriteVerdict
    <3>1. pass' = [step |-> IF pass.todo = {pass.leg} THEN "derive" ELSE "ask", mode |-> pass.mode,
                   queue |-> pass.queue, todo |-> pass.todo \ {pass.leg}, leg |-> None, answer |-> None,
                   derived |-> pass.derived]
      BY <1>2, <2>3 DEF WriteVerdict, PaymentsInv, PassInv
    <3>2. pass'.step \in {"derive", "ask"}
      BY <3>1
    <3>. QED
      BY <1>5, <3>2
  <2>4. CASE \E t \in Transfers : AskHorizon(t)
    BY <1>2, <1>5, <2>4 DEF AskHorizon, PaymentsInv, PassInv
  <2>5. ASSUME NEW mode, StartPass(mode) PROVE FALSE
    BY <1>5, <2>5 DEF StartPass, idle
  <2>6. CASE Store \/ PassDies
    BY <1>5, <2>6 DEF Store, PassDies, idle
  <2>. QED
    BY <1>1, <2>1, <2>2, <2>3, <2>4, <2>5, <2>6 DEF Next, Receive, Upsert, Tick, Progress, Project, Replay
<1>6. ASSUME NEW m \in Milestones, cycles'[m] # None, cycles'[m].status = "VERIFIED"
      PROVE  Shown(m, cycles[m].leg)'
  <2>1. Shown(m, cycles'[m].leg)
    BY <1>4, <1>6
  <2>2. PICK h : h = cycles'[m].leg
    OBVIOUS
  <2>3. Shown(m, h)'
    BY <1>1, <1>2, <1>4, <1>6, <2>1, <2>2, ShownKept
  <2>. QED
    BY <2>2, <2>3
<1>7. ASSUME NEW m \in Milestones \cap DOMAIN pass'.derived, pass'.step = "store",
             pass'.derived[m].status = "VERIFIED"
      PROVE  Shown(m, pass.derived[m].leg)'
  <2>1. Real(m) /\ Shown(m, pass'.derived[m].leg)
    BY <1>5, <1>7
  <2>2. PICK h : h = pass'.derived[m].leg
    OBVIOUS
  <2>3. Shown(m, h)'
    BY <1>1, <1>2, <2>1, <2>2, ShownKept
  <2>. QED
    BY <2>2, <2>3
<1>. QED
  BY <1>6, <1>7 DEF ShownInv

LEMMA HistoryStep == HistoryInv /\ [HistoryNext]_<<vars, raced>> => HistoryInv'
<1>. SUFFICES ASSUME HistoryInv, [HistoryNext]_<<vars, raced>> PROVE HistoryInv'
  OBVIOUS
<1>1. CASE HistoryNext
  <2>1. PaymentsInv'
    BY <1>1, PaymentsStep DEF HistoryInv, HistoryNext
  <2>. QED
    BY <1>1, <2>1, UnracedStep, ShownStep DEF HistoryInv
<1>2. CASE UNCHANGED <<vars, raced>>
  <2>1. /\ UNCHANGED vars /\ raced' = raced
        /\ UNCHANGED <<now, stage, financedAt, settledAt, rows, replays, reports, posts, pass, cycles>>
    BY <1>2 DEF vars, chainVars
  <2>2. PaymentsInv'
    BY <2>1, PaymentsStutter DEF HistoryInv
  <2>3. \A t \in Transfers : RowInv(t) => RowInv(t)'
    BY <2>1 DEF RowInv, Alone, Holding, ReadHash, Judged, Backs, matches
  <2>4. UnracedInv'
    BY <2>1, <2>3 DEF HistoryInv, UnracedInv
  <2>5. ShownInv'
    BY <2>1 DEF HistoryInv, ShownInv, Shown, BacksCycle
  <2>. QED
    BY <2>2, <2>4, <2>5 DEF HistoryInv
<1>. QED
  BY <1>1, <1>2

LEMMA HistoryHolds == HistorySpec => []HistoryInv
<1>1. HistoryInit => HistoryInv
  <2>. SUFFICES ASSUME HistoryInit PROVE HistoryInv
    OBVIOUS
  <2>1. /\ Init /\ raced = {} /\ reports = [t \in Transfers |-> None] /\ posts = [p \in Posts |-> None]
        /\ pass = idle /\ cycles = [m \in Milestones |-> None]
    BY DEF HistoryInit, Init
  <2>2. UnracedInv
    BY <2>1, RowsAssumption DEF UnracedInv, RowInv, Alone, Holding, idle
  <2>3. ShownInv
    BY <2>1 DEF ShownInv, idle
  <2>. QED
    BY <2>1, <2>2, <2>3, PaymentsInit DEF HistoryInv
<1>. QED
  BY <1>1, HistoryStep, PTL DEF HistorySpec, HistoryNext

\* The verdict on a row, and the hash published with a cycle, are about the
\* payment the row names, unless a row was in two hands at once.
THEOREM HashesAreTrue == HistorySpec => []HashesHold
<1>1. HistoryInv => HashesHold
  <2>. SUFFICES ASSUME HistoryInv PROVE HashesHold
    OBVIOUS
  <2>. USE DEF HistoryInv
  <2>1. ASSUME NEW t \in Transfers \ raced, reports[t] # None
        PROVE  /\ reports[t].verdict = "CONFIRMED" =>
                    reports[t].hash \in LowerHashes /\ Backs(reports[t], reports[t].hash)
               /\ reports[t].verdict = "MISMATCHED" =>
                    reports[t].hash \in LowerHashes /\ ~ Backs(reports[t], reports[t].hash)
    <3>1. Judged(reports[t], reports[t])
      BY <2>1 DEF UnracedInv, RowInv
    <3>2. reports[t].direction \in Directions
      BY <2>1 DEF PaymentsInv, LocalPaymentsTypeOK, Legs
    <3>3. ~ matches(reports[t], Payments[reports[t].hash]) => ~ Backs(reports[t], reports[t].hash)
      BY <3>2 DEF Backs, matches, Directions
    <3>. QED
      BY <3>1, <3>3 DEF Judged
  <2>2. VerdictOfHash
    BY <2>1 DEF VerdictOfHash
  <2>3. PublishedHash
    BY DEF ShownInv, Shown, PublishedHash
  <2>. QED
    BY <2>2, <2>3 DEF HashesHold
<1>. QED
  BY <1>1, HistoryHolds, PTL

=============================================================================
