---------------------------- MODULE IndexerProofs ----------------------------
(***************************************************************************)
(* The indexer mirrors the chain, for any log, any number of processes and *)
(* any page limit.                                                         *)
(***************************************************************************)
EXTENDS IndexerProperties, FiniteSetTheorems, TLAPS

LEMMA LogFacts ==
  /\ Len(Log) \in Nat /\ Event = 1..Len(Log)
  /\ \A e \in Event : Log[e].ledger \in Nat
  /\ \A d, e \in Event : Log[d].ledger < Log[e].ledger => d < e
<1>. DEFINE Entry == [ledger: Nat, needs: Nat, projects: BOOLEAN]
<1>1. Log \in Seq(Entry)
  BY LogAssumption
<1>2. Len(Log) \in Nat /\ DOMAIN Log = 1..Len(Log) /\ \A e \in DOMAIN Log : Log[e] \in Entry
  <2>. HIDE DEF Entry
  <2>. QED
    BY <1>1
<1>3. \A d, e \in DOMAIN Log : d <= e => Log[d].ledger <= Log[e].ledger
  BY LogAssumption
<1>4. \A e \in DOMAIN Log : Log[e].ledger \in Nat /\ e \in Int
  BY <1>2
<1>5. \A d, e \in DOMAIN Log : Log[d].ledger < Log[e].ledger => d < e
  BY <1>3, <1>4
<1>. QED
  BY <1>2, <1>4, <1>5 DEF Event

LEMMA EventFinite == \A S : S \subseteq Event => IsFiniteSet(S)
<1>1. IsFiniteSet(Event)
  BY LogFacts, FS_Interval
<1>. QED
  BY <1>1, FS_Subset

LEMMA TokenType ==
  /\ NoToken \in Token
  /\ head \in Nat => head_token \in Token
  /\ \A e \in Event : event_token(e) \in Token
BY LogFacts DEF Token, NoToken, head_token, event_token

\* A null resume point has left nothing behind.
LEMMA NothingBehindNull == Behind(NoToken) = {}
BY LogFacts DEF Behind, NoToken, Wanted

-----------------------------------------------------------------------------
(* Pages *)

\* A page continues what lies behind its resume point without a gap.
LEMMA PageContiguous ==
  ASSUME NEW token \in Token, head \in Nat,
         NEW e \in page_after(token), NEW d \in Wanted, d < e
  PROVE  d \in Behind(token) \cup page_after(token)
<1>. DEFINE after == published_after(token)
            before(x) == {c \in after : c < x}
<1>1. e \in after /\ after \subseteq Event /\ d \in Event
  BY DEF page_after, published_after, Wanted
<1>2. d \in Emitted
  BY <1>1, LogFacts DEF published_after, Emitted
<1>3. SUFFICES ASSUME d \notin Behind(token) PROVE d \in page_after(token)
  OBVIOUS
<1>4. d \in after
  BY <1>2, <1>3 DEF published_after
<1>5. before(d) \subseteq before(e) /\ IsFiniteSet(before(e))
  <2>1. before(d) \subseteq before(e)
    BY <1>1, LogFacts
  <2>2. before(e) \subseteq Event
    BY <1>1
  <2>. QED
    BY <2>1, <2>2, EventFinite
<1>6. /\ Cardinality(before(d)) <= Cardinality(before(e))
      /\ Cardinality(before(d)) \in Nat /\ Cardinality(before(e)) \in Nat
  <2>. HIDE DEF before
  <2>. QED
    BY <1>5, FS_Subset, FS_CardinalityType
<1>7. Cardinality(before(e)) < PageLimit
  BY DEF page_after
<1>. QED
  BY <1>4, <1>6, <1>7, ConfigAssumption DEF page_after

\* An empty answer covers everything published so far.
LEMMA EmptyPage ==
  ASSUME NEW token \in Token, head \in Nat, in_range(token), published_after(token) = {}
  PROVE  /\ Behind(token) \subseteq Behind(head_token)
         /\ Behind(head_token) \subseteq Behind(token)
         /\ \A e \in Wanted : Log[e].ledger < head => e \in Behind(token)
<1>1. \A e \in Wanted : Log[e].ledger <= head => e \in Behind(token)
  BY DEF published_after, Emitted, Wanted
<1>2. Behind(token) \subseteq Behind(head_token)
  <2>1. CASE token = NoToken
    BY <2>1, NothingBehindNull
  <2>2. CASE token # NoToken
    BY <2>2, LogFacts DEF in_range, resume_ledger, Behind, head_token, Token, Wanted
  <2>. QED
    BY <2>1, <2>2
<1>3. Behind(head_token) \subseteq Behind(token)
  BY <1>1, LogFacts DEF Behind, head_token, Wanted
<1>. QED
  BY <1>1, <1>2, <1>3, LogFacts DEF Wanted

\* A page's last event stands for everything behind the page.
LEMMA FullPage ==
  ASSUME NEW token \in Token, head \in Nat, NEW last \in page_after(token),
         \A e \in page_after(token) : e <= last
  PROVE  /\ Behind(token) \subseteq Behind(event_token(last))
         /\ Behind(event_token(last)) \subseteq Behind(token) \cup page_after(token)
         /\ \A e \in Wanted : Log[e].ledger < Log[last].ledger
                                => e \in Behind(token) \cup page_after(token)
<1>1. last \in Event /\ last \in Wanted /\ last \notin Behind(token)
  BY DEF page_after, published_after, Wanted
<1>2. \A d \in Wanted : d < last => d \in Behind(token) \cup page_after(token)
  BY PageContiguous
<1>3. Behind(token) \subseteq Behind(event_token(last))
  BY <1>1, LogFacts DEF Behind, event_token, Token, Wanted
<1>4. Behind(event_token(last)) \subseteq Behind(token) \cup page_after(token)
  <2>. SUFFICES ASSUME NEW d \in Behind(event_token(last))
                PROVE  d \in Behind(token) \cup page_after(token)
    OBVIOUS
  <2>1. d \in Wanted /\ d \in Event /\ d <= last
    BY <1>1, LogFacts DEF Behind, event_token, Wanted
  <2>. QED
    BY <2>1, <1>1, <1>2, LogFacts
<1>. QED
  BY <1>1, <1>2, <1>3, <1>4, LogFacts DEF Wanted

-----------------------------------------------------------------------------
(* Each step preserves the inductive invariant *)

LEMMA InitIndex == Init => IndexInv
<1>. SUFFICES ASSUME Init PROVE IndexInv
  OBVIOUS
<1>1. TypeOK
  BY TokenType DEF Init, TypeOK, NewCursor, Idle, Unscanned
<1>2. PrefixStored
  BY NothingBehindNull DEF Init, PrefixStored, Contiguous, NewCursor
<1>3. EachOnce
  BY FS_EmptySet DEF Init, EachOnce, NewCursor
<1>4. ScannedBelowStored
  BY LogFacts DEF Init, ScannedBelowStored, NewCursor, Unscanned, Wanted
<1>5. PageSound
  BY DEF Init, PageSound, Idle
<1>. QED
  BY <1>1, <1>2, <1>3, <1>4, <1>5 DEF IndexInv

\* The tables and the chain stay: only runs move, and no new page is in flight.
LEMMA RunFrame ==
  ASSUME IndexInv, NEW w \in Worker, UNCHANGED <<head, stored, projected, tally>>,
         cursor'.lastEventId = cursor.lastEventId,
         cursor'.scannedThroughLedger = cursor.scannedThroughLedger,
         cursor'.eventsIngested = cursor.eventsIngested,
         \E run : worker' = [worker EXCEPT ![w] = run] /\ run.pc # "apply",
         TypeOK'
  PROVE  IndexInv'
<1>1. PrefixStored' /\ EachOnce' /\ ScannedBelowStored'
  BY DEF IndexInv, PrefixStored, EachOnce, ScannedBelowStored, Contiguous, Emitted
<1>2. PageSound'
  BY DEF IndexInv, TypeOK, PageSound, Emitted
<1>. QED
  BY <1>1, <1>2 DEF IndexInv

LEMMA IdleType == Idle \in [pc: {"idle", "fetch", "apply", "error"}, expectedEventId: Token,
  expectedScanned: Nat \cup {Unscanned}, events: SUBSET Event,
  cursor: Token, scannedThroughLedger: Nat \cup {Unscanned}]
BY TokenType DEF Idle

LEMMA ReadCursorIndex ==
  ASSUME IndexInv, NEW w \in Worker, read_cursor(w)
  PROVE  IndexInv'
<1>1. TypeOK'
  BY IdleType DEF IndexInv, TypeOK, read_cursor, chainVars, tableVars, Idle
<1>2. \E run : worker' = [worker EXCEPT ![w] = run] /\ run.pc # "apply"
  <2>. DEFINE run == [Idle EXCEPT !.pc = "fetch", !.expectedEventId = cursor.lastEventId,
                                  !.expectedScanned = cursor.scannedThroughLedger]
  <2>1. run.pc # "apply"
    BY DEF Idle
  <2>2. worker' = [worker EXCEPT ![w] = run]
    BY DEF read_cursor
  <2>. QED
    BY <2>1, <2>2
<1>. QED
  BY <1>1, <1>2, RunFrame DEF read_cursor, chainVars, tableVars

LEMMA OutOfRangeIndex ==
  ASSUME IndexInv, NEW w \in Worker, out_of_range(w) \/ rpc_error(w) \/ abort(w)
  PROVE  IndexInv'
<1>1. /\ worker' = [worker EXCEPT ![w].pc = "error"]
      /\ UNCHANGED <<chainVars, tableVars, resets>>
  BY DEF out_of_range, rpc_error, abort
<1>2. TypeOK'
  BY <1>1 DEF IndexInv, TypeOK, chainVars, tableVars
<1>3. \E run : worker' = [worker EXCEPT ![w] = run] /\ run.pc # "apply"
  <2>. DEFINE run == [worker[w] EXCEPT !.pc = "error"]
  <2>1. run.pc # "apply"
    BY DEF IndexInv, TypeOK
  <2>2. worker' = [worker EXCEPT ![w] = run]
    BY <1>1
  <2>. QED
    BY <2>1, <2>2
<1>. QED
  BY <1>1, <1>2, <1>3, RunFrame DEF chainVars, tableVars

LEMMA BackToIdleIndex ==
  ASSUME IndexInv, NEW w \in Worker, stale(w) \/ crash(w) \/ recordError(w)
  PROVE  IndexInv'
<1>1. /\ worker' = [worker EXCEPT ![w] = Idle]
      /\ UNCHANGED <<chainVars, stored, projected, tally, resets>>
      /\ cursor' \in {cursor, [cursor EXCEPT !.lastError = TRUE]}
  BY DEF stale, crash, recordError, tableVars
<1>2. TypeOK'
  BY <1>1, IdleType DEF IndexInv, TypeOK, chainVars
<1>3. Idle.pc # "apply"
  BY DEF Idle
<1>4. /\ cursor'.lastEventId = cursor.lastEventId
      /\ cursor'.scannedThroughLedger = cursor.scannedThroughLedger
      /\ cursor'.eventsIngested = cursor.eventsIngested
  BY <1>1 DEF IndexInv, TypeOK
<1>. QED
  BY <1>1, <1>2, <1>3, <1>4, RunFrame DEF chainVars

LEMMA GetEventsIndex ==
  ASSUME IndexInv, NEW w \in Worker, getEvents(w)
  PROVE  IndexInv'
<1>. DEFINE token == worker[w].expectedEventId
<1>0. /\ token \in Token /\ head \in Nat /\ worker[w].pc = "fetch" /\ in_range(token)
      /\ UNCHANGED <<chainVars, tableVars, resets>>
  BY DEF getEvents, IndexInv, TypeOK
<1>1. PICK events \in SUBSET Event, next \in Token, scanned \in Nat :
        /\ fetched(w, events, next, scanned)
        /\ events \subseteq Emitted \cap Wanted
        /\ \A e \in events, d \in Wanted : d < e => d \in Behind(token) \cup events
        /\ next # NoToken =>
             /\ Behind(token) \subseteq Behind(next)
             /\ Behind(next) \subseteq Behind(token) \cup events
        /\ \A e \in Wanted : Log[e].ledger < scanned => e \in Behind(token) \cup events
  <2>1. CASE published_after(token) = {} /\
             \E next \in optional({head_token}) : fetched(w, {}, next, head)
    <3>1. PICK next \in optional({head_token}) : fetched(w, {}, next, head)
      BY <2>1
    <3>2. next \in Token /\ (next # NoToken => next = head_token)
      BY <1>0, TokenType DEF optional
    <3>3. /\ Behind(token) \subseteq Behind(head_token)
          /\ Behind(head_token) \subseteq Behind(token)
          /\ \A e \in Wanted : Log[e].ledger < head => e \in Behind(token)
      BY <1>0, <2>1, EmptyPage
    <3>. QED
      BY <1>0, <3>1, <3>2, <3>3
  <2>2. CASE \E last \in page_after(token) :
          /\ \A e \in page_after(token) : e <= last
          /\ \E next \in optional({event_token(last)}) :
               fetched(w, page_after(token), next, highest_event_ledger(last))
    <3>1. PICK last \in page_after(token) :
          /\ \A e \in page_after(token) : e <= last
          /\ \E next \in optional({event_token(last)}) :
               fetched(w, page_after(token), next, highest_event_ledger(last))
      BY <2>2
    <3>2. PICK next \in optional({event_token(last)}) :
            fetched(w, page_after(token), next, highest_event_ledger(last))
      BY <3>1
    <3>3. /\ page_after(token) \subseteq Emitted \cap Wanted
          /\ page_after(token) \subseteq Event
          /\ last \in Event
      BY <3>1 DEF page_after, published_after, Wanted
    <3>4. next \in Token /\ (next # NoToken => next = event_token(last))
      BY <3>3, TokenType DEF optional
    <3>5. highest_event_ledger(last) \in Nat /\ highest_event_ledger(last) = Log[last].ledger
      BY <3>3, LogFacts DEF highest_event_ledger
    <3>6. \A e \in page_after(token), d \in Wanted :
            d < e => d \in Behind(token) \cup page_after(token)
      BY <1>0, PageContiguous
    <3>7. /\ Behind(token) \subseteq Behind(event_token(last))
          /\ Behind(event_token(last)) \subseteq Behind(token) \cup page_after(token)
          /\ \A e \in Wanted : Log[e].ledger < Log[last].ledger
                                 => e \in Behind(token) \cup page_after(token)
      BY <1>0, <3>1, FullPage
    <3>. HIDE DEF token
    <3>. QED
      BY <3>2, <3>3, <3>4, <3>5, <3>6, <3>7
  <2>. QED
    BY <2>1, <2>2 DEF getEvents
<1>2. /\ worker'[w] = [worker[w] EXCEPT !.pc = "apply", !.events = events, !.cursor = next,
                                        !.scannedThroughLedger = scanned]
      /\ \A v \in Worker \ {w} : worker'[v] = worker[v]
      /\ worker' = [worker EXCEPT ![w] = worker'[w]]
  BY <1>1 DEF fetched, IndexInv, TypeOK
<1>3. TypeOK'
  <2>. DEFINE Run == [pc: {"idle", "fetch", "apply", "error"}, expectedEventId: Token,
                      expectedScanned: Nat \cup {Unscanned}, events: SUBSET Event,
                      cursor: Token, scannedThroughLedger: Nat \cup {Unscanned}]
  <2>1. worker'[w] \in Run
    BY <1>1, <1>2 DEF IndexInv, TypeOK
  <2>2. worker' \in [Worker -> Run]
    BY <1>2, <2>1 DEF IndexInv, TypeOK
  <2>. QED
    BY <1>0, <2>2 DEF IndexInv, TypeOK, chainVars, tableVars
<1>4. PrefixStored' /\ EachOnce' /\ ScannedBelowStored'
  BY <1>0 DEF IndexInv, PrefixStored, EachOnce, ScannedBelowStored, Contiguous, Emitted,
              chainVars, tableVars
<1>5. PageSound'
  <2>. SUFFICES ASSUME NEW v \in Worker, worker'[v].pc = "apply"
                PROVE  LET page == worker'[v]
                           covered == Behind(page.expectedEventId) \cup page.events
                       IN
                       /\ page.events \subseteq Emitted \cap Wanted
                       /\ \A e \in page.events, d \in Wanted : d < e => d \in covered
                       /\ page.cursor # NoToken =>
                            /\ Behind(page.expectedEventId) \subseteq Behind(page.cursor)
                            /\ Behind(page.cursor) \subseteq covered
                       /\ \A e \in Wanted :
                            Log[e].ledger < page.scannedThroughLedger => e \in covered
    BY <1>0 DEF PageSound, Emitted, chainVars
  <2>1. CASE v = w
    <3>1. /\ worker'[w].events = events /\ worker'[w].cursor = next
          /\ worker'[w].scannedThroughLedger = scanned
          /\ worker'[w].expectedEventId = token
      BY <1>2 DEF IndexInv, TypeOK
    <3>. HIDE DEF token
    <3>. QED
      BY <2>1, <3>1, <1>1
  <2>2. CASE v # w
    BY <2>2, <1>2 DEF IndexInv, PageSound
  <2>. QED
    BY <2>1, <2>2
<1>. QED
  BY <1>3, <1>4, <1>5 DEF IndexInv

LEMMA CommitIndex ==
  ASSUME IndexInv, NEW w \in Worker, commit(w)
  PROVE  IndexInv'
<1>. DEFINE page == worker[w]
            covered == Behind(page.expectedEventId) \cup page.events
<1>1. /\ page.events \subseteq Emitted \cap Wanted
      /\ \A e \in page.events, d \in Wanted : d < e => d \in covered
      /\ page.cursor # NoToken => Behind(page.cursor) \subseteq covered
      /\ \A e \in Wanted : Log[e].ledger < page.scannedThroughLedger => e \in covered
  BY DEF commit, IndexInv, PageSound
<1>2. /\ page.expectedEventId = cursor.lastEventId
      /\ Behind(cursor.lastEventId) \subseteq stored
      /\ Contiguous(stored) /\ stored \subseteq Emitted \cap Wanted
  BY DEF commit, cursor_current, IndexInv, PrefixStored
<1>3. stored' = stored \cup page.events /\ covered \subseteq stored'
  BY <1>2 DEF commit, unseen
<1>4. /\ IsFiniteSet(stored) /\ IsFiniteSet(unseen(w))
      /\ Cardinality(unseen(w)) \in Nat
      /\ Cardinality(stored \cup unseen(w)) = Cardinality(stored) + Cardinality(unseen(w))
  <2>1. stored \subseteq Event /\ unseen(w) \subseteq Event
    BY DEF IndexInv, TypeOK, unseen
  <2>2. IsFiniteSet(stored) /\ IsFiniteSet(unseen(w))
    BY <2>1, EventFinite
  <2>3. stored \cap unseen(w) = {}
    BY DEF unseen
  <2>4. Cardinality(stored) \in Nat /\ Cardinality(unseen(w)) \in Nat
    BY <2>2, FS_CardinalityType
  <2>5. Cardinality(stored \cup unseen(w))
          = Cardinality(stored) + Cardinality(unseen(w)) - Cardinality(stored \cap unseen(w))
    BY <2>2, FS_Union
  <2>6. Cardinality(stored \cap unseen(w)) = 0
    BY <2>3, FS_EmptySet
  <2>. QED
    BY <2>2, <2>4, <2>5, <2>6
<1>5. /\ cursor'.lastEventId = next_event_id(w)
      /\ cursor'.scannedThroughLedger = page.scannedThroughLedger
      /\ cursor'.eventsIngested = cursor.eventsIngested + Cardinality(unseen(w))
  BY DEF commit
<1>6. worker' = [worker EXCEPT ![w] = Idle] /\ UNCHANGED <<head, oldest, resets>>
  BY DEF commit, chainVars
<1>7. TypeOK'
  <2>1. cursor' \in [lastEventId: Token, scannedThroughLedger: Nat \cup {Unscanned},
                     eventsIngested: Nat, lastError: BOOLEAN]
    BY <1>4 DEF commit, next_event_id, IndexInv, TypeOK
  <2>2. stored' \subseteq Event /\ projected' \subseteq Event /\ tally' \in [Event -> Nat]
    BY DEF commit, unseen, IndexInv, TypeOK
  <2>. QED
    BY <2>1, <2>2, <1>6, IdleType DEF IndexInv, TypeOK
<1>8. PrefixStored'
  <2>1. stored' \subseteq (Emitted \cap Wanted)'
    BY <1>1, <1>2, <1>3, <1>6 DEF Emitted
  <2>2. Contiguous(stored')
    BY <1>1, <1>2, <1>3 DEF Contiguous
  <2>3. Behind(cursor'.lastEventId) \subseteq stored'
    BY <1>1, <1>2, <1>3, <1>5 DEF next_event_id
  <2>. QED
    BY <2>1, <2>2, <2>3 DEF PrefixStored, Contiguous
<1>9. EachOnce'
  <2>1. projected' = stored' \cap Projects
    BY <1>3 DEF commit, unseen, IndexInv, EachOnce
  <2>2. \A e \in Event : tally'[e] = IF e \in projected' THEN 1 ELSE 0
    BY DEF commit, unseen, IndexInv, TypeOK, EachOnce
  <2>3. cursor'.eventsIngested = Cardinality(stored')
    BY <1>4, <1>5 DEF commit, IndexInv, EachOnce
  <2>. QED
    BY <2>1, <2>2, <2>3 DEF EachOnce
<1>10. ScannedBelowStored'
  BY <1>1, <1>3, <1>5 DEF ScannedBelowStored
<1>11. PageSound'
  BY <1>6 DEF IndexInv, TypeOK, PageSound, Idle, Emitted
<1>. QED
  BY <1>7, <1>8, <1>9, <1>10, <1>11 DEF IndexInv

LEMMA ResetIndex ==
  ASSUME IndexInv, NEW w \in Worker, reset(w)
  PROVE  IndexInv'
<1>1. TypeOK'
  BY TokenType DEF IndexInv, TypeOK, reset, NewCursor, rewound, chainVars
<1>2. PrefixStored'
  BY NothingBehindNull DEF reset, PrefixStored, Contiguous, NewCursor, rewound
<1>3. EachOnce'
  BY FS_EmptySet DEF reset, EachOnce, NewCursor, rewound
<1>4. ScannedBelowStored'
  BY LogFacts DEF reset, ScannedBelowStored, NewCursor, rewound, Unscanned, Wanted
<1>5. PageSound'
  BY DEF IndexInv, PageSound, reset, chainVars, Emitted
<1>. QED
  BY <1>1, <1>2, <1>3, <1>4, <1>5 DEF IndexInv

\* A published event stays published, so what is in flight stays sound.
LEMMA ChainIndex ==
  ASSUME IndexInv, close_ledger \/ age_out
  PROVE  IndexInv'
<1>1. /\ head \in Nat /\ head' \in Nat /\ head <= head' /\ oldest' \in Nat
      /\ UNCHANGED <<tableVars, worker, resets>>
  BY DEF IndexInv, TypeOK, close_ledger, age_out
<1>2. Emitted \subseteq Emitted'
  BY <1>1, LogFacts DEF Emitted
<1>3. TypeOK'
  BY <1>1 DEF IndexInv, TypeOK, tableVars
<1>4. PrefixStored' /\ EachOnce' /\ ScannedBelowStored'
  BY <1>1, <1>2 DEF IndexInv, PrefixStored, EachOnce, ScannedBelowStored, Contiguous, tableVars
<1>5. PageSound'
  BY <1>1, <1>2 DEF IndexInv, PageSound
<1>. QED
  BY <1>3, <1>4, <1>5 DEF IndexInv

LEMMA NextIndex == IndexInv /\ [Next]_vars => IndexInv'
<1>. SUFFICES ASSUME IndexInv, [Next]_vars PROVE IndexInv'
  OBVIOUS
<1>1. CASE close_ledger \/ age_out
  BY <1>1, ChainIndex
<1>2. ASSUME NEW w \in Worker,
             \/ read_cursor(w) \/ getEvents(w) \/ out_of_range(w) \/ rpc_error(w)
             \/ applyBatch(w) \/ recordError(w) \/ reset(w) \/ crash(w)
      PROVE  IndexInv'
  BY <1>2, ReadCursorIndex, GetEventsIndex, OutOfRangeIndex, CommitIndex, BackToIdleIndex,
     ResetIndex DEF applyBatch
<1>3. CASE UNCHANGED vars
  BY <1>3 DEF IndexInv, TypeOK, PrefixStored, EachOnce, ScannedBelowStored, PageSound,
              Contiguous, Emitted, vars, chainVars, tableVars
<1>. QED
  BY <1>1, <1>2, <1>3 DEF Next

LEMMA IndexInvariant == Spec => []IndexInv
BY InitIndex, NextIndex, PTL DEF Spec

-----------------------------------------------------------------------------
(* What a step may do to the cursor and the tables *)

\* A step either moves a run or the chain, or commits a page, or replays.
LEMMA StepKinds ==
  ASSUME IndexInv, [Next]_vars
  PROVE  \/ /\ UNCHANGED <<stored, tally, resets>> /\ cursor'.lastEventId = cursor.lastEventId
            /\ head' \in Nat /\ head <= head'
         \/ \E w \in Worker : commit(w)
         \/ \E w \in Worker : reset(w)
<1>1. CASE UNCHANGED vars \/ close_ledger \/ age_out
  BY <1>1 DEF vars, chainVars, tableVars, close_ledger, age_out, IndexInv, TypeOK
<1>2. ASSUME NEW w \in Worker,
             \/ read_cursor(w) \/ getEvents(w) \/ out_of_range(w) \/ rpc_error(w)
             \/ stale(w) \/ abort(w) \/ crash(w)
      PROVE  UNCHANGED <<chainVars, tableVars, resets>>
  BY <1>2 DEF read_cursor, getEvents, out_of_range, rpc_error, stale, abort, crash
<1>3. ASSUME NEW w \in Worker, recordError(w)
      PROVE  /\ UNCHANGED <<chainVars, stored, tally, resets>>
             /\ cursor'.lastEventId = cursor.lastEventId
  BY <1>3 DEF recordError, IndexInv, TypeOK
<1>4. head \in Nat
  BY DEF IndexInv, TypeOK
<1>. QED
  BY <1>1, <1>2, <1>3, <1>4 DEF Next, applyBatch, chainVars, tableVars

\* A page is committed at the resume point it was fetched for.
LEMMA CommitForward ==
  ASSUME IndexInv, NEW w \in Worker, commit(w)
  PROVE  Behind(cursor.lastEventId) \subseteq Behind(cursor'.lastEventId)
<1>1. worker[w].cursor # NoToken =>
        Behind(cursor.lastEventId) \subseteq Behind(worker[w].cursor)
  BY DEF commit, cursor_current, IndexInv, PageSound
<1>2. cursor'.lastEventId = next_event_id(w)
  BY DEF commit
<1>. QED
  BY <1>1, <1>2 DEF next_event_id

-----------------------------------------------------------------------------
(* The indexer implements the mirror *)

LEMMA MirrorInit == Init => Mirror!Init
BY DEF Init, Mirror!Init, Mirror!Counted

LEMMA MirrorStep == IndexInv /\ IndexInv' /\ [Next]_vars => [Mirror!Next]_(Mirror!vars)
<1>. SUFFICES ASSUME IndexInv, IndexInv', [Next]_vars PROVE [Mirror!Next]_(Mirror!vars)
  OBVIOUS
<1>. DEFINE log == Emitted \cap Wanted
<1>1. CASE /\ UNCHANGED <<stored, tally, resets>> /\ head' \in Nat /\ head <= head'
  <2>1. log \subseteq log'
    BY <1>1, LogFacts DEF Emitted, Wanted, IndexInv, TypeOK
  <2>2. \A e \in log, d \in log' : d < e => d \in log
    BY <1>1, LogFacts DEF Emitted, Wanted, IndexInv, TypeOK
  <2>. QED
    BY <1>1, <2>1, <2>2 DEF Mirror!Next, Mirror!Publish, Mirror!Prefix
<1>2. ASSUME NEW w \in Worker, commit(w) PROVE Mirror!Extend
  <2>1. UNCHANGED log /\ stored \subseteq stored'
    BY <1>2 DEF commit, chainVars, Emitted
  <2>2. stored' \subseteq log /\ \A e \in stored', d \in log : d < e => d \in stored'
    BY <2>1 DEF IndexInv, PrefixStored, Contiguous
  <2>3. tally' = Mirror!Counted(stored')
    BY DEF IndexInv, TypeOK, EachOnce, Mirror!Counted, Projects
  <2>. QED
    BY <2>1, <2>2, <2>3 DEF Mirror!Extend, Mirror!Prefix
<1>3. ASSUME NEW w \in Worker, reset(w) PROVE Mirror!Rebuild
  <2>1. stored' = {} /\ UNCHANGED log /\ tally' = [e \in Event |-> 0]
    BY <1>3 DEF reset, chainVars, Emitted
  <2>. QED
    BY <2>1 DEF Mirror!Rebuild, Mirror!Counted
<1>. QED
  BY <1>1, <1>2, <1>3, StepKinds DEF Mirror!Next

-----------------------------------------------------------------------------
(* Theorems *)

\* Every row and every run keeps its declared shape.  (indexer.service.ts)
THEOREM IndexerTypeCorrect == Spec => []TypeOK
BY IndexInvariant, PTL DEF IndexInv

\* The tables hold a prefix of the chain's log, each event of it projected and
\* counted once and nothing below the reported ledger missing, however processes,
\* replays and crashes interleave.  (applyBatch, reset, rpc.ts getEvents)
THEOREM StoresPrefixOnce == Spec => []PrefixOnce
BY IndexInvariant, PTL DEF IndexInv, PrefixOnce

\* Only a replay moves the resume point back or forgets an event.  (applyBatch)
THEOREM CursorOnlyForward == Spec => CursorForward
<1>. DEFINE Forward ==
       \/ Behind(cursor.lastEventId) \subseteq Behind(cursor'.lastEventId) /\ stored \subseteq stored'
       \/ resets' = resets + 1
<1>1. IndexInv /\ [Next]_vars => [Forward]_vars
  <2>. SUFFICES ASSUME IndexInv, [Next]_vars PROVE Forward
    OBVIOUS
  <2>1. CASE UNCHANGED <<stored, resets>> /\ cursor'.lastEventId = cursor.lastEventId
    BY <2>1 DEF Behind
  <2>2. ASSUME NEW w \in Worker, commit(w) PROVE Forward
    BY <2>2, CommitForward DEF commit
  <2>3. ASSUME NEW w \in Worker, reset(w) PROVE Forward
    BY <2>3 DEF reset
  <2>. QED
    BY <2>1, <2>2, <2>3, StepKinds
<1>. QED
  BY <1>1, IndexInvariant, PTL DEF Spec, CursorForward

\* The indexer's tables are at every moment those of a prefix of the chain's
\* log, each effective event counted once, and only a replay moves the cursor
\* back.  (applyBatch, reset)
THEOREM IndexerMirrorsForward == Spec => MirrorsForward
<1>1. Spec => MirrorsChain
  BY MirrorInit, MirrorStep, IndexInvariant, PTL DEF Spec, MirrorsChain, Mirror!Spec
<1>. QED
  BY <1>1, CursorOnlyForward, PTL DEF MirrorsForward

=============================================================================
