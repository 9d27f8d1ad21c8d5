-------------------------- MODULE IndexerProperties --------------------------
(***************************************************************************)
(* What makes the indexer correct.                                         *)
(***************************************************************************)
EXTENDS Indexer

\* The row, the tables and the runs have their declared shapes.
TypeOK ==
  /\ head \in Nat /\ oldest \in Nat /\ resets \in Nat
  /\ cursor \in [lastEventId: Token, scannedThroughLedger: Nat \cup {Unscanned},
                 eventsIngested: Nat, lastError: BOOLEAN]
  /\ stored \subseteq Event /\ projected \subseteq Event
  /\ tally \in [Event -> Nat]
  /\ worker \in [Worker ->
       [pc: {"idle", "fetch", "apply", "error"}, expectedEventId: Token,
        expectedScanned: Nat \cup {Unscanned}, events: SUBSET Event,
        cursor: Token, scannedThroughLedger: Nat \cup {Unscanned}]]

Contiguous(S) == \A e \in S, d \in Wanted : d < e => d \in S

\* The stored events are a prefix of the chain's log from the start ledger on,
\* and the cursor never stands beyond it, although processes commit pages they
\* fetched before others committed or reset the tables.  (applyBatch, reset)
PrefixStored ==
  /\ stored \subseteq Emitted \cap Wanted
  /\ Contiguous(stored)
  /\ Behind(cursor.lastEventId) \subseteq stored

\* Through retries, duplicate pages and replays every stored event was projected
\* and counted exactly once, and the row's counter says how many are stored.
\* (applyBatch, dailyMetric)
EachOnce ==
  /\ projected = stored \cap Projects
  /\ \A e \in Event : tally[e] = IF e \in projected THEN 1 ELSE 0
  /\ cursor.eventsIngested = Cardinality(stored)

\* What is scanned strictly below the reported ledger is stored: a reader who
\* waits for a later ledger than its own misses nothing.  (rpc.ts getEvents)
ScannedBelowStored ==
  \A e \in Wanted : Log[e].ledger < cursor.scannedThroughLedger => e \in stored

\* The tables are a prefix of the log, every event of it counted once, and what
\* is reported as scanned is among them.
PrefixOnce == PrefixStored /\ EachOnce /\ ScannedBelowStored

\* A page in flight continues, without a gap, the prefix its resume point stands
\* for.  (rpc.ts getEvents)
PageSound ==
  \A w \in Worker :
    worker[w].pc = "apply" =>
      LET page == worker[w]
          covered == Behind(page.expectedEventId) \cup page.events
      IN
      /\ page.events \subseteq Emitted \cap Wanted
      /\ \A e \in page.events, d \in Wanted : d < e => d \in covered
      /\ page.cursor # NoToken =>
           /\ Behind(page.expectedEventId) \subseteq Behind(page.cursor)
           /\ Behind(page.cursor) \subseteq covered
      /\ \A e \in Wanted : Log[e].ledger < page.scannedThroughLedger => e \in covered

\* The inductive invariant: a page is applied only at the cursor it was fetched
\* for, and behind that cursor everything is stored, even if the tables were
\* dropped and the cursor came back to the same place meanwhile.
IndexInv == TypeOK /\ PrefixStored /\ EachOnce /\ ScannedBelowStored /\ PageSound

\* Only a replay moves the resume point back or forgets an event.  (applyBatch:
\* the cursor row is the stream's mutex)
CursorForward ==
  [][\/ Behind(cursor.lastEventId) \subseteq Behind(cursor'.lastEventId) /\ stored \subseteq stored'
     \/ resets' = resets + 1]_vars

Mirror == INSTANCE EventMirror WITH
  Effective <- Projects, log <- Emitted \cap Wanted, mirror <- stored

\* The indexer implements the abstract mirror of the chain's log.
MirrorsChain == Mirror!Spec

\* The mirror, and a cursor that only a replay moves back.
MirrorsForward == MirrorsChain /\ CursorForward

-----------------------------------------------------------------------------
(* Liveness: processes in watch mode *)

\* Ledgers close; a process polls again and again, is not always killed before
\* its transaction, and the RPC does not fail for ever.
FairSpec ==
  /\ Spec
  /\ WF_vars(close_ledger)
  /\ \A w \in Worker :
       /\ WF_vars(read_cursor(w))
       /\ SF_vars(getEvents(w)) /\ SF_vars(out_of_range(w))
       /\ SF_vars(applyBatch(w)) /\ SF_vars(recordError(w))

\* The row this event updates was created before the start ledger.
Unappliable(e) == Log[e].projects /\ Log[e].needs \notin {0} \cup Wanted

\* Every event is stored, unless the resume point leaves the RPC's window first
\* or stands before a page that can never be applied.
\* (catchUp, indexer.main.ts watch)
CatchesUp ==
  \A e \in Wanted :
    e \in Emitted ~> \/ e \in stored
                     \/ ~in_range(cursor.lastEventId)
                     \/ \E d \in page_after(cursor.lastEventId) : Unappliable(d)

\* A stream that can no longer advance ends up showing an error, and no later
\* poll hides it.  (catchUp, recordError)
ParkedIsReported ==
  (\E e \in Emitted \cap Wanted : Unappliable(e)) ~> []cursor.lastError

-----------------------------------------------------------------------------
(* What the documentation says and the code does not do *)

\* "Highest ledger covered by this response": every event of a ledger reported
\* as scanned is stored.  (rpc.ts EventPage, lifecycle.ts waitForIndexer)
ScannedIsStored ==
  \A e \in Wanted : Log[e].ledger <= cursor.scannedThroughLedger /\ e \in Emitted => e \in stored

=============================================================================
