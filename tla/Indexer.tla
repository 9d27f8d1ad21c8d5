------------------------------- MODULE Indexer -------------------------------
(***************************************************************************)
(* The Soroban event indexer, apps/api/src/indexer: processes that page    *)
(* through the chain's events, store each page together with the cursor in *)
(* one database transaction, and may drop everything and start again.      *)
(*                                                                         *)
(* An action is what runs between two awaits that let another process in.  *)
(* applyBatch and reset are single actions: each is a transaction that     *)
(* first locks the cursor's row.  The row is created before anything else  *)
(* and an absent row reads like a new one, so Init starts with it.  An     *)
(* event is its position in the chain's log; of its contents only what the *)
(* indexer's control depends on is kept.  Timestamps and log lines are     *)
(* left out, and so are the flags reset clears on uploaded evidence, which *)
(* the indexer never reads.                                                *)
(***************************************************************************)
EXTENDS Integers, FiniteSets, Sequences

CONSTANTS
  Worker,          \* indexer processes
  Log,             \* the chain's events in chain order
  StartLedger,     \* config.indexer.startLedger
  PageLimit,       \* limit of a getEvents query
  CursorOptional,  \* whether the RPC may leave the cursor out of a response
  \* Bounds of the model: last ledger, replays.
  MaxLedger, MaxResets

\* needs: the event whose row this one updates, 0 for none (requireMilestone,
\* findOrder); projects: known and successful, so projectEvent applies it.
ASSUME LogAssumption ==
  /\ Log \in Seq([ledger: Nat, needs: Nat, projects: BOOLEAN])
  /\ \A d, e \in DOMAIN Log : d <= e => Log[d].ledger <= Log[e].ledger
  /\ \A e \in DOMAIN Log : Log[e].needs < e

ASSUME ConfigAssumption ==
  /\ StartLedger \in Nat /\ PageLimit \in Nat \ {0} /\ CursorOptional \in BOOLEAN
  /\ MaxLedger \in Nat /\ MaxResets \in Nat

VARIABLES
  head,       \* the latest closed ledger
  oldest,     \* the oldest ledger the RPC still serves
  cursor,     \* the IndexerCursor row
  stored,     \* rows of IndexedContractEvent
  projected,  \* events applied to the read models
  tally,      \* contributions of each event to AnalyticsDaily
  worker,     \* the catchUp run of each process
  resets

chainVars == <<head, oldest>>
tableVars == <<cursor, stored, projected, tally>>
vars == <<chainVars, tableVars, worker, resets>>

Event == DOMAIN Log
Wanted == {e \in Event : Log[e].ledger >= StartLedger}
Emitted == {e \in Event : Log[e].ledger <= head}
Projects == {e \in Event : Log[e].projects}

\* The RPC's paging token: everything up to an event, or a whole ledger.
Token == [ledger: Nat, index: Nat]
NoToken == [ledger |-> 0, index |-> 0]
event_token(e) == [ledger |-> Log[e].ledger, index |-> e]
head_token == [ledger |-> head, index |-> Len(Log)]

\* The wanted events a resume point has left behind.
Behind(token) ==
  {e \in Wanted : \/ Log[e].ledger < token.ledger
                  \/ Log[e].ledger = token.ledger /\ e <= token.index}

Unscanned == -1

\* The row as ensureCursor creates it and reset rewinds it.
NewCursor ==
  [lastEventId |-> NoToken, scannedThroughLedger |-> Unscanned,
   eventsIngested |-> 0, lastError |-> FALSE]

Idle ==
  [pc |-> "idle", expectedEventId |-> NoToken, expectedScanned |-> Unscanned,
   events |-> {}, cursor |-> NoToken, scannedThroughLedger |-> Unscanned]

Init ==
  /\ head = 0 /\ oldest = 0
  /\ cursor = NewCursor
  /\ stored = {} /\ projected = {} /\ tally = [e \in Event |-> 0]
  /\ worker = [w \in Worker |-> Idle]
  /\ resets = 0

-----------------------------------------------------------------------------
(* Faulty variants of the helpers below, each a bug the properties must catch *)

cursor_unchecked(w) == TRUE
swallow_failures(w) == TRUE
cursor_kept(w) == cursor.lastEventId
rewound_keeping_count == [NewCursor EXCEPT !.eventsIngested = cursor.eventsIngested]

-----------------------------------------------------------------------------
(* The RPC *)

resume_ledger(token) == IF token = NoToken THEN StartLedger ELSE token.ledger
in_range(token) == oldest <= resume_ledger(token) /\ resume_ledger(token) <= head

\* What the chain published after the resume point, and its first PageLimit events.
published_after(token) == (Emitted \cap Wanted) \ Behind(token)
page_after(token) ==
  LET after == published_after(token) IN
  {e \in after : Cardinality({d \in after : d < e}) < PageLimit}

\* Highest ledger covered: the ledger of the page's last event.
highest_event_ledger(last) == Log[last].ledger

optional(tokens) == IF CursorOptional THEN tokens \cup {NoToken} ELSE tokens

-----------------------------------------------------------------------------
(* catchUp: read the cursor, fetch a page, apply it, again *)

\* ensureCursor; the page budget of a run only decides when a new run starts.
read_cursor(w) ==
  /\ worker[w].pc = "idle"
  /\ worker' = [worker EXCEPT ![w] =
       [Idle EXCEPT !.pc = "fetch", !.expectedEventId = cursor.lastEventId,
                    !.expectedScanned = cursor.scannedThroughLedger]]
  /\ UNCHANGED <<chainVars, tableVars, resets>>

fetched(w, events, token, scanned) ==
  worker' = [worker EXCEPT ![w] =
    [@ EXCEPT !.pc = "apply", !.events = events, !.cursor = token,
              !.scannedThroughLedger = scanned]]

getEvents(w) ==
  LET token == worker[w].expectedEventId IN
  /\ worker[w].pc = "fetch"
  /\ in_range(token)
  /\ \/ /\ published_after(token) = {}
        /\ \E next \in optional({head_token}) : fetched(w, {}, next, head)
     \/ \E last \in page_after(token) :
          /\ \A e \in page_after(token) : e <= last
          /\ \E next \in optional({event_token(last)}) :
               fetched(w, page_after(token), next, highest_event_ledger(last))
  /\ UNCHANGED <<chainVars, tableVars, resets>>

\* The resume point has left the RPC's window.
out_of_range(w) ==
  /\ worker[w].pc = "fetch"
  /\ ~in_range(worker[w].expectedEventId)
  /\ worker' = [worker EXCEPT ![w].pc = "error"]
  /\ UNCHANGED <<chainVars, tableVars, resets>>

\* The RPC is unreachable, or answers with an error.
rpc_error(w) ==
  /\ worker[w].pc = "fetch"
  /\ worker' = [worker EXCEPT ![w].pc = "error"]
  /\ UNCHANGED <<chainVars, tableVars, resets>>

\* The cursor is what it was when the page was asked for.
cursor_current(w) ==
  /\ cursor.lastEventId = worker[w].expectedEventId
  /\ cursor.scannedThroughLedger = worker[w].expectedScanned

unseen(w) == worker[w].events \ stored

\* projectEvent throws when the row an event updates is not there.
projectable(w) ==
  \A e \in unseen(w) \cap Projects :
    Log[e].needs \in {0} \cup projected \cup (unseen(w) \cap Projects)

next_event_id(w) ==
  IF worker[w].cursor # NoToken THEN worker[w].cursor ELSE cursor.lastEventId

commit(w) ==
  /\ worker[w].pc = "apply"
  /\ cursor_current(w)
  /\ projectable(w)
  /\ stored' = stored \cup unseen(w)
  /\ projected' = projected \cup (unseen(w) \cap Projects)
  /\ tally' = [e \in Event |-> tally[e] + (IF e \in unseen(w) \cap Projects THEN 1 ELSE 0)]
  /\ cursor' = [lastEventId |-> next_event_id(w),
                scannedThroughLedger |-> worker[w].scannedThroughLedger,
                eventsIngested |-> cursor.eventsIngested + Cardinality(unseen(w)),
                lastError |-> FALSE]
  /\ worker' = [worker EXCEPT ![w] = Idle]
  /\ UNCHANGED <<chainVars, resets>>

\* StaleIndexerCursorError: rolled back, and the cursor is read again.
stale(w) ==
  /\ worker[w].pc = "apply"
  /\ ~cursor_current(w)
  /\ worker' = [worker EXCEPT ![w] = Idle]
  /\ UNCHANGED <<chainVars, tableVars, resets>>

abort(w) ==
  /\ worker[w].pc = "apply"
  /\ cursor_current(w)
  /\ ~projectable(w)
  /\ worker' = [worker EXCEPT ![w].pc = "error"]
  /\ UNCHANGED <<chainVars, tableVars, resets>>

applyBatch(w) == commit(w) \/ stale(w) \/ abort(w)

\* A statement of its own, after the transaction was rolled back.
recordError(w) ==
  /\ worker[w].pc = "error"
  /\ cursor' = [cursor EXCEPT !.lastError = TRUE]
  /\ worker' = [worker EXCEPT ![w] = Idle]
  /\ UNCHANGED <<chainVars, stored, projected, tally, resets>>

\* The columns reset puts back.
rewound == NewCursor

\* A process in replay mode drops the derived rows and rewinds the cursor.
reset(w) ==
  /\ worker[w].pc = "idle"
  /\ resets < MaxResets
  /\ cursor' = rewound
  /\ stored' = {} /\ projected' = {} /\ tally' = [e \in Event |-> 0]
  /\ resets' = resets + 1
  /\ UNCHANGED <<chainVars, worker>>

\* A process dies; what it had not committed is gone.  Another one starts.
crash(w) ==
  /\ worker[w].pc # "idle"
  /\ worker' = [worker EXCEPT ![w] = Idle]
  /\ UNCHANGED <<chainVars, tableVars, resets>>

close_ledger ==
  /\ head < MaxLedger
  /\ head' = head + 1
  /\ UNCHANGED <<oldest, tableVars, worker, resets>>

age_out ==
  /\ oldest < head
  /\ oldest' = oldest + 1
  /\ UNCHANGED <<head, tableVars, worker, resets>>

Next ==
  \/ close_ledger
  \/ age_out
  \/ \E w \in Worker :
       \/ read_cursor(w) \/ getEvents(w) \/ out_of_range(w) \/ rpc_error(w)
       \/ applyBatch(w) \/ recordError(w) \/ reset(w) \/ crash(w)

Spec == Init /\ [][Next]_vars

=============================================================================
