----------------------- MODULE TransactionProperties -----------------------
(***************************************************************************)
(* What a panel's action promises the person who clicked.                  *)
(***************************************************************************)
EXTENDS ContractTransaction

Underway == {"preparing", "awaiting-signature", "submitted", "confirming"}
Label ==
  {"none", "holding", "preparing", "signing", "checking", "prompt", "sending", "confirming",
   "waiting", "synced", "sync-delayed", "done", "failed"}
Failure ==
  TokenFailures \cup
  {ContractRejection, "none", "wrong-network", "account-changed", "not-connected", "rejected",
   "timeout", "rpc", "unknown"}

TransactionTypeOK ==
  /\ freighter \in [account : Address, testnet : BOOLEAN]
  /\ view \in Address \cup {NoAddress}
  /\ tx \in [stage : TERMINAL \cup Underway \cup {"syncing"}, hash : 0 .. MaxRuns,
             failure : Failure]
  /\ runs \in [Run -> [at : Label, built : Address \cup {NoAddress},
                       requested : Address \cup {NoAddress}, signer : Address \cup {NoAddress},
                       stage : Underway]]
  /\ chain \in [Run -> [status : {"none", "pending", "landed", "failed"}, ledger : Nat,
                        source : Address \cup {NoAddress}, signer : Address \cup {NoAddress}]]
  /\ ledger \in Nat /\ scanned \in Nat

\* Between its click and its last dispatch.
inFlight(r) == runs[r].at \notin {"none", "done", "failed"}

-----------------------------------------------------------------------------
(* FundMilestoneAction and FundAdvanceAction await usdcShortfall before they *)
(* call run, and the panel is not busy meanwhile: their button takes another *)
(* click, and both clicks may come to share the panel's one status.          *)

\* A history variable: some click came while another still awaited the balance.
VARIABLE overclicked

panelVars == <<transactionVars, overclicked>>
clicks(r) == waits(r, "none") /\ runs'[r].at # "none"
remember ==
  overclicked' = (overclicked \/ \E r, s \in Run : waits(r, "holding") /\ clicks(s))

PanelInit == TransactionInit /\ overclicked = FALSE
PanelNext == TransactionNext /\ remember
PanelSpec == PanelInit /\ [][PanelNext]_panelVars

\* Every awaited call settles, the wait for the ledger and for the indexer
\* included: both have a deadline (a poll that only asks again is no progress).
settles(r) == step(r) /\ runs'[r].at # runs[r].at
PanelFairSpec == PanelSpec /\ \A r \in Run : WF_transactionVars(settles(r))

-----------------------------------------------------------------------------
\* One action of a panel at a time is on its way: the button is disabled from
\* the dispatch of `start` to the last dispatch of the run (isBusy), so the
\* panel's one status never belongs to two transactions.  The one way around the
\* button is a click while another awaits usdcShortfall.
OneRunAtATime ==
  \A r, s \in Run : inFlight(r) /\ inFlight(s) => r = s \/ overclicked

\* "We never claim a final financial state before Stellar confirms it": a panel
\* that says Confirmed shows the hash of a transaction that landed, however often
\* it was clicked; one that says the workspace is updated was scanned through the
\* ledger it landed in, unless two clicks share the status.
ConfirmedIsFinal ==
  /\ tx.stage \in Confirmed => tx.hash \in Run /\ chain[tx.hash].status = "landed"
  /\ tx.stage = "synced" /\ ~overclicked => chain[tx.hash].ledger <= scanned

\* A signature is by the account signRaw asked for, whatever the person switched
\* to meanwhile, and what reached the ledger acts for the account the panel was
\* drawn for ("a stale phase can never produce a wrong signature").
SignedAsRequested ==
  \A r \in Run :
    /\ runs[r].signer # NoAddress => runs[r].signer = runs[r].requested
    /\ chain[r].status # "none" => chain[r].signer = chain[r].source

\* "Late progress callbacks must not resurrect a finished transaction", and no
\* late answer does: a finished panel changes by a click or a dismissal only,
\* unless two clicks share it.
FinishedStays ==
  [][tx.stage \in TERMINAL /\ ~overclicked =>
       tx' \in {tx, IDLE, started, onFailed(started, "not-connected")}]_panelVars

\* "We never report a confirmed transaction as failed just because the workspace
\* is a few ledgers behind": after Confirmed comes an updated or a late
\* workspace, with the same transaction, unless another click shares the status.
ConfirmedNeverFails ==
  [][tx.stage = "syncing" /\ ~overclicked =>
       tx'.stage \in Confirmed /\ tx'.hash = tx.hash]_panelVars

\* A panel's transaction, of every panel and every click but one during the
\* balance check: whose it is, and what may be said of it.
PanelTruthful == OneRunAtATime /\ ConfirmedIsFinal /\ SignedAsRequested

\* A final state is not taken back.
NeverTakenBack == FinishedStays /\ ConfirmedNeverFails

\* The button always comes back: no refusal, lost answer, silent ledger or
\* stopped indexer leaves the panel busy.
PanelRecovers == isBusy(tx) ~> ~isBusy(tx)

-----------------------------------------------------------------------------
(* Statements of the source the code does not keep                          *)

\* isBusy: "disabled={isBusy(tx.state)}" keeps a panel to one action, whichever
\* way it is clicked; and its reducer keeps late callbacks from a finished one.
OneRunHoweverClicked == \A r, s \in Run : inFlight(r) /\ inFlight(s) => r = s
FinishedHoweverClicked ==
  [][tx.stage \in TERMINAL =>
       tx' \in {tx, IDLE, started, onFailed(started, "not-connected")}]_transactionVars
SyncedHoweverClicked == tx.stage = "synced" => chain[tx.hash].ledger <= scanned
ConfirmedHoweverClicked ==
  [][tx.stage = "syncing" => tx'.stage \in Confirmed /\ tx'.hash = tx.hash]_transactionVars

\* What is signed was built for the account that signs: signRaw asks for the
\* account of now, the panel built for the account it was rendered with.
SignsWhatItBuilt ==
  \A r \in Run : runs[r].signer # NoAddress => runs[r].signer = runs[r].built

\* errors.ts: "Nothing was submitted", of a failure while the stage is still
\* awaiting-signature; the stage changes only when the answer to send arrives.
shows(r, failure) ==
  runs[r].at # "failed" /\ runs'[r].at = "failed" /\ tx'.failure = failure
NothingSubmitted ==
  [][\A r \in Run : shows(r, "rejected") => chain'[r].status = "none"]_transactionVars

\* errors.ts: "Nothing changed; try again", of a failed read while confirming.
NothingChanged ==
  [][\A r \in Run : shows(r, "rpc") => chain'[r].status = "none"]_transactionVars

=============================================================================
