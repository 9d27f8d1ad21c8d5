------------------------- MODULE ContractTransaction -------------------------
(***************************************************************************)
(* One panel's wallet-signed action: useContractTransaction, the runner    *)
(* (build, sign, send, confirm), the reducer behind the panel's status,    *)
(* the classification of failures, and the wait for the indexer.           *)
(*                                                                         *)
(* External: Freighter, the RPC server and the ledger.  Of the wallet      *)
(* controller only what signRaw reads is kept: the account it may sign     *)
(* with now, which follows Freighter with delay (module WalletController). *)
(***************************************************************************)
EXTENDS Naturals, FiniteSets

CONSTANTS Address, NoAddress,
          AsksFirst,       \* the clicks on buttons that await a balance before they call run
          MaxRuns,         \* bound: clicks
          MaxLedger        \* bound: ledgers that close

ASSUME TransactionAssumption ==
  /\ NoAddress \notin Address /\ AsksFirst \subseteq 1 .. MaxRuns
  /\ MaxRuns \in Nat /\ MaxLedger \in Nat

VARIABLES
  freighter,       \* the extension's active account and whether it is on testnet
  view,            \* the account the controller would sign with, if any
  tx,              \* TxState of the panel
  runs,            \* the calls of run: where each waits, and its locals
  chain,           \* what became of each run's transaction
  ledger, scanned  \* the last closed ledger; the last one the indexer scanned

transactionVars == <<freighter, view, tx, runs, chain, ledger, scanned>>

Run == 1 .. MaxRuns
IDLE == [stage |-> "idle", hash |-> 0, failure |-> "none"]
TERMINAL == {"idle", "synced", "sync-delayed", "failed"}
Confirmed == {"syncing", "synced", "sync-delayed"}
\* Faulty variant: the button is enabled once the transaction is submitted.
busy_until_submitted(t) == t.stage \notin TERMINAL \cup {"submitted", "confirming"}
isBusy(t) == t.stage \notin TERMINAL

NotRun ==
  [at |-> "none", built |-> NoAddress, requested |-> NoAddress, signer |-> NoAddress,
   stage |-> "preparing"]
NotSent == [status |-> "none", ledger |-> 0, source |-> NoAddress, signer |-> NoAddress]

-----------------------------------------------------------------------------
(* The reducer *)

\* Late progress must not resurrect a finished transaction.
onStage(t, stage, hash) ==
  IF t.stage \in TERMINAL \cup {"syncing"} THEN t
  ELSE [t EXCEPT !.stage = stage, !.hash = IF hash = 0 THEN @ ELSE hash]
onConfirmed(t, hash) == [t EXCEPT !.stage = "syncing", !.hash = hash]
\* Faulty variant: only the scan that came in time ends the wait.
only_synced(t, outcome) ==
  IF t.stage = "syncing" /\ outcome = "synced" THEN [t EXCEPT !.stage = outcome] ELSE t
onOutcome(t, outcome) == IF t.stage = "syncing" THEN [t EXCEPT !.stage = outcome] ELSE t
onFailed(t, failure) == [t EXCEPT !.stage = "failed", !.failure = failure]
started == [IDLE EXCEPT !.stage = "preparing"]

-----------------------------------------------------------------------------
(* Failures *)

\* What simulation finds: the token contract's refusals are recognised in the raw
\* text first, then one of MilvanceCore's own codes is believed, "contract" for
\* all of them.
TokenFailures == {"missing-trustline", "insufficient-balance", "unfunded-account"}
ContractRejection == "contract"

\* What was thrown, to the failure shown.  An error met while waiting for the
\* wallet is taken for the person's no.
classifyTxError(error, stage) ==
  CASE error \in TokenFailures \cup {ContractRejection, "wrong-network", "account-changed",
                                    "not-connected"} -> error
    [] stage = "awaiting-signature" \/ error = "declined" -> "rejected"
    [] error = "not-finalized" -> "timeout"
    [] error = "fetch-failed" -> "rpc"
    [] OTHER -> "unknown"

\* run has returned: its locals are gone.
returns(r, label) == runs' = [runs EXCEPT ![r] = [NotRun EXCEPT !.at = label]]
throw(r, error) ==
  returns(r, "failed") /\ tx' = onFailed(tx, classifyTxError(error, runs[r].stage))

-----------------------------------------------------------------------------
(* One run, from await to await *)

waits(r, label) == runs[r].at = label
goes(r, label) == runs' = [runs EXCEPT ![r].at = label]

\* The address is the one the panel was rendered with.
start(r, address) ==
  IF address = NoAddress
  THEN returns(r, "failed") /\ tx' = onFailed(started, "not-connected")
  ELSE /\ runs' = [runs EXCEPT ![r].at = "preparing", ![r].built = address]
       /\ tx' = started

unchangedAround == UNCHANGED <<freighter, view, chain, ledger, scanned>>

\* A click on the button of the panel, which is disabled while busy.
click(r) ==
  /\ ~isBusy(tx)
  /\ waits(r, "none") /\ \A earlier \in 1 .. r - 1 : ~waits(earlier, "none")
  /\ IF r \in AsksFirst
     THEN runs' = [runs EXCEPT ![r].at = "holding", ![r].built = view] /\ UNCHANGED tx
     ELSE start(r, view)
  /\ unchangedAround

\* usdcShortfall: enough, or a message and no run.
holdingRead(r) ==
  /\ waits(r, "holding")
  /\ \/ start(r, runs[r].built)
     \/ returns(r, "done") /\ UNCHANGED tx
  /\ unchangedAround

simulated(r) ==
  /\ waits(r, "preparing")
  /\ \/ \E error \in TokenFailures \cup {ContractRejection, "fetch-failed"} : throw(r, error)
     \/ /\ runs' = [runs EXCEPT ![r].at = "signing", ![r].stage = "awaiting-signature"]
        /\ tx' = onStage(tx, "awaiting-signature", 0)
  /\ unchangedAround

\* signRaw asks the port for the account of now.
signRaw(r) ==
  /\ waits(r, "signing")
  /\ IF view = NoAddress THEN throw(r, "not-connected")
     ELSE runs' = [runs EXCEPT ![r].at = "checking", ![r].requested = view] /\ UNCHANGED tx
  /\ unchangedAround

signChecks(r) ==
  /\ waits(r, "checking")
  /\ IF ~freighter.testnet THEN throw(r, "wrong-network")
     ELSE IF freighter.account # runs[r].requested THEN throw(r, "account-changed")
     ELSE goes(r, "prompt") /\ UNCHANGED tx
  /\ unchangedAround

\* The person answers; the signer is compared with the account asked for.
signTransaction(r) ==
  /\ waits(r, "prompt")
  /\ \/ throw(r, "declined")
     \/ freighter.account # runs[r].requested /\ throw(r, "account-changed")
     \/ /\ freighter.account = runs[r].requested
        /\ runs' = [runs EXCEPT ![r].at = "sending", ![r].signer = freighter.account]
        /\ UNCHANGED tx
  /\ unchangedAround

\* The server refuses a transaction its source did not sign.  The answer to one
\* it took may be lost.
send(r) ==
  /\ waits(r, "sending")
  /\ \/ /\ runs[r].signer = runs[r].built
        /\ chain' = [chain EXCEPT ![r] = [status |-> "pending", ledger |-> 0,
                                          source |-> runs[r].built, signer |-> runs[r].signer]]
        /\ \/ /\ runs' = [runs EXCEPT ![r].at = "confirming", ![r].stage = "submitted"]
              /\ tx' = onStage(tx, "submitted", r)
           \/ throw(r, "fetch-failed")
     \/ \E error \in {"refused", "fetch-failed"} : throw(r, error) /\ UNCHANGED chain
  /\ UNCHANGED <<freighter, view, ledger, scanned>>

\* getTransaction, until it is found or the time is up.
poll(r) ==
  /\ waits(r, "confirming")
  /\ \/ /\ chain[r].status \notin {"landed", "failed"}
        /\ runs' = [runs EXCEPT ![r].stage = "confirming"]
        /\ tx' = onStage(tx, "confirming", 0)
     \/ chain[r].status = "landed" /\ goes(r, "waiting") /\ tx' = onConfirmed(tx, r)
     \/ chain[r].status = "failed" /\ throw(r, "not-success")
     \/ chain[r].status \notin {"landed", "failed"} /\ throw(r, "not-finalized")
     \/ throw(r, "fetch-failed")
  /\ unchangedAround

\* Faulty variants: a failed read ends the wait as a failure, and the wait ends
\* when the indexer is one ledger short.
failing_wait(r) ==
  /\ waits(r, "waiting")
  /\ \/ scanned >= chain[r].ledger /\ goes(r, "synced") /\ UNCHANGED tx
     \/ throw(r, "fetch-failed")
  /\ unchangedAround

\* A failed read of the status keeps waiting; so does a scan that is behind,
\* until the deadline.
waitForIndexer(r) ==
  /\ waits(r, "waiting")
  /\ \/ scanned >= chain[r].ledger /\ goes(r, "synced")
     \/ goes(r, "sync-delayed")
  /\ UNCHANGED tx /\ unchangedAround

\* invalidateQueries has settled.
reread(r) ==
  /\ \E outcome \in {"synced", "sync-delayed"} : waits(r, outcome) /\ tx' = onOutcome(tx, outcome)
  /\ returns(r, "done")
  /\ unchangedAround

\* TransactionStatus offers Dismiss or Done on a finished action only.
reset ==
  /\ tx.stage \in TERMINAL \ {"idle"}
  /\ tx' = IDLE
  /\ UNCHANGED runs /\ unchangedAround

-----------------------------------------------------------------------------
(* The world around the panel *)

closeLedger ==
  /\ ledger < MaxLedger
  /\ ledger' = ledger + 1
  /\ \E landing \in SUBSET {r \in Run : chain[r].status = "pending"} :
       \E status \in {"landed", "failed"} :
         chain' = [r \in Run |-> IF r \in landing
                                 THEN [chain[r] EXCEPT !.status = status, !.ledger = ledger']
                                 ELSE chain[r]]
  /\ UNCHANGED <<freighter, view, tx, runs, scanned>>

scan ==
  /\ scanned < ledger
  /\ scanned' = scanned + 1
  /\ UNCHANGED <<freighter, view, tx, runs, chain, ledger>>

switch ==
  /\ freighter' \in [account : Address, testnet : BOOLEAN]
  /\ UNCHANGED <<view, tx, runs, chain, ledger, scanned>>

\* sync, connect, disconnect: the controller comes to name Freighter's account
\* on testnet, or nobody.
follow ==
  /\ view' \in {NoAddress} \cup {a \in Address : freighter = [account |-> a, testnet |-> TRUE]}
  /\ UNCHANGED <<freighter, tx, runs, chain, ledger, scanned>>

step(r) ==
  \/ holdingRead(r) \/ simulated(r) \/ signRaw(r) \/ signChecks(r) \/ signTransaction(r)
  \/ send(r) \/ poll(r) \/ waitForIndexer(r) \/ reread(r)

TransactionInit ==
  /\ freighter \in [account : Address, testnet : {TRUE}]
  /\ view \in Address \cup {NoAddress}
  /\ tx = IDLE
  /\ runs = [r \in Run |-> NotRun]
  /\ chain = [r \in Run |-> NotSent]
  /\ ledger = 0 /\ scanned = 0

TransactionNext ==
  \/ \E r \in Run : click(r) \/ step(r)
  \/ reset \/ closeLedger \/ scan \/ switch \/ follow

TransactionSpec == TransactionInit /\ [][TransactionNext]_transactionVars

=============================================================================
