-------------------------- MODULE WalletController --------------------------
(***************************************************************************)
(* apps/web/lib/wallet/controller.ts: the browser's one wallet session.    *)
(* Its methods are asynchronous and overlap: an action here is what one of *)
(* them does between two awaits.                                           *)
(*                                                                         *)
(* External: Freighter, whose account and network the person switches at   *)
(* will, the trustline check and the contract client.  Messages and error  *)
(* details are left out.                                                   *)
(***************************************************************************)
EXTENDS Naturals, Sequences

CONSTANTS Address, NoAddress, NoOrder,
          MaxOrdersSent              \* bound: transactions the server takes

ASSUME WalletAssumption == NoAddress \notin Address /\ NoOrder \notin Nat

VARIABLES
  state,           \* WalletState: what every page shows
  session,         \* the address in the browser's local storage
  busy, syncing,   \* the controller's flags
  task,            \* by method: the await it is at, and its locals
  freighter,       \* the extension's account, and whether it is on testnet
  sent             \* history: the buyers of the orders the server took

walletVars == <<state, session, busy, syncing, task, freighter, sent>>

\* Bound: refresh and disconnect, which no flag keeps from overlapping each other
\* and themselves, do not.
Op == {"connect", "restore", "disconnect", "sync", "refresh", "createOrder"}
Exclusive == {"connect", "restore", "createOrder"}

Idle == [at |-> "idle", address |-> NoAddress, heard |-> NoAddress]
isIdle(op) == task[op].at = "idle"

\* update replaces the whole state: what is not named is gone.
bare(phase, address) == [phase |-> phase, address |-> address, hash |-> 0, order |-> NoOrder]
update(s) == state' = s
keep(s, phase) == update([s EXCEPT !.phase = phase])

-----------------------------------------------------------------------------
(* Starting, waiting and returning *)

await(op, label, address) ==
  task' = [task EXCEPT ![op] = [at |-> label, address |-> address, heard |-> NoAddress]]
waits(op, label) == task[op].at = label
address_of(op) == task[op].address

\* The account Freighter answers is the one of that moment; the network, on
\* which no more than the phase depends, is read when the method goes on.
answered(op) ==
  /\ waits(op, "address") /\ task[op].heard = NoAddress
  /\ task' = [task EXCEPT ![op].heard = freighter.account]
  /\ UNCHANGED <<state, session, busy, syncing, freighter, sent>>
heard(op) == waits(op, "address") /\ task[op].heard # NoAddress
answer(op) == task[op].heard

\* Faulty variant: the finally of sync is forgotten.
return_without_sync(op) ==
  /\ task' = [task EXCEPT ![op] = Idle]
  /\ busy' = (busy /\ op \notin Exclusive)
  /\ UNCHANGED syncing
\* The finally blocks.
return(op) ==
  /\ task' = [task EXCEPT ![op] = Idle]
  /\ busy' = (busy /\ op \notin Exclusive)
  /\ syncing' = (syncing /\ op # "sync")
flagsKept == UNCHANGED <<busy, syncing>>

-----------------------------------------------------------------------------
(* inspect *)

\* Faulty variant: whatever the last account did is kept.
previous_of_anybody(address) == [hash |-> state.hash, order |-> state.order]
previous(address) ==
  IF state.address = address THEN [hash |-> state.hash, order |-> state.order]
  ELSE [hash |-> 0, order |-> NoOrder]

inspectNetwork(op) ==
  /\ waits(op, "network")
  /\ IF freighter.testnet
     THEN await(op, "trustline", address_of(op)) /\ flagsKept /\ UNCHANGED state
     ELSE update(bare("wrong-network", address_of(op))) /\ return(op)
  /\ UNCHANGED <<session, freighter, sent>>

\* The check may fail, which forgets the transaction shown.
inspectTrustline(op) ==
  /\ waits(op, "trustline")
  /\ \/ update(bare("connected", address_of(op)))
     \/ \E phase \in {"connected", "trustline-required"} :
          LET shown == previous(address_of(op)) IN
            update([phase |-> phase, address |-> address_of(op),
                    hash |-> shown.hash, order |-> shown.order])
  /\ return(op)
  /\ UNCHANGED <<session, freighter, sent>>

-----------------------------------------------------------------------------
(* connect, restore, disconnect, sync, refresh *)

open(op) ==
  /\ ~busy /\ isIdle(op)
  /\ busy' = TRUE
  /\ update(bare("connecting", NoAddress))
  /\ await(op, "address", NoAddress)
  /\ UNCHANGED <<session, syncing, freighter, sent>>
connect == open("connect")
restore == session # NoAddress /\ open("restore")

disconnect ==
  /\ ~busy /\ isIdle("disconnect") /\ isIdle("refresh")
  /\ await("disconnect", "leaving", NoAddress)
  /\ UNCHANGED <<state, session, busy, syncing, freighter, sent>>
\* busy is not looked at again.
disconnected ==
  /\ waits("disconnect", "leaving")
  /\ session' = NoAddress
  /\ update(bare("disconnected", NoAddress))
  /\ return("disconnect")
  /\ UNCHANGED <<freighter, sent>>

\* Every few seconds while the page is visible, and when it becomes so.
sync ==
  /\ state.address # NoAddress /\ ~busy /\ ~syncing
  /\ syncing' = TRUE
  /\ await("sync", "address", NoAddress)
  /\ UNCHANGED <<state, session, busy, freighter, sent>>

refresh ==
  /\ state.address # NoAddress /\ ~busy /\ isIdle("refresh") /\ isIdle("disconnect")
  /\ await("refresh", "address", NoAddress)
  /\ UNCHANGED <<state, session, busy, syncing, freighter, sent>>

openAddress(op) ==
  /\ op \in {"connect", "restore"} /\ heard(op)
  /\ session' = answer(op)
  /\ await(op, "network", answer(op))
  /\ flagsKept /\ UNCHANGED <<state, freighter, sent>>

refreshAddress ==
  /\ heard("refresh")
  /\ LET account == answer("refresh") IN
       /\ session' = IF account # state.address THEN account ELSE session
       /\ await("refresh", "network", account)
  /\ flagsKept /\ UNCHANGED <<state, freighter, sent>>

\* Faulty variant: only the network is followed.
account_ignored ==
  /\ heard("sync")
  /\ await("sync", "own-network", state.address)
  /\ flagsKept /\ UNCHANGED <<state, session, freighter, sent>>
syncAddress ==
  /\ heard("sync")
  /\ LET account == answer("sync") IN
       IF account # state.address
       THEN session' = account /\ await("sync", "network", account)
       ELSE await("sync", "own-network", account) /\ UNCHANGED session
  /\ flagsKept /\ UNCHANGED <<state, freighter, sent>>

\* The same account: only a change of network is acted on.
syncNetwork ==
  /\ waits("sync", "own-network")
  /\ LET onTestnet == freighter.testnet
         account == address_of("sync")
     IN  \/ /\ ~onTestnet /\ state.phase # "wrong-network"
            /\ update(bare("wrong-network", account)) /\ return("sync")
         \/ /\ onTestnet /\ state.phase = "wrong-network"
            /\ await("sync", "network", account) /\ flagsKept /\ UNCHANGED state
         \/ /\ onTestnet <=> state.phase # "wrong-network"
            /\ return("sync") /\ UNCHANGED state
  /\ UNCHANGED <<session, freighter, sent>>

-----------------------------------------------------------------------------
(* createOrder *)

Buyer == address_of("createOrder")

createOrder ==
  /\ state.address # NoAddress /\ ~busy
  /\ busy' = TRUE
  /\ await("createOrder", "address", state.address)
  /\ UNCHANGED <<state, session, syncing, freighter, sent>>

goes(label) == await("createOrder", label, Buyer) /\ flagsKept
ends(s) == update(s) /\ return("createOrder")
aroundOrder == UNCHANGED <<session, freighter, sent>>

orderAddress ==
  /\ heard("createOrder")
  /\ IF answer("createOrder") # Buyer THEN ends(bare("failed", Buyer))
     ELSE goes("buyer-network") /\ UNCHANGED state
  /\ aroundOrder

orderNetwork ==
  /\ waits("createOrder", "buyer-network")
  /\ IF freighter.testnet
     THEN goes("simulation") /\ update(bare("preparing-transaction", Buyer))
     ELSE ends(bare("wrong-network", Buyer))
  /\ aroundOrder

orderSimulated ==
  /\ waits("createOrder", "simulation")
  /\ \/ ends(bare("simulation-failed", Buyer))
     \/ goes("signature") /\ update(bare("awaiting-wallet-signature", Buyer))
  /\ aroundOrder

orderSigned ==
  /\ waits("createOrder", "signature")
  /\ \/ ends(bare("failed", Buyer))
     \/ goes("submission") /\ UNCHANGED state
  /\ aroundOrder

\* onSubmitted; its hash is the number of the transaction.
orderSubmitted ==
  /\ waits("createOrder", "submission") /\ Len(sent) < MaxOrdersSent
  /\ sent' = Append(sent, Buyer)
  /\ update([bare("submitted", Buyer) EXCEPT !.hash = Len(sent')])
  /\ goes("ledger")
  /\ UNCHANGED <<session, freighter>>

\* onConfirming spreads whatever the state has become.
orderProgress ==
  /\ waits("createOrder", "ledger")
  /\ keep(state, "confirming")
  /\ flagsKept /\ UNCHANGED task /\ aroundOrder

orderConfirmed ==
  /\ waits("createOrder", "ledger")
  /\ update([bare("confirming", Buyer) EXCEPT !.hash = Len(sent)])
  /\ goes("read-back")
  /\ aroundOrder

orderRead ==
  /\ waits("createOrder", "read-back")
  /\ ends([phase |-> "confirmed", address |-> Buyer, hash |-> Len(sent), order |-> Len(sent)])
  /\ aroundOrder

-----------------------------------------------------------------------------
(* What throws *)

\* An awaited call that was not answered rejects; the catch blocks.  The checks
\* that have a catch of their own are above.
rejected(op) ==
  /\ ~isIdle(op) /\ task[op].heard = NoAddress
  /\ task[op].at \notin {"trustline", "simulation", "signature"}
  /\ CASE op = "connect" -> update(bare("disconnected", NoAddress)) /\ UNCHANGED session
       [] op = "restore" -> update(bare("disconnected", NoAddress)) /\ session' = NoAddress
       [] op \in {"disconnect", "sync"} -> UNCHANGED <<state, session>>
       [] op \in {"refresh", "createOrder"} -> keep(state, "failed") /\ UNCHANGED session
  /\ return(op)
  /\ UNCHANGED <<freighter, sent>>

-----------------------------------------------------------------------------
\* The person switches the account or the network in the extension.
switch ==
  /\ freighter' \in [account : Address, testnet : BOOLEAN] /\ freighter' # freighter
  /\ UNCHANGED <<state, session, busy, syncing, task, sent>>

continued(op) ==
  \/ answered(op) \/ rejected(op) \/ inspectNetwork(op) \/ inspectTrustline(op) \/ openAddress(op)
  \/ op = "disconnect" /\ disconnected
  \/ op = "refresh" /\ refreshAddress
  \/ op = "sync" /\ (syncAddress \/ syncNetwork)
  \/ /\ op = "createOrder"
     /\ \/ orderAddress \/ orderNetwork \/ orderSimulated \/ orderSigned
        \/ orderSubmitted \/ orderProgress \/ orderConfirmed \/ orderRead

WalletInit ==
  /\ state = bare("disconnected", NoAddress)
  /\ session \in Address \cup {NoAddress}
  /\ busy = FALSE /\ syncing = FALSE
  /\ task = [op \in Op |-> Idle]
  /\ freighter \in [account : Address, testnet : BOOLEAN]
  /\ sent = <<>>

WalletNext ==
  \/ connect \/ restore \/ disconnect \/ sync \/ refresh \/ createOrder
  \/ \E op \in Op : continued(op)
  \/ switch

WalletSpec == WalletInit /\ [][WalletNext]_walletVars

\* Every awaited call settles; the page keeps polling; and the extension answers
\* a poll sooner or later rather than failing every one.
settles(op) == continued(op) /\ task'[op] # task[op]
WalletFairness ==
  /\ \A op \in Op : WF_walletVars(settles(op))
  /\ SF_walletVars(sync)
  /\ SF_walletVars(answered("sync")) /\ SF_walletVars(inspectNetwork("sync"))
WalletFairSpec == WalletSpec /\ WalletFairness

=============================================================================
