----------------------------- MODULE AnchorPanel -----------------------------
(***************************************************************************)
(* The local-money panel of one browser tab against an Anchor: signing in, *)
(* verification, a rate, a deposit with the sandbox's bank simulation, a   *)
(* cash-out with its Stellar payment, polling, resuming a transfer, and    *)
(* the report of a finished leg.                                           *)
(*                                                                         *)
(* One operation runs at a time (busy), in steps between network answers.  *)
(* An operation works on the values of the render that started it, while   *)
(* the person may change direction or amount, sign out or switch the       *)
(* wallet's account.  Any answer may be lost after it took effect.         *)
(*                                                                         *)
(* The Anchor is what the provider's calls make of it.  A payment and a    *)
(* payout are named by the transfer they settle, which is what the memo    *)
(* does.  Texts, fees, instructions and limits are left out.               *)
(***************************************************************************)
EXTENDS Naturals, FiniteSets

CONSTANTS
  Accounts, Amounts, DefaultAmount,
  WithdrawalKind,     \* what the Anchor's transaction endpoint calls a cash-out
  MaxTransfers,       \* transfers the Anchor knows, the first perhaps made in another tab
  MaxAttempts,        \* reads before pollTransfer gives up
  MaxChanges,         \* direction, amount and account changes of the person
  None

Id == 1..MaxTransfers
Deposit == "deposit"
Withdraw == "withdraw"
Waiting == "pending_user_transfer_start"
Terminal == {"completed", "refunded", "error"}

\* What the Anchor keeps of a transfer.
Transfers ==
  [kind : {Deposit, Withdraw}, account : Accounts, amount : Amounts,
   status : {Waiting, "pending_anchor"} \cup Terminal]

ASSUME AnchorPanelAssumption ==
  /\ DefaultAmount \in Amounts /\ None \notin Transfers
  /\ MaxTransfers \in Nat \ {0} /\ MaxAttempts \in Nat \ {0}

VARIABLES
  address,            \* the connected wallet's account
  session,            \* the account whose token this tab holds
  signedIn, customerReady,
  direction, amount, quote, transfer, simulationSubmitted, paymentHash, recorded,
  op,                 \* the running operation: busy
  transfers,          \* at the Anchor, by id
  simulations,        \* bank transfers this tab told the sandbox of, by id
  started,            \* transfers this tab received from deposit
  payments,           \* Stellar payments submitted by this tab
  reports,            \* legs posted to the API
  changes

form == <<direction, amount, quote>>
shown == <<transfer, simulationSubmitted, paymentHash, recorded>>
identity == <<session, signedIn, customerReady>>
outside == <<transfers, simulations, started, payments, reports>>
vars == <<address, identity, form, shown, op, outside, changes>>

-----------------------------------------------------------------------------
(* Pure decisions, with faulty variants                                     *)

\* activeSession: expiry and sign-out both leave none.
activeSession == session # None
sessionLive == signedIn /\ activeSession

poll_until_terminal(status, left) == status \in Terminal
\* pollTransfer stops at a terminal status or with the last of its attempts.
pollEnds(status, left) == status \in Terminal \/ left = 1

any_finished(found) == TRUE
\* buildLocalPaymentLeg: only a completed transfer can be described exactly.
recordable(found) == found.status = "completed"

plan_typed_now(o) == amount
\* planWithdrawalPayment: the amount of the click that started the cash-out.
planned(o) == o.amount

maySimulate ==
  /\ transfer # None /\ transfer.kind = Deposit
  /\ transfer.status = Waiting /\ ~simulationSubmitted

\* getTransaction: whatever is not called exactly a withdrawal is a deposit.
told(id) == IF transfers[id].kind = Withdraw THEN WithdrawalKind ELSE Deposit
kindOf(word) == IF word = "withdrawal" THEN Withdraw ELSE Deposit
latest(id) == [id |-> id, kind |-> kindOf(told(id)), status |-> transfers[id].status]
known == {id \in Id : transfers[id] # None}
\* What an initiation answers, which states no status, and what a quote is for.
initiated == [id |-> op.id, kind |-> op.label, status |-> Waiting]
quoted == [direction |-> op.direction, amount |-> op.amount, live |-> TRUE]

-----------------------------------------------------------------------------
Init ==
  /\ address \in Accounts
  /\ session = None /\ signedIn = FALSE /\ customerReady = FALSE
  /\ direction = Deposit /\ amount = DefaultAmount /\ quote = None
  /\ transfer = None /\ simulationSubmitted = FALSE /\ paymentHash = None /\ recorded = None
  /\ op = None
  /\ \E other \in {None, [kind |-> Deposit, account |-> address, amount |-> DefaultAmount,
                         status |-> Waiting]} :
       transfers = [id \in Id |-> IF id = 1 THEN other ELSE None]
  /\ simulations = [id \in Id |-> 0] /\ started = {}
  /\ payments = {} /\ reports = {} /\ changes = 0

\* What a handler closes over.
operation(label, step) ==
  [label |-> label, step |-> step, address |-> address, direction |-> direction,
   amount |-> amount, id |-> None, left |-> MaxAttempts, found |-> None]

begin(label, step) == op = None /\ op' = operation(label, step)
goes(step) == op' = [op EXCEPT !.step = step]
at(label, step) == op # None /\ op.label = label /\ op.step = step
done == op' = None

\* run's catch and finally: any failure leaves the rest of the state alone.
Fail ==
  /\ op # None /\ done
  /\ UNCHANGED <<address, identity, form, shown, outside, changes>>

-----------------------------------------------------------------------------
(* Sign-in, verification, rate                                              *)

SignIn == /\ ~sessionLive /\ begin("sign-in", "challenge")
          /\ UNCHANGED <<address, identity, form, shown, outside, changes>>

SignedIn ==
  /\ at("sign-in", "challenge") /\ done
  /\ session' = op.address /\ signedIn' = TRUE /\ customerReady' \in BOOLEAN
  /\ UNCHANGED <<address, form, shown, outside, changes>>

VerifyCustomer == /\ sessionLive /\ ~customerReady /\ begin("verify", "put")
                  /\ UNCHANGED <<address, identity, form, shown, outside, changes>>

Verified == /\ at("verify", "put") /\ done /\ customerReady' \in BOOLEAN
            /\ UNCHANGED <<address, session, signedIn, form, shown, outside, changes>>

GetRate == /\ sessionLive /\ customerReady /\ begin("rate", "quote")
           /\ UNCHANGED <<address, identity, form, shown, outside, changes>>

RateReceived ==
  /\ at("rate", "quote") /\ done
  /\ quote' = quoted
  /\ transfer' = None /\ simulationSubmitted' = FALSE /\ paymentHash' = None
  /\ UNCHANGED <<address, identity, direction, amount, recorded, outside, changes>>

QuoteExpires == /\ quote # None /\ quote.live /\ quote' = [quote EXCEPT !.live = FALSE]
                /\ UNCHANGED <<address, identity, direction, amount, shown, op, outside, changes>>

SessionExpires == /\ session # None /\ session' = None
                  /\ UNCHANGED <<address, signedIn, customerReady, form, shown, op, outside, changes>>

-----------------------------------------------------------------------------
(* The person: none of these controls waits for the running operation       *)

change == changes < MaxChanges /\ changes' = changes + 1

SignOut ==
  /\ sessionLive /\ change
  /\ session' = None /\ signedIn' = FALSE /\ customerReady' = FALSE
  /\ quote' = None /\ transfer' = None /\ simulationSubmitted' = FALSE
  /\ paymentHash' = None /\ recorded' = None
  /\ UNCHANGED <<address, direction, amount, op, outside>>

ChangeDirection ==
  /\ sessionLive /\ change
  /\ direction' \in {Deposit, Withdraw} /\ amount' = DefaultAmount
  /\ quote' = None /\ transfer' = None /\ paymentHash' = None
  /\ UNCHANGED <<address, identity, simulationSubmitted, recorded, op, outside>>

ChangeAmount ==
  /\ sessionLive /\ change
  /\ amount' \in Amounts \ {amount} /\ quote' = None
  /\ UNCHANGED <<address, identity, direction, shown, op, outside>>

SwitchAccount ==
  /\ change /\ address' \in Accounts \ {address}
  /\ UNCHANGED <<identity, form, shown, op, outside>>

-----------------------------------------------------------------------------
(* A transfer is created at the Anchor                                      *)

\* The button needs a live rate; it does not ask which direction it was for.
mayStart(kind) == sessionLive /\ quote # None /\ quote.live /\ direction = kind

StartDeposit == /\ mayStart(Deposit) /\ transfer = None /\ begin("deposit", "create")
                /\ UNCHANGED <<address, identity, form, shown, outside, changes>>

StartWithdraw == /\ mayStart(Withdraw) /\ begin("withdraw", "create")
                 /\ UNCHANGED <<address, identity, form, shown, outside, changes>>

AnchorCreates ==
  /\ at("deposit", "create") \/ at("withdraw", "create")
  /\ \E id \in Id \ known :
       /\ \A other \in Id \ known : id <= other
       /\ transfers' = [transfers EXCEPT ![id] =
            [kind |-> op.label, account |-> op.address, amount |-> op.amount, status |-> Waiting]]
       /\ op' = [op EXCEPT !.step = "created", !.id = id]
  /\ UNCHANGED <<address, identity, form, shown, simulations, started, payments, reports, changes>>

DepositStarted ==
  /\ at("deposit", "created") /\ done
  /\ transfer' = initiated
  /\ simulationSubmitted' = FALSE
  /\ started' = started \cup {op.id}
  /\ UNCHANGED <<address, identity, form, paymentHash, recorded, transfers, simulations, payments,
                 reports, changes>>

-----------------------------------------------------------------------------
(* Deposit: the sandbox's bank transfer, and checking it                    *)

\* simulateBank marks the simulation before it asks for it.
SimulateBank ==
  /\ maySimulate /\ activeSession
  /\ op = None
  /\ op' = [operation("simulate", "post") EXCEPT !.id = transfer.id]
  /\ simulationSubmitted' = TRUE
  /\ UNCHANGED <<address, identity, form, transfer, paymentHash, recorded, outside, changes>>

SandboxCredits ==
  /\ at("simulate", "post") /\ goes("poll")
  /\ simulations' = [simulations EXCEPT ![op.id] = @ + 1]
  /\ UNCHANGED <<address, identity, form, shown, transfers, started, payments, reports, changes>>

RefreshDeposit ==
  /\ transfer # None /\ transfer.kind = Deposit /\ transfer.status \notin Terminal /\ activeSession
  /\ op = None /\ op' = [operation("refresh", "read") EXCEPT !.id = transfer.id]
  /\ UNCHANGED <<address, identity, form, shown, outside, changes>>

ResumeTransfer(id) ==
  /\ sessionLive /\ id \in known
  /\ op = None /\ op' = [operation("resume", "read") EXCEPT !.id = id]
  /\ UNCHANGED <<address, identity, form, shown, outside, changes>>

\* What follows a status read for good: a completed deposit is reported.
afterRead(reportable) ==
  IF reportable THEN op' = [op EXCEPT !.step = "report", !.found = latest(op.id)] ELSE done

Refreshed ==
  /\ at("refresh", "read") /\ transfer' = latest(op.id)
  /\ afterRead(latest(op.id).status = "completed")
  /\ UNCHANGED <<address, identity, form, simulationSubmitted, paymentHash, recorded, outside, changes>>

Resumed ==
  /\ at("resume", "read") /\ transfer' = latest(op.id)
  /\ direction' = latest(op.id).kind /\ quote' = None
  /\ paymentHash' = None /\ recorded' = None /\ simulationSubmitted' = TRUE
  /\ afterRead(latest(op.id).status = "completed" /\ latest(op.id).kind = Deposit)
  /\ UNCHANGED <<address, identity, amount, outside, changes>>

-----------------------------------------------------------------------------
(* Cash-out: plan, sign, submit                                             *)

\* The transfer is shown, and a payment with its memo is put to the wallet.
WithdrawalPlanned ==
  /\ at("withdraw", "created") /\ goes("sign")
  /\ transfer' = initiated
  /\ UNCHANGED <<address, identity, form, simulationSubmitted, paymentHash, recorded, outside, changes>>

\* signRaw asks the account now connected; the payment is from the one before.
Signed == /\ at("withdraw", "sign") /\ address = op.address /\ goes("submit")
          /\ UNCHANGED <<address, identity, form, shown, outside, changes>>

LedgerTakes ==
  /\ at("withdraw", "submit") /\ goes("submitted")
  /\ payments' = payments \cup {[id |-> op.id, from |-> op.address, amount |-> planned(op)]}
  /\ UNCHANGED <<address, identity, form, shown, transfers, simulations, started, reports, changes>>

Submitted == /\ at("withdraw", "submitted") /\ goes("poll") /\ paymentHash' = op.id
             /\ UNCHANGED <<address, identity, form, transfer, simulationSubmitted, recorded,
                            outside, changes>>

-----------------------------------------------------------------------------
(* Polling and the report                                                   *)

Polls == op # None /\ op.step = "poll"

\* One read of pollTransfer, shown by onUpdate; the last one ends it.
Poll ==
  /\ Polls
  /\ transfer' = latest(op.id)
  /\ IF pollEnds(latest(op.id).status, op.left)
     THEN afterRead(op.label = "withdraw" \/ latest(op.id).status = "completed")
     ELSE op' = [op EXCEPT !.left = IF @ = 1 THEN 1 ELSE @ - 1]
  /\ UNCHANGED <<address, identity, form, simulationSubmitted, paymentHash, recorded, outside, changes>>

\* recordLeg, of a deposit or a withdrawal by the handler that calls it: a leg that
\* cannot be described, that the API does not take or whose answer is lost is
\* skipped; controller.refresh changes nothing here.
legDirection(o) == IF o.label = "withdraw" THEN Withdraw ELSE Deposit
Report ==
  /\ op # None /\ op.step = "report" /\ done
  /\ LET leg == [id |-> op.id, kind |-> legDirection(op), wallet |-> op.address, amount |-> op.amount]
     IN  \/ /\ recordable(op.found)
            /\ reports' = reports \cup {leg} /\ recorded' \in {"saved", "skipped"}
         \/ reports' = reports /\ recorded' = "skipped"
  /\ UNCHANGED <<address, identity, form, transfer, simulationSubmitted, paymentHash, transfers,
                 simulations, started, payments, changes>>

-----------------------------------------------------------------------------
(* The Anchor moves a transfer on                                           *)

\* A deposit needs its money at the bank, by whatever way, a withdrawal the
\* payment that carries its memo.
funded(id) == transfers[id].kind = Withdraw =>
  \E p \in payments : p.id = id /\ p.amount = transfers[id].amount

AnchorAdvances(id) ==
  /\ id \in known /\ transfers[id].status \notin Terminal
  /\ \/ transfers[id].status = Waiting /\ funded(id)
        /\ transfers' = [transfers EXCEPT ![id].status = "pending_anchor"]
     \/ transfers[id].status = "pending_anchor"
        /\ \E status \in Terminal : transfers' = [transfers EXCEPT ![id].status = status]
  /\ UNCHANGED <<address, identity, form, shown, op, simulations, started, payments, reports, changes>>

Answer ==
  \/ SignedIn \/ Verified \/ RateReceived \/ AnchorCreates \/ DepositStarted \/ SandboxCredits
  \/ Refreshed \/ Resumed \/ WithdrawalPlanned \/ Signed \/ LedgerTakes \/ Submitted \/ Poll \/ Report

Person ==
  \/ SignIn \/ VerifyCustomer \/ GetRate \/ StartDeposit \/ StartWithdraw \/ SimulateBank
  \/ RefreshDeposit \/ \E id \in Id : ResumeTransfer(id)
  \/ SignOut \/ ChangeDirection \/ ChangeAmount \/ SwitchAccount

Next ==
  \/ Person \/ Answer \/ Fail \/ QuoteExpires \/ SessionExpires
  \/ \E id \in Id : AnchorAdvances(id)

Spec == Init /\ [][Next]_vars

\* What no answer can follow: a payment of an account the wallet has left, and
\* a transfer more than the bound allows.
MustFail ==
  /\ \/ at("withdraw", "sign") /\ address # op.address
     \/ (at("deposit", "create") \/ at("withdraw", "create")) /\ known = Id
  /\ Fail

\* Every request is answered in the end, and refused where it must be; nothing
\* makes a request fail otherwise, the Anchor finish a transfer or the person
\* press a button.
FairSpec == Spec /\ WF_vars(Answer) /\ WF_vars(MustFail)

=============================================================================
