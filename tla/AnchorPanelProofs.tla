-------------------------- MODULE AnchorPanelProofs --------------------------
(***************************************************************************)
(* Which payment the local-money panel makes and what it reports, for any  *)
(* accounts, amounts and number of transfers, however the person changes   *)
(* the form or the account while an operation runs and whichever answers   *)
(* are lost.                                                               *)
(***************************************************************************)
EXTENDS AnchorPanelProperties, TLAPS

-----------------------------------------------------------------------------
(* Types *)

Shown == [id : Id, kind : {Deposit, Withdraw}, status : {Waiting, "pending_anchor"} \cup Terminal]
Labels == {"sign-in", "verify", "rate", "deposit", "withdraw", "simulate", "refresh", "resume"}
Steps == {"challenge", "put", "quote", "create", "created", "post", "poll", "read", "sign",
          "submit", "submitted", "report"}
Ops == [label : Labels, step : Steps, address : Accounts, direction : {Deposit, Withdraw},
        amount : Amounts, id : Id \cup {None}, left : Nat \ {0}, found : Shown \cup {None}]
Payments == [id : Id, from : Accounts, amount : Amounts]

PanelTypeOK ==
  /\ address \in Accounts /\ direction \in {Deposit, Withdraw} /\ amount \in Amounts
  /\ transfers \in [Id -> Transfers \cup {None}]
  /\ transfer \in Shown \cup {None}
  /\ op \in Ops \cup {None}
  /\ payments \subseteq Payments

\* Steps of an operation that has a transfer.
WithTransfer == Steps \ {"challenge", "put", "quote", "create"}

\* The Anchor calls a cash-out what getTransaction looks for.
Named == WithdrawalKind = "withdrawal"

\* What stands behind the running operation: its transfer, of the kind,
\* account and amount it was started with; its payment, once submitted; the
\* state it is about to report.
Behind ==
  /\ op.step \in WithTransfer => op.id \in known
  /\ op.step = "poll" => op.label \in {"simulate", "withdraw"}
  /\ op.step = "read" => op.label \in {"refresh", "resume"}
  /\ op.step = "report" => op.label \in {"simulate", "withdraw", "refresh", "resume"}
  /\ op.step \in WithTransfer /\ op.label = "withdraw" =>
       /\ transfers[op.id].kind = Withdraw
       /\ transfers[op.id].amount = op.amount /\ transfers[op.id].account = op.address
  /\ op.step \in WithTransfer /\ op.label = "deposit" => transfers[op.id].kind = Deposit
  /\ op.step \in WithTransfer /\ op.label \in {"simulate", "refresh"} /\ Named =>
       transfers[op.id].kind = Deposit
  /\ op.label = "withdraw" /\ op.step \in {"submitted", "poll", "report"} =>
       [id |-> op.id, from |-> op.address, amount |-> op.amount] \in payments
  /\ op.step = "report" =>
       /\ op.found \in Shown /\ (Named => op.found.kind = transfers[op.id].kind)
       /\ op.found.status = "completed" => transfers[op.id].status = "completed"
       /\ op.label = "resume" => op.found.kind = Deposit

Held ==
  /\ transfer # None =>
       transfer.id \in known /\ (Named => transfer.kind = transfers[transfer.id].kind)
  /\ op # None => Behind
  /\ \A r \in reports : r.id \in known
  /\ PaysItsWithdrawal
  /\ Named => ReportsWhatHappened

Inv == PanelTypeOK /\ Held

LEMMA InvInit == Init => Inv
<1>. SUFFICES ASSUME Init PROVE Inv
  OBVIOUS
<1>1. [kind |-> Deposit, account |-> address, amount |-> DefaultAmount, status |-> Waiting]
        \in Transfers
  BY AnchorPanelAssumption DEF Init, Transfers
<1>2. transfers \in [Id -> Transfers \cup {None}]
  BY <1>1 DEF Init
<1>. QED
  BY <1>2, AnchorPanelAssumption DEF Init, Inv, PanelTypeOK, Held, PaysItsWithdrawal,
     ReportsWhatHappened

-----------------------------------------------------------------------------
(* The pieces of a step *)

\* A step of the panel alone: the Anchor, the ledger and the reports stay, the
\* operation that goes on has what it stands on.
LEMMA PanelStep ==
  ASSUME Inv, UNCHANGED <<transfers, payments, reports>>,
         address' \in Accounts, direction' \in {Deposit, Withdraw}, amount' \in Amounts,
         transfer' \in Shown \cup {None}, op' \in Ops \cup {None},
         transfer' # None =>
           transfer'.id \in known /\ (Named => transfer'.kind = transfers[transfer'.id].kind),
         op' # None => Behind'
  PROVE  Inv'
BY DEF Inv, PanelTypeOK, Held, PaysItsWithdrawal, ReportsWhatHappened, known

\* The transfer as the Anchor answers it.
LEMMA LatestTypes ==
  ASSUME Inv, NEW id \in known
  PROVE  /\ latest(id) \in Shown /\ latest(id).id = id
         /\ Named => latest(id).kind = transfers[id].kind
         /\ latest(id).status = transfers[id].status
<1>1. transfers[id] \in Transfers /\ id \in Id
  BY DEF Inv, PanelTypeOK, known
<1>. QED
  BY <1>1 DEF latest, told, kindOf, Named, Shown, Transfers, Deposit, Withdraw

\* A new operation, with the values of the render that starts it.
LEMMA Begun ==
  ASSUME Inv, NEW label \in Labels, NEW step \in Steps, NEW id \in Id \cup {None}
  PROVE  /\ [operation(label, step) EXCEPT !.id = id] \in Ops
         /\ operation(label, step) \in Ops
         /\ operation(label, step).step = step
<1>1. /\ address \in Accounts /\ direction \in {Deposit, Withdraw} /\ amount \in Amounts
      /\ MaxAttempts \in Nat \ {0}
  BY AnchorPanelAssumption DEF Inv, PanelTypeOK
<1>2. operation(label, step) \in Ops
  BY <1>1 DEF operation, Ops
<1>. QED
  BY <1>2 DEF Ops, operation

\* What follows a status read for good.
LEMMA AfterRead ==
  ASSUME Inv, op # None, NEW reportable \in BOOLEAN, afterRead(reportable), op.id \in known
  PROVE  op' \in Ops \cup {None} /\
         (op' # None => /\ op' = [op EXCEPT !.step = "report", !.found = latest(op.id)]
                        /\ reportable)
<1>1. op \in Ops /\ latest(op.id) \in Shown
  BY LatestTypes DEF Inv, PanelTypeOK
<1>2. [op EXCEPT !.step = "report", !.found = latest(op.id)] \in Ops
  BY <1>1 DEF Ops, Steps
<1>. QED
  BY <1>2 DEF afterRead, done

-----------------------------------------------------------------------------
(* The person *)

LEMMA PersonStep == ASSUME Inv, Person PROVE Inv'
<1>0. /\ address \in Accounts /\ direction \in {Deposit, Withdraw} /\ amount \in Amounts
      /\ transfer \in Shown \cup {None} /\ op \in Ops \cup {None}
      /\ transfer # None =>
           transfer.id \in known /\ (Named => transfer.kind = transfers[transfer.id].kind)
      /\ op # None => Behind
  BY DEF Inv, PanelTypeOK, Held
<1>1. CASE SignIn \/ VerifyCustomer \/ GetRate \/ StartDeposit \/ StartWithdraw
  <2>1. PICK label \in Labels, step \in {"challenge", "put", "quote", "create"} :
          op' = operation(label, step)
    BY <1>1 DEF SignIn, VerifyCustomer, GetRate, StartDeposit, StartWithdraw, begin, Labels
  <2>2. op' \in Ops /\ op'.step = step
    BY <2>1, Begun DEF Steps
  <2>3. Behind'
    BY <2>2 DEF Behind, WithTransfer, Steps
  <2>4. UNCHANGED <<transfers, payments, reports, address, direction, amount, transfer>>
    BY <1>1 DEF SignIn, VerifyCustomer, GetRate, StartDeposit, StartWithdraw, outside, form, shown
  <2>. QED
    BY <1>0, <2>2, <2>3, <2>4, PanelStep
<1>2. CASE SimulateBank \/ RefreshDeposit
  <2>1. /\ transfer # None /\ transfer.kind = Deposit
        /\ op' = [operation("simulate", "post") EXCEPT !.id = transfer.id]
           \/ op' = [operation("refresh", "read") EXCEPT !.id = transfer.id]
    BY <1>2 DEF SimulateBank, RefreshDeposit, maySimulate
  <2>2. /\ transfer.id \in Id /\ transfer.id \in known
        /\ Named => transfers[transfer.id].kind = Deposit
    BY <1>0, <2>1 DEF known
  <2>3. op' \in Ops
    BY <2>1, <2>2, Begun DEF Labels, Steps
  <2>4. /\ \/ op'.label = "simulate" /\ op'.step = "post"
           \/ op'.label = "refresh" /\ op'.step = "read"
        /\ op'.id = transfer.id
    BY <2>1 DEF operation
  <2>5. UNCHANGED <<transfers, payments, reports, address, direction, amount, transfer>>
    BY <1>2 DEF SimulateBank, RefreshDeposit, outside, form, shown
  <2>6. Behind'
    BY <2>2, <2>4, <2>5 DEF Behind, known
  <2>. QED
    BY <1>0, <2>3, <2>5, <2>6, PanelStep
<1>3. ASSUME NEW id \in Id, ResumeTransfer(id) PROVE Inv'
  <2>1. id \in known /\ op' = [operation("resume", "read") EXCEPT !.id = id]
    BY <1>3 DEF ResumeTransfer
  <2>2. op' \in Ops
    BY <2>1, Begun DEF Labels, Steps
  <2>3. op'.label = "resume" /\ op'.step = "read" /\ op'.id = id
    BY <2>1 DEF operation
  <2>4. UNCHANGED <<transfers, payments, reports, address, direction, amount, transfer>>
    BY <1>3 DEF ResumeTransfer, outside, form, shown
  <2>5. Behind'
    BY <2>1, <2>3, <2>4 DEF Behind, known
  <2>. QED
    BY <1>0, <2>2, <2>4, <2>5, PanelStep
<1>4. CASE SignOut \/ ChangeDirection \/ ChangeAmount \/ SwitchAccount
  <2>1. /\ UNCHANGED <<transfers, payments, reports, op>>
        /\ transfer' \in {None, transfer}
    BY <1>4 DEF SignOut, ChangeDirection, ChangeAmount, SwitchAccount, outside, form, shown
  <2>2. address' \in Accounts /\ direction' \in {Deposit, Withdraw} /\ amount' \in Amounts
    BY <1>0, <1>4, AnchorPanelAssumption
       DEF SignOut, ChangeDirection, ChangeAmount, SwitchAccount, form
  <2>3. op' # None => Behind'
    BY <1>0, <2>1 DEF Behind, known
  <2>. QED
    BY <1>0, <2>1, <2>2, <2>3, PanelStep
<1>. QED
  BY <1>1, <1>2, <1>3, <1>4 DEF Person

-----------------------------------------------------------------------------
(* Answers the panel alone takes *)

LEMMA AnswerStep ==
  ASSUME Inv,
         \/ SignedIn \/ Verified \/ RateReceived \/ DepositStarted \/ SandboxCredits \/ Fail
         \/ Refreshed \/ Resumed \/ WithdrawalPlanned \/ Signed \/ Submitted \/ Poll
  PROVE  Inv'
<1>0. /\ address \in Accounts /\ direction \in {Deposit, Withdraw} /\ amount \in Amounts
      /\ transfer \in Shown \cup {None} /\ op \in Ops \cup {None}
      /\ transfer # None =>
           transfer.id \in known /\ (Named => transfer.kind = transfers[transfer.id].kind)
      /\ op # None => Behind
  BY DEF Inv, PanelTypeOK, Held
<1>1. CASE SignedIn \/ Verified \/ RateReceived \/ Fail
  <2>1. /\ UNCHANGED <<transfers, payments, reports, address, direction, amount>>
        /\ op' = None /\ transfer' \in {None, transfer}
    BY <1>1 DEF SignedIn, Verified, RateReceived, quoted, Fail, done, outside, form, shown
  <2>. QED
    BY <1>0, <2>1, PanelStep
<1>2. CASE DepositStarted
  <2>1. op # None /\ op.label = "deposit" /\ op.step = "created"
    BY <1>2 DEF DepositStarted, at
  <2>2. op.id \in known /\ op.id \in Id /\ transfers[op.id].kind = Deposit
    BY <1>0, <2>1 DEF Behind, WithTransfer, Steps, known
  <2>3. /\ UNCHANGED <<transfers, payments, reports, address, direction, amount>>
        /\ op' = None /\ transfer' = [id |-> op.id, kind |-> Deposit, status |-> Waiting]
    BY <1>2, <2>1 DEF DepositStarted, initiated, done, form, Deposit
  <2>4. transfer' \in Shown
    BY <2>2, <2>3 DEF Shown
  <2>. QED
    BY <1>0, <2>2, <2>3, <2>4, PanelStep
<1>3. CASE SandboxCredits \/ Signed \/ Submitted
  <2>1. PICK step \in {"poll", "submit"} \cup {"poll"} : op' = [op EXCEPT !.step = step]
    BY <1>3 DEF SandboxCredits, Signed, Submitted, goes
  <2>2. op # None /\ op \in Ops /\ Behind
        /\ UNCHANGED <<transfers, payments, reports, address, direction, amount, transfer>>
    BY <1>0, <1>3 DEF SandboxCredits, Signed, Submitted, at, outside, form, shown
  <2>3. op' \in Ops
    BY <2>1, <2>2 DEF Ops, Steps
  <2>4. Behind'
    BY <1>3, <2>2
       DEF SandboxCredits, Signed, Submitted, at, goes, Behind, Ops, WithTransfer, Steps, known
  <2>. QED
    BY <1>0, <2>2, <2>3, <2>4, PanelStep
<1>4. CASE WithdrawalPlanned
  <2>1. op # None /\ op \in Ops /\ op.label = "withdraw" /\ op.step = "created" /\ Behind
    BY <1>0, <1>4 DEF WithdrawalPlanned, at
  <2>2. op.id \in known /\ op.id \in Id /\ transfers[op.id].kind = Withdraw
    BY <2>1 DEF Behind, WithTransfer, Steps, known
  <2>3. /\ UNCHANGED <<transfers, payments, reports, address, direction, amount>>
        /\ op' = [op EXCEPT !.step = "sign"]
        /\ transfer' = [id |-> op.id, kind |-> Withdraw, status |-> Waiting]
    BY <1>4, <2>1 DEF WithdrawalPlanned, initiated, goes, outside, form, Withdraw
  <2>4. transfer' \in Shown /\ op' \in Ops
    BY <2>1, <2>2, <2>3 DEF Shown, Ops, Steps
  <2>5. Behind'
    BY <2>1, <2>2, <2>3 DEF Behind, Ops, WithTransfer, Steps, known
  <2>. QED
    BY <1>0, <2>2, <2>3, <2>4, <2>5, PanelStep
<1>5. ASSUME NEW reportable \in BOOLEAN, op # None, op.step \in {"read", "poll"},
             afterRead(reportable), transfer' = latest(op.id),
             UNCHANGED <<transfers, payments, reports, address, amount>>,
             direction' \in {Deposit, Withdraw},
             reportable => \/ op.label \in {"simulate", "withdraw", "refresh"}
                           \/ op.label = "resume" /\ latest(op.id).kind = Deposit
      PROVE  Inv'
  <2>1. op \in Ops /\ Behind /\ op.id \in known
    BY <1>0, <1>5 DEF Behind, WithTransfer, Steps
  <2>2. /\ latest(op.id) \in Shown /\ latest(op.id).id = op.id
        /\ Named => latest(op.id).kind = transfers[op.id].kind
        /\ latest(op.id).status = transfers[op.id].status
    BY <2>1, LatestTypes
  <2>3. op' \in Ops \cup {None}
        /\ (op' # None => /\ op' = [op EXCEPT !.step = "report", !.found = latest(op.id)]
                          /\ reportable)
    BY <1>5, <2>1, AfterRead
  <2>4. ASSUME op' # None PROVE Behind'
    <3>1. /\ op'.step = "report" /\ op'.found = latest(op.id) /\ op'.id = op.id
          /\ op'.label = op.label /\ op'.amount = op.amount /\ op'.address = op.address
      BY <2>1, <2>3, <2>4 DEF Ops
    <3>. QED
      BY <1>5, <2>1, <2>2, <2>3, <2>4, <3>1 DEF Behind, WithTransfer, Steps, known
  <2>. QED
    BY <1>0, <1>5, <2>1, <2>2, <2>3, <2>4, PanelStep
<1>6. CASE Refreshed
  <2>1. op # None /\ op.label = "refresh" /\ op.step = "read"
        /\ afterRead(latest(op.id).status = "completed")
    BY <1>6 DEF Refreshed, at
  <2>2. UNCHANGED <<transfers, payments, reports, address, amount, direction>>
        /\ transfer' = latest(op.id)
    BY <1>6 DEF Refreshed, outside, form
  <2>. QED
    BY <1>0, <1>5, <2>1, <2>2
<1>7. CASE Resumed
  <2>1. op # None /\ op.label = "resume" /\ op.step = "read"
        /\ afterRead(latest(op.id).status = "completed" /\ latest(op.id).kind = Deposit)
    BY <1>7 DEF Resumed, at
  <2>2. op.id \in known
    BY <1>0, <2>1 DEF Behind, WithTransfer, Steps
  <2>3. direction' \in {Deposit, Withdraw}
    BY <1>7, <2>2, LatestTypes DEF Resumed, Shown
  <2>4. UNCHANGED <<transfers, payments, reports, address, amount>> /\ transfer' = latest(op.id)
    BY <1>7 DEF Resumed, outside
  <2>. QED
    BY <1>5, <2>1, <2>3, <2>4
<1>8. CASE Poll
  <2>1. op # None /\ op \in Ops /\ Behind /\ op.step = "poll"
        /\ op.label \in {"simulate", "withdraw"}
    BY <1>0, <1>8 DEF Poll, Polls, Behind
  <2>2. UNCHANGED <<transfers, payments, reports, address, amount, direction>>
        /\ transfer' = latest(op.id)
    BY <1>8 DEF Poll, outside, form
  <2>3. CASE pollEnds(latest(op.id).status, op.left)
    <3>1. afterRead(op.label = "withdraw" \/ latest(op.id).status = "completed")
      BY <1>8, <2>3 DEF Poll
    <3>. QED
      BY <1>0, <1>5, <2>1, <2>2, <3>1
  <2>4. CASE ~pollEnds(latest(op.id).status, op.left)
    <3>1. op' = [op EXCEPT !.left = IF @ = 1 THEN 1 ELSE @ - 1]
      BY <1>8, <2>4 DEF Poll
    <3>2. op.left \in Nat \ {0, 1}
      BY <2>1, <2>4 DEF pollEnds, Ops
    <3>3. op' = [op EXCEPT !.left = op.left - 1] /\ op.left - 1 \in Nat \ {0}
      BY <2>1, <3>1, <3>2
    <3>4. op' \in Ops
      BY <2>1, <3>3 DEF Ops
    <3>5. Behind'
      BY <2>1, <2>2, <3>3 DEF Behind, Ops, known
    <3>6. op.id \in known
      BY <2>1 DEF Behind, WithTransfer, Steps
    <3>. QED
      BY <1>0, <2>2, <3>4, <3>5, <3>6, LatestTypes, PanelStep
  <2>. QED
    BY <2>3, <2>4
<1>. QED
  BY <1>1, <1>2, <1>3, <1>4, <1>6, <1>7, <1>8

-----------------------------------------------------------------------------
(* The Anchor, the ledger and the report                                    *)

\* The Anchor adds transfers and moves them on; kind, amount and account of one
\* stay, and a completed one stays completed.
LEMMA AnchorStep ==
  ASSUME Inv, UNCHANGED <<address, direction, amount, transfer, payments, reports>>,
         transfers' \in [Id -> Transfers \cup {None}],
         \A id \in known :
           /\ transfers'[id] # None
           /\ transfers'[id].kind = transfers[id].kind
           /\ transfers'[id].amount = transfers[id].amount
           /\ transfers'[id].account = transfers[id].account
           /\ transfers[id].status = "completed" => transfers'[id].status = "completed",
         op' \in Ops \cup {None},
         op' # None => Behind'
  PROVE  Inv'
<1>1. known \subseteq known'
  BY DEF known
<1>2. \A r \in reports : r.id \in known
  BY DEF Inv, Held
<1>3. PanelTypeOK'
  BY DEF Inv, PanelTypeOK
<1>4. PaysItsWithdrawal'
  BY <1>1 DEF Inv, Held, PaysItsWithdrawal
<1>5. Named => ReportsWhatHappened'
  BY <1>2 DEF Inv, Held, ReportsWhatHappened
<1>. QED
  BY <1>1, <1>2, <1>3, <1>4, <1>5 DEF Inv, Held

LEMMA Creates == ASSUME Inv, AnchorCreates PROVE Inv'
<1>0. /\ op # None /\ op \in Ops /\ Behind /\ op.step = "create"
      /\ op.label \in {"deposit", "withdraw"}
      /\ transfers \in [Id -> Transfers \cup {None}]
  BY DEF Inv, PanelTypeOK, Held, AnchorCreates, at
<1>1. PICK id \in Id \ known :
        /\ transfers' = [transfers EXCEPT ![id] =
             [kind |-> op.label, account |-> op.address, amount |-> op.amount, status |-> Waiting]]
        /\ op' = [op EXCEPT !.step = "created", !.id = id]
  BY DEF AnchorCreates
<1>2. [kind |-> op.label, account |-> op.address, amount |-> op.amount, status |-> Waiting]
        \in Transfers
  BY <1>0 DEF Transfers, Ops, Deposit, Withdraw
<1>3. transfers' \in [Id -> Transfers \cup {None}] /\ transfers'[id] # None
      /\ \A other \in known : transfers'[other] = transfers[other]
  BY <1>0, <1>1, <1>2, AnchorPanelAssumption
<1>4. op' \in Ops
  BY <1>0, <1>1 DEF Ops, Steps
<1>5. Behind'
  <2>1. op'.id = id /\ op'.step = "created" /\ op'.label = op.label
        /\ op'.amount = op.amount /\ op'.address = op.address
    BY <1>0, <1>1 DEF Ops
  <2>2. id \in known' /\ transfers'[id].kind = op.label
        /\ transfers'[id].amount = op.amount /\ transfers'[id].account = op.address
    BY <1>0, <1>1, <1>3 DEF known
  <2>. QED
    BY <1>0, <2>1, <2>2 DEF Behind, Deposit, Withdraw
<1>6. UNCHANGED <<address, direction, amount, transfer, payments, reports>>
  BY DEF AnchorCreates, form, shown
<1>7. \A other \in known : transfers'[other] # None
  BY <1>3 DEF known
<1>. QED
  BY <1>3, <1>4, <1>5, <1>6, <1>7, AnchorStep

LEMMA Advances == ASSUME Inv, NEW id \in Id, AnchorAdvances(id) PROVE Inv'
<1>0. transfers \in [Id -> Transfers \cup {None}] /\ id \in known /\ transfers[id] \in Transfers
  BY DEF Inv, PanelTypeOK, AnchorAdvances, known
<1>1. PICK status \in {"pending_anchor"} \cup Terminal :
        transfers' = [transfers EXCEPT ![id].status = status]
  BY DEF AnchorAdvances
<1>2. [transfers[id] EXCEPT !.status = status] \in Transfers
  BY <1>0, <1>1 DEF Transfers
<1>3. transfers' \in [Id -> Transfers \cup {None}]
  BY <1>0, <1>1, <1>2
<1>4. transfers[id].status # "completed"
  BY DEF AnchorAdvances, Terminal
<1>5. \A other \in known :
        /\ transfers'[other] # None
        /\ transfers'[other].kind = transfers[other].kind
        /\ transfers'[other].amount = transfers[other].amount
        /\ transfers'[other].account = transfers[other].account
        /\ transfers[other].status = "completed" => transfers'[other].status = "completed"
  BY <1>0, <1>1, <1>2, <1>4, AnchorPanelAssumption DEF known, Transfers
<1>6. UNCHANGED <<address, direction, amount, transfer, payments, reports, op>>
  BY DEF AnchorAdvances, form, shown
<1>7. op # None => Behind /\ op \in Ops
  BY DEF Inv, Held, PanelTypeOK
<1>8. op # None => Behind'
  <2>. SUFFICES ASSUME op # None PROVE Behind'
    OBVIOUS
  <2>1. op.step \in WithTransfer => op.id \in known /\ op.id \in known'
    BY <1>3, <1>5, <1>7 DEF Behind, known
  <2>. QED
    BY <1>5, <1>6, <1>7, <2>1 DEF Behind, WithTransfer, Steps
<1>. QED
  BY <1>3, <1>5, <1>6, <1>7, <1>8, AnchorStep

LEMMA Takes == ASSUME Inv, LedgerTakes PROVE Inv'
<1>0. /\ op # None /\ op \in Ops /\ Behind /\ op.step = "submit" /\ op.label = "withdraw"
  BY DEF Inv, PanelTypeOK, Held, LedgerTakes, at
<1>. DEFINE payment == [id |-> op.id, from |-> op.address, amount |-> op.amount]
<1>1. op' = [op EXCEPT !.step = "submitted"] /\ payments' = payments \cup {payment}
  BY DEF LedgerTakes, goes, planned
<1>2. UNCHANGED <<address, direction, amount, transfer, transfers, reports>>
  BY DEF LedgerTakes, form, shown
<1>3. op.id \in known /\ op.id \in Id /\ transfers[op.id].kind = Withdraw
      /\ transfers[op.id].amount = op.amount /\ transfers[op.id].account = op.address
  BY <1>0 DEF Behind, WithTransfer, Steps, known
<1>4. op' \in Ops /\ payment \in Payments
  BY <1>0, <1>1, <1>3 DEF Ops, Steps, Payments
<1>5. Behind'
  BY <1>0, <1>1, <1>2, <1>3 DEF Behind, Ops, known
<1>6. PanelTypeOK'
  BY <1>1, <1>2, <1>4 DEF Inv, PanelTypeOK
<1>7. PaysItsWithdrawal'
  BY <1>1, <1>2, <1>3 DEF Inv, Held, PaysItsWithdrawal, known
<1>8. Named => ReportsWhatHappened'
  BY <1>1, <1>2 DEF Inv, Held, ReportsWhatHappened
<1>. QED
  BY <1>2, <1>5, <1>6, <1>7, <1>8 DEF Inv, Held, known

LEMMA Reported == ASSUME Inv, Report PROVE Inv'
<1>0. op # None /\ op \in Ops /\ Behind /\ op.step = "report"
  BY DEF Inv, PanelTypeOK, Held, Report
<1>. DEFINE leg == [id |-> op.id, kind |-> legDirection(op), wallet |-> op.address,
                    amount |-> op.amount]
<1>1. op' = None /\ UNCHANGED <<address, direction, amount, transfer, transfers, payments>>
  BY DEF Report, done, form
<1>2. reports' = reports \/ (recordable(op.found) /\ reports' = reports \cup {leg})
  BY DEF Report
<1>3. leg.id = op.id /\ leg.kind = legDirection(op) /\ leg.wallet = op.address /\ leg.amount = op.amount
  OBVIOUS
<1>. HIDE DEF leg
<1>4. recordable(op.found) => leg.id \in known
  BY <1>0, <1>3 DEF Behind, WithTransfer, Steps
<1>5. recordable(op.found) /\ Named =>
        /\ transfers[leg.id].status = "completed"
        /\ transfers[leg.id].kind = leg.kind
        /\ leg.kind = Withdraw => [id |-> leg.id, from |-> leg.wallet, amount |-> leg.amount] \in payments
  BY <1>0, <1>3 DEF recordable, legDirection, Behind, WithTransfer, Steps, Deposit, Withdraw
<1>6. (Named => ReportsWhatHappened') /\ \A r \in reports' : r.id \in known'
  BY <1>1, <1>2, <1>4, <1>5 DEF Inv, Held, ReportsWhatHappened, known
<1>. QED
  BY <1>1, <1>6 DEF Inv, Held, PanelTypeOK, PaysItsWithdrawal, known

-----------------------------------------------------------------------------
LEMMA InvNext == Inv /\ [Next]_vars => Inv'
<1>. SUFFICES ASSUME Inv, [Next]_vars PROVE Inv'
  OBVIOUS
<1>1. CASE QuoteExpires \/ SessionExpires \/ UNCHANGED vars
  <2>1. UNCHANGED <<address, direction, amount, transfer, op, transfers, payments, reports>>
    BY <1>1 DEF QuoteExpires, SessionExpires, vars, form, shown, outside
  <2>. QED
    BY <2>1 DEF Inv, PanelTypeOK, Held, PaysItsWithdrawal, ReportsWhatHappened, Behind, known
<1>. QED
  BY <1>1, PersonStep, AnswerStep, Creates, Advances, Takes, Reported DEF Next, Answer

LEMMA InvAlways == Spec => []Inv
BY InvInit, InvNext, PTL DEF Spec

\* A payment is the one of a withdrawal this person started: its memo, the
\* amount it was created for and the account it was created from.
THEOREM PaysItsOwn == Spec => []PaysItsWithdrawal
<1>1. Inv => PaysItsWithdrawal
  BY DEF Inv, Held
<1>. QED
  BY <1>1, InvAlways, PTL

\* Of an Anchor that calls a cash-out a withdrawal, as the provider's tests do: a
\* report says completed of a completed transfer only, and a reported cash-out
\* names this browser's own payment (by another name getTransaction takes a
\* resumed cash-out for a deposit, and it is reported as one).
THEOREM ReportsFacts == WithdrawalKind = "withdrawal" => (Spec => []ReportsWhatHappened)
<1>. SUFFICES ASSUME WithdrawalKind = "withdrawal"
              PROVE  Spec => []ReportsWhatHappened
  OBVIOUS
<1>1. Inv => ReportsWhatHappened
  BY DEF Inv, Held, Named
<1>. QED
  BY <1>1, InvAlways, PTL

=============================================================================
