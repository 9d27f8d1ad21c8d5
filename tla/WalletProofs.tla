---------------------------- MODULE WalletProofs ----------------------------
(***************************************************************************)
(* The wallet's flags and the transaction shown beside an address, for any *)
(* accounts and any number of orders, however the methods overlap.         *)
(***************************************************************************)
EXTENDS WalletProperties, TLAPS

-----------------------------------------------------------------------------
(* Records                                                                  *)

StateRecord ==
  [phase : WalletPhase, address : Accounts, hash : Nat, order : Nat \cup {NoOrder}]
TaskRecord == [at : Label, address : Accounts, heard : Accounts]

LEMMA Records ==
  WalletTypeOK <=>
    /\ state \in StateRecord /\ session \in Accounts /\ busy \in BOOLEAN /\ syncing \in BOOLEAN
    /\ task \in [Op -> TaskRecord] /\ freighter \in [account : Address, testnet : BOOLEAN]
    /\ sent \in Seq(Address)
BY DEF WalletTypeOK, StateRecord, TaskRecord

LEMMA RecordsNext ==
  WalletTypeOK' <=>
    /\ state' \in StateRecord /\ session' \in Accounts
    /\ busy' \in BOOLEAN /\ syncing' \in BOOLEAN
    /\ task' \in [Op -> TaskRecord] /\ freighter' \in [account : Address, testnet : BOOLEAN]
    /\ sent' \in Seq(Address)
BY DEF WalletTypeOK, StateRecord, TaskRecord

LEMMA Bare ==
  ASSUME NEW phase \in WalletPhase, NEW address \in Accounts
  PROVE  /\ bare(phase, address) \in StateRecord
         /\ bare(phase, address).hash = 0 /\ bare(phase, address).order = NoOrder
BY DEF bare, StateRecord

LEMMA Renamed ==
  ASSUME NEW s \in StateRecord, NEW phase \in WalletPhase
  PROVE  LET t == [s EXCEPT !.phase = phase]
         IN  /\ t \in StateRecord /\ t.hash = s.hash /\ t.order = s.order
             /\ t.address = s.address
BY DEF StateRecord

-----------------------------------------------------------------------------
(* How a step changes a task                                                *)

\* A method goes on to its next await: it was running and it is.
GoesOn(op) ==
  /\ ~isIdle(op) /\ ~isIdle(op)'
  /\ \A other \in Op : other # op => task'[other] = task[other]
  /\ flagsKept

\* A method begins at its first await, and raises its flag.
Begins(op) ==
  /\ isIdle(op) /\ ~isIdle(op)'
  /\ \A other \in Op : other # op => task'[other] = task[other]
  /\ op \in Exclusive => ~busy
  /\ busy' = (busy \/ op \in Exclusive) /\ syncing' = (syncing \/ op = "sync")

\* A method ends, and lowers it.
Ends(op) == ~isIdle(op) /\ return(op)

LEMMA Awaits ==
  ASSUME WalletTypeOK, NEW op \in Op, NEW label, NEW address, await(op, label, address)
  PROVE  /\ task'[op] = [at |-> label, address |-> address, heard |-> NoAddress]
         /\ \A other \in Op : other # op => task'[other] = task[other]
         /\ label \in Label /\ address \in Accounts => task' \in [Op -> TaskRecord]
<1>1. task \in [Op -> TaskRecord]
  BY Records
<1>. QED
  BY <1>1 DEF await, TaskRecord, Accounts

LEMMA Returns ==
  ASSUME WalletTypeOK, NEW op \in Op, return(op)
  PROVE  /\ task'[op] = Idle /\ \A other \in Op : other # op => task'[other] = task[other]
         /\ task' \in [Op -> TaskRecord] /\ busy' \in BOOLEAN /\ syncing' \in BOOLEAN
<1>1. task \in [Op -> TaskRecord] /\ busy \in BOOLEAN /\ syncing \in BOOLEAN
  BY Records
<1>2. Idle \in TaskRecord
  BY DEF Idle, TaskRecord, Label, Accounts
<1>. QED
  BY <1>1, <1>2 DEF return

LEMMA Answers ==
  ASSUME WalletTypeOK, NEW op \in Op, answered(op)
  PROVE  /\ task'[op].at = task[op].at /\ task'[op].address = task[op].address
         /\ \A other \in Op : other # op => task'[other] = task[other]
         /\ task' \in [Op -> TaskRecord]
<1>1. task \in [Op -> TaskRecord] /\ freighter.account \in Accounts
  BY Records DEF Accounts
<1>. QED
  BY <1>1 DEF answered, TaskRecord

\* The flags follow the tasks through each kind of step.
LEMMA FlagsFollow ==
  ASSUME WalletTypeOK, FlagsHeld, NEW op \in Op, GoesOn(op) \/ Begins(op) \/ Ends(op)
  PROVE  FlagsHeld'
<1>1. Exclusive \subseteq Op /\ "sync" \in Op /\ "sync" \notin Exclusive
  BY DEF Exclusive, Op
<1>2. busy \in BOOLEAN /\ syncing \in BOOLEAN
  BY Records
<1>3. CASE GoesOn(op)
  <2>1. \A other \in Op : isIdle(other)' <=> isIdle(other)
    BY <1>3 DEF GoesOn, isIdle
  <2>. QED
    BY <1>1, <1>3, <2>1 DEF GoesOn, FlagsHeld, flagsKept
<1>4. CASE Begins(op)
  <2>1. /\ ~isIdle(op)'
        /\ \A other \in Op : other # op => (isIdle(other)' <=> isIdle(other))
    BY <1>4 DEF Begins, isIdle
  <2>2. CASE op \in Exclusive
    BY <1>1, <1>2, <1>4, <2>1, <2>2 DEF Begins, FlagsHeld
  <2>3. CASE op \notin Exclusive
    BY <1>1, <1>2, <1>4, <2>1, <2>3 DEF Begins, FlagsHeld
  <2>. QED
    BY <2>2, <2>3
<1>5. CASE Ends(op)
  <2>1. /\ isIdle(op)'
        /\ \A other \in Op : other # op => (isIdle(other)' <=> isIdle(other))
    BY <1>5, Returns DEF Ends, isIdle, Idle
  <2>2. busy' = (busy /\ op \notin Exclusive) /\ syncing' = (syncing /\ op # "sync")
    BY <1>5 DEF Ends, return
  <2>3. CASE op \in Exclusive
    BY <1>1, <1>2, <1>5, <2>1, <2>2, <2>3 DEF Ends, FlagsHeld
  <2>4. CASE op \notin Exclusive
    BY <1>1, <1>2, <1>5, <2>1, <2>2, <2>4 DEF Ends, FlagsHeld
  <2>. QED
    BY <2>3, <2>4
<1>. QED
  BY <1>3, <1>4, <1>5

-----------------------------------------------------------------------------
(* The inductive invariant                                                  *)

\* The order under way is of an account, and the last transaction sent is its own
\* from the server's answer on.
OrderTask ==
  /\ ~isIdle("createOrder") => Buyer \in Address
  /\ task["createOrder"].at \in {"ledger", "read-back"} =>
       Len(sent) > 0 /\ sent[Len(sent)] = Buyer

WalletInv == WalletTypeOK /\ FlagsHeld /\ OwnTransaction /\ OrderTask

\* What is shown beside the address is forgotten or stays.
Forgotten == state'.hash = 0 /\ state'.order = NoOrder
Retained ==
  state'.hash = state.hash /\ state'.order = state.order /\ state'.address = state.address

LEMMA OwnKept ==
  ASSUME WalletInv, UNCHANGED sent, Forgotten \/ Retained
  PROVE  OwnTransaction'
BY DEF WalletInv, OwnTransaction, Forgotten, Retained

\* A step of another method, or of the order before it is sent.
LEMMA OrderKept ==
  ASSUME WalletInv, UNCHANGED sent,
         \/ isIdle("createOrder")'
         \/ UNCHANGED task["createOrder"]
         \/ /\ ~isIdle("createOrder") /\ task'["createOrder"].address = Buyer
            /\ \/ task'["createOrder"].at \notin {"ledger", "read-back"}
               \/ task["createOrder"].at \in {"ledger", "read-back"}
  PROVE  OrderTask'
<1>1. ~isIdle("createOrder") => Buyer \in Address
  BY DEF WalletInv, OrderTask
<1>. QED
  BY <1>1 DEF WalletInv, OrderTask, isIdle, address_of, Buyer

\* A method that goes on to another await.
LEMMA AwaitGoesOn ==
  ASSUME WalletTypeOK, NEW op \in Op, ~isIdle(op), NEW label \in Label \ {"idle"},
         NEW address \in Accounts, await(op, label, address), flagsKept
  PROVE  /\ GoesOn(op) /\ task' \in [Op -> TaskRecord]
         /\ task'[op].at = label /\ task'[op].address = address
<1>1. /\ task'[op] = [at |-> label, address |-> address, heard |-> NoAddress]
      /\ \A other \in Op : other # op => task'[other] = task[other]
      /\ task' \in [Op -> TaskRecord]
  BY Awaits
<1>2. task'[op].at = label /\ task'[op].address = address /\ label # "idle"
  BY <1>1
<1>. QED
  BY <1>1, <1>2 DEF GoesOn, isIdle

LEMMA OpFacts ==
  /\ "createOrder" \in Op /\ "sync" \in Op /\ "refresh" \in Op /\ "disconnect" \in Op
  /\ "connect" \in Op /\ "restore" \in Op
  /\ NoAddress \in Accounts /\ Address \subseteq Accounts
BY DEF Op, Accounts

LEMMA TaskFacts ==
  ASSUME WalletTypeOK
  PROVE  /\ state \in StateRecord /\ session \in Accounts
         /\ busy \in BOOLEAN /\ syncing \in BOOLEAN /\ task \in [Op -> TaskRecord]
         /\ freighter.account \in Address /\ sent \in Seq(Address)
         /\ \A op \in Op : address_of(op) \in Accounts /\ answer(op) \in Accounts
         /\ state.address \in Accounts
BY Records DEF StateRecord, TaskRecord, address_of, answer

-----------------------------------------------------------------------------
(* The background methods and the shared inspection                         *)

\* What a step of a method that sends nothing has to show.
Safe(op) ==
  /\ GoesOn(op) \/ Begins(op) \/ Ends(op)
  /\ state' \in StateRecord /\ session' \in Accounts
  /\ UNCHANGED <<freighter, sent>>
  /\ Forgotten \/ Retained
  /\ op = "createOrder" =>
       \/ isIdle(op)'
       \/ /\ ~isIdle(op) /\ task'[op].address = Buyer
          /\ \/ task'[op].at \notin {"ledger", "read-back"}
             \/ task[op].at \in {"ledger", "read-back"}

LEMMA SafeKeeps ==
  ASSUME WalletInv, NEW op \in Op, Safe(op), task' \in [Op -> TaskRecord]
  PROVE  WalletInv'
<1>1. FlagsHeld'
  BY FlagsFollow DEF WalletInv, Safe
<1>2. OwnTransaction'
  BY OwnKept DEF Safe
<1>3. OrderTask'
  <2>1. op # "createOrder" => UNCHANGED task["createOrder"]
    BY OpFacts, Returns DEF WalletInv, Safe, GoesOn, Begins, Ends
  <2>. QED
    BY <2>1, OrderKept DEF Safe
<1>4. busy' \in BOOLEAN /\ syncing' \in BOOLEAN
  BY Returns, Records DEF WalletInv, Safe, GoesOn, Begins, Ends, flagsKept
<1>5. WalletTypeOK'
  BY <1>4, Records, RecordsNext DEF WalletInv, Safe
<1>. QED
  BY <1>1, <1>2, <1>3, <1>5 DEF WalletInv

\* A method that ends is idle.
LEMMA EndsSafe ==
  ASSUME WalletInv, NEW op \in Op, ~isIdle(op), return(op),
         state' \in StateRecord, session' \in Accounts, UNCHANGED <<freighter, sent>>,
         Forgotten \/ Retained
  PROVE  WalletInv'
<1>1. isIdle(op)' /\ task' \in [Op -> TaskRecord]
  BY Returns DEF WalletInv, isIdle, Idle
<1>2. Safe(op)
  BY <1>1 DEF Safe, Ends
<1>. QED
  BY <1>1, <1>2, SafeKeeps

\* A method of no order, or the order before it is sent, that goes on.
LEMMA GoesOnSafe ==
  ASSUME WalletInv, NEW op \in Op, ~isIdle(op), NEW label \in Label \ {"idle"},
         NEW address \in Accounts, await(op, label, address), flagsKept,
         state' \in StateRecord, session' \in Accounts, UNCHANGED <<freighter, sent>>,
         Forgotten \/ Retained,
         op = "createOrder" => address = Buyer /\ label \notin {"ledger", "read-back"}
  PROVE  WalletInv'
<1>1. /\ GoesOn(op) /\ task' \in [Op -> TaskRecord]
      /\ task'[op].at = label /\ task'[op].address = address
  BY AwaitGoesOn DEF WalletInv
<1>2. Safe(op)
  BY <1>1 DEF Safe
<1>. QED
  BY <1>1, <1>2, SafeKeeps

LEMMA BareForgets ==
  ASSUME NEW phase \in WalletPhase, NEW address \in Accounts, update(bare(phase, address))
  PROVE  state' \in StateRecord /\ Forgotten
BY Bare DEF update, Forgotten

LEMMA KeepRetains ==
  ASSUME WalletTypeOK, NEW phase \in WalletPhase, keep(state, phase)
  PROVE  state' \in StateRecord /\ Retained
BY TaskFacts, Renamed DEF keep, update, Retained

LEMMA SameRetains ==
  ASSUME WalletTypeOK, UNCHANGED state
  PROVE  state' \in StateRecord /\ Retained
BY TaskFacts DEF Retained

LEMMA AnsweredSafe ==
  ASSUME WalletInv, NEW op \in Op, answered(op)
  PROVE  WalletInv'
<1>1. /\ task'[op].at = task[op].at /\ task'[op].address = task[op].address
      /\ \A other \in Op : other # op => task'[other] = task[other]
      /\ task' \in [Op -> TaskRecord] /\ WalletTypeOK
  BY Answers DEF WalletInv
<1>2. ~isIdle(op) /\ task[op].at \notin {"ledger", "read-back"}
  BY DEF answered, waits, isIdle
<1>3. GoesOn(op)
  BY <1>1, <1>2 DEF answered, GoesOn, isIdle, flagsKept
<1>4. Safe(op)
  BY <1>1, <1>2, <1>3, SameRetains, TaskFacts DEF answered, Safe, address_of, Buyer
<1>. QED
  BY <1>1, <1>4, SafeKeeps

LEMMA RejectedSafe ==
  ASSUME WalletInv, NEW op \in Op, rejected(op)
  PROVE  WalletInv'
<1>1. WalletTypeOK /\ ~isIdle(op) /\ return(op) /\ UNCHANGED <<freighter, sent>>
  BY DEF WalletInv, rejected
<1>2. session \in Accounts /\ NoAddress \in Accounts
  BY <1>1, TaskFacts, OpFacts
<1>3. session' \in Accounts
  BY <1>2 DEF rejected, Op
<1>4. state' \in StateRecord /\ (Forgotten \/ Retained)
  <2>1. "disconnected" \in WalletPhase /\ "failed" \in WalletPhase
    BY DEF WalletPhase
  <2>2. \/ update(bare("disconnected", NoAddress)) \/ UNCHANGED state \/ keep(state, "failed")
    BY DEF rejected, Op
  <2>. QED
    BY <1>1, <1>2, <2>1, <2>2, BareForgets, KeepRetains, SameRetains
<1>. QED
  BY <1>1, <1>3, <1>4, EndsSafe

LEMMA InspectSafe ==
  ASSUME WalletInv, NEW op \in Op, inspectNetwork(op) \/ inspectTrustline(op)
  PROVE  WalletInv'
<1>1. /\ WalletTypeOK /\ ~isIdle(op) /\ UNCHANGED <<session, freighter, sent>>
  BY DEF WalletInv, inspectNetwork, inspectTrustline, waits, isIdle
<1>2. session' \in Accounts /\ address_of(op) \in Accounts
  BY <1>1, TaskFacts
<1>3. CASE inspectNetwork(op)
  <2>1. CASE await(op, "trustline", address_of(op)) /\ flagsKept /\ UNCHANGED state
    <3>1. /\ "trustline" \in Label \ {"idle"} /\ "trustline" \notin {"ledger", "read-back"}
          /\ op = "createOrder" => address_of(op) = Buyer
      BY DEF Label, Buyer
    <3>. QED
      BY <1>1, <1>2, <2>1, <3>1, GoesOnSafe, SameRetains
  <2>2. CASE update(bare("wrong-network", address_of(op))) /\ return(op)
    <3>1. "wrong-network" \in WalletPhase
      BY DEF WalletPhase
    <3>. QED
      BY <1>1, <1>2, <2>2, <3>1, EndsSafe, BareForgets
  <2>. QED
    BY <1>3, <2>1, <2>2 DEF inspectNetwork
<1>4. CASE inspectTrustline(op)
  <2>1. CASE update(bare("connected", address_of(op)))
    <3>1. "connected" \in WalletPhase
      BY DEF WalletPhase
    <3>. QED
      BY <1>1, <1>2, <1>4, <2>1, <3>1, EndsSafe, BareForgets DEF inspectTrustline
  <2>2. ASSUME NEW phase \in {"connected", "trustline-required"},
               state' = [phase |-> phase, address |-> address_of(op),
                         hash |-> previous(address_of(op)).hash,
                         order |-> previous(address_of(op)).order]
        PROVE  state' \in StateRecord /\ (Forgotten \/ Retained)
    <3>1. phase \in WalletPhase
      BY DEF WalletPhase
    <3>2. CASE state.address = address_of(op)
      BY <1>1, <1>2, <2>2, <3>1, <3>2, TaskFacts DEF previous, StateRecord, Retained
    <3>3. CASE state.address # address_of(op)
      BY <1>2, <2>2, <3>1, <3>3 DEF previous, StateRecord, Forgotten
    <3>. QED
      BY <3>2, <3>3
  <2>. QED
    BY <1>1, <1>2, <1>4, <2>1, <2>2, EndsSafe DEF inspectTrustline, update
<1>. QED
  BY <1>3, <1>4

-----------------------------------------------------------------------------
(* The methods that begin                                                   *)

LEMMA AwaitBegins ==
  ASSUME WalletInv, NEW op \in Op, isIdle(op), NEW label \in Label \ {"idle"},
         NEW address \in Accounts, await(op, label, address), op \in Exclusive => ~busy,
         busy' = (busy \/ op \in Exclusive), syncing' = (syncing \/ op = "sync")
  PROVE  /\ Begins(op) /\ task' \in [Op -> TaskRecord]
         /\ task'[op].at = label /\ task'[op].address = address
<1>1. /\ task'[op] = [at |-> label, address |-> address, heard |-> NoAddress]
      /\ \A other \in Op : other # op => task'[other] = task[other]
      /\ task' \in [Op -> TaskRecord]
  BY Awaits DEF WalletInv
<1>2. task'[op].at = label /\ task'[op].address = address /\ label # "idle"
  BY <1>1
<1>. QED
  BY <1>1, <1>2 DEF Begins, isIdle

LEMMA BeginsSafe ==
  ASSUME WalletInv, NEW op \in Op \ {"createOrder"}, isIdle(op),
         NEW label \in Label \ {"idle"}, await(op, label, NoAddress), op \in Exclusive => ~busy,
         busy' = (busy \/ op \in Exclusive), syncing' = (syncing \/ op = "sync"),
         state' \in StateRecord, UNCHANGED <<session, freighter, sent>>, Forgotten \/ Retained
  PROVE  WalletInv'
<1>1. Begins(op) /\ task' \in [Op -> TaskRecord]
  BY AwaitBegins, OpFacts
<1>2. Safe(op)
  BY <1>1, TaskFacts DEF Safe, WalletInv
<1>. QED
  BY <1>1, <1>2, SafeKeeps

LEMMA BeginningSafe ==
  ASSUME WalletInv, connect \/ restore \/ disconnect \/ sync \/ refresh
  PROVE  WalletInv'
<1>1. WalletTypeOK /\ busy \in BOOLEAN /\ syncing \in BOOLEAN
  BY TaskFacts DEF WalletInv
<1>2. /\ "address" \in Label \ {"idle"} /\ "leaving" \in Label \ {"idle"}
      /\ "connecting" \in WalletPhase
  BY DEF Label, WalletPhase
<1>3. ASSUME NEW op \in {"connect", "restore"}, open(op)
      PROVE  WalletInv'
  <2>1. op \in Op \ {"createOrder"} /\ op \in Exclusive /\ op # "sync"
    BY DEF Op, Exclusive
  <2>2. state' \in StateRecord /\ Forgotten
    BY <1>2, <1>3, BareForgets, OpFacts DEF open
  <2>. QED
    BY <1>1, <1>2, <1>3, <2>1, <2>2, BeginsSafe DEF open
<1>4. CASE disconnect
  <2>1. "disconnect" \in Op \ {"createOrder"} /\ "disconnect" \notin Exclusive
    BY DEF Op, Exclusive
  <2>. QED
    BY <1>1, <1>2, <1>4, <2>1, BeginsSafe, SameRetains DEF disconnect
<1>5. CASE sync
  <2>1. "sync" \in Op \ {"createOrder"} /\ "sync" \notin Exclusive /\ isIdle("sync")
    BY <1>5 DEF Op, Exclusive, sync, WalletInv, FlagsHeld
  <2>. QED
    BY <1>1, <1>2, <1>5, <2>1, BeginsSafe, SameRetains DEF sync
<1>6. CASE refresh
  <2>1. "refresh" \in Op \ {"createOrder"} /\ "refresh" \notin Exclusive
    BY DEF Op, Exclusive
  <2>. QED
    BY <1>1, <1>2, <1>6, <2>1, BeginsSafe, SameRetains DEF refresh
<1>. QED
  BY <1>3, <1>4, <1>5, <1>6 DEF connect, restore

-----------------------------------------------------------------------------
(* connect, restore, disconnect, sync and refresh between their awaits      *)

LEMMA SessionSafe ==
  ASSUME WalletInv, NEW op \in Op,
         \/ openAddress(op)
         \/ op = "disconnect" /\ disconnected
         \/ op = "refresh" /\ refreshAddress
         \/ op = "sync" /\ (syncAddress \/ syncNetwork)
  PROVE  WalletInv'
<1>1. /\ WalletTypeOK /\ session \in Accounts /\ NoAddress \in Accounts
      /\ answer(op) \in Accounts /\ address_of(op) \in Accounts
  BY TaskFacts, OpFacts DEF WalletInv
<1>2. /\ "network" \in Label \ {"idle"} /\ "own-network" \in Label \ {"idle"}
      /\ "disconnected" \in WalletPhase /\ "wrong-network" \in WalletPhase
  BY DEF Label, WalletPhase
<1>3. ~isIdle(op) /\ op # "createOrder"
  BY DEF openAddress, disconnected, refreshAddress, syncAddress, syncNetwork, heard, waits, isIdle
<1>4. CASE openAddress(op)
  BY <1>1, <1>2, <1>3, <1>4, GoesOnSafe, SameRetains DEF openAddress
<1>5. CASE op = "disconnect" /\ disconnected
  BY <1>1, <1>2, <1>3, <1>5, EndsSafe, BareForgets DEF disconnected
<1>6. CASE op = "refresh" /\ refreshAddress
  <2>1. session' \in Accounts
    BY <1>1, <1>6 DEF refreshAddress
  <2>. QED
    BY <1>1, <1>2, <1>3, <1>6, <2>1, GoesOnSafe, SameRetains DEF refreshAddress
<1>7. CASE op = "sync" /\ syncAddress
  <2>1. session' \in Accounts
    BY <1>1, <1>7 DEF syncAddress
  <2>2. PICK label \in {"network", "own-network"} : await(op, label, answer(op))
    BY <1>7 DEF syncAddress
  <2>. QED
    BY <1>1, <1>2, <1>3, <1>7, <2>1, <2>2, GoesOnSafe, SameRetains DEF syncAddress
<1>8. CASE op = "sync" /\ syncNetwork
  <2>1. UNCHANGED <<session, freighter, sent>>
    BY <1>8 DEF syncNetwork
  <2>2. CASE update(bare("wrong-network", address_of(op))) /\ return(op)
    BY <1>1, <1>2, <1>3, <2>1, <2>2, EndsSafe, BareForgets
  <2>3. CASE await(op, "network", address_of(op)) /\ flagsKept /\ UNCHANGED state
    BY <1>1, <1>2, <1>3, <2>1, <2>3, GoesOnSafe, SameRetains
  <2>4. CASE return(op) /\ UNCHANGED state
    BY <1>1, <1>3, <2>1, <2>4, EndsSafe, SameRetains
  <2>. QED
    BY <1>8, <2>2, <2>3, <2>4 DEF syncNetwork
<1>. QED
  BY <1>4, <1>5, <1>6, <1>7, <1>8

-----------------------------------------------------------------------------
(* createOrder                                                              *)

LEMMA OrderBegins ==
  ASSUME WalletInv, createOrder
  PROVE  WalletInv'
<1>1. /\ "createOrder" \in Op /\ "createOrder" \in Exclusive /\ isIdle("createOrder")
      /\ "address" \in Label \ {"idle"} /\ state.address \in Address
      /\ WalletTypeOK /\ busy \in BOOLEAN /\ syncing \in BOOLEAN
  BY TaskFacts DEF createOrder, WalletInv, FlagsHeld, Op, Exclusive, Label, Accounts
<1>2. /\ Begins("createOrder") /\ task' \in [Op -> TaskRecord]
      /\ task'["createOrder"].at = "address" /\ task'["createOrder"].address = state.address
  BY <1>1, AwaitBegins, OpFacts DEF createOrder
<1>3. FlagsHeld'
  BY <1>1, <1>2, FlagsFollow DEF WalletInv
<1>4. OwnTransaction'
  BY <1>1, SameRetains, OwnKept DEF createOrder
<1>5. OrderTask'
  BY <1>1, <1>2 DEF OrderTask, Buyer, address_of
<1>6. WalletTypeOK'
  BY <1>1, <1>2, Records, RecordsNext DEF createOrder
<1>. QED
  BY <1>3, <1>4, <1>5, <1>6 DEF WalletInv

\* Before the order is sent.
LEMMA OrderPrepared ==
  ASSUME WalletInv, orderAddress \/ orderNetwork \/ orderSimulated \/ orderSigned
  PROVE  WalletInv'
<1>1. /\ "createOrder" \in Op /\ ~isIdle("createOrder") /\ WalletTypeOK
      /\ Buyer \in Accounts /\ UNCHANGED <<session, freighter, sent>> /\ session' \in Accounts
  BY TaskFacts, OpFacts
     DEF WalletInv, orderAddress, orderNetwork, orderSimulated, orderSigned, heard, waits, isIdle,
         aroundOrder, Buyer
<1>2. ASSUME NEW phase \in WalletPhase, ends(bare(phase, Buyer))
      PROVE  WalletInv'
  BY <1>1, <1>2, EndsSafe, BareForgets DEF ends
<1>3. ASSUME NEW label \in {"buyer-network", "simulation", "signature", "submission"},
             goes(label), state' \in StateRecord, Forgotten \/ Retained
      PROVE  WalletInv'
  <2>1. label \in Label \ {"idle"} /\ label \notin {"ledger", "read-back"}
    BY DEF Label
  <2>. QED
    BY <1>1, <1>3, <2>1, GoesOnSafe DEF goes
<1>4. /\ "failed" \in WalletPhase /\ "wrong-network" \in WalletPhase
      /\ "simulation-failed" \in WalletPhase /\ "preparing-transaction" \in WalletPhase
      /\ "awaiting-wallet-signature" \in WalletPhase
  BY DEF WalletPhase
<1>5. UNCHANGED state => state' \in StateRecord /\ Retained
  BY <1>1, SameRetains
<1>6. ASSUME NEW phase \in WalletPhase, update(bare(phase, Buyer))
      PROVE  state' \in StateRecord /\ Forgotten
  BY <1>1, <1>6, BareForgets
<1>7. CASE orderAddress
  BY <1>2, <1>3, <1>4, <1>5, <1>7 DEF orderAddress
<1>8. CASE orderNetwork
  BY <1>2, <1>3, <1>4, <1>6, <1>8 DEF orderNetwork
<1>9. CASE orderSimulated
  BY <1>2, <1>3, <1>4, <1>6, <1>9 DEF orderSimulated
<1>10. CASE orderSigned
  BY <1>2, <1>3, <1>4, <1>5, <1>10 DEF orderSigned
<1>. QED
  BY <1>7, <1>8, <1>9, <1>10

\* The server takes it: its number and its buyer are shown together.
LEMMA OrderSubmitted ==
  ASSUME WalletInv, orderSubmitted
  PROVE  WalletInv'
<1>1. /\ "createOrder" \in Op /\ ~isIdle("createOrder") /\ WalletTypeOK
      /\ Buyer \in Address /\ Buyer \in Accounts /\ sent \in Seq(Address)
      /\ "ledger" \in Label \ {"idle"} /\ "submitted" \in WalletPhase
  BY TaskFacts, OpFacts
     DEF WalletInv, OrderTask, orderSubmitted, waits, isIdle, Label, WalletPhase
<1>2. /\ sent' \in Seq(Address) /\ Len(sent') = Len(sent) + 1 /\ Len(sent') \in DOMAIN sent'
      /\ sent'[Len(sent')] = Buyer /\ Len(sent') \in Nat
  BY <1>1 DEF orderSubmitted
<1>3. /\ GoesOn("createOrder") /\ task' \in [Op -> TaskRecord]
      /\ task'["createOrder"].address = Buyer
  BY <1>1, AwaitGoesOn DEF orderSubmitted, goes
<1>4. /\ state' \in StateRecord /\ state'.hash = Len(sent') /\ state'.address = Buyer
      /\ state'.order = NoOrder
  BY <1>1, <1>2 DEF orderSubmitted, update, bare, StateRecord
<1>5. FlagsHeld'
  BY <1>1, <1>3, FlagsFollow DEF WalletInv
<1>6. OwnTransaction'
  BY <1>2, <1>4 DEF OwnTransaction
<1>7. OrderTask'
  BY <1>1, <1>2, <1>3 DEF OrderTask, Buyer, address_of
<1>8. WalletTypeOK'
  BY <1>1, <1>2, <1>3, <1>4, Records, RecordsNext DEF orderSubmitted, goes, flagsKept
<1>. QED
  BY <1>5, <1>6, <1>7, <1>8 DEF WalletInv

\* Then until the order is read back, it is the last one sent.
LEMMA OrderFollowed ==
  ASSUME WalletInv, orderProgress \/ orderConfirmed \/ orderRead
  PROVE  WalletInv'
<1>1. /\ "createOrder" \in Op /\ ~isIdle("createOrder") /\ WalletTypeOK
      /\ Buyer \in Address /\ Buyer \in Accounts /\ sent \in Seq(Address)
      /\ Len(sent) > 0 /\ sent[Len(sent)] = Buyer
      /\ UNCHANGED <<session, freighter, sent>> /\ session \in Accounts
      /\ "confirming" \in WalletPhase /\ "confirmed" \in WalletPhase
  BY TaskFacts, OpFacts
     DEF WalletInv, OrderTask, orderProgress, orderConfirmed, orderRead, waits, isIdle,
         aroundOrder, WalletPhase
<1>2. Len(sent) \in Nat /\ Len(sent) \in DOMAIN sent /\ Len(sent) # NoOrder
  BY <1>1, WalletAssumption
<1>3. CASE orderProgress
  <2>1. state' \in StateRecord /\ Retained
    BY <1>1, <1>3, KeepRetains DEF orderProgress
  <2>2. OwnTransaction' /\ FlagsHeld' /\ OrderTask'
    BY <1>1, <1>3, <2>1, OwnKept, OrderKept
       DEF orderProgress, WalletInv, FlagsHeld, flagsKept, isIdle
  <2>. QED
    BY <1>1, <1>3, <2>1, <2>2, Records, RecordsNext DEF WalletInv, orderProgress, flagsKept
<1>4. CASE orderConfirmed
  <2>1. "read-back" \in Label \ {"idle"}
    BY DEF Label
  <2>2. /\ GoesOn("createOrder") /\ task' \in [Op -> TaskRecord]
        /\ task'["createOrder"].address = Buyer
    BY <1>1, <1>4, <2>1, AwaitGoesOn DEF orderConfirmed, goes
  <2>3. /\ state' \in StateRecord /\ state'.hash = Len(sent) /\ state'.address = Buyer
        /\ state'.order = NoOrder
    BY <1>1, <1>2, <1>4 DEF orderConfirmed, update, bare, StateRecord
  <2>4. FlagsHeld'
    BY <1>1, <2>2, FlagsFollow DEF WalletInv
  <2>5. OwnTransaction'
    BY <1>1, <1>2, <2>3 DEF OwnTransaction
  <2>6. OrderTask'
    BY <1>1, <2>2 DEF OrderTask, Buyer, address_of
  <2>. QED
    BY <1>1, <1>4, <2>2, <2>3, <2>4, <2>5, <2>6, Records, RecordsNext
       DEF WalletInv, orderConfirmed, goes, flagsKept
<1>5. CASE orderRead
  <2>1. /\ state' \in StateRecord /\ state'.hash = Len(sent) /\ state'.address = Buyer
        /\ state'.order = Len(sent) /\ return("createOrder")
    BY <1>1, <1>2, <1>5 DEF orderRead, ends, update, StateRecord
  <2>2. /\ task' \in [Op -> TaskRecord] /\ busy' \in BOOLEAN /\ syncing' \in BOOLEAN
        /\ isIdle("createOrder")'
    BY <1>1, <2>1, Returns DEF isIdle, Idle
  <2>3. FlagsHeld'
    BY <1>1, <2>1, FlagsFollow DEF WalletInv, Ends
  <2>4. OwnTransaction'
    BY <1>1, <1>2, <2>1 DEF OwnTransaction
  <2>5. OrderTask'
    BY <2>2 DEF OrderTask, isIdle
  <2>. QED
    BY <1>1, <2>1, <2>2, <2>3, <2>4, <2>5, Records, RecordsNext DEF WalletInv
<1>. QED
  BY <1>3, <1>4, <1>5

-----------------------------------------------------------------------------
(* Every step                                                               *)

LEMMA ContinuedSafe ==
  ASSUME WalletInv, NEW op \in Op, continued(op)
  PROVE  WalletInv'
BY AnsweredSafe, RejectedSafe, InspectSafe, SessionSafe, OrderPrepared, OrderSubmitted,
   OrderFollowed DEF continued

LEMMA AloneSafe ==
  ASSUME WalletInv, switch \/ UNCHANGED walletVars
  PROVE  WalletInv'
<1>1. UNCHANGED <<state, session, busy, syncing, task, sent>>
  BY DEF switch, walletVars
<1>2. freighter' \in [account : Address, testnet : BOOLEAN]
  BY Records DEF WalletInv, switch, walletVars
<1>3. FlagsHeld' /\ OwnTransaction' /\ OrderTask'
  BY <1>1 DEF WalletInv, FlagsHeld, OwnTransaction, OrderTask, isIdle, Buyer, address_of
<1>. QED
  BY <1>1, <1>2, <1>3, Records, RecordsNext DEF WalletInv

LEMMA InvInit == WalletInit => WalletInv
<1>. SUFFICES ASSUME WalletInit PROVE WalletInv
  OBVIOUS
<1>1. state \in StateRecord /\ state.hash = 0 /\ state.order = NoOrder
  BY Bare, OpFacts DEF WalletInit, WalletPhase
<1>2. Idle \in TaskRecord /\ \A op \in Op : isIdle(op)
  BY DEF WalletInit, Idle, TaskRecord, Label, Accounts, isIdle
<1>3. WalletTypeOK
  <2>1. task \in [Op -> TaskRecord] /\ session \in Accounts
    BY <1>2 DEF WalletInit, Accounts
  <2>2. busy \in BOOLEAN /\ syncing \in BOOLEAN
    BY DEF WalletInit
  <2>4. sent \in Seq(Address)
    BY DEF WalletInit
  <2>3. freighter \in [account : Address, testnet : BOOLEAN]
    BY DEF WalletInit
  <2>. QED
    BY <1>1, <2>1, <2>2, <2>3, <2>4, Records
<1>4. FlagsHeld /\ OwnTransaction /\ OrderTask
  BY <1>1, <1>2, OpFacts
     DEF WalletInit, FlagsHeld, OwnTransaction, OrderTask, Exclusive, Op, isIdle
<1>. QED
  BY <1>3, <1>4 DEF WalletInv

LEMMA WalletInvHolds == WalletSpec => []WalletInv
<1>1. WalletInv /\ [WalletNext]_walletVars => WalletInv'
  BY BeginningSafe, OrderBegins, ContinuedSafe, AloneSafe DEF WalletNext
<1>. QED
  BY <1>1, InvInit, PTL DEF WalletSpec

\* However connects, restores, orders, polls and refreshes overlap and fail, busy
\* is up exactly while one exclusive method runs, and syncing while a poll does
\* (controller.ts: every method lowers its flag in a finally).
THEOREM FlagsFollowMethods == WalletSpec => []FlagsHeld
<1>1. WalletInv => FlagsHeld
  BY DEF WalletInv
<1>. QED
  BY <1>1, WalletInvHolds, PTL

\* The transaction and the order shown beside an address were made by that address,
\* whoever the person became while they were sent (inspect, createOrder).
THEOREM ShowsItsOwn == WalletSpec => []OwnTransaction
<1>1. WalletInv => OwnTransaction
  BY DEF WalletInv
<1>. QED
  BY <1>1, WalletInvHolds, PTL


=============================================================================
