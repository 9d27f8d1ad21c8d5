-------------------------- MODULE WalletProperties --------------------------
(***************************************************************************)
(* What the wallet's session promises the pages that show and sign with it.*)
(***************************************************************************)
EXTENDS WalletController

WalletPhase ==
  {"disconnected", "connecting", "connected", "wrong-network", "trustline-required",
   "preparing-transaction", "simulation-failed", "awaiting-wallet-signature", "submitted",
   "confirming", "confirmed", "failed"}
Accounts == Address \cup {NoAddress}
Label == {"idle", "leaving", "trustline", "simulation", "signature", "submission", "ledger",
          "read-back", "address", "network", "own-network", "buyer-network"}

WalletTypeOK ==
  /\ state \in [phase : WalletPhase, address : Accounts, hash : Nat, order : Nat \cup {NoOrder}]
  /\ session \in Accounts /\ busy \in BOOLEAN /\ syncing \in BOOLEAN
  /\ task \in [Op -> [at : Label, address : Accounts,
                      heard : Accounts]]
  /\ freighter \in [account : Address, testnet : BOOLEAN]
  /\ sent \in Seq(Address)

-----------------------------------------------------------------------------
\* busy is held by exactly one of the operations that must not overlap, and
\* syncing by the background check, for as long as they run, on every path out
\* of them: a flag left behind would refuse the wallet to the person for good,
\* one dropped early would let a second order be prepared over the first.
FlagsHeld ==
  /\ busy <=> \E op \in Exclusive : ~isIdle(op)
  /\ \A op, other \in Exclusive : ~isIdle(op) /\ ~isIdle(other) => op = other
  /\ syncing <=> ~isIdle("sync")

\* The transaction and the order shown beside an address were made by that
\* address, whoever the person became while it was sent (inspect keeps what is
\* shown for the same account only; the callbacks of send spread the state of
\* the moment).
OwnTransaction ==
  /\ state.hash # 0 => state.hash \in DOMAIN sent /\ sent[state.hash] = state.address
  /\ state.order # NoOrder => state.order = state.hash

\* "Polling this keeps the workspace on the account the user is actually using":
\* a person who stays on one account of testnet sees it again and again, however
\* orders, refreshes and reconnects overwrite it, or is disconnected.
SyncFollows ==
  \/ []<>(freighter.testnet => state.address \in {freighter.account, NoAddress})
  \/ []<><<freighter' # freighter>>_walletVars

-----------------------------------------------------------------------------
(* Statements of the source the code does not keep                          *)

\* The wallet someone disconnected stays so until they connect: a check that was
\* on its way brings the account back.
QuietWhenDisconnected ==
  [][state.phase = "disconnected" => state'.phase \in {"disconnected", "connecting"}]_walletVars

\* "overlapping background updates" (syncing, busy): the progress of the order
\* being created is what the page shows.
ProgressShown ==
  /\ waits("createOrder", "signature") => state.phase = "awaiting-wallet-signature"
  /\ waits("createOrder", "ledger") => state.phase \in {"submitted", "confirming"}

=============================================================================
