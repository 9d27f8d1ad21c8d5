----------------------- MODULE AnchorPanelProperties -----------------------
(***************************************************************************)
(* What the local-money panel may do with a person's money and report.     *)
(***************************************************************************)
EXTENDS AnchorPanel

\* The panel and the Anchor hold what the code can put there.
AnchorPanelTypeOK ==
  /\ address \in Accounts /\ session \in Accounts \cup {None}
  /\ direction \in {Deposit, Withdraw} /\ amount \in Amounts
  /\ paymentHash \in Id \cup {None} /\ recorded \in {None, "saved", "skipped"}
  /\ \A id \in known : transfers[id].amount \in Amounts

\* A payment is always the one of a withdrawal this person started: its memo,
\* the amount the withdrawal was created for and the account it was created
\* from, whatever is typed, switched or signed out while it is prepared
\* (startWithdraw, planWithdrawalPayment).
PaysItsWithdrawal ==
  \A p \in payments :
    /\ p.id \in known /\ transfers[p.id].kind = Withdraw
    /\ p.amount = transfers[p.id].amount /\ p.from = transfers[p.id].account

\* A report says completed only of a transfer the Anchor completed, and a
\* reported cash-out names this browser's own payment ("left unrecorded rather
\* than recorded approximately", recordLeg, buildLocalPaymentLeg).
ReportsWhatHappened ==
  \A r \in reports :
    /\ transfers[r.id].status = "completed" /\ transfers[r.id].kind = r.kind
    /\ r.kind = Withdraw => [id |-> r.id, from |-> r.wallet, amount |-> r.amount] \in payments

\* The panel does not stay busy for ever, even when the Anchor never finishes
\* a transfer: polling has a budget (pollTransfer, run's finally).
PanelFrees == op # None ~> op = None

-----------------------------------------------------------------------------
(* Statements the code does not keep                                        *)

\* local-payments-panel.tsx: "Treat an uncertain response as submitted until
\* its transaction is checked", so that no deposit is "credited twice".
SimulatedOnce == \A id \in Id : simulations[id] <= 1

\* local-payments-panel.tsx: "A resumed transfer is read-only so it cannot
\* accidentally be credited twice": the sandbox is told of a bank transfer only
\* for a deposit this tab started.
ResumedIsReadOnly == \A id \in Id : simulations[id] > 0 => id \in started

\* "Not recorded for metrics — nothing was missing from your conversion ...
\* The money moved exactly as shown above": said of a completed transfer.
SkippedIsDone ==
  recorded = "skipped" /\ transfer # None => transfers[transfer.id].status = "completed"

\* "Rate valid for ... — continue now": the rate is of what the button sends.
RateFitsForm ==
  quote # None /\ quote.live /\ op = None => quote.direction = direction /\ quote.amount = amount

\* record.ts: "A leg that cannot be described exactly is better left unrecorded
\* than recorded approximately": a deposit is reported for the wallet it paid.
DepositOfItsWallet == \A r \in reports : r.kind = Deposit => r.wallet = transfers[r.id].account

=============================================================================
