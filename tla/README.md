# Milvance: verification project

Milvance protects a buyer's milestone payment in a Soroban contract and lets
funders compete to advance the supplier money against it. This directory holds
TLA+ models of that system, the TLC runs that check them on small instances, and
theorems, checked by TLAPS, that hold for every instance.

## The system

| Part | Code | State it keeps | Who changes it |
|---|---|---|---|
| Contract | `contracts/milvance-core/src` | orders, milestones, requests, selected offers, positions, disputes (persistent); offers and the offer index of a milestone (temporary, evicted); one token balance for everything | one invocation at a time, atomic, by any account; ledger time |
| Indexer | `apps/api/src/indexer/{indexer.service,indexer.main,rpc}.ts` | the cursor row, the event rows | any number of processes, a transaction per page, a replay that drops everything |
| Projector | `indexer/{decoder,projector}.ts` | the read-model tables | inside the indexer's transaction |
| Read API | `apps/api/src/read` | nothing | reads tables; reconciliation also reads the contract |
| Public metrics | `apps/api/src/metrics/{public-metrics,definitions}.ts` | nothing | several queries side by side while batches commit |
| Local payments | `apps/api/src/local-payments`, `metrics/{local-payment-cycles,cycles.main}.ts` | reports, verdicts, derived cycles | posts of any client, a separate verification process |
| Evidence | `apps/api/src/evidence`, `components/evidence` | objects, metadata rows, the panels' files and digests | uploads, signatures, the indexer's anchoring |
| Order and funding pages | `lib/domain`, `components/orders`, `components/funding` | fetched rows, of any age | queries, wallets |
| Wallet controller | `lib/wallet` | one `WalletState`, two flags, a stored address | overlapping asynchronous methods; the person in the extension |
| Transaction lifecycle | `lib/tx` | the status of one panel | awaited answers in any order; deadlines |
| Anchor panel | `components/anchor`, `lib/anchor`, `packages/anchor` | form, session, the transfer followed | one operation at a time, network answers that may be lost |
| Guided tour | `lib/demo/{flow,tour,progress}.ts` | nothing | folds over the activity feed and the rows |

The contract is the only source of truth. It publishes events; the indexer
fetches and stores them in pages, each page with the cursor in one transaction;
the projector turns them into tables; API, metrics, pages and tour are functions
of the tables; the pages send calls back to the contract through the wallet and
the transaction lifecycle. Evidence bytes and Anchor transfers live beside the
chain and meet it by digest and by Stellar transaction hash.

What is hard: several rounds of requests and offers on one milestone whose
offers are evicted by another clock than the one they expire by; one balance for
all milestones; indexer processes that hold pages fetched for a cursor that has
moved or been reset; a cursor that reports more than it stored; a projector that
fails closed; every `await` of the browser and of the API's handlers. The file
`PROJECT.json` lists the hazards at their lines with the properties about each.

## Modules

```
ProtectedPayment  <--refines--  MilvanceCore --- MilvanceCoreProperties --- MCMilvanceCore
                                     |                   |
                                     |           MilvanceCoreProofs
                                     |
                                 EventLog  (the events each invocation publishes)
                                     |
                                 ReadModel (decoder, projector, reconciliation) --- MirrorProofs --- ReadModelProofs
                            /        |           \
                 PublicMetrics   Workspace     TradeReplay
                            \      /                |
                          MCReadModel          MCTradeReplay        Workspace - MCWorkspace
     (ReadModelProofs also proves Workspace and TradeReplay; SigningProofs proves Evidence and
      ContractTransaction)

EventMirror  <--refines--  Indexer --- IndexerProperties --- IndexerProofs, MCIndexer
LocalPayments   Evidence   WalletController   ContractTransaction   AnchorPanel
```

For a component `X`, `X.tla` is the model, `XProperties.tla` states what it must
keep, `XProofs.tla` proves it, and `MCX.tla` with `MCX.cfg` is the instance TLC
checks. An action has the name of the function or handler it models, and
`PROJECT.json` gives the lines behind every definition. Definitions next to a
comment "faulty variants" are bugs that each property must catch; no
specification uses them.

**MilvanceCore.** One action per entrypoint (`create_order` ...
`resolve_refund`); a rejected invocation changes nothing and is no step.
`require_auth` of a stored party is not a guard, because that party may always
sign; an account the caller names is a parameter. Ids come in sequence and an
absent entry is a record with status `Absent`. Time is counted in days and moves
the ledger's timestamp and its sequence number together; `advance_ledger` evicts
temporary entries past their lifetime. Amounts are integers; the code's checked
i128 arithmetic rejects what would not fit. *Left out*: deadlines (no
guard reads them after creation), persistent lifetimes (such entries are
restored, never lost), pagination and pure getters.

**ProtectedPayment** is what the contract promises of one payment: agreed, deposited,
perhaps taken back before the lock is complete, lent against at most once, then
paid (lender first) or given back, whole. `PP` in `MilvanceCoreProperties` maps a
milestone to it: the stage is a function of the status, the loan of the position.

**EventLog** joins each invocation with the event it publishes. The topics and
fields are those of `events.rs` that a reader uses; a partial refund and a
release of an expired acceptance publish theirs as the code does.

**Indexer.** An action is what runs between two awaits that let another process
in: `read_cursor`, `getEvents`, `out_of_range`, `applyBatch` and `reset` (each one
database transaction that first locks the cursor's row), `recordError`, and a
process that dies. An event is its position in the chain's log, with its ledger,
whether the decoder knows it and the earlier event whose row it updates.
**EventMirror** is the promise: the tables are those of a prefix of the log, each
event counted once.

**ReadModel.** `decodeEvent`, the sort of a batch, `projectEvent` with every
handler and `isNewer`, the fail-closed checks, and `ReconcileService` as a function
of a row and a contract entry. A batch is any number of pending events at the head
of the log.

**PublicMetrics** states each published figure over the rows and, in `catalogue`,
what the metric's definition says it counts on chain. **Workspace** gives the
serialised rows, the role and action functions of `lib/domain`, the calls the
forms can send from them, and a tab whose two queries were answered at different
moments. **TradeReplay** folds the narrated events into the money picture and
computes the progress checklist.

**LocalPayments.** A post reads the stored hash and later upserts; a pass reads
rows, asks Horizon, writes each verdict by row id, derives cycles and stores them.
**Evidence.** A panel hashes the chosen file, uploads, signs; the server checks,
puts bytes, saves the row and answers, and any step may fail; commitments, their
events and the indexer's anchoring follow. **WalletController** and
**ContractTransaction** cut each method at its awaits; the person switches account
and network at any of them. **AnchorPanel** runs one operation at a time on
the values of the render that started it, while the person types, switches and signs
out, and any answer may be lost after it took effect.

## Runs

| Run | What is asked | Instance | States, time |
|---|---|---|---|
| `financing` | one milestone, all rounds, time, disputes; refinement; liveness | amount 2, two offers, two disputes, 4 days | 365 k, 1 min |
| `portfolio` | the shared balance and the end of orders | two milestones in one or two orders with crossed parties, one offer, no time | 763 k, 30 s |
| `stale_offer` | expected violation | one milestone, two offers, 5 days | - |
| `indexer` | exactly once, the prefix, liveness, refinement | two processes, five events in three ledgers, pages of two, one replay | 12 k, 50 s |
| `read_model` | tables, figures and offered calls against the contract's storage | one milestone, two offers, up to three events pending | 629 k, 2 min |
| `old_tab` | what a tab of any age states against what is sent | two offers, three days, no disputes | 999 k, 40 s |
| `wallet` | overlapping wallet operations | two accounts, one order | 384 k, 60 s |
| `transaction` | one panel's transaction to its final state | two runs, the first awaiting a balance, two ledgers | 1.0 M, 100 s |
| `local_payments` | reports racing verification | one transfer, two posts, three hashes, one replay | 2.2 M, 55 s |
| `evidence` | uploads, signatures, anchoring | two documents, one milestone, three events, one replay | 3.7 M, 2 min |
| `anchor_panel` | the panel's conversions | two accounts, two amounts, one transfer, three changes | 1.6 M, 2.5 min |
| `trade_replay` | the tour against the contract | one milestone, three pending events | 565 k, 66 s |

*Contract.* `financing` shows that the escrow behind a protected milestone is
always whole (`ProtectedInFull`), that request, selection and position tell one
story (`FinancingCoherent`), nobody is promised more than is locked
(`RepaymentCovered`), a paid advance's terms never change (`PositionFrozen`), the
offers side by side are comparable, storage outlives an offer's own expiry, dispute
records agree with milestones, every step is one of `ProtectedPayment`
(`ImplementsPayment`), a funder can always have itself repaid, and a diligent
supplier always reaches the end of a milestone (`SupplierNeverStranded`).
`portfolio` shows that the one balance is exactly the sum of what milestones hold,
any verified milestone can be paid at once, orders complete exactly with their
last milestone, and evidence is frozen once attested. Both financing rounds and
portfolios fit: an amount of 2 allows a partial deposit, a principal below its
repayment and both equal; two offers allow a withdrawn, an evicted and a competing
one; the parties of the second order are the first order's funder and supplier.

*Indexer.* The log of `MCIndexer` has a ledger with more events than a page, an
unknown event, an event that updates the row of another and one whose row was
created before the start ledger, so that the parked stream really occurs. `CatchesUp` lets
the stream fail to store an event only if the RPC's window passed it or the
next page cannot be applied; `ParkedIsReported` then asks for the error to stay.

*Read side.* `RowsReconcile`, `NeverParked` and `PagingIrrelevant` compare every
reachable storage of the contract with the rows its events leave, in all ways
of cutting the log. `HeldOrPaid`, `VolumesAreTransfers`, `CountsMatchCatalogue` and
`CompletionsTimed` ask the same of the figures; volumes are compared with what the
wallets gained or lost, not with the contract's own bookkeeping.
`OfferedSucceeds`, `FundingPagesAgree` and `SomebodyIsAsked` ask the pages for calls the contract
takes, for two pages that agree and for an order that always is on somebody's
list. `OfferedSucceeds` names the four calls a page offers although the contract may refuse
them (`KnownRejection`): accepting a live offer of a request that has expired, withdrawing an
expired offer that storage may have dropped, an offer beyond `MAX_OFFERS_PER_MILESTONE` and a
milestone beyond `MAX_MILESTONES_PER_ORDER`, which no page counts (`LimitsMirrored` below). `old_tab` does so for pages of any age: what a review states
(`LiveReviewIsSent`, `PreviewIsPaid`).

*Clients.* The remaining runs check the handlers at their awaits: see the
properties' own comments. The buttons of `FundMilestoneAction` and `FundAdvanceAction` await
`usdcShortfall` before the panel is busy, so that a second click may start a second run on
the same status; the `transaction` run has such a panel. `PanelSpec` records in the history
variable `overclicked` that this happened, and restricts no step. From then on a panel keeps
less: what it calls Confirmed still landed and signatures are still as asked, and it still
leaves its busy state; that its status belongs to one transaction, and that a final state
stays, is promised while no click came during another's balance check. A report of the
`anchor_panel` run may have been stored although the panel, whose answer was lost, says skipped; that it
says what happened presumes an Anchor that calls a withdrawal "withdrawal" (`WithdrawalKind`), as
the provider takes every other kind for a deposit.

## Fairness

* `SupplierFairSpec`: time passes; the supplier takes back a financing nobody
  pays, delivers again and again (strong fairness, since its own requests and a
  dispute interrupt delivery) and claims its money; the attestor attests and the
  resolver decides. These are what the parties are appointed for; buyer and funders
  are under no obligation. The bound on disputes stands for a buyer that stops
  disputing.
* `FairSpec` of the indexer: ledgers close; `watch` polls in a loop; a process is not
  killed before every transaction and the RPC does not fail at every attempt (strong
  fairness of the steps those interrupt).
* `PanelFairSpec`: an awaited call settles. The waits for the ledger and
  for the indexer have deadlines in the code; a poll that asks again is no progress.
* `WalletFairSpec`: the provider's interval runs `sync`, and awaited calls settle.
* `AnchorPanel`'s `FairSpec`: an operation's awaited answer arrives or fails, as
  `fetch` does; the person, the Anchor and the ledger owe nothing.

## Proofs

TLAPS checks the theorems below for every value of the constants that satisfies
the modules' named assumptions. An invariant that is not inductive is proved from a
stronger one.

* **Contract** (`MilvanceCoreProofs`; from `PartiesAssumption`, `ValuesAssumption`,
  `LimitsAssumption`). `TypeOK` is inductive. Nothing else
  is on its own, so the safety theorems share one invariant, `ContractInv`, whose parts need each
  other: an invocation reaches a milestone through its order's id and an offer through
  its number, so `Registered`, `OffersRegistered` and `DisputesRegistered` say that ids
  are handed out in sequence, blank beyond the counters and linked both ways (without
  them a new record could inherit money, an index or a dispute);
  `UntouchedBefore` keeps money out of an order that may still be cancelled, and
  `ProtectedInFull` makes the amount checked by `accept_offer` the amount that
  `settle_milestone` divides. TLC checks `ContractInv` on the instances of `financing` and
  `portfolio`. The steps fall into few kinds (`StepKinds`: one milestone worked on,
  one ended, one created, an order changed, everything else aside), and each part is proved
  per kind. From `ContractInv` follow `EscrowProtected`, `FinancingCorrect`, `OffersComparable`,
  `DisputesConsistent`, `OrdersCompleteInTime`, and step by step `TermsKept`.
* **Contract's money** (same module; also from `AccountsAssumption`, that accounts are
  finitely many). `AccountsBalance` is about sums over all milestones and all wallets. The
  library's induction cannot be used (its hypothesis is an operator), so the
  module first derives what a sum is from the recursive function under `SumFunction`, each time by a
  least counterexample among the subsets of a finite set (`LeastSubset`): it exists, does not
  depend on the order, changes by what one element changes, and is no less than a part. Given
  that, an invocation is `Quiet` or `Deposits` an amount into one milestone's escrow (negative for a
  payout; the waterfall is two transfers). `PayoutsNeverRefused` follows: a verified or disputed
  milestone passes every check of the invocations that pay it out, whatever became of the others,
  which is what `SettlementAlwaysPayable` and `FunderRepaidWithoutSupplier` ask of
  `ENABLED`. `ContractImplementsPayment` has one lemma per step of `ProtectedPayment`.
* **Read model** (`ReadModelProofs`, on `MirrorProofs`, from the contract's assumptions and `TransactionIndexed = TRUE`,
  the case in which RPC responses say where in its ledger a transaction is). `Mirror(t)` says in full what a
  row of each table owes to the contract's storage. `ReadInv` is `ContractInv` together with
  `Followed`: the pending events, which the log keeps in chain order, lead from the tables by a *trail* of
  tables, one event at a time (`Applies`), to tables that mirror the contract. An invocation
  lengthens the trail at its end, one lemma per entrypoint (`FollowMakeOffer` ...); a page, of any
  length, shortens it at its start. What a batch does is a fold, of which `FoldSteps` (the steps of a fold, again by a least
  counterexample) is all that is needed: a page that is already in order is not
  reordered, and `Applies` holds of an event whether it comes alone or in a batch. From it
  follow `RowsFollow`, `PagingIrrelevant` and, counting rows as the contract counts its records,
  `FiguresMatchCatalogue`. TLC cannot enumerate the trail that `ReadInv` asserts; it checks the
  consequences.
* **Open tabs** (same module and assumptions). `WatchInv` adds to `ReadInv` what of a row stays true
  whatever is signed after it was written: a milestone's amount, a position's repayment, and the
  terms of an accepted offer until it expires (`AmountStands`, `RepaymentStands`, `OfferStands`). Rows
  that mirror the contract stand (`MirrorStands`), every invocation leaves them standing (`StandsOn`),
  and a tab holds only rows it fetched, so `OldReviewsHold` needs no bound on its age.
* **Funding pages** (same module and assumptions). `FundingPagesTogether`, the first half of
  `NobodyForgotten`, relates each of the two pages a funder acts from to the contract's selections
  (`OrderPageAsks`, `FundingPageAsks`), and so to the other.
* **Tour** (same module and assumptions). `ReplayInv` adds to `ReadInv` that a milestone's end was heard of
  or is among the pending events exactly when the contract records it (`EndsHeard`), and that a delivered one
  has a digest (`DigestsThere`: without it a dispute would take "evidenced" back). `EndsAreTold`
  follows. For `ProgressIsKept` the core steps shown are compared with those the
  contract's own records imply: never more (`StepsHad`), and the same once nothing is pending
  (`StepsCaughtUp`); an invocation only adds to the latter (`OnwardStep`).
* **Indexer** (`IndexerProofs`, from `LogAssumption`): `IndexInv` adds to the four
  invariants that a page in flight continues, without a gap, the prefix its resume point stands for
  (`PageSound`); it is that, with the comparison of the cursor inside the transaction, that
  makes duplicate pages and replays harmless. From it follow `PrefixStored`, `EachOnce`,
  `ScannedBelowStored`, `CursorForward` and, step by step, the refinement `MirrorsChain`.
* **Evidence** (`SigningProofs`): `Stored` follows a document through each step of its
  upload, and with it `SignedIsStored` and `RowHasBytes`. `Anchoring` relates rows,
  anchors and the prefix of the log already indexed, and gives `AnchoredByEvent`,
  `CommitmentListed` and `VerifiedIsFrozen`.
* **Anchor panel** (`AnchorPanelProofs`): `Inv` says what the values an operation carries between its
  awaits still have to do with the Anchor's transfer, and gives `PaysItsWithdrawal` and
  `ReportsWhatHappened`. The latter presumes that the Anchor calls a withdrawal "withdrawal"
  (`WithdrawalKind`), as the provider's tests do: any other kind is read as a deposit.
* **Transaction** (`SigningProofs`). The theorems are about every panel and any clicks.
  `SignaturesRequested`: `RunSigned` follows a run's three accounts and the ledger. `PanelIsTruthful`
  and `PanelNeverTakesBack` rest on `overclicked \/ PanelInv`: until a click comes during another's
  balance check, one run is on its way (`Alone`), it determines the stage and hash shown
  (`Shown`), and a finished stage says what became of it (`SaysWhatIsFinal`). What they say without
  that exception, that a Confirmed panel's transaction landed, is an invariant of its own, `Landed`,
  which survives any clicks. The exceptions are real: see the statements not kept.
* **Wallet** (`WalletProofs`). `WalletInv` adds to `FlagsHeld` and `OwnTransaction` that from
  the server's answer until it is read back an order is the last one sent, and its
  buyer an account (`OrderTask`); a step begins, goes on or ends one method (`Safe`).
* **Local payments** (`LocalPaymentsProofs`, from `LocalPaymentsAssumption`, `RequestsAssumption` and
  `RowsAssumption`, which say that requests in flight are finitely many and that `None` and
  `"pass"` are neither a row nor a request). `PaymentsInv` adds to what is published
  what a pass has in hand: a row may change while Horizon is asked, but never the conversion it
  reports, so a verdict is about the wallet, direction and amount of the row it lands on even
  when it is about another hash; and a verifying pass holds no confirmed row. `HistoryInv` is
  about rows never in two hands: whoever holds one, request or pass, read the
  hash it still has. It is what fails when two hold it, which is why `HashesHold` excepts
  those rows and `PublishedIsReal` needs no exception.

Only model-checked: liveness and the properties with `ENABLED` (`SettlementAlwaysPayable`,
`FunderRepaidWithoutSupplier`, whose content `PayoutsNeverRefused` proves, and `OfferedSucceeds`), out of the
prover's reach; `VolumesAreMoney`, which compares sums over a table with what
wallets paid and identifies a role with one account, so that it says something only of
instances with one set of parties; of `NobodyForgotten` the second half, `SomebodyIsAsked`,
which is about buyers and funders that have the money to act; and `SupplierToldTruly`, which is about a supplier
whose wallet pays nothing else.

## Deadlock

Most configurations say `CHECK_DEADLOCK FALSE`, because the modelled world ends at its
bounds (last day, last id, last event). The indexer, evidence and local-payments
runs check for deadlock.

## Bounds

`MaxOrders`, `MaxMilestones`, `MaxOffers`, `MaxDisputes`, `Horizon` stop allocation
and time; `MaxPending` the unread events; `MaxLedger`, `MaxResets` the chain and the
replays; `MaxEvents`, `MaxReplays`, `MaxTime` the stories of evidence and local
payments; `MaxRuns` the clicks; `MaxOrdersSent`; `MaxTransfers`, `MaxAttempts`, `MaxChanges`
the panel; `MaxPictured` the escrow in the tour's picture. All are guards on the
environment's actions, never on a handler's. `OnePanelSpec` uses one of the two evidence
panels at a time beside all other clients, and `QuietSpec` has no open tab and no
report running.

## Statements the code does not keep

The finding of `stale_offer` is a comment of the contract that the code contradicts. `accept_offer`
never compares the offer with the open request; a supplier takes the terms of an earlier
round under a new request. No money is at risk (`RepaymentCovered` still holds), but what was
asked is not what is advanced.

Other sentences of the source are written down too, under "Statements of the source
the code does not keep" in the property modules, with the sentence quoted. TLC
finds each violated when it is made the property of the configuration given.

| Statement | Configuration | What happens |
|---|---|---|
| `OpenOffersStayListed` | `MCStaleOffer`, an offer valid for 3 days in an entry of 4, 5 days | the index entry of a milestone is renewed on writes only and disappears before the last offer expires |
| `BuyerNeverStranded` | `MCFinancing`, `Spec` | a buyer cannot open a dispute while financing is requested |
| `ScannedIsStored` | `MCIndexer` | a full page ends inside a ledger it already reports as scanned |
| `RedeliveryIsNoOp` | `MCReadModel` | an event applied twice adds to a table again; the indexer, not the projector, keeps it from happening |
| `RowsReconcile` | `MCReadModel`, `TransactionIndexed = FALSE` | without `transactionIndex` the events of a ledger change their order |
| `ReportedVolumeWasTrue` | `MCReadModel`, `MetricsSpec` | a report's queries see different states |
| `StaleAdvanceIsRejected`, `ReviewIsExact` | `MCWorkspace` | an old tab's button pays another offer, or announces another split, than it states |
| `LimitsMirrored` | `MCReadModel` (a milestone), `MAX_OFFERS_PER_MILESTONE = 1` (an offer) | the pages offer another milestone or offer beyond the contract's limits |
| `ChoicesSucceed` | `MCReadModel`, offers valid for 2 days | an offer outlives its request and is still offered for choosing |
| `QuietWhenDisconnected`, `ProgressShown` | `MCWallet` | a `sync` in flight reconnects a person, or hides the progress of an order |
| `OneRunHoweverClicked`, `FinishedHoweverClicked`, `SyncedHoweverClicked`, `ConfirmedHoweverClicked` | `MCTransaction` | a second click during the balance check of `FundAdvanceAction` starts a second run on the same status |
| `SignsWhatItBuilt`, `NothingSubmitted`, `NothingChanged` | `MCTransaction` | the account of the moment of signing; a lost answer is reported as nothing sent |
| `UnverifiableIsUnknown` | `MCLocalPayments` | any other failure of the lookup gets that verdict too |
| `ConfirmedArePublished` | `MCLocalPayments`, `Bodies <- SomeBodies` | confirmed legs that never completed are counted |
| `SamplesAreLegs` | `MCLocalPayments`, two milestones | one leg is a sample for each milestone of its supplier |
| `AttestsWhatWasChecked`, `FlagsFromEvents` | `MCEvidence` (the first without symmetry) | a commitment changed after the check; an upload after its event stays unanchored |
| `SimulatedOnce`, `ResumedIsReadOnly`, `SkippedIsDone`, `RateFitsForm`, `DepositOfItsWallet` | `MCAnchorPanel` | lost answers, form changes and account switches around a transfer |
| `EscrowIsHeld`, `ExposureIsOutstanding`, `AdvanceHappened`, `EvidenceHappened`, `AcceptanceHappened`, `DisputantNamed` | `MCTradeReplay` | the tour's picture and checklist of refunded, unfinanced or disputed trades |

## Not modelled

* Invitations, sessions, templates and QR codes of the demo, and the consent row:
  local convenience state without a protocol. The consent endpoint is one upsert.
* API start-up, configuration, headers, exception filter, health: stateless.
* S3 request signing, hashing, TOML and amount parsing: functions over text and bytes.
* Generated bindings, zod schemas, the Prisma schema: declarative.
* `trade-flow`, `run-view`, `traction-view` and UI primitives: presentation.
* Deployment and end-to-end scripts: they call the modelled entrypoints in sequence.
* Inside modelled parts: persistent lifetimes, the token beyond balance and transfer,
  discovery and KYC of the Anchor, list filters and paging of the API, medians,
  adoption counts and fixed-point rendering of the metrics, a second verification pass started
  beside a running one, and the panel's repeated comparison of a digest the server has just
  compared.
