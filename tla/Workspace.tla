------------------------------ MODULE Workspace ------------------------------
(***************************************************************************)
(* The browser workspace: the rows the API serves, the actions each page   *)
(* offers to the connected wallet (lib/domain/actions.ts), the call each   *)
(* form lets that wallet sign, and the calls' way to the contract.         *)
(*                                                                         *)
(* A page combines two queries, the order with its milestones and the      *)
(* milestone's finance, fetched at different moments and kept until the    *)
(* next fetch.  Layout, wording and input parsing are left out: an amount  *)
(* field holds a positive amount, a date choice a number of days.  The     *)
(* clock of the browser is the ledger's.                                   *)
(***************************************************************************)
EXTENDS ReadModel

CONSTANTS RequestDays, OfferDays     \* the choices of the two "open for" lists

VARIABLE page      \* what one tab holds: order rows, finance rows, when it rendered

-----------------------------------------------------------------------------
(* What the API serves *)

serialiseMilestone(t, m) ==
  LET row == t.milestones[m]
  IN  joined([fullyFunded |-> row.funded_amount = row.amount /\ row.amount > 0], row)

getOrder(t, o) ==
  joined([milestones |-> [m \in {n \in rowsOf(t, "milestones") : t.milestones[n].order_id = o} |->
                            serialiseMilestone(t, m)]],
         t.orders[o])

rowsAbout(t, table, m) ==
  [f \in {g \in rowsOf(t, table) : t[table][g].milestone = m} |-> t[table][f]]

getMilestoneFinance(t, m) ==
  [request |-> t.requests[m], offers |-> rowsAbout(t, "offers", m),
   positions |-> rowsAbout(t, "positions", m),
   settlement |-> t.settlements[m], refund |-> t.refunds[m]]

\* finance === undefined: every lookup finds nothing.
NotLoaded ==
  [request |-> NoRow, offers |-> <<>>, positions |-> <<>>, settlement |-> NoRow, refund |-> NoRow]

withRowStatus(rowset, s) == {f \in DOMAIN rowset : rowset[f].status = s}

-----------------------------------------------------------------------------
(* Roles are read off the order *)

orderRolesFor(wallet, order) ==
  {role \in {"buyer", "supplier", "attestor", "resolver"} : order[role] = wallet}
canActAsFunder(wallet, order) == orderRolesFor(wallet, order) = {}

-----------------------------------------------------------------------------
(* Which actions a page offers *)

orderActions(wallet, order) ==
  LET roles == orderRolesFor(wallet, order) IN
  IF order.status # "Created" THEN {}
  ELSE {kind \in {"create-milestone", "cancel-order"} : "buyer" \in roles}
       \cup {kind \in {"accept-order"} : "supplier" \in roles /\ DOMAIN order.milestones # {}}

live(expires_at, time) == time < expires_at
offered(kind, condition) == {action \in {[kind |-> kind, offer |-> 0]} : condition}
offeredEach(kind, ids) == {[kind |-> kind, offer |-> f] : f \in ids}
\* Faulty variant: any offer once the request is accepted.
offer_of_accepted_request(finance) ==
  {f \in DOMAIN finance.offers : finance.request.status = "Accepted"}
acceptedOffer(finance) == withRowStatus(finance.offers, "Accepted")
activePositionFunders(finance) ==
  {finance.positions[f].funder : f \in withRowStatus(finance.positions, "Active")}

protectActions(wallet, order, milestone) ==
  LET mine == "buyer" \in orderRolesFor(wallet, order) /\ milestone.status = "Unfunded"
  IN  offered("fund-milestone", mine)
      \cup offered("cancel-partial-funding", mine /\ milestone.funded_amount # 0)

\* Faulty variant: a release offered while the offer is live.
release_at_once(wallet, order, milestone, finance, time) ==
  {action \in offered("release-expired-acceptance",
                      milestone.status = "FinanceRequested" /\ acceptedOffer(finance) # {}) :
     "supplier" \in orderRolesFor(wallet, order)}

supplierFinanceActions(wallet, order, milestone, finance, time) ==
  LET mine == "supplier" \in orderRolesFor(wallet, order)
      requested == mine /\ milestone.status = "FinanceRequested"
      open == requested /\ finance.request.status = "Open"
  IN  offered("request-finance", mine /\ milestone.status = "Funded" /\ milestone.fullyFunded)
      \cup offered("cancel-finance-request", open)
      \cup offeredEach("accept-offer",
             {f \in withRowStatus(finance.offers, "Open") :
                open /\ live(finance.offers[f].expires_at, time)})
      \cup offered("release-expired-acceptance",
             requested /\ \E f \in acceptedOffer(finance) : ~live(finance.offers[f].expires_at, time))

funderActions(wallet, order, milestone, finance, time) ==
  LET requested == milestone.status = "FinanceRequested"
      mine == {f \in DOMAIN finance.offers : finance.offers[f].funder = wallet}
  IN  offered("make-offer", /\ canActAsFunder(wallet, order)
                            /\ requested
                            /\ finance.request.status = "Open"
                            /\ live(finance.request.expires_at, time))
      \cup offeredEach("cancel-offer", mine \cap withRowStatus(finance.offers, "Open"))
      \cup offeredEach("fund-advance",
             {f \in mine \cap acceptedOffer(finance) :
                requested /\ live(finance.offers[f].expires_at, time)})

deliveryActions(wallet, order, milestone, finance) ==
  LET roles == orderRolesFor(wallet, order)
      workable == milestone.status \in {"Funded", "Financed", "Submitted"}
  IN  offered("submit-evidence", "supplier" \in roles /\ workable)
      \cup offered("verify-milestone", /\ "attestor" \in roles
                                       /\ milestone.status = "Submitted"
                                       /\ milestone.evidence_hash # NoDigest)
      \cup offered("settle-milestone",
             /\ milestone.status = "Verified"
             /\ "supplier" \in roles \/ wallet \in activePositionFunders(finance))
      \cup offered("open-dispute", roles \cap {"buyer", "supplier"} # {} /\ workable)
      \cup offered("resolve-dispute", "resolver" \in roles /\ milestone.status = "Disputed")

milestoneActions(wallet, order, milestone, finance, time) ==
  IF order.status # "Active" THEN {}
  ELSE protectActions(wallet, order, milestone)
       \cup supplierFinanceActions(wallet, order, milestone, finance, time)
       \cup funderActions(wallet, order, milestone, finance, time)
       \cup deliveryActions(wallet, order, milestone, finance)

-----------------------------------------------------------------------------
(* What each form lets its wallet sign: calls *)

\* Dates end with the model's clock.
days(choices) == {date \in {now + d : d \in choices} : date <= Horizon}
holding(wallet) == balances[wallet]     \* readUsdcHolding, at the click
amounts == {amount \in Payments : amount > 0}

FundMilestoneForm(wallet, m, milestone) ==
  {[kind |-> "fund-milestone", milestone |-> m, amount |-> a] :
     a \in {x \in amounts : /\ x <= milestone.amount - milestone.funded_amount
                            /\ x <= holding(wallet)}}

RequestFinanceForm(m, milestone) ==
  {[kind |-> "request-finance", milestone |-> m, principal |-> p, expires_at |-> e] :
     p \in {x \in amounts : x < milestone.funded_amount}, e \in days(RequestDays)}

\* The principal is the request's; only the repayment is asked for.
MakeOfferForm(m, milestone, finance) ==
  LET principal == finance.request.requested_principal IN
  {[kind |-> "make-offer", milestone |-> m, principal |-> principal, repayment |-> r,
    expires_at |-> e] :
     r \in {x \in amounts : principal <= x /\ x <= milestone.funded_amount},
     e \in days(OfferDays)}

FundAdvanceForm(wallet, m, offer) ==
  {c \in {[kind |-> "fund-advance", milestone |-> m]} : offer.principal <= holding(wallet)}

\* The digest is computed from the chosen file; the attestor signs the row's.
SubmitEvidenceForm(m) ==
  {[kind |-> "submit-evidence", milestone |-> m, evidence_hash |-> digest] : digest \in Digest}
VerifyMilestoneForm(m, milestone) ==
  {[kind |-> "verify-milestone", milestone |-> m, evidence_hash |-> milestone.evidence_hash]}

ResolveDisputeForm(m) ==
  {[kind |-> "resolve-dispute", milestone |-> m, resolution |-> choice] :
     choice \in {"settle", "refund"}}

\* The panels that ask for nothing.
CancelPartialFundingAction(m) == {[kind |-> "cancel-partial-funding", milestone |-> m]}
CancelFinanceRequestAction(m) == {[kind |-> "cancel-finance-request", milestone |-> m]}
ReleaseExpiredAcceptanceAction(m) == {[kind |-> "release-expired-acceptance", milestone |-> m]}
SettleAction(m) == {[kind |-> "settle-milestone", milestone |-> m]}
OpenDisputeAction(m) == {[kind |-> "open-dispute", milestone |-> m]}
\* Choose and Withdraw, on the row of the offer, while the offers are listed.
showOffers(milestone) == milestone.status \in {"FinanceRequested", "Financed"}
OfferRow(milestone, action) ==
  {call \in {[kind |-> action.kind, offer |-> action.offer]} : showOffers(milestone)}

\* The panel behind each offered action.
MilestoneCard(wallet, m, milestone, finance, action) ==
  CASE action.kind = "fund-milestone" -> FundMilestoneForm(wallet, m, milestone)
    [] action.kind = "cancel-partial-funding" -> CancelPartialFundingAction(m)
    [] action.kind = "request-finance" -> RequestFinanceForm(m, milestone)
    [] action.kind = "cancel-finance-request" -> CancelFinanceRequestAction(m)
    [] action.kind = "release-expired-acceptance" -> ReleaseExpiredAcceptanceAction(m)
    [] action.kind \in {"accept-offer", "cancel-offer"} -> OfferRow(milestone, action)
    [] action.kind = "make-offer" -> MakeOfferForm(m, milestone, finance)
    [] action.kind = "fund-advance" ->
         FundAdvanceForm(wallet, m, finance.offers[action.offer])
    [] action.kind = "submit-evidence" -> SubmitEvidenceForm(m)
    [] action.kind = "verify-milestone" -> VerifyMilestoneForm(m, milestone)
    [] action.kind = "settle-milestone" -> SettleAction(m)
    [] action.kind = "open-dispute" -> OpenDisputeAction(m)
    [] action.kind = "resolve-dispute" -> ResolveDisputeForm(m)

\* Four different accounts; amounts are positive.
CreateOrderForm(wallet) ==
  {[kind |-> "create-order", roles |-> roles] :
     roles \in {r \in Proposals : /\ r.buyer = wallet
                                   /\ Cardinality({r[k] : k \in DOMAIN r}) = 4}}
CreateMilestoneForm(o) ==
  {[kind |-> "create-milestone", order |-> o, amount |-> a] : a \in {x \in MilestoneAmounts : x > 0}}
AcceptOrderAction(o) == {[kind |-> "accept-order", order |-> o]}
CancelOrderAction(o) == {[kind |-> "cancel-order", order |-> o]}

\* OrderDetail: the form of each order-level action.
OrderForms(o, action) ==
  CASE action = "create-milestone" -> CreateMilestoneForm(o)
    [] action = "accept-order" -> AcceptOrderAction(o)
    [] action = "cancel-order" -> CancelOrderAction(o)

-----------------------------------------------------------------------------
(* From a call to the contract: whose signature it needs, and the entry      *)
(* point.  The wallet fills every argument that names the acting party.      *)

\* The entry points that take their caller as an argument.
CallerIsArgument == {"make-offer", "settle-milestone", "open-dispute"}

signer(call, wallet) ==
  CASE call.kind \in CallerIsArgument -> wallet
    [] call.kind = "create-order" -> call.roles.buyer
    [] call.kind \in {"create-milestone", "cancel-order"} -> orders[call.order].buyer
    [] call.kind = "accept-order" -> orders[call.order].supplier
    [] call.kind \in {"fund-milestone", "cancel-partial-funding"} -> order_of(call.milestone).buyer
    [] call.kind \in {"request-finance", "cancel-finance-request", "submit-evidence",
                      "release-expired-acceptance"} -> order_of(call.milestone).supplier
    [] call.kind = "accept-offer" -> order_of(offers[call.offer].milestone_id).supplier
    [] call.kind = "cancel-offer" -> offers[call.offer].funder
    [] call.kind = "fund-advance" -> accepted[call.milestone].funder
    [] call.kind = "verify-milestone" -> order_of(call.milestone).attestor
    [] call.kind = "resolve-dispute" -> order_of(call.milestone).resolver

\* An offer evicted from storage fails before its funder is known.
found(call) ==
  call.kind \in {"accept-offer", "cancel-offer"} => offers[call.offer].status # "Absent"

buildCall(call, wallet) ==
  CASE call.kind = "create-order" -> invoke_create_order(call.roles)
    [] call.kind = "create-milestone" -> invoke_create_milestone(call.order, call.amount)
    [] call.kind = "accept-order" -> invoke_accept_order(call.order)
    [] call.kind = "cancel-order" -> invoke_cancel_order(call.order)
    [] call.kind = "fund-milestone" -> invoke_fund_milestone(call.milestone, call.amount)
    [] call.kind = "cancel-partial-funding" -> invoke_cancel_partial_funding(call.milestone)
    [] call.kind = "request-finance" ->
         invoke_request_finance(call.milestone, call.principal, call.expires_at)
    [] call.kind = "cancel-finance-request" -> invoke_cancel_finance_request(call.milestone)
    [] call.kind = "make-offer" ->
         invoke_make_offer(call.milestone, wallet, call.principal, call.repayment, call.expires_at)
    [] call.kind = "cancel-offer" -> invoke_cancel_offer(call.offer)
    [] call.kind = "accept-offer" -> invoke_accept_offer(call.offer)
    [] call.kind = "fund-advance" -> invoke_fund_advance(call.milestone)
    [] call.kind = "release-expired-acceptance" ->
         invoke_release_expired_acceptance(call.milestone)
    [] call.kind = "submit-evidence" ->
         invoke_submit_evidence(call.milestone, call.evidence_hash)
    [] call.kind = "verify-milestone" ->
         invoke_attest_milestone(call.milestone, call.evidence_hash)
    [] call.kind = "settle-milestone" -> invoke_settle_milestone(call.milestone, wallet)
    [] call.kind = "open-dispute" -> invoke_open_dispute(call.milestone, wallet)
    [] call.kind = "resolve-dispute" ->
         IF call.resolution = "settle" THEN invoke_resolve_settle(call.milestone)
         ELSE invoke_resolve_refund(call.milestone)

\* A signed call; anything the contract refuses changes nothing.
run(wallet, call) ==
  /\ found(call)
  /\ signer(call, wallet) = wallet
  /\ buildCall(call, wallet)

-----------------------------------------------------------------------------
(* The money of one milestone, as shown *)

NoPreview == [repayment |-> -1, remainder |-> -1]

moneyView(milestone, finance) ==
  LET active == withRowStatus(finance.positions, "Active")
      preview(owed) == [repayment |-> owed, remainder |-> milestone.funded_amount - owed]
  IN  IF active # {} THEN preview(finance.positions[CHOOSE f \in active : TRUE].repayment)
      ELSE IF /\ milestone.fullyFunded
              /\ DOMAIN finance.positions = {}
              /\ finance.settlement = NoRow
           THEN preview(0)
      ELSE NoPreview

\* SettleAction states the split the wallet is about to trigger.
SettleReview(milestone, finance) ==
  LET active == withRowStatus(finance.positions, "Active")
      owed == IF active = {} THEN 0 ELSE finance.positions[CHOOSE f \in active : TRUE].repayment
  IN  [funder_repayment |-> owed, supplier_payout |-> milestone.funded_amount - owed]

-----------------------------------------------------------------------------
(* The funding page and the overview *)

fundingOpportunities(t) == {m \in rowsOf(t, "requests") : t.requests[m].status = "Open"}
fundingOffers(t, wallet) == {f \in rowsOf(t, "offers") : t.offers[f].funder = wallet}

\* OpportunityCard leads to the offer form of the order page.
opportunities(t, wallet) ==
  {m \in fundingOpportunities(t) :
     /\ live(t.requests[m].expires_at, now)
     /\ canActAsFunder(wallet, getOrder(t, t.milestones[m].order_id))}

\* Faulty variant: an expired acceptance is still asked for.
awaiting_expired(t, wallet) ==
  {f \in rowsOf(t, "offers") : t.offers[f].funder = wallet /\ t.offers[f].status = "Accepted"}

\* OfferCard: the offers whose funder is asked for the advance now.
awaitingAdvance(t, wallet) ==
  {f \in fundingOffers(t, wallet) :
     /\ t.offers[f].status = "Accepted"
     /\ t.milestones[t.offers[f].milestone].status = "FinanceRequested"
     /\ live(t.offers[f].expires_at, now)}

\* OfferCard again: an open offer may be withdrawn from this page.
WithdrawOffer(t, wallet) ==
  {[kind |-> "cancel-offer", offer |-> f] :
     f \in {g \in fundingOffers(t, wallet) :
              t.offers[g].status = "Open" /\ live(t.offers[g].expires_at, now)}}

\* What each status asks of which role of the order.
attentionItems(wallet, order) ==
  LET roles == orderRolesFor(wallet, order)
      waits(role, state) ==
        \/ role = "buyer" /\ state = "Unfunded"
        \/ role = "supplier" /\ state \in {"Funded", "FinanceRequested", "Financed", "Verified"}
        \/ role = "attestor" /\ state = "Submitted"
        \/ role = "resolver" /\ state = "Disputed"
  IN  IF order.status = "Created"
      THEN {role \in {"buyer"} : role \in roles /\ DOMAIN order.milestones = {}}
           \cup {role \in {"supplier"} : role \in roles /\ DOMAIN order.milestones # {}}
      ELSE IF order.status = "Active"
      THEN {role \in roles : \E m \in DOMAIN order.milestones :
                               waits(role, order.milestones[m].status)}
      ELSE {}

-----------------------------------------------------------------------------
(* One open tab: order-detail.tsx with its milestone cards *)

EmptyPage == [order |-> NoRow, finance |-> [m \in MilestoneId |-> NotLoaded], rendered |-> 0]

\* A query result renders the page; nothing renders it when time merely passes.
fetchOrder(o) ==
  /\ o \in rowsOf(tables, "orders")
  /\ page' = [page EXCEPT !.order = getOrder(tables, o), !.rendered = now]
  /\ UNCHANGED readVars
fetchFinance(m) ==
  /\ page.order # NoRow /\ m \in DOMAIN page.order.milestones
  /\ page' = [page EXCEPT !.finance[m] = getMilestoneFinance(tables, m), !.rendered = now]
  /\ UNCHANGED readVars

shown(wallet, m) ==
  IF page.order = NoRow \/ m \notin DOMAIN page.order.milestones THEN {}
  ELSE milestoneActions(wallet, page.order, page.order.milestones[m], page.finance[m],
                        page.rendered)

-----------------------------------------------------------------------------
(* The calls a page just loaded lets a wallet send                           *)

orderCalls(wallet) ==
  CreateOrderForm(wallet) \cup
  UNION {UNION {OrderForms(o, action) : action \in orderActions(wallet, getOrder(tables, o))} :
           o \in rowsOf(tables, "orders")}

milestoneCalls(wallet, m) ==
  LET order == getOrder(tables, tables.milestones[m].order_id)
      finance == getMilestoneFinance(tables, m)
  IN  UNION {MilestoneCard(wallet, m, order.milestones[m], finance, action) :
               action \in milestoneActions(wallet, order, order.milestones[m], finance, now)}

-----------------------------------------------------------------------------
(* The tab is watched while anybody uses any client.  A call waits until the *)
(* last one is indexed, as the workspace itself does: a tab may be           *)
(* arbitrarily old, so a lagging indexer shows it nothing that it could not  *)
(* show anyway.                                                              *)

indexed == published = <<>>
index == applyBatch(Len(published)) /\ UNCHANGED page

WorkspaceInit == ReadInit /\ page = EmptyPage

WatchNext ==
  \/ indexed /\ ContractStep /\ UNCHANGED <<tables, page>>
  \/ index
  \/ \E o \in OrderId : fetchOrder(o)
  \/ \E m \in MilestoneId : fetchFinance(m)
workspaceVars == <<readVars, page>>
WatchSpec == WorkspaceInit /\ [][WatchNext]_workspaceVars

=============================================================================
