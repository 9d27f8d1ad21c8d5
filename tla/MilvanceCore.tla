---------------------------- MODULE MilvanceCore ----------------------------
(***************************************************************************)
(* The Soroban contract contracts/milvance-core: orders, the escrow of     *)
(* their milestones, competitive financing, evidence, disputes and         *)
(* settlement.                                                             *)
(*                                                                         *)
(* One action is one invocation.  An invocation is atomic: a rejected one  *)
(* changes nothing and is not a step.  require_auth of a stored party is   *)
(* not a guard, any account may act when it likes; an account the caller   *)
(* passes is a parameter of the action.  Ids are allocated in sequence, an *)
(* absent storage entry has status "Absent", amounts are small integers    *)
(* and time is counted in days (a ledger's timestamp and its sequence      *)
(* number move together).  Deadlines and creation times are informational  *)
(* and left out, as are the lifetimes of persistent entries, which are     *)
(* restored rather than lost.                                              *)
(***************************************************************************)
EXTENDS Integers, FiniteSets

CONSTANTS
  Account, NoAccount,
  Contract,                     \* current_contract_address
  Usdc, Asset,                  \* config.usdc; assets a caller may name
  Proposals,                    \* the roles of the orders buyers create
  Digest, ZeroDigest, NoDigest,
  MilestoneAmounts, Payments,   \* amounts a caller may name
  Expiries,                     \* timestamps a caller may name
  InitialBalance,
  MAX_OFFER_VALIDITY, MAX_REQUEST_VALIDITY,
  TEMPORARY_LIFETIME_THRESHOLD, TEMPORARY_BUMP_AMOUNT,
  MAX_OFFERS_PER_MILESTONE, MAX_MILESTONES_PER_ORDER,
  \* Bounds of the model.
  MaxOrders, MaxMilestones, MaxOffers, MaxDisputes, Horizon

ASSUME AccountsAssumption == IsFiniteSet(Account)

ASSUME PartiesAssumption ==
  /\ NoAccount \notin Account /\ Contract \notin Account
  /\ Proposals \subseteq [buyer: Account, supplier: Account, attestor: Account, resolver: Account]
  /\ Usdc \in Asset
  /\ NoDigest \notin Digest /\ NoDigest # ZeroDigest

ASSUME ValuesAssumption ==
  /\ MilestoneAmounts \subseteq Int /\ Payments \subseteq Int /\ Expiries \subseteq Nat
  /\ InitialBalance \in [Account -> Nat]

ASSUME LimitsAssumption ==
  /\ MAX_OFFER_VALIDITY \in Nat /\ MAX_REQUEST_VALIDITY \in Nat
  /\ TEMPORARY_LIFETIME_THRESHOLD \in Nat /\ TEMPORARY_BUMP_AMOUNT \in Nat
  /\ MAX_OFFERS_PER_MILESTONE \in Nat /\ MAX_MILESTONES_PER_ORDER \in Nat
  /\ MaxOrders \in Nat /\ MaxMilestones \in Nat /\ MaxOffers \in Nat
  /\ MaxDisputes \in Nat /\ Horizon \in Nat

\* storage.rs: "The bump deliberately exceeds MAX_OFFER_VALIDITY_SECONDS".
ASSUME StorageAssumption == MAX_OFFER_VALIDITY <= TEMPORARY_BUMP_AMOUNT

VARIABLES
  orders, order_milestones, milestones,                \* persistent entries
  requests, accepted, positions, disputes, milestone_dispute,
  offers, milestone_offers,                            \* temporary entries
  order_count, milestone_count, offer_count, dispute_count,
  balances,                                            \* of the USDC token
  now                                                  \* env.ledger()

orderVars == <<orders, order_milestones, order_count>>
financeVars == <<requests, accepted, positions, offers, milestone_offers, offer_count>>
disputeVars == <<disputes, milestone_dispute, dispute_count>>
vars == <<orderVars, milestones, milestone_count, financeVars, disputeVars, balances, now>>

OrderId == 1..MaxOrders
MilestoneId == 1..MaxMilestones
OfferId == 1..MaxOffers
DisputeId == 1..MaxDisputes

NoOrder ==
  [buyer |-> NoAccount, supplier |-> NoAccount, attestor |-> NoAccount, resolver |-> NoAccount,
   asset |-> Usdc, status |-> "Absent"]
NoMilestone ==
  [order_id |-> 0, amount |-> 0, funded_amount |-> 0, evidence_hash |-> NoDigest,
   status |-> "Absent"]
NoRequest == [requested_principal |-> 0, expires_at |-> 0, status |-> "Absent"]
NoAccepted ==
  [id |-> 0, funder |-> NoAccount, principal |-> 0, repayment |-> 0, expires_at |-> 0,
   status |-> "Absent"]
NoPosition ==
  [offer_id |-> 0, funder |-> NoAccount, principal |-> 0, repayment |-> 0, status |-> "Absent"]
NoOffer ==
  [milestone_id |-> 0, funder |-> NoAccount, principal |-> 0, repayment |-> 0,
   expires_at |-> 0, live_until |-> 0, status |-> "Absent"]
NoIndex == [ids |-> {}, live_until |-> 0]
NoDispute == [milestone_id |-> 0, opened_by |-> NoAccount, status |-> "Absent"]

Init ==
  /\ orders = [o \in OrderId |-> NoOrder]
  /\ order_milestones = [o \in OrderId |-> {}]
  /\ milestones = [m \in MilestoneId |-> NoMilestone]
  /\ requests = [m \in MilestoneId |-> NoRequest]
  /\ accepted = [m \in MilestoneId |-> NoAccepted]
  /\ positions = [m \in MilestoneId |-> NoPosition]
  /\ disputes = [d \in DisputeId |-> NoDispute]
  /\ milestone_dispute = [m \in MilestoneId |-> 0]
  /\ offers = [f \in OfferId |-> NoOffer]
  /\ milestone_offers = [m \in MilestoneId |-> NoIndex]
  /\ order_count = 0 /\ milestone_count = 0 /\ offer_count = 0 /\ dispute_count = 0
  /\ balances = [a \in Account \cup {Contract} |-> IF a = Contract THEN 0 ELSE InitialBalance[a]]
  /\ now = 0

Protected == {"Funded", "FinanceRequested", "Financed", "Submitted", "Verified", "Disputed"}
Terminal == {"Settled", "Refunded"}

order_of(m) == orders[milestones[m].order_id]

\* The milestone of an active order is in one of these statuses.
in_active_order(m, statuses) ==
  milestones[m].status \in statuses /\ order_of(m).status = "Active"

-----------------------------------------------------------------------------
(* Faulty variants of operators below, each a bug the properties must catch *)

any_deposit_protects(m, total) == "Funded"
replaceable_always(m) == TRUE
economics_unbounded(m, principal, repayment) == 0 < principal /\ principal <= repayment
index_kept(index, ids) ==
  [ids |-> index.ids \cup ids, live_until |-> now + TEMPORARY_BUMP_AMOUNT]
left_open(m, status) == UNCHANGED disputeVars
all_to_supplier(m) ==
  [balances EXCEPT ![Contract] = @ - milestones[m].funded_amount,
                   ![order_of(m).supplier] = @ + milestones[m].funded_amount]
workable_once_financed == {"Financed", "Submitted"}
workable_until_settled == {"Funded", "Financed", "Submitted", "Verified"}
supplier_only(m, caller) == caller = order_of(m).supplier
repaid_on_top(m) ==
  [funder_repayment |-> IF positions[m].status = "Active" THEN positions[m].repayment ELSE 0,
   supplier_payout |-> milestones[m].funded_amount]
completed_with_any(o) ==
  orders' = IF \E m \in order_milestones[o] : milestones'[m].status \in Terminal
            THEN [orders EXCEPT ![o].status = "Completed"] ELSE orders

-----------------------------------------------------------------------------
(* Ledger time, temporary storage, token                                    *)

is_live(expires_at) == now < expires_at
validate_expiry(expires_at, window) == now < expires_at /\ expires_at <= now + window

\* Writing an entry and extending its lifetime; a new entry starts near its end.
extended(live_until) ==
  IF live_until <= now + TEMPORARY_LIFETIME_THRESHOLD
  THEN now + TEMPORARY_BUMP_AMOUNT ELSE live_until

with_status(offer, status) ==
  [offer EXCEPT !.status = status, !.live_until = extended(@)]
with_index(index, ids) == [ids |-> ids, live_until |-> extended(index.live_until)]

\* transfer traps without the balance, and fails the invocation with it.
can_pay(from, amount) == amount <= balances[from]
transferred(from, to, amount) ==
  [a \in DOMAIN balances |->
     balances[a] - (IF a = from THEN amount ELSE 0) + (IF a = to THEN amount ELSE 0)]

-----------------------------------------------------------------------------
(* escrow.rs, financing.rs, settlement.rs                                   *)

is_fully_funded(m) == milestones[m].funded_amount = milestones[m].amount

validate_economics(m, principal, repayment) ==
  0 < principal /\ principal <= repayment /\ repayment <= milestones[m].funded_amount

validate_funder(m, funder) ==
  LET order == order_of(m)
  IN  funder \notin {order.buyer, order.supplier, order.attestor, order.resolver}

\* How the escrow of a milestone divides: the funder is made whole first.
compute(m) ==
  LET locked == milestones[m].funded_amount
      owed == IF positions[m].status = "Active" THEN positions[m].repayment ELSE 0
  IN  [funder_repayment |-> owed, supplier_payout |-> locked - owed]

\* Both legs of the waterfall leave the contract in one invocation.
paid_out(m) ==
  LET waterfall == compute(m)
      remainder(a) == IF a = order_of(m).supplier THEN waterfall.supplier_payout ELSE 0
      repayment(a) == IF a = positions[m].funder THEN waterfall.funder_repayment ELSE 0
  IN  [a \in DOMAIN balances |->
         IF a = Contract THEN balances[a] - milestones[m].funded_amount
         ELSE balances[a] + remainder(a) + repayment(a)]

-----------------------------------------------------------------------------
(* Order lifecycle                                                          *)

create_order(roles) ==
  /\ roles.buyer # roles.supplier
  /\ roles.attestor \notin {roles.buyer, roles.supplier, roles.resolver}
  /\ roles.resolver \notin {roles.buyer, roles.supplier}
  /\ order_count < MaxOrders
  /\ order_count' = order_count + 1
  /\ orders' = [orders EXCEPT ![order_count + 1] =
       [buyer |-> roles.buyer, supplier |-> roles.supplier, attestor |-> roles.attestor,
        resolver |-> roles.resolver, asset |-> Usdc, status |-> "Created"]]
  /\ UNCHANGED <<order_milestones, milestones, milestone_count, financeVars, disputeVars,
                 balances, now>>

create_milestone(o, amount) ==
  /\ orders[o].status = "Created"
  /\ amount > 0
  /\ Cardinality(order_milestones[o]) < MAX_MILESTONES_PER_ORDER
  /\ milestone_count < MaxMilestones
  /\ milestone_count' = milestone_count + 1
  /\ milestones' = [milestones EXCEPT ![milestone_count + 1] =
       [order_id |-> o, amount |-> amount, funded_amount |-> 0, evidence_hash |-> NoDigest,
        status |-> "Unfunded"]]
  /\ order_milestones' = [order_milestones EXCEPT ![o] = @ \cup {milestone_count + 1}]
  /\ UNCHANGED <<orders, order_count, financeVars, disputeVars, balances, now>>

accept_order(o) ==
  /\ orders[o].status = "Created"
  /\ order_milestones[o] # {}
  /\ orders' = [orders EXCEPT ![o].status = "Active"]
  /\ UNCHANGED <<order_milestones, order_count, milestones, milestone_count, financeVars,
                 disputeVars, balances, now>>

cancel_order(o) ==
  /\ orders[o].status = "Created"
  /\ orders' = [orders EXCEPT ![o].status = "Cancelled"]
  /\ UNCHANGED <<order_milestones, order_count, milestones, milestone_count, financeVars,
                 disputeVars, balances, now>>

\* Once every milestone is terminal; evaluated on the milestones just written.
complete_order_if_finished(o) ==
  orders' = IF /\ order_milestones[o] # {}
               /\ \A m \in order_milestones[o] : milestones'[m].status \in Terminal
            THEN [orders EXCEPT ![o].status = "Completed"]
            ELSE orders

-----------------------------------------------------------------------------
(* Milestone escrow                                                         *)

status_after(m, total) == IF total = milestones[m].amount THEN "Funded" ELSE "Unfunded"

fund_milestone(m, amount, asset) ==
  LET total == milestones[m].funded_amount + amount IN
  /\ in_active_order(m, {"Unfunded"})
  /\ asset = order_of(m).asset
  /\ amount > 0 /\ total <= milestones[m].amount
  /\ can_pay(order_of(m).buyer, amount)
  /\ balances' = transferred(order_of(m).buyer, Contract, amount)
  /\ milestones' = [milestones EXCEPT
       ![m].funded_amount = total,
       ![m].status = status_after(m, total)]
  /\ UNCHANGED <<orderVars, milestone_count, financeVars, disputeVars, now>>

cancel_partial_funding(m) ==
  /\ in_active_order(m, {"Unfunded"})
  /\ milestones[m].funded_amount > 0
  /\ milestones[m].evidence_hash = NoDigest
  /\ requests[m].status \notin {"Open", "Accepted"}
  /\ accepted[m].status = "Absent"
  /\ positions[m].status = "Absent"
  /\ milestone_dispute[m] # 0 => disputes[milestone_dispute[m]].status # "Open"
  /\ can_pay(Contract, milestones[m].funded_amount)
  /\ balances' = transferred(Contract, order_of(m).buyer, milestones[m].funded_amount)
  /\ milestones' = [milestones EXCEPT ![m].funded_amount = 0]
  /\ UNCHANGED <<orderVars, milestone_count, financeVars, disputeVars, now>>

-----------------------------------------------------------------------------
(* Financing                                                                *)

\* A request may be replaced once it is dead, never once it is accepted.
replaceable(m) ==
  milestones[m].status = "FinanceRequested" =>
    /\ requests[m].status \notin {"Absent", "Accepted"}
    /\ ~(requests[m].status = "Open" /\ is_live(requests[m].expires_at))

request_finance(m, principal, expires_at) ==
  /\ in_active_order(m, {"Funded", "FinanceRequested"})
  /\ replaceable(m)
  /\ is_fully_funded(m)
  /\ 0 < principal /\ principal <= milestones[m].funded_amount
  /\ validate_expiry(expires_at, MAX_REQUEST_VALIDITY)
  /\ milestones' = [milestones EXCEPT ![m].status = "FinanceRequested"]
  /\ requests' = [requests EXCEPT ![m] =
       [requested_principal |-> principal, expires_at |-> expires_at, status |-> "Open"]]
  /\ milestone_offers' = [milestone_offers EXCEPT ![m] = with_index(@, {})]
  /\ UNCHANGED <<orderVars, milestone_count, accepted, positions, offers, offer_count,
                 disputeVars, balances, now>>

make_offer(m, funder, principal, repayment, expires_at) ==
  /\ in_active_order(m, {"FinanceRequested"})
  /\ requests[m].status = "Open" /\ is_live(requests[m].expires_at)
  /\ validate_funder(m, funder)
  /\ principal = requests[m].requested_principal
  /\ validate_economics(m, principal, repayment)
  /\ validate_expiry(expires_at, MAX_OFFER_VALIDITY)
  /\ Cardinality(milestone_offers[m].ids) < MAX_OFFERS_PER_MILESTONE
  /\ offer_count < MaxOffers
  /\ offer_count' = offer_count + 1
  /\ offers' = [offers EXCEPT ![offer_count + 1] =
       [milestone_id |-> m, funder |-> funder, principal |-> principal,
        repayment |-> repayment, expires_at |-> expires_at,
        live_until |-> now + TEMPORARY_BUMP_AMOUNT, status |-> "Open"]]
  /\ milestone_offers' = [milestone_offers EXCEPT ![m] = with_index(@, @.ids \cup {offer_count + 1})]
  /\ UNCHANGED <<orderVars, milestones, milestone_count, requests, accepted, positions,
                 disputeVars, balances, now>>

cancel_offer(f) ==
  /\ offers[f].status = "Open"
  /\ offers' = [offers EXCEPT ![f] = with_status(@, "Cancelled")]
  /\ UNCHANGED <<orderVars, milestones, milestone_count, requests, accepted, positions,
                 milestone_offers, offer_count, disputeVars, balances, now>>

accept_offer(f) ==
  LET m == offers[f].milestone_id IN
  /\ offers[f].status = "Open" /\ is_live(offers[f].expires_at)
  /\ in_active_order(m, {"FinanceRequested"})
  /\ requests[m].status = "Open" /\ is_live(requests[m].expires_at)
  /\ accepted[m].status = "Absent" /\ positions[m].status = "Absent"
  /\ validate_economics(m, offers[f].principal, offers[f].repayment)
  /\ offers' = [offers EXCEPT ![f] = with_status(@, "Accepted")]
  /\ requests' = [requests EXCEPT ![m].status = "Accepted"]
  /\ accepted' = [accepted EXCEPT ![m] =
       [id |-> f, funder |-> offers[f].funder, principal |-> offers[f].principal,
        repayment |-> offers[f].repayment, expires_at |-> offers[f].expires_at,
        status |-> "Accepted"]]
  /\ UNCHANGED <<orderVars, milestones, milestone_count, positions, milestone_offers,
                 offer_count, disputeVars, balances, now>>

\* transfer_advance: funder to supplier, no escrow involved.
fund_advance(m) ==
  LET offer == accepted[m] IN
  /\ positions[m].status = "Absent"
  /\ offer.status = "Accepted" /\ is_live(offer.expires_at)
  /\ in_active_order(m, {"FinanceRequested"})
  /\ validate_funder(m, offer.funder)
  /\ validate_economics(m, offer.principal, offer.repayment)
  /\ can_pay(offer.funder, offer.principal)
  /\ balances' = transferred(offer.funder, order_of(m).supplier, offer.principal)
  /\ positions' = [positions EXCEPT ![m] =
       [offer_id |-> offer.id, funder |-> offer.funder, principal |-> offer.principal,
        repayment |-> offer.repayment, status |-> "Active"]]
  /\ accepted' = [accepted EXCEPT ![m].status = "Funded"]
  /\ milestones' = [milestones EXCEPT ![m].status = "Financed"]
  /\ UNCHANGED <<orderVars, milestone_count, requests, offers, milestone_offers, offer_count,
                 disputeVars, now>>

release_expired_acceptance(m) ==
  LET f == accepted[m].id
      reopened == is_live(requests[m].expires_at)
  IN
  /\ positions[m].status = "Absent"
  /\ accepted[m].status = "Accepted" /\ ~is_live(accepted[m].expires_at)
  /\ in_active_order(m, {"FinanceRequested"})
  /\ accepted' = [accepted EXCEPT ![m] = NoAccepted]
  /\ offers' = [g \in OfferId |->
       IF g = f /\ offers[g].status # "Absent" THEN with_status(offers[g], "Cancelled")
       ELSE offers[g]]
  /\ requests' = [requests EXCEPT ![m].status = IF reopened THEN "Open" ELSE "Cancelled"]
  /\ milestones' = [milestones EXCEPT ![m].status = IF reopened THEN "FinanceRequested" ELSE "Funded"]
  /\ UNCHANGED <<orderVars, milestone_count, positions, milestone_offers, offer_count,
                 disputeVars, balances, now>>

cancel_finance_request(m) ==
  /\ in_active_order(m, {"FinanceRequested"})
  /\ positions[m].status = "Absent" /\ accepted[m].status = "Absent"
  /\ requests[m].status = "Open"
  /\ requests' = [requests EXCEPT ![m].status = "Cancelled"]
  /\ milestones' = [milestones EXCEPT ![m].status = "Funded"]
  /\ milestone_offers' = [milestone_offers EXCEPT ![m] = with_index(@, {})]
  /\ UNCHANGED <<orderVars, milestone_count, accepted, positions, offers, offer_count,
                 disputeVars, balances, now>>

\* What a supplier chooses from.
get_open_offers(m) ==
  {f \in milestone_offers[m].ids : offers[f].status = "Open" /\ is_live(offers[f].expires_at)}

-----------------------------------------------------------------------------
(* Evidence, attestation, settlement and dispute                            *)

Workable == {"Funded", "Financed", "Submitted"}

submit_evidence(m, digest) ==
  /\ in_active_order(m, Workable)
  /\ digest # ZeroDigest
  /\ milestones' = [milestones EXCEPT ![m].evidence_hash = digest, ![m].status = "Submitted"]
  /\ UNCHANGED <<orderVars, milestone_count, financeVars, disputeVars, balances, now>>

attest_milestone(m, digest) ==
  /\ in_active_order(m, {"Submitted"})
  /\ milestones[m].evidence_hash # NoDigest /\ milestones[m].evidence_hash = digest
  /\ milestones' = [milestones EXCEPT ![m].status = "Verified"]
  /\ UNCHANGED <<orderVars, milestone_count, financeVars, disputeVars, balances, now>>

is_beneficiary(m, caller) ==
  \/ caller = order_of(m).supplier
  \/ positions[m].status = "Active" /\ caller = positions[m].funder

ended_position(m, status) ==
  positions' = [positions EXCEPT ![m].status = IF @ = "Active" THEN status ELSE @]

settle_milestone(m, caller) ==
  /\ in_active_order(m, {"Verified"})
  /\ is_beneficiary(m, caller)
  /\ 0 < milestones[m].funded_amount
  /\ compute(m).funder_repayment <= milestones[m].funded_amount
  /\ can_pay(Contract, milestones[m].funded_amount)
  /\ balances' = paid_out(m)
  /\ ended_position(m, "Repaid")
  /\ milestones' = [milestones EXCEPT ![m].funded_amount = 0, ![m].status = "Settled"]
  /\ complete_order_if_finished(milestones[m].order_id)
  /\ UNCHANGED <<order_milestones, order_count, milestone_count, requests, accepted, offers,
                 milestone_offers, offer_count, disputeVars, now>>

open_dispute(m, caller) ==
  /\ in_active_order(m, Workable)
  /\ caller \in {order_of(m).buyer, order_of(m).supplier}
  /\ milestone_dispute[m] # 0 => disputes[milestone_dispute[m]].status # "Open"
  /\ dispute_count < MaxDisputes
  /\ dispute_count' = dispute_count + 1
  /\ disputes' = [disputes EXCEPT ![dispute_count + 1] =
       [milestone_id |-> m, opened_by |-> caller, status |-> "Open"]]
  /\ milestone_dispute' = [milestone_dispute EXCEPT ![m] = dispute_count + 1]
  /\ milestones' = [milestones EXCEPT ![m].status = "Disputed"]
  /\ UNCHANGED <<orderVars, milestone_count, financeVars, balances, now>>

\* resolve_dispute, by resolution.
resolvable(m) ==
  /\ in_active_order(m, {"Disputed"})
  /\ milestone_dispute[m] # 0 /\ disputes[milestone_dispute[m]].status = "Open"
resolved(m, status) ==
  /\ disputes' = [disputes EXCEPT ![milestone_dispute[m]].status = status]
  /\ UNCHANGED <<milestone_dispute, dispute_count>>

resolve_settle(m) ==
  /\ resolvable(m)
  /\ resolved(m, "ResolvedSettle")
  /\ milestones' = [milestones EXCEPT ![m].status = "Verified"]
  /\ UNCHANGED <<orderVars, milestone_count, financeVars, balances, now>>

resolve_refund(m) ==
  /\ resolvable(m)
  /\ 0 < milestones[m].funded_amount /\ can_pay(Contract, milestones[m].funded_amount)
  /\ resolved(m, "ResolvedRefund")
  /\ ended_position(m, "Closed")
  /\ balances' = transferred(Contract, order_of(m).buyer, milestones[m].funded_amount)
  /\ milestones' = [milestones EXCEPT ![m].funded_amount = 0, ![m].status = "Refunded"]
  /\ complete_order_if_finished(milestones[m].order_id)
  /\ UNCHANGED <<order_milestones, order_count, milestone_count, requests, accepted, offers,
                 milestone_offers, offer_count, now>>

-----------------------------------------------------------------------------
(* Time passes; temporary entries past their lifetime are evicted           *)

advance_ledger ==
  /\ now < Horizon
  /\ now' = now + 1
  /\ offers' = [f \in OfferId |-> IF offers[f].live_until <= now THEN NoOffer ELSE offers[f]]
  /\ milestone_offers' = [m \in MilestoneId |->
       IF milestone_offers[m].live_until <= now THEN NoIndex ELSE milestone_offers[m]]
  /\ UNCHANGED <<orderVars, milestones, milestone_count, requests, accepted, positions,
                 offer_count, disputeVars, balances>>

Next ==
  \/ \E roles \in Proposals : create_order(roles)
  \/ \E o \in OrderId : accept_order(o) \/ cancel_order(o)
  \/ \E o \in OrderId, amount \in MilestoneAmounts : create_milestone(o, amount)
  \/ \E m \in MilestoneId :
       \/ \E amount \in Payments, asset \in Asset : fund_milestone(m, amount, asset)
       \/ cancel_partial_funding(m)
       \/ \E principal \in Payments, expires_at \in Expiries :
            request_finance(m, principal, expires_at)
       \/ \E funder \in Account, principal, repayment \in Payments, expires_at \in Expiries :
            make_offer(m, funder, principal, repayment, expires_at)
       \/ fund_advance(m) \/ release_expired_acceptance(m) \/ cancel_finance_request(m)
       \/ \E digest \in Digest : submit_evidence(m, digest) \/ attest_milestone(m, digest)
       \/ \E caller \in Account : settle_milestone(m, caller) \/ open_dispute(m, caller)
       \/ resolve_settle(m) \/ resolve_refund(m)
  \/ \E f \in OfferId : cancel_offer(f) \/ accept_offer(f)
  \/ advance_ledger

Spec == Init /\ [][Next]_vars

\* A supplier that takes back a financing nobody pays, delivers whenever it may
\* again and again, and claims its money; an attestor that attests; a resolver
\* that decides; time that passes.  Buyers and funders do anything or nothing.
\* Only delivery needs strong fairness: the supplier's own requests interrupt it.
SupplierFairness ==
  /\ WF_vars(advance_ledger)
  /\ \A m \in MilestoneId :
       /\ WF_vars(cancel_finance_request(m) \/ release_expired_acceptance(m))
       /\ SF_vars(\E digest \in Digest : submit_evidence(m, digest))
       /\ WF_vars(\E digest \in Digest : attest_milestone(m, digest))
       /\ WF_vars(resolve_settle(m) \/ resolve_refund(m))
       /\ WF_vars(\E caller \in Account :
                   settle_milestone(m, caller) /\ caller = order_of(m).supplier)
SupplierFairSpec == Spec /\ SupplierFairness

=============================================================================
