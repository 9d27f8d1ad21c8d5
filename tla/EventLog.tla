------------------------------ MODULE EventLog ------------------------------
(***************************************************************************)
(* The events the contract publishes, as the channel between the contract  *)
(* and everything off chain.                                               *)
(*                                                                         *)
(* Every call of MilvanceCore is conjoined with the events its entry point *)
(* publishes, in the order of the publish() calls.  published holds those  *)
(* no reader has taken yet, in chain order.  An event carries the rank of  *)
(* its transaction among the pending ones (tx), its own rank (id), its     *)
(* ledger, and its index among ALL events of the transaction: the token    *)
(* contract's transfer events come first and are not delivered, the reader *)
(* filters by contract.                                                    *)
(* Two calls of one day may share a ledger, and here they do.              *)
(***************************************************************************)
EXTENDS MilvanceCore, Sequences, TLC

CONSTANT MaxPending      \* bound: events published and not yet read

VARIABLE published
logVars == <<vars, published>>

-----------------------------------------------------------------------------
(* events.rs: names and fields; the address fields nobody downstream reads  *)
(* back are left out.                                                       *)

\* Two records in one; the first wins (the TLC module's @@, written out).
joined(f, g) == [x \in DOMAIN f \cup DOMAIN g |-> IF x \in DOMAIN f THEN f[x] ELSE g[x]]

event(name, index, fields) == joined([name |-> name, index |-> index], fields)

OrderCreated(o, roles) ==
  event("order_created", 0, joined([order |-> o, asset |-> Usdc], roles))
OrderMoved(name, o, index) == event(name, index, [order |-> o])
MilestoneCreated(o, m, amount) ==
  event("milestone_created", 0, [order |-> o, milestone |-> m, amount |-> amount])
\* After one transfer event.
MilestoneFunded(m, amount) ==
  LET total == milestones[m].funded_amount + amount
  IN  event("milestone_funded", 1, [milestone |-> m, amount |-> amount, funded_amount |-> total,
                                    fully_funded |-> total = milestones[m].amount])
PartialFundingCancelled(m) == event("partial_funding_cancelled", 1, [milestone |-> m])
FinanceRequested(m, principal, expires_at) ==
  event("finance_requested", 0,
        [milestone |-> m, requested_principal |-> principal, expires_at |-> expires_at])
FinanceRequestCancelled(m) ==
  event("finance_request_cancelled", 0,
        [milestone |-> m, was_expired |-> ~is_live(requests[m].expires_at)])
FundingOfferCreated(f, m, funder, principal, repayment, expires_at) ==
  event("funding_offer_created", 0,
        [milestone |-> m, offer |-> f, funder |-> funder, principal |-> principal,
         repayment |-> repayment, expires_at |-> expires_at])
OfferMoved(name, f) == event(name, 0, [offer |-> f, milestone |-> offers[f].milestone_id])
AdvanceFunded(m) ==
  event("advance_funded", 1,
        [milestone |-> m, offer |-> accepted[m].id, funder |-> accepted[m].funder,
         principal |-> accepted[m].principal, repayment |-> accepted[m].repayment])
AcceptanceReleased(m) ==
  event("acceptance_released", 0,
        [milestone |-> m, offer |-> accepted[m].id,
         request_reopened |-> is_live(requests[m].expires_at)])
EvidenceSubmitted(m, digest) ==
  event("evidence_submitted", 0, [milestone |-> m, evidence_hash |-> digest])
MilestoneVerified(m, digest) ==
  event("milestone_verified", 0, [milestone |-> m, evidence_hash |-> digest])
MilestoneSettled(m, transfers) ==
  event("milestone_settled", transfers,
        joined([milestone |-> m, order |-> milestones[m].order_id,
                protected_amount |-> milestones[m].funded_amount], compute(m)))
MilestoneRefunded(m) ==
  event("milestone_refunded", 1,
        [milestone |-> m, order |-> milestones[m].order_id,
         refunded_amount |-> milestones[m].funded_amount,
         funder_advance_outstanding |->
           IF positions[m].status = "Active" THEN positions[m].principal ELSE 0])
DisputeOpened(m, caller) ==
  event("dispute_opened", 0, [milestone |-> m, dispute |-> dispute_count + 1, opened_by |-> caller])
DisputeResolved(m, settled, index) ==
  event("dispute_resolved", index,
        [milestone |-> m, dispute |-> milestone_dispute[m], settled |-> settled])

\* order_completed follows, in the same transaction, when the order has just ended.
Completion(m, index) ==
  LET o == milestones[m].order_id IN
  IF orders'[o].status = "Completed" THEN <<OrderMoved("order_completed", o, index)>> ELSE <<>>

publish(events) ==
  LET call == IF published = <<>> THEN 1 ELSE published[Len(published)].tx + 1
  IN  /\ Len(published) + Len(events) <= MaxPending
      /\ published' = published \o
           [i \in DOMAIN events |-> joined(events[i], [tx |-> call, ledger |-> now, id |-> Len(published) + i])]

-----------------------------------------------------------------------------
(* Each entry point with what it publishes: one atomic invocation           *)

invoke_create_order(roles) ==
  create_order(roles) /\ publish(<<OrderCreated(order_count + 1, roles)>>)
invoke_create_milestone(o, amount) ==
  /\ create_milestone(o, amount)
  /\ publish(<<MilestoneCreated(o, milestone_count + 1, amount)>>)
invoke_accept_order(o) == accept_order(o) /\ publish(<<OrderMoved("order_accepted", o, 0)>>)
invoke_cancel_order(o) == cancel_order(o) /\ publish(<<OrderMoved("order_cancelled", o, 0)>>)

invoke_fund_milestone(m, amount) ==
  /\ fund_milestone(m, amount, Usdc)
  /\ publish(<<MilestoneFunded(m, amount)>>)
invoke_cancel_partial_funding(m) ==
  cancel_partial_funding(m) /\ publish(<<PartialFundingCancelled(m)>>)

invoke_request_finance(m, principal, expires_at) ==
  /\ request_finance(m, principal, expires_at)
  /\ publish(<<FinanceRequested(m, principal, expires_at)>>)
invoke_cancel_finance_request(m) ==
  cancel_finance_request(m) /\ publish(<<FinanceRequestCancelled(m)>>)
invoke_make_offer(m, funder, principal, repayment, expires_at) ==
  /\ make_offer(m, funder, principal, repayment, expires_at)
  /\ publish(<<FundingOfferCreated(offer_count + 1, m, funder, principal, repayment, expires_at)>>)
invoke_cancel_offer(f) ==
  cancel_offer(f) /\ publish(<<OfferMoved("funding_offer_cancelled", f)>>)
invoke_accept_offer(f) == accept_offer(f) /\ publish(<<OfferMoved("offer_accepted", f)>>)
invoke_fund_advance(m) == fund_advance(m) /\ publish(<<AdvanceFunded(m)>>)
invoke_release_expired_acceptance(m) ==
  release_expired_acceptance(m) /\ publish(<<AcceptanceReleased(m)>>)

\* The releases of a settlement are transfers, hence earlier events.
Transfers(m) ==
  LET waterfall == compute(m)
  IN  Cardinality({k \in DOMAIN waterfall : waterfall[k] > 0})

invoke_submit_evidence(m, digest) ==
  submit_evidence(m, digest) /\ publish(<<EvidenceSubmitted(m, digest)>>)
invoke_attest_milestone(m, digest) ==
  attest_milestone(m, digest) /\ publish(<<MilestoneVerified(m, digest)>>)
invoke_settle_milestone(m, caller) ==
  /\ settle_milestone(m, caller)
  /\ publish(<<MilestoneSettled(m, Transfers(m))>> \o Completion(m, Transfers(m) + 1))
invoke_open_dispute(m, caller) ==
  open_dispute(m, caller) /\ publish(<<DisputeOpened(m, caller)>>)
invoke_resolve_settle(m) ==
  resolve_settle(m) /\ publish(<<DisputeResolved(m, TRUE, 0)>>)
invoke_resolve_refund(m) ==
  /\ resolve_refund(m)
  /\ publish(<<MilestoneRefunded(m), DisputeResolved(m, FALSE, 2)>> \o Completion(m, 3))

-----------------------------------------------------------------------------
(* The contract with its log *)

OrderCalls ==
  \/ \E roles \in Proposals : invoke_create_order(roles)
  \/ \E o \in OrderId, amount \in MilestoneAmounts : invoke_create_milestone(o, amount)
  \/ \E o \in OrderId : invoke_accept_order(o) \/ invoke_cancel_order(o)

EscrowCalls ==
  \E m \in MilestoneId :
    \/ \E amount \in Payments : invoke_fund_milestone(m, amount)
    \/ invoke_cancel_partial_funding(m)

FinancingCalls ==
  \/ \E m \in MilestoneId :
       \/ \E principal \in Payments, expires_at \in Expiries :
            invoke_request_finance(m, principal, expires_at)
       \/ invoke_cancel_finance_request(m)
       \/ \E funder \in Account, principal, repayment \in Payments, expires_at \in Expiries :
            invoke_make_offer(m, funder, principal, repayment, expires_at)
       \/ invoke_fund_advance(m)
       \/ invoke_release_expired_acceptance(m)
  \/ \E f \in OfferId : invoke_cancel_offer(f) \/ invoke_accept_offer(f)

DeliveryCalls ==
  \E m \in MilestoneId :
    \/ \E digest \in Digest : invoke_submit_evidence(m, digest) \/ invoke_attest_milestone(m, digest)
    \/ \E caller \in Account : invoke_settle_milestone(m, caller) \/ invoke_open_dispute(m, caller)
    \/ invoke_resolve_settle(m)
    \/ invoke_resolve_refund(m)

ContractStep ==
  \/ OrderCalls
  \/ EscrowCalls
  \/ FinancingCalls
  \/ DeliveryCalls
  \/ advance_ledger /\ UNCHANGED published

LogInit == Init /\ published = <<>>

=============================================================================
