------------------------ MODULE WorkspaceProperties ------------------------
(***************************************************************************)
(* What the pages promise the people who act on them.                      *)
(***************************************************************************)
EXTENDS Workspace

\* The model's own counters still have room for the call.
InBounds(call) ==
  /\ call.kind = "create-order" => order_count < MaxOrders
  /\ call.kind = "create-milestone" => milestone_count < MaxMilestones
  /\ call.kind = "make-offer" => offer_count < MaxOffers
  /\ call.kind = "open-dispute" => dispute_count < MaxDisputes

\* The calls a page offers although the contract may refuse them: choosing an
\* offer when the request itself has expired (accept_offer checks both),
\* withdrawing an expired offer, which storage may have dropped, and an offer or a
\* milestone beyond the contract's limits (OfferLimitReached, MilestoneLimitReached),
\* which no page counts.
KnownRejection(call) ==
  \/ /\ call.kind = "accept-offer"
     /\ ~is_live(requests[offers[call.offer].milestone_id].expires_at)
  \/ /\ call.kind = "cancel-offer"
     /\ ~is_live(tables.offers[call.offer].expires_at)
  \/ /\ call.kind = "make-offer"
     /\ Cardinality(milestone_offers[call.milestone].ids) >= MAX_OFFERS_PER_MILESTONE
  \/ /\ call.kind = "create-milestone"
     /\ Cardinality(order_milestones[call.order]) >= MAX_MILESTONES_PER_ORDER

\* A page loaded from an indexed database never walks its user into a rejection:
\* every call any wallet can send from it succeeds, except the known ones.
\* (actions.ts: "Mirroring them keeps people from walking into guaranteed
\* rejections")
OfferedSucceeds ==
  indexed =>
    \A wallet \in Account :
      LET calls == orderCalls(wallet) \cup WithdrawOffer(tables, wallet) \cup
                   UNION {milestoneCalls(wallet, m) : m \in rowsOf(tables, "milestones")}
      IN  \A call \in calls :
            InBounds(call) /\ ~KnownRejection(call) => ENABLED run(wallet, call)

\* The two pages a funder acts from agree: the offers the funding page asks it
\* to pay are those the order page asks it to pay, and a request it is invited
\* to is one the order page lets it answer.  An accepted request leaves the
\* list of opportunities, so its funder would find it nowhere else.
FundingPagesAgree ==
  indexed =>
    \A wallet \in Account :
      LET kinds(m) == LET o == tables.milestones[m].order_id IN
            milestoneActions(wallet, getOrder(tables, o), getOrder(tables, o).milestones[m],
                             getMilestoneFinance(tables, m), now)
      IN  /\ awaitingAdvance(tables, wallet) =
               {action.offer : action \in {a \in UNION {kinds(m) : m \in rowsOf(tables, "milestones")} :
                                             a.kind = "fund-advance"}}
          /\ opportunities(tables, wallet) =
               {m \in rowsOf(tables, "milestones") :
                  \E action \in kinds(m) : action.kind = "make-offer"}
          /\ awaitingAdvance(tables, wallet) =
               {accepted[m].id : m \in {n \in MilestoneId :
                  /\ accepted[n].status = "Accepted" /\ accepted[n].funder = wallet
                  /\ is_live(accepted[n].expires_at)}}

\* An unfinished active order is always on somebody's list, and whoever is on it
\* finds a call there, unless everybody waits for the chosen funder to pay.
SomebodyIsAsked ==
  indexed =>
    \A o \in rowsOf(tables, "orders") :
      tables.orders[o].status = "Active" =>
        \E wallet \in Account :
          /\ attentionItems(wallet, getOrder(tables, o)) # {}
          /\ \/ \E m \in order_milestones[o] : milestoneCalls(wallet, m) # {}
             \/ \E m \in order_milestones[o] : is_live(accepted[m].expires_at)

\* Nobody who has to act is forgotten: not the funder a supplier chose, nor an
\* order that is not finished.
NobodyForgotten == FundingPagesAgree /\ SomebodyIsAsked

\* The split a page announces for a verified milestone is the one the contract
\* pays, however old the page, once its finance rows show the position.
PreviewIsPaid ==
  \A m \in MilestoneId :
    (page.order # NoRow /\ m \in DOMAIN page.order.milestones /\ milestones[m].status = "Verified") =>
      LET row == page.order.milestones[m]
          view == moneyView(row, page.finance[m])
      IN  row.fullyFunded /\ withRowStatus(page.finance[m].positions, "Active") # {} =>
            /\ view.repayment = compute(m).funder_repayment
            /\ view.remainder = compute(m).supplier_payout

\* The advance a page states, from whatever moment it is, is the advance its
\* button sends as long as the offer it states has not expired: the call names
\* the milestone only, not the offer.
LiveReviewIsSent ==
  \A m \in MilestoneId, wallet \in Account : \A action \in shown(wallet, m) :
    action.kind = "fund-advance" =>
      LET reviewed == page.finance[m].offers[action.offer]
          payable == accepted[m].status = "Accepted" /\ accepted[m].funder = wallet
      IN  live(reviewed.expires_at, now) /\ payable =>
            /\ accepted[m].id = action.offer
            /\ accepted[m].principal = reviewed.principal
            /\ accepted[m].repayment = reviewed.repayment

\* What a page of any age states of money, as far as it promises, is what happens.
OldReviewsHold == PreviewIsPaid /\ LiveReviewIsSent

-----------------------------------------------------------------------------
(* Statements of the source the code does not keep                          *)

\* "a stale read model can only ever cause a clean rejection, never an
\* unauthorized act": a stale page never sends an advance it does not state.
StaleAdvanceIsRejected ==
  \A m \in MilestoneId, wallet \in Account : \A action \in shown(wallet, m) :
    action.kind = "fund-advance" =>
      (ENABLED run(wallet, [kind |-> "fund-advance", milestone |-> m])
         => accepted[m].id = action.offer)

\* "review states exactly what will be signed": the split a settle panel states
\* is the split its button pays.
ReviewIsExact ==
  \A m \in MilestoneId, wallet \in Account : \A action \in shown(wallet, m) :
    action.kind = "settle-milestone" =>
      (ENABLED run(wallet, [kind |-> "settle-milestone", milestone |-> m])
         => SettleReview(page.order.milestones[m], page.finance[m]) = compute(m))

\* "Mirroring them keeps people from walking into guaranteed rejections".
ChoicesSucceed ==
  indexed =>
    \A wallet \in Account, m \in rowsOf(tables, "milestones") :
      \A call \in milestoneCalls(wallet, m) :
        call.kind = "accept-offer" => ENABLED run(wallet, call)

\* "What a wallet may do to a milestone, given its role and the on-chain state",
\* from "the rules the contract enforces": no page counts the offers of a
\* milestone or the milestones of an order.
LimitsMirrored ==
  indexed =>
    \A wallet \in Account :
      \A call \in orderCalls(wallet) \cup UNION {milestoneCalls(wallet, m) : m \in rowsOf(tables, "milestones")} :
        call.kind \in {"make-offer", "create-milestone"} /\ InBounds(call) => ENABLED run(wallet, call)

=============================================================================
