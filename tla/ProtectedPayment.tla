-------------------------- MODULE ProtectedPayment --------------------------
(***************************************************************************)
(* What the contract promises of each protected payment, without orders,   *)
(* requests, offers, evidence, disputes or time: the buyer's money is      *)
(* locked for one deal, may be taken back until the lock is complete, and  *)
(* then leaves exactly once, to the supplier behind at most one funder, or *)
(* back to the buyer.  The funder's advance moves between two wallets and  *)
(* never touches the locked money.  (lib.rs: "Buyer money = protected      *)
(* milestone payment, locked in this contract"; "Funder money = separate   *)
(* capital advanced funder -> supplier, repaid first out of the verified   *)
(* milestone.")                                                            *)
(***************************************************************************)
EXTENDS Integers

CONSTANTS Payment, Party, NoParty, Vault, Amount     \* Amount: sums anybody may name

VARIABLES
  deal,     \* by payment: buyer, supplier, price
  stage,    \* None, Open, Locked, Paid, Returned
  locked,   \* held by the vault for this payment
  loan,     \* at most one: funder, principal, repayment; NoLoan before
  wallet    \* of each party and of the vault

payVars == <<deal, stage, locked, loan, wallet>>

NoDeal == [buyer |-> NoParty, supplier |-> NoParty, price |-> 0]
NoLoan == [funder |-> NoParty, principal |-> 0, repayment |-> 0]

PayInit ==
  /\ deal = [p \in Payment |-> NoDeal]
  /\ stage = [p \in Payment |-> "None"]
  /\ locked = [p \in Payment |-> 0]
  /\ loan = [p \in Payment |-> NoLoan]
  /\ wallet \in [Party \cup {Vault} -> Int] /\ wallet[Vault] = 0

moved(from, to, amount) ==
  [a \in DOMAIN wallet |->
     wallet[a] - (IF a = from THEN amount ELSE 0) + (IF a = to THEN amount ELSE 0)]

Agree(p, buyer, supplier, price) ==
  /\ stage[p] = "None"
  /\ buyer # supplier /\ price > 0
  /\ deal' = [deal EXCEPT ![p] = [buyer |-> buyer, supplier |-> supplier, price |-> price]]
  /\ stage' = [stage EXCEPT ![p] = "Open"]
  /\ UNCHANGED <<locked, loan, wallet>>

Deposit(p, amount) ==
  /\ stage[p] = "Open"
  /\ 0 < amount /\ locked[p] + amount <= deal[p].price /\ amount <= wallet[deal[p].buyer]
  /\ locked' = [locked EXCEPT ![p] = @ + amount]
  /\ stage' = [stage EXCEPT ![p] = IF locked[p] + amount = deal[p].price THEN "Locked" ELSE "Open"]
  /\ wallet' = moved(deal[p].buyer, Vault, amount)
  /\ UNCHANGED <<deal, loan>>

TakeBack(p) ==
  /\ stage[p] = "Open" /\ locked[p] > 0
  /\ locked' = [locked EXCEPT ![p] = 0]
  /\ wallet' = moved(Vault, deal[p].buyer, locked[p])
  /\ UNCHANGED <<deal, stage, loan>>

\* The one loan on this payment, never promised more than is locked.
Lend(p, funder, principal, repayment) ==
  /\ stage[p] = "Locked" /\ loan[p] = NoLoan
  /\ funder \notin {deal[p].buyer, deal[p].supplier}
  /\ 0 < principal /\ principal <= repayment /\ repayment <= deal[p].price
  /\ principal <= wallet[funder]
  /\ loan' = [loan EXCEPT ![p] =
       [funder |-> funder, principal |-> principal, repayment |-> repayment]]
  /\ wallet' = moved(funder, deal[p].supplier, principal)
  /\ UNCHANGED <<deal, stage, locked>>

\* The whole price leaves: the lender's share first, the rest to the supplier.
Pay(p) ==
  /\ stage[p] = "Locked"
  /\ wallet' = [a \in DOMAIN wallet |->
       wallet[a] + (IF a = Vault THEN -deal[p].price ELSE 0)
                 + (IF a = loan[p].funder THEN loan[p].repayment ELSE 0)
                 + (IF a = deal[p].supplier THEN deal[p].price - loan[p].repayment ELSE 0)]
  /\ stage' = [stage EXCEPT ![p] = "Paid"]
  /\ locked' = [locked EXCEPT ![p] = 0]
  /\ UNCHANGED <<deal, loan>>

GiveBack(p) ==
  /\ stage[p] = "Locked"
  /\ wallet' = moved(Vault, deal[p].buyer, deal[p].price)
  /\ stage' = [stage EXCEPT ![p] = "Returned"]
  /\ locked' = [locked EXCEPT ![p] = 0]
  /\ UNCHANGED <<deal, loan>>

PayNext ==
  \E p \in Payment :
    \/ \E buyer, supplier \in Party, price \in Amount : Agree(p, buyer, supplier, price)
    \/ \E amount \in Amount : Deposit(p, amount)
    \/ TakeBack(p)
    \/ \E funder \in Party, principal, repayment \in Amount : Lend(p, funder, principal, repayment)
    \/ Pay(p)
    \/ GiveBack(p)

PaySpec == PayInit /\ [][PayNext]_payVars

=============================================================================
