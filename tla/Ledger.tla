------------------------------- MODULE Ledger -------------------------------
(***************************************************************************)
(* What settling a delivery promises: an order is settled once, with one   *)
(* rider, who is credited the price less the platform's rate; money leaves *)
(* a rider's balance only by a payout that the balance covers.  Amounts    *)
(* need not be positive: nothing refuses a payout of zero, or one below    *)
(* zero, which adds to the balance.                                        *)
(***************************************************************************)
EXTENDS Integers

CONSTANTS
    Order,
    Rider,
    Price,      \* [Order -> Nat], in naira
    Rates,      \* the platform rates there are, in percent
    Amounts     \* the amounts of payouts, in kobo: integers

VARIABLES
    settled,    \* whether the order is settled
    balance     \* what the platform owes the rider, in kobo

vars == <<settled, balance>>

Init == /\ settled = [o \in Order |-> FALSE]
        /\ balance = [r \in Rider |-> 0]

Settle(o, r, rate) ==
    /\ ~settled[o]
    /\ settled' = [settled EXCEPT ![o] = TRUE]
    /\ balance' = [balance EXCEPT ![r] = @ + Price[o] * (100 - rate)]

PayOut(r, amount) ==
    /\ amount <= balance[r]
    /\ balance' = [balance EXCEPT ![r] = @ - amount]
    /\ UNCHANGED settled

Next ==
    \/ \E o \in Order, r \in Rider, rate \in Rates : Settle(o, r, rate)
    \/ \E r \in Rider, amount \in Amounts : PayOut(r, amount)

Spec == Init /\ [][Next]_vars

\* The platform never owes a rider a negative amount.
NeverOverdrawn == \A r \in Rider : balance[r] >= 0

=============================================================================
