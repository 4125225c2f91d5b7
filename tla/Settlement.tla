----------------------------- MODULE Settlement -----------------------------
(***************************************************************************)
(* How an order is paid for: PaymentsService (initiate, the two gateway    *)
(* webhooks, cash confirmation, splitAndCredit) and the payout an admin    *)
(* makes from a rider's wallet.                                            *)
(*                                                                         *)
(* An action is what a handler does up to its next `await`; awaits of      *)
(* several handlers interleave.  The three writes of splitAndCredit and    *)
(* the two of processPayout are started together (Promise.all, which is    *)
(* not a transaction): they land in any order, and some of them may fail.  *)
(*                                                                         *)
(* Prices are whole naira (createOrder rounds them) and rates whole        *)
(* percent, so that amounts are exact in kobo and Math.round does nothing. *)
(***************************************************************************)
EXTENDS Integers, FiniteSets, Functions

CONSTANTS
    Order,
    Rider,            \* a rider's profile id stands for the user id, too
    Proc,             \* slots for handlers that run at the same time
    NoOrder,
    NoRider,
    NoRow,
    Price,            \* [Order -> Nat]: finalPrice, in naira
    Method,           \* [Order -> {"CARD", "OPAY", "CASH"}]: paymentMethod
    PayoutAmounts,    \* the amounts an admin may enter, in kobo
    MaxInitiations,   \* bound: calls of initiatePayment
    MaxPayouts,       \* bound: calls of processPayout
    MaxFaults,        \* bound: awaits that throw, and crashes
    PayAfterAssign,   \* whether payment waits for the order to have a rider
    Reassigns,        \* whether an order's rider changes
    SubscriptionsVary \* whether riders subscribe and unsubscribe

ASSUME OrderAssumption == IsFiniteSet(Order) /\ IsFiniteSet(Rider)
ASSUME NoneAssumption == NoOrder \notin Order /\ NoRider \notin Rider
ASSUME PriceAssumption == Price \in [Order -> Nat]
ASSUME MethodAssumption == Method \in [Order -> {"CARD", "OPAY", "CASH"}]
ASSUME AmountAssumption == PayoutAmounts \subseteq Int
ASSUME BoundAssumption ==
    MaxInitiations \in Nat /\ MaxPayouts \in Nat /\ MaxFaults \in Nat

PLATFORM_RATE == 15
SUBSCRIPTION_PLATFORM_RATE == 5

Row == [gross : Nat, commission : Nat, payout : Nat]
ASSUME RowAssumption == NoRow \notin Row

VARIABLES
    paymentStatus,  \* Order.paymentStatus
    assignee,       \* Order.riderId, written by dispatch
    row,            \* the Payment row of the order
    wallet,         \* RiderProfile.walletBalance, in kobo
    paidOut,        \* sum of the rider's Payout rows, in kobo
    subscribed,     \* riders with an active subscription
    links,          \* payment links the customer holds and has not paid
    charges,        \* charges the gateway made and tells of by webhook
    task,           \* the handler that runs in each slot
    credits,        \* history: how often a wallet was credited for the order
    disturbed,      \* history: orders and riders whose handler had a fault
    initiations,    \* calls counted against MaxInitiations
    payouts,        \* calls counted against MaxPayouts
    faults          \* faults counted against MaxFaults

bookVars == <<row, wallet, paidOut, credits>>
gatewayVars == <<links, charges>>
worldVars == <<assignee, subscribed>>
boundVars == <<initiations, payouts, faults>>
vars == <<paymentStatus, bookVars, gatewayVars, worldVars, task, disturbed,
          boundVars>>

-----------------------------------------------------------------------------
(* The state of a handler. *)

PC == {"idle", "authorize", "note", "rate", "reread", "write"}
Writes == {"row", "status", "credit", "payout", "debit"}

Task == [pc : PC, order : Order \cup {NoOrder},
         rider : Rider \cup {NoRider},   \* from the handler's first read
         payee : Rider \cup {NoRider},   \* whose wallet is written
         rate : Nat, amount : Int, todo : SUBSET Writes]

Idle == [pc |-> "idle", order |-> NoOrder, rider |-> NoRider,
         payee |-> NoRider, rate |-> 0, amount |-> 0, todo |-> {}]

Payment(pc, o, r) == [pc |-> pc, order |-> o, rider |-> r,
                      payee |-> NoRider, rate |-> 0, amount |-> 0, todo |-> {}]

Payout(r, amount) ==
    [pc |-> "write", order |-> NoOrder, rider |-> NoRider, payee |-> r,
     rate |-> 0, amount |-> amount, todo |-> {"payout", "debit"}]

Working(p) == task[p] # Idle

\* a handler of a payment, at its first await after the read of the order
Begin(p, pc, o, r) == task' = [task EXCEPT ![p] = Payment(pc, o, r)]

Finish(p) == task' = [task EXCEPT ![p] = Idle]

\* One of the writes in flight has ended; after the last one so has the handler.
EndWrite(p, w) ==
    IF task[p].todo = {w} THEN Finish(p)
                          ELSE task' = [task EXCEPT ![p].todo = @ \ {w}]

Gross(o) == Price[o] * 100
\* Mutant of Commission: a percentage is not divided by a hundred.
CommissionTooLarge(o, rate) == Gross(o) * rate

Commission(o, rate) == Price[o] * rate
RiderShare(o, rate) == Gross(o) - Commission(o, rate)

\* hasActiveSubscription; without a rider the code asks for the user ''
RateOf(r) ==
    IF r \in subscribed THEN SUBSCRIPTION_PLATFORM_RATE ELSE PLATFORM_RATE

\* Mutant of NotCaptured: the guard is dropped.
CapturedAgain(o) == o \in Order

\* Mutant of NotCaptured: the status that initiatePayment looks for.
StillPending(o) == paymentStatus[o] = "PENDING"

\* the guard against a payment that was taken before
NotCaptured(o) == paymentStatus[o] # "CAPTURED"

MayPay(o) == PayAfterAssign => assignee[o] # NoRider

-----------------------------------------------------------------------------
(* initiatePayment, and what the customer and the gateway then do.         *)

\* A CASH order gets a message and nothing else, so it is no step.
InitiatePayment(p, o) ==
    /\ ~Working(p)
    /\ initiations < MaxInitiations
    /\ MayPay(o)
    /\ Method[o] # "CASH"
    /\ paymentStatus[o] = "PENDING"
    /\ Begin(p, "authorize", o, NoRider)
    /\ initiations' = initiations + 1
    /\ UNCHANGED <<paymentStatus, bookVars, gatewayVars, worldVars, disturbed,
                   payouts, faults>>

\* initiatePaystack and initiateOpay, once the gateway has answered
Authorize(p) ==
    LET o == task[p].order IN
    /\ task[p].pc = "authorize"
    /\ paymentStatus' = [paymentStatus EXCEPT ![o] = "AUTHORIZED"]
    /\ links' = [links EXCEPT ![o] = @ + 1]
    /\ Finish(p)
    /\ UNCHANGED <<bookVars, charges, worldVars, disturbed, boundVars>>

Pay(o) ==
    /\ links[o] > 0
    /\ links' = [links EXCEPT ![o] = @ - 1]
    /\ charges' = [charges EXCEPT ![o] = @ + 1]
    /\ UNCHANGED <<paymentStatus, bookVars, worldVars, task, disturbed,
                   boundVars>>

-----------------------------------------------------------------------------
(* The three ways to capture a payment.  The gateway delivers the event of *)
(* a charge once or more.                                                  *)

PaystackWebhook(p, o) ==
    /\ ~Working(p)
    /\ Method[o] = "CARD"
    /\ charges[o] > 0
    /\ NotCaptured(o)
    /\ Begin(p, "note", o, assignee[o])
    /\ UNCHANGED <<paymentStatus, bookVars, gatewayVars, worldVars, disturbed,
                   boundVars>>

OpayWebhook(p, o) ==
    /\ ~Working(p)
    /\ Method[o] = "OPAY"
    /\ charges[o] > 0
    /\ NotCaptured(o)
    /\ Begin(p, "rate", o, assignee[o])
    /\ UNCHANGED <<paymentStatus, bookVars, gatewayVars, worldVars, disturbed,
                   boundVars>>

ConfirmCash(p, o) ==
    /\ ~Working(p)
    /\ assignee[o] # NoRider
    /\ Method[o] = "CASH"
    /\ NotCaptured(o)
    /\ Begin(p, "rate", o, assignee[o])
    /\ UNCHANGED <<paymentStatus, bookVars, gatewayVars, worldVars, disturbed,
                   boundVars>>

\* Mutant of NoteReference: the update branch writes the zeros, too.
NoteResetsRow(p) ==
    LET o == task[p].order IN
    /\ task[p].pc = "note"
    /\ row' = [row EXCEPT ![o] = [gross |-> 0, commission |-> 0, payout |-> 0]]
    /\ task' = [task EXCEPT ![p].pc = "rate"]
    /\ UNCHANGED <<paymentStatus, wallet, paidOut, credits, gatewayVars,
                   worldVars, disturbed, boundVars>>

\* handlePaystackWebhook: an empty row holds the reference; a row that is there
\* keeps its amounts.
NoteReference(p) ==
    LET o == task[p].order IN
    /\ task[p].pc = "note"
    /\ row' = [row EXCEPT ![o] =
                 IF @ = NoRow THEN [gross |-> 0, commission |-> 0, payout |-> 0]
                              ELSE @]
    /\ task' = [task EXCEPT ![p].pc = "rate"]
    /\ UNCHANGED <<paymentStatus, wallet, paidOut, credits, gatewayVars,
                   worldVars, disturbed, boundVars>>

-----------------------------------------------------------------------------
(* splitAndCredit.                                                         *)

ReadRate(p) ==
    /\ task[p].pc = "rate"
    /\ task' = [task EXCEPT ![p].pc = "reread",
                            ![p].rate = RateOf(task[p].rider)]
    /\ UNCHANGED <<paymentStatus, bookVars, gatewayVars, worldVars, disturbed,
                   boundVars>>

\* The order is read again; its rider, if any, is the one who is credited.
ReadAgain(p) ==
    LET r == assignee[task[p].order] IN
    /\ task[p].pc = "reread"
    /\ task' = [task EXCEPT ![p].pc = "write",
                            ![p].payee = r,
                            ![p].todo = {"row", "status"} \cup
                               IF r # NoRider THEN {"credit"} ELSE {}]
    /\ UNCHANGED <<paymentStatus, bookVars, gatewayVars, worldVars, disturbed,
                   boundVars>>

WriteRow(p) ==
    LET o == task[p].order IN
    /\ "row" \in task[p].todo
    /\ row' = [row EXCEPT ![o] = [gross |-> Gross(o),
                                  commission |-> Commission(o, task[p].rate),
                                  payout |-> RiderShare(o, task[p].rate)]]
    /\ EndWrite(p, "row")
    /\ UNCHANGED <<paymentStatus, wallet, paidOut, credits, gatewayVars,
                   worldVars, disturbed, boundVars>>

CaptureOrder(p) ==
    /\ "status" \in task[p].todo
    /\ paymentStatus' = [paymentStatus EXCEPT ![task[p].order] = "CAPTURED"]
    /\ EndWrite(p, "status")
    /\ UNCHANGED <<bookVars, gatewayVars, worldVars, disturbed, boundVars>>

\* Mutant of CreditWallet: the rider is credited before the commission.
CreditGross(p) ==
    LET o == task[p].order IN
    /\ "credit" \in task[p].todo
    /\ wallet' = [wallet EXCEPT ![task[p].payee] = @ + Gross(o)]
    /\ credits' = [credits EXCEPT ![o] = @ + 1]
    /\ EndWrite(p, "credit")
    /\ UNCHANGED <<paymentStatus, row, paidOut, gatewayVars, worldVars,
                   disturbed, boundVars>>

CreditWallet(p) ==
    LET o == task[p].order IN
    /\ "credit" \in task[p].todo
    /\ wallet' = [wallet EXCEPT ![task[p].payee] = @ + RiderShare(o, task[p].rate)]
    /\ credits' = [credits EXCEPT ![o] = @ + 1]
    /\ EndWrite(p, "credit")
    /\ UNCHANGED <<paymentStatus, row, paidOut, gatewayVars, worldVars,
                   disturbed, boundVars>>

-----------------------------------------------------------------------------
(* AdminService.processPayout.  Only an amount above the balance is        *)
(* refused: parseFloat of what the admin sent may be zero, or below zero.  *)

ProcessPayout(p, r, amount) ==
    /\ ~Working(p)
    /\ payouts < MaxPayouts
    /\ amount <= wallet[r]
    /\ task' = [task EXCEPT ![p] = Payout(r, amount)]
    /\ payouts' = payouts + 1
    /\ UNCHANGED <<paymentStatus, bookVars, gatewayVars, worldVars, disturbed,
                   initiations, faults>>

CreatePayout(p) ==
    /\ "payout" \in task[p].todo
    /\ paidOut' = [paidOut EXCEPT ![task[p].payee] = @ + task[p].amount]
    /\ EndWrite(p, "payout")
    /\ UNCHANGED <<paymentStatus, row, wallet, credits, gatewayVars, worldVars,
                   disturbed, boundVars>>

DebitWallet(p) ==
    /\ "debit" \in task[p].todo
    /\ wallet' = [wallet EXCEPT ![task[p].payee] = @ - task[p].amount]
    /\ EndWrite(p, "debit")
    /\ UNCHANGED <<paymentStatus, row, paidOut, credits, gatewayVars, worldVars,
                   disturbed, boundVars>>

\* a column of the Payment table: an order without a row adds nothing to its sum
Column(field) == [o \in Order |-> IF row[o] = NoRow THEN 0 ELSE row[o][field]]

\* AdminService.getFinanceSummary: one aggregate over the Payment rows.
FinanceSummary ==
    [totalGtv |-> SumFunction(Column("gross")),
     totalCommission |-> SumFunction(Column("commission")),
     totalRiderPayouts |-> SumFunction(Column("payout")),
     totalPayments |-> Cardinality({o \in Order : row[o] # NoRow})]

-----------------------------------------------------------------------------
(* The rest of the system, as payments see it.                             *)

\* riderAccepted or reassignOrder writes Order.riderId
Assign(o, r) ==
    /\ assignee[o] # r
    /\ assignee[o] = NoRider \/ Reassigns
    /\ assignee' = [assignee EXCEPT ![o] = r]
    /\ UNCHANGED <<paymentStatus, bookVars, gatewayVars, subscribed, task,
                   disturbed, boundVars>>

\* a subscription begins, ends or expires
ToggleSubscription(r) ==
    /\ SubscriptionsVary
    /\ subscribed' = IF r \in subscribed THEN subscribed \ {r}
                                         ELSE subscribed \cup {r}
    /\ UNCHANGED <<paymentStatus, bookVars, gatewayVars, assignee, task,
                   disturbed, boundVars>>

\* An await that is alone throws, and so does its handler.
Fail(p) ==
    /\ task[p].pc \in PC \ {"idle", "write"}
    /\ faults < MaxFaults
    /\ faults' = faults + 1
    /\ disturbed' = disturbed \cup {task[p].order}
    /\ Finish(p)
    /\ UNCHANGED <<paymentStatus, bookVars, gatewayVars, worldVars,
                   initiations, payouts>>

\* One write of a Promise.all throws: the others still land.
WriteFails(p) ==
    /\ faults < MaxFaults
    /\ \E w \in task[p].todo : EndWrite(p, w)
    /\ faults' = faults + 1
    /\ disturbed' = disturbed \cup {task[p].order, task[p].payee}
    /\ UNCHANGED <<paymentStatus, bookVars, gatewayVars, worldVars,
                   initiations, payouts>>

Crash ==
    /\ faults < MaxFaults
    /\ \E p \in Proc : Working(p)
    /\ faults' = faults + 1
    /\ disturbed' = disturbed \cup {task[p].order : p \in Proc}
                              \cup {task[p].payee : p \in Proc}
    /\ task' = [p \in Proc |-> Idle]
    /\ UNCHANGED <<paymentStatus, bookVars, gatewayVars, worldVars,
                   initiations, payouts>>

-----------------------------------------------------------------------------
Init ==
    /\ paymentStatus = [o \in Order |-> "PENDING"]
    /\ assignee = [o \in Order |-> NoRider]
    /\ row = [o \in Order |-> NoRow]
    /\ wallet = [r \in Rider |-> 0]
    /\ paidOut = [r \in Rider |-> 0]
    /\ subscribed \in SUBSET Rider
    /\ links = [o \in Order |-> 0]
    /\ charges = [o \in Order |-> 0]
    /\ task = [p \in Proc |-> Idle]
    /\ credits = [o \in Order |-> 0]
    /\ disturbed = {}
    /\ initiations = 0
    /\ payouts = 0
    /\ faults = 0

\* the next await of the handler that runs in slot p
Step(p) ==
    \/ Authorize(p) \/ NoteReference(p) \/ ReadRate(p) \/ ReadAgain(p)
    \/ WriteRow(p) \/ CaptureOrder(p) \/ CreditWallet(p)
    \/ CreatePayout(p) \/ DebitWallet(p)

Deliver(o) == \E p \in Proc : PaystackWebhook(p, o) \/ OpayWebhook(p, o)

Call ==
    \/ \E p \in Proc, o \in Order : InitiatePayment(p, o) \/ ConfirmCash(p, o)
    \/ \E p \in Proc, r \in Rider, amount \in PayoutAmounts :
         ProcessPayout(p, r, amount)

Environment ==
    \/ \E o \in Order : Pay(o)
    \/ \E o \in Order, r \in Rider : Assign(o, r)
    \/ \E r \in Rider : ToggleSubscription(r)

Next ==
    \/ Call
    \/ \E o \in Order : Deliver(o)
    \/ \E p \in Proc : Step(p) \/ Fail(p) \/ WriteFails(p)
    \/ Environment
    \/ Crash

Spec == Init /\ [][Next]_vars

\* Handlers that have started go on, and the gateways repeat the event of a
\* charge until it is acknowledged.
Fairness ==
    /\ \A p \in Proc : WF_vars(Step(p))
    /\ \A o \in Order : WF_vars(Deliver(o))

FairSpec == Spec /\ Fairness

-----------------------------------------------------------------------------
(* What payments keep to.                                                  *)

TypeOK ==
    /\ paymentStatus \in [Order -> {"PENDING", "AUTHORIZED", "CAPTURED"}]
    /\ assignee \in [Order -> Rider \cup {NoRider}]
    /\ row \in [Order -> Row \cup {NoRow}]
    /\ wallet \in [Rider -> Int]
    /\ paidOut \in [Rider -> Int]
    /\ subscribed \subseteq Rider
    /\ links \in [Order -> Nat] /\ charges \in [Order -> Nat]
    /\ task \in [Proc -> Task]
    /\ credits \in [Order -> Nat]
    /\ disturbed \subseteq Order \cup Rider \cup {NoOrder, NoRider}
    /\ initiations \in 0..MaxInitiations
    /\ payouts \in 0..MaxPayouts
    /\ faults \in 0..MaxFaults

Writing(o) == \E p \in Proc : task[p].order = o /\ task[p].pc = "write"

Booked(o) == /\ row[o] # NoRow
             /\ row[o].gross = Gross(o)
             /\ row[o].commission + row[o].payout = row[o].gross

\* Whatever other handlers of the order do, once splitAndCredit has captured a
\* payment its Payment row holds the whole price, split between the platform
\* and the rider: the row of a reference (handlePaystackWebhook) never replaces
\* it.  A write that fails is the exception: see EarningsAreCredited.
CapturedIsBooked ==
    \A o \in Order \ disturbed :
        paymentStatus[o] = "CAPTURED" /\ ~Writing(o) => Booked(o)

CapturedPrices ==
    [o \in Order |-> IF paymentStatus[o] = "CAPTURED" THEN Gross(o) ELSE 0]

\* When no handler runs, wallets, Payment rows and the admin's summary tell one
\* story: what the riders have and have been paid out is what the rows say they
\* earned (the amount splitAndCredit adds to a wallet is the one it writes down,
\* and processPayout debits what it records), and the summary is of the orders
\* captured, whose price is divided without a rest.  For handlers that run one at
\* a time and do not fail.
WalletsMatchBooks ==
    (\A p \in Proc : ~Working(p)) =>
        /\ SumFunction([r \in Rider |-> wallet[r] + paidOut[r]])
             = FinanceSummary.totalRiderPayouts
        /\ FinanceSummary.totalGtv = SumFunction(CapturedPrices)
        /\ FinanceSummary.totalCommission + FinanceSummary.totalRiderPayouts
             = FinanceSummary.totalGtv
        /\ FinanceSummary.totalPayments
             = Cardinality({o \in Order : paymentStatus[o] = "CAPTURED"})

\* The writes of a handler that still runs, undone: the ledger has an order
\* settled, and a balance changed, when the last write of a Promise.all lands.
SettledOrders ==
    [o \in Order |-> paymentStatus[o] = "CAPTURED" /\ ~Writing(o)]

EarlyCredit(t) ==
    IF t.pc = "write" /\ t.order # NoOrder /\ "credit" \notin t.todo
    THEN RiderShare(t.order, t.rate) ELSE 0

EarlyDebit(t) ==
    IF t.pc = "write" /\ t.order = NoOrder /\ "debit" \notin t.todo THEN t.amount ELSE 0

\* the handler that pays rider r; the mapping is for handlers one at a time
Payer(r) ==
    IF \E p \in Proc : task[p].payee = r
    THEN task[CHOOSE p \in Proc : task[p].payee = r] ELSE Idle

Balances ==
    [r \in Rider |-> wallet[r] + EarlyDebit(Payer(r)) - EarlyCredit(Payer(r))]

Books == INSTANCE Ledger WITH settled <- SettledOrders, balance <- Balances,
                              Rates <- {PLATFORM_RATE, SUBSCRIPTION_PLATFORM_RATE},
                              Amounts <- PayoutAmounts

\* When handlers run one at a time and do not fail, payments implement Ledger:
\* however often a gateway delivers an event, an order is settled once, with
\* one rider and at one of the two rates, and a payout, of whatever amount,
\* never exceeds what the rider is owed.
SettlesOnce == Books!Spec

\* A charge the gateway made is captured in the end, through faults of the
\* server and handlers that are in each other's way, since the gateway repeats
\* its event and both webhooks take an order in any status but CAPTURED.
PaidIsCaptured ==
    \A o \in Order : charges[o] > 0 ~> paymentStatus[o] = "CAPTURED"

-----------------------------------------------------------------------------
(* What the repository says of payments, and the code does not keep.       *)

\* README: the rider's net earnings are credited to the wallet.  Once an order
\* is captured and none of its handlers runs, somebody has been credited.
EarningsAreCredited ==
    \A o \in Order :
        paymentStatus[o] = "CAPTURED" /\ (\A p \in Proc : task[p].order # o)
          => credits[o] > 0

\* 'Payment already captured': the earnings of an order are credited once.
CreditedOnce == \A o \in Order : credits[o] <= 1

=============================================================================
