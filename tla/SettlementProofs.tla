-------------------------- MODULE SettlementProofs --------------------------
(* Proofs about Settlement, for every set of orders, riders and handlers,  *)
(* every price, and every number of faults.                                *)
EXTENDS Settlement, FiniteSetTheorems, WellFoundedInduction, TLAPS

USE OrderAssumption, NoneAssumption, PriceAssumption, MethodAssumption,
    AmountAssumption, BoundAssumption, RowAssumption

-----------------------------------------------------------------------------
(* Type correctness, with the handlers' local variables.                   *)

Rates == {PLATFORM_RATE, SUBSCRIPTION_PLATFORM_RATE}

\* The local variables of a handler fit the await it is at.
LocalsOK(t) ==
    /\ t.pc \in {"authorize", "note", "rate", "reread"} => t.order \in Order
    /\ t.pc # "write" => t.todo = {}
    /\ t.pc = "reread" => t.rate \in Rates
    /\ t.todo \cap {"row", "status", "credit"} # {} =>
         t.order \in Order /\ t.rate \in Rates
    /\ t.todo \cap {"credit", "payout", "debit"} # {} => t.payee \in Rider

TypeInv == TypeOK /\ \A p \in Proc : LocalsOK(task[p])

\* The two shares of a price add up to it, and neither is negative.
LEMMA SharesAddUp ==
    ASSUME NEW o \in Order, NEW rate \in Rates
    PROVE  /\ Gross(o) \in Nat /\ Commission(o, rate) \in Nat
           /\ RiderShare(o, rate) \in Nat
           /\ Commission(o, rate) + RiderShare(o, rate) = Gross(o)
<1>1. Price[o] \in Nat
  OBVIOUS
<1>2. CASE rate = 15
  BY <1>1, <1>2 DEF Gross, Commission, RiderShare
<1>3. CASE rate = 5
  BY <1>1, <1>3 DEF Gross, Commission, RiderShare
<1> QED
  BY <1>2, <1>3 DEF Rates, PLATFORM_RATE, SUBSCRIPTION_PLATFORM_RATE

\* A handler's step replaces the record of its slot; what TypeInv says of
\* handlers then rests on the new record alone.
LEMMA OneTaskChanges ==
    ASSUME task \in [Proc -> Task], \A q \in Proc : LocalsOK(task[q]),
           NEW p \in Proc, NEW t \in Task, LocalsOK(t),
           task' = [task EXCEPT ![p] = t]
    PROVE  task' \in [Proc -> Task] /\ \A q \in Proc : LocalsOK(task[q])'
OBVIOUS

\* A slot without a handler is well typed.
LEMMA IdleType == Idle \in Task /\ LocalsOK(Idle)
BY DEF Idle, Task, PC, Writes, LocalsOK

\* A handler that returns leaves its slot idle.
LEMMA FinishType ==
    ASSUME task \in [Proc -> Task], \A q \in Proc : LocalsOK(task[q]),
           NEW p \in Proc, Finish(p)
    PROVE  task' \in [Proc -> Task] /\ \A q \in Proc : LocalsOK(task[q])'
BY IdleType, OneTaskChanges DEF Finish

\* A payment's handler starts at an await that its local variables fit.
LEMMA BeginType ==
    ASSUME task \in [Proc -> Task], \A q \in Proc : LocalsOK(task[q]),
           NEW p \in Proc, NEW pc \in {"authorize", "note", "rate"},
           NEW o \in Order, NEW r \in Rider \cup {NoRider}, Begin(p, pc, o, r)
    PROVE  task' \in [Proc -> Task] /\ \A q \in Proc : LocalsOK(task[q])'
<1>1. Payment(pc, o, r) \in Task
  BY DEF Payment, Task, PC, Writes
<1>2. LocalsOK(Payment(pc, o, r))
  BY DEF Payment, LocalsOK
<1> QED
  BY <1>1, <1>2, OneTaskChanges DEF Begin

\* A write that ends leaves the others in flight.
LEMMA EndWriteType ==
    ASSUME task \in [Proc -> Task], \A q \in Proc : LocalsOK(task[q]),
           NEW p \in Proc, NEW w \in task[p].todo, EndWrite(p, w)
    PROVE  task' \in [Proc -> Task] /\ \A q \in Proc : LocalsOK(task[q])'
<1>0. task[p] \in Task /\ LocalsOK(task[p])
  OBVIOUS
<1>1. CASE task[p].todo = {w}
  BY <1>1, FinishType DEF EndWrite
<1>2. CASE task[p].todo # {w}
  <2> DEFINE u == [task[p] EXCEPT !.todo = @ \ {w}]
  <2>1. /\ u \in Task /\ u.pc = task[p].pc /\ u.order = task[p].order
        /\ u.rate = task[p].rate /\ u.payee = task[p].payee
        /\ u.todo \subseteq task[p].todo
    BY <1>0 DEF Task
  <2>2. LocalsOK(u)
    BY <1>0, <2>1 DEF LocalsOK
  <2>3. task' = [task EXCEPT ![p] = u]
    BY <1>2 DEF EndWrite
  <2> QED
    BY <2>1, <2>2, <2>3, OneTaskChanges
<1> QED
  BY <1>1, <1>2

\* The system starts well typed, with no handler running.
LEMMA InitType == Init => TypeInv
BY IdleType DEF Init, TypeInv, TypeOK

\* No call, webhook, await or fault of payments breaks a type.
LEMMA TypeStep == TypeInv /\ [Next]_vars => TypeInv'
<1> SUFFICES ASSUME TypeInv, [Next]_vars
             PROVE  TypeInv'
  OBVIOUS
<1>0. /\ TypeOK /\ task \in [Proc -> Task]
      /\ \A p \in Proc : LocalsOK(task[p]) /\ task[p] \in Task
  BY DEF TypeInv, TypeOK
<1> DEFINE Tasks == task' \in [Proc -> Task] /\ \A q \in Proc : LocalsOK(task[q])'
<1> USE DEF bookVars, gatewayVars, worldVars, boundVars
<1>1. ASSUME NEW p \in Proc, NEW o \in Order, InitiatePayment(p, o)
      PROVE  TypeInv'
  <2>1. Tasks
    BY <1>0, <1>1, BeginType DEF InitiatePayment
  <2> QED
    BY <1>0, <1>1, <2>1 DEF InitiatePayment, TypeInv, TypeOK
<1>2. ASSUME NEW p \in Proc, NEW o \in Order, ConfirmCash(p, o)
      PROVE  TypeInv'
  <2>1. Tasks
    BY <1>0, <1>2, BeginType DEF ConfirmCash, TypeOK
  <2> QED
    BY <1>0, <1>2, <2>1 DEF ConfirmCash, TypeInv, TypeOK
<1>3. ASSUME NEW p \in Proc, NEW o \in Order,
             PaystackWebhook(p, o) \/ OpayWebhook(p, o)
      PROVE  TypeInv'
  <2>1. Tasks
    BY <1>0, <1>3, BeginType DEF PaystackWebhook, OpayWebhook, TypeOK
  <2> QED
    BY <1>0, <1>3, <2>1 DEF PaystackWebhook, OpayWebhook, TypeInv, TypeOK
<1>4. ASSUME NEW p \in Proc, NEW r \in Rider, NEW amount \in PayoutAmounts,
             ProcessPayout(p, r, amount)
      PROVE  TypeInv'
  <2>1. Payout(r, amount) \in Task /\ LocalsOK(Payout(r, amount))
    BY DEF Payout, Task, PC, Writes, LocalsOK
  <2>2. Tasks
    BY <1>0, <1>4, <2>1, OneTaskChanges DEF ProcessPayout
  <2> QED
    BY <1>0, <1>4, <2>2 DEF ProcessPayout, TypeInv, TypeOK
<1>5. ASSUME NEW p \in Proc, Authorize(p)
      PROVE  TypeInv'
  <2>1. Tasks /\ task[p].order \in Order
    BY <1>0, <1>5, FinishType DEF Authorize, LocalsOK
  <2>2. links' \in [Order -> Nat]
    BY <1>0, <1>5, <2>1 DEF Authorize, TypeOK
  <2> QED
    BY <1>0, <1>5, <2>1, <2>2 DEF Authorize, TypeInv, TypeOK
<1>6. ASSUME NEW p \in Proc, NoteReference(p)
      PROVE  TypeInv'
  <2> DEFINE t == [task[p] EXCEPT !.pc = "rate"]
  <2>1. t \in Task /\ LocalsOK(t) /\ task[p].order \in Order
    BY <1>0, <1>6 DEF NoteReference, Task, PC, LocalsOK
  <2>2. task' = [task EXCEPT ![p] = t]
    BY <1>6 DEF NoteReference
  <2>3. Tasks
    BY <1>0, <2>1, <2>2, OneTaskChanges
  <2>4. row' \in [Order -> Row \cup {NoRow}]
    BY <1>0, <1>6, <2>1 DEF NoteReference, TypeOK, Row
  <2> QED
    BY <1>0, <1>6, <2>3, <2>4 DEF NoteReference, TypeInv, TypeOK
<1>7. ASSUME NEW p \in Proc, ReadRate(p)
      PROVE  TypeInv'
  <2> DEFINE t == [task[p] EXCEPT !.pc = "reread", !.rate = RateOf(task[p].rider)]
  <2>1. RateOf(task[p].rider) \in Rates /\ RateOf(task[p].rider) \in Nat
    BY DEF RateOf, Rates, PLATFORM_RATE, SUBSCRIPTION_PLATFORM_RATE
  <2>5. t \in Task
    BY <1>0, <1>7, <2>1 DEF ReadRate, Task, PC
  <2>6. LocalsOK(t)
    BY <1>0, <1>7, <2>1 DEF ReadRate, Task, LocalsOK
  <2>2. t \in Task /\ LocalsOK(t)
    BY <2>5, <2>6
  <2>3. task' = [task EXCEPT ![p] = t]
    BY <1>7 DEF ReadRate
  <2>4. Tasks
    BY <1>0, <2>2, <2>3, OneTaskChanges
  <2> QED
    BY <1>0, <1>7, <2>4 DEF ReadRate, TypeInv, TypeOK
<1>8. ASSUME NEW p \in Proc, ReadAgain(p)
      PROVE  TypeInv'
  <2> DEFINE r == assignee[task[p].order]
             do == {"row", "status"} \cup IF r # NoRider THEN {"credit"} ELSE {}
             t == [task[p] EXCEPT !.pc = "write", !.payee = r, !.todo = do]
  <2>1. task[p].order \in Order /\ r \in Rider \cup {NoRider}
    BY <1>0, <1>8 DEF ReadAgain, LocalsOK, TypeOK
  <2>2. do \subseteq Writes /\ ("credit" \in do => r \in Rider)
        /\ "payout" \notin do /\ "debit" \notin do
    BY <2>1 DEF Writes
  <2> HIDE DEF do, r
  <2>3. /\ t \in Task /\ t.pc = "write" /\ t.order = task[p].order
        /\ t.rate = task[p].rate /\ t.payee = r /\ t.todo = do
    BY <1>0, <2>1, <2>2 DEF Task, PC
  <2>4. LocalsOK(t)
    BY <1>0, <1>8, <2>1, <2>2, <2>3 DEF ReadAgain, LocalsOK
  <2>5. task' = [task EXCEPT ![p] = t]
    BY <1>8 DEF ReadAgain, do, r
  <2>6. Tasks
    BY <1>0, <2>3, <2>4, <2>5, OneTaskChanges
  <2> QED
    BY <1>0, <1>8, <2>6 DEF ReadAgain, TypeInv, TypeOK
<1>9. ASSUME NEW p \in Proc, WriteRow(p)
      PROVE  TypeInv'
  <2>1. Tasks /\ task[p].order \in Order /\ task[p].rate \in Rates
    BY <1>0, <1>9, EndWriteType DEF WriteRow, LocalsOK
  <2>2. row' \in [Order -> Row \cup {NoRow}]
    BY <1>0, <1>9, <2>1, SharesAddUp DEF WriteRow, TypeOK, Row
  <2> QED
    BY <1>0, <1>9, <2>1, <2>2 DEF WriteRow, TypeInv, TypeOK
<1>10. ASSUME NEW p \in Proc, CaptureOrder(p)
       PROVE  TypeInv'
  <2>1. Tasks
    BY <1>0, <1>10, EndWriteType DEF CaptureOrder
  <2> QED
    BY <1>0, <1>10, <2>1 DEF CaptureOrder, TypeInv, TypeOK
<1>11. ASSUME NEW p \in Proc, CreditWallet(p)
       PROVE  TypeInv'
  <2>1. /\ Tasks /\ task[p].order \in Order /\ task[p].rate \in Rates
        /\ task[p].payee \in Rider
    BY <1>0, <1>11, EndWriteType DEF CreditWallet, LocalsOK
  <2>2. RiderShare(task[p].order, task[p].rate) \in Int
    BY <2>1, SharesAddUp
  <2>3. wallet' \in [Rider -> Int]
    BY <1>0, <1>11, <2>1, <2>2 DEF CreditWallet, TypeOK
  <2>4. credits' \in [Order -> Nat]
    BY <1>0, <1>11, <2>1 DEF CreditWallet, TypeOK
  <2> QED
    BY <1>0, <1>11, <2>1, <2>3, <2>4 DEF CreditWallet, TypeInv, TypeOK
<1>12. ASSUME NEW p \in Proc, CreatePayout(p)
       PROVE  TypeInv'
  <2>1. Tasks /\ task[p].payee \in Rider /\ task[p].amount \in Int
    BY <1>0, <1>12, EndWriteType DEF CreatePayout, LocalsOK, Task
  <2>2. paidOut' \in [Rider -> Int]
    BY <1>0, <1>12, <2>1 DEF CreatePayout, TypeOK
  <2> QED
    BY <1>0, <1>12, <2>1, <2>2 DEF CreatePayout, TypeInv, TypeOK
<1>13. ASSUME NEW p \in Proc, DebitWallet(p)
       PROVE  TypeInv'
  <2>1. Tasks /\ task[p].payee \in Rider /\ task[p].amount \in Int
    BY <1>0, <1>13, EndWriteType DEF DebitWallet, LocalsOK, Task
  <2>2. wallet' \in [Rider -> Int]
    BY <1>0, <1>13, <2>1 DEF DebitWallet, TypeOK
  <2> QED
    BY <1>0, <1>13, <2>1, <2>2 DEF DebitWallet, TypeInv, TypeOK
<1>14. ASSUME NEW p \in Proc, Fail(p)
       PROVE  TypeInv'
  <2>1. Tasks
    BY <1>0, <1>14, FinishType DEF Fail
  <2> QED
    BY <1>0, <1>14, <2>1 DEF Fail, TypeInv, TypeOK, Task
<1>15. ASSUME NEW p \in Proc, WriteFails(p)
       PROVE  TypeInv'
  <2>1. Tasks
    BY <1>0, <1>15, EndWriteType DEF WriteFails
  <2> QED
    BY <1>0, <1>15, <2>1 DEF WriteFails, TypeInv, TypeOK, Task
<1>16. ASSUME NEW o \in Order, Pay(o)
       PROVE  TypeInv'
  BY <1>0, <1>16 DEF Pay, TypeInv, TypeOK
<1>17. ASSUME NEW o \in Order, NEW r \in Rider, Assign(o, r)
       PROVE  TypeInv'
  BY <1>0, <1>17 DEF Assign, TypeInv, TypeOK
<1>18. ASSUME NEW r \in Rider, ToggleSubscription(r)
       PROVE  TypeInv'
  BY <1>0, <1>18 DEF ToggleSubscription, TypeInv, TypeOK
<1>19. ASSUME Crash
       PROVE  TypeInv'
  <2>1. Tasks
    BY <1>19, IdleType DEF Crash
  <2> QED
    BY <1>0, <1>19, <2>1 DEF Crash, TypeInv, TypeOK, Task
<1>20. CASE UNCHANGED vars
  BY <1>0, <1>20 DEF vars, TypeInv, TypeOK
<1> QED
  BY <1>1, <1>2, <1>3, <1>4, <1>5, <1>6, <1>7, <1>8, <1>9, <1>10, <1>11, <1>12,
     <1>13, <1>14, <1>15, <1>16, <1>17, <1>18, <1>19, <1>20
  DEF Next, Call, Deliver, Step, Environment

\* Every variable keeps its type; a handler's locals fit its await.
LEMMA TypeHolds == Spec => []TypeInv
BY InitType, TypeStep, PTL DEF Spec

\* Whatever handlers, gateways and faults do, every variable keeps its type: the
\* counters of the gateway and the rows of the books stay natural numbers.
THEOREM TypeCorrect == Spec => []TypeOK
<1>1. TypeInv => TypeOK
  BY DEF TypeInv
<1> QED
  BY TypeHolds, <1>1, PTL

-----------------------------------------------------------------------------
(* CapturedIsBooked.  It is not inductive: the status may land while the   *)
(* row is still being written, and the handler that writes the status has  *)
(* perhaps written the row already.  So, for an order without faults:      *)
(*   - a handler that writes it has the row before it, or has written it;  *)
(*   - when it is captured, the row is written, or some handler will.      *)

RowPending(o) == \E p \in Proc : task[p].order = o /\ "row" \in task[p].todo

OrderBooked(o) ==
    /\ \A p \in Proc : task[p].order = o /\ task[p].pc = "write"
                         => "row" \in task[p].todo \/ Booked(o)
    /\ paymentStatus[o] = "CAPTURED" => Booked(o) \/ RowPending(o)

BookInv == \A o \in Order \ disturbed : OrderBooked(o)

\* What a change of one slot must keep to for the order to stay booked.
LEMMA OneSlotKeepsBooks ==
    ASSUME task \in [Proc -> Task], NEW o \in Order, OrderBooked(o),
           NEW p \in Proc, NEW t, task' = [task EXCEPT ![p] = t],
           Booked(o) => Booked(o)',
           t.order = o /\ t.pc = "write" => "row" \in t.todo \/ Booked(o)',
           task[p].order = o /\ "row" \in task[p].todo =>
             (t.order = o /\ "row" \in t.todo) \/ Booked(o)',
           paymentStatus'[o] = "CAPTURED" =>
             \/ paymentStatus[o] = "CAPTURED"
             \/ Booked(o)'
             \/ t.order = o /\ "row" \in t.todo
    PROVE  OrderBooked(o)'
<1>1. task'[p] = t /\ \A q \in Proc \ {p} : task'[q] = task[q]
  OBVIOUS
<1>2. ASSUME NEW q \in Proc, task'[q].order = o, task'[q].pc = "write"
      PROVE  "row" \in task'[q].todo \/ Booked(o)'
  BY <1>1, <1>2 DEF OrderBooked
<1>3. t.order = o /\ "row" \in t.todo => RowPending(o)'
  BY <1>1 DEF RowPending
<1>4. RowPending(o) => Booked(o)' \/ RowPending(o)'
  <2> SUFFICES ASSUME NEW q \in Proc, task[q].order = o, "row" \in task[q].todo
               PROVE  Booked(o)' \/ RowPending(o)'
    BY DEF RowPending
  <2>1. CASE q = p
    BY <1>3, <2>1
  <2>2. CASE q # p
    BY <1>1, <2>2 DEF RowPending
  <2> QED
    BY <2>1, <2>2
<1> QED
  BY <1>2, <1>3, <1>4 DEF OrderBooked

\* When a write ends, the slot holds the writes that are left, of the same order.
LEMMA OtherWriteEnds ==
    ASSUME task \in [Proc -> Task], NEW p \in Proc, NEW w \in task[p].todo,
           EndWrite(p, w)
    PROVE  \E t : /\ task' = [task EXCEPT ![p] = t]
                  /\ t.todo = task[p].todo \ {w}
                  /\ t.todo # {} \/ t.pc = "write" => t.order = task[p].order
<1>0. task[p] \in Task
  OBVIOUS
<1>1. CASE task[p].todo = {w}
  <2>1. task' = [task EXCEPT ![p] = Idle]
    BY <1>1 DEF EndWrite, Finish
  <2>2. Idle.pc # "write" /\ Idle.todo = {}
    BY DEF Idle
  <2> QED
    BY <1>1, <2>1, <2>2
<1>2. CASE task[p].todo # {w}
  <2> DEFINE u == [task[p] EXCEPT !.todo = @ \ {w}]
  <2>1. /\ u.pc = task[p].pc /\ u.order = task[p].order
        /\ u.todo = task[p].todo \ {w}
    BY <1>0 DEF Task
  <2>2. task' = [task EXCEPT ![p] = u]
    BY <1>2 DEF EndWrite
  <2> HIDE DEF u
  <2> QED
    BY <2>1, <2>2
<1> QED
  BY <1>1, <1>2

\* A row that splitAndCredit writes holds the price and its two shares.
LEMMA WrittenIsBooked ==
    ASSUME TypeInv, NEW p \in Proc, WriteRow(p), NEW i, i = task[p].order
    PROVE  Booked(i)'
<1> DEFINE rate == task[p].rate
           new == [gross |-> Gross(i), commission |-> Commission(i, rate),
                   payout |-> RiderShare(i, rate)]
<1>1. i \in Order /\ rate \in Rates
  BY DEF TypeInv, LocalsOK, WriteRow
<1>2. row \in [Order -> Row \cup {NoRow}] /\ row' = [row EXCEPT ![i] = new]
  BY DEF TypeInv, TypeOK, WriteRow
<1>3. new \in Row /\ new.commission + new.payout = new.gross
  BY <1>1, SharesAddUp DEF Row
<1>4. row'[i] = new
  BY <1>1, <1>2
<1> QED
  BY <1>1, <1>3, <1>4 DEF Booked, Gross

\* Once the row of an order holds the whole price, it stays so: a reference
\* keeps it, and splitAndCredit writes a row that adds up.
LEMMA BookedStays ==
    ASSUME TypeInv, NEW o \in Order, Booked(o),
           \/ UNCHANGED row
           \/ \E p \in Proc : NoteReference(p) \/ WriteRow(p)
    PROVE  Booked(o)'
<1>0. row \in [Order -> Row \cup {NoRow}] /\ row[o] # NoRow
  BY DEF TypeInv, TypeOK, Booked
<1>1. CASE UNCHANGED row
  BY <1>1 DEF Booked, Gross
<1>2. ASSUME NEW p \in Proc, NoteReference(p)
      PROVE  Booked(o)'
  <2>1. row'[o] = row[o]
    BY <1>0, <1>2 DEF NoteReference
  <2> QED
    BY <2>1 DEF Booked, Gross
<1>3. ASSUME NEW p \in Proc, WriteRow(p)
      PROVE  Booked(o)'
  <2>1. CASE task[p].order # o
    BY <1>0, <1>3, <2>1 DEF WriteRow, Booked, Gross
  <2>2. CASE task[p].order = o
    BY <1>3, <2>2, WrittenIsBooked
  <2> QED
    BY <2>1, <2>2
<1> QED
  BY <1>1, <1>2, <1>3

\* Every step keeps the books of the orders that no fault touches.
LEMMA BookStep == TypeInv /\ BookInv /\ [Next]_vars => BookInv'
<1> SUFFICES ASSUME TypeInv, BookInv, [Next]_vars,
                    NEW o \in Order \ disturbed'
             PROVE  OrderBooked(o)'
  BY DEF BookInv
<1>0. /\ TypeOK /\ task \in [Proc -> Task] /\ o \in Order
      /\ paymentStatus \in [Order -> {"PENDING", "AUTHORIZED", "CAPTURED"}]
      /\ \A p \in Proc : LocalsOK(task[p]) /\ task[p] \in Task
      /\ \A p \in Proc : task[p].pc # "write" => task[p].todo = {}
  BY DEF TypeInv, TypeOK, LocalsOK
<1> USE DEF bookVars, gatewayVars, worldVars, boundVars
<1>d. o \notin disturbed /\ OrderBooked(o)
  <2>1. disturbed \subseteq disturbed'
    BY DEF Next, Call, Deliver, Step, Environment, InitiatePayment, ConfirmCash,
       ProcessPayout, PaystackWebhook, OpayWebhook, Authorize, NoteReference,
       ReadRate, ReadAgain, WriteRow, CaptureOrder, CreditWallet, CreatePayout,
       DebitWallet, Fail, WriteFails, Pay, Assign, ToggleSubscription, Crash, vars
  <2> QED
    BY <2>1 DEF BookInv
<1>1. ASSUME NEW p \in Proc, NEW i \in Order,
             \/ InitiatePayment(p, i) \/ ConfirmCash(p, i)
             \/ PaystackWebhook(p, i) \/ OpayWebhook(p, i)
      PROVE  OrderBooked(o)'
  <2>1. PICK pc \in PC \ {"write"}, r \in Rider \cup {NoRider} : Begin(p, pc, i, r)
    BY <1>0, <1>1 DEF InitiatePayment, ConfirmCash, PaystackWebhook, OpayWebhook,
       PC, TypeOK
  <2>2. task[p].todo = {} /\ UNCHANGED <<row, paymentStatus>>
    BY <1>1 DEF InitiatePayment, ConfirmCash, PaystackWebhook, OpayWebhook,
       Working, Idle
  <2>3. /\ task' = [task EXCEPT ![p] = Payment(pc, i, r)]
        /\ Payment(pc, i, r).pc # "write"
    BY <2>1 DEF Begin, Payment
  <2> QED
    BY <1>0, <1>d, <2>2, <2>3, BookedStays, OneSlotKeepsBooks
<1>2. ASSUME NEW p \in Proc, NEW r \in Rider, NEW amount \in PayoutAmounts,
             ProcessPayout(p, r, amount)
      PROVE  OrderBooked(o)'
  <2>1. /\ task' = [task EXCEPT ![p] = Payout(r, amount)]
        /\ Payout(r, amount).order # o
    BY <1>0, <1>2 DEF ProcessPayout, Payout
  <2>2. task[p].todo = {} /\ UNCHANGED <<row, paymentStatus>>
    BY <1>2 DEF ProcessPayout, Working, Idle
  <2> QED
    BY <1>0, <1>d, <2>1, <2>2, BookedStays, OneSlotKeepsBooks
<1>3. ASSUME NEW p \in Proc,
             Authorize(p) \/ NoteReference(p) \/ ReadRate(p) \/ Fail(p)
      PROVE  OrderBooked(o)'
  <2>1. PICK t : /\ task' = [task EXCEPT ![p] = t]
                 /\ t.pc # "write"
    BY <1>0, <1>3 DEF Authorize, NoteReference, ReadRate, Fail, Finish, Idle, Task
  <2>2. task[p].todo = {} /\ (Booked(o) => Booked(o)')
    BY <1>0, <1>3, BookedStays DEF Authorize, NoteReference, ReadRate, Fail
  <2>3. paymentStatus'[o] = "CAPTURED" => paymentStatus[o] = "CAPTURED"
    BY <1>0, <1>3 DEF Authorize, NoteReference, ReadRate, Fail
  <2> QED
    BY <1>0, <1>d, <1>3, <2>1, <2>2, <2>3, BookedStays, OneSlotKeepsBooks
<1>4. ASSUME NEW p \in Proc, ReadAgain(p)
      PROVE  OrderBooked(o)'
  <2>1. PICK t : /\ task' = [task EXCEPT ![p] = t]
                 /\ "row" \in t.todo
    <3> DEFINE r == assignee[task[p].order]
               do == {"row", "status"} \cup IF r # NoRider THEN {"credit"} ELSE {}
               t == [task[p] EXCEPT !.pc = "write", !.payee = r, !.todo = do]
    <3>1. "row" \in do
      OBVIOUS
    <3>2. task' = [task EXCEPT ![p] = t]
      BY <1>4 DEF ReadAgain
    <3> HIDE DEF do, r
    <3>3. t.todo = do
      BY <1>0 DEF Task
    <3> QED
      BY <3>1, <3>2, <3>3
  <2>2. task[p].todo = {} /\ UNCHANGED <<row, paymentStatus>>
    BY <1>0, <1>4 DEF ReadAgain
  <2> QED
    BY <1>0, <1>d, <2>1, <2>2, BookedStays, OneSlotKeepsBooks
<1>5. ASSUME NEW p \in Proc, WriteRow(p)
      PROVE  OrderBooked(o)'
  <2>1. CASE task[p].order = o
    <3>1. Booked(o)'
      BY <1>5, <2>1, WrittenIsBooked
    <3> QED
      BY <3>1 DEF OrderBooked
  <2>2. CASE task[p].order # o
    <3>1. PICK t : /\ task' = [task EXCEPT ![p] = t]
                   /\ t.todo # {} \/ t.pc = "write" => t.order = task[p].order
      BY <1>0, <1>5, OtherWriteEnds DEF WriteRow
    <3>2. UNCHANGED paymentStatus
      BY <1>5 DEF WriteRow
    <3> QED
      BY <1>0, <1>d, <1>5, <2>2, <3>1, <3>2, BookedStays, OneSlotKeepsBooks
  <2> QED
    BY <2>1, <2>2
<1>6. ASSUME NEW p \in Proc, NEW w \in task[p].todo, EndWrite(p, w),
             UNCHANGED row,
             w # "row" \/ task[p].order # o,
             \/ UNCHANGED paymentStatus
             \/ paymentStatus' = [paymentStatus EXCEPT ![task[p].order] = "CAPTURED"]
      PROVE  OrderBooked(o)'
  <2>1. PICK t : /\ task' = [task EXCEPT ![p] = t]
                 /\ t.todo = task[p].todo \ {w}
                 /\ t.todo # {} \/ t.pc = "write" => t.order = task[p].order
    BY <1>0, <1>6, OtherWriteEnds
  <2>2. Booked(o) => Booked(o)'
    BY <1>6, BookedStays
  <2>3. task[p].order = o => "row" \in t.todo \/ Booked(o)
    BY <1>0, <1>d, <1>6, <2>1 DEF OrderBooked
  <2>4. t.order = o /\ t.pc = "write" => "row" \in t.todo \/ Booked(o)'
    BY <2>1, <2>2, <2>3
  <2>5. task[p].order = o /\ "row" \in task[p].todo =>
          (t.order = o /\ "row" \in t.todo) \/ Booked(o)'
    BY <1>6, <2>1
  <2>6. paymentStatus'[o] = "CAPTURED" =>
          \/ paymentStatus[o] = "CAPTURED"
          \/ Booked(o)'
          \/ t.order = o /\ "row" \in t.todo
    BY <1>0, <1>6, <2>1, <2>2, <2>3
  <2> QED
    BY <1>0, <1>d, <2>1, <2>2, <2>4, <2>5, <2>6, OneSlotKeepsBooks
<1>7. ASSUME NEW p \in Proc,
             CaptureOrder(p) \/ CreditWallet(p) \/ CreatePayout(p) \/ DebitWallet(p)
      PROVE  OrderBooked(o)'
  BY <1>6, <1>7 DEF CaptureOrder, CreditWallet, CreatePayout, DebitWallet
<1>8. ASSUME NEW p \in Proc, WriteFails(p)
      PROVE  OrderBooked(o)'
  <2>1. task[p].order # o /\ UNCHANGED <<row, paymentStatus>>
    BY <1>8 DEF WriteFails
  <2> QED
    BY <1>6, <1>8, <2>1 DEF WriteFails
<1>9. CASE Crash
  <2>1. /\ task' = [p \in Proc |-> Idle] /\ UNCHANGED <<row, paymentStatus>>
        /\ ~RowPending(o)
    BY <1>9 DEF Crash, RowPending
  <2>2. Booked(o) => Booked(o)'
    BY <2>1, BookedStays
  <2> QED
    BY <1>d, <2>1, <2>2 DEF OrderBooked, Idle
<1>10. CASE UNCHANGED <<row, paymentStatus, task>>
  BY <1>d, <1>10 DEF OrderBooked, RowPending, Booked, Gross
<1>11. CASE Environment \/ UNCHANGED vars
  BY <1>10, <1>11 DEF Environment, Pay, Assign, ToggleSubscription, vars
<1> QED
  BY <1>1, <1>2, <1>3, <1>4, <1>5, <1>7, <1>8, <1>9, <1>11
  DEF Next, Call, Deliver, Step

\* However webhooks, cash confirmations, payouts and reassignments interleave,
\* an order that no fault touched and that is captured has a Payment row with
\* the whole price, split without a remainder.
THEOREM CapturedHasRow == Spec => []CapturedIsBooked
<1>1. Init => BookInv
  BY DEF Init, BookInv, OrderBooked, Idle
<1>2. TypeInv /\ BookInv => CapturedIsBooked
  <2> SUFFICES ASSUME TypeInv, BookInv, NEW o \in Order \ disturbed,
                      paymentStatus[o] = "CAPTURED", ~Writing(o)
               PROVE  Booked(o)
    BY DEF CapturedIsBooked
  <2>1. ~RowPending(o)
    BY DEF TypeInv, LocalsOK, RowPending, Writing
  <2> QED
    BY <2>1 DEF BookInv, OrderBooked
<1> QED
  BY <1>1, <1>2, BookStep, TypeHolds, PTL DEF Spec

-----------------------------------------------------------------------------
(* Payments implement Ledger when handlers run one at a time and nothing   *)
(* fails.  A handler that works alone finds its order as it last read it,  *)
(* so it captures what was not captured before and pays whoever it read as *)
(* the rider; the ledger changes when its last write lands, and until then *)
(* the mapping takes back the writes that have landed before.              *)

\* the conditions under which the promise is made
OneAtATime == (\A p, q \in Proc : p = q) /\ MaxFaults = 0 /\ PayAfterAssign

\* What the only handler knows of its order, or of the rider it pays out.
HandlerAlone(t) ==
    /\ t.pc = "authorize" => paymentStatus[t.order] = "PENDING"
    /\ t.pc \in {"authorize", "note", "rate", "reread"} => assignee[t.order] # NoRider
    /\ t.pc \in {"note", "rate", "reread"} => paymentStatus[t.order] # "CAPTURED"
    /\ t.pc = "write" => t.todo # {} /\ t.payee \in Rider
    /\ t.pc = "write" /\ t.order # NoOrder =>
         /\ t.todo \subseteq {"row", "status", "credit"}
         /\ "status" \in t.todo <=> paymentStatus[t.order] # "CAPTURED"
    /\ t.pc = "write" /\ t.order = NoOrder =>
         /\ t.todo \subseteq {"payout", "debit"}
         /\ t.amount \in PayoutAmounts /\ t.amount <= wallet[t.payee] + EarlyDebit(t)

\* A payment is only asked for an order that has a rider, and never loses him.
RiderKnown == \A o \in Order : links[o] > 0 \/ charges[o] > 0 => assignee[o] # NoRider

SerialInv == RiderKnown /\ \A p \in Proc : HandlerAlone(task[p])

\* what the handler t has moved already into the wallet of r
Early(t, r) == IF t.payee = r THEN EarlyDebit(t) - EarlyCredit(t) ELSE 0

\* What the mapping shows when p is the only slot.
Shown == (\A p, q \in Proc : p = q) => \A p \in Proc :
    /\ \A r \in Rider : EarlyDebit(task[p]) \in Int /\ EarlyCredit(task[p]) \in Int
         /\ wallet[r] \in Int => Balances[r] = wallet[r] + Early(task[p], r)
    /\ \A o \in Order : SettledOrders[o] =
         (paymentStatus[o] = "CAPTURED" /\ ~(task[p].order = o /\ task[p].pc = "write"))

LEMMA ShownHolds == Shown
<1> SUFFICES ASSUME \A p, q \in Proc : p = q, NEW p \in Proc
             PROVE  /\ \A r \in Rider :
                         EarlyDebit(task[p]) \in Int /\ EarlyCredit(task[p]) \in Int
                         /\ wallet[r] \in Int => Balances[r] = wallet[r] + Early(task[p], r)
                    /\ \A o \in Order : SettledOrders[o] = (paymentStatus[o] = "CAPTURED"
                         /\ ~(task[p].order = o /\ task[p].pc = "write"))
  BY DEF Shown
<1>1. ASSUME NEW r \in Rider, EarlyDebit(task[p]) \in Int, EarlyCredit(task[p]) \in Int,
             wallet[r] \in Int
      PROVE  Balances[r] = wallet[r] + Early(task[p], r)
  <2>1. CASE task[p].payee = r
    <3>1. Payer(r) = task[p]
      BY <2>1 DEF Payer
    <3> QED
      BY <1>1, <2>1, <3>1 DEF Balances, Early
  <2>2. CASE task[p].payee # r
    <3>1. Payer(r) = Idle /\ EarlyDebit(Idle) = 0 /\ EarlyCredit(Idle) = 0
      BY <2>2 DEF Payer, Idle, EarlyDebit, EarlyCredit
    <3> QED
      BY <1>1, <2>2, <3>1 DEF Balances, Early
  <2> QED
    BY <2>1, <2>2
<1>2. ASSUME NEW o \in Order
      PROVE  SettledOrders[o] = (paymentStatus[o] = "CAPTURED"
                                  /\ ~(task[p].order = o /\ task[p].pc = "write"))
  BY DEF SettledOrders, Writing
<1> QED
  BY <1>1, <1>2

LEMMA ShownAfter == Shown'
BY ShownHolds, PTL

\* What a handler has moved is an amount.
LEMMA EarlyIsInt ==
    ASSUME NEW t \in Task, LocalsOK(t), t.pc = "write" => t.todo # {},
           t.pc = "write" /\ t.order # NoOrder => t.todo \subseteq {"row", "status", "credit"}
    PROVE  EarlyDebit(t) \in Int /\ EarlyCredit(t) \in Int
<1>1. t.amount \in Int
  BY DEF Task
<1>2. CASE t.pc = "write" /\ t.order # NoOrder
  <2>1. t.order \in Order /\ t.rate \in Rates
    BY <1>2 DEF LocalsOK
  <2> QED
    BY <1>1, <2>1, SharesAddUp DEF EarlyDebit, EarlyCredit
<1>3. CASE ~(t.pc = "write" /\ t.order # NoOrder)
  BY <1>1, <1>3 DEF EarlyDebit, EarlyCredit
<1> QED
  BY <1>2, <1>3

\* The ledger after a step of the only handler, from its record before and after.
LEMMA LedgerShows ==
    ASSUME OneAtATime, TypeInv, TypeInv', SerialInv, SerialInv', NEW p \in Proc
    PROVE  /\ \A r \in Rider : Balances[r] = wallet[r] + Early(task[p], r)
           /\ \A r \in Rider : Balances'[r] = wallet'[r] + Early(task'[p], r)
           /\ \A o \in Order : SettledOrders[o] =
                (paymentStatus[o] = "CAPTURED" /\ ~(task[p].order = o /\ task[p].pc = "write"))
           /\ \A o \in Order : SettledOrders'[o] =
                (paymentStatus'[o] = "CAPTURED" /\ ~(task'[p].order = o /\ task'[p].pc = "write"))
<1>1. /\ \A r \in Rider : wallet[r] \in Int /\ wallet'[r] \in Int
      /\ task[p] \in Task /\ task'[p] \in Task /\ LocalsOK(task[p])
      /\ HandlerAlone(task[p])
  BY DEF TypeInv, TypeOK, SerialInv
<1>2. EarlyDebit(task[p]) \in Int /\ EarlyCredit(task[p]) \in Int
  BY <1>1, EarlyIsInt DEF HandlerAlone
<1>3. PICK u : u = task'[p]
  OBVIOUS
<1>4. /\ LocalsOK(u) /\ (u.pc = "write" => u.todo # {})
      /\ u.pc = "write" /\ u.order # NoOrder => u.todo \subseteq {"row", "status", "credit"}
  BY <1>3 DEF TypeInv, SerialInv, HandlerAlone, LocalsOK
<1>5. EarlyDebit(u) \in Int /\ EarlyCredit(u) \in Int
  BY <1>1, <1>3, <1>4, EarlyIsInt
<1>6. (EarlyDebit(task[p]) \in Int)' /\ (EarlyCredit(task[p]) \in Int)'
  BY <1>3, <1>5 DEF EarlyDebit, EarlyCredit, RiderShare, Gross, Commission
<1>7. \A r \in Rider : Early(task[p], r)' = Early(task'[p], r)
  BY DEF Early, EarlyDebit, EarlyCredit, RiderShare, Gross, Commission
<1> QED
  BY <1>1, <1>2, <1>6, <1>7, ShownHolds, ShownAfter DEF Shown, OneAtATime

\* Two ledgers are the same when they agree on every order and rider.
LEMMA SameLedger ==
    ASSUME \A o \in Order : SettledOrders'[o] = SettledOrders[o],
           \A r \in Rider : Balances'[r] = Balances[r]
    PROVE  UNCHANGED Books!vars
<1>1. /\ SettledOrders = [o \in Order |-> SettledOrders[o]]
      /\ SettledOrders' = [o \in Order |-> SettledOrders'[o]]
  BY DEF SettledOrders
<1>2. /\ Balances = [r \in Rider |-> Balances[r]]
      /\ Balances' = [r \in Rider |-> Balances'[r]]
  BY DEF Balances
<1>3. SettledOrders' = SettledOrders
  BY <1>1
<1>4. Balances' = Balances
  BY <1>2
<1> QED
  BY <1>3, <1>4 DEF Books!vars

\* With one slot the invariant rests on what its handler becomes.
LEMMA OneHandlerAlone ==
    ASSUME OneAtATime, task \in [Proc -> Task], NEW p \in Proc, NEW u,
           task' = [task EXCEPT ![p] = u], HandlerAlone(u)', RiderKnown'
    PROVE  SerialInv'
<1>1. \A q \in Proc : task'[q] = u
  BY DEF OneAtATime
<1>2. \A q \in Proc : HandlerAlone(task[q])'
  BY <1>1 DEF HandlerAlone, EarlyDebit
<1> QED
  BY <1>2 DEF SerialInv

\* A slot that is free knows nothing.
LEMMA IdleAlone == HandlerAlone(Idle) /\ HandlerAlone(Idle)'
BY DEF HandlerAlone, Idle

\* the change that write w of the handler t makes to the wallet of its payee
Moved(t, w) ==
    IF w = "credit" THEN RiderShare(t.order, t.rate)
    ELSE IF w = "debit" THEN 0 - t.amount ELSE 0

\* A write lands: the wallet and the status change by it, and it is no longer to do.
Lands(p, w) ==
    /\ w \in task[p].todo /\ EndWrite(p, w)
    /\ wallet' = [wallet EXCEPT ![task[p].payee] = @ + Moved(task[p], w)]
    /\ paymentStatus' = [paymentStatus EXCEPT ![task[p].order] =
                           IF w = "status" THEN "CAPTURED" ELSE @]
    /\ UNCHANGED <<assignee, links, charges>>

\* The writes of a handler land so.
LEMMA WritesLand ==
    ASSUME TypeInv, SerialInv, NEW p \in Proc,
           \/ WriteRow(p) \/ CaptureOrder(p) \/ CreditWallet(p)
           \/ CreatePayout(p) \/ DebitWallet(p)
    PROVE  \E w \in Writes :
             /\ Lands(p, w)
             /\ \/ w = "row" /\ WriteRow(p)
                \/ w = "status" /\ CaptureOrder(p)
                \/ w = "credit" /\ CreditWallet(p)
                \/ w = "payout" /\ CreatePayout(p)
                \/ w = "debit" /\ DebitWallet(p)
<1>0. /\ wallet \in [Rider -> Int] /\ task[p] \in Task
      /\ paymentStatus \in [Order -> {"PENDING", "AUTHORIZED", "CAPTURED"}]
      /\ LocalsOK(task[p]) /\ HandlerAlone(task[p])
  BY DEF TypeInv, TypeOK, SerialInv
<1>1. task[p].payee \in Rider /\ task[p].amount \in Int
  BY <1>0 DEF WriteRow, CaptureOrder, CreditWallet, CreatePayout, DebitWallet, LocalsOK,
     HandlerAlone, Task
<1>2. /\ wallet = [wallet EXCEPT ![task[p].payee] = @ + 0]
      /\ paymentStatus = [paymentStatus EXCEPT ![task[p].order] = @]
  BY <1>0, <1>1
<1> USE DEF bookVars, gatewayVars, worldVars, boundVars
<1>3. CASE WriteRow(p)
  BY <1>2, <1>3 DEF WriteRow, Lands, Moved, Writes
<1>4. CASE CaptureOrder(p)
  BY <1>2, <1>4 DEF CaptureOrder, Lands, Moved, Writes
<1>5. CASE CreditWallet(p)
  BY <1>2, <1>5 DEF CreditWallet, Lands, Moved, Writes
<1>6. CASE CreatePayout(p)
  BY <1>2, <1>6 DEF CreatePayout, Lands, Moved, Writes
<1>7. CASE DebitWallet(p)
  <2>1. wallet' = [wallet EXCEPT ![task[p].payee] = @ + (0 - task[p].amount)]
    <3>1. PICK r, n : r = task[p].payee /\ n = task[p].amount
      OBVIOUS
    <3>2. wallet[r] - n = wallet[r] + (0 - n)
      BY <1>0, <1>1, <3>1
    <3>3. wallet' = [wallet EXCEPT ![r] = wallet[r] - n]
      BY <1>7, <3>1 DEF DebitWallet
    <3> QED
      BY <3>1, <3>2, <3>3
  <2> QED
    BY <1>2, <1>7, <2>1 DEF DebitWallet, Lands, Moved, Writes
<1> QED
  BY <1>3, <1>4, <1>5, <1>6, <1>7

\* The record of a handler when one of its writes has landed.
LEMMA AfterWrite ==
    ASSUME task \in [Proc -> Task], NEW p \in Proc, NEW w \in task[p].todo, EndWrite(p, w)
    PROVE  \E u : /\ task' = [task EXCEPT ![p] = u]
                  /\ IF task[p].todo = {w} THEN u = Idle
                     ELSE /\ u.todo = task[p].todo \ {w} /\ u.pc = task[p].pc
                          /\ u.order = task[p].order /\ u.rate = task[p].rate
                          /\ u.payee = task[p].payee /\ u.amount = task[p].amount
<1>1. CASE task[p].todo = {w}
  BY <1>1 DEF EndWrite, Finish
<1>2. CASE task[p].todo # {w}
  <2> DEFINE u == [task[p] EXCEPT !.todo = @ \ {w}]
  <2>1. /\ u.todo = task[p].todo \ {w} /\ u.pc = task[p].pc
        /\ u.order = task[p].order /\ u.rate = task[p].rate
        /\ u.payee = task[p].payee /\ u.amount = task[p].amount
    BY DEF Task
  <2>2. task' = [task EXCEPT ![p] = u]
    BY <1>2 DEF EndWrite
  <2> HIDE DEF u
  <2> QED
    BY <1>2, <2>1, <2>2
<1> QED
  BY <1>1, <1>2

\* A write that lands leaves the handler alone with what it knows.
LEMMA LandsAlone ==
    ASSUME OneAtATime, TypeInv, SerialInv, NEW p \in Proc, NEW w, Lands(p, w)
    PROVE  SerialInv'
<1>0. /\ task \in [Proc -> Task] /\ wallet \in [Rider -> Int] /\ task[p].amount \in Int
      /\ paymentStatus \in [Order -> {"PENDING", "AUTHORIZED", "CAPTURED"}]
      /\ LocalsOK(task[p]) /\ HandlerAlone(task[p])
  BY DEF TypeInv, TypeOK, SerialInv, Task
<1>1. RiderKnown'
  BY DEF SerialInv, RiderKnown, Lands
<1>t. PICK t : t = task[p]
  OBVIOUS
<1>2. PICK u : /\ task' = [task EXCEPT ![p] = u]
               /\ IF t.todo = {w} THEN u = Idle
                  ELSE /\ u.todo = t.todo \ {w} /\ u.pc = t.pc /\ u.order = t.order
                       /\ u.rate = t.rate /\ u.payee = t.payee /\ u.amount = t.amount
  BY <1>0, <1>t, AfterWrite DEF Lands
<1>3. CASE t.todo = {w}
  BY <1>0, <1>1, <1>2, <1>3, IdleAlone, OneHandlerAlone
<1>4. CASE t.todo # {w}
  <2>1. /\ w \in t.todo /\ t.pc = "write" /\ t.payee \in Rider /\ t.amount \in Int
        /\ wallet[t.payee] \in Int
    BY <1>0, <1>t DEF Lands, LocalsOK, HandlerAlone
  <2>2. CASE t.order # NoOrder
    <3>1. /\ t.order \in Order /\ t.todo \subseteq {"row", "status", "credit"}
          /\ "status" \in t.todo <=> paymentStatus[t.order] # "CAPTURED"
      BY <1>0, <1>t, <2>1, <2>2 DEF LocalsOK, HandlerAlone
    <3>2. paymentStatus'[t.order] = IF w = "status" THEN "CAPTURED" ELSE paymentStatus[t.order]
      BY <1>0, <1>t, <3>1 DEF Lands
    <3>3. HandlerAlone(u)'
      BY <1>2, <1>4, <2>1, <2>2, <3>1, <3>2 DEF HandlerAlone
    <3> QED
      BY <1>0, <1>1, <1>2, <3>3, OneHandlerAlone
  <2>3. CASE t.order = NoOrder
    <3>1. /\ t.todo \subseteq {"payout", "debit"} /\ t.amount \in PayoutAmounts
          /\ t.amount <= wallet[t.payee] + EarlyDebit(t)
      BY <1>0, <1>t, <2>1, <2>3 DEF HandlerAlone
    <3>2. wallet'[t.payee] = wallet[t.payee] + Moved(t, w)
      BY <1>0, <1>t, <2>1 DEF Lands
    <3>3. wallet'[t.payee] + EarlyDebit(u) = wallet[t.payee] + EarlyDebit(t)
      BY <1>2, <1>4, <2>1, <2>3, <3>1, <3>2 DEF Moved, EarlyDebit
    <3>4. HandlerAlone(u)'
      BY <1>2, <1>4, <2>1, <2>3, <3>1, <3>3 DEF HandlerAlone, EarlyDebit
    <3> QED
      BY <1>0, <1>1, <1>2, <3>4, OneHandlerAlone
  <2> QED
    BY <2>2, <2>3
<1> QED
  BY <1>3, <1>4

\* No step of payments breaks it.
LEMMA SerialStep == OneAtATime /\ TypeInv /\ SerialInv /\ [Next]_vars => SerialInv'
<1> SUFFICES ASSUME OneAtATime, TypeInv, SerialInv, [Next]_vars
             PROVE  SerialInv'
  OBVIOUS
<1>0. /\ TypeOK /\ task \in [Proc -> Task] /\ wallet \in [Rider -> Int] /\ faults = 0
      /\ paymentStatus \in [Order -> {"PENDING", "AUTHORIZED", "CAPTURED"}]
      /\ assignee \in [Order -> Rider \cup {NoRider}]
      /\ links \in [Order -> Nat] /\ charges \in [Order -> Nat]
      /\ \A p \in Proc : LocalsOK(task[p]) /\ HandlerAlone(task[p]) /\ task[p] \in Task
      /\ RiderKnown /\ PayAfterAssign
  BY DEF TypeInv, TypeOK, SerialInv, OneAtATime
<1> USE DEF bookVars, gatewayVars, worldVars, boundVars
<1>1. ASSUME NEW p \in Proc, NEW o \in Order,
             \/ InitiatePayment(p, o) \/ ConfirmCash(p, o)
             \/ PaystackWebhook(p, o) \/ OpayWebhook(p, o)
      PROVE  SerialInv'
  <2>1. PICK pc, r : /\ Begin(p, pc, o, r)
                     /\ pc \in {"authorize", "note", "rate"}
                     /\ pc = "authorize" => paymentStatus[o] = "PENDING"
                     /\ pc # "authorize" => paymentStatus[o] # "CAPTURED"
    BY <1>1 DEF InitiatePayment, ConfirmCash, PaystackWebhook, OpayWebhook, NotCaptured
  <2>2. assignee[o] # NoRider
    BY <1>0, <1>1 DEF InitiatePayment, ConfirmCash, PaystackWebhook, OpayWebhook, MayPay, RiderKnown
  <2>3. UNCHANGED <<paymentStatus, wallet, assignee, links, charges>>
    BY <1>1 DEF InitiatePayment, ConfirmCash, PaystackWebhook, OpayWebhook
  <2>4. PICK u : u = Payment(pc, o, r)
    OBVIOUS
  <2>5. u.pc = pc /\ u.order = o /\ task' = [task EXCEPT ![p] = u]
    BY <2>1, <2>4 DEF Begin, Payment
  <2>6. HandlerAlone(u)' /\ RiderKnown'
    BY <1>0, <2>1, <2>2, <2>3, <2>5 DEF HandlerAlone, RiderKnown
  <2> QED
    BY <1>0, <2>5, <2>6, OneHandlerAlone
<1>2. ASSUME NEW p \in Proc, NEW r \in Rider, NEW amount \in PayoutAmounts,
             ProcessPayout(p, r, amount)
      PROVE  SerialInv'
  <2>1. PICK u : u = Payout(r, amount)
    OBVIOUS
  <2>2. /\ u.pc = "write" /\ u.order = NoOrder /\ u.payee = r /\ u.amount = amount
        /\ u.todo = {"payout", "debit"}
    BY <2>1 DEF Payout
  <2>3. /\ task' = [task EXCEPT ![p] = u] /\ amount <= wallet[r]
        /\ UNCHANGED <<paymentStatus, wallet, assignee, links, charges>>
    BY <1>2, <2>1 DEF ProcessPayout
  <2>4. EarlyDebit(u) = 0 /\ amount \in Int /\ wallet[r] \in Int
    BY <1>0, <2>2 DEF EarlyDebit
  <2>5. HandlerAlone(u)'
    BY <2>2, <2>3, <2>4 DEF HandlerAlone, EarlyDebit
  <2>6. RiderKnown'
    BY <1>0, <2>3 DEF RiderKnown
  <2> QED
    BY <1>0, <2>3, <2>5, <2>6, OneHandlerAlone
<1>3. ASSUME NEW p \in Proc, Authorize(p)
      PROVE  SerialInv'
  <2>1. task[p].order \in Order /\ assignee[task[p].order] # NoRider
    BY <1>0, <1>3 DEF Authorize, LocalsOK, HandlerAlone
  <2>2. RiderKnown'
    BY <1>0, <1>3, <2>1 DEF Authorize, RiderKnown
  <2> QED
    BY <1>0, <1>3, <2>2, IdleAlone, OneHandlerAlone DEF Authorize, Finish
<1>4. ASSUME NEW p \in Proc, NoteReference(p) \/ ReadRate(p) \/ ReadAgain(p)
      PROVE  SerialInv'
  <2>1. UNCHANGED <<paymentStatus, wallet, assignee, links, charges>>
    BY <1>4 DEF NoteReference, ReadRate, ReadAgain
  <2>2. RiderKnown'
    BY <1>0, <2>1 DEF RiderKnown
  <2>3. /\ task[p].order \in Order /\ assignee[task[p].order] \in Rider
        /\ paymentStatus[task[p].order] # "CAPTURED"
    BY <1>0, <1>4 DEF NoteReference, ReadRate, ReadAgain, LocalsOK, HandlerAlone
  <2>4. CASE NoteReference(p) \/ ReadRate(p)
    <3>1. PICK u : /\ task' = [task EXCEPT ![p] = u]
                   /\ u.pc \in {"rate", "reread"} /\ u.order = task[p].order
      BY <1>0, <2>4 DEF NoteReference, ReadRate, Task
    <3>2. HandlerAlone(u)'
      BY <2>1, <2>3, <3>1 DEF HandlerAlone
    <3> QED
      BY <1>0, <2>2, <3>1, <3>2, OneHandlerAlone
  <2>5. CASE ReadAgain(p)
    <3>1. PICK r : r = assignee[task[p].order] /\ r \in Rider
      BY <2>3
    <3>2. PICK u : u = [task[p] EXCEPT !.pc = "write", !.payee = r,
                                       !.todo = {"row", "status", "credit"}]
      OBVIOUS
    <3>3. /\ u.pc = "write" /\ u.payee = r /\ u.order = task[p].order
          /\ u.todo = {"row", "status", "credit"}
      BY <1>0, <3>2 DEF Task
    <3>4. /\ task' = [task EXCEPT ![p].pc = "write", ![p].payee = r,
                                  ![p].todo = {"row", "status", "credit"}]
      <4>1. {"row", "status"} \cup {"credit"} = {"row", "status", "credit"}
        OBVIOUS
      <4> QED
        BY <2>5, <3>1, <4>1 DEF ReadAgain
    <3>5. task' = [task EXCEPT ![p] = u]
      BY <1>0, <3>2, <3>4
    <3>6. HandlerAlone(u)'
      BY <2>1, <2>3, <3>1, <3>3 DEF HandlerAlone
    <3> QED
      BY <1>0, <2>2, <3>5, <3>6, OneHandlerAlone
  <2> QED
    BY <1>4, <2>4, <2>5
<1>5. ASSUME NEW p \in Proc,
             \/ WriteRow(p) \/ CaptureOrder(p) \/ CreditWallet(p)
             \/ CreatePayout(p) \/ DebitWallet(p)
      PROVE  SerialInv'
  BY <1>5, WritesLand, LandsAlone
<1>6. ASSUME NEW p \in Proc, Fail(p) \/ WriteFails(p)
      PROVE  FALSE
  BY <1>0, <1>6 DEF Fail, WriteFails, OneAtATime
<1>7. ASSUME Crash
      PROVE  FALSE
  BY <1>0, <1>7 DEF Crash, OneAtATime
<1>8. CASE Environment \/ UNCHANGED vars
  <2>1. UNCHANGED <<paymentStatus, wallet, task>>
    BY <1>8 DEF Environment, Pay, Assign, ToggleSubscription, vars
  <2>2. \A o \in Order : assignee[o] # NoRider => assignee'[o] # NoRider
    BY <1>0, <1>8 DEF Environment, Pay, Assign, ToggleSubscription, vars
  <2>3. \A o \in Order : links'[o] > 0 \/ charges'[o] > 0 => links[o] > 0 \/ charges[o] > 0
    BY <1>0, <1>8 DEF Environment, Pay, Assign, ToggleSubscription, vars
  <2>4. RiderKnown'
    BY <1>0, <2>2, <2>3 DEF RiderKnown
  <2>5. \A p \in Proc : HandlerAlone(task[p])'
    BY <1>0, <2>1, <2>2 DEF HandlerAlone, LocalsOK, EarlyDebit
  <2> QED
    BY <2>4, <2>5 DEF SerialInv
<1> QED
  BY <1>1, <1>2, <1>3, <1>4, <1>5, <1>6, <1>7, <1>8 DEF Next, Call, Deliver, Step

\* The last write settles the order, or completes the payout.
LEMMA LastWriteBooks ==
    ASSUME OneAtATime, TypeInv, TypeInv', SerialInv, SerialInv',
           NEW p \in Proc, NEW w, Lands(p, w), task[p].todo = {w}
    PROVE  Books!Next
<1>t. PICK t : t = task[p]
  OBVIOUS
<1>0. /\ wallet \in [Rider -> Int] /\ t \in Task /\ LocalsOK(t) /\ HandlerAlone(t)
      /\ paymentStatus \in [Order -> {"PENDING", "AUTHORIZED", "CAPTURED"}]
      /\ NoOrder \notin Order /\ t.todo = {w}
  BY <1>t DEF TypeInv, TypeOK, SerialInv
<1>1. task'[p] = Idle
  BY DEF Lands, EndWrite, Finish, TypeInv, TypeOK
<1>2. t.pc = "write" /\ t.payee \in Rider /\ t.amount \in Int
  BY <1>0 DEF LocalsOK, HandlerAlone, Task
<1>3. \A r \in Rider : Early(task'[p], r) = 0
  BY <1>1 DEF Early, EarlyDebit, EarlyCredit, Idle
<1>4. /\ \A r \in Rider : wallet'[r] = wallet[r] + IF r = t.payee THEN Moved(t, w) ELSE 0
      /\ \A x \in Order \ {t.order} : paymentStatus'[x] = paymentStatus[x]
      /\ t.order \in Order /\ w = "status" => paymentStatus'[t.order] = "CAPTURED"
      /\ t.order \in Order /\ w # "status" => paymentStatus'[t.order] = paymentStatus[t.order]
  BY <1>0, <1>2, <1>t DEF Lands
<1>5. /\ \A r \in Rider : Balances[r] = wallet[r] + Early(t, r)
      /\ \A r \in Rider : Balances'[r] = wallet'[r]
      /\ \A x \in Order : SettledOrders[x] = (paymentStatus[x] = "CAPTURED" /\ t.order # x)
      /\ \A x \in Order : SettledOrders'[x] = (paymentStatus'[x] = "CAPTURED")
  <2>1. Idle.pc # "write"
    BY DEF Idle
  <2>2. \A r \in Rider : wallet'[r] \in Int
    BY DEF TypeInv, TypeOK
  <2> QED
    BY <1>t, <1>1, <1>2, <1>3, <2>1, <2>2, LedgerShows
<1>6. /\ SettledOrders = [x \in Order |-> SettledOrders[x]]
      /\ SettledOrders' = [x \in Order |-> SettledOrders'[x]]
      /\ Balances = [r \in Rider |-> Balances[r]]
      /\ Balances' = [r \in Rider |-> Balances'[r]]
  BY DEF SettledOrders, Balances
<1>7. CASE t.order # NoOrder
  <2> DEFINE share == RiderShare(t.order, t.rate)
  <2>1. t.order \in Order /\ t.rate \in Rates /\ w \in {"row", "status", "credit"}
    BY <1>0, <1>2, <1>7 DEF LocalsOK, HandlerAlone
  <2>2. share \in Int /\ share = Price[t.order] * (100 - t.rate)
    <3>1. Price[t.order] \in Nat
      BY <2>1
    <3>2. CASE t.rate = 15
      BY <3>1, <3>2 DEF RiderShare, Gross, Commission
    <3>3. CASE t.rate = 5
      BY <3>1, <3>3 DEF RiderShare, Gross, Commission
    <3> QED
      BY <2>1, <3>2, <3>3 DEF Rates, PLATFORM_RATE, SUBSCRIPTION_PLATFORM_RATE
  <2>3. /\ Moved(t, w) = IF w = "credit" THEN share ELSE 0
        /\ EarlyCredit(t) = IF w = "credit" THEN 0 ELSE share
        /\ EarlyDebit(t) = 0
    BY <1>0, <1>2, <1>7, <2>1 DEF Moved, EarlyCredit, EarlyDebit
  <2>4. \A r \in Rider : Balances'[r] = Balances[r] + IF r = t.payee THEN share ELSE 0
    <3> HIDE DEF share
    <3> QED
      BY <1>0, <1>4, <1>5, <2>2, <2>3 DEF Early
  <2>5. Balances' = [Balances EXCEPT ![t.payee] = @ + Price[t.order] * (100 - t.rate)]
    <3>1. \A r \in Rider : Balances[r] \in Int
      BY <1>0, <1>5, <2>2, <2>3 DEF Early
    <3> HIDE DEF share
    <3> QED
      BY <1>2, <1>6, <2>2, <2>4, <3>1
  <2>6. paymentStatus'[t.order] = "CAPTURED"
    BY <1>0, <1>2, <1>4, <1>7, <2>1 DEF HandlerAlone
  <2>7. SettledOrders' = [SettledOrders EXCEPT ![t.order] = TRUE] /\ ~SettledOrders[t.order]
    <3>1. \A x \in Order : SettledOrders'[x] = IF x = t.order THEN TRUE ELSE SettledOrders[x]
      <4> SUFFICES ASSUME NEW x \in Order
                   PROVE  SettledOrders'[x] = IF x = t.order THEN TRUE ELSE SettledOrders[x]
        OBVIOUS
      <4>1. CASE x = t.order
        <5>1. SettledOrders'[x] = TRUE
          BY <1>5, <2>6, <4>1
        <5> QED
          BY <4>1, <5>1
      <4>2. CASE x # t.order
        <5>1. SettledOrders'[x] = SettledOrders[x]
          BY <1>4, <1>5, <4>2
        <5> QED
          BY <4>2, <5>1
      <4> QED
        BY <4>1, <4>2
    <3>2. ~SettledOrders[t.order]
      BY <1>5, <2>1
    <3>3. PICK f, g : f = SettledOrders /\ g = SettledOrders'
      OBVIOUS
    <3>4. /\ f = [x \in Order |-> f[x]] /\ g = [x \in Order |-> g[x]]
          /\ \A x \in Order : g[x] = IF x = t.order THEN TRUE ELSE f[x]
      BY <1>6, <3>1, <3>3
    <3>5. g = [f EXCEPT ![t.order] = TRUE]
      BY <3>4
    <3> QED
      BY <3>2, <3>3, <3>5
  <2>8. Books!Settle(t.order, t.payee, t.rate)
    BY <2>5, <2>7 DEF Books!Settle
  <2> QED
    BY <1>2, <2>1, <2>8 DEF Books!Next, Rates
<1>8. CASE t.order = NoOrder
  <2>1. w \in {"payout", "debit"} /\ t.amount \in PayoutAmounts /\ t.amount <= wallet[t.payee] + EarlyDebit(t)
    BY <1>0, <1>2, <1>8 DEF HandlerAlone
  <2>2. /\ Moved(t, w) = IF w = "debit" THEN 0 - t.amount ELSE 0
        /\ EarlyDebit(t) = IF w = "debit" THEN 0 ELSE t.amount
        /\ EarlyCredit(t) = 0
    BY <1>0, <1>2, <1>8, <2>1 DEF Moved, EarlyCredit, EarlyDebit
  <2>3. \A r \in Rider : Balances'[r] = IF r = t.payee THEN Balances[r] - t.amount ELSE Balances[r]
    BY <1>0, <1>2, <1>4, <1>5, <2>2 DEF Early
  <2>4. t.amount \in PayoutAmounts /\ t.amount <= Balances[t.payee]
    BY <1>0, <1>2, <1>5, <2>1, <2>2 DEF Early
  <2>5. Balances' = [Balances EXCEPT ![t.payee] = @ - t.amount]
    BY <1>2, <1>6, <2>3
  <2>6. SettledOrders' = SettledOrders
    <3>1. \A x \in Order : SettledOrders'[x] = SettledOrders[x]
      BY <1>0, <1>4, <1>5, <1>8
    <3> QED
      BY <1>6, <3>1
  <2>7. Books!PayOut(t.payee, t.amount)
    BY <2>4, <2>5, <2>6 DEF Books!PayOut
  <2> QED
    BY <1>2, <2>4, <2>7 DEF Books!Next
<1> QED
  BY <1>7, <1>8

\* A write that is not the last is taken back by the mapping: nothing is shown of it.
LEMMA EarlyWriteHides ==
    ASSUME OneAtATime, TypeInv, TypeInv', SerialInv, SerialInv',
           NEW p \in Proc, NEW w, Lands(p, w), task[p].todo # {w}
    PROVE  UNCHANGED Books!vars
<1>t. PICK t, u : t = task[p] /\ u = task'[p]
  OBVIOUS
<1>0. /\ wallet \in [Rider -> Int] /\ t \in Task /\ LocalsOK(t) /\ HandlerAlone(t)
      /\ paymentStatus \in [Order -> {"PENDING", "AUTHORIZED", "CAPTURED"}]
      /\ NoOrder \notin Order /\ w \in t.todo
  BY <1>t DEF TypeInv, TypeOK, SerialInv, Lands
<1>1. /\ u.todo = t.todo \ {w} /\ u.pc = t.pc /\ u.order = t.order
      /\ u.rate = t.rate /\ u.payee = t.payee /\ u.amount = t.amount
  BY <1>t, AfterWrite DEF Lands, TypeInv, TypeOK
<1>2. t.pc = "write" /\ t.payee \in Rider /\ t.amount \in Int
  BY <1>0 DEF LocalsOK, HandlerAlone, Task
<1>3. /\ \A r \in Rider : wallet'[r] = wallet[r] + IF r = t.payee THEN Moved(t, w) ELSE 0
      /\ \A x \in Order \ {t.order} : paymentStatus'[x] = paymentStatus[x]
  BY <1>0, <1>2, <1>t DEF Lands
<1>4. /\ \A r \in Rider : Balances[r] = wallet[r] + Early(t, r)
      /\ \A r \in Rider : Balances'[r] = wallet'[r] + Early(u, r)
      /\ \A x \in Order : SettledOrders[x] = (paymentStatus[x] = "CAPTURED" /\ t.order # x)
      /\ \A x \in Order : SettledOrders'[x] = (paymentStatus'[x] = "CAPTURED" /\ t.order # x)
  BY <1>t, <1>1, <1>2, LedgerShows
<1>5. Moved(t, w) \in Int /\ Moved(t, w) + (EarlyDebit(u) - EarlyCredit(u)) = EarlyDebit(t) - EarlyCredit(t)
      /\ EarlyDebit(u) - EarlyCredit(u) \in Int
  <2>1. CASE t.order # NoOrder
    <3>1. t.order \in Order /\ t.rate \in Rates /\ t.todo \subseteq {"row", "status", "credit"}
      BY <1>0, <1>2, <2>1 DEF LocalsOK, HandlerAlone
    <3>2. PICK share : share = RiderShare(t.order, t.rate) /\ share \in Int
      BY <3>1, SharesAddUp
    <3>3. /\ Moved(t, w) = IF w = "credit" THEN share ELSE 0
          /\ EarlyCredit(t) = IF "credit" \in t.todo THEN 0 ELSE share
          /\ EarlyCredit(u) = IF "credit" \in t.todo \ {w} THEN 0 ELSE share
          /\ EarlyDebit(t) = 0 /\ EarlyDebit(u) = 0
      BY <1>0, <1>1, <1>2, <2>1, <3>1, <3>2 DEF Moved, EarlyCredit, EarlyDebit
    <3> QED
      BY <1>0, <3>2, <3>3
  <2>2. CASE t.order = NoOrder
    <3>1. t.todo \subseteq {"payout", "debit"}
      BY <1>0, <1>2, <2>2 DEF HandlerAlone
    <3>2. /\ Moved(t, w) = IF w = "debit" THEN 0 - t.amount ELSE 0
          /\ EarlyDebit(t) = IF "debit" \in t.todo THEN 0 ELSE t.amount
          /\ EarlyDebit(u) = IF "debit" \in t.todo \ {w} THEN 0 ELSE t.amount
          /\ EarlyCredit(t) = 0 /\ EarlyCredit(u) = 0
      BY <1>0, <1>1, <1>2, <2>2, <3>1 DEF Moved, EarlyCredit, EarlyDebit
    <3> QED
      BY <1>0, <1>2, <3>2
  <2> QED
    BY <2>1, <2>2
<1>6. \A r \in Rider : Balances'[r] = Balances[r]
  BY <1>0, <1>1, <1>3, <1>4, <1>5 DEF Early
<1>7. \A x \in Order : SettledOrders'[x] = SettledOrders[x]
  BY <1>3, <1>4
<1> QED
  BY <1>6, <1>7, SameLedger

\* Every step of payments is a step of the ledger, or does not show in it.
LEMMA LedgerStep ==
    ASSUME OneAtATime, TypeInv, TypeInv', SerialInv, SerialInv', [Next]_vars
    PROVE  [Books!Next]_(Books!vars)
<1>0. /\ faults = 0 /\ task \in [Proc -> Task]
      /\ paymentStatus \in [Order -> {"PENDING", "AUTHORIZED", "CAPTURED"}]
      /\ \A p \in Proc : LocalsOK(task[p]) /\ HandlerAlone(task[p])
      /\ NoOrder \notin Order
  BY DEF TypeInv, TypeOK, SerialInv, OneAtATime
<1> USE DEF bookVars, gatewayVars, worldVars, boundVars
\* a handler that has written nothing of its own yet
<1>1. ASSUME NEW p \in Proc, UNCHANGED wallet,
             \A r \in Rider : Early(task[p], r) = 0 /\ Early(task'[p], r) = 0,
             \A o \in Order : (paymentStatus'[o] = "CAPTURED") = (paymentStatus[o] = "CAPTURED"),
             \A o \in Order : paymentStatus[o] = "CAPTURED" =>
               ~(task[p].order = o /\ task[p].pc = "write")
               /\ ~(task'[p].order = o /\ task'[p].pc = "write")
      PROVE  UNCHANGED Books!vars
  BY <1>1, LedgerShows, SameLedger
<1>2. ASSUME NEW t, t.pc # "write" \/ (t.order # NoOrder /\ "credit" \in t.todo)
                                  \/ (t.order = NoOrder /\ "debit" \in t.todo)
      PROVE  \A r \in Rider : Early(t, r) = 0
  BY <1>2 DEF Early, EarlyDebit, EarlyCredit
<1>3. ASSUME NEW p \in Proc, NEW i \in Order,
             \/ InitiatePayment(p, i) \/ ConfirmCash(p, i)
             \/ PaystackWebhook(p, i) \/ OpayWebhook(p, i)
      PROVE  UNCHANGED Books!vars
  <2>1. task[p].pc # "write" /\ UNCHANGED <<paymentStatus, wallet>>
    BY <1>3 DEF InitiatePayment, ConfirmCash, PaystackWebhook, OpayWebhook, Working, Idle
  <2>2. task'[p].pc # "write"
    BY <1>0, <1>3 DEF InitiatePayment, ConfirmCash, PaystackWebhook, OpayWebhook, Begin, Payment
  <2> QED
    BY <1>1, <1>2, <2>1, <2>2
<1>4. ASSUME NEW p \in Proc, NEW r \in Rider, NEW amount \in PayoutAmounts,
             ProcessPayout(p, r, amount)
      PROVE  UNCHANGED Books!vars
  <2>1. task[p].pc # "write" /\ UNCHANGED <<paymentStatus, wallet>>
    BY <1>4 DEF ProcessPayout, Working, Idle
  <2>2. task'[p].order = NoOrder /\ "debit" \in task'[p].todo
    BY <1>0, <1>4 DEF ProcessPayout, Payout
  <2> QED
    BY <1>0, <1>1, <1>2, <2>1, <2>2
<1>5. ASSUME NEW p \in Proc, Authorize(p) \/ NoteReference(p) \/ ReadRate(p)
      PROVE  UNCHANGED Books!vars
  <2>1. task[p].pc # "write" /\ UNCHANGED wallet
    BY <1>5 DEF Authorize, NoteReference, ReadRate
  <2>2. task'[p].pc # "write"
    BY <1>0, <1>5 DEF Authorize, NoteReference, ReadRate, Finish, Idle, Task
  <2>3. \A o \in Order : (paymentStatus'[o] = "CAPTURED") = (paymentStatus[o] = "CAPTURED")
    BY <1>0, <1>5 DEF Authorize, NoteReference, ReadRate, HandlerAlone
  <2> QED
    BY <1>1, <1>2, <2>1, <2>2, <2>3
<1>6. ASSUME NEW p \in Proc, ReadAgain(p)
      PROVE  UNCHANGED Books!vars
  <2>1. /\ task[p].pc = "reread" /\ UNCHANGED <<paymentStatus, wallet>>
        /\ task[p].order \in Order /\ paymentStatus[task[p].order] # "CAPTURED"
        /\ assignee[task[p].order] # NoRider
    BY <1>0, <1>6 DEF ReadAgain, LocalsOK, HandlerAlone
  <2>2. task'[p].order = task[p].order /\ "credit" \in task'[p].todo
    BY <1>0, <1>6, <2>1 DEF ReadAgain, Task
  <2> QED
    BY <1>0, <1>1, <1>2, <2>1, <2>2
<1>7. ASSUME NEW p \in Proc,
             \/ WriteRow(p) \/ CaptureOrder(p) \/ CreditWallet(p)
             \/ CreatePayout(p) \/ DebitWallet(p)
      PROVE  [Books!Next]_(Books!vars)
  <2>1. PICK w \in Writes : Lands(p, w)
    BY <1>7, WritesLand
  <2> QED
    BY <2>1, LastWriteBooks, EarlyWriteHides
<1>8. ASSUME NEW p \in Proc, Fail(p) \/ WriteFails(p)
      PROVE  FALSE
  BY <1>0, <1>8 DEF Fail, WriteFails, OneAtATime
<1>9. ASSUME Crash
      PROVE  FALSE
  BY <1>0, <1>9 DEF Crash, OneAtATime
<1>10. CASE Environment \/ UNCHANGED vars
  <2>1. UNCHANGED <<paymentStatus, wallet, task>>
    BY <1>10 DEF Environment, Pay, Assign, ToggleSubscription, vars
  <2> QED
    BY <2>1 DEF Books!vars, SettledOrders, Writing, Balances, Payer, EarlyDebit, EarlyCredit,
       RiderShare, Gross, Commission
<1> QED
  BY <1>3, <1>4, <1>5, <1>6, <1>7, <1>8, <1>9, <1>10 DEF Next, Call, Deliver, Step

\* However often a gateway tells of a charge, and whenever the rider of an order or his
\* subscription changes: when handlers run one at a time and none fails, an order
\* is settled once, with one rider and at one of the two rates, and a payout
\* takes no more than the rider is owed.
THEOREM PaymentsKeepTheLedger == OneAtATime => (Spec => SettlesOnce)
<1> SUFFICES ASSUME OneAtATime PROVE Spec => SettlesOnce
  OBVIOUS
<1>1. Init => SerialInv
  BY IdleAlone DEF Init, SerialInv, RiderKnown
<1>2. Init => Books!Init
  <2> SUFFICES ASSUME Init PROVE Books!Init
    OBVIOUS
  <2>1. \A p \in Proc : task[p] = Idle
    BY DEF Init
  <2>2. SettledOrders = [o \in Order |-> FALSE]
    BY DEF Init, SettledOrders
  <2>3. /\ Idle.payee = NoRider /\ NoRider \notin Rider
        /\ EarlyDebit(Idle) = 0 /\ EarlyCredit(Idle) = 0
    BY DEF Idle, EarlyDebit, EarlyCredit
  <2>4. \A r \in Rider : Payer(r) = Idle
    BY <2>1, <2>3 DEF Payer
  <2>5. Balances = [r \in Rider |-> 0]
    BY <2>3, <2>4 DEF Init, Balances
  <2> QED
    BY <2>2, <2>5 DEF Books!Init
<1>3. TypeInv /\ SerialInv /\ [Next]_vars => SerialInv'
  BY SerialStep
<1>4. TypeInv /\ TypeInv' /\ SerialInv /\ SerialInv' /\ [Next]_vars => [Books!Next]_(Books!vars)
  BY LedgerStep
<1> QED
  BY <1>1, <1>2, <1>3, <1>4, TypeHolds, PTL DEF Spec, SettlesOnce, Books!Spec

\* So nobody is ever paid out more than he has earned: the balance of a rider, which is
\* his wallet as soon as no handler runs, never falls below zero.
THEOREM NobodyIsOverdrawn == OneAtATime => (Spec => []Books!NeverOverdrawn)
<1> DEFINE Covered == Balances \in [Rider -> Nat]
<1> SUFFICES ASSUME OneAtATime PROVE Spec => []Books!NeverOverdrawn
  OBVIOUS
<1>1. Books!Init => Covered
  BY DEF Books!Init
<1>2. Covered /\ [Books!Next]_(Books!vars) => Covered'
  <2> SUFFICES ASSUME Covered, [Books!Next]_(Books!vars) PROVE Covered'
    OBVIOUS
  <2>1. ASSUME NEW o \in Order, NEW r \in Rider, NEW rate \in Rates, Books!Settle(o, r, rate)
        PROVE  Covered'
    <3>1. Price[o] * (100 - rate) \in Nat
      <4>1. Price[o] \in Nat
        OBVIOUS
      <4> QED
        BY <4>1 DEF Rates, PLATFORM_RATE, SUBSCRIPTION_PLATFORM_RATE
    <3> QED
      BY <2>1, <3>1 DEF Books!Settle
  <2>2. ASSUME NEW r \in Rider, NEW amount \in PayoutAmounts, Books!PayOut(r, amount)
        PROVE  Covered'
    <3>1. Balances[r] - amount \in Nat
      BY <2>2 DEF Books!PayOut
    <3> QED
      BY <2>2, <3>1 DEF Books!PayOut
  <2>3. CASE UNCHANGED Books!vars
    BY <2>3 DEF Books!vars
  <2> QED
    BY <2>1, <2>2, <2>3 DEF Books!Next, Rates
<1>3. Covered => Books!NeverOverdrawn
  BY DEF Books!NeverOverdrawn
<1>4. Spec => Books!Spec
  BY PaymentsKeepTheLedger DEF SettlesOnce
<1> QED
  BY <1>1, <1>2, <1>3, <1>4, PTL DEF Books!Spec

-----------------------------------------------------------------------------
(* Sums.  The library defines them by recursion over the subsets of a set; *)
(* what they do is shown by a smallest counterexample, since the theorem   *)
(* of induction takes an operator as its parameter.                        *)

\* On the sets in D, g follows the recursion by which the sum of f is defined.
SumsUp(g, f, D) ==
    \A s \in D : g[s] = IF s = {} THEN 0
                        ELSE f[CHOOSE x \in s : TRUE] + g[s \ {CHOOSE x \in s : TRUE}]

\* the subsets of S with at most n elements
UpTo(S, n) == {s \in SUBSET S : Cardinality(s) <= n}

\* Induction on the size: a smallest size without such a g would follow from the next smaller.
LEMMA SumsUpToSome ==
    ASSUME NEW S, IsFiniteSet(S), NEW f
    PROVE  \A n \in Nat : \E g : g = [s \in UpTo(S, n) |-> g[s]] /\ SumsUp(g, f, UpTo(S, n))
<1> DEFINE Has(n) == \E g : g = [s \in UpTo(S, n) |-> g[s]] /\ SumsUp(g, f, UpTo(S, n))
           Lacks == {n \in Nat : ~Has(n)}
<1> SUFFICES ASSUME Lacks # {} PROVE FALSE
  OBVIOUS
<1>1. PICK n \in Lacks : \A m \in Lacks : ~(<<m, n>> \in OpToRel(<, Nat))
  <2> HIDE DEF Lacks
  <2>1. Lacks \subseteq Nat
    BY DEF Lacks
  <2> QED
    BY <2>1, WFMin, NatLessThanWellFounded
<1>2. n \in Nat /\ ~Has(n)
  OBVIOUS
<1>3. \A m \in Nat : m < n => Has(m)
  <2> SUFFICES ASSUME NEW m \in Nat, m < n PROVE m \notin Lacks
    OBVIOUS
  <2> HIDE DEF Lacks
  <2> QED
    BY <1>1, <1>2 DEF OpToRel
<1>4. \A s \in SUBSET S : IsFiniteSet(s) /\ Cardinality(s) \in Nat
  BY FS_Subset, FS_CardinalityType
<1>5. CASE n = 0
  <2> DEFINE g == [s \in UpTo(S, 0) |-> 0]
  <2>1. \A s \in UpTo(S, 0) : s = {}
    BY <1>4, FS_EmptySet DEF UpTo
  <2>2. SumsUp(g, f, UpTo(S, 0))
    BY <2>1 DEF SumsUp
  <2>3. g = [s \in UpTo(S, 0) |-> g[s]]
    OBVIOUS
  <2> HIDE DEF g
  <2> QED
    BY <1>2, <1>5, <2>2, <2>3
<1>6. CASE n # 0
  <2>1. n - 1 \in Nat /\ n - 1 < n
    BY <1>2, <1>6
  <2>2. PICK h : SumsUp(h, f, UpTo(S, n - 1))
    BY <1>3, <2>1
  <2> DEFINE g == [s \in UpTo(S, n) |->
                     IF s \in UpTo(S, n - 1) THEN h[s]
                     ELSE f[CHOOSE x \in s : TRUE] + h[s \ {CHOOSE x \in s : TRUE}]]
  <2>3. UpTo(S, n - 1) \subseteq UpTo(S, n)
    BY <1>2, <1>4, <2>1 DEF UpTo
  <2>4. ASSUME NEW s \in UpTo(S, n), s # {}
        PROVE  s \ {CHOOSE x \in s : TRUE} \in UpTo(S, n - 1)
    <3>1. PICK y : y = CHOOSE x \in s : TRUE
      OBVIOUS
    <3>2. y \in s
      BY <2>4, <3>1
    <3>3. Cardinality(s \ {y}) = Cardinality(s) - 1
      BY <1>4, <3>2, FS_RemoveElement DEF UpTo
    <3> QED
      BY <1>2, <1>4, <2>1, <3>1, <3>3 DEF UpTo
  <2>5. ASSUME NEW s \in UpTo(S, n)
        PROVE  g[s] = IF s = {} THEN 0
                      ELSE f[CHOOSE x \in s : TRUE] + g[s \ {CHOOSE x \in s : TRUE}]
    <3>1. CASE s = {}
      <4>1. s \in UpTo(S, n - 1)
        BY <3>1, <2>1, FS_EmptySet DEF UpTo
      <4> QED
        BY <2>2, <3>1, <4>1 DEF SumsUp
    <3>2. CASE s # {}
      <4>1. s \ {CHOOSE x \in s : TRUE} \in UpTo(S, n - 1)
        BY <2>4, <3>2
      <4>2. g[s \ {CHOOSE x \in s : TRUE}] = h[s \ {CHOOSE x \in s : TRUE}]
        BY <2>3, <4>1
      <4>3. g[s] = f[CHOOSE x \in s : TRUE] + h[s \ {CHOOSE x \in s : TRUE}]
        BY <2>2, <3>2 DEF SumsUp
      <4> QED
        BY <3>2, <4>2, <4>3
    <3> QED
      BY <3>1, <3>2
  <2>6. g = [s \in UpTo(S, n) |-> g[s]]
    OBVIOUS
  <2>7. SumsUp(g, f, UpTo(S, n))
    <3> HIDE DEF g
    <3> QED
      BY <2>5 DEF SumsUp
  <2> HIDE DEF g
  <2> QED
    BY <1>2, <2>6, <2>7
<1> QED
  BY <1>5, <1>6

\* SumFunction follows the recursion on every subset of its domain.
LEMMA SumsUpToAll ==
    ASSUME NEW S, IsFiniteSet(S), NEW f, DOMAIN f = S
    PROVE  \E g : SumsUp(g, f, SUBSET S) /\ SumFunction(f) = g[S]
<1> DEFINE D(g) == [s \in SUBSET S |-> IF s = {} THEN 0
                        ELSE f[CHOOSE x \in s : TRUE] + g[s \ {CHOOSE x \in s : TRUE}]]
<1>1. UpTo(S, Cardinality(S)) = SUBSET S
  BY FS_Subset, FS_CardinalityType DEF UpTo
<1>2. Cardinality(S) \in Nat
  BY FS_CardinalityType
<1>3. PICK g : g = [s \in SUBSET S |-> g[s]] /\ SumsUp(g, f, SUBSET S)
  <2>1. PICK n \in Nat : UpTo(S, n) = SUBSET S
    BY <1>1, <1>2
  <2>2. PICK g : g = [s \in UpTo(S, n) |-> g[s]] /\ SumsUp(g, f, UpTo(S, n))
    BY <2>1, SumsUpToSome
  <2> QED
    BY <2>1, <2>2
<1>4. g = D(g)
  BY <1>3 DEF SumsUp
<1>5. PICK i : i = CHOOSE h : h = D(h)
  OBVIOUS
<1>6. i = D(i)
  <2> HIDE DEF D
  <2> QED
    BY <1>4, <1>5
<1>7. SumsUp(i, f, SUBSET S)
  BY <1>6 DEF SumsUp
<1>8. SumFunction(f) = i[S]
  BY <1>5 DEF SumFunction, SumFunctionOnSet, FoldFunctionOnSet, MapThenFoldSet
<1> QED
  BY <1>7, <1>8

\* Of any subsets of a finite set one has no smaller one among them.
LEMMA SmallestSubset ==
    ASSUME NEW S, IsFiniteSet(S), NEW T, T \subseteq SUBSET S, T # {}
    PROVE  \E s \in T : \A x \in s : s \ {x} \notin T
<1>1. PICK s \in T : \A u \in T : ~(<<u, s>> \in StrictSubsetOrdering(S))
  <2>1. IsWellFoundedOn(StrictSubsetOrdering(S), SUBSET S)
    <3>1. FiniteSubsetsOf(S) = SUBSET S
      BY FS_FiniteSubsetsOfFinite
    <3> QED
      BY <3>1, FS_StrictSubsetOrderingWellFounded
  <2> QED
    BY <2>1, WFMin
<1>2. ASSUME NEW x \in s, s \ {x} \in T
      PROVE  FALSE
  BY <1>1, <1>2 DEF StrictSubsetOrdering
<1> QED
  BY <1>2

\* A sum of integers is one.
LEMMA SumIsInt ==
    ASSUME NEW S, IsFiniteSet(S), NEW f \in [S -> Int]
    PROVE  SumFunction(f) \in Int
<1>1. PICK i : SumsUp(i, f, SUBSET S) /\ SumFunction(f) = i[S]
  BY SumsUpToAll
<1> DEFINE Bad == {s \in SUBSET S : i[s] \notin Int}
<1> SUFFICES ASSUME Bad # {} PROVE FALSE
  BY <1>1
<1>2. PICK s \in Bad : \A x \in s : s \ {x} \notin Bad
  BY SmallestSubset
<1>3. PICK x : x = CHOOSE y \in s : TRUE
  OBVIOUS
<1>4. s # {} /\ i[s] \notin Int
  <2>1. i[{}] = 0
    BY <1>1 DEF SumsUp
  <2> QED
    BY <2>1
<1>5. i[s] = f[x] + i[s \ {x}]
  BY <1>1, <1>3, <1>4 DEF SumsUp
<1>6. x \in s /\ i[s \ {x}] \in Int /\ f[x] \in Int
  BY <1>2, <1>3, <1>4
<1> QED
  BY <1>4, <1>5, <1>6

\* f and g are the same on S but for y, where g is n more.
DiffersAt(y, n, f, g, S) == \A x \in S : g[x] = f[x] + IF x = y THEN n ELSE 0

\* A sum moves with any of its terms.
LEMMA SumMoves ==
    ASSUME NEW S, IsFiniteSet(S), NEW f \in [S -> Int], NEW g \in [S -> Int],
           NEW y \in S, NEW n \in Int,
           DiffersAt(y, n, f, g, S)
    PROVE  SumFunction(g) = SumFunction(f) + n
<1>1. PICK i : SumsUp(i, f, SUBSET S) /\ SumFunction(f) = i[S]
  BY SumsUpToAll
<1>2. PICK j : SumsUp(j, g, SUBSET S) /\ SumFunction(g) = j[S]
  BY SumsUpToAll
<1> DEFINE Good(s) == i[s] \in Int /\ j[s] = i[s] + IF y \in s THEN n ELSE 0
           Bad == {s \in SUBSET S : ~Good(s)}
<1> SUFFICES ASSUME Bad # {} PROVE FALSE
  BY <1>1, <1>2
<1>3. PICK s \in Bad : \A x \in s : s \ {x} \notin Bad
  BY SmallestSubset
<1>4. PICK x : x = CHOOSE z \in s : TRUE
  OBVIOUS
<1>5. s # {}
  <2>1. i[{}] = 0 /\ j[{}] = 0
    BY <1>1, <1>2 DEF SumsUp
  <2>2. Good({})
    BY <2>1
  <2> QED
    BY <2>2
<1>6. i[s] = f[x] + i[s \ {x}] /\ j[s] = g[x] + j[s \ {x}]
  BY <1>1, <1>2, <1>4, <1>5 DEF SumsUp
<1>7. x \in s /\ x \in S /\ Good(s \ {x})
  BY <1>3, <1>4, <1>5
<1>8. f[x] \in Int /\ g[x] = f[x] + IF x = y THEN n ELSE 0
  BY <1>7 DEF DiffersAt
<1>9. Good(s)
  BY <1>6, <1>7, <1>8
<1> QED
  BY <1>9

\* Sums of two functions add up to the sum of both.
LEMMA SumAdds ==
    ASSUME NEW S, IsFiniteSet(S), NEW f \in [S -> Int], NEW g \in [S -> Int]
    PROVE  SumFunction([x \in S |-> f[x] + g[x]]) = SumFunction(f) + SumFunction(g)
<1> DEFINE h == [x \in S |-> f[x] + g[x]]
<1>0. \A x \in S : h[x] = f[x] + g[x]
  OBVIOUS
<1>a. DOMAIN h = S
  OBVIOUS
<1> HIDE DEF h
<1>1. PICK i : SumsUp(i, f, SUBSET S) /\ SumFunction(f) = i[S]
  BY SumsUpToAll
<1>2. PICK j : SumsUp(j, g, SUBSET S) /\ SumFunction(g) = j[S]
  BY SumsUpToAll
<1>3. PICK k : SumsUp(k, h, SUBSET S) /\ SumFunction(h) = k[S]
  BY <1>a, SumsUpToAll
<1> DEFINE Good(s) == i[s] \in Int /\ j[s] \in Int /\ k[s] = i[s] + j[s]
           Bad == {s \in SUBSET S : ~Good(s)}
<1> SUFFICES ASSUME Bad # {} PROVE FALSE
  BY <1>1, <1>2, <1>3 DEF h
<1>4. PICK s \in Bad : \A x \in s : s \ {x} \notin Bad
  BY SmallestSubset
<1>5. PICK x : x = CHOOSE z \in s : TRUE
  OBVIOUS
<1>6. s # {}
  <2>1. i[{}] = 0 /\ j[{}] = 0 /\ k[{}] = 0
    BY <1>1, <1>2, <1>3 DEF SumsUp
  <2>2. Good({})
    BY <2>1
  <2> QED
    BY <2>2
<1>7. /\ i[s] = f[x] + i[s \ {x}] /\ j[s] = g[x] + j[s \ {x}]
      /\ k[s] = h[x] + k[s \ {x}]
  BY <1>1, <1>2, <1>3, <1>5, <1>6 DEF SumsUp
<1>8. x \in s /\ x \in S /\ Good(s \ {x})
  BY <1>4, <1>5, <1>6
<1>9. f[x] \in Int /\ g[x] \in Int /\ h[x] = f[x] + g[x]
  BY <1>0, <1>8
<1>10. Good(s)
  BY <1>7, <1>8, <1>9
<1> QED
  BY <1>10

\* A sum of zeros is zero.
LEMMA SumOfZeros ==
    ASSUME NEW S, IsFiniteSet(S)
    PROVE  SumFunction([x \in S |-> 0]) = 0
<1>1. PICK z : z = [x \in S |-> 0]
  OBVIOUS
<1>2. z \in [S -> Int] /\ z = [x \in S |-> z[x] + z[x]]
  BY <1>1
<1>3. SumFunction([x \in S |-> z[x] + z[x]]) = SumFunction(z) + SumFunction(z)
  <2>1. ASSUME NEW f \in [S -> Int], NEW g \in [S -> Int]
        PROVE  SumFunction([x \in S |-> f[x] + g[x]]) = SumFunction(f) + SumFunction(g)
    BY SumAdds
  <2>2. z \in [S -> Int]
    BY <1>2
  <2> HIDE <1>2
  <2> QED
    BY <2>1, <2>2, Zenon
<1>4. PICK n : n = SumFunction(z)
  OBVIOUS
<1>5. n \in Int
  BY <1>2, <1>4, SumIsInt
<1>6. n = n + n
  BY <1>2, <1>3, <1>4
<1>7. n = 0
  BY <1>5, <1>6
<1> QED
  BY <1>1, <1>4, <1>7

-----------------------------------------------------------------------------
(* WalletsMatchBooks, for handlers one at a time and without a fault.  Its *)
(* sums agree only between handlers; while one writes, they differ by what *)
(* has landed on one side and not on the other.  A row is empty until its  *)
(* handler writes it, and only that handler knows of it.                   *)

\* the only handler there is, if any
Handler == IF Proc = {} THEN Idle ELSE task[CHOOSE p \in Proc : TRUE]

\* by how much wallets and payouts are ahead of the rows while t writes
Ahead(t) ==
    IF t.pc # "write" THEN 0
    ELSE IF t.order # NoOrder
         THEN (IF "credit" \in t.todo THEN 0 ELSE RiderShare(t.order, t.rate))
              - (IF "row" \in t.todo THEN 0 ELSE RiderShare(t.order, t.rate))
         ELSE (IF "payout" \in t.todo THEN 0 ELSE t.amount)
              - (IF "debit" \in t.todo THEN 0 ELSE t.amount)

RowWritten(o, t) ==
    IF t.order = o /\ t.pc = "write" THEN "row" \notin t.todo
                                     ELSE paymentStatus[o] = "CAPTURED"

EmptyRow == [gross |-> 0, commission |-> 0, payout |-> 0]

RowKept(o, t) ==
    IF RowWritten(o, t) THEN Booked(o)
    ELSE \/ row[o] = NoRow
         \/ /\ row[o] = EmptyRow
            /\ t.order = o /\ t.pc \in {"rate", "reread", "write"}

\* what riders have and what they have been paid out
Earned == [r \in Rider |-> wallet[r] + paidOut[r]]

RowsKept == \A o \in Order : RowKept(o, Handler)

SumsAgree == SumFunction(Earned) = SumFunction(Column("payout")) + Ahead(Handler)

BooksInv == RowsKept /\ SumsAgree

\* The handler is that of any slot.
LEMMA HandlerIs ==
    ASSUME OneAtATime, NEW p \in Proc
    PROVE  Handler = task[p] /\ Handler' = task'[p]
<1>1. p = CHOOSE q \in Proc : TRUE
  BY DEF OneAtATime
<1> QED
  BY <1>1 DEF Handler

\* What is summed are integers.
LEMMA BooksType ==
    ASSUME TypeInv
    PROVE  /\ Earned \in [Rider -> Int]
           /\ \A c \in {"gross", "commission", "payout"} : Column(c) \in [Order -> Int]
<1>1. Earned \in [Rider -> Int]
  BY DEF TypeInv, TypeOK, Earned
<1>2. ASSUME NEW c \in {"gross", "commission", "payout"}, NEW o \in Order
      PROVE  (IF row[o] = NoRow THEN 0 ELSE row[o][c]) \in Int
  BY <1>2 DEF TypeInv, TypeOK, Row
<1> QED
  BY <1>1, <1>2 DEF Column

\* While a handler has nothing under way, only its rows matter.
LEMMA NothingUnderWay ==
    ASSUME TypeInv, TypeInv', OneAtATime, BooksInv, UNCHANGED <<wallet, paidOut>>,
           Ahead(Handler) = 0, Ahead(Handler') = 0,
           \A o \in Order : row'[o] = row[o] \/ (row[o] = NoRow /\ row'[o] = EmptyRow),
           \A o \in Order : RowKept(o, Handler)'
    PROVE  BooksInv'
<1>1. Earned' = Earned
  BY DEF Earned
<1>2. Column("payout")' = Column("payout")
  <2>1. ASSUME NEW o \in Order
        PROVE  (IF row'[o] = NoRow THEN 0 ELSE row'[o]["payout"])
                 = (IF row[o] = NoRow THEN 0 ELSE row[o]["payout"])
    <3>1. EmptyRow["payout"] = 0
      BY DEF EmptyRow
    <3> QED
      BY <3>1
  <2> QED
    BY <2>1 DEF Column
<1>3. Ahead(Handler)' = 0
  BY DEF Ahead, RiderShare, Gross, Commission
<1> QED
  BY <1>1, <1>2, <1>3 DEF BooksInv, RowsKept, SumsAgree

\* What riders have earned moves with the wallet or the payouts of one of them.
LEMMA EarnedMoves ==
    ASSUME TypeInv, TypeInv', NEW r \in Rider, NEW n \in Int,
           \A x \in Rider : wallet'[x] + paidOut'[x]
                              = wallet[x] + paidOut[x] + IF x = r THEN n ELSE 0
    PROVE  SumFunction(Earned') = SumFunction(Earned) + n
<1>1. Earned \in [Rider -> Int]
  BY BooksType
<1>2. \A x \in Rider : Earned[x] = wallet[x] + paidOut[x]
  BY DEF Earned
<1>3. \A x \in Rider : Earned'[x] = wallet'[x] + paidOut'[x]
  BY DEF Earned
<1>4. Earned' \in [Rider -> Int]
  BY DEF Earned, TypeInv, TypeOK
<1>5. DiffersAt(r, n, Earned, Earned', Rider)
  BY <1>2, <1>3 DEF DiffersAt
<1> QED
  BY <1>1, <1>4, <1>5, SumMoves

\* What the rows hold for the riders moves with one of the rows.
LEMMA RowMoves ==
    ASSUME TypeInv, NEW o \in Order, NEW n \in Int, NEW v,
           row' = [row EXCEPT ![o] = v], row[o] = NoRow \/ row[o] = EmptyRow,
           v # NoRow, v["payout"] = n
    PROVE  SumFunction(Column("payout")') = SumFunction(Column("payout")) + n
<1> DEFINE c == Column("payout")
<1>1. c \in [Order -> Int]
  BY BooksType
<1>2. /\ \A x \in Order : c[x] = IF row[x] = NoRow THEN 0 ELSE row[x]["payout"]
      /\ c' = [x \in Order |-> IF row'[x] = NoRow THEN 0 ELSE row'[x]["payout"]]
  BY DEF Column
<1>3. row \in [Order -> Row \cup {NoRow}]
  BY DEF TypeInv, TypeOK
<1>4. c[o] = 0
  BY <1>2 DEF EmptyRow
<1>5. \A x \in Order : row'[x] = IF x = o THEN v ELSE row[x]
  BY <1>3
<1> HIDE DEF c
<1>6. DiffersAt(o, n, c, c', Order)
  BY <1>1, <1>2, <1>4, <1>5 DEF DiffersAt
<1>7. c' \in [Order -> Int]
  <2>1. \A x \in Order : c'[x] \in Int
    BY <1>1, <1>6 DEF DiffersAt
  <2> QED
    BY <1>2, <2>1
<1>8. SumFunction(c') = SumFunction(c) + n
  BY <1>1, <1>6, <1>7, SumMoves
<1> QED
  BY <1>8 DEF c

\* what write w of the handler t adds to the riders' side, or takes from it
Change(t, w) ==
    CASE w = "credit" -> RiderShare(t.order, t.rate)
      [] w = "row" -> 0 - RiderShare(t.order, t.rate)
      [] w = "payout" -> t.amount
      [] w = "debit" -> 0 - t.amount
      [] OTHER -> 0

\* A write changes by its amount how far one side is ahead; the last write evens it.
LEMMA AheadMoves ==
    ASSUME NEW t, NEW w \in t.todo, NEW u, t.pc = "write",
           t.amount \in Int, RiderShare(t.order, t.rate) \in Int \/ t.order = NoOrder,
           t.order # NoOrder => t.todo \subseteq {"row", "status", "credit"},
           t.order = NoOrder => t.todo \subseteq {"payout", "debit"},
           IF t.todo = {w} THEN u = Idle
           ELSE /\ u.todo = t.todo \ {w} /\ u.pc = t.pc /\ u.order = t.order
                /\ u.rate = t.rate /\ u.amount = t.amount
    PROVE  Ahead(u) = Ahead(t) + Change(t, w) /\ Ahead(t) \in Int
<1>1. Ahead(Idle) = 0
  BY DEF Ahead, Idle
<1>2. CASE t.order # NoOrder
  <2>1. PICK s : s = RiderShare(t.order, t.rate)
    OBVIOUS
  <2>2. s \in Int /\ w \in {"row", "status", "credit"}
    BY <1>2, <2>1
  <2>3. Change(t, w) = IF w = "credit" THEN s ELSE IF w = "row" THEN 0 - s ELSE 0
    BY <2>1, <2>2 DEF Change
  <2>4. Ahead(t) = (IF "credit" \in t.todo THEN 0 ELSE s) - (IF "row" \in t.todo THEN 0 ELSE s)
    BY <1>2, <2>1 DEF Ahead
  <2>5. CASE t.todo = {w}
    BY <1>1, <2>2, <2>3, <2>4, <2>5
  <2>6. CASE t.todo # {w}
    <3>1. Ahead(u) = (IF "credit" \in t.todo \ {w} THEN 0 ELSE s)
                     - (IF "row" \in t.todo \ {w} THEN 0 ELSE s)
      BY <1>2, <2>1, <2>6 DEF Ahead
    <3> QED
      BY <2>2, <2>3, <2>4, <3>1
  <2> QED
    BY <2>5, <2>6
<1>3. CASE t.order = NoOrder
  <2>1. w \in {"payout", "debit"}
    BY <1>3
  <2>2. Change(t, w) = IF w = "payout" THEN t.amount ELSE 0 - t.amount
    BY <2>1 DEF Change
  <2>3. Ahead(t) = (IF "payout" \in t.todo THEN 0 ELSE t.amount)
                   - (IF "debit" \in t.todo THEN 0 ELSE t.amount)
    BY <1>3 DEF Ahead
  <2>4. CASE t.todo = {w}
    BY <1>1, <2>1, <2>2, <2>3, <2>4
  <2>5. CASE t.todo # {w}
    <3>1. Ahead(u) = (IF "payout" \in t.todo \ {w} THEN 0 ELSE t.amount)
                     - (IF "debit" \in t.todo \ {w} THEN 0 ELSE t.amount)
      BY <1>3, <2>5 DEF Ahead
    <3> QED
      BY <2>1, <2>2, <2>3, <3>1
  <2> QED
    BY <2>4, <2>5
<1> QED
  BY <1>2, <1>3

\* When the only handler becomes u, the rows are kept if they are kept for u.
LEMMA RowsRestOnHandler ==
    ASSUME OneAtATime, task \in [Proc -> Task], NEW p \in Proc, NEW u,
           task' = [task EXCEPT ![p] = u]
    PROVE  /\ Handler' = u
           /\ (\A o \in Order : RowKept(o, u)') => RowsKept'
<1>1. task'[p] = u
  OBVIOUS
<1>2. Handler' = u
  BY <1>1, HandlerIs
<1> QED
  BY <1>2 DEF RowsKept, RowKept, RowWritten

\* Rows of other orders are kept by a step of the handler that leaves them alone.
LEMMA OtherRowsKept ==
    ASSUME NEW t, NEW u, NEW o \in Order, RowKept(o, t), t.order # o, u.order # o,
           row'[o] = row[o], paymentStatus'[o] = paymentStatus[o]
    PROVE  RowKept(o, u)'
BY DEF RowKept, RowWritten, Booked, Gross

\* A write that lands leaves every row as its status and its handler have it.
LEMMA WriteKeepsRows ==
    ASSUME OneAtATime, TypeInv, SerialInv, BooksInv, NEW p \in Proc, NEW w, Lands(p, w),
           IF w = "row"
           THEN row' = [row EXCEPT ![task[p].order] =
                          [gross |-> Gross(task[p].order),
                           commission |-> Commission(task[p].order, task[p].rate),
                           payout |-> RiderShare(task[p].order, task[p].rate)]]
           ELSE row' = row
    PROVE  RowsKept'
<1>t. PICK t : t = task[p]
  OBVIOUS
<1>0. /\ task \in [Proc -> Task] /\ row \in [Order -> Row \cup {NoRow}]
      /\ paymentStatus \in [Order -> {"PENDING", "AUTHORIZED", "CAPTURED"}]
      /\ LocalsOK(t) /\ HandlerAlone(t) /\ w \in t.todo /\ NoOrder \notin Order
      /\ \A o \in Order : RowKept(o, t)
  BY <1>t, HandlerIs DEF TypeInv, TypeOK, SerialInv, Lands, BooksInv, RowsKept
<1>1. t.pc = "write"
  BY <1>0 DEF LocalsOK
<1>2. PICK u : /\ task' = [task EXCEPT ![p] = u]
               /\ IF t.todo = {w} THEN u = Idle
                  ELSE /\ u.todo = t.todo \ {w} /\ u.pc = t.pc /\ u.order = t.order
  BY <1>0, <1>t, AfterWrite DEF Lands
<1>3. ASSUME NEW o \in Order, o # t.order
      PROVE  RowKept(o, u)'
  <2>1. row'[o] = row[o] /\ paymentStatus'[o] = paymentStatus[o]
    BY <1>0, <1>t, <1>3 DEF Lands
  <2>2. u.order # o
    BY <1>0, <1>2, <1>3 DEF Idle
  <2> QED
    BY <1>0, <1>3, <2>1, <2>2, OtherRowsKept
<1>4. ASSUME NEW o \in Order, o = t.order
      PROVE  RowKept(o, u)'
  <2>1. /\ t.rate \in Rates /\ t.todo \subseteq {"row", "status", "credit"}
        /\ "status" \in t.todo <=> paymentStatus[o] # "CAPTURED"
    BY <1>0, <1>1, <1>4 DEF LocalsOK, HandlerAlone
  <2>2. paymentStatus'[o] = IF w = "status" THEN "CAPTURED" ELSE paymentStatus[o]
    BY <1>0, <1>t, <1>4 DEF Lands
  <2>3. CASE "row" \in t.todo /\ w # "row"
    <3>1. u.pc = t.pc /\ u.order = o /\ "row" \in u.todo /\ row' = row
      BY <1>2, <1>4, <2>3
    <3>2. ~RowWritten(o, t) /\ ~RowWritten(o, u)'
      BY <1>1, <1>4, <2>3, <3>1 DEF RowWritten
    <3> QED
      BY <1>0, <1>1, <3>1, <3>2 DEF RowKept
  <2>4. CASE "row" \notin t.todo \/ w = "row"
    <3>1. Booked(o)'
      <4>1. CASE w = "row"
        <5>1. row'[o] = [gross |-> Gross(o), commission |-> Commission(o, t.rate),
                         payout |-> RiderShare(o, t.rate)]
          BY <1>0, <1>t, <1>4, <4>1
        <5>2. Commission(o, t.rate) + RiderShare(o, t.rate) = Gross(o) /\ row'[o] \in Row
          BY <2>1, <5>1, SharesAddUp DEF Row
        <5> QED
          BY <5>1, <5>2 DEF Booked, Gross
      <4>2. CASE w # "row"
        <5>1. RowWritten(o, t) /\ row' = row
          BY <1>1, <1>4, <2>4, <4>2 DEF RowWritten
        <5> QED
          BY <1>0, <5>1 DEF RowKept, Booked, Gross
      <4> QED
        BY <4>1, <4>2
    <3>2. RowWritten(o, u)'
      <4>1. CASE t.todo = {w}
        <5>1. u.order # o
          BY <1>0, <1>2, <4>1 DEF Idle
        <5> QED
          BY <2>1, <2>2, <4>1, <5>1 DEF RowWritten
      <4>2. CASE t.todo # {w}
        BY <1>1, <1>2, <1>4, <2>4, <4>2 DEF RowWritten
      <4> QED
        BY <4>1, <4>2
    <3> QED
      BY <3>1, <3>2 DEF RowKept
  <2> QED
    BY <2>3, <2>4
<1> QED
  BY <1>0, <1>2, <1>3, <1>4, RowsRestOnHandler

\* Each write keeps the books.
LEMMA WriteKeepsBooks ==
    ASSUME OneAtATime, TypeInv, TypeInv', SerialInv, BooksInv, NEW p \in Proc,
           \/ WriteRow(p) \/ CaptureOrder(p) \/ CreditWallet(p)
           \/ CreatePayout(p) \/ DebitWallet(p)
    PROVE  BooksInv'
<1>t. PICK t : t = task[p]
  OBVIOUS
<1>0. /\ task \in [Proc -> Task] /\ row \in [Order -> Row \cup {NoRow}] /\ t \in Task
      /\ wallet \in [Rider -> Int] /\ paidOut \in [Rider -> Int]
      /\ LocalsOK(t) /\ HandlerAlone(t) /\ NoOrder \notin Order
      /\ SumFunction(Earned) = SumFunction(Column("payout")) + Ahead(t)
      /\ \A o \in Order : RowKept(o, t)
  BY <1>t, HandlerIs DEF TypeInv, TypeOK, SerialInv, BooksInv, SumsAgree, RowsKept
<1> USE DEF bookVars, gatewayVars, worldVars, boundVars
<1>1. PICK w \in Writes : /\ Lands(p, w)
                          /\ \/ w = "row" /\ WriteRow(p)
                             \/ w = "status" /\ CaptureOrder(p)
                             \/ w = "credit" /\ CreditWallet(p)
                             \/ w = "payout" /\ CreatePayout(p)
                             \/ w = "debit" /\ DebitWallet(p)
  BY WritesLand
<1>2. w \in t.todo /\ t.pc = "write" /\ t.payee \in Rider /\ t.amount \in Int
  BY <1>0, <1>1, <1>t DEF Lands, LocalsOK, HandlerAlone, Task
<1>3. /\ t.order # NoOrder => /\ t.order \in Order /\ RiderShare(t.order, t.rate) \in Int
                              /\ t.todo \subseteq {"row", "status", "credit"}
      /\ t.order = NoOrder => t.todo \subseteq {"payout", "debit"}
  BY <1>0, <1>2, SharesAddUp DEF LocalsOK, HandlerAlone
<1>4. PICK u : /\ task' = [task EXCEPT ![p] = u]
               /\ IF t.todo = {w} THEN u = Idle
                  ELSE /\ u.todo = t.todo \ {w} /\ u.pc = t.pc /\ u.order = t.order
                       /\ u.rate = t.rate /\ u.payee = t.payee /\ u.amount = t.amount
  BY <1>0, <1>1, <1>t, AfterWrite DEF Lands
<1>5. Ahead(u) = Ahead(t) + Change(t, w) /\ Ahead(t) \in Int
  BY <1>2, <1>3, <1>4, AheadMoves
<1>6. Ahead(Handler)' = Ahead(u)
  <2>1. Handler' = u
    BY <1>0, <1>4, RowsRestOnHandler
  <2> QED
    BY <2>1 DEF Ahead, RiderShare, Gross, Commission
<1>7. RowsKept'
  <2>1. IF w = "row"
        THEN row' = [row EXCEPT ![task[p].order] =
                       [gross |-> Gross(task[p].order),
                        commission |-> Commission(task[p].order, task[p].rate),
                        payout |-> RiderShare(task[p].order, task[p].rate)]]
        ELSE row' = row
    BY <1>1 DEF WriteRow, CaptureOrder, CreditWallet, CreatePayout, DebitWallet
  <2> QED
    BY <1>1, <2>1, WriteKeepsRows
<1>8. PICK e, c : e = SumFunction(Earned) /\ c = SumFunction(Column("payout"))
  OBVIOUS
<1>9. e \in Int /\ c \in Int /\ e = c + Ahead(t)
  BY <1>0, <1>8, BooksType, SumIsInt
<1>10. CASE w = "row"
  <2>1. t.order \in Order /\ RiderShare(t.order, t.rate) \in Int
    BY <1>2, <1>3, <1>10
  <2>2. PICK v : v = [gross |-> Gross(t.order), commission |-> Commission(t.order, t.rate),
                      payout |-> RiderShare(t.order, t.rate)]
    OBVIOUS
  <2>3. /\ row' = [row EXCEPT ![t.order] = v] /\ v["payout"] = RiderShare(t.order, t.rate)
        /\ UNCHANGED <<wallet, paidOut>>
    BY <1>1, <1>10, <1>t, <2>2 DEF WriteRow, CaptureOrder, CreditWallet, CreatePayout, DebitWallet
  <2>4. v # NoRow
    <3>1. t.rate \in Rates
      BY <1>0, <1>2, <1>10 DEF LocalsOK
    <3>2. v \in Row
      BY <2>1, <2>2, <3>1, SharesAddUp DEF Row
    <3> QED
      BY <3>2
  <2>5. row[t.order] = NoRow \/ row[t.order] = EmptyRow
    BY <1>0, <1>2, <1>10, <2>1 DEF RowKept, RowWritten
  <2>6. SumFunction(Column("payout")') = c + RiderShare(t.order, t.rate)
    BY <1>8, <2>1, <2>3, <2>4, <2>5, RowMoves
  <2>7. SumFunction(Earned') = e
    BY <1>8, <2>3 DEF Earned
  <2>8. SumFunction(Earned') = SumFunction(Column("payout")') + Ahead(u)
    BY <1>5, <1>9, <1>10, <2>1, <2>6, <2>7 DEF Change
  <2> QED
    BY <1>6, <1>7, <2>8 DEF BooksInv, SumsAgree
<1>11. CASE w # "row"
  <2>1. row' = row
    BY <1>1, <1>11 DEF WriteRow, CaptureOrder, CreditWallet, CreatePayout, DebitWallet
  <2>2. SumFunction(Column("payout")') = c
    BY <1>8, <2>1 DEF Column
  <2>3. Change(t, w) \in Int
    BY <1>2, <1>3, <1>11 DEF Change
  <2>4. \A x \in Rider : wallet'[x] + paidOut'[x]
                           = wallet[x] + paidOut[x] + IF x = t.payee THEN Change(t, w) ELSE 0
    BY <1>0, <1>1, <1>2, <1>3, <1>11, <1>t
       DEF Change, CaptureOrder, CreditWallet, CreatePayout, DebitWallet
  <2>5. SumFunction(Earned') = e + Change(t, w)
    BY <1>2, <1>8, <2>3, <2>4, EarnedMoves
  <2>6. SumFunction(Earned') = SumFunction(Column("payout")') + Ahead(u)
    BY <1>5, <1>9, <2>2, <2>3, <2>5
  <2> QED
    BY <1>6, <1>7, <2>6 DEF BooksInv, SumsAgree
<1> QED
  BY <1>10, <1>11

\* No step of payments breaks the books.
LEMMA BooksStep ==
    ASSUME OneAtATime, TypeInv, TypeInv', SerialInv, BooksInv, [Next]_vars
    PROVE  BooksInv'
<1>0. /\ faults = 0 /\ task \in [Proc -> Task] /\ NoOrder \notin Order
      /\ paymentStatus \in [Order -> {"PENDING", "AUTHORIZED", "CAPTURED"}]
      /\ row \in [Order -> Row \cup {NoRow}]
      /\ \A p \in Proc : LocalsOK(task[p]) /\ HandlerAlone(task[p]) /\ task[p] \in Task
  BY DEF TypeInv, TypeOK, SerialInv, OneAtATime
<1> USE DEF bookVars, gatewayVars, worldVars, boundVars
<1>1. ASSUME NEW p \in Proc, NEW u, task' = [task EXCEPT ![p] = u],
             Ahead(task[p]) = 0, Ahead(u) = 0, UNCHANGED <<wallet, paidOut>>,
             \A o \in Order : row'[o] = row[o] \/ (row[o] = NoRow /\ row'[o] = EmptyRow),
             \A o \in Order : RowKept(o, task[p]) => RowKept(o, u)'
      PROVE  BooksInv'
  <2>1. Handler = task[p] /\ Handler' = u
    BY <1>0, <1>1, HandlerIs
  <2>2. \A o \in Order : RowKept(o, Handler)'
    BY <1>1, <2>1 DEF BooksInv, RowsKept, RowKept, RowWritten
  <2> QED
    BY <1>1, <2>1, <2>2, NothingUnderWay
<1>2. ASSUME NEW p \in Proc, NEW i \in Order,
             \/ InitiatePayment(p, i) \/ ConfirmCash(p, i)
             \/ PaystackWebhook(p, i) \/ OpayWebhook(p, i)
      PROVE  BooksInv'
  <2>1. PICK pc, r : Begin(p, pc, i, r) /\ pc \in {"authorize", "note", "rate"}
    BY <1>2 DEF InitiatePayment, ConfirmCash, PaystackWebhook, OpayWebhook
  <2>2. PICK u : u = Payment(pc, i, r)
    OBVIOUS
  <2>3. u.pc = pc /\ u.order = i /\ task' = [task EXCEPT ![p] = u]
    BY <2>1, <2>2 DEF Begin, Payment
  <2>4. task[p] = Idle /\ UNCHANGED <<paymentStatus, row, wallet, paidOut>>
    BY <1>2 DEF InitiatePayment, ConfirmCash, PaystackWebhook, OpayWebhook, Working
  <2>5. Ahead(task[p]) = 0 /\ Ahead(u) = 0
    BY <2>1, <2>3, <2>4 DEF Ahead, Idle
  <2>6. \A o \in Order : RowKept(o, task[p]) => RowKept(o, u)'
    BY <1>0, <2>1, <2>3, <2>4 DEF RowKept, RowWritten, Booked, Gross, Idle
  <2> QED
    BY <1>1, <2>3, <2>4, <2>5, <2>6
<1>3. ASSUME NEW p \in Proc, NEW r \in Rider, NEW amount \in PayoutAmounts,
             ProcessPayout(p, r, amount)
      PROVE  BooksInv'
  <2>1. PICK u : u = Payout(r, amount)
    OBVIOUS
  <2>2. /\ u.pc = "write" /\ u.order = NoOrder /\ u.todo = {"payout", "debit"}
        /\ task' = [task EXCEPT ![p] = u] /\ task[p] = Idle
        /\ UNCHANGED <<paymentStatus, row, wallet, paidOut>>
    BY <1>3, <2>1 DEF ProcessPayout, Payout, Working
  <2>3. Ahead(task[p]) = 0 /\ Ahead(u) = 0
    BY <2>2 DEF Ahead, Idle
  <2>4. \A o \in Order : RowKept(o, task[p]) => RowKept(o, u)'
    BY <1>0, <2>2 DEF RowKept, RowWritten, Booked, Gross, Idle
  <2> QED
    BY <1>1, <2>2, <2>3, <2>4
<1>4. ASSUME NEW p \in Proc, Authorize(p)
      PROVE  BooksInv'
  <2>1. /\ task' = [task EXCEPT ![p] = Idle] /\ task[p].pc = "authorize"
        /\ UNCHANGED <<row, wallet, paidOut>>
    BY <1>4 DEF Authorize, Finish
  <2>2. Ahead(task[p]) = 0 /\ Ahead(Idle) = 0
    BY <2>1 DEF Ahead, Idle
  <2>3. \A o \in Order : (paymentStatus'[o] = "CAPTURED") = (paymentStatus[o] = "CAPTURED")
    BY <1>0, <1>4 DEF Authorize, HandlerAlone
  <2>4. \A o \in Order : RowKept(o, task[p]) => RowKept(o, Idle)'
    BY <1>0, <2>1, <2>3 DEF RowKept, RowWritten, Booked, Gross, Idle
  <2> QED
    BY <1>1, <2>1, <2>2, <2>4
<1>5. ASSUME NEW p \in Proc, NoteReference(p)
      PROVE  BooksInv'
  <2>1. PICK u : /\ task' = [task EXCEPT ![p] = u]
                 /\ u.pc = "rate" /\ u.order = task[p].order
    <3>1. PICK u : u = [task[p] EXCEPT !.pc = "rate"]
      OBVIOUS
    <3>2. u.pc = "rate" /\ u.order = task[p].order
      BY <1>0, <3>1 DEF Task
    <3>3. task' = [task EXCEPT ![p] = u]
      BY <1>5, <3>1 DEF NoteReference
    <3> QED
      BY <3>2, <3>3
  <2>2. /\ task[p].pc = "note" /\ task[p].order \in Order
        /\ paymentStatus[task[p].order] # "CAPTURED"
        /\ UNCHANGED <<paymentStatus, wallet, paidOut>>
        /\ \A o \in Order : row'[o] = IF o = task[p].order /\ row[o] = NoRow
                                      THEN EmptyRow ELSE row[o]
    BY <1>0, <1>5 DEF NoteReference, LocalsOK, HandlerAlone, EmptyRow
  <2>3. Ahead(task[p]) = 0 /\ Ahead(u) = 0
    BY <2>1, <2>2 DEF Ahead
  <2>4. ASSUME NEW o \in Order, RowKept(o, task[p])
        PROVE  RowKept(o, u)'
    <3>1. RowWritten(o, u)' = RowWritten(o, task[p])
      BY <2>1, <2>2 DEF RowWritten
    <3>2. CASE RowWritten(o, task[p])
      <4>1. row'[o] = row[o]
        BY <2>2, <3>2 DEF RowWritten
      <4> QED
        BY <2>4, <3>1, <3>2, <4>1 DEF RowKept, Booked, Gross
    <3>3. CASE ~RowWritten(o, task[p])
      BY <2>1, <2>2, <2>4, <3>1, <3>3 DEF RowKept
    <3> QED
      BY <3>2, <3>3
  <2> QED
    BY <1>1, <2>1, <2>2, <2>3, <2>4
<1>6. ASSUME NEW p \in Proc, ReadRate(p)
      PROVE  BooksInv'
  <2>1. PICK u : /\ task' = [task EXCEPT ![p] = u]
                 /\ u.pc = "reread" /\ u.order = task[p].order
    <3>1. PICK u : u = [task[p] EXCEPT !.pc = "reread", !.rate = RateOf(task[p].rider)]
      OBVIOUS
    <3>2. u.pc = "reread" /\ u.order = task[p].order
      BY <1>0, <3>1 DEF Task
    <3>3. task' = [task EXCEPT ![p] = u]
      BY <1>0, <1>6, <3>1 DEF ReadRate
    <3> QED
      BY <3>2, <3>3
  <2>2. task[p].pc = "rate" /\ UNCHANGED <<paymentStatus, row, wallet, paidOut>>
    BY <1>6 DEF ReadRate
  <2>3. Ahead(task[p]) = 0 /\ Ahead(u) = 0
    BY <2>1, <2>2 DEF Ahead
  <2>4. \A o \in Order : RowKept(o, task[p]) => RowKept(o, u)'
    BY <2>1, <2>2 DEF RowKept, RowWritten, Booked, Gross
  <2> QED
    BY <1>1, <2>1, <2>2, <2>3, <2>4
<1>7. ASSUME NEW p \in Proc, ReadAgain(p)
      PROVE  BooksInv'
  <2>1. /\ task[p].pc = "reread" /\ task[p].order \in Order
        /\ paymentStatus[task[p].order] # "CAPTURED" /\ assignee[task[p].order] # NoRider
        /\ UNCHANGED <<paymentStatus, row, wallet, paidOut>>
    BY <1>0, <1>7 DEF ReadAgain, LocalsOK, HandlerAlone
  <2>2. PICK u : /\ task' = [task EXCEPT ![p] = u]
                 /\ u.pc = "write" /\ u.order = task[p].order
                 /\ "row" \in u.todo /\ "credit" \in u.todo
    <3>1. PICK r, d : /\ r = assignee[task[p].order] /\ {"row", "credit"} \subseteq d
                      /\ task' = [task EXCEPT ![p].pc = "write", ![p].payee = r, ![p].todo = d]
      BY <1>7, <2>1 DEF ReadAgain
    <3>2. PICK u : u = [task[p] EXCEPT !.pc = "write", !.payee = r, !.todo = d]
      OBVIOUS
    <3>3. u.pc = "write" /\ u.order = task[p].order /\ u.todo = d
      BY <1>0, <3>2 DEF Task
    <3>4. task' = [task EXCEPT ![p] = u]
      BY <1>0, <3>1, <3>2
    <3> QED
      BY <3>1, <3>3, <3>4
  <2>3. Ahead(task[p]) = 0 /\ Ahead(u) = 0
    BY <1>0, <2>1, <2>2 DEF Ahead
  <2>4. \A o \in Order : RowKept(o, task[p]) => RowKept(o, u)'
    BY <2>1, <2>2 DEF RowKept, RowWritten, Booked, Gross
  <2> QED
    BY <1>1, <2>1, <2>2, <2>3, <2>4
<1>8. ASSUME NEW p \in Proc,
             \/ WriteRow(p) \/ CaptureOrder(p) \/ CreditWallet(p)
             \/ CreatePayout(p) \/ DebitWallet(p)
      PROVE  BooksInv'
  BY <1>8, WriteKeepsBooks
<1>9. ASSUME NEW p \in Proc, Fail(p) \/ WriteFails(p)
      PROVE  FALSE
  BY <1>0, <1>9 DEF Fail, WriteFails, OneAtATime
<1>10. ASSUME Crash
       PROVE  FALSE
  BY <1>0, <1>10 DEF Crash, OneAtATime
<1>11. CASE Environment \/ UNCHANGED vars
  <2>1. UNCHANGED <<paymentStatus, row, wallet, paidOut, task>>
    BY <1>11 DEF Environment, Pay, Assign, ToggleSubscription, vars
  <2>2. UNCHANGED <<Earned, Column("payout"), Handler>>
    BY <2>1 DEF Earned, Column, Handler
  <2>3. RowsKept'
    BY <2>1, <2>2 DEF BooksInv, RowsKept, RowKept, RowWritten, Booked, Gross
  <2>4. SumsAgree'
    BY <2>2 DEF BooksInv, SumsAgree, Ahead, RiderShare, Gross, Commission
  <2> QED
    BY <2>3, <2>4 DEF BooksInv
<1> QED
  BY <1>2, <1>3, <1>4, <1>5, <1>6, <1>7, <1>8, <1>9, <1>10, <1>11 DEF Next, Call, Deliver, Step

\* Between handlers the books are those WalletsMatchBooks compares.
LEMMA BooksMatch == TypeInv /\ OneAtATime /\ BooksInv => WalletsMatchBooks
<1> SUFFICES ASSUME TypeInv, OneAtATime, BooksInv, \A p \in Proc : ~Working(p)
             PROVE  /\ SumFunction(Earned) = SumFunction(Column("payout"))
                    /\ SumFunction(Column("gross")) = SumFunction(CapturedPrices)
                    /\ SumFunction(Column("commission")) + SumFunction(Column("payout"))
                         = SumFunction(Column("gross"))
                    /\ {o \in Order : row[o] # NoRow}
                         = {o \in Order : paymentStatus[o] = "CAPTURED"}
  BY DEF WalletsMatchBooks, FinanceSummary, Earned
<1>1. Handler = Idle
  BY DEF Handler, Working
<1>2. Idle.pc = "idle"
  BY DEF Idle
<1>3. Ahead(Idle) = 0
  BY <1>2 DEF Ahead
<1>4. \A o \in Order : IF paymentStatus[o] = "CAPTURED" THEN Booked(o) ELSE row[o] = NoRow
  BY <1>1, <1>2 DEF BooksInv, RowsKept, RowKept, RowWritten
<1>5. SumFunction(Earned) = SumFunction(Column("payout"))
  <2>1. PICK c : c = SumFunction(Column("payout"))
    OBVIOUS
  <2>2. c \in Int
    BY <2>1, BooksType, SumIsInt
  <2>3. SumFunction(Earned) = c + 0
    BY <1>1, <1>3, <2>1 DEF BooksInv, SumsAgree
  <2> QED
    BY <2>1, <2>2, <2>3
<1>6. Column("gross") = CapturedPrices
  <2>1. ASSUME NEW o \in Order
        PROVE  (IF row[o] = NoRow THEN 0 ELSE row[o]["gross"])
                 = (IF paymentStatus[o] = "CAPTURED" THEN Gross(o) ELSE 0)
    BY <1>4 DEF Booked
  <2> QED
    BY <2>1 DEF Column, CapturedPrices
<1>7. SumFunction(Column("commission")) + SumFunction(Column("payout"))
        = SumFunction(Column("gross"))
  <2>1. PICK f, g \in [Order -> Int] : f = Column("commission") /\ g = Column("payout")
    BY BooksType
  <2>2. [o \in Order |-> f[o] + g[o]] = Column("gross")
    <3>1. ASSUME NEW o \in Order
          PROVE  f[o] + g[o] = IF row[o] = NoRow THEN 0 ELSE row[o]["gross"]
      BY <1>4, <2>1 DEF Column, Booked
    <3> QED
      BY <3>1 DEF Column
  <2>3. SumFunction([o \in Order |-> f[o] + g[o]]) = SumFunction(f) + SumFunction(g)
    BY SumAdds
  <2> QED
    BY <2>1, <2>2, <2>3
<1>8. \A o \in Order : row[o] # NoRow <=> paymentStatus[o] = "CAPTURED"
  BY <1>4 DEF Booked
<1> QED
  BY <1>5, <1>6, <1>7, <1>8

\* Whatever the customers, the gateways and the admins do: when handlers run one at a
\* time and none fails, the wallets with the payouts, the Payment rows, the captured
\* orders and the admin's summary agree whenever no handler is at work.
THEOREM BooksBalance == OneAtATime => (Spec => []WalletsMatchBooks)
<1> SUFFICES ASSUME OneAtATime PROVE Spec => []WalletsMatchBooks
  OBVIOUS
<1>1. Init => SerialInv
  BY IdleAlone DEF Init, SerialInv, RiderKnown
<1>2. Init => BooksInv
  <2> SUFFICES ASSUME Init PROVE BooksInv
    OBVIOUS
  <2>1. Handler = Idle /\ Idle.pc = "idle"
    BY DEF Init, Handler, Idle
  <2>2. Ahead(Handler) = 0
    BY <2>1 DEF Ahead
  <2>3. Earned = [r \in Rider |-> 0] /\ Column("payout") = [o \in Order |-> 0]
    BY DEF Init, Earned, Column
  <2>4. SumFunction(Earned) = 0 /\ SumFunction(Column("payout")) = 0
    BY <2>3, SumOfZeros
  <2>5. RowsKept
    BY <2>1 DEF Init, RowsKept, RowKept, RowWritten
  <2> QED
    BY <2>2, <2>4, <2>5 DEF BooksInv, SumsAgree
<1>3. TypeInv /\ SerialInv /\ [Next]_vars => SerialInv'
  BY SerialStep
<1>4. TypeInv /\ TypeInv' /\ SerialInv /\ BooksInv /\ [Next]_vars => BooksInv'
  BY BooksStep
<1>5. TypeInv /\ BooksInv => WalletsMatchBooks
  BY BooksMatch
<1> QED
  BY <1>1, <1>2, <1>3, <1>4, <1>5, TypeHolds, PTL DEF Spec

=============================================================================
