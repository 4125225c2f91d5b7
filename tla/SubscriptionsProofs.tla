------------------------- MODULE SubscriptionsProofs -------------------------
(* Proofs about Subscriptions, for every set of users, rows and            *)
(* handlers, and any number of faults.                                     *)
EXTENDS Subscriptions, TLAPS

USE RiderAssumption, CronAssumption, PeriodAssumption, AdminAssumption,
    BoundAssumption, RowAssumption

-----------------------------------------------------------------------------
(* The invariant.  What a handler writes to the end of a row it read       *)
(* before: the cron job's rows have ended already, and stay so; the date   *)
(* that cancelSubscription took before its await is not ahead of the clock;*)
(* an admin's handler takes the date when it writes.                       *)

LocalsOK(t) ==
    /\ t.pc = "create" => t.plan \in SubscriptionPlan
    /\ t.pc \in {"cancel", "admin", "expire"} => \A s \in t.subs : Made(s)
    /\ t.pc = "expire" => \A s \in t.subs : sub[s].endDate <= clock
    /\ t.now <= clock

Inv == /\ TypeOK
       /\ \A p \in Slot : LocalsOK(task[p])
       /\ ExpiredHasEnded

\* A made row is a record, and its parts have their types.
LEMMA MadeRow ==
    ASSUME TypeOK, NEW s \in Sub, Made(s)
    PROVE  sub[s] \in Row
BY DEF TypeOK, Made

\* What a step must keep to, for the rows and for the handlers that go on: no
\* row is unmade, and no row that has ended gets a later end.
RowsKept ==
    /\ sub' \in [Sub -> Row \cup {NoSub}]
    /\ \A s \in Sub : Made(s) =>
         /\ Made(s)'
         /\ sub[s].endDate <= clock => sub'[s].endDate <= clock

\* The handlers that a step does not touch keep to the invariant.
LEMMA OneTaskChanges ==
    ASSUME Inv, RowsKept, UNCHANGED clock,
           NEW p \in Slot, NEW t \in Task, LocalsOK(t)', Become(p, t)
    PROVE  task' \in [Slot -> Task] /\ \A q \in Slot : LocalsOK(task[q])'
<1>1. task \in [Slot -> Task] /\ \A q \in Slot : task[q] \in Task /\ LocalsOK(task[q])
  BY DEF Inv, TypeOK
<1>2. task' = [task EXCEPT ![p] = t]
  BY DEF Become
<1>3. ASSUME NEW q \in Slot, q # p
      PROVE  LocalsOK(task[q])'
  <2>1. task'[q] = task[q] /\ task[q].subs \subseteq Sub
    BY <1>1, <1>2, <1>3 DEF Task
  <2> QED
    BY <1>1, <2>1 DEF LocalsOK, RowsKept
<1> QED
  BY <1>1, <1>2, <1>3

\* A slot that is emptied, or left with the last write of the models, fits.
LEMMA LastWriteType ==
    ASSUME Inv, RowsKept, UNCHANGED clock, NEW p \in Slot,
           \/ Become(p, Idle)
           \/ \E users \in SUBSET User : ThenModelOff(p, users)
           \/ \E users \in SUBSET User :
                Become(p, Handler("model_on", users, "none", {}, "ACTIVE", 0))
    PROVE  task' \in [Slot -> Task] /\ \A q \in Slot : LocalsOK(task[q])'
<1>0. clock' \in Nat
  BY DEF Inv, TypeOK
<1>1. PICK pc \in {"idle", "model_off", "model_on"}, users \in SUBSET User :
        Become(p, Handler(pc, users, "none", {}, "ACTIVE", 0))
  BY DEF ThenModelOff, Idle
<1> DEFINE t == Handler(pc, users, "none", {}, "ACTIVE", 0)
<1>2. t \in Task /\ t.pc = pc /\ t.now = 0
  BY DEF Handler, Task, PC, SubscriptionStatus
<1> HIDE DEF t
<1>3. LocalsOK(t)'
  BY <1>0, <1>2 DEF LocalsOK
<1>4. Become(p, t)
  BY <1>1 DEF t
<1> QED
  BY <1>2, <1>3, <1>4, OneTaskChanges

\* The riders named by rows that are there are users.
LEMMA RidersType ==
    ASSUME TypeOK, NEW ids \in SUBSET Sub, \A s \in ids : Made(s)
    PROVE  Riders(ids) \subseteq User
BY MadeRow DEF Riders, Row

\* Updating some of the rows that are there keeps the rows, when none of the
\* new rows ends later than now.
LEMMA UpdateKeepsRows ==
    ASSUME Inv, NEW ids \in SUBSET Sub, \A s \in ids : Made(s),
           NEW new, \A s \in ids : new[s] \in Row,
           \A s \in ids : sub[s].endDate <= clock \/ new[s].status = "EXPIRED"
                            => new[s].endDate <= clock,
           sub' = [s \in Sub |-> IF s \in ids THEN new[s] ELSE sub[s]],
           UNCHANGED clock
    PROVE  RowsKept /\ ExpiredHasEnded'
<1>1. /\ sub \in [Sub -> Row \cup {NoSub}]
      /\ \A s \in Sub : sub[s] # NoSub /\ sub[s].status = "EXPIRED" => sub[s].endDate <= clock
  BY DEF Inv, TypeOK, ExpiredHasEnded, Expired, Made
<1>2. \A s \in ids : sub'[s] = new[s] /\ new[s] \in Row /\ new[s] # NoSub
  OBVIOUS
<1>3. \A s \in Sub \ ids : sub'[s] = sub[s]
  OBVIOUS
<1>4. RowsKept
  BY <1>1, <1>2, <1>3 DEF RowsKept, Made
<1>5. ExpiredHasEnded'
  BY <1>1, <1>2, <1>3 DEF ExpiredHasEnded, Expired, Made
<1> QED
  BY <1>4, <1>5

\* No call, await, run of the job, tick or fault breaks the invariant.
LEMMA InvStep == Inv /\ [Next]_vars => Inv'
<1> SUFFICES ASSUME Inv, [Next]_vars
             PROVE  Inv'
  OBVIOUS
<1> DEFINE Tasks == task' \in [Slot -> Task] /\ \A q \in Slot : LocalsOK(task[q])'
<1>0. /\ TypeOK /\ task \in [Slot -> Task] /\ clock \in Nat
      /\ \A p \in Slot : task[p] \in Task /\ LocalsOK(task[p])
      /\ ExpiredHasEnded
      /\ \A s \in Sub : Made(s) => sub[s] \in Row
  BY MadeRow DEF Inv, TypeOK
<1>k. UNCHANGED <<sub, clock>> => RowsKept /\ ExpiredHasEnded'
  BY <1>0 DEF RowsKept, ExpiredHasEnded, Expired, Made, TypeOK
\* a call or the job starts a handler
<1>1. ASSUME NEW p \in Slot, UNCHANGED <<sub, model, clock, faults>>,
             \/ \E u \in User, plan \in SubscriptionPlan : Subscribe(p, u, plan)
             \/ \E s \in Sub : Cancel(p, s)
             \/ \E s \in Sub, status \in AdminStatuses : AdminUpdate(p, s, status)
             \/ p = Cron /\ Expire
      PROVE  Inv'
  <2>1. calm' \in BOOLEAN
    BY <1>0, <1>1 DEF Subscribe, Cancel, AdminUpdate, Expire, Begin, TypeOK
  <2>2. \E t \in Task : Become(p, t) /\ LocalsOK(t)
    <3>1. ASSUME NEW u \in User, NEW plan \in SubscriptionPlan, Subscribe(p, u, plan)
          PROVE  \E t \in Task : Become(p, t) /\ LocalsOK(t)
      <4> DEFINE t == Handler("create", {u}, plan, {}, "ACTIVE", 0)
      <4>1. t \in Task /\ LocalsOK(t)
        BY <1>0 DEF Handler, Task, PC, SubscriptionStatus, LocalsOK
      <4> QED
        BY <3>1, <4>1 DEF Subscribe, Begin, Become
    <3>2. ASSUME NEW s \in Sub, Cancel(p, s)
          PROVE  \E t \in Task : Become(p, t) /\ LocalsOK(t)
      <4> DEFINE t == Handler("cancel", {}, "none", {s}, "CANCELLED", clock)
      <4>1. t \in Task /\ LocalsOK(t)
        BY <1>0, <3>2 DEF Cancel, Active, Handler, Task, PC, SubscriptionStatus, LocalsOK
      <4> QED
        BY <3>2, <4>1 DEF Cancel, Begin, Become
    <3>3. ASSUME NEW s \in Sub, NEW status \in AdminStatuses, AdminUpdate(p, s, status)
          PROVE  \E t \in Task : Become(p, t) /\ LocalsOK(t)
      <4> DEFINE t == Handler("admin", {}, "none", {s}, status, 0)
      <4>1. t \in Task /\ LocalsOK(t)
        BY <1>0, <3>3 DEF AdminUpdate, Handler, Task, PC, SubscriptionStatus, LocalsOK
      <4> QED
        BY <3>3, <4>1 DEF AdminUpdate
    <3>4. ASSUME p = Cron, Expire
          PROVE  \E t \in Task : Become(p, t) /\ LocalsOK(t)
      <4> DEFINE t == Handler("expire", {}, "none", Lapsed, "EXPIRED", 0)
      <4>1. Lapsed \subseteq Sub /\ \A s \in Lapsed : Made(s) /\ sub[s].endDate <= clock
        BY DEF Lapsed, Active
      <4>2. t \in Task /\ LocalsOK(t)
        BY <1>0, <4>1 DEF Handler, Task, PC, SubscriptionStatus, LocalsOK
      <4> QED
        BY <3>4, <4>2 DEF Expire, Begin, Become
    <3> QED
      BY <1>1, <3>1, <3>2, <3>3, <3>4
  <2>3. PICK t \in Task : Become(p, t) /\ LocalsOK(t)
    BY <2>2
  <2>4. LocalsOK(t)'
    BY <1>1, <2>3 DEF LocalsOK, Made
  <2>5. Tasks
    BY <1>1, <1>k, <2>3, <2>4, OneTaskChanges
  <2> QED
    BY <1>0, <1>1, <1>k, <2>1, <2>5 DEF Inv, TypeOK
<1>2. ASSUME NEW p \in Slot, NEW s \in Sub, CreateRow(p, s)
      PROVE  Inv'
  <2> DEFINE plan == task[p].plan
  <2>1. plan \in SubscriptionPlan /\ Duration(plan) \in Nat /\ UNCHANGED <<model, clock, faults, calm>>
    BY <1>0, <1>2 DEF CreateRow, LocalsOK, Duration
  <2>2. PICK row \in Row : sub' = [sub EXCEPT ![s] = row] /\ row.status = "ACTIVE"
    <3> DEFINE rider == plan \in RiderPlans /\ task[p].users \subseteq RiderUser
    <3>1. PICK u \in task[p].users :
            sub' = [sub EXCEPT ![s] = [user |-> u, rider |-> rider, status |-> "ACTIVE",
                                       endDate |-> EndDate(plan)]]
      BY <1>2 DEF CreateRow
    <3>2. u \in User /\ rider \in BOOLEAN
      BY <1>0 DEF Task
    <3> HIDE DEF rider
    <3>3. EndDate(plan) \in Nat
      BY <1>0, <2>1 DEF EndDate
    <3> DEFINE row == [user |-> u, rider |-> rider, status |-> "ACTIVE",
                       endDate |-> EndDate(plan)]
    <3>4. row \in Row /\ row.status = "ACTIVE"
      BY <3>2, <3>3 DEF Row, SubscriptionStatus
    <3> QED
      BY <3>1, <3>4
  <2>3. RowsKept
    BY <1>0, <1>2, <2>2 DEF CreateRow, RowsKept, Made, TypeOK
  <2>4. ExpiredHasEnded'
    BY <1>0, <2>1, <2>2 DEF ExpiredHasEnded, Expired, Made, TypeOK
  <2>5. Tasks
    BY <1>0, <1>2, <2>1, <2>3, LastWriteType DEF CreateRow, Task
  <2> QED
    BY <1>0, <2>1, <2>3, <2>4, <2>5 DEF Inv, TypeOK, RowsKept
<1>3. ASSUME NEW p \in Slot, ModelOn(p) \/ ModelOff(p)
      PROVE  Inv'
  <2>1. UNCHANGED <<sub, clock, faults, calm>> /\ Become(p, Idle)
    BY <1>3 DEF ModelOn, ModelOff
  <2>2. Tasks
    BY <1>k, <2>1, LastWriteType
  <2>3. model' \in [RiderUser -> CommissionModel]
    BY <1>0, <1>3 DEF ModelOn, ModelOff, TypeOK, CommissionModel
  <2> QED
    BY <1>0, <1>k, <2>1, <2>2, <2>3 DEF Inv, TypeOK
<1>4. ASSUME NEW p \in Slot, NEW ids \in SUBSET Sub, \A s \in ids : Made(s),
             NEW new, \A s \in ids : new[s] \in Row,
             \A s \in ids : sub[s].endDate <= clock \/ new[s].status = "EXPIRED"
                              => new[s].endDate <= clock,
             sub' = [s \in Sub |-> IF s \in ids THEN new[s] ELSE sub[s]],
             UNCHANGED <<model, clock, faults, calm>>,
             \E users \in SUBSET User : ThenModelOff(p, users)
      PROVE  Inv'
  <2>1. RowsKept /\ ExpiredHasEnded'
    BY <1>4, UpdateKeepsRows
  <2>2. Tasks
    BY <1>4, <2>1, LastWriteType
  <2> QED
    BY <1>0, <1>4, <2>1, <2>2 DEF Inv, TypeOK, RowsKept
<1>5. ASSUME NEW p \in Slot, CancelWrite(p)
      PROVE  Inv'
  <2> DEFINE ids == task[p].subs
             new == [s \in Sub |-> [sub[s] EXCEPT !.status = "CANCELLED",
                                                  !.endDate = task[p].now]]
  <2>1. /\ ids \subseteq Sub /\ \A s \in ids : Made(s) /\ sub[s] \in Row
        /\ task[p].now \in Nat /\ task[p].now <= clock
    BY <1>0, <1>5 DEF CancelWrite, LocalsOK, Task
  <2>2. ASSUME NEW s \in ids PROVE new[s] \in Row /\ new[s].endDate <= clock
    <3>1. sub[s] \in Row /\ new[s] = [sub[s] EXCEPT !.status = "CANCELLED",
                                                   !.endDate = task[p].now]
      BY <2>1
    <3> HIDE DEF new
    <3> QED
      BY <2>1, <3>1 DEF Row, SubscriptionStatus
  <2>3. sub' = [s \in Sub |-> IF s \in ids THEN new[s] ELSE sub[s]]
    BY <1>5 DEF CancelWrite
  <2>4. /\ UNCHANGED <<model, clock, faults, calm>>
        /\ \E users \in SUBSET User : ThenModelOff(p, users)
    BY <1>0, <1>5, <2>1, RidersType DEF CancelWrite
  <2> HIDE DEF ids, new
  <2> QED
    BY <1>4, <2>1, <2>2, <2>3, <2>4
<1>6. ASSUME NEW p \in Slot, AdminWrite(p)
      PROVE  Inv'
  <2> DEFINE ids == task[p].subs
             ends == task[p].status # "ACTIVE"
             new == [s \in Sub |-> [sub[s] EXCEPT !.status = task[p].status,
                                                  !.endDate = IF ends THEN clock ELSE @]]
  <2>1. /\ ids \subseteq Sub /\ \A s \in ids : Made(s) /\ sub[s] \in Row
        /\ task[p].status \in SubscriptionStatus
    BY <1>0, <1>6 DEF AdminWrite, LocalsOK, Task
  <2>2. \A s \in ids :
          /\ new[s] \in Row
          /\ sub[s].endDate <= clock \/ new[s].status = "EXPIRED" =>
               new[s].endDate <= clock
    <3> SUFFICES ASSUME NEW s \in ids
                 PROVE  /\ new[s] \in Row
                        /\ sub[s].endDate <= clock \/ new[s].status = "EXPIRED" =>
                             new[s].endDate <= clock
      OBVIOUS
    <3>1. new[s] = [sub[s] EXCEPT !.status = task[p].status,
                                  !.endDate = IF ends THEN clock ELSE @]
      BY <2>1
    <3>2. CASE ends
      <4>1. new[s] = [sub[s] EXCEPT !.status = task[p].status, !.endDate = clock]
        BY <3>1, <3>2
      <4>2. sub[s] \in Row /\ task[p].status \in SubscriptionStatus /\ clock \in Nat
        BY <1>0, <2>1
      <4> HIDE DEF new
      <4>3. new[s] \in Row /\ new[s].endDate = clock
        BY <4>1, <4>2 DEF Row
      <4> QED
        BY <4>2, <4>3
    <3>3. CASE ~ends
      <4>1. new[s] = [sub[s] EXCEPT !.status = "ACTIVE"]
        BY <2>1, <3>1, <3>3 DEF Row
      <4>2. sub[s] \in Row
        BY <2>1
      <4> HIDE DEF new
      <4>3. new[s] \in Row /\ new[s].status = "ACTIVE" /\ new[s].endDate = sub[s].endDate
        BY <4>1, <4>2 DEF Row, SubscriptionStatus
      <4> QED
        BY <2>1, <3>3, <4>3
    <3> QED
      BY <3>2, <3>3
  <2>3. sub' = [s \in Sub |-> IF s \in ids THEN new[s] ELSE sub[s]]
    BY <1>6 DEF AdminWrite
  <2>4. /\ UNCHANGED <<model, clock, faults, calm>>
        /\ \E users \in SUBSET User : ThenModelOff(p, users)
    BY <1>0, <1>6, <2>1, RidersType DEF AdminWrite
  <2> HIDE DEF ids, new
  <2> QED
    BY <1>4, <2>1, <2>2, <2>3, <2>4
<1>7. ASSUME NEW p \in Slot, ExpireWrite(p)
      PROVE  Inv'
  <2> DEFINE ids == task[p].subs
             new == [s \in Sub |-> [sub[s] EXCEPT !.status = "EXPIRED"]]
  <2>1. /\ ids \subseteq Sub /\ \A s \in ids : Made(s) /\ sub[s] \in Row
        /\ \A s \in ids : sub[s].endDate <= clock
    BY <1>0, <1>7 DEF ExpireWrite, LocalsOK, Task
  <2>2. \A s \in ids : new[s] \in Row /\ new[s].endDate <= clock
    BY <2>1 DEF Row, SubscriptionStatus
  <2>3. sub' = [s \in Sub |-> IF s \in ids THEN new[s] ELSE sub[s]]
    BY <1>7 DEF ExpireWrite
  <2>4. /\ UNCHANGED <<model, clock, faults, calm>>
        /\ \E users \in SUBSET User : ThenModelOff(p, users)
    BY <1>0, <1>7, <2>1, RidersType DEF ExpireWrite
  <2> HIDE DEF ids, new
  <2> QED
    BY <1>4, <2>1, <2>2, <2>3, <2>4
<1>8. CASE Tick
  <2>1. UNCHANGED <<sub, model, task, faults, calm>> /\ clock' = clock + 1
        /\ clock' \in 0..MaxTime
    BY <1>0, <1>8 DEF Tick, TypeOK
  <2>2. \A p \in Slot : task[p].now \in Nat /\ task[p].subs \subseteq Sub
    BY <1>0 DEF Task
  <2>3. \A s \in Sub : Made(s) => sub[s].endDate \in Nat
    BY <1>0 DEF Row
  <2>4. \A p \in Slot : LocalsOK(task[p])'
    BY <1>0, <2>1, <2>2, <2>3 DEF LocalsOK, Made
  <2>5. ExpiredHasEnded'
    BY <1>0, <2>1, <2>3 DEF ExpiredHasEnded, Expired, Made
  <2> QED
    BY <1>0, <2>1, <2>4, <2>5 DEF Inv, TypeOK
<1>9. ASSUME NEW p \in Slot, Fail(p)
      PROVE  Inv'
  <2>0. calm' \in BOOLEAN
    BY <1>9 DEF Fail
  <2>1. UNCHANGED <<sub, model, clock>> /\ faults' \in 0..MaxFaults /\ Become(p, Idle)
    BY <1>0, <1>9 DEF Fail, TypeOK
  <2>2. Tasks
    BY <1>k, <2>1, LastWriteType
  <2> QED
    BY <1>0, <1>k, <2>0, <2>1, <2>2 DEF Inv, TypeOK
<1>10. CASE Crash
  <2>0. calm' \in BOOLEAN
    BY <1>0, <1>10 DEF Crash, TypeOK
  <2>1. UNCHANGED <<sub, model, clock>> /\ faults' \in 0..MaxFaults
    BY <1>0, <1>10 DEF Crash, TypeOK
  <2>2. Idle \in Task /\ LocalsOK(Idle)'
    BY <1>0, <2>1 DEF Idle, Handler, Task, PC, SubscriptionStatus, LocalsOK
  <2>3. Tasks
    BY <1>10, <2>2 DEF Crash
  <2> QED
    BY <1>0, <1>k, <2>0, <2>1, <2>3 DEF Inv, TypeOK
<1>11. CASE UNCHANGED vars
  BY <1>0, <1>k, <1>11 DEF vars, Inv, TypeOK, LocalsOK, Made
<1>12. ASSUME NEW p \in Proc, Call(p)
       PROVE  Inv'
  BY <1>1, <1>12 DEF Call, Slot, Subscribe, Cancel, AdminUpdate
<1>13. CASE Expire
  BY <1>1, <1>13 DEF Slot, Expire
<1>14. ASSUME NEW u \in RiderUser, NEW named \in CommissionModel, NameModel(u, named)
       PROVE  Inv'
  <2>1. UNCHANGED <<sub, clock, task, faults>> /\ calm' \in BOOLEAN
        /\ model' \in [RiderUser -> CommissionModel]
    BY <1>0, <1>14 DEF NameModel, TypeOK
  <2>2. \A p \in Slot : LocalsOK(task[p])'
    BY <1>0, <2>1 DEF LocalsOK, Made
  <2> QED
    BY <1>0, <1>k, <2>1, <2>2 DEF Inv, TypeOK
<1> QED
  BY <1>2, <1>3, <1>5, <1>6, <1>7, <1>8, <1>9, <1>10, <1>11, <1>12, <1>13, <1>14
  DEF Next, Step

\* The invariant holds of every reachable state.
LEMMA InvHolds == Spec => []Inv
<1>1. Init => Inv
  BY DEF Init, Inv, TypeOK, LocalsOK, ExpiredHasEnded, Expired, Made, Idle,
     Handler, Task, PC, SubscriptionStatus, CommissionModel
<1> QED
  BY <1>1, InvStep, PTL DEF Spec

\* Whatever handlers, the job, admins and faults do, rows, models and the
\* handlers' local variables keep their types.
THEOREM TypeCorrect == Spec => []TypeOK
<1>1. Inv => TypeOK
  BY DEF Inv
<1> QED
  BY InvHolds, <1>1, PTL

\* Nobody's subscription is closed as EXPIRED before its end, although the job
\* writes to rows that it read before and that others have changed since.
THEOREM ExpiryIsNeverEarly == Spec => []ExpiredHasEnded
<1>1. Inv => ExpiredHasEnded
  BY DEF Inv
<1> QED
  BY InvHolds, <1>1, PTL

-----------------------------------------------------------------------------
(* Handlers that run one at a time.  Between two of them the models fit    *)
(* the rows; during one, it is the only one, what it has read is still so, *)
(* and the riders whose model does not fit are those it will write next.   *)
(* That nobody has two ACTIVE rows is part of the argument: otherwise      *)
(* closing one of them would reset the model of a rider who still has a    *)
(* plan.                                                                   *)

\* the model a rider has fits the rows
Agrees(u) == model[u] = "SUBSCRIPTION" <=> HasRiderPlan(u)

\* a handler is about to write the model of u
Pending(u) == \E p \in Slot : task[p].pc \in {"model_on", "model_off"} /\ u \in task[p].users

\* at most one handler runs
Alone == \A p, q \in Slot : task[p] # Idle /\ task[q] # Idle => p = q

\* nobody has two subscriptions that are ACTIVE
OnePerUser == \A s, t \in Sub :
    Active(s) /\ Active(t) /\ sub[s].user = sub[t].user => s = t

\* what a handler has read is still so
StillTrue(t) ==
    /\ t.pc = "create" => \E u \in User : t.users = {u} /\ ~HasSubscription(u)
    /\ t.pc \in {"cancel", "admin", "expire"} => \A s \in t.subs : Active(s)
    /\ t.pc = "model_on" => \A u \in t.users : HasRiderPlan(u)
    /\ t.pc = "model_off" => \A u \in t.users : ~HasRiderPlan(u)

CalmInv ==
    calm => /\ Alone
            /\ OnePerUser
            /\ \A p \in Slot : StillTrue(task[p])
            /\ \A u \in RiderUser : Agrees(u) \/ Pending(u)

\* Closing rows that are ACTIVE takes the plan from the riders these rows name,
\* and from nobody else, since nobody has two.
LEMMA ClosingEndsPlans ==
    ASSUME OnePerUser, NEW ids \in SUBSET Sub, \A s \in ids : Active(s),
           \A s \in Sub \ ids : sub'[s] = sub[s],
           \A s \in ids : ~Active(s)'
    PROVE  /\ OnePerUser'
           /\ \A u \in User : HasRiderPlan(u)' <=> HasRiderPlan(u) /\ u \notin Riders(ids)
<1>1. \A s \in Sub : Active(s)' <=> Active(s) /\ s \notin ids
  BY DEF Active, Made
<1>2. OnePerUser'
  BY <1>1 DEF OnePerUser
<1>3. ASSUME NEW u \in User, HasRiderPlan(u)'
      PROVE  HasRiderPlan(u) /\ u \notin Riders(ids)
  <2>1. PICK s \in Sub : Active(s)' /\ sub'[s].rider /\ sub'[s].user = u
    BY <1>3 DEF HasRiderPlan
  <2>2. s \notin ids /\ Active(s) /\ sub[s].rider /\ sub[s].user = u
    BY <1>1, <2>1
  <2>3. u \notin Riders(ids)
    BY <2>2 DEF OnePerUser, Riders
  <2> QED
    BY <2>2, <2>3 DEF HasRiderPlan
<1>4. ASSUME NEW u \in User, HasRiderPlan(u), u \notin Riders(ids)
      PROVE  HasRiderPlan(u)'
  <2>1. PICK s \in Sub : Active(s) /\ sub[s].rider /\ sub[s].user = u
    BY <1>4 DEF HasRiderPlan
  <2>2. s \notin ids
    BY <1>4, <2>1 DEF Riders
  <2>3. Active(s)' /\ sub'[s].rider /\ sub'[s].user = u
    BY <1>1, <2>1, <2>2
  <2> QED
    BY <2>3 DEF HasRiderPlan
<1> QED
  BY <1>2, <1>3, <1>4

\* While handlers run one at a time, a step of the one that runs leaves at most
\* its own slot in use.
LEMMA StillAlone ==
    ASSUME task \in [Slot -> Task], Alone, NEW p \in Slot, task[p] # Idle,
           NEW t, Become(p, t)
    PROVE  /\ task'[p] = t
           /\ \A q \in Slot \ {p} : task[q] = Idle /\ task'[q] = Idle
           /\ Alone'
BY DEF Alone, Become

\* A slot that is not in use has read nothing and will write no model.
LEMMA IdleIsTrue == StillTrue(Idle) /\ StillTrue(Idle)' /\ Idle.pc = "idle"
BY DEF Idle, Handler, StillTrue

\* While handlers run one at a time, no step breaks the agreement.
LEMMA CalmStep == Inv /\ CalmInv /\ [Next]_vars => CalmInv'
<1> SUFFICES ASSUME Inv, CalmInv, [Next]_vars, calm'
             PROVE  /\ Alone'
                    /\ OnePerUser'
                    /\ \A p \in Slot : StillTrue(task[p])'
                    /\ \A u \in RiderUser : Agrees(u)' \/ Pending(u)'
  BY DEF CalmInv
<1> DEFINE Goal == /\ Alone'
                   /\ OnePerUser'
                   /\ \A p \in Slot : StillTrue(task[p])'
                   /\ \A u \in RiderUser : Agrees(u)' \/ Pending(u)'
<1>0. /\ TypeOK /\ task \in [Slot -> Task] /\ model \in [RiderUser -> CommissionModel]
      /\ \A p \in Slot : task[p] \in Task /\ LocalsOK(task[p])
      /\ \A s \in Sub : Made(s) => sub[s] \in Row
  BY MadeRow DEF Inv, TypeOK
<1>c. calm => /\ Alone /\ OnePerUser /\ \A p \in Slot : StillTrue(task[p])
              /\ \A u \in RiderUser : Agrees(u) \/ Pending(u)
  BY DEF CalmInv
\* the rows and models stay as they are, and all slots have been idle
<1>1. ASSUME NEW p \in Slot, UNCHANGED <<sub, model>>, calm,
             \A q \in Slot : task[q] = Idle,
             NEW t \in Task, Become(p, t), StillTrue(t)
      PROVE  Goal
  <2>1. task'[p] = t /\ \A q \in Slot \ {p} : task'[q] = Idle
    BY <1>0, <1>1 DEF Become
  <2>2. \A u \in RiderUser : Agrees(u)
    BY <1>c, <1>1, IdleIsTrue DEF Pending
  <2>3. /\ \A u \in User : HasRiderPlan(u)' <=> HasRiderPlan(u)
        /\ \A u \in User : HasSubscription(u)' <=> HasSubscription(u)
        /\ \A s \in Sub : Active(s)' <=> Active(s)
    BY <1>1 DEF HasRiderPlan, HasSubscription, Active, Made
  <2>4. OnePerUser'
    BY <1>c, <1>1, <2>3 DEF OnePerUser
  <2>5. \A u \in RiderUser : Agrees(u)'
    BY <1>1, <2>2, <2>3 DEF Agrees
  <2>6. t.users \subseteq User /\ t.subs \subseteq Sub
    BY DEF Task
  <2>7. StillTrue(t)'
    BY <1>1, <2>3, <2>6 DEF StillTrue
  <2>8. Alone'
    BY <2>1 DEF Alone
  <2> QED
    BY <2>1, <2>4, <2>5, <2>7, <2>8, IdleIsTrue
\* the only handler moves on to t, and the models that do not fit are t's to write
<1>2. ASSUME NEW p \in Slot, calm, task[p] # Idle, NEW t, Become(p, t),
             OnePerUser', StillTrue(t)',
             \A u \in RiderUser :
               \/ Agrees(u)'
               \/ t.pc \in {"model_on", "model_off"} /\ u \in t.users
      PROVE  Goal
  <2>1. /\ task'[p] = t /\ Alone'
        /\ \A q \in Slot \ {p} : task'[q] = Idle
    BY <1>0, <1>c, <1>2, StillAlone
  <2>2. \A q \in Slot : StillTrue(task[q])'
    <3>1. StillTrue(task[p])'
      BY <1>2, <2>1 DEF StillTrue
    <3>2. \A q \in Slot \ {p} : StillTrue(task[q])'
      BY <2>1, IdleIsTrue DEF StillTrue
    <3> QED
      BY <3>1, <3>2
  <2>3. \A u \in RiderUser : Agrees(u)' \/ Pending(u)'
    BY <1>2, <2>1 DEF Pending
  <2> QED
    BY <1>2, <2>1, <2>2, <2>3
\* what a handler that is not about to write a model finds: all models fit
<1>3. ASSUME NEW p \in Slot, calm, task[p] # Idle,
             task[p].pc \notin {"model_on", "model_off"}
      PROVE  \A u \in RiderUser : Agrees(u)
  BY <1>c, <1>3, IdleIsTrue DEF Alone, Pending
<1>4. ASSUME NEW p \in Slot, \E u \in User, plan \in SubscriptionPlan : Subscribe(p, u, plan)
      PROVE  Goal
  <2>1. PICK u \in User, plan \in SubscriptionPlan : Subscribe(p, u, plan)
    BY <1>4
  <2> DEFINE t == Handler("create", {u}, plan, {}, "ACTIVE", 0)
  <2>2. t \in Task /\ StillTrue(t)
    BY <2>1 DEF Subscribe, Handler, Task, PC, SubscriptionStatus, StillTrue
  <2>3. Become(p, t) /\ calm /\ \A q \in Slot : task[q] = Idle
    BY <2>1 DEF Subscribe, Begin, Become
  <2> HIDE DEF t
  <2> QED
    BY <1>1, <2>1, <2>2, <2>3 DEF Subscribe
<1>5. ASSUME NEW p \in Slot, NEW s \in Sub, Cancel(p, s)
      PROVE  Goal
  <2> DEFINE t == Handler("cancel", {}, "none", {s}, "CANCELLED", clock)
  <2>2. t \in Task /\ StillTrue(t)
    BY <1>0, <1>5 DEF Cancel, Handler, Task, PC, SubscriptionStatus, StillTrue, TypeOK
  <2>3. Become(p, t) /\ calm /\ \A q \in Slot : task[q] = Idle
    BY <1>5 DEF Cancel, Begin, Become
  <2> HIDE DEF t
  <2> QED
    BY <1>1, <1>5, <2>2, <2>3 DEF Cancel
<1>6. ASSUME NEW p \in Slot, NEW s \in Sub, NEW status \in AdminStatuses, AdminUpdate(p, s, status)
      PROVE  Goal
  <2> DEFINE t == Handler("admin", {}, "none", {s}, status, 0)
  <2>1. calm /\ Active(s) /\ (\A q \in Slot : task[q] = Idle) /\ Become(p, t)
    BY <1>6 DEF AdminUpdate
  <2>2. t \in Task /\ StillTrue(t)
    BY <2>1 DEF Handler, Task, PC, SubscriptionStatus, StillTrue
  <2> HIDE DEF t
  <2> QED
    BY <1>1, <1>6, <2>1, <2>2 DEF AdminUpdate
<1>7. CASE Expire
  <2> DEFINE t == Handler("expire", {}, "none", Lapsed, "EXPIRED", 0)
  <2>1. t \in Task /\ StillTrue(t)
    BY DEF Handler, Task, PC, SubscriptionStatus, StillTrue, Lapsed
  <2>2. Cron \in Slot /\ Become(Cron, t) /\ calm /\ \A q \in Slot : task[q] = Idle
    BY <1>7 DEF Expire, Begin, Become, Slot
  <2> HIDE DEF t
  <2> QED
    BY <1>1, <1>7, <2>1, <2>2 DEF Expire
<1>8. ASSUME NEW p \in Slot, NEW s \in Sub, CreateRow(p, s)
      PROVE  Goal
  <2> DEFINE users == task[p].users
             rider == task[p].plan \in RiderPlans /\ users \subseteq RiderUser
  <2>0. PICK t : t = IF rider THEN Handler("model_on", users, "none", {}, "ACTIVE", 0)
                              ELSE Idle
    OBVIOUS
  <2>1. /\ calm /\ task[p].pc = "create" /\ task[p] # Idle /\ ~Made(s)
        /\ Become(p, t) /\ UNCHANGED model
    BY <1>8, <2>0, IdleIsTrue DEF CreateRow
  <2>2. PICK u \in User : users = {u} /\ ~HasSubscription(u)
    BY <1>c, <2>1 DEF StillTrue
  <2>3. PICK row : /\ sub' = [sub EXCEPT ![s] = row]
                   /\ row.user = u /\ row.rider = rider /\ row.status = "ACTIVE" /\ row \in Row
    <3> DEFINE row == [user |-> u, rider |-> rider, status |-> "ACTIVE",
                       endDate |-> EndDate(task[p].plan)]
    <3>1. sub' = [sub EXCEPT ![s] = row]
      BY <1>8, <2>2 DEF CreateRow
    <3>2. EndDate(task[p].plan) \in Nat
      BY <1>0, <2>1 DEF TypeOK, EndDate, Duration
    <3>3. row \in Row
      <4>1. rider \in BOOLEAN
        OBVIOUS
      <4> HIDE DEF rider
      <4> QED
        BY <3>2, <4>1 DEF Row, SubscriptionStatus
    <3> QED
      BY <3>1, <3>3
  <2>4. sub'[s] = row /\ row # NoSub /\ \A x \in Sub \ {s} : sub'[x] = sub[x]
    BY <1>0, <2>3 DEF TypeOK
  <2>5. /\ Active(s)' /\ ~Active(s)
        /\ \A x \in Sub \ {s} : Active(x)' <=> Active(x)
    BY <2>1, <2>3, <2>4 DEF Active, Made
  <2>6. \A x \in Sub : Active(x) => sub[x].user # u
    BY <2>2 DEF HasSubscription
  <2>7. OnePerUser'
    BY <1>c, <2>1, <2>3, <2>4, <2>5, <2>6 DEF OnePerUser
  <2> HIDE DEF rider
  <2>8. /\ HasRiderPlan(u)' <=> rider
        /\ ~HasRiderPlan(u)
        /\ \A v \in User \ {u} : HasRiderPlan(v)' <=> HasRiderPlan(v)
    BY <2>3, <2>4, <2>5, <2>6 DEF HasRiderPlan
  <2>9. \A v \in RiderUser : Agrees(v)
    BY <1>3, <2>1
  <2>10. CASE rider
    <3>1. t.pc = "model_on" /\ t.users = {u}
      BY <2>0, <2>2, <2>10 DEF Handler
    <3>2. StillTrue(t)'
      BY <2>8, <2>10, <3>1 DEF StillTrue
    <3>3. \A v \in RiderUser : v # u => Agrees(v)'
      BY <2>1, <2>8, <2>9 DEF Agrees
    <3> QED
      BY <1>2, <2>1, <2>7, <3>1, <3>2, <3>3
  <2>11. CASE ~rider
    <3>1. \A v \in RiderUser : Agrees(v)'
      BY <2>1, <2>8, <2>9, <2>11 DEF Agrees
    <3>2. t = Idle
      BY <2>0, <2>11
    <3> QED
      BY <1>2, <2>1, <2>7, <3>1, <3>2, IdleIsTrue
  <2> QED
    BY <2>10, <2>11
<1>9. ASSUME NEW p \in Slot, ModelOn(p) \/ ModelOff(p)
      PROVE  Goal
  <2>1. /\ calm /\ task[p].pc \in {"model_on", "model_off"} /\ task[p] # Idle
        /\ Become(p, Idle) /\ UNCHANGED sub
    BY <1>9, IdleIsTrue DEF ModelOn, ModelOff
  <2>2. /\ \A u \in User : HasRiderPlan(u)' <=> HasRiderPlan(u)
        /\ OnePerUser'
    BY <1>c, <2>1 DEF HasRiderPlan, Active, Made, OnePerUser
  <2>3. ASSUME NEW u \in RiderUser
        PROVE  Agrees(u)'
    <3>1. CASE u \in task[p].users
      BY <1>c, <1>9, <2>1, <2>2, <3>1 DEF ModelOn, ModelOff, StillTrue, Agrees
    <3>2. CASE u \notin task[p].users
      <4>1. Agrees(u)
        BY <1>c, <2>1, <3>2, IdleIsTrue DEF Pending, Alone
      <4>2. model'[u] = model[u]
        BY <1>9, <3>2 DEF ModelOn, ModelOff
      <4> QED
        BY <2>2, <4>1, <4>2 DEF Agrees
    <3> QED
      BY <3>1, <3>2
  <2> QED
    BY <1>2, <2>1, <2>2, <2>3, IdleIsTrue
\* cancelSubscription, an admin or the job closes rows that are ACTIVE
<1>10. ASSUME NEW p \in Slot, task[p].pc \in {"cancel", "admin", "expire"}, calm,
              UNCHANGED model,
              \A s \in Sub \ task[p].subs : sub'[s] = sub[s],
              \A s \in task[p].subs : ~Active(s)',
              ThenModelOff(p, Riders(task[p].subs))
       PROVE  Goal
  <2>0. PICK ids, users, t :
          /\ ids = task[p].subs /\ users = Riders(ids)
          /\ t = IF users = {} THEN Idle
                 ELSE Handler("model_off", users, "none", {}, "ACTIVE", 0)
    OBVIOUS
  <2>1. ids \in SUBSET Sub /\ (\A s \in ids : Active(s)) /\ task[p] # Idle
    BY <1>0, <1>c, <1>10, <2>0, IdleIsTrue DEF Task, StillTrue
  <2>2. /\ OnePerUser'
        /\ \A u \in User : HasRiderPlan(u)' <=> HasRiderPlan(u) /\ u \notin users
    BY <1>c, <1>10, <2>0, <2>1, ClosingEndsPlans
  <2>3. users \subseteq User
    BY <1>0, <2>0, <2>1, RidersType DEF Active
  <2>4. Become(p, t)
    BY <1>10, <2>0 DEF ThenModelOff
  <2>5. /\ users = {} => t = Idle
        /\ users # {} => t.pc = "model_off" /\ t.users = users
    BY <2>0 DEF Handler
  <2>6. StillTrue(t)'
    BY <2>2, <2>3, <2>5, IdleIsTrue DEF StillTrue
  <2>7. \A u \in RiderUser : u \notin users => Agrees(u)'
    BY <1>3, <1>10, <2>1, <2>2 DEF Agrees
  <2>8. \A u \in RiderUser : Agrees(u)' \/ (t.pc = "model_off" /\ u \in t.users)
    BY <2>5, <2>7
  <2>9. calm /\ task[p] # Idle /\ OnePerUser'
    BY <1>10, <2>1, <2>2
  <2> HIDE DEF Goal
  <2> QED
    BY <1>2, <2>4, <2>6, <2>8, <2>9
<1>11. ASSUME NEW p \in Slot, CancelWrite(p) \/ ExpireWrite(p)
       PROVE  Goal
  <2>1. \A s \in task[p].subs : s \in Sub /\ Made(s) /\ sub[s] \in Row
    BY <1>0, <1>11 DEF CancelWrite, ExpireWrite, LocalsOK, Task
  <2>2. ASSUME NEW s \in task[p].subs PROVE sub'[s].status # "ACTIVE"
    <3>1. sub[s] \in Row /\ s \in Sub
      BY <2>1
    <3>2. CASE CancelWrite(p)
      <4>1. sub'[s] = [sub[s] EXCEPT !.status = "CANCELLED", !.endDate = task[p].now]
        BY <3>1, <3>2 DEF CancelWrite
      <4> QED
        BY <3>1, <4>1 DEF Row
    <3>3. CASE ExpireWrite(p)
      <4>1. sub'[s] = [sub[s] EXCEPT !.status = "EXPIRED"]
        BY <3>1, <3>3 DEF ExpireWrite
      <4> QED
        BY <3>1, <4>1 DEF Row
    <3> QED
      BY <1>11, <3>2, <3>3
  <2> QED
    BY <1>10, <1>11, <2>2 DEF CancelWrite, ExpireWrite, Active
<1>12. ASSUME NEW p \in Slot, AdminWrite(p), task[p].status # "ACTIVE"
       PROVE  Goal
  <2>1. \A s \in task[p].subs : s \in Sub /\ Made(s) /\ sub[s] \in Row
    BY <1>0, <1>12 DEF AdminWrite, LocalsOK, Task
  <2>2. \A s \in task[p].subs : sub'[s].status # "ACTIVE"
    BY <1>12, <2>1 DEF AdminWrite, Row
  <2> QED
    BY <1>10, <1>12, <2>2 DEF AdminWrite, Active
\* an admin sets ACTIVE what is ACTIVE
<1>13. ASSUME NEW p \in Slot, AdminWrite(p), task[p].status = "ACTIVE"
       PROVE  Goal
  <2>1. \A s \in task[p].subs : s \in Sub /\ Active(s) /\ sub[s] \in Row
    BY <1>0, <1>c, <1>13 DEF AdminWrite, Task, StillTrue, Active
  <2>2. ASSUME NEW s \in Sub
        PROVE  sub'[s] = sub[s]
    <3>1. CASE s \in task[p].subs
      <4>1. sub'[s] = [sub[s] EXCEPT !.status = "ACTIVE", !.endDate = sub[s].endDate]
        BY <1>13, <3>1 DEF AdminWrite
      <4>2. sub[s] \in Row /\ sub[s].status = "ACTIVE"
        BY <2>1, <3>1 DEF Active
      <4>3. [sub[s] EXCEPT !.status = "ACTIVE", !.endDate = sub[s].endDate] = sub[s]
        BY <4>2 DEF Row
      <4> QED
        BY <4>1, <4>3
    <3>2. CASE s \notin task[p].subs
      BY <1>13, <3>2 DEF AdminWrite
    <3> QED
      BY <3>1, <3>2
  <2>3. calm /\ task[p] # Idle /\ Become(p, Idle) /\ UNCHANGED model
    BY <1>13, IdleIsTrue DEF AdminWrite, ThenModelOff
  <2>4. /\ \A u \in User : HasRiderPlan(u)' <=> HasRiderPlan(u)
        /\ OnePerUser'
    BY <1>c, <2>2, <2>3 DEF HasRiderPlan, Active, Made, OnePerUser
  <2>5. \A u \in RiderUser : Agrees(u)'
    BY <1>3, <1>13, <2>3, <2>4 DEF Agrees, AdminWrite
  <2> QED
    BY <1>2, <2>3, <2>4, <2>5, IdleIsTrue
<1>14. ASSUME UNCHANGED <<sub, model, task>>, calm
       PROVE  Goal
  <2>1. /\ \A u \in User : HasRiderPlan(u)' <=> HasRiderPlan(u)
        /\ \A u \in User : HasSubscription(u)' <=> HasSubscription(u)
        /\ \A s \in Sub : Active(s)' <=> Active(s)
    BY <1>14 DEF HasRiderPlan, HasSubscription, Active, Made
  <2>2. Alone' /\ OnePerUser' /\ \A u \in RiderUser : Agrees(u)' \/ Pending(u)'
    BY <1>c, <1>14, <2>1 DEF Alone, OnePerUser, Agrees, Pending
  <2>3. \A p \in Slot : task[p].users \subseteq User /\ task[p].subs \subseteq Sub
    BY <1>0 DEF Task
  <2>4. \A p \in Slot : StillTrue(task[p])'
    BY <1>c, <1>14, <2>1, <2>3 DEF StillTrue
  <2> QED
    BY <2>2, <2>4
<1>15. CASE Crash
  <2>1. calm /\ (\A p \in Slot : task[p] = Idle) /\ UNCHANGED <<sub, model>>
    BY <1>15 DEF Crash
  <2>2. task' = task
    BY <1>0, <1>15, <2>1 DEF Crash
  <2> QED
    BY <1>14, <2>1, <2>2
<1>16. CASE Tick \/ UNCHANGED vars
  BY <1>14, <1>16 DEF Tick, vars
<1>17. ASSUME NEW p \in Slot, Step(p) \/ Fail(p)
       PROVE  Goal
  BY <1>8, <1>9, <1>11, <1>12, <1>13, <1>17 DEF Step, Fail
<1>18. ASSUME NEW p \in Proc, Call(p)
       PROVE  Goal
  BY <1>4, <1>5, <1>6, <1>18 DEF Call, Slot
<1>19. ASSUME NEW u \in RiderUser, NEW named \in CommissionModel, NameModel(u, named)
       PROVE  Goal
  BY <1>19 DEF NameModel
<1> QED
  BY <1>7, <1>15, <1>16, <1>17, <1>18, <1>19 DEF Next

\* It holds of every reachable state.
LEMMA CalmInvHolds == Spec => []CalmInv
<1>1. Init => CalmInv
  BY DEF Init, CalmInv, Alone, OnePerUser, StillTrue, Agrees, HasRiderPlan,
     Active, Made, Idle, Handler
<1> QED
  BY <1>1, InvHolds, CalmStep, PTL DEF Spec

\* Handlers that run one at a time, and none of which fails, never leave a user
\* with two ACTIVE subscriptions: the check in subscribe, made an await before the row
\* is written, then suffices.
THEOREM NobodySubscribesTwice == Spec => []OneActive
<1>1. CalmInv => OneActive
  BY DEF CalmInv, OnePerUser, OneActive
<1> QED
  BY CalmInvHolds, <1>1, PTL

\* They leave every rider's commissionModel in agreement with the table, although
\* four handlers write the two tables one after the other and read neither
\* model nor other rows before they reset it.
THEOREM ModelsFollowPlans == Spec => []ModelFollowsPlan
<1>1. CalmInv => ModelFollowsPlan
  BY IdleIsTrue DEF CalmInv, ModelFollowsPlan, Pending, Agrees
<1> QED
  BY CalmInvHolds, <1>1, PTL

=============================================================================
