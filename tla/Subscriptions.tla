---------------------------- MODULE Subscriptions ----------------------------
(***************************************************************************)
(* SubscriptionsService and its hourly cron job: a user subscribes to a    *)
(* plan, cancels it, or lets it lapse; an admin may set any status.  The   *)
(* subscription is a row of one table and the commissionModel it gives a   *)
(* rider a column of another: two awaits, with other handlers in between.  *)
(*                                                                         *)
(* An action is what a handler does up to its next await.                  *)
(***************************************************************************)
EXTENDS Naturals, FiniteSets

CONSTANTS
    User,
    RiderUser,      \* the users who have a rider profile
    Sub,            \* ids of subscriptions; bounds how many are made
    Proc,           \* slots for HTTP handlers that run at the same time
    Cron,           \* the slot of the BullMQ worker, which runs one job a time
    NoSub,
    Week, Month,    \* 7 and 30 days, in units of the clock
    AdminStatuses,  \* the statuses an admin sets
    MaxTime,        \* bound: the clock
    MaxFaults       \* bound: awaits that throw, and restarts

ASSUME RiderAssumption == RiderUser \subseteq User
ASSUME CronAssumption == Cron \notin Proc
ASSUME PeriodAssumption == Week \in Nat \ {0} /\ Month \in Nat \ {0}
ASSUME AdminAssumption == AdminStatuses \subseteq {"ACTIVE", "EXPIRED", "CANCELLED"}
ASSUME BoundAssumption == MaxTime \in Nat /\ MaxFaults \in Nat

SubscriptionStatus == {"ACTIVE", "EXPIRED", "CANCELLED"}
CommissionModel == {"PERCENTAGE", "SUBSCRIPTION"}
SubscriptionPlan == {"BUSINESS_VOLUME", "BUSINESS_FLAT", "RIDER_WEEKLY", "RIDER_MONTHLY"}

\* isRiderPlan
RiderPlans == {"RIDER_WEEKLY", "RIDER_MONTHLY"}

\* durationDays of PLANS; the tiers of BUSINESS_VOLUME are alike here
Duration(plan) == IF plan = "RIDER_WEEKLY" THEN Week ELSE Month

\* rider: whether riderId is set, which is then the profile of the user
Row == [user : User, rider : BOOLEAN, status : SubscriptionStatus, endDate : Nat]
ASSUME RowAssumption == NoSub \notin Row

Slot == Proc \cup {Cron}

VARIABLES
    sub,      \* the Subscription table
    model,    \* RiderProfile.commissionModel
    clock,
    task,     \* the handler that runs in each slot
    faults,   \* faults counted against MaxFaults
    calm      \* history: no two handlers have overlapped, none has failed, no
              \* admin has written to a subscription that was over, and no rider
              \* has named a commission model

vars == <<sub, model, clock, task, faults, calm>>

-----------------------------------------------------------------------------
PC == {"idle", "create", "model_on", "cancel", "admin", "expire", "model_off"}

\* subs are the ids that the handler has read and will write, users the ones
\* whose model it will write
Task == [pc : PC, users : SUBSET User, plan : SubscriptionPlan \cup {"none"},
         subs : SUBSET Sub, status : SubscriptionStatus, now : Nat]

Handler(pc, users, plan, subs, status, now) ==
    [pc |-> pc, users |-> users, plan |-> plan, subs |-> subs,
     status |-> status, now |-> now]

Idle == Handler("idle", {}, "none", {}, "ACTIVE", 0)

Made(s) == sub[s] # NoSub
Active(s) == Made(s) /\ sub[s].status = "ACTIVE"

Expired(s) == Made(s) /\ sub[s].status = "EXPIRED"

\* hasActiveSubscription, and what getActiveSubscription finds
Entitled(u) == \E s \in Sub : Active(s) /\ sub[s].user = u /\ sub[s].endDate > clock

\* Mutant of HasSubscription: the end date is looked at, too.
HasUnexpired(u) == Entitled(u)

\* what subscribe and cancelSubscription look for
HasSubscription(u) == \E s \in Sub : Active(s) /\ sub[s].user = u

\* Mutant of Lapsed: the comparison is the wrong way round.
LapsedReversed == {s \in Sub : Active(s) /\ sub[s].endDate >= clock}

\* Mutant of Lapsed: only the run at the very end of the period finds it.
LapsedJustNow == {s \in Sub : Active(s) /\ sub[s].endDate = clock}

\* what the cron job looks for
Lapsed == {s \in Sub : Active(s) /\ sub[s].endDate <= clock}

\* Mutant of EndDate: the duration is subtracted.
EndBefore(plan) == clock - Duration(plan)

EndDate(plan) == clock + Duration(plan)

\* a handler starts in slot p with the record t, while others may be running
Begin(p, t) ==
    /\ task[p] = Idle
    /\ task' = [task EXCEPT ![p] = t]
    /\ calm' = (calm /\ \A q \in Slot : task[q] = Idle)

Become(p, t) == task' = [task EXCEPT ![p] = t]

\* the last write of a handler that has ended subscriptions of these users
ThenModelOff(p, users) ==
    Become(p, IF users = {} THEN Idle
              ELSE Handler("model_off", users, "none", {}, "ACTIVE", 0))

\* The users whose riderId the rows name.
Riders(ids) == {sub[s].user : s \in {i \in ids : sub[i].rider}}

-----------------------------------------------------------------------------
(* subscribe: two reads, the payment link, the row, the model.             *)

Subscribe(p, u, plan) ==
    /\ ~HasSubscription(u)
    /\ Cardinality({q \in Proc : task[q].pc = "create"})
         < Cardinality({s \in Sub : ~Made(s)})
    /\ Begin(p, Handler("create", {u}, plan, {}, "ACTIVE", 0))
    /\ UNCHANGED <<sub, model, clock, faults>>

\* The subscription is ACTIVE before it is paid for.
CreateRow(p, s) ==
    LET plan == task[p].plan
        rider == plan \in RiderPlans /\ task[p].users \subseteq RiderUser IN
    /\ task[p].pc = "create"
    /\ ~Made(s)
    /\ \E u \in task[p].users :
         sub' = [sub EXCEPT ![s] = [user |-> u, rider |-> rider,
                                    status |-> "ACTIVE",
                                    endDate |-> EndDate(plan)]]
    /\ Become(p, IF rider
                 THEN Handler("model_on", task[p].users, "none", {}, "ACTIVE", 0)
                 ELSE Idle)
    /\ UNCHANGED <<model, clock, faults, calm>>

ModelOn(p) ==
    /\ task[p].pc = "model_on"
    /\ model' = [u \in RiderUser |->
                   IF u \in task[p].users THEN "SUBSCRIPTION" ELSE model[u]]
    /\ Become(p, Idle)
    /\ UNCHANGED <<sub, clock, faults, calm>>

-----------------------------------------------------------------------------
(* cancelSubscription.                                                     *)

Cancel(p, s) ==
    /\ Active(s)
    /\ Begin(p, Handler("cancel", {}, "none", {s}, "CANCELLED", clock))
    /\ UNCHANGED <<sub, model, clock, faults>>

\* Mutant of CancelWrite: the model is left alone.
CancelRowOnly(p) ==
    /\ task[p].pc = "cancel"
    /\ sub' = [s \in Sub |->
                 IF s \in task[p].subs
                 THEN [sub[s] EXCEPT !.status = "CANCELLED",
                                     !.endDate = task[p].now]
                 ELSE sub[s]]
    /\ Become(p, Idle)
    /\ UNCHANGED <<model, clock, faults, calm>>

CancelWrite(p) ==
    /\ task[p].pc = "cancel"
    /\ sub' = [s \in Sub |->
                 IF s \in task[p].subs
                 THEN [sub[s] EXCEPT !.status = "CANCELLED",
                                     !.endDate = task[p].now]
                 ELSE sub[s]]
    /\ ThenModelOff(p, Riders(task[p].subs))
    /\ UNCHANGED <<model, clock, faults, calm>>

\* cancelSubscription, adminUpdateSubscription and the cron job end with it
ModelOff(p) ==
    /\ task[p].pc = "model_off"
    /\ model' = [u \in RiderUser |->
                   IF u \in task[p].users THEN "PERCENTAGE" ELSE model[u]]
    /\ Become(p, Idle)
    /\ UNCHANGED <<sub, clock, faults, calm>>

-----------------------------------------------------------------------------
(* adminUpdateSubscription: any subscription, whatever its status.         *)

AdminUpdate(p, s, status) ==
    /\ task[p] = Idle
    /\ Made(s)
    /\ Become(p, Handler("admin", {}, "none", {s}, status, 0))
    /\ calm' = (calm /\ Active(s) /\ \A q \in Slot : task[q] = Idle)
    /\ UNCHANGED <<sub, model, clock, faults>>

AdminWrite(p) ==
    LET status == task[p].status
        ends == status # "ACTIVE" IN
    /\ task[p].pc = "admin"
    /\ sub' = [s \in Sub |->
                 IF s \in task[p].subs
                 THEN [sub[s] EXCEPT !.status = status,
                                     !.endDate = IF ends THEN clock ELSE @]
                 ELSE sub[s]]
    /\ ThenModelOff(p, IF ends THEN Riders(task[p].subs) ELSE {})
    /\ UNCHANGED <<model, clock, faults, calm>>

-----------------------------------------------------------------------------
\* RidersService.updateRiderProfile takes a commissionModel, too (UpdateRiderDto).
\* It reads nothing first; to name the model the profile has changes nothing.
NameModel(u, named) ==
    /\ named # model[u]
    /\ model' = [model EXCEPT ![u] = named]
    /\ calm' = FALSE
    /\ UNCHANGED <<sub, clock, task, faults>>

-----------------------------------------------------------------------------
(* checkAndExpireSubscriptions, run by the cron job.                       *)

Expire ==
    /\ Lapsed # {}
    /\ Begin(Cron, Handler("expire", {}, "none", Lapsed, "EXPIRED", 0))
    /\ UNCHANGED <<sub, model, clock, faults>>

\* updateMany by id: the status may have changed since it was read
ExpireWrite(p) ==
    /\ task[p].pc = "expire"
    /\ sub' = [s \in Sub |-> IF s \in task[p].subs
                             THEN [sub[s] EXCEPT !.status = "EXPIRED"]
                             ELSE sub[s]]
    /\ ThenModelOff(p, Riders(task[p].subs))
    /\ UNCHANGED <<model, clock, faults, calm>>

-----------------------------------------------------------------------------
Tick ==
    /\ clock < MaxTime
    /\ clock' = clock + 1
    /\ UNCHANGED <<sub, model, task, faults, calm>>

\* an await throws; the cron job is not tried again
Fail(p) ==
    /\ faults < MaxFaults
    /\ task[p] # Idle
    /\ faults' = faults + 1
    /\ Become(p, Idle)
    /\ calm' = FALSE
    /\ UNCHANGED <<sub, model, clock>>

Crash ==
    /\ faults < MaxFaults
    /\ faults' = faults + 1
    /\ task' = [p \in Slot |-> Idle]
    /\ calm' = (calm /\ \A p \in Slot : task[p] = Idle)
    /\ UNCHANGED <<sub, model, clock>>

Init ==
    /\ sub = [s \in Sub |-> NoSub]
    /\ model = [u \in RiderUser |-> "PERCENTAGE"]
    /\ clock = 0
    /\ task = [p \in Slot |-> Idle]
    /\ faults = 0
    /\ calm = TRUE

\* the next await of the handler that runs in slot p
Step(p) ==
    \/ \E s \in Sub : CreateRow(p, s)
    \/ ModelOn(p) \/ CancelWrite(p) \/ ModelOff(p)
    \/ AdminWrite(p) \/ ExpireWrite(p)

Call(p) ==
    \/ \E u \in User, plan \in SubscriptionPlan : Subscribe(p, u, plan)
    \/ \E s \in Sub : Cancel(p, s)
    \/ \E s \in Sub, status \in AdminStatuses : AdminUpdate(p, s, status)

Next ==
    \/ \E p \in Proc : Call(p)
    \/ \E u \in RiderUser, named \in CommissionModel : NameModel(u, named)
    \/ Expire
    \/ \E p \in Slot : Step(p) \/ Fail(p)
    \/ Tick
    \/ Crash

Spec == Init /\ [][Next]_vars

\* Handlers that have started go on, and the cron job is run again and again.
Fairness == WF_vars(Expire) /\ \A p \in Slot : WF_vars(Step(p))

FairSpec == Spec /\ Fairness

-----------------------------------------------------------------------------
(* What subscriptions keep to.                                             *)

TypeOK ==
    /\ sub \in [Sub -> Row \cup {NoSub}]
    /\ model \in [RiderUser -> CommissionModel]
    /\ clock \in 0..MaxTime
    /\ task \in [Slot -> Task]
    /\ faults \in 0..MaxFaults
    /\ calm \in BOOLEAN

HasRiderPlan(u) == \E s \in Sub : Active(s) /\ sub[s].rider /\ sub[s].user = u

\* Handlers that have run one at a time and without a failure leave the two
\* tables in agreement: a rider's model is SUBSCRIPTION exactly while a
\* subscription of a rider plan is ACTIVE, whichever of subscribe,
\* cancelSubscription, the cron job and an admin wrote last.  An admin's write
\* to a subscription that is over is left out: closing an old row resets the
\* model of a rider who has a new one, and opening it again does not set it.  So
\* is a rider who names a model: nothing in updateRiderProfile looks at the plan.
ModelFollowsPlan ==
    calm /\ (\A p \in Slot : task[p] = Idle) =>
        \A u \in RiderUser : model[u] = "SUBSCRIPTION" <=> HasRiderPlan(u)

\* 'You already have an active subscription': nobody has two that are ACTIVE.
\* It holds as long as handlers have run one at a time.
OneActive ==
    calm => \A s, t \in Sub :
        Active(s) /\ Active(t) /\ sub[s].user = sub[t].user => s = t

\* A subscription that was paid for is not closed early: the cron job writes to
\* rows it read before, but what it marks EXPIRED has ended by then, even when
\* cancelSubscription or an admin has moved the end in between.
ExpiredHasEnded ==
    \A s \in Sub : Expired(s) => sub[s].endDate <= clock

\* A subscription whose period is over is closed by the hourly job in the end,
\* also when the job fails half-way or the server restarts.
LapsedIsClosed == \A s \in Sub : s \in Lapsed ~> ~Active(s)

=============================================================================
