------------------------------ MODULE Dispatch ------------------------------
(***************************************************************************)
(* How an order finds a rider: OrdersService (create, cancel),             *)
(* MatchingService (search, offer, accept, reject), the BullMQ worker that *)
(* turns an unanswered offer into a rejection, and the two admin calls     *)
(* that write an order behind their back.                                  *)
(*                                                                         *)
(* A handler runs until its next `await`; an action is one such stretch,   *)
(* and the awaits of several handlers interleave.  A handler's local       *)
(* variables are a record in `task`.  The first read of a handler is made  *)
(* in the action that starts it: before it, the handler has done nothing.  *)
(*                                                                         *)
(* Time is counted in ticks, and every timer is a countdown: a Redis key   *)
(* disappears when its countdown reaches zero, a delayed job is due when   *)
(* its delay does.                                                         *)
(***************************************************************************)
EXTENDS Integers, Sequences, FiniteSets, SequencesExt

CONSTANTS
    Order,            \* order ids
    Rider,            \* rider profile ids
    InitialFleet,     \* the riders whose riderType is FLEET at first
    Proc,             \* slots for handlers that run at the same time
    NoOrder,
    NoRider,
    MATCH_TTL,        \* ticks an offer stays open (30 s in the code)
    CANDIDATE_TTL,    \* ticks the shortlist is kept (300 s in the code)
    MaxRequests,      \* bound: accept, reject, cancel, profile and admin calls made
    MaxFaults,        \* bound: handlers that throw, and process crashes
    OverrideStatuses, \* statuses an admin may force on an order
    Reassigns,        \* whether an admin reassigns orders
    FleetChanges,     \* whether riders join and leave the fleet
    Prompt            \* whether time passes only while no handler has work

ASSUME RiderAssumption == InitialFleet \subseteq Rider /\ IsFiniteSet(Rider)
ASSUME NoneAssumption == NoOrder \notin Order /\ NoRider \notin Rider
ASSUME TtlAssumption == /\ MATCH_TTL \in Nat \ {0}
                        /\ CANDIDATE_TTL \in Nat
                        /\ CANDIDATE_TTL > MATCH_TTL
ASSUME BoundAssumption == MaxRequests \in Nat /\ MaxFaults \in Nat
ASSUME FlagAssumption == {Reassigns, FleetChanges, Prompt} \subseteq BOOLEAN

\* enum OrderStatus
OrderStatus ==
    {"PENDING", "ASSIGNED", "EN_ROUTE_TO_PICKUP", "ARRIVED_AT_PICKUP",
     "PICKED_UP", "IN_TRANSIT", "ARRIVED_AT_DELIVERY", "DELIVERED_REQUESTED",
     "DELIVERED_CONFIRMED", "DISPUTED", "CANCELLED"}

CANCELLABLE_STATUSES == {"PENDING", "ASSIGNED", "EN_ROUTE_TO_PICKUP"}

ASSUME OverrideAssumption == OverrideStatuses \subseteq OrderStatus

VARIABLES
    status,     \* Order.status, "NONE" while the row does not exist
    riderId,    \* Order.riderId
    isPremium,  \* Order.isPremium
    fleet,      \* the riders whose RiderProfile.riderType is FLEET
    offer,      \* countdown of the Redis key match:<order>:<rider>, 0 if absent
    candidates, \* the Redis key match:<order>:candidates, <<>> if absent
    listTtl,    \* its countdown
    timeouts,   \* 'rider-timeout' jobs: how many per order, rider and delay
    task,       \* the handler that runs in each slot
    shortlist,  \* history: the list findMatch first stored for the order
    fleetThen,  \* history: the fleet when findMatch looked for riders
    asked,      \* history: the riders who were sent job_request for the order
    skipped,    \* history: orders refused by a rider on the list not yet asked
    told,       \* history: channels that told the customer there is no rider
    reassigned, \* history: orders an admin reassigned
    disturbed,  \* history: orders one of whose handlers threw or crashed
    overlapped, \* history: orders two of whose handlers were at work at once
    requests,   \* calls counted against MaxRequests
    faults      \* faults counted against MaxFaults

rowVars == <<status, riderId, isPremium, fleet>>
redisVars == <<offer, candidates, listTtl>>
historyVars == <<shortlist, fleetThen, asked, skipped, told, reassigned, disturbed>>
boundVars == <<requests, faults>>
vars == <<rowVars, redisVars, timeouts, task, historyVars, overlapped,
          boundVars>>

-----------------------------------------------------------------------------
(* The state a handler, a key and a job can be in. *)

PC == {"idle", "query", "store", "request", "emit", "enqueue",
       "accept_delkey", "accept_dellist", "accept_update",
       "reject_del", "reject_list", "exhaust_del", "exhaust_emit",
       "cancel_update"}

Task == [pc : PC, order : Order \cup {NoOrder}, rider : Rider \cup {NoRider},
         rest : Seq(Rider), job : Rider \cup {NoRider}]

\* a handler at await pc that works on order o for rider r, and the rider of the
\* timeout job it runs for, who is NoRider when a request started it
Handler(pc, o, r, job) ==
    [pc |-> pc, order |-> o, rider |-> r, rest |-> <<>>, job |-> job]

Idle == Handler("idle", NoOrder, NoRider, NoRider)

Delay == 0..MATCH_TTL

Working(p) == task[p] # Idle

Countdown(n) == IF n = 0 THEN 0 ELSE n - 1

\* one tick takes every delayed job one step closer; due jobs stay due
Sooner(jobs) ==
    [d \in Delay |-> (IF d = 0 THEN jobs[0] ELSE 0)
                     + (IF d = MATCH_TTL THEN 0 ELSE jobs[d + 1])]

\* the guard `if (!raw) return` of riderAccepted and `if (raw)` of riderRejected
OfferLive(o, r) == offer[o][r] > 0

\* JavaScript's indexOf, counting from 1, and 0 where indexOf gives -1
IndexOf(list, r) ==
    IF r \in ToSet(list) THEN CHOOSE i \in 1..Len(list) : list[i] = r ELSE 0

\* Mutant of Remaining: the end of the slice is off by one.
RemainingCutShort(list, r) == SubSeq(list, IndexOf(list, r) + 1, Len(list) - 1)

\* candidates.slice(idx + 1): all of the list when the rider is not on it
Remaining(list, r) == SubSeq(list, IndexOf(list, r) + 1, Len(list))

\* Mutant of Eligible: the FLEET filter is forgotten.
EligibleAnybody(o, nearby) == nearby

\* the FLEET filter that a premium order puts on the riders nearby
Eligible(o, nearby) == IF isPremium[o] THEN nearby \cap fleet ELSE nearby

\* BullMQ runs one job at a time in this worker (no concurrency option)
WorkerFree == \A p \in Proc : task[p].job = NoRider

Start(p, pc, o, r, job) ==
    /\ task' = [task EXCEPT ![p] = Handler(pc, o, r, job)]
    /\ overlapped' = overlapped \cup ({o} \cap {task[q].order : q \in Proc})
Move(p, pc) == task' = [task EXCEPT ![p].pc = pc] /\ UNCHANGED overlapped
Finish(p) == task' = [task EXCEPT ![p] = Idle] /\ UNCHANGED overlapped

-----------------------------------------------------------------------------
(* OrdersService.createOrder, and findMatch that it starts and forgets.    *)

\* The customer has a subscription or not; the row is created PENDING and
\* the matching of the order starts in the background.
CreateOrder(p, o, premium) ==
    /\ ~Working(p)
    /\ status[o] = "NONE"
    /\ status' = [status EXCEPT ![o] = "PENDING"]
    /\ isPremium' = [isPremium EXCEPT ![o] = premium]
    /\ Start(p, "query", o, NoRider, NoRider)
    /\ UNCHANGED <<riderId, fleet, redisVars, timeouts, historyVars, boundVars>>

\* findMatch: no rider nearby is allowed to take the order.
FindNobody(p) ==
    LET o == task[p].order IN
    /\ task[p].pc = "query"
    /\ \E nearby \in SUBSET Rider : Eligible(o, nearby) = {}
    /\ told' = [told EXCEPT ![o] = @ \cup {"socket", "notification"}]
    /\ Finish(p)
    /\ UNCHANGED <<rowVars, redisVars, timeouts, shortlist, fleetThen, asked,
                   skipped, reassigned, disturbed, boundVars>>

\* findMatch: the riders that the SQL query returns, filtered, then sorted by
\* acceptance rate and response time: any order, for these are not modelled.
FindRiders(p) ==
    LET o == task[p].order IN
    /\ task[p].pc = "query"
    /\ \E nearby \in SUBSET Rider :
         \E ranking \in SetToSeqs(Eligible(o, nearby)) :
            /\ ranking # <<>>
            /\ shortlist' = [shortlist EXCEPT ![o] = ranking]
            /\ task' = [task EXCEPT ![p].pc = "store", ![p].rest = ranking]
    /\ fleetThen' = [fleetThen EXCEPT ![o] = fleet]
    /\ UNCHANGED <<rowVars, redisVars, timeouts, asked, skipped, told,
                   reassigned, disturbed, overlapped, boundVars>>

\* Mutant of StoreCandidates: the time to live is that of the first list.
StoreKeepsTtl(p) ==
    LET o == task[p].order IN
    /\ task[p].pc = "store"
    /\ candidates' = [candidates EXCEPT ![o] = task[p].rest]
    /\ listTtl' = [listTtl EXCEPT ![o] = IF @ = 0 THEN CANDIDATE_TTL ELSE @]
    /\ task' = [task EXCEPT ![p].pc = "request",
                            ![p].rider = Head(task[p].rest),
                            ![p].rest = <<>>]
    /\ UNCHANGED <<rowVars, offer, timeouts, historyVars, overlapped,
                   boundVars>>

\* redis.set of the candidates, by findMatch and by riderRejected; its first
\* rider is asked next.
StoreCandidates(p) ==
    LET o == task[p].order IN
    /\ task[p].pc = "store"
    /\ candidates' = [candidates EXCEPT ![o] = task[p].rest]
    /\ listTtl' = [listTtl EXCEPT ![o] = CANDIDATE_TTL]
    /\ task' = [task EXCEPT ![p].pc = "request",
                            ![p].rider = Head(task[p].rest),
                            ![p].rest = <<>>]
    /\ UNCHANGED <<rowVars, offer, timeouts, historyVars, overlapped,
                   boundVars>>

-----------------------------------------------------------------------------
(* requestRider: open the offer, send it, arm its timeout.                 *)

\* Mutant of SetOffer: the key is set for as long as the list.
SetOfferForList(p) ==
    /\ task[p].pc = "request"
    /\ offer' = [offer EXCEPT ![task[p].order][task[p].rider] = CANDIDATE_TTL]
    /\ Move(p, "emit")
    /\ UNCHANGED <<rowVars, candidates, listTtl, timeouts, historyVars,
                   boundVars>>

SetOffer(p) ==
    /\ task[p].pc = "request"
    /\ offer' = [offer EXCEPT ![task[p].order][task[p].rider] = MATCH_TTL]
    /\ Move(p, "emit")
    /\ UNCHANGED <<rowVars, candidates, listTtl, timeouts, historyVars,
                   boundVars>>

EmitJobRequest(p) ==
    /\ task[p].pc = "emit"
    /\ asked' = [asked EXCEPT ![task[p].order] = @ \cup {task[p].rider}]
    /\ Move(p, "enqueue")
    /\ UNCHANGED <<rowVars, redisVars, timeouts, shortlist, fleetThen, skipped,
                   told, reassigned, disturbed, boundVars>>

\* Mutant of AddTimeout: the job has an id per order and rider, so that a second
\* one is not added while the first is queued.
AddTimeoutOnce(p) ==
    /\ task[p].pc = "enqueue"
    /\ timeouts' =
         IF \E d \in Delay : timeouts[task[p].order][task[p].rider][d] > 0
         THEN timeouts
         ELSE [timeouts EXCEPT
                 ![task[p].order][task[p].rider][MATCH_TTL] = @ + 1]
    /\ Finish(p)
    /\ UNCHANGED <<rowVars, redisVars, historyVars, boundVars>>

\* Mutant of AddTimeout: the job is not added.
AddTimeoutForgotten(p) ==
    /\ task[p].pc = "enqueue"
    /\ Finish(p)
    /\ UNCHANGED <<rowVars, redisVars, timeouts, historyVars, boundVars>>

AddTimeout(p) ==
    /\ task[p].pc = "enqueue"
    /\ timeouts' = [timeouts EXCEPT
                      ![task[p].order][task[p].rider][MATCH_TTL] = @ + 1]
    /\ Finish(p)
    /\ UNCHANGED <<rowVars, redisVars, historyVars, boundVars>>

-----------------------------------------------------------------------------
(* riderAccepted, for any rider whose key is set, asked already or not.  A  *)
(* late accept, whose key is gone, is ignored: no step.                    *)

Accept(p, o, r) ==
    /\ ~Working(p)
    /\ requests < MaxRequests
    /\ OfferLive(o, r)
    /\ Start(p, "accept_delkey", o, r, NoRider)
    /\ requests' = requests + 1
    /\ UNCHANGED <<rowVars, redisVars, timeouts, historyVars, faults>>

AcceptDelKey(p) ==
    /\ task[p].pc = "accept_delkey"
    /\ offer' = [offer EXCEPT ![task[p].order][task[p].rider] = 0]
    /\ Move(p, "accept_dellist")
    /\ UNCHANGED <<rowVars, candidates, listTtl, timeouts, historyVars,
                   boundVars>>

\* Mutant of AcceptDelList: the list outlives the accept.
AcceptKeepsList(p) ==
    /\ task[p].pc = "accept_dellist"
    /\ Move(p, "accept_update")
    /\ UNCHANGED <<rowVars, redisVars, timeouts, historyVars, boundVars>>

AcceptDelList(p) ==
    LET o == task[p].order IN
    /\ task[p].pc = "accept_dellist"
    /\ candidates' = [candidates EXCEPT ![o] = <<>>]
    /\ listTtl' = [listTtl EXCEPT ![o] = 0]
    /\ Move(p, "accept_update")
    /\ UNCHANGED <<rowVars, offer, timeouts, historyVars, boundVars>>

\* order.update: whatever the status is by now, it becomes ASSIGNED.
AcceptUpdate(p) ==
    LET o == task[p].order IN
    /\ task[p].pc = "accept_update"
    /\ status' = [status EXCEPT ![o] = "ASSIGNED"]
    /\ riderId' = [riderId EXCEPT ![o] = task[p].rider]
    /\ Finish(p)
    /\ UNCHANGED <<isPremium, fleet, redisVars, timeouts, historyVars, boundVars>>

-----------------------------------------------------------------------------
(* riderRejected, called by any rider or by the worker for a due timeout.  *)

StartRejection(p, o, r, job) ==
    Start(p, IF OfferLive(o, r) THEN "reject_del" ELSE "reject_list",
          o, r, job)

\* whether it was this rider who was asked or not; an order's id is known once its
\* row is there
Reject(p, o, r) ==
    /\ ~Working(p)
    /\ requests < MaxRequests
    /\ status[o] # "NONE"
    /\ StartRejection(p, o, r, NoRider)
    /\ requests' = requests + 1
    /\ UNCHANGED <<rowVars, redisVars, timeouts, historyVars, faults>>

\* Mutant of WorkerTakes: a job that is taken is not removed from the queue.
WorkerPeeks(p, o, r) ==
    /\ ~Working(p)
    /\ WorkerFree
    /\ timeouts[o][r][0] > 0
    /\ StartRejection(p, o, r, r)
    /\ UNCHANGED <<rowVars, redisVars, timeouts, historyVars, boundVars>>

WorkerTakes(p, o, r) ==
    /\ ~Working(p)
    /\ WorkerFree
    /\ timeouts[o][r][0] > 0
    /\ timeouts' = [timeouts EXCEPT ![o][r][0] = @ - 1]
    /\ StartRejection(p, o, r, r)
    /\ UNCHANGED <<rowVars, redisVars, historyVars, boundVars>>

\* Mutant of RejectDelKey: the offer of the rider who refused stays open.
RejectKeepsKey(p) ==
    /\ task[p].pc = "reject_del"
    /\ Move(p, "reject_list")
    /\ UNCHANGED <<rowVars, redisVars, timeouts, historyVars, boundVars>>

\* the offer was still open: close it (and lower the rider's averages)
RejectDelKey(p) ==
    /\ task[p].pc = "reject_del"
    /\ offer' = [offer EXCEPT ![task[p].order][task[p].rider] = 0]
    /\ Move(p, "reject_list")
    /\ UNCHANGED <<rowVars, candidates, listTtl, timeouts, historyVars,
                   boundVars>>

\* no list: already assigned, or expired
RejectNoList(p) ==
    /\ task[p].pc = "reject_list"
    /\ candidates[task[p].order] = <<>>
    /\ Finish(p)
    /\ UNCHANGED <<rowVars, redisVars, timeouts, historyVars, boundVars>>

\* the rider is on the list and his turn has not come
Unasked(o, r) == r \in ToSet(candidates[o]) \ asked[o]

\* Nothing asks whether the rider was asked: the list is cut after him.
RejectReadList(p) ==
    LET o == task[p].order
        rest == Remaining(candidates[o], task[p].rider)
    IN
    /\ task[p].pc = "reject_list"
    /\ candidates[o] # <<>>
    /\ task' = [task EXCEPT ![p].pc = IF rest = <<>> THEN "exhaust_del"
                                                      ELSE "store",
                            ![p].rest = rest]
    /\ skipped' = skipped \cup {a \in {o} : Unasked(a, task[p].rider)}
    /\ UNCHANGED <<rowVars, redisVars, timeouts, shortlist, fleetThen, asked,
                   told, reassigned, disturbed, overlapped, boundVars>>

ExhaustDelList(p) ==
    LET o == task[p].order IN
    /\ task[p].pc = "exhaust_del"
    /\ candidates' = [candidates EXCEPT ![o] = <<>>]
    /\ listTtl' = [listTtl EXCEPT ![o] = 0]
    /\ Move(p, "exhaust_emit")
    /\ UNCHANGED <<rowVars, offer, timeouts, historyVars, boundVars>>

\* Mutant of ExhaustEmit: nobody is told.
ExhaustSilently(p) ==
    /\ task[p].pc = "exhaust_emit"
    /\ Finish(p)
    /\ UNCHANGED <<rowVars, redisVars, timeouts, historyVars, boundVars>>

\* only the socket event; no NO_RIDERS notification on this path
ExhaustEmit(p) ==
    /\ task[p].pc = "exhaust_emit"
    /\ told' = [told EXCEPT ![task[p].order] = @ \cup {"socket"}]
    /\ Finish(p)
    /\ UNCHANGED <<rowVars, redisVars, timeouts, shortlist, fleetThen, asked,
                   skipped, reassigned, disturbed, boundVars>>

-----------------------------------------------------------------------------
(* OrdersService.cancelOrder, and the admin's writes.                      *)

Cancel(p, o) ==
    /\ ~Working(p)
    /\ requests < MaxRequests
    /\ status[o] \in CANCELLABLE_STATUSES
    /\ Start(p, "cancel_update", o, NoRider, NoRider)
    /\ requests' = requests + 1
    /\ UNCHANGED <<rowVars, redisVars, timeouts, historyVars, faults>>

CancelUpdate(p) ==
    /\ task[p].pc = "cancel_update"
    /\ status' = [status EXCEPT ![task[p].order] = "CANCELLED"]
    /\ Finish(p)
    /\ UNCHANGED <<riderId, isPremium, fleet, redisVars, timeouts, historyVars,
                   boundVars>>

\* The row is never deleted and the write does not depend on what was read,
\* so the write alone is the action.
OverrideOrderStatus(o, s) ==
    /\ requests < MaxRequests
    /\ status[o] # "NONE"
    /\ status' = [status EXCEPT ![o] = s]
    /\ requests' = requests + 1
    /\ UNCHANGED <<riderId, isPremium, fleet, redisVars, timeouts, task,
                   historyVars, overlapped, faults>>

ReassignOrder(o, r) ==
    /\ Reassigns
    /\ requests < MaxRequests
    /\ status[o] # "NONE"
    /\ status' = [status EXCEPT ![o] = "ASSIGNED"]
    /\ riderId' = [riderId EXCEPT ![o] = r]
    /\ reassigned' = reassigned \cup {o}
    /\ requests' = requests + 1
    /\ UNCHANGED <<isPremium, fleet, redisVars, timeouts, task, shortlist,
                   fleetThen, asked, skipped, told, disturbed, overlapped,
                   faults>>

\* An admin moves a rider into the fleet or out of it, or the rider's own
\* profile update does.
ChangeRiderFleet(r) ==
    /\ FleetChanges
    /\ requests < MaxRequests
    /\ fleet' \in {fleet \cup {r}, fleet \ {r}}
    /\ requests' = requests + 1
    /\ UNCHANGED <<status, riderId, isPremium, redisVars, timeouts, task,
                   historyVars, overlapped, faults>>

-----------------------------------------------------------------------------
(* Time, and what goes wrong.                                              *)

Quiet == /\ \A p \in Proc : ~Working(p)
         /\ \A o \in Order, r \in Rider : timeouts[o][r][0] = 0

Tick ==
    /\ Prompt => Quiet
    /\ offer' = [o \in Order |-> [r \in Rider |-> Countdown(offer[o][r])]]
    /\ listTtl' = [o \in Order |-> Countdown(listTtl[o])]
    /\ candidates' = [o \in Order |->
                        IF listTtl[o] > 1 THEN candidates[o] ELSE <<>>]
    /\ timeouts' = [o \in Order |-> [r \in Rider |-> Sooner(timeouts[o][r])]]
    /\ UNCHANGED <<rowVars, task, historyVars, overlapped, boundVars>>

\* An awaited call throws.  createOrder logs it, a controller answers 500, a
\* job is moved to the failed set and not tried again (attempts is 1).
Fail(p) ==
    /\ Working(p)
    /\ faults < MaxFaults
    /\ faults' = faults + 1
    /\ disturbed' = disturbed \cup {task[p].order}
    /\ Finish(p)
    /\ UNCHANGED <<rowVars, redisVars, timeouts, shortlist, fleetThen, asked,
                   skipped, told, reassigned, requests>>

\* The process dies: its handlers are lost, but Redis, Postgres and the queue
\* remain, and BullMQ runs the active job again once its lock has expired.
Crash ==
    /\ faults < MaxFaults
    /\ \E p \in Proc : Working(p)
    /\ faults' = faults + 1
    /\ disturbed' = disturbed \cup {task[p].order : p \in {q \in Proc : Working(q)}}
    /\ timeouts' = [o \in Order |-> [r \in Rider |->
         [timeouts[o][r] EXCEPT ![0] = @ +
            IF \E p \in Proc : task[p].order = o /\ task[p].job = r
            THEN 1 ELSE 0]]]
    /\ task' = [p \in Proc |-> Idle]
    /\ UNCHANGED <<rowVars, redisVars, shortlist, fleetThen, asked, skipped,
                   told, reassigned, overlapped, requests>>

-----------------------------------------------------------------------------
Init ==
    /\ status = [o \in Order |-> "NONE"]
    /\ riderId = [o \in Order |-> NoRider]
    /\ isPremium = [o \in Order |-> FALSE]
    /\ fleet = InitialFleet
    /\ offer = [o \in Order |-> [r \in Rider |-> 0]]
    /\ candidates = [o \in Order |-> <<>>]
    /\ listTtl = [o \in Order |-> 0]
    /\ timeouts = [o \in Order |-> [r \in Rider |-> [d \in Delay |-> 0]]]
    /\ task = [p \in Proc |-> Idle]
    /\ shortlist = [o \in Order |-> <<>>]
    /\ fleetThen = [o \in Order |-> {}]
    /\ asked = [o \in Order |-> {}]
    /\ skipped = {}
    /\ told = [o \in Order |-> {}]
    /\ reassigned = {}
    /\ disturbed = {}
    /\ overlapped = {}
    /\ requests = 0
    /\ faults = 0

\* the next stretch of the handler that runs in slot p
Step(p) ==
    \/ FindNobody(p) \/ FindRiders(p) \/ StoreCandidates(p)
    \/ SetOffer(p) \/ EmitJobRequest(p) \/ AddTimeout(p)
    \/ AcceptDelKey(p) \/ AcceptDelList(p) \/ AcceptUpdate(p)
    \/ RejectDelKey(p) \/ RejectNoList(p) \/ RejectReadList(p)
    \/ ExhaustDelList(p) \/ ExhaustEmit(p)
    \/ CancelUpdate(p)

\* what customers, riders and admins may ask for
Call ==
    \/ \E p \in Proc, o \in Order :
          \/ \E premium \in BOOLEAN : CreateOrder(p, o, premium)
          \/ \E r \in Rider : Accept(p, o, r) \/ Reject(p, o, r)
          \/ Cancel(p, o)
    \/ \E o \in Order :
          \/ \E s \in OverrideStatuses : OverrideOrderStatus(o, s)
          \/ \E r \in Rider : ReassignOrder(o, r)
    \/ \E r \in Rider : ChangeRiderFleet(r)

Worker == \E p \in Proc, o \in Order, r \in Rider : WorkerTakes(p, o, r)

Next ==
    \/ Call
    \/ \E p \in Proc : Step(p) \/ Fail(p)
    \/ Worker
    \/ Tick
    \/ Crash

Spec == Init /\ [][Next]_vars

\* A handler that has started goes on, the worker takes due jobs, and time
\* passes; nobody has to call.
Fairness ==
    /\ \A p \in Proc : WF_vars(Step(p))
    /\ WF_vars(Worker)
    /\ WF_vars(Tick)

FairSpec == Spec /\ Fairness

-----------------------------------------------------------------------------
(* What dispatch keeps to.                                                 *)

\* Every variable has its type.
TypeOK ==
    /\ status \in [Order -> OrderStatus \cup {"NONE"}]
    /\ riderId \in [Order -> Rider \cup {NoRider}]
    /\ isPremium \in [Order -> BOOLEAN]
    /\ fleet \subseteq Rider
    /\ offer \in [Order -> [Rider -> 0..MATCH_TTL]]
    /\ candidates \in [Order -> Seq(Rider)]
    /\ listTtl \in [Order -> 0..CANDIDATE_TTL]
    /\ timeouts \in [Order -> [Rider -> [Delay -> Nat]]]
    /\ task \in [Proc -> Task]
    /\ shortlist \in [Order -> Seq(Rider)]
    /\ fleetThen \in [Order -> SUBSET Rider]
    /\ asked \in [Order -> SUBSET Rider]
    /\ skipped \subseteq Order
    /\ told \in [Order -> SUBSET {"socket", "notification"}]
    /\ reassigned \subseteq Order
    /\ disturbed \subseteq Order
    /\ overlapped \subseteq Order
    /\ requests \in 0..MaxRequests
    /\ faults \in 0..MaxFaults

\* pcs at which a handler works for a rider
RiderPC == {"request", "emit", "enqueue", "accept_delkey", "accept_dellist",
            "accept_update", "reject_del", "reject_list"}

\* The local variables of a handler fit the await it is at.
LocalsOK(t) ==
    /\ t.pc # "idle" => t.order \in Order
    /\ t.pc = "store" => t.rest # <<>>
    /\ t.pc \in RiderPC => t.rider \in Rider
    /\ t.pc = "idle" => t = Idle

HandlerOK == \A p \in Proc : LocalsOK(task[p])

\* s is the end of t: what is left of t once riders were taken off its head
IsTailOf(s, t) ==
    /\ Len(s) <= Len(t)
    /\ \A i \in 1..Len(s) : s[i] = t[Len(t) - Len(s) + i]

\* However handlers interleave, the list in Redis, and the one a handler is
\* about to write, is a tail of the shortlist findMatch computed: no rider is
\* skipped in the middle, added or moved (riderRejected's slice).
CandidatesFollowRanking ==
    \A o \in Order :
        /\ IsTailOf(candidates[o], shortlist[o])
        /\ \A p \in Proc :
             task[p].order = o => IsTailOf(task[p].rest, shortlist[o])

\* an order whose handlers have run one at a time and without a fault
Alone(o) == o \notin overlapped \cup disturbed

\* Unless an admin chose him, the rider of an order is one of those findMatch
\* found for it, drove for the fleet then if the order is premium, and, when the
\* order's handlers did not overlap or fail, was asked: no rejection, stale
\* timeout or late accept brings in another (riderAccepted checks only the key).
\* Nothing checks that he drives for the fleet still.
AssigneeWasEligible ==
    \A o \in Order :
        riderId[o] # NoRider /\ o \notin reassigned =>
            /\ riderId[o] \in ToSet(shortlist[o])
            /\ isPremium[o] => riderId[o] \in fleetThen[o]
            /\ Alone(o) => riderId[o] \in asked[o]

\* An open offer always has a timeout on its way that outlasts it, or a
\* handler about to arm one, so no offer lapses unnoticed (requestRider sets
\* the key first and adds the job last).
TimeoutCoversOffer ==
    \A o \in Order \ disturbed : \A r \in Rider :
        OfferLive(o, r) =>
            \/ \E d \in Delay : d >= offer[o][r] /\ timeouts[o][r][d] > 0
            \/ \E p \in Proc : /\ task[p].pc \in {"emit", "enqueue"}
                               /\ task[p].order = o
                               /\ task[p].rider = r

\* the handlers that will ask a further rider or find that there is none
Dispatching(p, o) ==
    /\ task[p].order = o
    /\ task[p].pc \in {"store", "request", "emit", "enqueue",
                        "reject_del", "reject_list", "exhaust_del"}

\* As long as riders are left on an order's list, a timeout is queued or a
\* handler is at work that will move the dispatch on: the chain of offers is
\* kept by nothing but the jobs requestRider adds.
DispatchGoesOn ==
    \A o \in Order \ disturbed :
        candidates[o] # <<>> =>
            \/ \E r \in Rider, d \in Delay : timeouts[o][r][d] > 0
            \/ \E p \in Proc : Dispatching(p, o)

\* the jobs that wait for an order, waiting is timeouts[o], told apart by a number
Jobs(waiting) ==
    UNION {{<<r, d, n>> : n \in 1..waiting[r][d]} : r \in Rider, d \in Delay}

\* A stale timeout makes a new offer and so a new timeout, but timeouts do not
\* multiply: an order never has more chains of offers than it was started
\* (once) and rejected by its riders.
ChainsAreBounded ==
    \A o \in Order :
        LET active == {p \in Proc :
                         \/ task[p].pc = "query" /\ task[p].order = o
                         \/ Dispatching(p, o)}
        IN  Cardinality(Jobs(timeouts[o])) + Cardinality(active) <= 1 + requests

\* such an order, on whose list no rider refused before he was asked
Orderly(o) == Alone(o) /\ o \notin skipped

\* While its handlers do not overlap and only riders who were asked refuse, an order
\* has at most one open offer.
OneOpenOffer ==
    \A o \in Order : Orderly(o) => \A r, s \in Rider :
        OfferLive(o, r) /\ OfferLive(o, s) => r = s

\* While its handlers do not overlap and only riders who were asked refuse, matching
\* never takes an order away from the rider who has it.
AssignmentIsFinal ==
    [][\A o \in Order :
         Orderly(o)' /\ riderId[o] # NoRider /\ o \notin reassigned' =>
            riderId'[o] = riderId[o]]_vars

\* A customer whose order is dispatched without a fault hears of a rider or
\* of none; or the order leaves PENDING for another reason.
CustomerIsAnswered ==
    \A o \in Order :
        status[o] = "PENDING" ~> \/ status[o] # "PENDING"
                                 \/ told[o] # {}
                                 \/ o \in disturbed

\* the handler of o at one of these awaits
At(o, pcs) == {p \in Proc : task[p].order = o /\ task[p].pc \in pcs}

\* An accept counts from the moment its key is deleted, a rejection from the moment the
\* list is read.
Taking(o) == At(o, {"accept_dellist", "accept_update"})
Passing(o) == At(o, {"store", "exhaust_del"})

Offered(o) == {r \in Rider : OfferLive(o, r)}

Queue(o) ==
    IF Taking(o) # {} THEN <<>>
    ELSE IF Passing(o) # {} THEN task[CHOOSE p \in Passing(o) : TRUE].rest
    ELSE candidates[o]

Holder(o) == IF Offered(o) = {} THEN NoRider ELSE CHOOSE r \in Offered(o) : TRUE

Taker(o) ==
    IF Taking(o) = {} THEN riderId[o] ELSE task[CHOOSE p \in Taking(o) : TRUE].rider

Dispatched == INSTANCE Offers WITH
    ranked <- {o \in Order : shortlist[o] # <<>>},
    queue <- [o \in Order |-> Queue(o)],
    holder <- [o \in Order |-> Holder(o)],
    taker <- [o \in Order |-> Taker(o)],
    loose <- overlapped \cup disturbed \cup skipped \cup reassigned

\* While the worker keeps up (Prompt), dispatch implements Offers: late answers and stale
\* timeouts, which find a list without their rider and ask its head again, never
\* skip a rider, ask two at a time or bring one back, and the list outlives
\* the riders on it, though its key expires after 300 s.  Every queue comes to
\* its end.  Loose are the orders whose handlers overlapped or failed, which an admin
\* reassigned, or which a rider refused before he was asked.
OffersInTurn == Dispatched!Spec

-----------------------------------------------------------------------------
(* What the documentation says of dispatch and the code does not do.       *)

\* CANCELLED is an end of the order status flow: matching does not bring a
\* cancelled order back (riderAccepted looks at no status).
CancelledIsFinal ==
    [][\A o \in Order : status[o] = "CANCELLED" => status'[o] = "CANCELLED"]_vars

=============================================================================
