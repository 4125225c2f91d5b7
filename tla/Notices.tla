------------------------------ MODULE Notices ------------------------------
(***************************************************************************)
(* NotificationsService: what happens to an order or to a subscription is  *)
(* told to its customer and its rider, as a row of Notification and, to    *)
(* who has registered a device, as a push.                                 *)
(*                                                                         *)
(* No caller waits for it, so the order is read some time after the event: *)
(* who rides for it may be another rider by then.  The sends of one call   *)
(* run side by side, and one that fails does not stop the other.           *)
(***************************************************************************)
EXTENDS Naturals, FiniteSets

CONSTANTS
    Order,
    User,
    Rider,          \* the users with a RiderProfile
    customer,       \* [Order -> User]: Order.userId
    Device,         \* what fcmToken names
    Proc,           \* slots for calls that run at the same time
    NoOrder,
    NoUser,
    NoDevice,
    MaxCalls,       \* bound: events that are told
    MaxUses,        \* bound: users who read, and devices registered
    MaxFaults       \* bound: awaits that throw, and restarts

ASSUME UserAssumption == Rider \subseteq User /\ NoUser \notin User
ASSUME CustomerAssumption == customer \in [Order -> User]
ASSUME NoneAssumption == NoOrder \notin Order /\ NoDevice \notin Device
ASSUME BoundAssumption == MaxCalls \in Nat /\ MaxUses \in Nat /\ MaxFaults \in Nat

\* Calls are numbered as their events happen.
Call == 1..MaxCalls
Role == {"owner", "rider"}

\* OrderEvent, with the one event that is not about an order.  Nothing calls
\* with the two arrivals, PICKED_UP or the two of the delivery.
OwnerEvents == {"PENDING", "ASSIGNED", "ARRIVED_AT_PICKUP", "PICKED_UP", "NO_RIDERS",
                "ARRIVED_AT_DELIVERY", "DELIVERED_REQUESTED", "PAYMENT_CAPTURED", "EXPIRED"}
RiderEvents == {"ASSIGNED", "DELIVERED_CONFIRMED", "CANCELLED", "PAYMENT_CAPTURED"}

\* what a call is about, with who was concerned when it happened
Happening == [event : OwnerEvents \cup RiderEvents, order : Order \cup {NoOrder},
              owner : User, rider : Rider \cup {NoUser}]
Nothing == [event |-> "none"]

VARIABLES
    placed,      \* orders that exist
    riderId,     \* Order.riderId, as the user of the rider
    fcmToken,    \* User.fcmToken
    rows,        \* rows of Notification
    unread,      \* those with isRead = false
    task,        \* the call that runs in each slot
    happened,    \* history: what each call is about
    moved,       \* history: calls whose order changed hands before they read it
    lost,        \* history: parties of calls not told because an await failed
    pushed,      \* history: rows pushed, with the device
    registered,  \* history: devices a user has registered
    readers,     \* history: users who have marked something as read
    calls,       \* calls counted against MaxCalls
    faults       \* faults counted against MaxFaults

orderVars == <<placed, riderId, moved>>
rowVars == <<rows, unread, readers>>
deviceVars == <<fcmToken, registered>>
callVars == <<happened, calls>>
vars == <<orderVars, rowVars, deviceVars, callVars, task, lost, pushed, faults>>

-----------------------------------------------------------------------------
\* A row is named by its call and the role of who it is for.
Row == [call : Call, as : Role, to : User]

\* one send of a call: who is told, the await it is at, the device it has read
Send == [as : Role, to : User, step : {"create", "token"}, device : {NoDevice}]
   \cup [as : Role, to : User, step : {"push"}, device : Device]

NewSend(as, u) == [as |-> as, to |-> u, step |-> "create", device |-> NoDevice]

AtToken(s) == [s EXCEPT !.step = "token"]
AtPush(s, token) == [s EXCEPT !.step = "push", !.device = token]

Idle == [pc |-> "idle"]
Telling(pc, n, todo) == [pc |-> pc, call |-> n, todo |-> todo]
Task == {Idle} \cup [pc : {"read", "send"}, call : Call, todo : SUBSET Send]

\* the sends of a call that are under way
Todo(p) == IF task[p].pc = "send" THEN task[p].todo ELSE {}

Become(p, t) == task' = [task EXCEPT ![p] = t]

\* Promise.allSettled is over with its last send
Settled(t) == IF t.todo = {} THEN Idle ELSE t

RowOf(n, s) == [call |-> n, as |-> s.as, to |-> s.to]

-----------------------------------------------------------------------------
(* What happens: the writes of other services, and their calls.            *)

Tell(p, event, o, u, r) ==
    /\ task[p] = Idle
    /\ calls < MaxCalls
    /\ calls' = calls + 1
    /\ happened' = [happened EXCEPT ![calls + 1] =
                      [event |-> event, order |-> o, owner |-> u, rider |-> r]]
    /\ Become(p, Telling("read", calls + 1, {}))
    /\ UNCHANGED <<rowVars, deviceVars, lost, pushed, faults>>

\* createOrder
Place(p, o) ==
    /\ o \notin placed
    /\ placed' = placed \cup {o}
    /\ Tell(p, "PENDING", o, customer[o], NoUser)
    /\ UNCHANGED <<riderId, moved>>

\* calls about an order that have not read it
YetToRead(o) == {p \in Proc : task[p].pc = "read" /\ happened[task[p].call].order = o}

GiveTo(o, r) ==
    /\ o \in placed
    /\ riderId' = [riderId EXCEPT ![o] = r]
    /\ moved' = moved \cup {task[p].call : p \in YetToRead(o)}
    /\ UNCHANGED placed

\* riderAccepted
Assign(p, o, r) == GiveTo(o, r) /\ Tell(p, "ASSIGNED", o, customer[o], r)

\* reassignOrder tells nobody
Reassign(o, r) ==
    /\ GiveTo(o, r)
    /\ UNCHANGED <<rowVars, deviceVars, callVars, task, lost, pushed, faults>>

Report(p, event, o) ==
    /\ o \in placed
    /\ Tell(p, event, o, customer[o], riderId[o])
    /\ UNCHANGED orderVars

\* cancelOrder, in which the order keeps its rider
CancelOrder(p, o) == Report(p, "CANCELLED", o)

\* findMatch without a candidate
FindNobody(p, o) == Report(p, "NO_RIDERS", o)

\* splitAndCredit; the event happens when it reads the order, for it credits the
\* rider it then finds
Capture(p, o) == Report(p, "PAYMENT_CAPTURED", o)

\* checkAndExpireSubscriptions
Expire(p, u) ==
    /\ Tell(p, "EXPIRED", NoOrder, u, NoUser)
    /\ UNCHANGED orderVars

-----------------------------------------------------------------------------
(* sendOrderNotification and send.                                         *)

\* Mutant of TellOwner: a break is missing, CANCELLED goes on to PAYMENT_CAPTURED.
TellOwnerOn(h) ==
    IF h.event \in OwnerEvents \cup {"CANCELLED"} THEN {NewSend("owner", h.owner)} ELSE {}

TellOwner(h) == IF h.event \in OwnerEvents THEN {NewSend("owner", h.owner)} ELSE {}

TellRider(h, r) ==
    IF h.event \in RiderEvents /\ r # NoUser THEN {NewSend("rider", r)} ELSE {}

\* who rides for the order now; an expired subscription has no order to read
RiderNow(h) == IF h.order = NoOrder THEN NoUser ELSE riderId[h.order]

ReadOrder(p) ==
    LET n == task[p].call
        h == happened[n]
    IN
    /\ task[p].pc = "read"
    /\ Become(p, Settled(Telling("send", n, TellOwner(h) \cup TellRider(h, RiderNow(h)))))
    /\ UNCHANGED <<orderVars, rowVars, deviceVars, callVars, lost, pushed, faults>>

\* a send comes to its next await, or (next = {}) to its end
Advance(p, s, next) ==
    /\ Become(p, Settled([task[p] EXCEPT !.todo = (@ \ {s}) \cup next]))

CreateRow(p, s) ==
    LET row == RowOf(task[p].call, s) IN
    /\ s.step = "create"
    /\ rows' = rows \cup {row}
    /\ unread' = unread \cup {row}
    /\ Advance(p, s, {AtToken(s)})
    /\ UNCHANGED <<orderVars, readers, deviceVars, callVars, lost, pushed, faults>>

\* Mutant of TokenOf: the token of the customer, whoever is told.
TokenOfOwner(n, s) == fcmToken[happened[n].owner]

TokenOf(n, s) == fcmToken[s.to]

\* Mutant of PushIfAny: nobody asks whether there is a token.
PushAnyway(s, token) == {AtPush(s, token)}

PushIfAny(s, token) == IF token = NoDevice THEN {} ELSE {AtPush(s, token)}

ReadToken(p, s) ==
    /\ s.step = "token"
    /\ Advance(p, s, PushIfAny(s, TokenOf(task[p].call, s)))
    /\ UNCHANGED <<orderVars, rowVars, deviceVars, callVars, lost, pushed, faults>>

\* What goes wrong with a push is logged and forgotten.
SendFcm(p, s) ==
    /\ s.step = "push"
    /\ Advance(p, s, {})
    /\ \/ pushed' = pushed \cup {[row |-> RowOf(task[p].call, s), device |-> s.device]}
       \/ UNCHANGED pushed
    /\ UNCHANGED <<orderVars, rowVars, deviceVars, callVars, lost, faults>>

-----------------------------------------------------------------------------
(* Faults.                                                                 *)

\* parties of a call that have no row yet
Pending(t) ==
    CASE t.pc = "idle" -> {}
      [] t.pc = "read" -> {<<t.call, as>> : as \in Role}
      [] t.pc = "send" -> {<<t.call, s.as>> : s \in {s \in t.todo : s.step = "create"}}

Fault(parties) ==
    /\ faults < MaxFaults
    /\ faults' = faults + 1
    /\ lost' = lost \cup parties
    /\ UNCHANGED <<orderVars, rowVars, deviceVars, callVars, pushed>>

\* An await before the sends throws, and with it the call.
FailToRead(p) ==
    /\ task[p].pc = "read"
    /\ Fault(Pending(task[p]))
    /\ Become(p, Idle)

\* Mutant of Survivors: the sends run one after the other, a failure ends all.
SurvivorsOfAll(t, s) == {}

\* Promise.allSettled goes on with the others
Survivors(t, s) == t.todo \ {s}

FailToSend(p, s) ==
    LET t == task[p] IN
    /\ s.step \in {"create", "token"}
    /\ Fault({<<t.call, s.as>>})
    /\ Become(p, Settled([t EXCEPT !.todo = Survivors(t, s)]))

Crash ==
    /\ Fault(UNION {Pending(task[p]) : p \in Proc})
    /\ task' = [p \in Proc |-> Idle]

-----------------------------------------------------------------------------
(* What users do: markAsRead, markAllAsRead, updateFcmToken.               *)

Bounded == Cardinality(readers') + Cardinality(registered') <= MaxUses

\* An update that matches no unread row changes nothing, and is no step.
MarkRows(u, marked) ==
    /\ marked \cap unread # {}
    /\ unread' = unread \ marked
    /\ readers' = readers \cup {u}
    /\ UNCHANGED <<orderVars, rows, deviceVars, callVars, task, lost, pushed, faults>>
    /\ Bounded

\* where id and userId match
Owned(u, row) == {n \in {row} : n.to = u}

MarkAsRead(u, row) == MarkRows(u, Owned(u, row))

MarkAllAsRead(u) == MarkRows(u, {row \in rows : row.to = u})

\* A device is not taken from the user who had it before.
UpdateFcmToken(u, d) ==
    /\ fcmToken' = [fcmToken EXCEPT ![u] = d]
    /\ registered' = registered \cup {<<u, d>>}
    /\ UNCHANGED <<orderVars, rowVars, callVars, task, lost, pushed, faults>>
    /\ Bounded

-----------------------------------------------------------------------------
\* Some orders may be there, their placing told before.
Init ==
    /\ placed \in SUBSET Order
    /\ riderId = [o \in Order |-> NoUser]
    /\ fcmToken = [u \in User |-> NoDevice]
    /\ rows = {}
    /\ unread = {}
    /\ task = [p \in Proc |-> Idle]
    /\ happened = [n \in Call |-> Nothing]
    /\ moved = {}
    /\ lost = {}
    /\ pushed = {}
    /\ registered = {}
    /\ readers = {}
    /\ calls = 0
    /\ faults = 0

Happens(p) ==
    \/ \E o \in Order : Place(p, o) \/ CancelOrder(p, o) \/ FindNobody(p, o) \/ Capture(p, o)
    \/ \E o \in Order, r \in Rider : Assign(p, o, r)
    \/ \E u \in User : Expire(p, u)

SendStep(p, s) == CreateRow(p, s) \/ ReadToken(p, s) \/ SendFcm(p, s) \/ FailToSend(p, s)

UserDoes(u) ==
    \/ \E row \in rows : MarkAsRead(u, row)
    \/ MarkAllAsRead(u)
    \/ \E d \in Device : UpdateFcmToken(u, d)

Next ==
    \/ \E p \in Proc : Happens(p) \/ ReadOrder(p) \/ FailToRead(p)
    \/ \E p \in Proc : \E s \in Todo(p) : SendStep(p, s)
    \/ \E o \in Order, r \in Rider : Reassign(o, r)
    \/ \E u \in User : UserDoes(u)
    \/ Crash

Spec == Init /\ [][Next]_vars

-----------------------------------------------------------------------------
(* What notifications keep to.                                             *)

TypeOK ==
    /\ placed \subseteq Order
    /\ riderId \in [Order -> Rider \cup {NoUser}]
    /\ fcmToken \in [User -> Device \cup {NoDevice}]
    /\ rows \subseteq Row
    /\ unread \subseteq rows
    /\ task \in [Proc -> Task]
    /\ happened \in [Call -> Happening \cup {Nothing}]
    /\ moved \subseteq Call
    /\ lost \subseteq Call \X Role
    /\ pushed \subseteq [row : Row, device : Device]
    /\ registered \subseteq User \X Device
    /\ readers \subseteq User
    /\ calls \in 0..MaxCalls
    /\ faults \in 0..MaxFaults

\* who a call is to tell, as of the moment its event happened
Parties(h) ==
    {x \in {<<"owner", h.owner>>, <<"rider", h.rider>>} :
        x[2] # NoUser /\ h.event \in (IF x[1] = "owner" THEN OwnerEvents ELSE RiderEvents)}

Over(n) == happened[n] # Nothing /\ \A p \in Proc : task[p] # Idle => task[p].call # n

\* When a call is over, who was concerned when its event happened has a row in
\* their list, even if the send to the other party failed; only who lost the
\* order before it was read, or whose own send failed, has none.
PartiesAreTold ==
    \A n \in Call : Over(n) =>
        \A x \in Parties(happened[n]) :
            \/ [call |-> n, as |-> x[1], to |-> x[2]] \in rows
            \/ <<n, x[1]>> \in lost
            \/ x[1] = "rider" /\ n \in moved

\* Nobody is told what concerns somebody else: a row is for who was a party when
\* the event happened ("credited to your wallet": who was credited), unless the
\* order changed hands before it was read.
ToldWereConcerned ==
    \A row \in rows :
        \/ <<row.as, row.to>> \in Parties(happened[row.call])
        \/ row.as = "rider" /\ row.call \in moved

\* Pushes announce what is in the list of a user, on devices of that user.
PushesAreOfRows ==
    \A x \in pushed : x.row \in rows /\ <<x.row.to, x.device>> \in registered

\* A notification that its addressee has never marked stays unread.
ReadByAddressee == \A row \in rows \ unread : row.to \in readers

=============================================================================
