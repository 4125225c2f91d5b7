------------------------------ MODULE Tracking ------------------------------
(***************************************************************************)
(* MatchingGateway and TrackingService: which sockets hear where a rider   *)
(* is.  A user may have several sockets, the map keeps the newest; when a  *)
(* rider accepts an order the gateway puts the mapped socket of its        *)
(* customer into the room of the order, and every location_update is       *)
(* stored twice, logged and then emitted to that room.                     *)
(*                                                                         *)
(* Connections and joins are synchronous; an update is a handler with an   *)
(* await before each of its actions.                                       *)
(***************************************************************************)
EXTENDS Naturals

CONSTANTS
    Order,          \* the ids of orders that clients name
    Placed,         \* those that are the id of an order
    User,
    Rider,          \* the users with a RiderProfile
    customer,       \* [Placed -> User]: Order.userId
    Socket,         \* connections; one that is closed is never opened again
    owner,          \* the userId of the handshake, or NoUser
    Proc,           \* slots for handlers that run at the same time
    NoUser,
    NoSocket,
    NoOrder,
    MaxReports,     \* bound: location updates
    MaxFaults       \* bound: awaits that throw, and restarts

ASSUME UserAssumption == Rider \subseteq User /\ NoUser \notin User
ASSUME CustomerAssumption == Placed \subseteq Order /\ customer \in [Placed -> User]
ASSUME OwnerAssumption == owner \in [Socket -> User \cup {NoUser}]
ASSUME NoneAssumption == NoSocket \notin Socket /\ NoOrder \notin Order
ASSUME BoundAssumption == MaxReports \in Nat /\ MaxFaults \in Nat

\* Positions are numbered as they are reported; 0 is none.
Position == 0..MaxReports

VARIABLES
    connection,  \* of a socket: not yet, open, or closed
    socketMap,   \* Map<userId, Socket>
    orderRoom,   \* the rooms order:<order>
    position,    \* RiderProfile.latitude and .longitude
    gpsLog,      \* positions logged for an order
    task,        \* the location_update that runs in each slot
    newest,      \* history: the socket a user has connected last
    joined,      \* history: the customer's newest socket at the assignment
    marker,      \* history: where a client has the rider of an order
    overlapped,  \* history: orders two of whose updates overlapped, or one of
                 \* whose updates failed
    reports,     \* location updates counted against MaxReports
    faults       \* faults counted against MaxFaults

socketVars == <<connection, socketMap, orderRoom, newest, joined>>
storeVars == <<position, gpsLog>>
vars == <<socketVars, storeVars, task, marker, overlapped, reports, faults>>

-----------------------------------------------------------------------------
Open(s) == connection[s] = "open"

\* pc is the await; todo are the writes of logLocation that have not landed
Idle == [pc |-> "idle"]
Update(pc, u, o, at, todo) ==
    [pc |-> pc, user |-> u, order |-> o, at |-> at, todo |-> todo]

Task == {Idle}
   \cup [pc : {"profile", "log", "failed"}, user : User, order : Order \cup {NoOrder},
         at : Position, todo : SUBSET {"gpsLog", "profile"}]

Become(p, t) == task' = [task EXCEPT ![p] = t]

\* updates of an order that are under way
Updating(o) == {p \in Proc : task[p].pc # "idle" /\ task[p].order = o}

\* updateMany changes nothing for a user without a profile
MoveTo(u, at) == position' = [r \in Rider |-> IF r = u THEN at ELSE position[r]]

-----------------------------------------------------------------------------
(* handleConnection, handleDisconnect, join_order, emitOrderAssigned.      *)

\* Mutant of Connect: a user who is in the map is not put there again.
ConnectOnce(s) ==
    LET u == owner[s] IN
    /\ connection[s] = "new"
    /\ connection' = [connection EXCEPT ![s] = "open"]
    /\ IF u = NoUser
       THEN UNCHANGED <<socketMap, newest>>
       ELSE /\ socketMap' = [socketMap EXCEPT ![u] = IF @ = NoSocket THEN s ELSE @]
            /\ newest' = [newest EXCEPT ![u] = s]
    /\ UNCHANGED <<orderRoom, joined, storeVars, task, marker, overlapped,
                   reports, faults>>

\* A socket without a user is in no map and reports nothing.
Connect(s) ==
    LET u == owner[s] IN
    /\ connection[s] = "new"
    /\ connection' = [connection EXCEPT ![s] = "open"]
    /\ IF u = NoUser
       THEN UNCHANGED <<socketMap, newest>>
       ELSE /\ socketMap' = [socketMap EXCEPT ![u] = s]
            /\ newest' = [newest EXCEPT ![u] = s]
    /\ UNCHANGED <<orderRoom, joined, storeVars, task, marker, overlapped,
                   reports, faults>>

\* Mutant of Unmap: the entry of the user goes, whichever socket it holds.
UnmapUser(s) ==
    [u \in User |-> IF u = owner[s] THEN NoSocket ELSE socketMap[u]]

\* the entry that holds the socket goes
Unmap(s) ==
    [u \in User |-> IF socketMap[u] = s THEN NoSocket ELSE socketMap[u]]

Disconnect(s) ==
    /\ Open(s)
    /\ connection' = [connection EXCEPT ![s] = "closed"]
    /\ socketMap' = Unmap(s)
    /\ orderRoom' = [o \in Order |-> orderRoom[o] \ {s}]
    /\ marker' = [marker EXCEPT ![s] = [o \in Order |-> 0]]
    /\ UNCHANGED <<newest, joined, storeVars, task, overlapped, reports, faults>>

\* Nobody is asked who joins, or which order, and what was reported before is
\* not sent.
JoinOrder(s, o) ==
    /\ Open(s)
    /\ orderRoom' = [orderRoom EXCEPT ![o] = @ \cup {s}]
    /\ UNCHANGED <<connection, socketMap, newest, joined, storeVars, task, marker,
                   overlapped, reports, faults>>

\* Mutant of Mapped: an entry that is missing is not noticed.
MappedOrNot(u) == {socketMap[u]}

\* the socket to join for a user, if there is one
Mapped(u) == {socketMap[u]} \ {NoSocket}

\* Only the customer's socket joins: the order that riderAccepted hands over has
\* the name and the phone of the rider's user, and no id.
EmitOrderAssigned(o) ==
    LET u == customer[o] IN
    /\ orderRoom' = [orderRoom EXCEPT ![o] = @ \cup Mapped(u)]
    /\ joined' = [joined EXCEPT ![o] = newest[u]]
    /\ UNCHANGED <<connection, socketMap, newest, storeVars, task, marker,
                   overlapped, reports, faults>>

-----------------------------------------------------------------------------
(* location_update: updateRiderLocation, logLocation, rider_location.      *)

LocationUpdate(p, s, o) ==
    /\ Open(s)
    /\ owner[s] # NoUser
    /\ reports < MaxReports
    /\ reports' = reports + 1
    /\ task[p] = Idle
    /\ Become(p, Update("profile", owner[s], o, reports + 1, {}))
    /\ overlapped' = IF Updating(o) = {} THEN overlapped
                     ELSE overlapped \cup ({o} \cap Order)
    /\ UNCHANGED <<socketVars, storeVars, marker, faults>>

\* The writes of logLocation, which returns before them when there is no order.
LogWrites(o) == IF o \in Placed THEN {"gpsLog", "profile"} ELSE {}

UpdateRiderLocation(p) ==
    LET t == task[p] IN
    /\ t.pc = "profile"
    /\ MoveTo(t.user, t.at)
    /\ Become(p, IF t.order = NoOrder THEN Idle
                 ELSE Update("log", t.user, t.order, t.at, LogWrites(t.order)))
    /\ UNCHANGED <<socketVars, gpsLog, marker, overlapped, reports, faults>>

\* a handler that has failed ends with its last write
Rest(t) == IF t.pc = "failed" /\ t.todo = {} THEN Idle ELSE t

\* one of the two writes of logLocation lands
LogLocation(p, write) ==
    LET t == task[p] IN
    /\ t.pc \in {"log", "failed"}
    /\ write \in t.todo
    /\ Become(p, Rest([t EXCEPT !.todo = @ \ {write}]))
    /\ IF write = "gpsLog"
       THEN /\ gpsLog' = [gpsLog EXCEPT ![t.order] = @ \cup {t.at}]
            /\ UNCHANGED position
       ELSE /\ MoveTo(t.user, t.at)
            /\ UNCHANGED gpsLog
    /\ UNCHANGED <<socketVars, marker, overlapped, reports, faults>>

\* both writes have landed, or there was none to make
Landed(t) == t.pc = "log" /\ t.todo = {}

\* Mutant of Listeners: the sockets of the map get the position.
ListenersOfMap(o) == {s \in orderRoom[o] : \E u \in User : socketMap[u] = s}

Listeners(o) == orderRoom[o]

EmitRiderLocation(p) ==
    LET t == task[p] IN
    /\ Landed(t)
    /\ marker' = [s \in Socket |->
                    IF s \in Listeners(t.order)
                    THEN [marker[s] EXCEPT ![t.order] = t.at]
                    ELSE marker[s]]
    /\ Become(p, Idle)
    /\ UNCHANGED <<socketVars, storeVars, overlapped, reports, faults>>

-----------------------------------------------------------------------------
Fault(o) ==
    /\ faults < MaxFaults
    /\ faults' = faults + 1
    /\ overlapped' = overlapped \cup ({o} \cap Order)
    /\ UNCHANGED <<socketVars, storeVars, marker, reports>>

\* An await throws: that of updateRiderLocation, or the read of the order.
Fail(p) ==
    /\ \/ task[p].pc = "profile"
       \/ task[p].pc = "log" /\ task[p].todo = LogWrites(task[p].order)
    /\ Fault(task[p].order)
    /\ Become(p, Idle)

\* One write of logLocation fails; the other may land when the handler has ended.
WriteFails(p, write) ==
    LET t == task[p] IN
    /\ t.pc = "log"
    /\ write \in t.todo
    /\ Fault(t.order)
    /\ Become(p, Rest([t EXCEPT !.pc = "failed", !.todo = @ \ {write}]))

\* The process ends: sockets close, the map and the rooms are gone.
Crash ==
    /\ faults < MaxFaults
    /\ faults' = faults + 1
    /\ connection' = [s \in Socket |-> IF Open(s) THEN "closed" ELSE connection[s]]
    /\ socketMap' = [u \in User |-> NoSocket]
    /\ orderRoom' = [o \in Order |-> {}]
    /\ marker' = [s \in Socket |-> [o \in Order |-> 0]]
    /\ task' = [p \in Proc |-> Idle]
    /\ UNCHANGED <<newest, joined, storeVars, overlapped, reports>>

Init ==
    /\ connection = [s \in Socket |-> "new"]
    /\ socketMap = [u \in User |-> NoSocket]
    /\ orderRoom = [o \in Order |-> {}]
    /\ position = [r \in Rider |-> 0]
    /\ gpsLog = [o \in Order |-> {}]
    /\ task = [p \in Proc |-> Idle]
    /\ newest = [u \in User |-> NoSocket]
    /\ joined = [o \in Order |-> NoSocket]
    /\ marker = [s \in Socket |-> [o \in Order |-> 0]]
    /\ overlapped = {}
    /\ reports = 0
    /\ faults = 0

Sockets(s) ==
    \/ Connect(s)
    \/ Disconnect(s)
    \/ \E o \in Order : JoinOrder(s, o)

Step(p) ==
    \/ UpdateRiderLocation(p)
    \/ \E write \in {"gpsLog", "profile"} : LogLocation(p, write)
    \/ EmitRiderLocation(p)

Next ==
    \/ \E s \in Socket : Sockets(s)
    \/ \E o \in Placed : EmitOrderAssigned(o)
    \/ \E p \in Proc, s \in Socket, o \in Order \cup {NoOrder} : LocationUpdate(p, s, o)
    \/ \E p \in Proc :
         Step(p) \/ Fail(p) \/ \E write \in {"gpsLog", "profile"} : WriteFails(p, write)
    \/ Crash

Spec == Init /\ [][Next]_vars

-----------------------------------------------------------------------------
(* What tracking keeps to.                                                 *)

TypeOK ==
    /\ connection \in [Socket -> {"new", "open", "closed"}]
    /\ socketMap \in [User -> Socket \cup {NoSocket}]
    /\ orderRoom \in [Order -> SUBSET Socket]
    /\ position \in [Rider -> Position]
    /\ gpsLog \in [Order -> SUBSET Position]
    /\ task \in [Proc -> Task]
    /\ newest \in [User -> Socket \cup {NoSocket}]
    /\ joined \in [Order -> Socket \cup {NoSocket}]
    /\ marker \in [Socket -> [Order -> Position]]
    /\ overlapped \subseteq Order
    /\ reports \in Position
    /\ faults \in 0..MaxFaults

\* The map never loses a user to an old connection: while the socket a user
\* connected last is open the map holds it, though disconnections of older ones
\* are noticed late, and it never holds one that is closed.
MapHoldsNewest ==
    \A u \in User :
        /\ newest[u] # NoSocket /\ Open(newest[u]) => socketMap[u] = newest[u]
        /\ socketMap[u] # NoSocket => Open(socketMap[u])

\* A customer follows the order from the assignment on: the socket that was the
\* customer's newest then is in the room for as long as it is open.
CustomerFollows ==
    \A o \in Order :
        joined[o] # NoSocket /\ Open(joined[o]) => joined[o] \in orderRoom[o]

\* Clients in the room of an order are shown nothing that is not in its trail.
\* In a room whose id is of no order they are: such an update is emitted to who
\* joined it, and logged nowhere.
ShownIsLogged ==
    \A s \in Socket, o \in Placed : marker[s][o] \in {0} \cup gpsLog[o]

\* Once the updates of an order are done, every client in its room that was
\* shown a position since it joined is shown the last one of the trail, unless
\* updates overlapped or failed.
MarkersAgree ==
    \A o \in Order \ overlapped : Updating(o) = {} =>
        \A s \in orderRoom[o] : marker[s][o] # 0 => \A at \in gpsLog[o] : at <= marker[s][o]

=============================================================================
