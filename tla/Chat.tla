-------------------------------- MODULE Chat --------------------------------
(***************************************************************************)
(* ChatGateway and ChatService: the two parties of an order write to each  *)
(* other through sockets in the room of the order, admins listen to all    *)
(* orders in the room admin:chat, and calls are logged over HTTP.          *)
(*                                                                         *)
(* The rows are what the database keeps, the rooms who hears of a new row. *)
(* A handler reads the order, then reads or writes rows, then joins a room *)
(* or emits to one; sockets come and go, and orders change hands, between  *)
(* any two of these awaits.  An action is what a handler does up to its    *)
(* next await.                                                             *)
(***************************************************************************)
EXTENDS Naturals

CONSTANTS
    Order,
    User,
    Rider,          \* the users who drive
    Admin,          \* the users whose token has the role ADMIN
    customer,       \* [Order -> User]: Order.userId
    Socket,         \* connections; one that is closed is never opened again
    Message,        \* ids of rows; bounds how many are made
    Proc,           \* slots for handlers that run at the same time
    NoUser,
    NoRow,
    MaxFaults       \* bound: awaits that throw, and restarts

ASSUME UserAssumption ==
    Rider \subseteq User /\ Admin \subseteq User /\ NoUser \notin User
ASSUME CustomerAssumption == customer \in [Order -> User]
ASSUME FaultAssumption == MaxFaults \in Nat

\* A row of ChatMessage or of CallLog.
Row == [kind : {"message", "call"}, order : Order, sender : User, receiver : User]
ASSUME RowAssumption == NoRow \notin Row

VARIABLES
    riderId,     \* the user who drives for an order, or NoUser
    active,      \* orders whose status is one of ACTIVE_ORDER_STATUSES
    row,         \* the tables ChatMessage and CallLog
    userId,      \* the user a socket has connected for
    closed,      \* sockets that have disconnected
    chatRoom,    \* the rooms chat:<order>
    adminRoom,   \* the room admin:chat
    task,        \* the handler that runs in each slot
    seen,        \* history: rows a client has got, in a history or live
    lost,        \* history: rows whose handler failed before it emitted them
    before,      \* history: rows emitted before the client of an admin
                 \* connected
    gap,         \* history: rows emitted while a client that was joining had
                 \* its history read and was not in the room yet
    riders,      \* history: users who have driven for an order
    faults       \* faults counted against MaxFaults

orderVars == <<riderId, active, riders>>
socketVars == <<userId, closed, chatRoom, adminRoom, before>>
clientVars == <<seen, gap, lost>>
vars == <<orderVars, row, socketVars, task, clientVars, faults>>

-----------------------------------------------------------------------------
Up(s) == userId[s] # NoUser /\ s \notin closed

Stored(m) == row[m] # NoRow
MessagesOf(o) == {m \in Message : Stored(m) /\ row[m].kind = "message" /\ row[m].order = o}

Party(o, u) == u = customer[o] \/ u = riderId[o]

\* the other party, as the order was read: the customer comes first
OtherParty(o, u) == IF u = customer[o] THEN riderId[o] ELSE customer[o]

\* pc is the await a handler is at; rows are those it has read or written
Idle == [pc |-> "idle"]
Joining(pc, s, o, rows) == [pc |-> pc, socket |-> s, order |-> o, rows |-> rows]
Creating(r) == [pc |-> "create", row |-> r]
Emitting(m) == [pc |-> "emit", id |-> m]

Task == {Idle}
   \cup [pc : {"history", "enter"}, socket : Socket, order : Order,
         rows : SUBSET Message]
   \cup [pc : {"create"}, row : Row]
   \cup [pc : {"emit"}, id : Message]

\* a handler has the row and is about to emit it
Unsent(m) == \E p \in Proc : task[p] = Emitting(m)

\* rows that have been emitted, or should have been
Sent == {m \in Message : Stored(m) /\ ~Unsent(m)} \ lost

Become(p, t) == task' = [task EXCEPT ![p] = t]
Start(p, t) == task[p] = Idle /\ Become(p, t)

-----------------------------------------------------------------------------
(* Connections: handleConnection, handleDisconnect, leave_order_chat.      *)

Connect(s, u) ==
    /\ userId[s] = NoUser
    /\ userId' = [userId EXCEPT ![s] = u]
    /\ adminRoom' = IF u \in Admin THEN adminRoom \cup {s} ELSE adminRoom
    /\ before' = [before EXCEPT ![s] = IF u \in Admin THEN Sent ELSE {}]
    /\ UNCHANGED <<orderVars, row, closed, chatRoom, task, clientVars, faults>>

\* the history variables of clients that are gone are of no use any more
Forget(gone) ==
    /\ seen' = [s \in Socket |-> IF s \in gone THEN {} ELSE seen[s]]
    /\ gap' = [s \in Socket |-> IF s \in gone THEN {} ELSE gap[s]]
    /\ before' = [s \in Socket |-> IF s \in gone THEN {} ELSE before[s]]

\* The handlers of the socket go on; socket.io takes it out of its rooms.
Disconnect(s) ==
    /\ Up(s)
    /\ closed' = closed \cup {s}
    /\ chatRoom' = [o \in Order |-> chatRoom[o] \ {s}]
    /\ adminRoom' = adminRoom \ {s}
    /\ Forget({s})
    /\ UNCHANGED <<orderVars, row, userId, task, lost, faults>>

LeaveOrderChat(s, o) ==
    /\ s \in chatRoom[o]
    /\ chatRoom' = [chatRoom EXCEPT ![o] = @ \ {s}]
    /\ UNCHANGED <<orderVars, row, userId, closed, adminRoom, before, task,
                   clientVars, faults>>

-----------------------------------------------------------------------------
(* join_order_chat: the order is read, then the history, and only then     *)
(* does the socket join the room.                                          *)

\* Mutant of JoinOrderChat: anybody may join.
JoinUnchecked(p, s, o) ==
    /\ Up(s)
    /\ Start(p, Joining("history", s, o, {}))
    /\ UNCHANGED <<orderVars, row, socketVars, clientVars, faults>>

JoinOrderChat(p, s, o) ==
    /\ Up(s)
    /\ Party(o, userId[s]) \/ userId[s] \in Admin
    /\ Start(p, Joining("history", s, o, {}))
    /\ UNCHANGED <<orderVars, row, socketVars, clientVars, faults>>

ReadHistory(p) ==
    /\ task[p].pc = "history"
    /\ Become(p, Joining("enter", task[p].socket, task[p].order,
                         MessagesOf(task[p].order)))
    /\ UNCHANGED <<orderVars, row, socketVars, clientVars, faults>>

\* Mutant of EnterRoom: the history is not sent.
EnterWithoutHistory(p) ==
    /\ task[p].pc = "enter"
    /\ IF Up(task[p].socket)
       THEN chatRoom' = [chatRoom EXCEPT ![task[p].order] = @ \cup {task[p].socket}]
       ELSE UNCHANGED chatRoom
    /\ Become(p, Idle)
    /\ UNCHANGED <<orderVars, row, userId, closed, adminRoom, before, clientVars,
                   faults>>

\* A socket that has closed meanwhile joins nothing and gets nothing.
EnterRoom(p) ==
    /\ task[p].pc = "enter"
    /\ IF Up(task[p].socket)
       THEN /\ chatRoom' = [chatRoom EXCEPT ![task[p].order] = @ \cup {task[p].socket}]
            /\ seen' = [seen EXCEPT ![task[p].socket] = @ \cup task[p].rows]
       ELSE UNCHANGED <<chatRoom, seen>>
    /\ Become(p, Idle)
    /\ UNCHANGED <<orderVars, row, userId, closed, adminRoom, before, gap,
                   lost, faults>>

-----------------------------------------------------------------------------
(* send_message and POST chat/:orderId/calls.                              *)

Parties(kind, o, u) ==
    [kind |-> kind, order |-> o, sender |-> u, receiver |-> OtherParty(o, u)]

\* Mutant of SendMessage: a rider who is missing is no error.
SendToNobody(p, s, o) ==
    /\ Up(s)
    /\ o \in active
    /\ Party(o, userId[s])
    /\ Start(p, Creating(Parties("message", o, userId[s])))
    /\ UNCHANGED <<orderVars, row, socketVars, clientVars, faults>>

\* The customer of an order without a rider gets an error, too.
SendMessage(p, s, o) ==
    /\ Up(s)
    /\ o \in active
    /\ Party(o, userId[s])
    /\ OtherParty(o, userId[s]) # NoUser
    /\ Start(p, Creating(Parties("message", o, userId[s])))
    /\ UNCHANGED <<orderVars, row, socketVars, clientVars, faults>>

\* No socket is needed, and the status of the order does not matter.
LogCall(p, u, o) ==
    /\ Party(o, u)
    /\ OtherParty(o, u) # NoUser
    /\ Start(p, Creating(Parties("call", o, u)))
    /\ UNCHANGED <<orderVars, row, socketVars, clientVars, faults>>

CreateRow(p, m) ==
    /\ task[p].pc = "create"
    /\ ~Stored(m)
    /\ row' = [row EXCEPT ![m] = task[p].row]
    /\ Become(p, Emitting(m))
    /\ UNCHANGED <<orderVars, socketVars, clientVars, faults>>

\* Mutant of Audience: messages go to the room of the order only.
AudienceOfRoom(m) ==
    IF row[m].kind = "message" THEN chatRoom[row[m].order] ELSE adminRoom

\* who is sent a new row
Audience(m) ==
    adminRoom \cup (IF row[m].kind = "message" THEN chatRoom[row[m].order] ELSE {})

\* clients that have had their history read and are still to join
Entering(o) == {task[p].socket : p \in {q \in Proc : task[q].pc = "enter"
                                                  /\ task[q].order = o}}

Emit(p) ==
    LET m == task[p].id IN
    /\ task[p].pc = "emit"
    /\ seen' = [s \in Socket |->
                  IF s \in Audience(m) THEN seen[s] \cup {m} ELSE seen[s]]
    /\ gap' = [s \in Socket |->
                 IF s \in Entering(row[m].order) \ Audience(m)
                 THEN gap[s] \cup {m} ELSE gap[s]]
    /\ Become(p, Idle)
    /\ UNCHANGED <<orderVars, row, socketVars, lost, faults>>

-----------------------------------------------------------------------------
(* The rest of the system, as chat sees it.                                *)

\* riderAccepted and reassignOrder
Assign(o, r) ==
    /\ riderId' = [riderId EXCEPT ![o] = r]
    /\ riders' = [riders EXCEPT ![o] = @ \cup {r}]
    /\ active' = active \cup {o}
    /\ UNCHANGED <<row, socketVars, task, clientVars, faults>>

\* cancelOrder, and overrideOrderStatus, which sets any status
SetStatus(o) ==
    /\ \/ active' = active \cup {o}
       \/ active' = active \ {o}
    /\ UNCHANGED <<riderId, riders, row, socketVars, task, clientVars, faults>>

\* An await throws: the handler tells its client and ends.
Fail(p) ==
    /\ faults < MaxFaults
    /\ task[p] # Idle
    /\ faults' = faults + 1
    /\ Become(p, Idle)
    /\ lost' = lost \cup {m \in Message : task[p] = Emitting(m)}
    /\ UNCHANGED <<orderVars, row, socketVars, seen, gap>>

\* The process ends: every socket closes and the rooms are gone.
Crash ==
    /\ faults < MaxFaults
    /\ faults' = faults + 1
    /\ task' = [p \in Proc |-> Idle]
    /\ closed' = closed \cup {s \in Socket : Up(s)}
    /\ chatRoom' = [o \in Order |-> {}]
    /\ adminRoom' = {}
    /\ Forget(Socket)
    /\ lost' = lost \cup {m \in Message : Unsent(m)}
    /\ UNCHANGED <<orderVars, row, userId>>

-----------------------------------------------------------------------------
Init ==
    /\ riderId = [o \in Order |-> NoUser]
    /\ active = {}
    /\ riders = [o \in Order |-> {}]
    /\ row = [m \in Message |-> NoRow]
    /\ userId = [s \in Socket |-> NoUser]
    /\ closed = {}
    /\ chatRoom = [o \in Order |-> {}]
    /\ adminRoom = {}
    /\ task = [p \in Proc |-> Idle]
    /\ seen = [s \in Socket |-> {}]
    /\ lost = {}
    /\ before = [s \in Socket |-> {}]
    /\ gap = [s \in Socket |-> {}]
    /\ faults = 0

\* the next await of the handler that runs in slot p
Step(p) ==
    \/ ReadHistory(p)
    \/ EnterRoom(p)
    \/ \E m \in Message : CreateRow(p, m)
    \/ Emit(p)

Call(p) ==
    \/ \E s \in Socket, o \in Order : JoinOrderChat(p, s, o) \/ SendMessage(p, s, o)
    \/ \E u \in User, o \in Order : LogCall(p, u, o)

Client(s) ==
    \/ \E u \in User : Connect(s, u)
    \/ Disconnect(s)
    \/ \E o \in Order : LeaveOrderChat(s, o)

Environment ==
    \/ \E o \in Order : SetStatus(o) \/ \E r \in Rider : Assign(o, r)
    \/ Crash

Next ==
    \/ \E p \in Proc : Call(p) \/ Step(p) \/ Fail(p)
    \/ \E s \in Socket : Client(s)
    \/ Environment

Spec == Init /\ [][Next]_vars

-----------------------------------------------------------------------------
(* What chat keeps to.                                                     *)

TypeOK ==
    /\ riderId \in [Order -> Rider \cup {NoUser}]
    /\ active \subseteq Order
    /\ riders \in [Order -> SUBSET Rider]
    /\ row \in [Message -> Row \cup {NoRow}]
    /\ userId \in [Socket -> User \cup {NoUser}]
    /\ closed \subseteq Socket
    /\ chatRoom \in [Order -> SUBSET Socket]
    /\ adminRoom \subseteq Socket
    /\ task \in [Proc -> Task]
    /\ seen \in [Socket -> SUBSET Message]
    /\ lost \subseteq Message
    /\ before \in [Socket -> SUBSET Message]
    /\ gap \in [Socket -> SUBSET Message]
    /\ faults \in 0..MaxFaults

\* A client in the room of an order has every message of it that is stored,
\* however joins, messages and disconnections interleave, except those about to
\* be emitted, those whose handler failed, and those that were emitted between
\* the read of its history and its join.
OnlyTheGapIsMissed ==
    \A o \in Order, m \in Message : \A s \in chatRoom[o] :
        m \in Sent \cap MessagesOf(o) => m \in seen[s] \cup gap[s]

\* README: admins 'receive all messages in real time'.  The client of an admin
\* has every message and call that is stored since it connected, unless one is
\* about to be emitted or its handler failed.
AdminsMissNothing ==
    \A s \in adminRoom : Sent \subseteq seen[s] \cup before[s]

\* A message is seen by the customer of its order, by admins, and by users who
\* drive or have driven for it, and by nobody else: rooms are joined on what
\* the order was when it was read, and kept when it changes hands.
OnlyPartiesSee ==
    \A s \in Socket : \A m \in seen[s] :
        \/ userId[s] \in Admin
        \/ userId[s] = customer[row[m].order]
        \/ userId[s] \in riders[row[m].order]

=============================================================================
