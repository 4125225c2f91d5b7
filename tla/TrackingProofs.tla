--------------------------- MODULE TrackingProofs ---------------------------
(***************************************************************************)
(* Proofs about Tracking, for any users, sockets, orders and bounds: what  *)
(* the map of sockets holds, and what clients are shown.                   *)
(***************************************************************************)
EXTENDS Tracking, TLAPS

LEMMA TaskCases ==
    ASSUME NEW t \in Task
    PROVE  /\ t.pc \in {"idle", "profile", "log", "failed"}
           /\ t.pc = "idle" => t = Idle
           /\ t.pc # "idle" =>
                /\ t.user \in User
                /\ t.order \in Order \cup {NoOrder}
                /\ t.at \in Position
                /\ t.todo \in SUBSET {"gpsLog", "profile"}
                /\ t = Update(t.pc, t.user, t.order, t.at, t.todo)
    BY DEF Task, Idle, Update

LEMMA TasksMade ==
    /\ Idle \in Task
    /\ \A pc \in {"profile", "log", "failed"}, u \in User, o \in Order \cup {NoOrder},
          at \in Position, todo \in SUBSET {"gpsLog", "profile"} :
         Update(pc, u, o, at, todo) \in Task
    BY DEF Task, Idle, Update

\* what is left of a handler when one of its writes has landed or failed
LEMMA RestOfTask ==
    ASSUME NEW t \in Task, t.pc \in {"log", "failed"}, NEW write, NEW u,
           u = [t EXCEPT !.todo = @ \ {write}] \/ u = [t EXCEPT !.pc = "failed", !.todo = @ \ {write}]
    PROVE  /\ u = Update(u.pc, t.user, t.order, t.at, t.todo \ {write})
           /\ u.pc \in {t.pc, "failed"}
           /\ Rest(u) \in {u, Idle}
           /\ t.pc = "log" /\ u.pc = "log" => Rest(u) = u
           /\ Rest(u) \in Task
  <1>1. t = Update(t.pc, t.user, t.order, t.at, t.todo)
    BY TaskCases
  <1>2. \/ u = Update(t.pc, t.user, t.order, t.at, t.todo \ {write})
        \/ u = Update("failed", t.user, t.order, t.at, t.todo \ {write})
    BY <1>1 DEF Update
  <1>3. u = Update(u.pc, t.user, t.order, t.at, t.todo \ {write}) /\ u.pc \in {t.pc, "failed"}
    BY <1>2 DEF Update
  <1>4. u \in Task
    <2>1. /\ t.user \in User /\ t.order \in Order \cup {NoOrder} /\ t.at \in Position
          /\ t.todo \in SUBSET {"gpsLog", "profile"}
      BY TaskCases
    <2>2. t.todo \ {write} \in SUBSET {"gpsLog", "profile"}
      BY <2>1
    <2>3. \A pc \in {"profile", "log", "failed"} :
            Update(pc, t.user, t.order, t.at, t.todo \ {write}) \in Task
      BY <2>1, <2>2, TasksMade
    <2> QED BY <1>2, <2>3
  <1>5. Rest(u) \in {u, Idle} /\ (u.pc = "log" => Rest(u) = u)
    BY DEF Rest
  <1>6. Rest(u) \in Task
    BY <1>4, <1>5, TasksMade
  <1> QED BY <1>3, <1>5, <1>6

-----------------------------------------------------------------------------
(* The map and the rooms: steps of handlers leave them alone.              *)

TypesOfSockets ==
    /\ connection \in [Socket -> {"new", "open", "closed"}]
    /\ socketMap \in [User -> Socket \cup {NoSocket}]
    /\ orderRoom \in [Order -> SUBSET Socket]
    /\ newest \in [User -> Socket \cup {NoSocket}]
    /\ joined \in [Order -> Socket \cup {NoSocket}]

\* a socket that the histories name has connected
HistoriesConnected ==
    /\ \A u \in User : newest[u] # NoSocket => connection[newest[u]] # "new"
    /\ \A o \in Order : joined[o] # NoSocket => connection[joined[o]] # "new"

SocketInv ==
    /\ TypesOfSockets
    /\ HistoriesConnected
    /\ MapHoldsNewest
    /\ CustomerFollows

LEMMA SocketsByConnect ==
    ASSUME SocketInv, NEW s \in Socket, Connect(s)
    PROVE  SocketInv'
  <1> USE DEF SocketInv, TypesOfSockets
  <1>1. /\ connection[s] = "new"
        /\ connection' = [connection EXCEPT ![s] = "open"]
        /\ UNCHANGED <<orderRoom, joined>>
    BY DEF Connect
  <1>2. owner[s] \in User \cup {NoUser}
    BY OwnerAssumption
  <1>3. TypesOfSockets'
    BY <1>1, <1>2 DEF Connect
  <1>4. \A r \in Socket : r # s => connection'[r] = connection[r]
    BY <1>1
  <1>5. connection'[s] = "open"
    BY <1>1
  <1>6. CustomerFollows'
    BY <1>1, <1>4 DEF CustomerFollows, Open, HistoriesConnected
  <1>7. CASE owner[s] = NoUser
    <2>1. UNCHANGED <<socketMap, newest>>
      BY <1>7 DEF Connect
    <2>2. MapHoldsNewest'
      BY <1>1, <1>4, <1>5, <2>1, NoneAssumption DEF MapHoldsNewest, Open, HistoriesConnected
    <2>3. HistoriesConnected'
      BY <1>1, <1>4, <1>5, <2>1, NoneAssumption DEF HistoriesConnected
    <2> QED BY <1>3, <1>6, <2>2, <2>3
  <1>8. CASE owner[s] # NoUser
    <2>1. /\ owner[s] \in User
          /\ socketMap' = [socketMap EXCEPT ![owner[s]] = s]
          /\ newest' = [newest EXCEPT ![owner[s]] = s]
      BY <1>2, <1>8 DEF Connect
    <2>2. MapHoldsNewest'
      BY <1>1, <1>4, <1>5, <2>1, NoneAssumption DEF MapHoldsNewest, Open, HistoriesConnected
    <2>3. HistoriesConnected'
      BY <1>1, <1>4, <1>5, <2>1, NoneAssumption DEF HistoriesConnected
    <2> QED BY <1>3, <1>6, <2>2, <2>3
  <1> QED BY <1>7, <1>8

LEMMA SocketsByDisconnect ==
    ASSUME SocketInv, NEW s \in Socket, Disconnect(s)
    PROVE  SocketInv'
  <1> USE DEF SocketInv, TypesOfSockets
  <1>1. /\ connection' = [connection EXCEPT ![s] = "closed"]
        /\ UNCHANGED <<newest, joined>>
    BY DEF Disconnect
  <1>2. \A u \in User : socketMap'[u] = IF socketMap[u] = s THEN NoSocket ELSE socketMap[u]
    BY DEF Disconnect, Unmap
  <1>3. \A o \in Order : orderRoom'[o] = orderRoom[o] \ {s}
    BY DEF Disconnect
  <1>4. TypesOfSockets'
    BY <1>1 DEF Disconnect, Unmap
  <1>5. connection'[s] = "closed" /\ \A r \in Socket : r # s => connection'[r] = connection[r]
    BY <1>1
  <1>6. HistoriesConnected'
    BY <1>1, <1>5 DEF HistoriesConnected
  <1>7. MapHoldsNewest'
    BY <1>1, <1>2, <1>5 DEF MapHoldsNewest, Open
  <1>8. CustomerFollows'
    BY <1>1, <1>3, <1>5 DEF CustomerFollows, Open
  <1> QED BY <1>4, <1>6, <1>7, <1>8

LEMMA SocketsByJoin ==
    ASSUME SocketInv, NEW o \in Order,
           \/ \E s \in Socket : JoinOrder(s, o)
           \/ o \in Placed /\ EmitOrderAssigned(o)
    PROVE  SocketInv'
  <1> USE DEF SocketInv, TypesOfSockets
  <1>1. UNCHANGED <<connection, socketMap, newest>>
    BY DEF JoinOrder, EmitOrderAssigned
  <1>2. TypesOfSockets' /\ \A n \in Order : orderRoom[n] \subseteq orderRoom'[n]
    <2>1. CASE \E s \in Socket : JoinOrder(s, o)
      BY <2>1 DEF JoinOrder
    <2>2. CASE o \in Placed /\ EmitOrderAssigned(o)
      <3>1. customer[o] \in User
        BY <2>2, CustomerAssumption
      <3>2. /\ Mapped(customer[o]) \subseteq Socket
            /\ newest[customer[o]] \in Socket \cup {NoSocket}
        BY <3>1 DEF Mapped
      <3> QED BY <2>2, <3>2 DEF EmitOrderAssigned
    <2> QED BY <2>1, <2>2
  <1>3. MapHoldsNewest'
    BY <1>1 DEF MapHoldsNewest, Open
  <1>4. CASE UNCHANGED joined
    BY <1>1, <1>2, <1>3, <1>4 DEF HistoriesConnected, CustomerFollows, Open
  <1>5. CASE o \in Placed /\ EmitOrderAssigned(o)
    <2>1. /\ joined' = [joined EXCEPT ![o] = newest[customer[o]]]
          /\ orderRoom' = [orderRoom EXCEPT ![o] = @ \cup Mapped(customer[o])]
          /\ customer[o] \in User
      BY <1>5, CustomerAssumption DEF EmitOrderAssigned
    <2>2. HistoriesConnected'
      BY <1>1, <2>1 DEF HistoriesConnected
    <2>3. newest[customer[o]] # NoSocket /\ Open(newest[customer[o]])
            => newest[customer[o]] \in Mapped(customer[o])
      BY <2>1 DEF MapHoldsNewest, Mapped
    <2>4. CustomerFollows'
      BY <1>1, <2>1, <2>3 DEF CustomerFollows, Open
    <2> QED BY <1>2, <1>3, <2>2, <2>4
  <1> QED BY <1>4, <1>5 DEF JoinOrder

LEMMA SocketsByNext == SocketInv /\ [Next]_vars => SocketInv'
  <1> SUFFICES ASSUME SocketInv, [Next]_vars PROVE SocketInv'
    OBVIOUS
  <1>1. CASE UNCHANGED socketVars
    BY <1>1 DEF SocketInv, TypesOfSockets, HistoriesConnected, MapHoldsNewest,
                CustomerFollows, Open, socketVars
  <1>2. CASE \E s \in Socket : Sockets(s)
    BY <1>2, SocketsByConnect, SocketsByDisconnect, SocketsByJoin DEF Sockets
  <1>3. CASE \E o \in Placed : EmitOrderAssigned(o)
    BY <1>3, CustomerAssumption, SocketsByJoin
  <1>4. CASE Crash
    <2>1. /\ \A s \in Socket : connection'[s] # "open"
          /\ \A s \in Socket : connection[s] # "new" => connection'[s] # "new"
      BY <1>4 DEF Crash, Open, SocketInv, TypesOfSockets
    <2>2. TypesOfSockets'
      BY <1>4 DEF Crash, Open, SocketInv, TypesOfSockets
    <2>3. UNCHANGED <<newest, joined>> /\ socketMap' = [u \in User |-> NoSocket]
      BY <1>4 DEF Crash
    <2> QED BY <2>1, <2>2, <2>3
            DEF SocketInv, TypesOfSockets, HistoriesConnected, MapHoldsNewest,
                CustomerFollows, Open
  <1>5. CASE \/ \E p \in Proc, s \in Socket, o \in Order \cup {NoOrder} : LocationUpdate(p, s, o)
             \/ \E p \in Proc : Step(p) \/ Fail(p)
                                \/ \E write \in {"gpsLog", "profile"} : WriteFails(p, write)
             \/ UNCHANGED vars
    BY <1>1, <1>5 DEF LocationUpdate, Step, UpdateRiderLocation, LogLocation,
                      EmitRiderLocation, Fail, WriteFails, Fault, vars
  <1> QED BY <1>2, <1>3, <1>4, <1>5 DEF Next

LEMMA SocketsAtFirst == Init => SocketInv
    BY DEF Init, SocketInv, TypesOfSockets, HistoriesConnected, MapHoldsNewest,
           CustomerFollows, Open

\* However late the server notices that an old connection is gone, the map holds
\* the newest socket of a user, and no socket that is closed.
THEOREM MapIsFresh == Spec => []MapHoldsNewest
  <1>1. SocketInv => MapHoldsNewest
    BY DEF SocketInv
  <1> QED BY <1>1, SocketsAtFirst, SocketsByNext, PTL DEF Spec

\* The customer of an order that is assigned is in its room.
THEOREM CustomersAreJoined == Spec => []CustomerFollows
  <1>1. SocketInv => CustomerFollows
    BY DEF SocketInv
  <1> QED BY <1>1, SocketsAtFirst, SocketsByNext, PTL DEF Spec

-----------------------------------------------------------------------------
(* Types.                                                                  *)

\* the handlers after the await of "profile" serve an order
OrdersOfTasks ==
    \A p \in Proc : task[p].pc \in {"log", "failed"} => task[p].order \in Order

TypeInv == TypeOK /\ OrdersOfTasks

LEMMA TypeByUpdate ==
    ASSUME TypeInv, NEW p \in Proc, NEW s \in Socket, NEW o \in Order \cup {NoOrder},
           LocationUpdate(p, s, o)
    PROVE  TypeInv'
  <1> USE DEF TypeInv, TypeOK
  <1>1. reports + 1 \in Position /\ owner[s] \in User
    BY BoundAssumption, OwnerAssumption DEF LocationUpdate, Position
  <1>2. task' = [task EXCEPT ![p] = Update("profile", owner[s], o, reports + 1, {})]
    BY DEF LocationUpdate, Become
  <1>3. task' \in [Proc -> Task]
    BY <1>1, <1>2, TasksMade
  <1>4. OrdersOfTasks'
    BY <1>2 DEF OrdersOfTasks, Update
  <1>5. reports' \in Position /\ overlapped' \subseteq Order
    BY <1>1 DEF LocationUpdate
  <1> QED BY <1>3, <1>4, <1>5 DEF LocationUpdate, socketVars, storeVars

LEMMA TypeByStep ==
    ASSUME TypeInv, NEW p \in Proc, Step(p)
    PROVE  TypeInv'
  <1> USE DEF TypeInv, TypeOK
  <1> DEFINE t == task[p]
  <1>0. t \in Task
    OBVIOUS
  <1>1. CASE UpdateRiderLocation(p)
    <2>1. /\ t.user \in User /\ t.at \in Position /\ t.order \in Order \cup {NoOrder}
      BY <1>0, <1>1, TaskCases DEF UpdateRiderLocation
    <2>2. position' \in [Rider -> Position]
      BY <1>1, <2>1 DEF UpdateRiderLocation, MoveTo
    <2>3. task' = [task EXCEPT ![p] =
                     IF t.order = NoOrder THEN Idle
                     ELSE Update("log", t.user, t.order, t.at, LogWrites(t.order))]
      BY <1>1 DEF UpdateRiderLocation, Become
    <2>4. task' \in [Proc -> Task]
      BY <2>1, <2>3, TasksMade DEF LogWrites
    <2>5. OrdersOfTasks'
      BY <2>1, <2>3 DEF OrdersOfTasks, Update, Idle
    <2> QED BY <1>1, <2>2, <2>4, <2>5 DEF UpdateRiderLocation, socketVars
  <1>2. CASE \E write \in {"gpsLog", "profile"} : LogLocation(p, write)
    <2>1. PICK write \in {"gpsLog", "profile"} : LogLocation(p, write)
      BY <1>2
    <2>2. t.pc \in {"log", "failed"} /\ t.at \in Position /\ t.order \in Order
      BY <1>0, <2>1, TaskCases DEF LogLocation, OrdersOfTasks
    <2> DEFINE u == [t EXCEPT !.todo = @ \ {write}]
    <2>3. task' = [task EXCEPT ![p] = Rest(u)]
      BY <2>1 DEF LogLocation, Become
    <2>4. /\ u = Update(u.pc, t.user, t.order, t.at, t.todo \ {write})
          /\ Rest(u) \in {u, Idle} /\ Rest(u) \in Task
      BY <1>0, <2>2, RestOfTask
    <2>5. Rest(u).pc # "idle" => Rest(u).order = t.order
      BY <2>4 DEF Update, Idle
    <2> HIDE DEF u
    <2>6. task' \in [Proc -> Task] /\ OrdersOfTasks'
      BY <2>2, <2>3, <2>4, <2>5 DEF OrdersOfTasks
    <2>7. position' \in [Rider -> Position]
      BY <2>1, <2>2 DEF LogLocation, MoveTo
    <2>8. gpsLog' \in [Order -> SUBSET Position]
      <3>1. \/ gpsLog' = [gpsLog EXCEPT ![t.order] = @ \cup {t.at}]
            \/ gpsLog' = gpsLog
        BY <2>1 DEF LogLocation
      <3>2. gpsLog[t.order] \cup {t.at} \in SUBSET Position
        BY <2>2
      <3> QED BY <2>2, <3>1, <3>2
    <2> QED BY <2>1, <2>6, <2>7, <2>8 DEF LogLocation, socketVars
  <1>3. CASE EmitRiderLocation(p)
    <2>1. t.at \in Position /\ t.order \in Order
      BY <1>0, <1>3, TaskCases DEF EmitRiderLocation, Landed, OrdersOfTasks
    <2>2. marker' \in [Socket -> [Order -> Position]]
      BY <1>3, <2>1 DEF EmitRiderLocation
    <2>3. task' = [task EXCEPT ![p] = Idle]
      BY <1>3 DEF EmitRiderLocation, Become
    <2>4. task' \in [Proc -> Task] /\ OrdersOfTasks'
      BY <2>3, TasksMade DEF OrdersOfTasks, Idle
    <2> QED BY <1>3, <2>2, <2>4 DEF EmitRiderLocation, socketVars, storeVars
  <1> QED BY <1>1, <1>2, <1>3 DEF Step

LEMMA TypeByFault ==
    ASSUME TypeInv, NEW p \in Proc,
           Fail(p) \/ \E write \in {"gpsLog", "profile"} : WriteFails(p, write)
    PROVE  TypeInv'
  <1> USE DEF TypeInv, TypeOK
  <1> DEFINE t == task[p]
  <1>0. t \in Task
    OBVIOUS
  <1>1. Fault(t.order)
    BY DEF Fail, WriteFails
  <1>2. faults' \in 0..MaxFaults /\ overlapped' \subseteq Order
    BY <1>1, BoundAssumption DEF Fault
  <1>3. task' \in [Proc -> Task] /\ OrdersOfTasks'
    <2>1. CASE Fail(p)
      BY <2>1, TasksMade DEF Fail, Become, OrdersOfTasks, Idle
    <2>2. CASE \E write \in {"gpsLog", "profile"} : WriteFails(p, write)
      <3>1. PICK write \in {"gpsLog", "profile"} : WriteFails(p, write)
        BY <2>2
      <3>2. t.pc = "log" /\ t.order \in Order
        BY <3>1 DEF WriteFails, OrdersOfTasks
      <3> DEFINE u == [t EXCEPT !.pc = "failed", !.todo = @ \ {write}]
      <3>3. task' = [task EXCEPT ![p] = Rest(u)]
        BY <3>1 DEF WriteFails, Become
      <3>4. /\ u = Update(u.pc, t.user, t.order, t.at, t.todo \ {write})
            /\ Rest(u) \in {u, Idle} /\ Rest(u) \in Task
        <4>1. t.pc \in {"log", "failed"}
          BY <3>2
        <4> HIDE DEF t
        <4> QED BY <1>0, <4>1, RestOfTask, Zenon
      <3>5. Rest(u).pc # "idle" => Rest(u).order = t.order
        BY <3>4 DEF Update, Idle
      <3> HIDE DEF u
      <3> QED BY <3>2, <3>3, <3>4, <3>5 DEF OrdersOfTasks
    <2> QED BY <2>1, <2>2
  <1> QED BY <1>1, <1>2, <1>3 DEF Fault, socketVars, storeVars

LEMMA TypeBySockets ==
    ASSUME TypeInv, SocketInv', TypesOfSockets,
           \/ \E s \in Socket : Sockets(s)
           \/ \E o \in Placed : EmitOrderAssigned(o)
           \/ Crash
    PROVE  TypeInv'
  <1> USE DEF TypeInv, TypeOK
  <1>1. TypesOfSockets'
    BY DEF SocketInv
  <1>2. UNCHANGED <<storeVars, overlapped, reports>>
    BY DEF Sockets, Connect, Disconnect, JoinOrder, EmitOrderAssigned, Crash
  <1>3. marker' \in [Socket -> [Order -> Position]]
    <2>1. 0 \in Position
      BY BoundAssumption DEF Position
    <2>2. [o \in Order |-> 0] \in [Order -> Position]
      BY <2>1
    <2>3. \/ marker' = marker
          \/ \E s \in Socket : marker' = [marker EXCEPT ![s] = [o \in Order |-> 0]]
          \/ marker' = [s \in Socket |-> [o \in Order |-> 0]]
      BY DEF Sockets, Connect, Disconnect, JoinOrder, EmitOrderAssigned, Crash
    <2> HIDE DEF TypeInv
    <2>4. marker \in [Socket -> [Order -> Position]]
      BY DEF TypeInv
    <2> QED BY <2>2, <2>3, <2>4
  <1>4. task' \in [Proc -> Task] /\ OrdersOfTasks'
    BY TasksMade DEF Sockets, Connect, Disconnect, JoinOrder, EmitOrderAssigned, Crash,
                     OrdersOfTasks, Idle
  <1>5. faults' \in 0..MaxFaults
    BY BoundAssumption DEF Sockets, Connect, Disconnect, JoinOrder, EmitOrderAssigned, Crash
  <1> QED BY <1>1, <1>2, <1>3, <1>4, <1>5 DEF TypesOfSockets, storeVars

LEMMA TypeAtFirst == Init => TypeInv
    BY TasksMade, BoundAssumption
       DEF Init, TypeInv, TypeOK, OrdersOfTasks, Idle, Position

LEMMA TypeByNext == TypeInv /\ SocketInv /\ SocketInv' /\ [Next]_vars => TypeInv'
  <1> SUFFICES ASSUME TypeInv, SocketInv, SocketInv', [Next]_vars PROVE TypeInv'
    OBVIOUS
  <1>1. CASE UNCHANGED vars
    BY <1>1 DEF TypeInv, TypeOK, OrdersOfTasks, vars, socketVars, storeVars
  <1>2. CASE Next
    BY <1>2, TypeByUpdate, TypeByStep, TypeByFault, TypeBySockets DEF Next, SocketInv
  <1> QED BY <1>1, <1>2

\* Every variable of Tracking keeps its type.
THEOREM TypeCorrect == Spec => []TypeOK
  <1>1. TypeInv => TypeOK
    BY DEF TypeInv
  <1> QED BY <1>1, SocketsAtFirst, SocketsByNext, TypeAtFirst, TypeByNext, PTL DEF Spec

-----------------------------------------------------------------------------
(* What clients are shown.                                                 *)

\* a handler whose position has landed in the trail finds it there
LoggedTasks ==
    \A p \in Proc : task[p].pc = "log" /\ task[p].order \in Placed
                      /\ "gpsLog" \notin task[p].todo
                      => task[p].at \in gpsLog[task[p].order]

LoggedInv == LoggedTasks /\ ShownIsLogged

\* the trail grows, and clients are shown nothing new
Quiet ==
    /\ \A o \in Order : gpsLog[o] \subseteq gpsLog'[o]
    /\ \A s \in Socket, o \in Order : marker'[s][o] \in {0, marker[s][o]}

LEMMA LoggedByQuiet ==
    ASSUME TypeInv, LoggedInv, Quiet, NEW p \in Proc,
           \A q \in Proc \ {p} : task'[q] = task[q],
           task'[p].pc = "log" /\ task'[p].order \in Placed /\ "gpsLog" \notin task'[p].todo
             => task'[p].at \in gpsLog'[task'[p].order]
    PROVE  LoggedInv'
  <1>1. ShownIsLogged'
    BY CustomerAssumption DEF Quiet, LoggedInv, ShownIsLogged
  <1>2. LoggedTasks'
    <2> SUFFICES ASSUME NEW q \in Proc, task'[q].pc = "log", task'[q].order \in Placed,
                        "gpsLog" \notin task'[q].todo
                 PROVE  task'[q].at \in gpsLog'[task'[q].order]
      BY DEF LoggedTasks
    <2>1. CASE q = p
      BY <2>1
    <2>2. CASE q # p
      <3>1. task'[q] = task[q] /\ task[q].order \in Order
        BY <2>2 DEF TypeInv, OrdersOfTasks
      <3> QED BY <3>1 DEF LoggedInv, LoggedTasks, Quiet
    <2> QED BY <2>1, <2>2
  <1> QED BY <1>1, <1>2 DEF LoggedInv

LEMMA LoggedByLog ==
    ASSUME TypeInv, LoggedInv, NEW p \in Proc, NEW write \in {"gpsLog", "profile"},
           LogLocation(p, write)
    PROVE  LoggedInv'
  <1> DEFINE t == task[p]
             u == [t EXCEPT !.todo = @ \ {write}]
  <1>1. t \in Task /\ t.pc \in {"log", "failed"} /\ t.order \in Order
    BY DEF TypeInv, TypeOK, OrdersOfTasks, LogLocation
  <1>2. task' = [task EXCEPT ![p] = Rest(u)] /\ task \in [Proc -> Task]
    BY DEF LogLocation, Become, TypeInv, TypeOK
  <1>3. /\ u = Update(u.pc, t.user, t.order, t.at, t.todo \ {write})
        /\ u.pc \in {t.pc, "failed"} /\ Rest(u) \in {u, Idle}
    <2>1. t.pc \in {"log", "failed"}
      BY <1>1
    <2>2. t \in Task
      BY <1>1
    <2> HIDE DEF t
    <2> QED BY <2>1, <2>2, RestOfTask, Zenon
  <1>4. \A o \in Order : gpsLog'[o] = IF write = "gpsLog" /\ o = t.order
                                      THEN gpsLog[o] \cup {t.at} ELSE gpsLog[o]
    BY DEF LogLocation, TypeInv, TypeOK
  <1>5. Quiet
    BY <1>4 DEF Quiet, LogLocation
  <1>6. u.at = t.at /\ u.order = t.order /\ u.todo = t.todo \ {write}
    BY <1>3 DEF Update
  <1> HIDE DEF u
  <1>7. task'[p] = Rest(u) /\ \A q \in Proc \ {p} : task'[q] = task[q]
    BY <1>2
  <1>8. ASSUME u.pc = "log", u.order \in Placed, "gpsLog" \notin u.todo
        PROVE  u.at \in gpsLog'[u.order]
    <2>1. CASE write = "gpsLog"
      BY <1>1, <1>4, <1>6, <2>1
    <2>2. CASE write # "gpsLog"
      <3>1. t.pc = "log" /\ t.order \in Placed /\ "gpsLog" \notin t.todo
        BY <1>1, <1>3, <1>6, <1>8, <2>2
      <3> QED BY <1>1, <1>4, <1>6, <2>2, <3>1 DEF LoggedInv, LoggedTasks
    <2> QED BY <2>1, <2>2
  <1>9. task'[p].pc = "log" /\ task'[p].order \in Placed /\ "gpsLog" \notin task'[p].todo
          => task'[p].at \in gpsLog'[task'[p].order]
    BY <1>3, <1>7, <1>8 DEF Idle
  <1> QED BY <1>5, <1>7, <1>9, LoggedByQuiet

LEMMA LoggedByEmit ==
    ASSUME TypeInv, LoggedInv, NEW p \in Proc, EmitRiderLocation(p)
    PROVE  LoggedInv'
  <1> DEFINE t == task[p]
  <1>1. t.pc = "log" /\ t.todo = {} /\ t.order \in Order
    BY DEF EmitRiderLocation, Landed, TypeInv, OrdersOfTasks
  <1>2. t.order \in Placed => t.at \in gpsLog[t.order]
    BY <1>1 DEF LoggedInv, LoggedTasks
  <1>3. UNCHANGED gpsLog /\ task' = [task EXCEPT ![p] = Idle]
    BY DEF EmitRiderLocation, Become, storeVars
  <1>4. \A s \in Socket, o \in Order : marker'[s][o] \in {marker[s][o]} \cup
                                         (IF o = t.order THEN {t.at} ELSE {})
    BY DEF EmitRiderLocation, TypeInv, TypeOK
  <1>5. ShownIsLogged'
    BY <1>2, <1>3, <1>4, CustomerAssumption DEF LoggedInv, ShownIsLogged
  <1>6. LoggedTasks'
    BY <1>3 DEF LoggedInv, LoggedTasks, Idle, TypeInv, TypeOK
  <1> QED BY <1>5, <1>6 DEF LoggedInv

LEMMA LoggedByNext == TypeInv /\ LoggedInv /\ [Next]_vars => LoggedInv'
  <1> SUFFICES ASSUME TypeInv, LoggedInv, [Next]_vars PROVE LoggedInv'
    OBVIOUS
  <1>0. task \in [Proc -> Task] /\ marker \in [Socket -> [Order -> Position]]
    BY DEF TypeInv, TypeOK
  <1>1. CASE \/ \E s \in Socket : Sockets(s)
             \/ \E o \in Placed : EmitOrderAssigned(o)
             \/ UNCHANGED vars
    <2>1. UNCHANGED <<gpsLog, task>>
      BY <1>1 DEF Sockets, Connect, Disconnect, JoinOrder, EmitOrderAssigned, storeVars, vars
    <2>2. \/ marker' = marker
          \/ \E s \in Socket : marker' = [marker EXCEPT ![s] = [o \in Order |-> 0]]
      BY <1>1 DEF Sockets, Connect, Disconnect, JoinOrder, EmitOrderAssigned, vars
    <2>3. \A s \in Socket, o \in Order : marker'[s][o] \in {0, marker[s][o]}
      BY <1>0, <2>2
    <2> QED BY <2>1, <2>3, CustomerAssumption DEF LoggedInv, LoggedTasks, ShownIsLogged
  <1>2. CASE Crash
    BY <1>2, CustomerAssumption DEF Crash, LoggedInv, LoggedTasks, ShownIsLogged, Idle
  <1>3. ASSUME NEW p \in Proc, NEW s \in Socket, NEW o \in Order \cup {NoOrder},
               LocationUpdate(p, s, o)
        PROVE  LoggedInv'
    <2>1. task' = [task EXCEPT ![p] = Update("profile", owner[s], o, reports + 1, {})]
      BY <1>3 DEF LocationUpdate, Become
    <2>2. task'[p].pc = "profile" /\ \A q \in Proc \ {p} : task'[q] = task[q]
      BY <1>0, <2>1 DEF Update
    <2>3. Quiet
      BY <1>3 DEF LocationUpdate, storeVars, Quiet
    <2> QED BY <2>2, <2>3, LoggedByQuiet
  <1>4. ASSUME NEW p \in Proc, UpdateRiderLocation(p)
        PROVE  LoggedInv'
    <2>1. task' = [task EXCEPT ![p] =
                     IF task[p].order = NoOrder THEN Idle
                     ELSE Update("log", task[p].user, task[p].order, task[p].at,
                                 LogWrites(task[p].order))]
      BY <1>4 DEF UpdateRiderLocation, Become
    <2>2. /\ task'[p].pc = "log" /\ task'[p].order \in Placed => "gpsLog" \in task'[p].todo
          /\ \A q \in Proc \ {p} : task'[q] = task[q]
      BY <1>0, <2>1 DEF Update, Idle, LogWrites
    <2>3. Quiet
      BY <1>4 DEF UpdateRiderLocation, Quiet
    <2> QED BY <2>2, <2>3, LoggedByQuiet
  <1>5. ASSUME NEW p \in Proc,
               Fail(p) \/ \E write \in {"gpsLog", "profile"} : WriteFails(p, write)
        PROVE  LoggedInv'
    <2>1. task'[p].pc # "log" /\ \A q \in Proc \ {p} : task'[q] = task[q]
      <3>1. CASE Fail(p)
        BY <1>0, <3>1 DEF Fail, Become, Idle
      <3>2. CASE \E write \in {"gpsLog", "profile"} : WriteFails(p, write)
        <4>1. PICK write \in {"gpsLog", "profile"} : WriteFails(p, write)
          BY <3>2
        <4> DEFINE u == [task[p] EXCEPT !.pc = "failed", !.todo = @ \ {write}]
        <4>2. task' = [task EXCEPT ![p] = Rest(u)] /\ task[p].pc = "log"
          BY <4>1 DEF WriteFails, Become
        <4>3. task[p] = Update(task[p].pc, task[p].user, task[p].order, task[p].at,
                               task[p].todo)
          BY <1>0, <4>2, TaskCases
        <4>4. u.pc = "failed"
          BY <4>3 DEF Update
        <4> HIDE DEF u
        <4>5. Rest(u).pc # "log"
          BY <4>4 DEF Rest, Idle
        <4> QED BY <1>0, <4>2, <4>5
      <3> QED BY <1>5, <3>1, <3>2
    <2>2. Quiet
      BY <1>5 DEF Fail, WriteFails, Fault, storeVars, Quiet
    <2> QED BY <2>1, <2>2, LoggedByQuiet
  <1> QED BY <1>1, <1>2, <1>3, <1>4, <1>5, LoggedByLog, LoggedByEmit DEF Next, Step

\* No client in the room of an order is shown a position that the trail of the order
\* does not have: a position is sent when both writes of it have landed.  The room of
\* an id that is of no order is the exception: its positions are sent and not logged.
THEOREM ShownIsInTrail == Spec => []ShownIsLogged
  <1>1. Init => LoggedInv
    BY CustomerAssumption DEF Init, LoggedInv, LoggedTasks, ShownIsLogged, Idle
  <1>2. LoggedInv => ShownIsLogged
    BY DEF LoggedInv
  <1> QED BY <1>1, <1>2, SocketsAtFirst, SocketsByNext, TypeAtFirst, TypeByNext,
             LoggedByNext, PTL DEF Spec

-----------------------------------------------------------------------------
(* Clients agree with the trail.                                           *)

\* positions are numbered as they are reported
Reported ==
    /\ \A o \in Order : \A at \in gpsLog[o] : at <= reports
    /\ \A p \in Proc : task[p].pc # "idle" => task[p].at <= reports

\* who is not in a room was shown nothing
RoomsShown ==
    \A o \in Order, s \in Socket : s \notin orderRoom[o] => marker[s][o] = 0

\* an update that overlaps with no other reports what is newer than the trail
OneAtATime ==
    \A o \in Order \ overlapped : \A p \in Updating(o) :
        /\ task[p].pc # "failed"
        /\ \A q \in Updating(o) : q = p
        /\ \A at \in gpsLog[o] : at <= task[p].at

\* what a client in the room is yet to be shown is being reported
OnlyPendingUnseen ==
    \A o \in Order \ overlapped : \A s \in orderRoom[o] : marker[s][o] # 0 =>
        \A at \in gpsLog[o] :
            at <= marker[s][o] \/ \E p \in Updating(o) : at = task[p].at

MarkerInv == Reported /\ RoomsShown /\ OneAtATime /\ OnlyPendingUnseen

LEMMA MarkerBySockets ==
    ASSUME TypeInv, MarkerInv, UNCHANGED <<gpsLog, task, overlapped, reports>>,
           \A o \in Order, s \in Socket :
             /\ marker'[s][o] \in {0, marker[s][o]}
             /\ s \notin orderRoom'[o] => marker'[s][o] = 0,
           \A o \in Order : orderRoom'[o] \subseteq Socket
    PROVE  MarkerInv'
  <1>1. Reported' /\ RoomsShown' /\ OneAtATime'
    BY DEF MarkerInv, Reported, RoomsShown, OneAtATime, Updating
  <1>2. OnlyPendingUnseen'
    <2> SUFFICES ASSUME NEW o \in Order \ overlapped, NEW s \in orderRoom'[o],
                        marker'[s][o] # 0, NEW at \in gpsLog[o]
                 PROVE  at <= marker'[s][o] \/ \E p \in Updating(o) : at = task[p].at
      BY DEF OnlyPendingUnseen, Updating
    <2>1. s \in Socket /\ marker'[s][o] = marker[s][o]
      OBVIOUS
    <2>2. s \in orderRoom[o]
      BY <2>1 DEF MarkerInv, RoomsShown
    <2> QED BY <2>1, <2>2 DEF MarkerInv, OnlyPendingUnseen
  <1> QED BY <1>1, <1>2 DEF MarkerInv

\* an update goes on, or ends, or fails
LEMMA MarkerByTask ==
    ASSUME TypeInv, MarkerInv, NEW p \in Proc, task[p].pc # "idle",
           UNCHANGED <<orderRoom, marker, reports>>,
           overlapped \subseteq overlapped',
           \A q \in Proc \ {p} : task'[q] = task[q],
           task'[p].pc # "idle" =>
             task'[p].order = task[p].order /\ task'[p].at = task[p].at,
           task'[p].pc \in {"idle", "failed"} => task[p].order \notin Order \ overlapped',
           \A o \in Order : gpsLog'[o] \subseteq
             gpsLog[o] \cup {at \in {task[p].at} : o = task[p].order}
    PROVE  MarkerInv'
  <1>1. \A o \in Order : \A at \in gpsLog'[o] :
          at \in gpsLog[o] \/ (o = task[p].order /\ at = task[p].at)
    OBVIOUS
  <1>2. Reported'
    BY <1>1 DEF MarkerInv, Reported
  <1>3. RoomsShown'
    BY DEF MarkerInv, RoomsShown
  <1>4. \A o \in Order \ overlapped', q \in Proc :
          /\ (task'[q].pc # "idle" /\ task'[q].order = o) <=> q \in Updating(o)
          /\ q \in Updating(o) => task'[q].at = task[q].at
    BY DEF Updating
  <1>5. ASSUME NEW o \in Order \ overlapped', NEW q \in Proc,
               task'[q].pc # "idle", task'[q].order = o
        PROVE  /\ task'[q].pc # "failed"
               /\ \A r \in Proc : task'[r].pc # "idle" /\ task'[r].order = o => r = q
               /\ \A at \in gpsLog'[o] : at <= task'[q].at
    <2>1. q \in Updating(o) /\ task'[q].at = task[q].at
      BY <1>4, <1>5
    <2>2. \A r \in Proc : task'[r].pc # "idle" /\ task'[r].order = o => r = q
      BY <1>4, <2>1 DEF MarkerInv, OneAtATime
    <2>3. task'[q].pc # "failed"
      BY <2>1 DEF MarkerInv, OneAtATime, Updating
    <2>4. task[q].at <= task[q].at
      BY <2>1, TaskCases, BoundAssumption DEF Updating, Position, TypeInv, TypeOK
    <2>5. o = task[p].order => p = q
      BY <2>1 DEF MarkerInv, OneAtATime, Updating
    <2>6. \A at \in gpsLog'[o] : at <= task'[q].at
      BY <1>1, <2>1, <2>4, <2>5 DEF MarkerInv, OneAtATime
    <2> QED BY <2>2, <2>3, <2>6
  <1>6. OneAtATime'
    BY <1>5 DEF OneAtATime, Updating
  <1>7. ASSUME NEW o \in Order \ overlapped', NEW s \in orderRoom[o], marker[s][o] # 0,
               NEW at \in gpsLog'[o]
        PROVE  \/ at <= marker[s][o]
               \/ \E q \in Proc : task'[q].pc # "idle" /\ task'[q].order = o
                                  /\ at = task'[q].at
    <2>1. at <= marker[s][o] \/ \E q \in Updating(o) : at = task[q].at
      BY <1>1, <1>7 DEF MarkerInv, OnlyPendingUnseen, Updating
    <2>2. CASE \E q \in Updating(o) : at = task[q].at
      <3>1. PICK q \in Updating(o) : at = task[q].at
        BY <2>2
      <3>2. q \in Proc
        BY DEF Updating
      <3> QED BY <1>4, <3>1, <3>2
    <2> QED BY <2>1, <2>2
  <1>8. OnlyPendingUnseen'
    BY <1>7 DEF OnlyPendingUnseen, Updating
  <1> QED BY <1>2, <1>3, <1>6, <1>8 DEF MarkerInv

LEMMA MarkerByUpdate ==
    ASSUME TypeInv, MarkerInv, NEW p \in Proc, NEW s \in Socket,
           NEW n \in Order \cup {NoOrder}, LocationUpdate(p, s, n)
    PROVE  MarkerInv'
  <1>1. /\ task[p].pc = "idle" /\ reports' = reports + 1
        /\ UNCHANGED <<orderRoom, gpsLog, marker>>
        /\ task' = [task EXCEPT ![p] = Update("profile", owner[s], n, reports + 1, {})]
        /\ overlapped' = IF Updating(n) = {} THEN overlapped
                         ELSE overlapped \cup ({n} \cap Order)
    BY DEF LocationUpdate, Become, Idle, socketVars, storeVars
  <1>2. /\ task'[p].pc = "profile" /\ task'[p].order = n /\ task'[p].at = reports + 1
        /\ \A q \in Proc \ {p} : task'[q] = task[q]
    BY <1>1 DEF Update, TypeInv, TypeOK
  <1>3. /\ reports \in Nat
        /\ \A o \in Order : gpsLog[o] \subseteq Nat
        /\ \A q \in Proc : task[q].pc # "idle" => task[q].at \in Nat
    BY TaskCases, BoundAssumption DEF TypeInv, TypeOK, Position
  <1>4. Reported'
    BY <1>1, <1>2, <1>3 DEF MarkerInv, Reported
  <1>5. RoomsShown'
    BY <1>1 DEF MarkerInv, RoomsShown
  <1>6. \A o \in Order \ overlapped' :
          /\ o \in Order \ overlapped
          /\ o = n => Updating(o) = {}
    BY <1>1
  <1>7. OneAtATime'
    <2> SUFFICES ASSUME NEW o \in Order \ overlapped', NEW q \in Proc,
                        task'[q].pc # "idle", task'[q].order = o
                 PROVE  /\ task'[q].pc # "failed"
                        /\ \A r \in Proc : task'[r].pc # "idle" /\ task'[r].order = o => r = q
                        /\ \A at \in gpsLog'[o] : at <= task'[q].at
      BY DEF OneAtATime, Updating
    <2>1. CASE q = p
      <3>1. o = n /\ Updating(o) = {}
        BY <1>2, <1>6, <2>1
      <3>2. \A r \in Proc : task'[r].pc # "idle" /\ task'[r].order = o => r = q
        BY <1>2, <2>1, <3>1 DEF Updating
      <3>3. \A at \in gpsLog'[o] : at <= task'[q].at
        BY <1>1, <1>2, <1>3, <2>1 DEF MarkerInv, Reported
      <3> QED BY <1>2, <2>1, <3>2, <3>3
    <2>2. CASE q # p
      <3>1. q \in Updating(o) /\ o # n /\ task'[q] = task[q]
        BY <1>2, <1>6, <2>2 DEF Updating
      <3>2. \A r \in Proc : task'[r].pc # "idle" /\ task'[r].order = o => r \in Updating(o)
        BY <1>2, <3>1 DEF Updating
      <3> QED BY <1>1, <1>6, <3>1, <3>2 DEF MarkerInv, OneAtATime
    <2> QED BY <2>1, <2>2
  <1>8. OnlyPendingUnseen'
    <2> SUFFICES ASSUME NEW o \in Order \ overlapped', NEW c \in orderRoom[o],
                        marker[c][o] # 0, NEW at \in gpsLog[o]
                 PROVE  \/ at <= marker[c][o]
                        \/ \E q \in Proc : task'[q].pc # "idle" /\ task'[q].order = o
                                           /\ at = task'[q].at
      BY <1>1 DEF OnlyPendingUnseen, Updating
    <2>1. at <= marker[c][o] \/ \E q \in Updating(o) : at = task[q].at
      BY <1>6 DEF MarkerInv, OnlyPendingUnseen
    <2>2. \A q \in Updating(o) : q \in Proc /\ q # p /\ task[q].pc # "idle" /\ task[q].order = o
      BY <1>1 DEF Updating
    <2> QED BY <1>2, <2>1, <2>2
  <1> QED BY <1>4, <1>5, <1>7, <1>8 DEF MarkerInv

LEMMA MarkerByEmit ==
    ASSUME TypeInv, MarkerInv, NEW p \in Proc, EmitRiderLocation(p)
    PROVE  MarkerInv'
  <1> DEFINE t == task[p]
  <1>1. t.pc = "log" /\ t.order \in Order
    BY DEF EmitRiderLocation, Landed, TypeInv, OrdersOfTasks
  <1>2. UNCHANGED <<orderRoom, gpsLog, overlapped, reports>> /\ task' = [task EXCEPT ![p] = Idle]
    BY DEF EmitRiderLocation, Become, socketVars, storeVars
  <1>3. task'[p] = Idle /\ \A q \in Proc \ {p} : task'[q] = task[q]
    BY <1>2 DEF TypeInv, TypeOK
  <1>4. \A s \in Socket, o \in Order :
          marker'[s][o] = IF o = t.order /\ s \in orderRoom[o] THEN t.at ELSE marker[s][o]
    BY <1>1 DEF EmitRiderLocation, Listeners, TypeInv, TypeOK
  <1>5. Reported'
    BY <1>2, <1>3 DEF MarkerInv, Reported, Idle
  <1>6. RoomsShown'
    BY <1>2, <1>4 DEF MarkerInv, RoomsShown
  <1>7. \A o \in Order, q \in Proc : task'[q].pc # "idle" /\ task'[q].order = o
          => q \in Updating(o) /\ task'[q] = task[q]
    BY <1>3 DEF Updating, Idle
  <1>8. OneAtATime'
    <2>1. ASSUME NEW o \in Order \ overlapped, NEW q \in Proc,
                 task'[q].pc # "idle", task'[q].order = o
          PROVE  /\ task'[q].pc # "failed"
                 /\ \A r \in Proc : task'[r].pc # "idle" /\ task'[r].order = o => r = q
                 /\ \A at \in gpsLog[o] : at <= task'[q].at
      BY <1>7, <2>1 DEF MarkerInv, OneAtATime
    <2> QED BY <1>2, <2>1 DEF OneAtATime, Updating
  <1>9. OnlyPendingUnseen'
    <2> SUFFICES ASSUME NEW o \in Order \ overlapped, NEW s \in orderRoom[o],
                        marker'[s][o] # 0, NEW at \in gpsLog[o]
                 PROVE  \/ at <= marker'[s][o]
                        \/ \E q \in Proc : task'[q].pc # "idle" /\ task'[q].order = o
                                           /\ at = task'[q].at
      BY <1>2 DEF OnlyPendingUnseen, Updating
    <2>1. s \in Socket
      BY DEF TypeInv, TypeOK
    <2>2. CASE o = t.order
      BY <1>1, <1>4, <2>1, <2>2 DEF MarkerInv, OneAtATime, Updating
    <2>3. CASE o # t.order
      <3>1. marker'[s][o] = marker[s][o]
        BY <1>4, <2>1, <2>3
      <3>2. at <= marker[s][o] \/ \E q \in Updating(o) : at = task[q].at
        BY <3>1 DEF MarkerInv, OnlyPendingUnseen
      <3>3. \A q \in Updating(o) : q \in Proc /\ task'[q] = task[q] /\ task[q].pc # "idle"
                                   /\ task[q].order = o
        BY <1>3, <2>3 DEF Updating
      <3> QED BY <3>1, <3>2, <3>3
    <2> QED BY <2>2, <2>3
  <1> QED BY <1>5, <1>6, <1>8, <1>9 DEF MarkerInv

LEMMA MarkerByStep ==
    ASSUME TypeInv, MarkerInv, NEW p \in Proc,
           \/ UpdateRiderLocation(p)
           \/ \E write \in {"gpsLog", "profile"} : LogLocation(p, write)
    PROVE  MarkerInv'
  <1> DEFINE t == task[p]
  <1>0. t \in Task /\ task \in [Proc -> Task]
    BY DEF TypeInv, TypeOK
  <1>1. CASE UpdateRiderLocation(p)
    <2>1. /\ t.pc = "profile" /\ UNCHANGED <<orderRoom, gpsLog, marker, overlapped, reports>>
          /\ task' = [task EXCEPT ![p] =
                        IF t.order = NoOrder THEN Idle
                        ELSE Update("log", t.user, t.order, t.at, LogWrites(t.order))]
      BY <1>1 DEF UpdateRiderLocation, Become, socketVars
    <2>2. /\ \A q \in Proc \ {p} : task'[q] = task[q]
          /\ task'[p].pc # "idle" => task'[p].order = t.order /\ task'[p].at = t.at
          /\ task'[p].pc \in {"idle", "failed"} => t.order = NoOrder
      BY <1>0, <2>1 DEF Update, Idle
    <2> QED BY <2>1, <2>2, NoneAssumption, MarkerByTask
  <1>2. CASE \E write \in {"gpsLog", "profile"} : LogLocation(p, write)
    <2>1. PICK write \in {"gpsLog", "profile"} : LogLocation(p, write)
      BY <1>2
    <2> DEFINE u == [t EXCEPT !.todo = @ \ {write}]
    <2>2. /\ t.pc \in {"log", "failed"} /\ task' = [task EXCEPT ![p] = Rest(u)]
          /\ UNCHANGED <<orderRoom, marker, overlapped, reports>>
      BY <2>1 DEF LogLocation, Become, socketVars
    <2>3. /\ u = Update(u.pc, t.user, t.order, t.at, t.todo \ {write})
          /\ u.pc \in {t.pc, "failed"} /\ Rest(u) \in {u, Idle}
      <3>1. t.pc \in {"log", "failed"}
        BY <2>2
      <3> HIDE DEF t
      <3> QED BY <1>0, <3>1, RestOfTask, Zenon
    <2>4. t.pc = "log" => u.pc = "log" /\ Rest(u) = u
      <3>1. t = Update(t.pc, t.user, t.order, t.at, t.todo)
        BY <1>0, <2>2, TaskCases
      <3>2. u.pc = t.pc
        BY <3>1 DEF Update
      <3> QED BY <3>2 DEF Rest
    <2>5. u.order = t.order /\ u.at = t.at
      BY <2>3 DEF Update
    <2>6. gpsLog' = gpsLog \/ gpsLog' = [gpsLog EXCEPT ![t.order] = @ \cup {t.at}]
      BY <2>1 DEF LogLocation
    <2>7. \A o \in Order : gpsLog'[o] \subseteq gpsLog[o] \cup {at \in {t.at} : o = t.order}
      BY <2>6 DEF TypeInv, TypeOK
    <2>8. t.pc = "failed" => t.order \notin Order \ overlapped
      BY DEF MarkerInv, OneAtATime, Updating
    <2> HIDE DEF u
    <2>9. task'[p] = Rest(u) /\ \A q \in Proc \ {p} : task'[q] = task[q]
      BY <1>0, <2>2
    <2>10. /\ task'[p].pc # "idle" => task'[p].order = t.order /\ task'[p].at = t.at
           /\ task'[p].pc \in {"idle", "failed"} => t.pc = "failed"
      BY <2>2, <2>3, <2>4, <2>5, <2>9 DEF Idle
    <2>11. t.pc # "idle"
      BY <2>2
    <2> QED BY <2>2, <2>7, <2>8, <2>9, <2>10, <2>11, MarkerByTask
  <1> QED BY <1>1, <1>2

LEMMA MarkerByFault ==
    ASSUME TypeInv, MarkerInv, NEW p \in Proc,
           Fail(p) \/ \E write \in {"gpsLog", "profile"} : WriteFails(p, write)
    PROVE  MarkerInv'
  <1> DEFINE t == task[p]
  <1>1. /\ UNCHANGED <<orderRoom, gpsLog, marker, reports>>
        /\ overlapped' = overlapped \cup ({t.order} \cap Order)
    BY DEF Fail, WriteFails, Fault, socketVars, storeVars
  <1>2. /\ t.pc # "idle" /\ \A q \in Proc \ {p} : task'[q] = task[q]
        /\ task'[p].pc # "idle" => task'[p].order = t.order /\ task'[p].at = t.at
    <2>1. CASE Fail(p)
      BY <2>1 DEF Fail, Become, Idle, TypeInv, TypeOK
    <2>2. CASE \E write \in {"gpsLog", "profile"} : WriteFails(p, write)
      <3>1. PICK write \in {"gpsLog", "profile"} : WriteFails(p, write)
        BY <2>2
      <3> DEFINE u == [t EXCEPT !.pc = "failed", !.todo = @ \ {write}]
      <3>2. t.pc = "log" /\ task' = [task EXCEPT ![p] = Rest(u)]
        BY <3>1 DEF WriteFails, Become
      <3>3. t = Update(t.pc, t.user, t.order, t.at, t.todo)
        BY <3>2, TaskCases DEF TypeInv, TypeOK
      <3>4. u.order = t.order /\ u.at = t.at
        BY <3>3 DEF Update
      <3>5. Rest(u) \in {u, Idle}
        BY DEF Rest
      <3> HIDE DEF u
      <3> QED BY <3>2, <3>4, <3>5 DEF Idle, TypeInv, TypeOK
    <2> QED BY <2>1, <2>2
  <1> QED BY <1>1, <1>2, MarkerByTask

LEMMA MarkerByNext == TypeInv /\ TypesOfSockets' /\ MarkerInv /\ [Next]_vars => MarkerInv'
  <1> SUFFICES ASSUME TypeInv, TypesOfSockets', MarkerInv, [Next]_vars PROVE MarkerInv'
    OBVIOUS
  <1>0. /\ marker \in [Socket -> [Order -> Position]]
        /\ orderRoom \in [Order -> SUBSET Socket]
        /\ \A o \in Order : orderRoom'[o] \subseteq Socket
    BY DEF TypeInv, TypeOK, TypesOfSockets
  <1>1. CASE \/ \E s \in Socket : Sockets(s)
             \/ \E o \in Placed : EmitOrderAssigned(o)
             \/ UNCHANGED vars
    <2>1. UNCHANGED <<gpsLog, task, overlapped, reports>>
      BY <1>1 DEF Sockets, Connect, Disconnect, JoinOrder, EmitOrderAssigned, storeVars, vars
    <2>2. \/ /\ marker' = marker
             /\ \A o \in Order : orderRoom[o] \subseteq orderRoom'[o]
          \/ \E s \in Socket :
               /\ marker' = [marker EXCEPT ![s] = [o \in Order |-> 0]]
               /\ orderRoom' = [o \in Order |-> orderRoom[o] \ {s}]
      <3>1. ASSUME NEW s \in Socket, Sockets(s)
            PROVE  <2>2
        BY <1>0, <3>1 DEF Sockets, Connect, Disconnect, JoinOrder
      <3>2. ASSUME NEW o \in Placed, EmitOrderAssigned(o)
            PROVE  <2>2
        BY <1>0, <3>2 DEF EmitOrderAssigned
      <3> QED BY <1>1, <3>1, <3>2 DEF vars, socketVars
    <2>3. \A o \in Order, s \in Socket :
            /\ marker'[s][o] \in {0, marker[s][o]}
            /\ s \notin orderRoom'[o] => marker'[s][o] = 0
      BY <1>0, <2>2 DEF MarkerInv, RoomsShown
    <2> QED BY <1>0, <2>1, <2>3, MarkerBySockets
  <1>2. CASE Crash
    <2>1. /\ UNCHANGED <<gpsLog, reports>>
          /\ task' = [p \in Proc |-> Idle]
          /\ orderRoom' = [o \in Order |-> {}]
          /\ marker' = [s \in Socket |-> [o \in Order |-> 0]]
      BY <1>2 DEF Crash, storeVars
    <2> QED BY <2>1 DEF MarkerInv, Reported, RoomsShown, OneAtATime, OnlyPendingUnseen,
                        Updating, Idle
  <1> QED BY <1>1, <1>2, MarkerByUpdate, MarkerByStep, MarkerByFault, MarkerByEmit
          DEF Next, Step

\* The clients in the room of an order are shown the end of its trail when its
\* updates are done, if they came one at a time and none failed.
THEOREM ClientsAgree == Spec => []MarkersAgree
  <1>1. Init => MarkerInv
    BY DEF Init, MarkerInv, Reported, RoomsShown, OneAtATime, OnlyPendingUnseen, Updating, Idle
  <1>2. MarkerInv => MarkersAgree
    BY DEF MarkerInv, OnlyPendingUnseen, MarkersAgree
  <1>3. SocketInv => TypesOfSockets
    BY DEF SocketInv
  <1> QED BY <1>1, <1>2, <1>3, SocketsAtFirst, SocketsByNext, TypeAtFirst, TypeByNext,
             MarkerByNext, PTL DEF Spec

=============================================================================
