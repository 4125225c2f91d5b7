----------------------------- MODULE ChatProofs -----------------------------
(***************************************************************************)
(* Proofs about Chat, for any orders, users, sockets, messages and bounds: *)
(* what a client in a room may miss, what admins hear, and who sees what.  *)
(***************************************************************************)
EXTENDS Chat, TLAPS

\* the tasks of join_order_chat, and of the other handlers
LEMMA TaskCases ==
    ASSUME NEW t \in Task
    PROVE  /\ t.pc \in {"idle", "history", "enter", "create", "emit"}
           /\ t.pc \in {"history", "enter"} =>
                t.socket \in Socket /\ t.order \in Order /\ t.rows \in SUBSET Message
           /\ t.pc = "create" => t.row \in Row
           /\ t.pc = "emit" => t.id \in Message /\ t = Emitting(t.id)
           /\ \A m \in Message : t = Emitting(m) => t.pc = "emit" /\ t.id = m
    BY DEF Task, Idle, Emitting

LEMMA TasksMade ==
    /\ Idle \in Task
    /\ \A s \in Socket, o \in Order, rows \in SUBSET Message :
         \A pc \in {"history", "enter"} : Joining(pc, s, o, rows) \in Task
    /\ \A r \in Row : Creating(r) \in Task
    /\ \A m \in Message : Emitting(m) \in Task
    BY DEF Task, Idle, Joining, Creating, Emitting

-----------------------------------------------------------------------------
(* Types.                                                                  *)

\* What a handler is about to write names two users.
LEMMA PartiesType ==
    ASSUME TypeOK, NEW o \in Order, NEW u \in User, Party(o, u),
           OtherParty(o, u) # NoUser, NEW kind \in {"message", "call"}
    PROVE  Parties(kind, o, u) \in Row
  <1>1. OtherParty(o, u) \in User
    BY UserAssumption, CustomerAssumption DEF TypeOK, OtherParty
  <1> QED BY <1>1 DEF Parties, Row

LEMMA CallTypes ==
    ASSUME TypeOK, NEW p \in Proc, Call(p)
    PROVE  TypeOK'
  <1>1. task' \in [Proc -> Task]
    <2>1. CASE \E s \in Socket, o \in Order : JoinOrderChat(p, s, o)
      BY <2>1, TasksMade DEF JoinOrderChat, Start, Become, TypeOK
    <2>2. CASE \E s \in Socket, o \in Order : SendMessage(p, s, o)
      <3>1. PICK s \in Socket, o \in Order : SendMessage(p, s, o)
        BY <2>2
      <3>2. userId[s] \in User
        BY <3>1 DEF SendMessage, Up, TypeOK
      <3>3. Parties("message", o, userId[s]) \in Row
        BY <3>1, <3>2, PartiesType DEF SendMessage
      <3> QED BY <3>1, <3>3, TasksMade DEF SendMessage, Start, Become, TypeOK
    <2>3. CASE \E u \in User, o \in Order : LogCall(p, u, o)
      <3>1. PICK u \in User, o \in Order : LogCall(p, u, o)
        BY <2>3
      <3>2. Parties("call", o, u) \in Row
        BY <3>1, PartiesType DEF LogCall
      <3> QED BY <3>1, <3>2, TasksMade DEF LogCall, Start, Become, TypeOK
    <2> QED BY <2>1, <2>2, <2>3 DEF Call
  <1>2. UNCHANGED <<orderVars, row, socketVars, clientVars, faults>>
    BY DEF Call, JoinOrderChat, SendMessage, LogCall
  <1> QED BY <1>1, <1>2 DEF TypeOK, orderVars, socketVars, clientVars

LEMMA ForgetTypes ==
    ASSUME TypeOK, NEW gone \in SUBSET Socket, Forget(gone)
    PROVE  /\ seen' \in [Socket -> SUBSET Message]
           /\ gap' \in [Socket -> SUBSET Message]
           /\ before' \in [Socket -> SUBSET Message]
    BY DEF Forget, TypeOK

LEMMA StepTypes ==
    ASSUME TypeOK, NEW p \in Proc, Step(p)
    PROVE  TypeOK'
  <1> USE DEF TypeOK, orderVars, socketVars, clientVars, Become
  <1>0. task[p] \in Task
    OBVIOUS
  <1>1. CASE ReadHistory(p)
    <2>1. MessagesOf(task[p].order) \in SUBSET Message
      BY DEF MessagesOf
    <2>2. task' \in [Proc -> Task]
      BY <1>0, <1>1, <2>1, TaskCases, TasksMade DEF ReadHistory
    <2> QED BY <1>1, <2>2 DEF ReadHistory
  <1>2. CASE EnterRoom(p)
    <2>1. task' \in [Proc -> Task]
      BY <1>2, TasksMade DEF EnterRoom
    <2>2. task[p].socket \in Socket /\ task[p].order \in Order /\ task[p].rows \in SUBSET Message
      BY <1>0, <1>2, TaskCases DEF EnterRoom
    <2>3. chatRoom' \in [Order -> SUBSET Socket]
      BY <1>2, <2>2 DEF EnterRoom
    <2>4. seen' \in [Socket -> SUBSET Message]
      BY <1>2, <2>2 DEF EnterRoom
    <2> QED BY <1>2, <2>1, <2>3, <2>4 DEF EnterRoom
  <1>3. CASE \E m \in Message : CreateRow(p, m)
    <2>1. PICK m \in Message : CreateRow(p, m)
      BY <1>3
    <2>2. task[p].row \in Row
      BY <1>0, <2>1, TaskCases DEF CreateRow
    <2>3. row' \in [Message -> Row \cup {NoRow}]
      BY <2>1, <2>2 DEF CreateRow
    <2>4. task' \in [Proc -> Task]
      BY <2>1, TasksMade DEF CreateRow
    <2> QED BY <2>1, <2>3, <2>4 DEF CreateRow
  <1>4. CASE Emit(p)
    <2>1. task[p].id \in Message
      BY <1>0, <1>4, TaskCases DEF Emit
    <2>2. seen' \in [Socket -> SUBSET Message] /\ gap' \in [Socket -> SUBSET Message]
      BY <1>4, <2>1 DEF Emit
    <2>3. task' \in [Proc -> Task]
      BY <1>4, TasksMade DEF Emit
    <2> QED BY <1>4, <2>2, <2>3 DEF Emit
  <1> QED BY <1>1, <1>2, <1>3, <1>4 DEF Step

LEMMA ClientTypes ==
    ASSUME TypeOK, NEW s \in Socket, Client(s)
    PROVE  TypeOK'
  <1> USE DEF TypeOK, orderVars, socketVars, clientVars
  <1>1. CASE \E u \in User : Connect(s, u)
    <2>1. Sent \in SUBSET Message
      BY DEF Sent
    <2>2. before' \in [Socket -> SUBSET Message]
      BY <1>1, <2>1 DEF Connect
    <2> QED BY <1>1, <2>2 DEF Connect
  <1>2. CASE Disconnect(s)
    <2>1. /\ seen' \in [Socket -> SUBSET Message]
          /\ gap' \in [Socket -> SUBSET Message]
          /\ before' \in [Socket -> SUBSET Message]
      BY <1>2, ForgetTypes DEF Disconnect
    <2> QED BY <1>2, <2>1 DEF Disconnect
  <1>3. CASE \E o \in Order : LeaveOrderChat(s, o)
    BY <1>3 DEF LeaveOrderChat
  <1> QED BY <1>1, <1>2, <1>3 DEF Client

LEMMA FailTypes ==
    ASSUME TypeOK, NEW p \in Proc, Fail(p)
    PROVE  TypeOK'
  <1>1. task' \in [Proc -> Task]
    BY TasksMade DEF Fail, Become, TypeOK
  <1>2. faults' \in 0..MaxFaults
    BY FaultAssumption DEF Fail, TypeOK
  <1> QED BY <1>1, <1>2 DEF Fail, TypeOK, orderVars, socketVars

LEMMA EnvironmentTypes ==
    ASSUME TypeOK, Environment
    PROVE  TypeOK'
  <1> USE DEF TypeOK, orderVars, socketVars, clientVars
  <1>1. CASE \E o \in Order : SetStatus(o)
    BY <1>1 DEF SetStatus
  <1>2. CASE \E o \in Order, r \in Rider : Assign(o, r)
    BY <1>2 DEF Assign
  <1>3. CASE Crash
    <2>1. /\ seen' \in [Socket -> SUBSET Message]
          /\ gap' \in [Socket -> SUBSET Message]
          /\ before' \in [Socket -> SUBSET Message]
      BY <1>3, ForgetTypes DEF Crash
    <2>2. task' \in [Proc -> Task]
      BY <1>3, TasksMade DEF Crash
    <2>3. faults' \in 0..MaxFaults
      BY <1>3, FaultAssumption DEF Crash
    <2> QED BY <1>3, <2>1, <2>2, <2>3 DEF Crash
  <1> QED BY <1>1, <1>2, <1>3 DEF Environment

\* Every variable of Chat keeps its type.
THEOREM TypeCorrect == Spec => []TypeOK
  <1>1. Init => TypeOK
    BY TasksMade, FaultAssumption DEF Init, TypeOK
  <1>2. TypeOK /\ [Next]_vars => TypeOK'
    <2> SUFFICES ASSUME TypeOK, [Next]_vars PROVE TypeOK'
      OBVIOUS
    <2>1. CASE UNCHANGED vars
      BY <2>1 DEF TypeOK, vars, orderVars, socketVars, clientVars
    <2>2. CASE Next
      BY <2>2, CallTypes, StepTypes, FailTypes, ClientTypes, EnvironmentTypes DEF Next
    <2> QED BY <2>1, <2>2
  <1> QED BY <1>1, <1>2, PTL DEF Spec

-----------------------------------------------------------------------------
(* What is sent, and what is about to be.                                  *)

\* a step that takes no handler from its emit, and no row from the tables,
\* makes no row sent
LEMMA SentKept ==
    ASSUME UNCHANGED <<row, lost>>,
           \A m \in Message : Unsent(m) => Unsent(m)'
    PROVE  Sent' \subseteq Sent
    BY DEF Sent, Stored

\* a handler that goes on, and was not about to emit, leaves the others alone
LEMMA UnsentKept ==
    ASSUME TypeOK, NEW p \in Proc, NEW t, Become(p, t), task[p].pc # "emit"
    PROVE  \A m \in Message : Unsent(m) => Unsent(m)'
  <1> SUFFICES ASSUME NEW m \in Message, NEW q \in Proc, task[q] = Emitting(m)
               PROVE  task'[q] = Emitting(m)
    BY DEF Unsent
  <1>1. q # p
    BY DEF Emitting
  <1> QED BY <1>1 DEF Become, TypeOK

LEMMA SentByCall ==
    ASSUME TypeOK, NEW p \in Proc, Call(p)
    PROVE  Sent' \subseteq Sent
  <1>1. PICK t : task[p] = Idle /\ Become(p, t)
    BY DEF Call, JoinOrderChat, SendMessage, LogCall, Start
  <1>2. task[p].pc # "emit"
    BY <1>1 DEF Idle
  <1>3. UNCHANGED <<row, lost>>
    BY DEF Call, JoinOrderChat, SendMessage, LogCall, clientVars
  <1> QED BY <1>1, <1>2, <1>3, UnsentKept, SentKept

LEMMA SentByJoin ==
    ASSUME TypeOK, NEW p \in Proc, ReadHistory(p) \/ EnterRoom(p)
    PROVE  Sent' \subseteq Sent
  <1>1. PICK t : Become(p, t)
    BY DEF ReadHistory, EnterRoom
  <1>2. task[p].pc # "emit" /\ UNCHANGED <<row, lost>>
    BY DEF ReadHistory, EnterRoom, clientVars
  <1> QED BY <1>1, <1>2, UnsentKept, SentKept

LEMMA SentByCreate ==
    ASSUME TypeOK, NEW p \in Proc, NEW m \in Message, CreateRow(p, m)
    PROVE  Sent' \subseteq Sent
  <1>1. task[p].pc # "emit" /\ Become(p, Emitting(m))
    BY DEF CreateRow
  <1>2. \A n \in Message : Unsent(n) => Unsent(n)'
    BY <1>1, UnsentKept
  <1>3. Unsent(m)'
    BY <1>1 DEF Unsent, Become, TypeOK
  <1>4. \A n \in Message : n # m => row'[n] = row[n]
    BY DEF CreateRow, TypeOK
  <1>5. UNCHANGED lost
    BY DEF CreateRow, clientVars
  <1> QED BY <1>2, <1>3, <1>4, <1>5 DEF Sent, Stored

LEMMA SentByEmit ==
    ASSUME TypeOK, NEW p \in Proc, Emit(p)
    PROVE  task[p].id \in Message /\ Sent' \subseteq Sent \cup {task[p].id}
  <1>1. task[p] \in Task /\ task[p].pc = "emit"
    BY DEF Emit, TypeOK
  <1>2. task[p].id \in Message
    BY <1>1, TaskCases
  <1>3. \A n \in Message : Unsent(n) /\ n # task[p].id => Unsent(n)'
    <2> SUFFICES ASSUME NEW n \in Message, n # task[p].id, NEW q \in Proc,
                        task[q] = Emitting(n)
                 PROVE  task'[q] = Emitting(n)
      BY DEF Unsent
    <2>1. q # p
      BY DEF Emitting
    <2> QED BY <2>1 DEF Emit, Become, TypeOK
  <1>4. UNCHANGED <<row, lost>>
    BY DEF Emit
  <1> QED BY <1>2, <1>3, <1>4 DEF Sent, Stored

LEMMA SentByFail ==
    ASSUME TypeOK, NEW p \in Proc, Fail(p)
    PROVE  Sent' \subseteq Sent
  <1>1. \A n \in Message : Unsent(n) => Unsent(n)' \/ n \in lost'
    <2> SUFFICES ASSUME NEW n \in Message, NEW q \in Proc, task[q] = Emitting(n)
                 PROVE  task'[q] = Emitting(n) \/ n \in lost'
      BY DEF Unsent
    <2>1. CASE q = p
      BY <2>1 DEF Fail
    <2>2. CASE q # p
      BY <2>2 DEF Fail, Become, TypeOK
    <2> QED BY <2>1, <2>2
  <1>2. UNCHANGED row /\ lost \subseteq lost'
    BY DEF Fail
  <1> QED BY <1>1, <1>2 DEF Sent, Stored

LEMMA SentByClient ==
    ASSUME NEW s \in Socket, Client(s)
    PROVE  Sent' \subseteq Sent
  <1>1. UNCHANGED <<row, lost, task>>
    BY DEF Client, Connect, Disconnect, LeaveOrderChat, clientVars
  <1> QED BY <1>1 DEF Sent, Stored, Unsent

-----------------------------------------------------------------------------
(* What a client in a room has.                                            *)

\* a client that has had its history read has nothing to miss but the gap
HistoryIsWhole ==
    \A p \in Proc :
        task[p].pc = "enter" /\ Up(task[p].socket) =>
            \A m \in Sent \cap MessagesOf(task[p].order) :
                \/ m \in task[p].rows
                \/ m \in seen[task[p].socket] \cup gap[task[p].socket]

RoomsAreUp == \A o \in Order : \A s \in chatRoom[o] : Up(s)

JoinersConnected ==
    \A p \in Proc : task[p].pc \in {"history", "enter"} => userId[task[p].socket] # NoUser

GapInv ==
    /\ TypeOK
    /\ RoomsAreUp
    /\ JoinersConnected
    /\ HistoryIsWhole
    /\ OnlyTheGapIsMissed


LEMMA GapByCall ==
    ASSUME GapInv, TypeOK', NEW p \in Proc, Call(p)
    PROVE  GapInv'
  <1> USE DEF GapInv
  <1>1. UNCHANGED <<row, chatRoom, userId, closed, seen, gap>>
    BY DEF Call, JoinOrderChat, SendMessage, LogCall, socketVars, clientVars
  <1>2. Sent' \subseteq Sent
    BY SentByCall
  <1>3. \A q \in Proc \ {p} : task'[q] = task[q]
    BY DEF Call, JoinOrderChat, SendMessage, LogCall, Start, Become, TypeOK
  <1>4. /\ task'[p].pc # "enter"
        /\ task'[p].pc = "history" => userId[task'[p].socket] # NoUser
    BY DEF Call, JoinOrderChat, SendMessage, LogCall, Start, Become, TypeOK,
           Joining, Creating, Up
  <1>5. RoomsAreUp'
    BY <1>1 DEF RoomsAreUp, Up
  <1>6. JoinersConnected'
    BY <1>1, <1>3, <1>4 DEF JoinersConnected
  <1>7. HistoryIsWhole'
    BY <1>1, <1>2, <1>3, <1>4 DEF HistoryIsWhole, MessagesOf, Stored, Up
  <1>8. OnlyTheGapIsMissed'
    BY <1>1, <1>2 DEF OnlyTheGapIsMissed, MessagesOf, Stored
  <1> QED BY <1>5, <1>6, <1>7, <1>8

LEMMA GapByRead ==
    ASSUME GapInv, TypeOK', NEW p \in Proc, ReadHistory(p)
    PROVE  GapInv'
  <1> USE DEF GapInv
  <1>1. UNCHANGED <<row, chatRoom, userId, closed, seen, gap>>
    BY DEF ReadHistory, socketVars, clientVars
  <1>2. Sent' \subseteq Sent
    BY SentByJoin
  <1>3. \A q \in Proc \ {p} : task'[q] = task[q]
    BY DEF ReadHistory, Become, TypeOK
  <1>4. /\ task'[p].socket = task[p].socket
        /\ task'[p].order = task[p].order
        /\ task'[p].rows = MessagesOf(task[p].order)
        /\ task[p].pc = "history"
    BY DEF ReadHistory, Become, TypeOK, Joining
  <1>5. (MessagesOf(task[p].order))' = MessagesOf(task[p].order)
    BY <1>1, <1>4 DEF MessagesOf, Stored
  <1>6. JoinersConnected'
    BY <1>1, <1>3, <1>4 DEF JoinersConnected
  <1>7. HistoryIsWhole'
    BY <1>1, <1>2, <1>3, <1>4, <1>5 DEF HistoryIsWhole, MessagesOf, Stored, Up
  <1>8. RoomsAreUp' /\ OnlyTheGapIsMissed'
    BY <1>1, <1>2 DEF OnlyTheGapIsMissed, MessagesOf, Stored, RoomsAreUp, Up
  <1> QED BY <1>6, <1>7, <1>8

LEMMA GapByEnter ==
    ASSUME GapInv, TypeOK', NEW p \in Proc, EnterRoom(p)
    PROVE  GapInv'
  <1> USE DEF GapInv
  <1> DEFINE s == task[p].socket
             o == task[p].order
  <1>1. UNCHANGED <<row, userId, closed, gap>>
    BY DEF EnterRoom
  <1>2. Sent' \subseteq Sent
    BY SentByJoin
  <1>3. /\ \A q \in Proc \ {p} : task'[q] = task[q]
        /\ task'[p] = Idle
    BY DEF EnterRoom, Become, TypeOK
  <1>4. s \in Socket /\ o \in Order /\ task[p].rows \in SUBSET Message
    BY TaskCases DEF EnterRoom, TypeOK
  <1>5. \A r \in Socket : seen[r] \subseteq seen'[r]
    BY <1>4 DEF EnterRoom, TypeOK
  <1>6. \A r \in Socket, n \in Order :
          r \in chatRoom'[n] => r \in chatRoom[n] \/ (r = s /\ n = o /\ Up(s))
    BY <1>4 DEF EnterRoom, TypeOK
  <1>7. Up(s) => task[p].rows \subseteq seen'[s]
    BY <1>4 DEF EnterRoom, TypeOK
  <1>8. \A n \in Order : MessagesOf(n)' = MessagesOf(n)
    BY <1>1 DEF MessagesOf, Stored
  <1>9. JoinersConnected'
    BY <1>1, <1>3 DEF JoinersConnected, Idle
  <1>10. HistoryIsWhole'
    <2> SUFFICES ASSUME NEW q \in Proc,
                        (task[q].pc = "enter" /\ Up(task[q].socket))',
                        NEW m \in (Sent \cap MessagesOf(task[q].order))'
                 PROVE  (\/ m \in task[q].rows
                         \/ m \in seen[task[q].socket] \cup gap[task[q].socket])'
      BY DEF HistoryIsWhole
    <2>1. q # p /\ task'[q] = task[q]
      BY <1>3 DEF Idle
    <2>2. task[q].socket \in Socket /\ task[q].order \in Order
      BY <2>1, TaskCases DEF TypeOK
    <2> QED BY <1>1, <1>2, <1>5, <1>8, <2>1, <2>2 DEF HistoryIsWhole, Up
  <1>11. RoomsAreUp'
    BY <1>1, <1>6 DEF RoomsAreUp, Up, TypeOK
  <1>12. OnlyTheGapIsMissed'
    <2> SUFFICES ASSUME NEW n \in Order, NEW m \in Sent' \cap MessagesOf(n)',
                        NEW r \in chatRoom'[n]
                 PROVE  m \in seen'[r] \cup gap'[r]
      BY DEF OnlyTheGapIsMissed
    <2>0. r \in Socket /\ m \in Message
      BY DEF TypeOK, MessagesOf
    <2>1. CASE r \in chatRoom[n]
      BY <1>1, <1>2, <1>5, <1>8, <2>0, <2>1 DEF OnlyTheGapIsMissed
    <2>2. CASE r = s /\ n = o /\ Up(s)
      <3>1. task[p].pc = "enter"
        BY DEF EnterRoom
      <3>2. m \in task[p].rows \/ m \in seen[s] \cup gap[s]
        BY <1>2, <1>8, <2>2, <3>1 DEF HistoryIsWhole
      <3> QED BY <1>1, <1>4, <1>5, <1>7, <2>2, <3>2
    <2> QED BY <1>6, <2>0, <2>1, <2>2
  <1> QED BY <1>9, <1>10, <1>11, <1>12

LEMMA GapByCreate ==
    ASSUME GapInv, TypeOK', NEW p \in Proc, NEW m \in Message, CreateRow(p, m)
    PROVE  GapInv'
  <1> USE DEF GapInv
  <1>1. UNCHANGED <<chatRoom, userId, closed, seen, gap>>
    BY DEF CreateRow, socketVars, clientVars
  <1>2. /\ \A q \in Proc \ {p} : task'[q] = task[q]
        /\ task'[p].pc = "emit"
    BY DEF CreateRow, Become, TypeOK, Emitting
  <1>3. \A o \in Order : Sent' \cap MessagesOf(o)' \subseteq Sent \cap MessagesOf(o)
    <2>1. Sent' \subseteq Sent
      BY SentByCreate
    <2>2. \A n \in Message : n # m => row'[n] = row[n]
      BY DEF CreateRow, TypeOK
    <2>3. m \notin Sent
      BY DEF CreateRow, Sent
    <2> QED BY <2>1, <2>2, <2>3 DEF MessagesOf, Stored, Sent
  <1>4. JoinersConnected' /\ RoomsAreUp'
    BY <1>1, <1>2 DEF JoinersConnected, RoomsAreUp, Up
  <1>5. HistoryIsWhole'
    <2> SUFFICES ASSUME NEW q \in Proc,
                        (task[q].pc = "enter" /\ Up(task[q].socket))',
                        NEW n \in (Sent \cap MessagesOf(task[q].order))'
                 PROVE  (\/ n \in task[q].rows
                         \/ n \in seen[task[q].socket] \cup gap[task[q].socket])'
      BY DEF HistoryIsWhole
    <2>1. task'[q] = task[q]
      BY <1>2
    <2>2. task[q].order \in Order
      BY <2>1, TaskCases DEF TypeOK
    <2> QED BY <1>1, <1>3, <2>1, <2>2 DEF HistoryIsWhole, Up
  <1>6. OnlyTheGapIsMissed'
    BY <1>1, <1>3 DEF OnlyTheGapIsMissed
  <1> QED BY <1>4, <1>5, <1>6

LEMMA GapByEmit ==
    ASSUME GapInv, TypeOK', NEW p \in Proc, Emit(p)
    PROVE  GapInv'
  <1> USE DEF GapInv
  <1> DEFINE m == task[p].id
  <1>1. UNCHANGED <<row, chatRoom, userId, closed>>
    BY DEF Emit, socketVars
  <1>2. /\ \A q \in Proc \ {p} : task'[q] = task[q]
        /\ task'[p] = Idle
    BY DEF Emit, Become, TypeOK
  <1>3. m \in Message /\ Sent' \subseteq Sent \cup {m}
    BY SentByEmit
  <1>4. \A s \in Socket : seen[s] \subseteq seen'[s] /\ gap[s] \subseteq gap'[s]
    BY DEF Emit, TypeOK
  <1>5. \A o \in Order : MessagesOf(o)' = MessagesOf(o)
    BY <1>1 DEF MessagesOf, Stored
  <1>6. ASSUME NEW o \in Order, m \in MessagesOf(o), NEW s \in Socket
        PROVE  /\ s \in chatRoom[o] => m \in seen'[s]
               /\ s \in Entering(o) => m \in seen'[s] \cup gap'[s]
    <2>1. row[m].kind = "message" /\ row[m].order = o
      BY <1>6 DEF MessagesOf
    <2>2. Audience(m) = adminRoom \cup chatRoom[o]
      BY <2>1 DEF Audience
    <2>3. /\ s \in Audience(m) => m \in seen'[s]
          /\ s \in Entering(o) \ Audience(m) => m \in gap'[s]
      BY <2>1 DEF Emit, TypeOK
    <2> QED BY <2>2, <2>3
  <1>7. JoinersConnected' /\ RoomsAreUp'
    BY <1>1, <1>2 DEF JoinersConnected, RoomsAreUp, Up, Idle
  <1>8. HistoryIsWhole'
    <2> SUFFICES ASSUME NEW q \in Proc,
                        (task[q].pc = "enter" /\ Up(task[q].socket))',
                        NEW n \in (Sent \cap MessagesOf(task[q].order))'
                 PROVE  (\/ n \in task[q].rows
                         \/ n \in seen[task[q].socket] \cup gap[task[q].socket])'
      BY DEF HistoryIsWhole
    <2>1. q # p /\ task'[q] = task[q]
      BY <1>2 DEF Idle
    <2>2. task[q].socket \in Socket /\ task[q].order \in Order
      BY <2>1, TaskCases DEF TypeOK
    <2>3. CASE n = m
      <3>1. task[q].socket \in Entering(task[q].order)
        BY <2>1 DEF Entering
      <3>2. m \in MessagesOf(task[q].order)
        BY <1>5, <2>1, <2>2, <2>3
      <3> QED BY <1>6, <2>1, <2>2, <2>3, <3>1, <3>2
    <2>4. CASE n # m
      BY <1>1, <1>3, <1>4, <1>5, <2>1, <2>2, <2>4 DEF HistoryIsWhole, Up
    <2> QED BY <2>3, <2>4
  <1>9. OnlyTheGapIsMissed'
    <2> SUFFICES ASSUME NEW o \in Order, NEW n \in Sent' \cap MessagesOf(o)',
                        NEW s \in chatRoom'[o]
                 PROVE  n \in seen'[s] \cup gap'[s]
      BY DEF OnlyTheGapIsMissed
    <2>1. s \in Socket /\ s \in chatRoom[o] /\ n \in MessagesOf(o) /\ n \in Message
      BY <1>1, <1>5 DEF TypeOK, MessagesOf
    <2>2. CASE n = m
      BY <1>6, <2>1, <2>2
    <2>3. CASE n # m
      BY <1>3, <1>4, <2>1, <2>3 DEF OnlyTheGapIsMissed
    <2> QED BY <2>2, <2>3
  <1> QED BY <1>7, <1>8, <1>9

\* a step that only ends handlers, makes nothing sent, and forgets nothing
LEMMA GapByLess ==
    ASSUME GapInv, TypeOK',
           UNCHANGED <<row, chatRoom, userId, closed, seen, gap>>,
           \A q \in Proc : task'[q] \in {task[q], Idle},
           Sent' \subseteq Sent
    PROVE  GapInv'
  <1>1. RoomsAreUp' /\ OnlyTheGapIsMissed'
    BY DEF GapInv, RoomsAreUp, OnlyTheGapIsMissed, Up, MessagesOf, Stored
  <1>2. JoinersConnected'
    BY DEF GapInv, JoinersConnected, Idle
  <1>3. HistoryIsWhole'
    BY DEF GapInv, HistoryIsWhole, Up, MessagesOf, Stored, Idle
  <1> QED BY <1>1, <1>2, <1>3 DEF GapInv

LEMMA GapByFail ==
    ASSUME GapInv, TypeOK', NEW p \in Proc, Fail(p)
    PROVE  GapInv'
  <1>1. Sent' \subseteq Sent
    BY SentByFail DEF GapInv
  <1>2. \A q \in Proc : task'[q] \in {task[q], Idle}
    BY DEF Fail, Become, GapInv, TypeOK
  <1>3. UNCHANGED <<row, chatRoom, userId, closed, seen, gap>>
    BY DEF Fail, socketVars
  <1> QED BY <1>1, <1>2, <1>3, GapByLess

LEMMA GapByConnect ==
    ASSUME GapInv, TypeOK', NEW s \in Socket, NEW u \in User, Connect(s, u)
    PROVE  GapInv'
  <1> USE DEF GapInv
  <1>1. UNCHANGED <<row, chatRoom, closed, seen, gap, task>>
    BY DEF Connect, clientVars
  <1>2. Sent' \subseteq Sent
    BY SentByClient DEF Client
  <1>3. userId[s] = NoUser /\ \A r \in Socket : r # s => userId'[r] = userId[r]
    BY DEF Connect, TypeOK
  <1>4. userId'[s] # NoUser
    BY UserAssumption DEF Connect, TypeOK
  <1>5. RoomsAreUp'
    BY <1>1, <1>3, <1>4 DEF RoomsAreUp, Up, TypeOK
  <1>6. \A q \in Proc : task[q].pc \in {"history", "enter"} =>
          task[q].socket \in Socket \ {s}
    BY <1>3, TaskCases DEF JoinersConnected, TypeOK
  <1>7. JoinersConnected'
    BY <1>1, <1>3, <1>6 DEF JoinersConnected
  <1>8. HistoryIsWhole'
    BY <1>1, <1>2, <1>3, <1>6 DEF HistoryIsWhole, Up, MessagesOf, Stored
  <1>9. OnlyTheGapIsMissed'
    BY <1>1, <1>2 DEF OnlyTheGapIsMissed, MessagesOf, Stored
  <1> QED BY <1>5, <1>7, <1>8, <1>9

LEMMA GapByDisconnect ==
    ASSUME GapInv, TypeOK', NEW s \in Socket, Disconnect(s)
    PROVE  GapInv'
  <1> USE DEF GapInv
  <1>1. UNCHANGED <<row, userId, task>> /\ closed' = closed \cup {s}
    BY DEF Disconnect
  <1>2. Sent' \subseteq Sent
    BY SentByClient DEF Client
  <1>3. \A r \in Socket : r # s => seen'[r] = seen[r] /\ gap'[r] = gap[r]
    BY DEF Disconnect, Forget
  <1>4. \A o \in Order : chatRoom'[o] = chatRoom[o] \ {s}
    BY DEF Disconnect
  <1>5. RoomsAreUp'
    BY <1>1, <1>4 DEF RoomsAreUp, Up
  <1>6. JoinersConnected'
    BY <1>1 DEF JoinersConnected
  <1>7. HistoryIsWhole'
    <2> SUFFICES ASSUME NEW q \in Proc,
                        (task[q].pc = "enter" /\ Up(task[q].socket))',
                        NEW m \in (Sent \cap MessagesOf(task[q].order))'
                 PROVE  (\/ m \in task[q].rows
                         \/ m \in seen[task[q].socket] \cup gap[task[q].socket])'
      BY DEF HistoryIsWhole
    <2>1. task[q].socket \in Socket \ {s}
      BY <1>1, TaskCases DEF Up, TypeOK
    <2> QED BY <1>1, <1>2, <1>3, <2>1 DEF HistoryIsWhole, Up, MessagesOf, Stored
  <1>8. OnlyTheGapIsMissed'
    BY <1>1, <1>2, <1>3, <1>4 DEF OnlyTheGapIsMissed, MessagesOf, Stored, TypeOK
  <1> QED BY <1>5, <1>6, <1>7, <1>8

LEMMA GapByLeave ==
    ASSUME GapInv, TypeOK', NEW s \in Socket, NEW o \in Order, LeaveOrderChat(s, o)
    PROVE  GapInv'
  <1> USE DEF GapInv
  <1>1. UNCHANGED <<row, userId, closed, task, seen, gap>>
    BY DEF LeaveOrderChat, clientVars
  <1>2. Sent' \subseteq Sent
    BY SentByClient DEF Client
  <1>3. \A n \in Order : chatRoom'[n] \subseteq chatRoom[n]
    BY DEF LeaveOrderChat, TypeOK
  <1> QED BY <1>1, <1>2, <1>3
          DEF RoomsAreUp, Up, JoinersConnected, HistoryIsWhole, OnlyTheGapIsMissed,
              MessagesOf, Stored

LEMMA GapByEnvironment ==
    ASSUME GapInv, TypeOK', Environment
    PROVE  GapInv'
  <1>1. CASE \E o \in Order : SetStatus(o) \/ \E r \in Rider : Assign(o, r)
    <2>1. UNCHANGED <<row, task, lost, chatRoom, userId, closed, seen, gap>>
      BY <1>1 DEF SetStatus, Assign, socketVars, clientVars
    <2>2. Sent' \subseteq Sent
      BY <2>1 DEF Sent, Stored, Unsent
    <2> QED BY <2>1, <2>2, GapByLess
  <1>2. CASE Crash
    <2>1. \A q \in Proc : task'[q] = Idle
      BY <1>2 DEF Crash
    <2>2. \A o \in Order : chatRoom'[o] = {}
      BY <1>2 DEF Crash
    <2> QED BY <2>1, <2>2
            DEF GapInv, RoomsAreUp, JoinersConnected, HistoryIsWhole,
                OnlyTheGapIsMissed, Idle
  <1> QED BY <1>1, <1>2 DEF Environment

LEMMA GapByNext == GapInv /\ TypeOK' /\ [Next]_vars => GapInv'
  <1> SUFFICES ASSUME GapInv, TypeOK', [Next]_vars PROVE GapInv'
    OBVIOUS
  <1>1. CASE UNCHANGED vars
    <2>1. UNCHANGED <<row, task, lost, chatRoom, userId, closed, seen, gap>>
      BY <1>1 DEF vars, socketVars, clientVars
    <2>2. Sent' \subseteq Sent
      BY <2>1 DEF Sent, Stored, Unsent
    <2> QED BY <2>1, <2>2, GapByLess
  <1>2. CASE \E p \in Proc : Call(p)
    BY <1>2, GapByCall
  <1>3. CASE \E p \in Proc : Step(p)
    BY <1>3, GapByRead, GapByEnter, GapByCreate, GapByEmit DEF Step
  <1>4. CASE \E p \in Proc : Fail(p)
    BY <1>4, GapByFail
  <1>5. CASE \E s \in Socket : Client(s)
    BY <1>5, GapByConnect, GapByDisconnect, GapByLeave DEF Client
  <1>6. CASE Environment
    BY <1>6, GapByEnvironment
  <1> QED BY <1>1, <1>2, <1>3, <1>4, <1>5, <1>6 DEF Next

\* join_order_chat reads the history before it joins the room: a client misses
\* no more than what is emitted between the two.
THEOREM GapIsAll == Spec => []OnlyTheGapIsMissed
  <1>1. Init => GapInv
    <2> SUFFICES ASSUME Init PROVE GapInv
      OBVIOUS
    <2>1. TypeOK
      BY TasksMade, FaultAssumption DEF Init, TypeOK
    <2> QED BY <2>1 DEF Init, GapInv, RoomsAreUp, JoinersConnected, HistoryIsWhole,
                        OnlyTheGapIsMissed, Idle
  <1>2. GapInv => OnlyTheGapIsMissed
    BY DEF GapInv
  <1> QED BY <1>1, <1>2, GapByNext, TypeCorrect, PTL DEF Spec

-----------------------------------------------------------------------------
(* What admins have.                                                       *)

AdminsListen == \A s \in adminRoom : userId[s] \in Admin

LEMMA AdminsListenByNext == AdminsListen /\ TypeOK /\ [Next]_vars => AdminsListen'
  <1> SUFFICES ASSUME AdminsListen, TypeOK, [Next]_vars PROVE AdminsListen'
    OBVIOUS
  <1>1. CASE UNCHANGED <<adminRoom, userId>>
    BY <1>1 DEF AdminsListen
  <1>2. CASE \E p \in Proc : Call(p) \/ Step(p) \/ Fail(p)
    BY <1>1, <1>2 DEF Call, Step, JoinOrderChat, SendMessage, LogCall, ReadHistory,
                      EnterRoom, CreateRow, Emit, Fail, socketVars
  <1>3. CASE \E s \in Socket, u \in User : Connect(s, u)
    BY <1>3, UserAssumption DEF Connect, AdminsListen, TypeOK
  <1>4. CASE \E s \in Socket : Disconnect(s)
    BY <1>4 DEF Disconnect, AdminsListen
  <1>5. CASE \E s \in Socket, o \in Order : LeaveOrderChat(s, o)
    BY <1>1, <1>5 DEF LeaveOrderChat
  <1>6. CASE Environment
    BY <1>1, <1>6 DEF Environment, SetStatus, Assign, Crash, AdminsListen, socketVars
  <1>7. CASE UNCHANGED vars
    BY <1>1, <1>7 DEF vars, socketVars
  <1> QED BY <1>2, <1>3, <1>4, <1>5, <1>6, <1>7 DEF Next, Client

LEMMA AdminsByNext ==
    AdminsListen /\ AdminsMissNothing /\ TypeOK /\ TypeOK' /\ [Next]_vars => AdminsMissNothing'
  <1> SUFFICES ASSUME AdminsListen, AdminsMissNothing, TypeOK, TypeOK', [Next]_vars
               PROVE  AdminsMissNothing'
    OBVIOUS
  \* nobody joins, nothing is sent or forgotten
  <1>0. ASSUME adminRoom' \subseteq adminRoom, Sent' \subseteq Sent,
               \A s \in adminRoom' : seen[s] \cup before[s] \subseteq seen'[s] \cup before'[s]
        PROVE  AdminsMissNothing'
    BY <1>0 DEF AdminsMissNothing
  <1>1. CASE UNCHANGED vars
    <2>1. Sent' \subseteq Sent
      BY <1>1 DEF vars, clientVars, Sent, Stored, Unsent
    <2> QED BY <1>0, <1>1, <2>1 DEF vars, socketVars, clientVars
  <1>2. CASE \E p \in Proc : Call(p)
    <2>1. UNCHANGED <<socketVars, clientVars>>
      BY <1>2 DEF Call, JoinOrderChat, SendMessage, LogCall
    <2> QED BY <1>0, <1>2, <2>1, SentByCall DEF socketVars, clientVars
  <1>3. ASSUME NEW p \in Proc, Step(p)
        PROVE  AdminsMissNothing'
    <2>1. CASE ReadHistory(p)
      BY <1>0, <2>1, SentByJoin DEF ReadHistory, socketVars, clientVars
    <2>2. CASE EnterRoom(p)
      <3>1. \A s \in Socket : seen[s] \subseteq seen'[s]
        BY <2>2 DEF EnterRoom, TypeOK
      <3> QED BY <1>0, <2>2, <3>1, SentByJoin DEF EnterRoom, TypeOK
    <2>3. CASE \E m \in Message : CreateRow(p, m)
      BY <1>0, <2>3, SentByCreate DEF CreateRow, socketVars, clientVars
    <2>4. CASE Emit(p)
      <3>1. \A s \in adminRoom : seen'[s] = seen[s] \cup {task[p].id}
        BY <2>4 DEF Emit, Audience, TypeOK
      <3>2. UNCHANGED <<adminRoom, before>>
        BY <2>4 DEF Emit, socketVars
      <3> QED BY <2>4, <3>1, <3>2, SentByEmit DEF AdminsMissNothing
    <2> QED BY <1>3, <2>1, <2>2, <2>3, <2>4 DEF Step
  <1>4. CASE \E p \in Proc : Fail(p)
    <2>1. UNCHANGED <<adminRoom, before, seen>>
      BY <1>4 DEF Fail, socketVars
    <2> QED BY <1>0, <1>4, <2>1, SentByFail
  <1>5. ASSUME NEW s \in Socket, Client(s)
        PROVE  AdminsMissNothing'
    <2>0. Sent' \subseteq Sent
      BY <1>5, SentByClient
    <2>1. CASE \E u \in User : Connect(s, u)
      <3>1. PICK u \in User : Connect(s, u)
        BY <2>1
      <3>2. \A r \in Socket : r # s => before'[r] = before[r]
        BY <3>1 DEF Connect, TypeOK
      <3>3. u \in Admin => before'[s] = Sent
        BY <3>1 DEF Connect, TypeOK
      <3>4. adminRoom' = (IF u \in Admin THEN adminRoom \cup {s} ELSE adminRoom)
            /\ seen' = seen
        BY <3>1 DEF Connect, clientVars
      <3>5. ASSUME NEW r \in adminRoom' PROVE Sent' \subseteq seen'[r] \cup before'[r]
        <4>1. CASE r = s /\ u \in Admin
          BY <2>0, <3>3, <4>1
        <4>2. CASE r # s
          BY <2>0, <3>2, <3>4, <3>5, <4>2 DEF AdminsMissNothing, TypeOK
        <4>3. CASE r = s /\ u \notin Admin
          <5>1. userId[s] = NoUser /\ s \in adminRoom
            BY <3>1, <3>4, <3>5, <4>3 DEF Connect
          <5> QED BY <5>1, UserAssumption DEF AdminsListen
        <4> QED BY <4>1, <4>2, <4>3
      <3> QED BY <3>5 DEF AdminsMissNothing
    <2>2. CASE Disconnect(s)
      <3>1. /\ adminRoom' = adminRoom \ {s}
            /\ \A r \in Socket : r # s => seen'[r] = seen[r] /\ before'[r] = before[r]
        BY <2>2 DEF Disconnect, Forget
      <3> QED BY <1>0, <2>0, <3>1 DEF TypeOK
    <2>3. CASE \E o \in Order : LeaveOrderChat(s, o)
      BY <1>0, <2>0, <2>3 DEF LeaveOrderChat, clientVars
    <2> QED BY <1>5, <2>1, <2>2, <2>3 DEF Client
  <1>6. CASE \E o \in Order : SetStatus(o) \/ \E r \in Rider : Assign(o, r)
    <2>1. UNCHANGED <<row, task, socketVars, clientVars>>
      BY <1>6 DEF SetStatus, Assign
    <2>2. Sent' \subseteq Sent
      BY <2>1 DEF Sent, Stored, Unsent, clientVars
    <2> QED BY <1>0, <2>1, <2>2 DEF socketVars, clientVars
  <1>7. CASE Crash
    BY <1>7 DEF Crash, AdminsMissNothing
  <1> QED BY <1>1, <1>2, <1>3, <1>4, <1>5, <1>6, <1>7 DEF Next, Environment


\* 'Admins auto-join admin:chat room and receive all messages': what is stored
\* while an admin is connected reaches that admin's client.
THEOREM AdminsHearAll == Spec => []AdminsMissNothing
  <1>1. Init => AdminsListen /\ AdminsMissNothing
    BY DEF Init, AdminsListen, AdminsMissNothing
  <1> QED BY <1>1, AdminsListenByNext, AdminsByNext, TypeCorrect, PTL DEF Spec

-----------------------------------------------------------------------------
(* Who sees what.                                                          *)

\* who may be in the room of an order
MaySee(s, o) ==
    \/ userId[s] \in Admin
    \/ userId[s] = customer[o]
    \/ userId[s] \in riders[o]

\* a rider of an order is among those who have driven for it
RidersKept == \A o \in Order : riderId[o] \in riders[o] \cup {NoUser}

RoomsOfParties == \A o \in Order : \A s \in chatRoom[o] : MaySee(s, o)

\* what handlers have read is of an order whose parties they serve
TasksOfParties ==
    \A p \in Proc :
        /\ task[p].pc \in {"history", "enter"} =>
             /\ MaySee(task[p].socket, task[p].order)
             /\ task[p].rows \subseteq MessagesOf(task[p].order)
        /\ task[p].pc = "emit" => Stored(task[p].id)

SeenByParties ==
    \A s \in Socket : \A m \in seen[s] : Stored(m) /\ MaySee(s, row[m].order)

PartyInv ==
    /\ TypeOK
    /\ AdminsListen
    /\ RidersKept
    /\ RoomsOfParties
    /\ TasksOfParties
    /\ SeenByParties

\* nobody who may see an order stops being allowed to
LEMMA MaySeeKept ==
    ASSUME TypeOK, [Next]_vars, NEW s \in Socket, NEW o \in Order, MaySee(s, o)
    PROVE  MaySee(s, o)'
  <1>1. userId[s] # NoUser
    BY UserAssumption, CustomerAssumption DEF MaySee, TypeOK
  <1>2. userId'[s] = userId[s]
    <2>1. CASE \E r \in Socket, u \in User : Connect(r, u)
      BY <1>1, <2>1 DEF Connect, TypeOK
    <2>2. CASE UNCHANGED userId
      BY <2>2
    <2> QED BY <2>1, <2>2
            DEF Next, Call, Step, Client, Environment, JoinOrderChat, SendMessage,
                LogCall, ReadHistory, EnterRoom, CreateRow, Emit, Fail, Disconnect,
                LeaveOrderChat, SetStatus, Assign, Crash, vars, socketVars
  <1>3. riders[o] \subseteq riders'[o]
    <2>1. CASE \E n \in Order, r \in Rider : Assign(n, r)
      BY <2>1 DEF Assign, TypeOK
    <2>2. CASE UNCHANGED riders
      BY <2>2
    <2> QED BY <2>1, <2>2
            DEF Next, Call, Step, Client, Environment, JoinOrderChat, SendMessage,
                LogCall, ReadHistory, EnterRoom, CreateRow, Emit, Fail, Connect,
                Disconnect, LeaveOrderChat, SetStatus, Crash, vars, orderVars
  <1> QED BY <1>2, <1>3 DEF MaySee

\* rows are written once
LEMMA RowsKept ==
    ASSUME TypeOK, [Next]_vars, NEW m \in Message, Stored(m)
    PROVE  Stored(m)' /\ row'[m] = row[m]
  <1>1. CASE \E p \in Proc, n \in Message : CreateRow(p, n)
    BY <1>1 DEF CreateRow, Stored, TypeOK
  <1>2. CASE UNCHANGED row
    BY <1>2 DEF Stored
  <1> QED BY <1>1, <1>2
          DEF Next, Call, Step, Client, Environment, JoinOrderChat, SendMessage,
              LogCall, ReadHistory, EnterRoom, Emit, Fail, Connect, Disconnect,
              LeaveOrderChat, SetStatus, Assign, Crash, vars

LEMMA RidersKeptByNext == PartyInv /\ [Next]_vars => RidersKept'
  <1> SUFFICES ASSUME PartyInv, [Next]_vars PROVE RidersKept'
    OBVIOUS
  <1>1. CASE \E o \in Order, r \in Rider : Assign(o, r)
    BY <1>1 DEF Assign, PartyInv, RidersKept, TypeOK
  <1>2. CASE UNCHANGED <<riderId, riders>>
    BY <1>2 DEF PartyInv, RidersKept
  <1> QED BY <1>1, <1>2
          DEF Next, Call, Step, Client, Environment, JoinOrderChat, SendMessage,
              LogCall, ReadHistory, EnterRoom, CreateRow, Emit, Fail, Connect,
              Disconnect, LeaveOrderChat, SetStatus, Crash, vars, orderVars

LEMMA RoomsByNext == PartyInv /\ [Next]_vars => RoomsOfParties'
  <1> SUFFICES ASSUME PartyInv, [Next]_vars, NEW o \in Order, NEW s \in chatRoom'[o]
               PROVE  MaySee(s, o)'
    BY DEF RoomsOfParties
  <1>1. CASE s \in chatRoom[o]
    BY <1>1, MaySeeKept DEF PartyInv, RoomsOfParties, TypeOK
  <1>2. CASE s \notin chatRoom[o]
    <2>1. PICK p \in Proc : EnterRoom(p)
      <3>1. CASE \E p \in Proc : EnterRoom(p)
        BY <3>1
      <3>2. CASE \E r \in Socket, n \in Order : LeaveOrderChat(r, n)
        BY <1>2, <3>2 DEF LeaveOrderChat, PartyInv, TypeOK
      <3>3. CASE (\E r \in Socket : Disconnect(r)) \/ Crash
        BY <1>2, <3>3 DEF Disconnect, Crash
      <3>4. CASE UNCHANGED chatRoom
        BY <1>2, <3>4
      <3> QED BY <3>1, <3>2, <3>3, <3>4
              DEF Next, Call, Step, Client, Environment, JoinOrderChat, SendMessage,
                  LogCall, ReadHistory, CreateRow, Emit, Fail, Connect, SetStatus,
                  Assign, vars, socketVars
    <2>2. task[p].socket \in Socket /\ task[p].order \in Order
      BY <2>1, TaskCases DEF EnterRoom, PartyInv, TypeOK
    <2>3. s = task[p].socket /\ o = task[p].order
      BY <1>2, <2>1, <2>2 DEF EnterRoom, PartyInv, TypeOK
    <2>4. MaySee(s, o)
      BY <2>1, <2>3 DEF EnterRoom, PartyInv, TasksOfParties
    <2> QED BY <2>2, <2>3, <2>4, MaySeeKept DEF PartyInv
  <1> QED BY <1>1, <1>2


\* a handler that another step leaves alone
LEMMA TaskOfPartiesKept ==
    ASSUME PartyInv, [Next]_vars, NEW p \in Proc, task'[p] = task[p]
    PROVE  /\ task'[p].pc \in {"history", "enter"} =>
                /\ MaySee(task[p].socket, task[p].order)'
                /\ (task[p].rows \subseteq MessagesOf(task[p].order))'
           /\ task'[p].pc = "emit" => Stored(task[p].id)'
  <1>1. CASE task[p].pc \in {"history", "enter"}
    <2>1. task[p].socket \in Socket /\ task[p].order \in Order /\ task[p].rows \in SUBSET Message
      BY <1>1, TaskCases DEF PartyInv, TypeOK
    <2>2. MaySee(task[p].socket, task[p].order)'
      BY <1>1, <2>1, MaySeeKept DEF PartyInv, TasksOfParties, MaySee
    <2>3. (task[p].rows \subseteq MessagesOf(task[p].order))'
      BY <1>1, <2>1, RowsKept DEF PartyInv, TasksOfParties, MessagesOf
    <2> QED BY <1>1, <2>2, <2>3
  <1>2. CASE task[p].pc = "emit"
    <2>1. task[p].id \in Message
      BY <1>2, TaskCases DEF PartyInv, TypeOK
    <2>2. row'[task[p].id] # NoRow
      BY <1>2, <2>1, RowsKept DEF PartyInv, TasksOfParties, Stored
    <2> QED BY <1>2, <2>2 DEF Stored
  <1> QED BY <1>1, <1>2

\* the handler that takes a step
LEMMA TaskOfPartiesMoved ==
    ASSUME PartyInv, [Next]_vars, NEW p \in Proc, Call(p) \/ Step(p) \/ Fail(p)
    PROVE  /\ task'[p].pc \in {"history", "enter"} =>
                /\ MaySee(task[p].socket, task[p].order)'
                /\ (task[p].rows \subseteq MessagesOf(task[p].order))'
           /\ task'[p].pc = "emit" => Stored(task[p].id)'
  <1> USE DEF PartyInv, TypeOK
  <1>1. CASE \E s \in Socket, o \in Order : JoinOrderChat(p, s, o)
    <2>1. PICK s \in Socket, o \in Order : JoinOrderChat(p, s, o)
      BY <1>1
    <2>2. MaySee(s, o)
      BY <2>1 DEF JoinOrderChat, Party, Up, MaySee, RidersKept
    <2>3. MaySee(s, o)'
      BY <2>2, MaySeeKept
    <2>4. task'[p] = Joining("history", s, o, {})
      BY <2>1 DEF JoinOrderChat, Start, Become
    <2> QED BY <2>3, <2>4 DEF Joining, MaySee
  <1>2. CASE \/ \E s \in Socket, o \in Order : SendMessage(p, s, o)
             \/ \E u \in User, o \in Order : LogCall(p, u, o)
    BY <1>2 DEF SendMessage, LogCall, Start, Become, Creating
  <1>3. CASE ReadHistory(p)
    <2>1. task[p].socket \in Socket /\ task[p].order \in Order
      BY <1>3, TaskCases DEF ReadHistory
    <2>2. MaySee(task[p].socket, task[p].order)
      BY <1>3 DEF ReadHistory, TasksOfParties
    <2>3. /\ task'[p].pc = "enter"
          /\ task'[p].socket = task[p].socket /\ task'[p].order = task[p].order
          /\ task'[p].rows = MessagesOf(task[p].order)
      BY <1>3 DEF ReadHistory, Become, Joining
    <2>4. UNCHANGED <<row, userId, riders>>
      BY <1>3 DEF ReadHistory, socketVars, orderVars
    <2> QED BY <2>2, <2>3, <2>4 DEF MaySee, MessagesOf, Stored
  <1>4. CASE EnterRoom(p) \/ Emit(p) \/ Fail(p)
    BY <1>4 DEF EnterRoom, Emit, Fail, Become, Idle
  <1>5. CASE \E m \in Message : CreateRow(p, m)
    <2>1. PICK m \in Message : CreateRow(p, m)
      BY <1>5
    <2>2. task'[p] = Emitting(m)
      BY <2>1 DEF CreateRow, Become
    <2>3. task[p].row \in Row
      BY <2>1, TaskCases DEF CreateRow
    <2>4. row'[m] # NoRow
      BY <2>1, <2>3, RowAssumption DEF CreateRow
    <2> QED BY <2>2, <2>4 DEF Emitting, Stored
  <1> QED BY <1>1, <1>2, <1>3, <1>4, <1>5 DEF Call, Step

LEMMA TasksByNext == PartyInv /\ [Next]_vars => TasksOfParties'
  <1> SUFFICES ASSUME PartyInv, [Next]_vars, NEW p \in Proc
               PROVE  /\ task'[p].pc \in {"history", "enter"} =>
                           /\ MaySee(task[p].socket, task[p].order)'
                           /\ (task[p].rows \subseteq MessagesOf(task[p].order))'
                      /\ task'[p].pc = "emit" => Stored(task[p].id)'
    BY DEF TasksOfParties
  <1>1. CASE Call(p) \/ Step(p) \/ Fail(p)
    BY <1>1, TaskOfPartiesMoved
  <1>2. CASE task'[p] = task[p]
    BY <1>2, TaskOfPartiesKept
  <1>3. CASE Crash
    BY <1>3 DEF Crash, Idle
  <1>4. CASE \E q \in Proc \ {p} : Call(q) \/ Step(q) \/ Fail(q)
    <2>1. PICK q \in Proc \ {p} : \E t : Become(q, t)
      BY <1>4 DEF Call, Step, JoinOrderChat, SendMessage, LogCall, Start,
                  ReadHistory, EnterRoom, CreateRow, Emit, Fail
    <2> QED BY <1>2, <2>1 DEF Become, PartyInv, TypeOK
  <1>5. CASE (\E s \in Socket : Client(s)) \/ UNCHANGED vars
             \/ (\E o \in Order : SetStatus(o) \/ \E r \in Rider : Assign(o, r))
    BY <1>2, <1>5 DEF Client, Connect, Disconnect, LeaveOrderChat, SetStatus, Assign, vars
  <1> QED BY <1>1, <1>3, <1>4, <1>5 DEF Next, Environment

LEMMA SeenByNext == PartyInv /\ [Next]_vars => SeenByParties'
  <1> SUFFICES ASSUME PartyInv, [Next]_vars, NEW s \in Socket, NEW m \in seen'[s]
               PROVE  Stored(m)' /\ MaySee(s, row[m].order)'
    BY DEF SeenByParties
  <1> USE DEF PartyInv, TypeOK
  \* what was stored, by somebody who might see it, is so still
  <1>0. ASSUME m \in Message, Stored(m), MaySee(s, row[m].order)
        PROVE  Stored(m)' /\ MaySee(s, row[m].order)'
    <2>1. row[m].order \in Order
      BY <1>0 DEF Stored, Row
    <2>2. Stored(m)' /\ row'[m] = row[m]
      BY <1>0, RowsKept
    <2>3. MaySee(s, row[m].order)'
      BY <1>0, <2>1, <2>2, MaySeeKept DEF MaySee
    <2> QED BY <2>2, <2>3
  <1>1. CASE m \in seen[s]
    BY <1>0, <1>1 DEF SeenByParties
  <1>2. CASE m \notin seen[s]
    <2>1. CASE \E p \in Proc : EnterRoom(p)
      <3>1. PICK p \in Proc : EnterRoom(p)
        BY <2>1
      <3>2. task[p].socket \in Socket /\ task[p].order \in Order /\ task[p].rows \in SUBSET Message
        BY <3>1, TaskCases DEF EnterRoom
      <3>3. s = task[p].socket /\ m \in task[p].rows
        BY <1>2, <3>1, <3>2 DEF EnterRoom
      <3>4. MaySee(task[p].socket, task[p].order) /\ m \in MessagesOf(task[p].order)
        BY <3>1, <3>3 DEF EnterRoom, TasksOfParties
      <3> QED BY <1>0, <3>3, <3>4 DEF MessagesOf
    <2>2. CASE \E p \in Proc : Emit(p)
      <3>1. PICK p \in Proc : Emit(p)
        BY <2>2
      <3>2. m = task[p].id /\ s \in Audience(m)
        BY <1>2, <3>1 DEF Emit
      <3>3. m \in Message /\ Stored(m)
        BY <3>1, <3>2, TaskCases DEF Emit, TasksOfParties
      <3>4. row[m].order \in Order
        BY <3>3 DEF Stored, Row
      <3>5. MaySee(s, row[m].order)
        BY <3>2, <3>4 DEF Audience, AdminsListen, RoomsOfParties, MaySee
      <3> QED BY <1>0, <3>3, <3>5
    <2>3. CASE (\E r \in Socket : Disconnect(r)) \/ Crash
      BY <1>2, <2>3 DEF Disconnect, Crash, Forget
    <2>4. CASE UNCHANGED seen
      BY <1>2, <2>4
    <2> QED BY <2>1, <2>2, <2>3, <2>4
            DEF Next, Call, Step, Client, Environment, JoinOrderChat, SendMessage,
                LogCall, ReadHistory, CreateRow, Fail, Connect, LeaveOrderChat,
                SetStatus, Assign, vars, clientVars
  <1> QED BY <1>1, <1>2

\* The room of an order is for its parties and for admins, whoever drives for it
\* by now: nobody else sees what is written there.
THEOREM ChatIsForParties == Spec => []OnlyPartiesSee
  <1>1. Init => PartyInv
    <2> SUFFICES ASSUME Init PROVE PartyInv
      OBVIOUS
    <2>1. TypeOK
      BY TasksMade, FaultAssumption DEF Init, TypeOK
    <2> QED BY <2>1 DEF Init, PartyInv, AdminsListen, RidersKept, RoomsOfParties,
                        TasksOfParties, SeenByParties, Idle
  <1>2. PartyInv /\ TypeOK' /\ [Next]_vars => PartyInv'
    BY AdminsListenByNext, RidersKeptByNext, RoomsByNext, TasksByNext, SeenByNext
       DEF PartyInv
  <1>3. PartyInv => OnlyPartiesSee
    BY DEF PartyInv, SeenByParties, OnlyPartiesSee, MaySee
  <1> QED BY <1>1, <1>2, <1>3, TypeCorrect, PTL DEF Spec

=============================================================================
