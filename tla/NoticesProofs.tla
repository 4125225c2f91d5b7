--------------------------- MODULE NoticesProofs ---------------------------
(***************************************************************************)
(* Proofs about Notices, for any orders, users, devices and bounds: who is *)
(* told, on which devices, and who has marked what is read.                *)
(***************************************************************************)
EXTENDS Notices, TLAPS

LEMMA TaskCases ==
    ASSUME NEW t \in Task
    PROVE  /\ t.pc \in {"idle", "read", "send"}
           /\ t.pc = "idle" <=> t = Idle
           /\ t # Idle => /\ t.call \in Call
                          /\ t.todo \in SUBSET Send
                          /\ t = Telling(t.pc, t.call, t.todo)
    BY DEF Task, Idle, Telling

LEMMA TasksMade ==
    /\ Idle \in Task
    /\ \A pc \in {"read", "send"}, n \in Call, todo \in SUBSET Send : Telling(pc, n, todo) \in Task
    BY DEF Task, Idle, Telling

LEMMA TellingParts ==
    ASSUME NEW pc, NEW n, NEW todo
    PROVE  /\ Telling(pc, n, todo).pc = pc
           /\ Telling(pc, n, todo).call = n
           /\ Telling(pc, n, todo).todo = todo
           /\ pc # "idle" => Telling(pc, n, todo) # Idle
    BY DEF Telling, Idle

LEMMA SettledOrNot ==
    ASSUME NEW n \in Call, NEW todo \in SUBSET Send
    PROVE  /\ Settled(Telling("send", n, todo)) \in Task
           /\ Settled(Telling("send", n, todo)) # Idle =>
                Settled(Telling("send", n, todo)) = Telling("send", n, todo)
           /\ todo # {} => Settled(Telling("send", n, todo)) = Telling("send", n, todo)
    BY TasksMade, TellingParts DEF Settled

\* a send at its next await
LEMMA SendSteps ==
    ASSUME NEW s \in Send
    PROVE  /\ s.as \in Role /\ s.to \in User
           /\ s.step \in {"create", "token", "push"}
           /\ s.step = "push" => s.device \in Device
           /\ s.step = "create" =>
                /\ AtToken(s) \in Send
                /\ AtToken(s).step = "token"
                /\ AtToken(s).as = s.as
                /\ AtToken(s).to = s.to
           /\ \A d \in Device :
                /\ AtPush(s, d) \in Send
                /\ AtPush(s, d).step = "push"
                /\ AtPush(s, d).as = s.as
                /\ AtPush(s, d).to = s.to
                /\ AtPush(s, d).device = d
    BY DEF Send, AtToken, AtPush

LEMMA NewSends ==
    ASSUME NEW as \in Role, NEW u \in User
    PROVE  /\ NewSend(as, u) \in Send
           /\ NewSend(as, u).as = as
           /\ NewSend(as, u).to = u
           /\ NewSend(as, u).step = "create"
    BY DEF NewSend, Send

LEMMA Happenings ==
    ASSUME NEW h \in Happening \cup {Nothing}, h # Nothing
    PROVE  /\ h.event \in OwnerEvents \cup RiderEvents
           /\ h.order \in Order \cup {NoOrder}
           /\ h.owner \in User
           /\ h.rider \in Rider \cup {NoUser}
    BY DEF Happening

-----------------------------------------------------------------------------
(* Types, and that only calls that have begun leave traces.                *)

CallsBegun ==
    /\ \A n \in Call : n <= calls => happened[n] # Nothing
    /\ \A p \in Proc : task[p] # Idle => task[p].call <= calls
    /\ \A row \in rows : row.call <= calls

TypeInv == TypeOK /\ CallsBegun

\* an event is handed to a slot
LEMMA TypesByTell ==
    ASSUME TypeInv, NEW p \in Proc, NEW event \in OwnerEvents \cup RiderEvents,
           NEW o \in Order \cup {NoOrder}, NEW u \in User, NEW r \in Rider \cup {NoUser},
           Tell(p, event, o, u, r)
    PROVE  /\ calls + 1 \in Call
           /\ calls' = calls + 1 /\ calls' \in 0..MaxCalls
           /\ happened' \in [Call -> Happening \cup {Nothing}]
           /\ happened'[calls + 1] = [event |-> event, order |-> o, owner |-> u, rider |-> r]
           /\ happened'[calls + 1] # Nothing
           /\ \A n \in Call : n <= calls => happened'[n] = happened[n]
           /\ task' \in [Proc -> Task]
           /\ task[p] = Idle /\ task'[p] = Telling("read", calls + 1, {})
           /\ \A q \in Proc : q # p => task'[q] = task[q]
           /\ UNCHANGED <<rowVars, deviceVars, lost, pushed, faults>>
           /\ CallsBegun'
  <1> DEFINE h == [event |-> event, order |-> o, owner |-> u, rider |-> r]
  <1> USE DEF TypeInv, TypeOK
  <1>1. /\ calls + 1 \in Call /\ calls' = calls + 1 /\ calls \in Nat
        /\ calls' \in 0..MaxCalls
    BY BoundAssumption DEF Tell, Call
  <1>2. h \in Happening /\ h # Nothing
    BY DEF Happening, Nothing
  <1>3. happened' = [happened EXCEPT ![calls + 1] = h]
    BY DEF Tell
  <1>4. /\ happened' \in [Call -> Happening \cup {Nothing}]
        /\ happened'[calls + 1] = h
        /\ \A n \in Call : n # calls + 1 => happened'[n] = happened[n]
    <2> HIDE DEF h
    <2> QED BY <1>1, <1>2, <1>3
  <1>5. Telling("read", calls + 1, {}) \in Task
    BY <1>1, TasksMade
  <1>6. /\ task' \in [Proc -> Task]
        /\ task[p] = Idle /\ task'[p] = Telling("read", calls + 1, {})
        /\ \A q \in Proc : q # p => task'[q] = task[q]
    BY <1>5 DEF Tell, Become
  <1>7. UNCHANGED <<rowVars, deviceVars, lost, pushed, faults>>
    BY DEF Tell
  <1>8. \A n \in Call : n <= calls => n # calls + 1
    BY <1>1 DEF Call
  <1>9. CallsBegun'
    <2>1. \A n \in Call : n <= calls + 1 => n <= calls \/ n = calls + 1
      BY <1>1 DEF Call
    <2>2. \A n \in Call : n <= calls' => happened'[n] # Nothing
      BY <1>1, <1>2, <1>4, <1>8, <2>1 DEF CallsBegun
    <2>3. \A n \in Call : n <= calls => n <= calls + 1
      BY <1>1 DEF Call
    <2>4. \A q \in Proc : task'[q] # Idle => task'[q].call <= calls'
      <3> TAKE q \in Proc
      <3>1. CASE q = p
        BY <1>1, <1>6, <3>1, TellingParts
      <3>2. CASE q # p /\ task[q] # Idle
        <4>1. task[q].call \in Call
          BY TaskCases, <3>2
        <4> QED BY <1>1, <1>6, <2>3, <3>2, <4>1 DEF CallsBegun
      <3> QED BY <1>6, <3>1, <3>2
    <2>5. \A row \in rows' : row.call <= calls'
      <3>1. \A row \in rows : row.call \in Call
        BY DEF Row
      <3> QED BY <1>1, <1>7, <2>3, <3>1 DEF CallsBegun, rowVars
    <2> QED BY <2>2, <2>4, <2>5 DEF CallsBegun
  <1> QED BY <1>1, <1>2, <1>4, <1>6, <1>7, <1>8, <1>9
\* a call of p goes on with todo, or is over if there is none
Continues(p, n, todo) ==
    /\ task[p] # Idle /\ task[p].call = n /\ n \in Call
    /\ todo \in SUBSET Send
    /\ task' \in [Proc -> Task]
    /\ \A q \in Proc : q # p => task'[q] = task[q]
    /\ task'[p] # Idle => task'[p] = Telling("send", n, todo)
    /\ todo # {} => task'[p] = Telling("send", n, todo)

LEMMA ContinuesIfSettled ==
    ASSUME TypeInv, NEW p \in Proc, task[p] # Idle, NEW todo \in SUBSET Send,
           Become(p, Settled(Telling("send", task[p].call, todo)))
    PROVE  Continues(p, task[p].call, todo)
  <1> DEFINE n == task[p].call
  <1>1. task \in [Proc -> Task] /\ n \in Call
    BY TaskCases DEF TypeInv, TypeOK
  <1> DEFINE t == Settled(Telling("send", n, todo))
  <1>2. /\ t \in Task
        /\ t # Idle => t = Telling("send", n, todo)
        /\ todo # {} => t = Telling("send", n, todo)
    BY <1>1, SettledOrNot
  <1>3. task' = [task EXCEPT ![p] = t]
    BY DEF Become
  <1> HIDE DEF t
  <1>4. task'[p] = t /\ task' \in [Proc -> Task] /\ \A q \in Proc : q # p => task'[q] = task[q]
    BY <1>1, <1>2, <1>3
  <1> QED BY <1>1, <1>2, <1>4 DEF Continues

LEMMA TodoOf ==
    ASSUME TypeInv, NEW p \in Proc, NEW s \in Todo(p)
    PROVE  /\ s \in Send /\ task[p].pc = "send" /\ task[p] # Idle
           /\ task[p].call \in Call
           /\ s \in task[p].todo /\ task[p].todo \in SUBSET Send
           /\ task[p] = Telling("send", task[p].call, task[p].todo)
  <1>1. task[p] \in Task
    BY DEF TypeInv, TypeOK
  <1> QED BY <1>1, TaskCases DEF Todo

LEMMA ContinuesIfAdvances ==
    ASSUME TypeInv, NEW p \in Proc, NEW s \in Todo(p), NEW next \in SUBSET Send,
           Advance(p, s, next)
    PROVE  Continues(p, task[p].call, (task[p].todo \ {s}) \cup next)
  <1> DEFINE todo == (task[p].todo \ {s}) \cup next
  <1>1. /\ task[p] = Telling("send", task[p].call, task[p].todo)
        /\ todo \in SUBSET Send /\ task[p] # Idle
    BY TodoOf
  <1>2. [task[p] EXCEPT !.todo = (@ \ {s}) \cup next] = Telling("send", task[p].call, todo)
    BY <1>1 DEF Telling
  <1> HIDE DEF todo
  <1>3. Become(p, Settled(Telling("send", task[p].call, todo)))
    BY <1>2 DEF Advance
  <1>4. Continues(p, task[p].call, todo)
    BY <1>1, <1>3, ContinuesIfSettled
  <1> QED BY <1>4 DEF todo

\* what the code tells when it has read the order
Recipients(h) == TellOwner(h) \cup TellRider(h, RiderNow(h))

LEMMA RecipientsOf ==
    ASSUME TypeOK, NEW h \in Happening \cup {Nothing}, h # Nothing
    PROVE  /\ RiderNow(h) \in Rider \cup {NoUser}
           /\ Recipients(h) \in SUBSET Send
           /\ \A s \in Recipients(h) :
                /\ s.step = "create"
                /\ \/ s.as = "owner" /\ s.to = h.owner /\ h.event \in OwnerEvents
                   \/ /\ s.as = "rider" /\ s.to = RiderNow(h)
                      /\ h.event \in RiderEvents /\ s.to # NoUser
           /\ h.event \in OwnerEvents => NewSend("owner", h.owner) \in Recipients(h)
           /\ h.event \in RiderEvents /\ RiderNow(h) # NoUser =>
                NewSend("rider", RiderNow(h)) \in Recipients(h)
  <1>1. h.owner \in User /\ h.order \in Order \cup {NoOrder}
    BY Happenings
  <1>2. RiderNow(h) \in Rider \cup {NoUser}
    BY <1>1 DEF RiderNow, TypeOK
  <1>3. \A s \in TellOwner(h) : s = NewSend("owner", h.owner) /\ h.event \in OwnerEvents
    BY DEF TellOwner
  <1>4. \A s \in TellRider(h, RiderNow(h)) :
          s = NewSend("rider", RiderNow(h)) /\ h.event \in RiderEvents /\ RiderNow(h) # NoUser
    BY DEF TellRider
  <1>5. NewSend("owner", h.owner) \in Send
        /\ NewSend("owner", h.owner).as = "owner" /\ NewSend("owner", h.owner).to = h.owner
        /\ NewSend("owner", h.owner).step = "create"
    BY <1>1, NewSends DEF Role
  <1>6. RiderNow(h) # NoUser =>
          /\ NewSend("rider", RiderNow(h)) \in Send
          /\ NewSend("rider", RiderNow(h)).as = "rider"
          /\ NewSend("rider", RiderNow(h)).to = RiderNow(h)
          /\ NewSend("rider", RiderNow(h)).step = "create"
    BY <1>2, NewSends, UserAssumption DEF Role
  <1>7. Recipients(h) \in SUBSET Send
    BY <1>3, <1>4, <1>5, <1>6 DEF Recipients
  <1>8. \A s \in Recipients(h) :
          /\ s.step = "create"
          /\ \/ s.as = "owner" /\ s.to = h.owner /\ h.event \in OwnerEvents
             \/ /\ s.as = "rider" /\ s.to = RiderNow(h)
                /\ h.event \in RiderEvents /\ s.to # NoUser
    BY <1>3, <1>4, <1>5, <1>6 DEF Recipients
  <1>9. /\ h.event \in OwnerEvents => NewSend("owner", h.owner) \in Recipients(h)
        /\ h.event \in RiderEvents /\ RiderNow(h) # NoUser =>
             NewSend("rider", RiderNow(h)) \in Recipients(h)
    BY DEF Recipients, TellOwner, TellRider
  <1> QED BY <1>2, <1>7, <1>8, <1>9

LEMMA ContinuesByReadOrder ==
    ASSUME TypeInv, NEW p \in Proc, ReadOrder(p)
    PROVE  /\ Continues(p, task[p].call, Recipients(happened[task[p].call]))
           /\ task[p].pc = "read"
           /\ happened[task[p].call] \in Happening \cup {Nothing}
           /\ happened[task[p].call] # Nothing
           /\ UNCHANGED <<orderVars, rowVars, deviceVars, callVars, lost, pushed, faults>>
  <1> DEFINE n == task[p].call
  <1>1. task[p] \in Task /\ task[p].pc = "read"
    BY DEF ReadOrder, TypeInv, TypeOK
  <1>2. task[p] # Idle /\ n \in Call /\ n <= calls
    BY <1>1, TaskCases DEF TypeInv, CallsBegun
  <1>3. happened[n] \in Happening \cup {Nothing} /\ happened[n] # Nothing
    BY <1>2 DEF TypeInv, TypeOK, CallsBegun
  <1>4. Recipients(happened[n]) \in SUBSET Send
    BY <1>3, RecipientsOf DEF TypeInv
  <1>5. Become(p, Settled(Telling("send", n, Recipients(happened[n]))))
    BY DEF ReadOrder, Recipients
  <1>6. Continues(p, n, Recipients(happened[n]))
    BY <1>2, <1>4, <1>5, ContinuesIfSettled
  <1> QED BY <1>1, <1>3, <1>6 DEF ReadOrder

LEMMA ContinuesByFailToRead ==
    ASSUME TypeInv, NEW p \in Proc, FailToRead(p)
    PROVE  /\ Continues(p, task[p].call, {})
           /\ task[p].pc = "read" /\ task[p] \in Task
           /\ Pending(task[p]) = {<<task[p].call, as>> : as \in Role}
           /\ lost' = lost \cup Pending(task[p])
           /\ faults < MaxFaults /\ faults' = faults + 1
           /\ UNCHANGED <<orderVars, rowVars, deviceVars, callVars, pushed>>
  <1>1. task[p] \in Task /\ task[p].pc = "read"
    BY DEF FailToRead, TypeInv, TypeOK
  <1>2. task[p] # Idle
    BY <1>1, TaskCases
  <1>3. Settled(Telling("send", task[p].call, {})) = Idle
    BY TellingParts DEF Settled
  <1>4. Continues(p, task[p].call, {})
    BY <1>2, <1>3, ContinuesIfSettled DEF FailToRead
  <1>5. Pending(task[p]) = {<<task[p].call, as>> : as \in Role}
    BY <1>1 DEF Pending
  <1> QED BY <1>1, <1>4, <1>5 DEF FailToRead, Fault

LEMMA ContinuesByCreateRow ==
    ASSUME TypeInv, NEW p \in Proc, NEW s \in Todo(p), CreateRow(p, s)
    PROVE  /\ s.step = "create"
           /\ Continues(p, task[p].call, (task[p].todo \ {s}) \cup {AtToken(s)})
           /\ rows' = rows \cup {RowOf(task[p].call, s)}
           /\ unread' = unread \cup {RowOf(task[p].call, s)}
           /\ UNCHANGED <<orderVars, readers, deviceVars, callVars, lost, pushed, faults>>
  <1>1. s \in Send /\ s.step = "create"
    BY TodoOf DEF CreateRow
  <1>2. {AtToken(s)} \in SUBSET Send
    BY <1>1, SendSteps
  <1>3. Advance(p, s, {AtToken(s)})
    BY DEF CreateRow
  <1>4. Continues(p, task[p].call, (task[p].todo \ {s}) \cup {AtToken(s)})
    BY <1>2, <1>3, ContinuesIfAdvances
  <1> QED BY <1>1, <1>4 DEF CreateRow

LEMMA ContinuesToTheEnd ==
    ASSUME TypeInv, NEW p \in Proc, NEW s \in Todo(p), Advance(p, s, {})
    PROVE  Continues(p, task[p].call, task[p].todo \ {s})
  <1>1. Continues(p, task[p].call, (task[p].todo \ {s}) \cup {})
    BY ContinuesIfAdvances
  <1>2. (task[p].todo \ {s}) \cup {} = task[p].todo \ {s}
    OBVIOUS
  <1> QED BY <1>1, <1>2

LEMMA ContinuesByReadToken ==
    ASSUME TypeInv, NEW p \in Proc, NEW s \in Todo(p), ReadToken(p, s)
    PROVE  /\ s.step = "token"
           /\ \/ Continues(p, task[p].call, task[p].todo \ {s})
              \/ /\ fcmToken[s.to] \in Device
                 /\ Continues(p, task[p].call, (task[p].todo \ {s}) \cup
                      {AtPush(s, fcmToken[s.to])})
           /\ UNCHANGED <<orderVars, rowVars, deviceVars, callVars, lost, pushed, faults>>
  <1>1. s \in Send /\ s.step = "token"
    BY TodoOf DEF ReadToken
  <1>2. fcmToken[s.to] \in Device \cup {NoDevice}
    <2>1. s.to \in User /\ fcmToken \in [User -> Device \cup {NoDevice}]
      BY <1>1, SendSteps DEF TypeInv, TypeOK
    <2> QED BY <2>1
  <1>3. CASE fcmToken[s.to] = NoDevice
    <2>1. Advance(p, s, {})
      BY <1>3 DEF ReadToken, PushIfAny, TokenOf
    <2> QED BY <1>1, <2>1, ContinuesToTheEnd DEF ReadToken
  <1>4. CASE fcmToken[s.to] # NoDevice
    <2> DEFINE u == AtPush(s, fcmToken[s.to])
    <2>1. Advance(p, s, {u})
      BY <1>4 DEF ReadToken, PushIfAny, TokenOf
    <2>2. fcmToken[s.to] \in Device
      BY <1>2, <1>4
    <2>3. {u} \in SUBSET Send
      BY <1>1, <2>2, SendSteps
    <2>4. Continues(p, task[p].call, (task[p].todo \ {s}) \cup {u})
      BY <2>1, <2>3, ContinuesIfAdvances
    <2> QED BY <1>1, <2>2, <2>4 DEF ReadToken
  <1> QED BY <1>3, <1>4

LEMMA ContinuesBySendFcm ==
    ASSUME TypeInv, NEW p \in Proc, NEW s \in Todo(p), SendFcm(p, s)
    PROVE  /\ s.step = "push"
           /\ Continues(p, task[p].call, task[p].todo \ {s})
           /\ \/ pushed' = pushed \cup {[row |-> RowOf(task[p].call, s), device |-> s.device]}
              \/ UNCHANGED pushed
           /\ UNCHANGED <<orderVars, rowVars, deviceVars, callVars, lost, faults>>
    BY ContinuesToTheEnd DEF SendFcm

LEMMA ContinuesByFailToSend ==
    ASSUME TypeInv, NEW p \in Proc, NEW s \in Todo(p), FailToSend(p, s)
    PROVE  /\ Continues(p, task[p].call, task[p].todo \ {s})
           /\ lost' = lost \cup {<<task[p].call, s.as>>}
           /\ faults < MaxFaults /\ faults' = faults + 1
           /\ UNCHANGED <<orderVars, rowVars, deviceVars, callVars, pushed>>
  <1>1. /\ s \in Send /\ task[p].todo \in SUBSET Send /\ task[p] # Idle
        /\ task[p] = Telling("send", task[p].call, task[p].todo)
    BY TodoOf
  <1>2. [task[p] EXCEPT !.todo = task[p].todo \ {s}]
          = Telling("send", task[p].call, task[p].todo \ {s})
    BY <1>1 DEF Telling
  <1>3. Become(p, Settled(Telling("send", task[p].call, task[p].todo \ {s})))
    BY <1>2 DEF FailToSend, Survivors
  <1>4. Continues(p, task[p].call, task[p].todo \ {s})
    BY <1>1, <1>3, ContinuesIfSettled
  <1> QED BY <1>4 DEF FailToSend, Fault

LEMMA EndsByCrash ==
    ASSUME TypeInv, Crash
    PROVE  /\ \A p \in Proc : task'[p] = Idle
           /\ task' \in [Proc -> Task]
           /\ lost' = lost \cup UNION {Pending(task[p]) : p \in Proc}
           /\ faults < MaxFaults /\ faults' = faults + 1
           /\ UNCHANGED <<orderVars, rowVars, deviceVars, callVars, pushed>>
    BY TasksMade DEF Crash, Fault

\* parties that have no row when a call fails
LEMMA PendingParties ==
    ASSUME NEW t \in Task
    PROVE  /\ Pending(t) \subseteq Call \X Role
           /\ t.pc = "read" => \A as \in Role : <<t.call, as>> \in Pending(t)
           /\ t.pc = "send" =>
                \A s \in t.todo : s.step = "create" => <<t.call, s.as>> \in Pending(t)
  <1>1. CASE t.pc = "idle"
    BY <1>1 DEF Pending
  <1>2. CASE t.pc = "read"
    <2>1. t.call \in Call
      BY <1>2, TaskCases
    <2>2. Pending(t) = {<<t.call, as>> : as \in Role}
      BY <1>2 DEF Pending
    <2> QED BY <1>2, <2>1, <2>2
  <1>3. CASE t.pc = "send"
    <2>1. t.call \in Call /\ t.todo \in SUBSET Send
      BY <1>3, TaskCases
    <2>2. Pending(t) = {<<t.call, s.as>> : s \in {s \in t.todo : s.step = "create"}}
      BY <1>3 DEF Pending
    <2>3. \A s \in t.todo : s.as \in Role
      BY <2>1, SendSteps
    <2> QED BY <1>3, <2>1, <2>2, <2>3
  <1> QED BY <1>1, <1>2, <1>3, TaskCases

-----------------------------------------------------------------------------
\* calls that go on, or end, name no call that has not begun
LEMMA BegunByContinue ==
    ASSUME TypeInv, NEW p \in Proc, NEW n, NEW todo, Continues(p, n, todo),
           UNCHANGED callVars
    PROVE  /\ n <= calls
           /\ (\A row \in rows' : row.call <= calls) => CallsBegun'
  <1>1. n <= calls
    BY DEF Continues, TypeInv, CallsBegun
  <1>2. task'[p] # Idle => task'[p].call = n
    BY TellingParts DEF Continues
  <1>3. \A q \in Proc : task'[q] # Idle => task'[q].call <= calls
    BY <1>1, <1>2 DEF Continues, TypeInv, CallsBegun
  <1>4. (\A row \in rows' : row.call <= calls) => CallsBegun'
    BY <1>3 DEF TypeInv, CallsBegun, callVars
  <1> QED BY <1>1, <1>4

LEMMA TypesKept ==
    ASSUME TypeInv, UNCHANGED vars
    PROVE  TypeInv'
    BY DEF TypeInv, TypeOK, CallsBegun, vars, orderVars, rowVars, deviceVars, callVars

LEMMA GivenToRider ==
    ASSUME TypeInv, NEW o \in Order, NEW r \in Rider, GiveTo(o, r)
    PROVE  /\ riderId' \in [Order -> Rider \cup {NoUser}]
           /\ moved' \subseteq Call /\ moved \subseteq moved'
           /\ \A n \in Order : n # o => riderId'[n] = riderId[n]
           /\ riderId'[o] = r
           /\ \A p \in Proc : task[p].pc = "read" /\ happened[task[p].call].order = o
                                => task[p].call \in moved'
           /\ UNCHANGED placed
  <1>1. \A p \in YetToRead(o) : task[p].call \in Call
    BY TaskCases DEF YetToRead, TypeInv, TypeOK
  <1>2. moved' \subseteq Call /\ moved \subseteq moved'
    BY <1>1 DEF GiveTo, TypeInv, TypeOK
  <1> QED BY <1>2 DEF GiveTo, YetToRead, TypeInv, TypeOK

\* the events that change nothing of an order that is read here
Reported == {"CANCELLED", "NO_RIDERS", "PAYMENT_CAPTURED"}

LEMMA HappensCases ==
    ASSUME NEW p \in Proc, Happens(p)
    PROVE  \/ \E o \in Order : Place(p, o)
           \/ \E o \in Order, r \in Rider : Assign(p, o, r)
           \/ \E o \in Order, event \in Reported : Report(p, event, o)
           \/ \E u \in User : Expire(p, u)
    BY DEF Happens, CancelOrder, FindNobody, Capture, Reported

LEMMA TypesByHappens ==
    ASSUME TypeInv, NEW p \in Proc, Happens(p)
    PROVE  TypeInv'
  <1> USE DEF TypeInv
  <1>1. CASE \E o \in Order : Place(p, o)
    <2>1. PICK o \in Order : Place(p, o)
      BY <1>1
    <2>2. Tell(p, "PENDING", o, customer[o], NoUser) /\ customer[o] \in User
      BY <2>1, CustomerAssumption DEF Place
    <2>3. "PENDING" \in OwnerEvents \cup RiderEvents
      BY DEF OwnerEvents
    <2>4. /\ calls' \in 0..MaxCalls /\ CallsBegun'
          /\ happened' \in [Call -> Happening \cup {Nothing}] /\ task' \in [Proc -> Task]
          /\ UNCHANGED <<rowVars, deviceVars, lost, pushed, faults>>
      BY <2>2, <2>3, TypesByTell
    <2> QED BY <2>1, <2>4 DEF TypeOK, Place, rowVars, deviceVars
  <1>2. CASE \E o \in Order, r \in Rider : Assign(p, o, r)
    <2>1. PICK o \in Order, r \in Rider : Assign(p, o, r)
      BY <1>2
    <2>2. Tell(p, "ASSIGNED", o, customer[o], r) /\ customer[o] \in User
      BY <2>1, CustomerAssumption DEF Assign
    <2>3. "ASSIGNED" \in OwnerEvents \cup RiderEvents
      BY DEF OwnerEvents
    <2>4. /\ calls' \in 0..MaxCalls /\ CallsBegun'
          /\ happened' \in [Call -> Happening \cup {Nothing}] /\ task' \in [Proc -> Task]
          /\ UNCHANGED <<rowVars, deviceVars, lost, pushed, faults>>
      BY <2>2, <2>3, TypesByTell
    <2>5. GiveTo(o, r)
      BY <2>1 DEF Assign
    <2>6. riderId' \in [Order -> Rider \cup {NoUser}] /\ moved' \subseteq Call /\ UNCHANGED placed
      BY <2>5, GivenToRider
    <2> QED BY <2>4, <2>6 DEF TypeOK, rowVars, deviceVars
  <1>3. CASE \E o \in Order, event \in Reported : Report(p, event, o)
    <2>1. PICK o \in Order, event \in Reported : Report(p, event, o)
      BY <1>3
    <2>2. Tell(p, event, o, customer[o], riderId[o])
      BY <2>1 DEF Report
    <2>3. event \in OwnerEvents \cup RiderEvents
      BY DEF Reported, OwnerEvents, RiderEvents
    <2>4. customer[o] \in User /\ riderId[o] \in Rider \cup {NoUser}
      BY CustomerAssumption DEF TypeOK
    <2>5. /\ calls' \in 0..MaxCalls /\ CallsBegun'
          /\ happened' \in [Call -> Happening \cup {Nothing}] /\ task' \in [Proc -> Task]
          /\ UNCHANGED <<rowVars, deviceVars, lost, pushed, faults>>
      BY <2>2, <2>3, <2>4, TypesByTell
    <2> QED BY <2>1, <2>5 DEF TypeOK, Report, orderVars, rowVars, deviceVars
  <1>4. CASE \E u \in User : Expire(p, u)
    <2>1. PICK u \in User : Expire(p, u)
      BY <1>4
    <2>2. Tell(p, "EXPIRED", NoOrder, u, NoUser)
      BY <2>1 DEF Expire
    <2>3. "EXPIRED" \in OwnerEvents \cup RiderEvents
      BY DEF OwnerEvents
    <2>4. /\ calls' \in 0..MaxCalls /\ CallsBegun'
          /\ happened' \in [Call -> Happening \cup {Nothing}] /\ task' \in [Proc -> Task]
          /\ UNCHANGED <<rowVars, deviceVars, lost, pushed, faults>>
      BY <2>2, <2>3, TypesByTell
    <2> QED BY <2>1, <2>4 DEF TypeOK, Expire, orderVars, rowVars, deviceVars
  <1> QED BY <1>1, <1>2, <1>3, <1>4, HappensCases

LEMMA RowsMade ==
    ASSUME NEW n \in Call, NEW s \in Send
    PROVE  /\ RowOf(n, s) \in Row
           /\ RowOf(n, s).call = n /\ RowOf(n, s).as = s.as /\ RowOf(n, s).to = s.to
    BY SendSteps DEF RowOf, Row

LEMMA TypesBySend ==
    ASSUME TypeInv, NEW p \in Proc, NEW s \in Todo(p), SendStep(p, s)
    PROVE  TypeInv'
  <1> USE DEF TypeInv
  <1>1. s \in Send /\ task[p].call \in Call /\ RowOf(task[p].call, s) \in Row
    BY TodoOf, RowsMade
  <1>2. CASE CreateRow(p, s)
    <2>1. PICK todo : Continues(p, task[p].call, todo)
      BY <1>2, ContinuesByCreateRow
    <2>2. /\ rows' = rows \cup {RowOf(task[p].call, s)}
          /\ unread' = unread \cup {RowOf(task[p].call, s)}
          /\ UNCHANGED <<orderVars, readers, deviceVars, callVars, lost, pushed, faults>>
      BY <1>2, ContinuesByCreateRow
    <2>3. task[p].call <= calls /\ ((\A row \in rows' : row.call <= calls) => CallsBegun')
      BY <2>1, <2>2, BegunByContinue
    <2>4. CallsBegun'
      BY <1>1, <2>2, <2>3, RowsMade DEF CallsBegun
    <2> QED BY <1>1, <2>1, <2>2, <2>4 DEF TypeOK, Continues, orderVars, deviceVars, callVars
  <1>3. CASE ReadToken(p, s)
    <2>1. PICK todo : Continues(p, task[p].call, todo)
      BY <1>3, ContinuesByReadToken
    <2>2. UNCHANGED <<orderVars, rowVars, deviceVars, callVars, lost, pushed, faults>>
      BY <1>3, ContinuesByReadToken
    <2>3. CallsBegun'
      BY <2>1, <2>2, BegunByContinue DEF CallsBegun, rowVars
    <2> QED
      BY <2>1, <2>2, <2>3 DEF TypeOK, Continues, orderVars, rowVars, deviceVars, callVars
  <1>4. CASE SendFcm(p, s)
    <2>1. /\ Continues(p, task[p].call, task[p].todo \ {s}) /\ s.step = "push"
          /\ UNCHANGED <<orderVars, rowVars, deviceVars, callVars, lost, faults>>
          /\ \/ pushed' = pushed \cup {[row |-> RowOf(task[p].call, s), device |-> s.device]}
             \/ UNCHANGED pushed
      BY <1>4, ContinuesBySendFcm
    <2>2. CallsBegun'
      BY <2>1, BegunByContinue DEF CallsBegun, rowVars
    <2>3. s.device \in Device
      BY <1>1, <2>1, SendSteps
    <2>4. pushed' \subseteq [row : Row, device : Device]
      BY <1>1, <2>1, <2>3 DEF TypeOK
    <2> QED BY <2>1, <2>2, <2>4 DEF TypeOK, Continues, orderVars, rowVars, deviceVars, callVars
  <1>5. CASE FailToSend(p, s)
    <2>1. /\ Continues(p, task[p].call, task[p].todo \ {s})
          /\ lost' = lost \cup {<<task[p].call, s.as>>}
          /\ faults < MaxFaults /\ faults' = faults + 1
          /\ UNCHANGED <<orderVars, rowVars, deviceVars, callVars, pushed>>
      BY <1>5, ContinuesByFailToSend
    <2>2. CallsBegun'
      BY <2>1, BegunByContinue DEF CallsBegun, rowVars
    <2>3. lost' \subseteq Call \X Role
      BY <1>1, <2>1, SendSteps DEF TypeOK
    <2>4. faults' \in 0..MaxFaults
      BY <2>1, BoundAssumption DEF TypeOK
    <2> QED
      BY <2>1, <2>2, <2>3, <2>4 DEF TypeOK, Continues, orderVars, rowVars, deviceVars, callVars
  <1> QED BY <1>2, <1>3, <1>4, <1>5 DEF SendStep

LEMMA UsersChangeLittle ==
    ASSUME TypeInv, NEW u \in User, UserDoes(u)
    PROVE  /\ UNCHANGED <<orderVars, rows, callVars, task, lost, pushed, faults>>
           /\ TypeInv'
           /\ registered \subseteq registered'
           /\ ReadByAddressee => ReadByAddressee'
  <1> USE DEF TypeInv, TypeOK
  <1>1. CASE \E marked : MarkRows(u, marked) /\ \A row \in marked : row.to = u
    <2>1. PICK marked : MarkRows(u, marked) /\ \A row \in marked : row.to = u
      BY <1>1
    <2>2. /\ unread' = unread \ marked /\ readers' = readers \cup {u}
          /\ UNCHANGED <<orderVars, rows, deviceVars, callVars, task, lost, pushed, faults>>
      BY <2>1 DEF MarkRows
    <2>3. ReadByAddressee => ReadByAddressee'
      BY <2>1, <2>2 DEF ReadByAddressee
    <2> QED BY <2>2, <2>3 DEF CallsBegun, orderVars, deviceVars, callVars
  <1>2. CASE \E d \in Device : UpdateFcmToken(u, d)
    <2>1. PICK d \in Device : UpdateFcmToken(u, d)
      BY <1>2
    <2>2. /\ fcmToken' = [fcmToken EXCEPT ![u] = d]
          /\ registered' = registered \cup {<<u, d>>}
          /\ UNCHANGED <<orderVars, rowVars, callVars, task, lost, pushed, faults>>
      BY <2>1 DEF UpdateFcmToken
    <2>3. ReadByAddressee => ReadByAddressee'
      BY <2>2 DEF ReadByAddressee, rowVars
    <2> QED BY <2>2, <2>3 DEF CallsBegun, orderVars, rowVars, callVars
  <1>3. ASSUME NEW row \in rows, MarkAsRead(u, row)
        PROVE  \E marked : MarkRows(u, marked) /\ \A x \in marked : x.to = u
    BY <1>3 DEF MarkAsRead, Owned
  <1>4. ASSUME MarkAllAsRead(u)
        PROVE  \E marked : MarkRows(u, marked) /\ \A x \in marked : x.to = u
    BY <1>4 DEF MarkAllAsRead
  <1> QED BY <1>1, <1>2, <1>3, <1>4 DEF UserDoes

LEMMA TypesByNext ==
    ASSUME TypeInv, [Next]_vars
    PROVE  TypeInv'
  <1>1. CASE \E p \in Proc : ReadOrder(p)
    <2>1. PICK p \in Proc : ReadOrder(p)
      BY <1>1
    <2>2. PICK todo : Continues(p, task[p].call, todo)
      BY <2>1, ContinuesByReadOrder
    <2>3. UNCHANGED <<orderVars, rowVars, deviceVars, callVars, lost, pushed, faults>>
      BY <2>1, ContinuesByReadOrder
    <2>4. CallsBegun'
      BY <2>2, <2>3, BegunByContinue DEF TypeInv, CallsBegun, rowVars
    <2> QED BY <2>2, <2>3, <2>4
            DEF TypeInv, TypeOK, Continues, orderVars, rowVars, deviceVars, callVars
  <1>2. CASE \E p \in Proc : FailToRead(p)
    <2>1. PICK p \in Proc : FailToRead(p)
      BY <1>2
    <2>2. /\ Continues(p, task[p].call, {}) /\ task[p] \in Task
          /\ lost' = lost \cup Pending(task[p])
          /\ faults < MaxFaults /\ faults' = faults + 1
          /\ UNCHANGED <<orderVars, rowVars, deviceVars, callVars, pushed>>
      BY <2>1, ContinuesByFailToRead
    <2>3. CallsBegun'
      BY <2>2, BegunByContinue DEF TypeInv, CallsBegun, rowVars
    <2>4. lost' \subseteq Call \X Role
      BY <2>2, PendingParties DEF TypeInv, TypeOK
    <2>5. faults' \in 0..MaxFaults
      BY <2>2, BoundAssumption DEF TypeInv, TypeOK
    <2> QED BY <2>2, <2>3, <2>4, <2>5
            DEF TypeInv, TypeOK, Continues, orderVars, rowVars, deviceVars, callVars
  <1>3. CASE \E o \in Order, r \in Rider : Reassign(o, r)
    <2>1. PICK o \in Order, r \in Rider : Reassign(o, r)
      BY <1>3
    <2>2. /\ GiveTo(o, r)
          /\ UNCHANGED <<rowVars, deviceVars, callVars, task, lost, pushed, faults>>
      BY <2>1 DEF Reassign
    <2>3. riderId' \in [Order -> Rider \cup {NoUser}] /\ moved' \subseteq Call /\ UNCHANGED placed
      BY <2>2, GivenToRider
    <2> QED BY <2>2, <2>3 DEF TypeInv, TypeOK, CallsBegun, rowVars, deviceVars, callVars
  <1>4. CASE Crash
    <2>1. /\ \A p \in Proc : task'[p] = Idle
          /\ task' \in [Proc -> Task]
          /\ lost' = lost \cup UNION {Pending(task[p]) : p \in Proc}
          /\ faults < MaxFaults /\ faults' = faults + 1
          /\ UNCHANGED <<orderVars, rowVars, deviceVars, callVars, pushed>>
      BY <1>4, EndsByCrash
    <2>2. \A p \in Proc : Pending(task[p]) \subseteq Call \X Role
      BY PendingParties DEF TypeInv, TypeOK
    <2>3. lost' \subseteq Call \X Role
      BY <2>1, <2>2 DEF TypeInv, TypeOK
    <2>4. faults' \in 0..MaxFaults
      BY <2>1, BoundAssumption DEF TypeInv, TypeOK
    <2>5. CallsBegun'
      BY <2>1 DEF TypeInv, CallsBegun, rowVars, callVars
    <2> QED BY <2>1, <2>3, <2>4, <2>5
            DEF TypeInv, TypeOK, orderVars, rowVars, deviceVars, callVars
  <1> QED BY <1>1, <1>2, <1>3, <1>4, TypesByHappens, TypesBySend, UsersChangeLittle, TypesKept
          DEF Next

LEMMA TypesInit == Init => TypeInv
  <1>1. Init => TypeOK
    BY TasksMade, BoundAssumption DEF Init, TypeOK
  <1>2. Init => CallsBegun
    BY DEF Init, CallsBegun, Call
  <1> QED BY <1>1, <1>2 DEF TypeInv

\* Every variable keeps its type, and what handlers remember fits the await they
\* are at, for any orders, users, devices and bounds.
THEOREM TypeCorrect == Spec => []TypeOK
  <1>1. TypeInv => TypeOK
    BY DEF TypeInv
  <1> QED BY <1>1, TypesInit, TypesByNext, PTL DEF Spec

-----------------------------------------------------------------------------
(* How a step changes the sends that are under way.                        *)

LEMMA TodoByContinue ==
    ASSUME NEW p \in Proc, NEW n, NEW todo, Continues(p, n, todo)
    PROVE  /\ Todo(p)' = todo
           /\ todo # {} => task'[p] # Idle /\ task'[p].call = n
           /\ task'[p].pc # "read"
           /\ \A q \in Proc : q # p => Todo(q)' = Todo(q) /\ task'[q] = task[q]
  <1>1. task'[p] = Telling("send", n, todo) \/ (task'[p] = Idle /\ todo = {})
    BY DEF Continues
  <1>2. Todo(p)' = todo /\ task'[p].pc # "read"
    BY <1>1, TellingParts DEF Todo, Idle
  <1>3. \A q \in Proc : q # p => Todo(q)' = Todo(q) /\ task'[q] = task[q]
    BY DEF Continues, Todo
  <1> QED BY <1>1, <1>2, <1>3, TellingParts DEF Continues

\* an event reaches an idle slot: it has nothing to send yet
TakesOn(p, n) ==
    /\ n = calls + 1 /\ n \in Call
    /\ happened'[n] \in Happening
    /\ \A m \in Call : m <= calls => happened'[m] = happened[m]
    /\ \A m \in Call : m # n => happened'[m] = happened[m]
    /\ Todo(p) = {} /\ Todo(p)' = {}
    /\ task[p] = Idle
    /\ task'[p] # Idle /\ task'[p].pc = "read" /\ task'[p].call = n
    /\ \A q \in Proc : q # p => task'[q] = task[q] /\ Todo(q)' = Todo(q)
    /\ UNCHANGED <<rowVars, deviceVars, lost, pushed, faults>>

LEMMA TakenOn ==
    ASSUME TypeInv, NEW p \in Proc, NEW event \in OwnerEvents \cup RiderEvents,
           NEW o \in Order \cup {NoOrder}, NEW u \in User, NEW r \in Rider \cup {NoUser},
           Tell(p, event, o, u, r)
    PROVE  /\ TakesOn(p, calls + 1)
           /\ happened'[calls + 1].event = event
           /\ happened'[calls + 1].order = o
           /\ happened'[calls + 1].rider = r
  <1>1. /\ calls + 1 \in Call
        /\ happened'[calls + 1] = [event |-> event, order |-> o, owner |-> u, rider |-> r]
        /\ \A n \in Call : n <= calls => happened'[n] = happened[n]
        /\ task[p] = Idle /\ task'[p] = Telling("read", calls + 1, {})
        /\ \A q \in Proc : q # p => task'[q] = task[q]
        /\ UNCHANGED <<rowVars, deviceVars, lost, pushed, faults>>
    BY TypesByTell
  <1>2. happened'[calls + 1] \in Happening
    BY <1>1 DEF Happening
  <1>3. Todo(p) = {} /\ Todo(p)' = {}
    BY <1>1, TellingParts DEF Todo, Idle
  <1>4. \A m \in Call : m # calls + 1 => happened'[m] = happened[m]
    BY DEF Tell, TypeInv, TypeOK
  <1> QED BY <1>1, <1>2, <1>3, <1>4, TellingParts DEF TakesOn, Todo

-----------------------------------------------------------------------------
(* Who is told.                                                            *)

Told(n, as, u) == <<as, u>> \in Parties(happened[n]) \/ (as = "rider" /\ n \in moved)

\* The order of a call that has yet to read it is still with the rider of the event.
ReadsSoon(p) ==
    LET h == happened[task[p].call] IN
    task[p].pc = "read" /\ h.event \in RiderEvents /\ task[p].call \notin moved =>
        h.order \in Order /\ h.order # NoOrder /\ riderId[h.order] = h.rider

SendsAreDue(p) == \A s \in Todo(p) : Told(task[p].call, s.as, s.to)

ConcernInv ==
    /\ \A p \in Proc : ReadsSoon(p) /\ SendsAreDue(p)
    /\ ToldWereConcerned

LEMMA PartyOrNot ==
    ASSUME NEW h, NEW as, NEW u
    PROVE  <<as, u>> \in Parties(h) <=>
             \/ as = "owner" /\ u = h.owner /\ u # NoUser /\ h.event \in OwnerEvents
             \/ as = "rider" /\ u = h.rider /\ u # NoUser /\ h.event \in RiderEvents
    BY DEF Parties

\* what calls in flight and rows are about stays as it is
LEMMA ConcernFrame ==
    ASSUME TypeInv, ConcernInv, moved \subseteq moved',
           \A n \in Call : n <= calls => happened'[n] = happened[n]
    PROVE  /\ \A n \in Call : \A as, u : n <= calls /\ Told(n, as, u) => Told(n, as, u)'
           /\ \A row \in rows : Told(row.call, row.as, row.to)'
           /\ \A p \in Proc : task'[p] = task[p] =>
                /\ SendsAreDue(p)'
                /\ UNCHANGED riderId => ReadsSoon(p)'
  <1>1. \A n \in Call : \A as, u : n <= calls /\ Told(n, as, u) => Told(n, as, u)'
    BY DEF Told, Parties
  <1>2. \A row \in rows : row.call \in Call /\ row.call <= calls
    BY DEF TypeInv, TypeOK, CallsBegun, Row
  <1>3. \A row \in rows : Told(row.call, row.as, row.to)
    BY DEF ConcernInv, ToldWereConcerned, Told
  <1>4. ASSUME NEW p \in Proc, task'[p] = task[p]
        PROVE  SendsAreDue(p)' /\ (UNCHANGED riderId => ReadsSoon(p)')
    <2>1. CASE task[p] = Idle
      BY <1>4, <2>1 DEF SendsAreDue, ReadsSoon, Todo, Idle
    <2>2. CASE task[p] # Idle
      <3>1. task[p].call \in Call /\ task[p].call <= calls
        BY <2>2, TaskCases DEF TypeInv, TypeOK, CallsBegun
      <3>2. SendsAreDue(p) /\ ReadsSoon(p)
        BY DEF ConcernInv
      <3>3. Todo(p)' = Todo(p)
        BY <1>4 DEF Todo
      <3> QED BY <1>1, <1>4, <3>1, <3>2, <3>3 DEF SendsAreDue, ReadsSoon
    <2> QED BY <2>1, <2>2
  <1> QED BY <1>1, <1>2, <1>3, <1>4

LEMMA ConcernByTaking ==
    ASSUME TypeInv, ConcernInv, NEW p \in Proc, NEW n, TakesOn(p, n),
           moved \subseteq moved', ReadsSoon(p)',
           \A q \in Proc : q # p => ReadsSoon(q)'
    PROVE  ConcernInv'
  <1>1. /\ \A m \in Call : m <= calls => happened'[m] = happened[m]
        /\ UNCHANGED rows /\ Todo(p)' = {}
        /\ \A q \in Proc : q # p => task'[q] = task[q]
    BY DEF TakesOn, rowVars
  <1>2. /\ \A row \in rows : Told(row.call, row.as, row.to)'
        /\ \A q \in Proc : q # p => SendsAreDue(q)'
    BY <1>1, ConcernFrame
  <1>3. ToldWereConcerned'
    BY <1>1, <1>2 DEF ToldWereConcerned, Told
  <1>4. SendsAreDue(p)'
    BY <1>1 DEF SendsAreDue
  <1> QED BY <1>2, <1>3, <1>4 DEF ConcernInv

\* when an order changes hands, calls that have yet to read it are moved
LEMMA ReadsSoonIfGiven ==
    ASSUME TypeInv, ConcernInv, NEW o \in Order, NEW r \in Rider, GiveTo(o, r),
           \A m \in Call : m <= calls => happened'[m] = happened[m],
           NEW q \in Proc, task'[q] = task[q]
    PROVE  ReadsSoon(q)'
  <1>1. /\ moved \subseteq moved'
        /\ \A n \in Order : n # o => riderId'[n] = riderId[n]
        /\ task[q].pc = "read" /\ happened[task[q].call].order = o => task[q].call \in moved'
    BY GivenToRider
  <1>2. ReadsSoon(q)
    BY DEF ConcernInv
  <1>3. CASE task[q].pc # "read"
    BY <1>3 DEF ReadsSoon
  <1>4. CASE task[q].pc = "read"
    <2>1. task[q].call \in Call /\ task[q].call <= calls
      BY <1>4, TaskCases DEF TypeInv, TypeOK, CallsBegun
    <2>2. happened'[task[q].call] = happened[task[q].call]
      BY <2>1
    <2> QED BY <1>1, <1>2, <2>2 DEF ReadsSoon
  <1> QED BY <1>3, <1>4

LEMMA ConcernByHappens ==
    ASSUME TypeInv, ConcernInv, NEW p \in Proc, Happens(p)
    PROVE  ConcernInv'
  <1> DEFINE n == calls + 1
  <1>1. ASSUME NEW m, TakesOn(p, m), UNCHANGED <<riderId, moved>>, ReadsSoon(p)'
        PROVE  ConcernInv'
    <2>1. \A q \in Proc : q # p => ReadsSoon(q)'
      BY <1>1, ConcernFrame DEF TakesOn
    <2> QED BY <1>1, <2>1, ConcernByTaking
  <1>2. CASE \E o \in Order : Place(p, o)
    <2>1. PICK o \in Order : Place(p, o)
      BY <1>2
    <2>2. Tell(p, "PENDING", o, customer[o], NoUser) /\ customer[o] \in User
      BY <2>1, CustomerAssumption DEF Place
    <2>3. "PENDING" \in OwnerEvents \cup RiderEvents /\ "PENDING" \notin RiderEvents
      BY DEF OwnerEvents, RiderEvents
    <2>4. TakesOn(p, n) /\ happened'[n].event = "PENDING"
      BY <2>2, <2>3, TakenOn
    <2>5. ReadsSoon(p)'
      BY <2>3, <2>4 DEF ReadsSoon, TakesOn
    <2> QED BY <1>1, <2>1, <2>4, <2>5 DEF Place
  <1>3. CASE \E o \in Order, r \in Rider : Assign(p, o, r)
    <2>1. PICK o \in Order, r \in Rider : Assign(p, o, r)
      BY <1>3
    <2>2. Tell(p, "ASSIGNED", o, customer[o], r) /\ customer[o] \in User /\ GiveTo(o, r)
      BY <2>1, CustomerAssumption DEF Assign
    <2>3. "ASSIGNED" \in OwnerEvents \cup RiderEvents
      BY DEF OwnerEvents
    <2>4. TakesOn(p, n) /\ happened'[n].order = o /\ happened'[n].rider = r
      BY <2>2, <2>3, TakenOn
    <2>5. moved \subseteq moved' /\ riderId'[o] = r
      BY <2>2, GivenToRider
    <2>6. ReadsSoon(p)'
      BY <2>4, <2>5, NoneAssumption DEF ReadsSoon, TakesOn
    <2>7. \A q \in Proc : q # p => ReadsSoon(q)'
      BY <2>2, <2>4, ReadsSoonIfGiven DEF TakesOn
    <2> QED BY <2>4, <2>5, <2>6, <2>7, ConcernByTaking
  <1>4. CASE \E o \in Order, event \in Reported : Report(p, event, o)
    <2>1. PICK o \in Order, event \in Reported : Report(p, event, o)
      BY <1>4
    <2>2. Tell(p, event, o, customer[o], riderId[o])
      BY <2>1 DEF Report
    <2>3. event \in OwnerEvents \cup RiderEvents
      BY DEF Reported, OwnerEvents, RiderEvents
    <2>4. customer[o] \in User /\ riderId[o] \in Rider \cup {NoUser}
      BY CustomerAssumption DEF TypeInv, TypeOK
    <2>5. TakesOn(p, n) /\ happened'[n].order = o /\ happened'[n].rider = riderId[o]
      BY <2>2, <2>3, <2>4, TakenOn
    <2>6. UNCHANGED <<riderId, moved>>
      BY <2>1 DEF Report, orderVars
    <2>7. ReadsSoon(p)'
      BY <2>5, <2>6, NoneAssumption DEF ReadsSoon, TakesOn
    <2> QED BY <1>1, <2>5, <2>6, <2>7
  <1>5. CASE \E u \in User : Expire(p, u)
    <2>1. PICK u \in User : Expire(p, u)
      BY <1>5
    <2>2. Tell(p, "EXPIRED", NoOrder, u, NoUser)
      BY <2>1 DEF Expire
    <2>3. "EXPIRED" \in OwnerEvents \cup RiderEvents /\ "EXPIRED" \notin RiderEvents
      BY DEF OwnerEvents, RiderEvents
    <2>4. TakesOn(p, n) /\ happened'[n].event = "EXPIRED"
      BY <2>2, <2>3, TakenOn
    <2>5. ReadsSoon(p)'
      BY <2>3, <2>4 DEF ReadsSoon, TakesOn
    <2> QED BY <1>1, <2>1, <2>4, <2>5 DEF Expire, orderVars
  <1> QED BY <1>2, <1>3, <1>4, <1>5, HappensCases

LEMMA ConcernByContinue ==
    ASSUME TypeInv, ConcernInv, NEW p \in Proc, NEW n, NEW todo, Continues(p, n, todo),
           UNCHANGED <<orderVars, callVars>>,
           \A s \in todo : Told(n, s.as, s.to),
           \A row \in rows' : row \notin rows => Told(row.call, row.as, row.to)
    PROVE  ConcernInv'
  <1>1. UNCHANGED <<riderId, moved, happened>>
    BY DEF orderVars, callVars
  <1>2. /\ Todo(p)' = todo /\ task'[p].pc # "read"
        /\ todo # {} => task'[p].call = n
        /\ \A q \in Proc : q # p => task'[q] = task[q]
    BY TodoByContinue
  <1>3. /\ \A row \in rows : Told(row.call, row.as, row.to)'
        /\ \A q \in Proc : q # p => SendsAreDue(q)' /\ ReadsSoon(q)'
    BY <1>1, <1>2, ConcernFrame
  <1>4. \A m, as, u : Told(m, as, u)' <=> Told(m, as, u)
    BY <1>1 DEF Told
  <1>5. ReadsSoon(p)' /\ SendsAreDue(p)'
    BY <1>2, <1>4 DEF ReadsSoon, SendsAreDue
  <1>6. \A row \in rows' : Told(row.call, row.as, row.to)'
    BY <1>3, <1>4
  <1>7. ToldWereConcerned'
    BY <1>6 DEF ToldWereConcerned, Told
  <1> QED BY <1>3, <1>5, <1>7 DEF ConcernInv

LEMMA ConcernBySend ==
    ASSUME TypeInv, ConcernInv, NEW p \in Proc, NEW s \in Todo(p), SendStep(p, s)
    PROVE  ConcernInv'
  <1>1. /\ s \in Send /\ task[p].call \in Call /\ s \in task[p].todo
        /\ task[p].pc = "send"
    BY TodoOf
  <1>2. \A x \in task[p].todo : Told(task[p].call, x.as, x.to)
    BY <1>1 DEF ConcernInv, SendsAreDue, Todo
  <1>3. CASE CreateRow(p, s)
    <2>1. /\ s.step = "create"
          /\ Continues(p, task[p].call, (task[p].todo \ {s}) \cup {AtToken(s)})
          /\ rows' = rows \cup {RowOf(task[p].call, s)}
          /\ UNCHANGED <<orderVars, callVars>>
      BY <1>3, ContinuesByCreateRow
    <2>2. AtToken(s).as = s.as /\ AtToken(s).to = s.to
      BY <1>1, <2>1, SendSteps
    <2>3. \A x \in (task[p].todo \ {s}) \cup {AtToken(s)} : Told(task[p].call, x.as, x.to)
      BY <1>1, <1>2, <2>2
    <2>4. \A row \in rows' : row \notin rows => Told(row.call, row.as, row.to)
      BY <1>1, <1>2, <2>1, RowsMade
    <2> QED BY <2>1, <2>3, <2>4, ConcernByContinue
  <1>4. CASE ReadToken(p, s)
    <2>1. UNCHANGED <<orderVars, callVars, rows>>
      BY <1>4, ContinuesByReadToken DEF rowVars
    <2>2. CASE Continues(p, task[p].call, task[p].todo \ {s})
      BY <1>2, <2>1, <2>2, ConcernByContinue
    <2>3. CASE /\ fcmToken[s.to] \in Device
               /\ Continues(p, task[p].call,
                            (task[p].todo \ {s}) \cup {AtPush(s, fcmToken[s.to])})
      <3> DEFINE u == AtPush(s, fcmToken[s.to])
      <3>1. u.as = s.as /\ u.to = s.to
        BY <1>1, <2>3, SendSteps
      <3> HIDE DEF u
      <3>2. \A x \in (task[p].todo \ {s}) \cup {u} : Told(task[p].call, x.as, x.to)
        BY <1>1, <1>2, <3>1
      <3>3. Continues(p, task[p].call, (task[p].todo \ {s}) \cup {u})
        BY <2>3 DEF u
      <3> QED BY <2>1, <3>2, <3>3, ConcernByContinue
    <2> QED BY <1>4, <2>2, <2>3, ContinuesByReadToken
  <1>5. CASE SendFcm(p, s)
    <2>1. /\ UNCHANGED <<orderVars, callVars, rows>>
          /\ Continues(p, task[p].call, task[p].todo \ {s})
      BY <1>5, ContinuesBySendFcm DEF rowVars
    <2> QED BY <1>2, <2>1, ConcernByContinue
  <1>6. CASE FailToSend(p, s)
    <2>1. /\ UNCHANGED <<orderVars, callVars, rows>>
          /\ Continues(p, task[p].call, task[p].todo \ {s})
      BY <1>6, ContinuesByFailToSend DEF rowVars
    <2> QED BY <1>2, <2>1, ConcernByContinue
  <1> QED BY <1>3, <1>4, <1>5, <1>6 DEF SendStep

LEMMA ConcernByReadOrder ==
    ASSUME TypeInv, ConcernInv, NEW p \in Proc, ReadOrder(p)
    PROVE  ConcernInv'
  <1> DEFINE n == task[p].call
             h == happened[n]
  <1>1. /\ Continues(p, n, Recipients(h))
        /\ task[p].pc = "read" /\ h \in Happening \cup {Nothing} /\ h # Nothing
        /\ UNCHANGED <<orderVars, rowVars, callVars>>
    BY ContinuesByReadOrder
  <1>2. h.event \in RiderEvents /\ n \notin moved => RiderNow(h) = h.rider
    <2>1. ReadsSoon(p)
      BY DEF ConcernInv
    <2> QED BY <1>1, <2>1 DEF ReadsSoon, RiderNow
  <1>3. \A s \in Recipients(h) :
          \/ s.as = "owner" /\ s.to = h.owner /\ h.event \in OwnerEvents
          \/ /\ s.as = "rider" /\ s.to = RiderNow(h)
             /\ h.event \in RiderEvents /\ s.to # NoUser
    BY <1>1, RecipientsOf DEF TypeInv
  <1>4. h.owner # NoUser
    BY <1>1, Happenings, UserAssumption
  <1> HIDE DEF h
  <1>5. \A s \in Recipients(h) : <<s.as, s.to>> \in Parties(h) \/ (s.as = "rider" /\ n \in moved)
    BY <1>2, <1>3, <1>4, PartyOrNot
  <1>6. \A s \in Recipients(h) : Told(n, s.as, s.to)
    BY <1>5 DEF Told, h
  <1> QED BY <1>1, <1>6, ConcernByContinue DEF rowVars

LEMMA ConcernKept ==
    ASSUME TypeInv, ConcernInv, UNCHANGED <<orderVars, rows, callVars, task>>
    PROVE  ConcernInv'
  <1>1. UNCHANGED <<riderId, moved, rows, happened, task>>
    BY DEF orderVars, callVars
  <1>2. /\ \A row \in rows : Told(row.call, row.as, row.to)'
        /\ \A p \in Proc : SendsAreDue(p)' /\ ReadsSoon(p)'
    BY <1>1, ConcernFrame
  <1>3. ToldWereConcerned'
    BY <1>1, <1>2 DEF ToldWereConcerned, Told
  <1> QED BY <1>2, <1>3 DEF ConcernInv

LEMMA ConcernByNext ==
    ASSUME TypeInv, ConcernInv, [Next]_vars
    PROVE  ConcernInv'
  <1>1. CASE \E p \in Proc : FailToRead(p)
    <2>1. PICK p \in Proc : FailToRead(p)
      BY <1>1
    <2>2. Continues(p, task[p].call, {}) /\ UNCHANGED <<orderVars, rows, callVars>>
      BY <2>1, ContinuesByFailToRead DEF rowVars
    <2> QED BY <2>2, ConcernByContinue
  <1>2. CASE \E o \in Order, r \in Rider : Reassign(o, r)
    <2>1. PICK o \in Order, r \in Rider : Reassign(o, r)
      BY <1>2
    <2>2. GiveTo(o, r) /\ UNCHANGED <<rows, happened, task>>
      BY <2>1 DEF Reassign, rowVars, callVars
    <2>3. moved \subseteq moved'
      BY <2>2, GivenToRider
    <2>4. /\ \A row \in rows : Told(row.call, row.as, row.to)'
          /\ \A p \in Proc : SendsAreDue(p)'
      BY <2>2, <2>3, ConcernFrame
    <2>5. \A p \in Proc : ReadsSoon(p)'
      BY <2>2, ReadsSoonIfGiven
    <2>6. ToldWereConcerned'
      BY <2>2, <2>4 DEF ToldWereConcerned, Told
    <2> QED BY <2>4, <2>5, <2>6 DEF ConcernInv
  <1>3. CASE Crash
    <2>1. /\ \A p \in Proc : task'[p] = Idle
          /\ UNCHANGED <<orderVars, rows, callVars>>
      BY <1>3, EndsByCrash DEF rowVars
    <2>2. \A p \in Proc : SendsAreDue(p)' /\ ReadsSoon(p)'
      BY <2>1 DEF SendsAreDue, ReadsSoon, Todo, Idle
    <2>3. UNCHANGED <<moved, rows, happened>>
      BY <2>1 DEF orderVars, callVars
    <2>4. ToldWereConcerned'
      BY <2>3 DEF ConcernInv, ToldWereConcerned
    <2> QED BY <2>2, <2>4 DEF ConcernInv
  <1>4. CASE \E u \in User : UserDoes(u)
    BY <1>4, UsersChangeLittle, ConcernKept
  <1>5. CASE UNCHANGED vars
    BY <1>5, ConcernKept DEF vars, rowVars
  <1> QED
    BY <1>1, <1>2, <1>3, <1>4, <1>5, ConcernByHappens, ConcernBySend, ConcernByReadOrder
    DEF Next

LEMMA ConcernInit == Init => ConcernInv
    BY DEF Init, ConcernInv, ReadsSoon, SendsAreDue, Todo, ToldWereConcerned, Idle

\* However late a call reads its order, and whatever fails, nobody is told what
\* concerns somebody else, unless the order changed hands in between.
THEOREM ToldTheRightOnes == Spec => []ToldWereConcerned
  <1>1. TypeInv /\ ConcernInv => ToldWereConcerned
    BY DEF ConcernInv
  <1>2. Init => TypeInv /\ ConcernInv
    BY TypesInit, ConcernInit
  <1>3. TypeInv /\ ConcernInv /\ [Next]_vars => (TypeInv /\ ConcernInv)'
    BY TypesByNext, ConcernByNext
  <1> QED BY <1>1, <1>2, <1>3, PTL DEF Spec

-----------------------------------------------------------------------------
(* Pushes, and what is read.                                               *)

\* a send is past its row, and knows a device its addressee has registered
Announces(n, s) ==
    /\ s.step # "create" => RowOf(n, s) \in rows
    /\ s.step = "push" => <<s.to, s.device>> \in registered

SendsAnnounce(p) == \A s \in Todo(p) : Announces(task[p].call, s)

PushInv ==
    /\ \A u \in User : fcmToken[u] # NoDevice => <<u, fcmToken[u]>> \in registered
    /\ \A p \in Proc : SendsAnnounce(p)
    /\ PushesAreOfRows

LEMMA AnnouncesFrame ==
    ASSUME rows \subseteq rows', registered \subseteq registered', NEW n, NEW s, Announces(n, s)
    PROVE  Announces(n, s)'
    BY DEF Announces, RowOf

LEMMA PushByTasks ==
    ASSUME PushInv, rows \subseteq rows', UNCHANGED <<deviceVars, pushed>>, NEW p \in Proc,
           \A q \in Proc : q # p => task'[q] = task[q] /\ Todo(q)' = Todo(q),
           SendsAnnounce(p)'
    PROVE  PushInv'
  <1>1. \A q \in Proc : q # p => SendsAnnounce(q)'
    BY AnnouncesFrame DEF PushInv, SendsAnnounce, deviceVars
  <1>2. \A q \in Proc : SendsAnnounce(q)'
    BY <1>1
  <1>3. PushesAreOfRows'
    BY DEF PushInv, PushesAreOfRows, deviceVars
  <1> QED BY <1>2, <1>3 DEF PushInv, deviceVars

LEMMA PushByContinue ==
    ASSUME PushInv, NEW p \in Proc, NEW n, NEW todo, Continues(p, n, todo),
           rows \subseteq rows', UNCHANGED <<deviceVars, pushed>>,
           \A s \in todo : Announces(n, s)'
    PROVE  PushInv'
  <1>1. /\ Todo(p)' = todo
        /\ todo # {} => task'[p].call = n
        /\ \A q \in Proc : q # p => task'[q] = task[q] /\ Todo(q)' = Todo(q)
    BY TodoByContinue
  <1>2. SendsAnnounce(p)'
    BY <1>1 DEF SendsAnnounce
  <1> QED BY <1>1, <1>2, PushByTasks

LEMMA PushBySend ==
    ASSUME TypeInv, PushInv, NEW p \in Proc, NEW s \in Todo(p), SendStep(p, s)
    PROVE  PushInv'
  <1> PICK n : n = task[p].call
    OBVIOUS
  <1>1. s \in Send /\ n \in Call /\ s \in task[p].todo /\ task[p].pc = "send" /\ s.to \in User
    BY TodoOf, SendSteps
  <1>2. \A x \in task[p].todo : Announces(n, x)
    BY <1>1 DEF PushInv, SendsAnnounce, Todo
  <1>3. CASE CreateRow(p, s)
    <2>1. /\ s.step = "create" /\ rows' = rows \cup {RowOf(n, s)}
          /\ Continues(p, n, (task[p].todo \ {s}) \cup {AtToken(s)})
          /\ UNCHANGED <<deviceVars, pushed>>
      BY <1>3, ContinuesByCreateRow
    <2>2. /\ AtToken(s).as = s.as /\ AtToken(s).to = s.to
          /\ AtToken(s).step = "token"
      BY <1>1, <2>1, SendSteps
    <2>3. RowOf(n, AtToken(s)) = RowOf(n, s)
      BY <2>2 DEF RowOf
    <2>4. Announces(n, AtToken(s))'
      BY <2>1, <2>2, <2>3 DEF Announces, RowOf
    <2>5. \A x \in (task[p].todo \ {s}) \cup {AtToken(s)} : Announces(n, x)'
      BY <1>2, <2>1, <2>4, AnnouncesFrame DEF deviceVars
    <2> QED BY <2>1, <2>5, PushByContinue
  <1>4. CASE ReadToken(p, s)
    <2>1. s.step = "token" /\ UNCHANGED <<deviceVars, pushed, rows>>
      BY <1>4, ContinuesByReadToken DEF rowVars
    <2>2. \A x \in task[p].todo : Announces(n, x)'
      BY <1>2, <2>1, AnnouncesFrame DEF deviceVars
    <2>3. CASE Continues(p, n, task[p].todo \ {s})
      BY <2>1, <2>2, <2>3, PushByContinue
    <2>4. CASE /\ fcmToken[s.to] \in Device
               /\ Continues(p, n, (task[p].todo \ {s}) \cup {AtPush(s, fcmToken[s.to])})
      <3> DEFINE u == AtPush(s, fcmToken[s.to])
      <3>1. u.as = s.as /\ u.to = s.to /\ u.step = "push" /\ u.device = fcmToken[s.to]
        BY <1>1, <2>4, SendSteps
      <3> HIDE DEF u
      <3>2. RowOf(n, u) = RowOf(n, s)
        BY <3>1 DEF RowOf
      <3>3. RowOf(n, s) \in rows
        BY <1>1, <1>2, <2>1 DEF Announces
      <3>4. <<s.to, fcmToken[s.to]>> \in registered
        BY <1>1, <2>4, NoneAssumption DEF PushInv
      <3>5. Announces(n, u)
        BY <3>1, <3>2, <3>3, <3>4 DEF Announces
      <3>6. \A x \in (task[p].todo \ {s}) \cup {u} : Announces(n, x)'
        BY <2>1, <2>2, <3>5, AnnouncesFrame DEF deviceVars
      <3>7. Continues(p, n, (task[p].todo \ {s}) \cup {u})
        BY <2>4 DEF u
      <3> QED BY <2>1, <3>6, <3>7, PushByContinue
    <2> QED BY <1>4, <2>3, <2>4, ContinuesByReadToken
  <1>5. CASE SendFcm(p, s)
    <2>1. /\ s.step = "push" /\ Continues(p, n, task[p].todo \ {s})
          /\ UNCHANGED <<deviceVars, rows>>
          /\ \/ pushed' = pushed \cup {[row |-> RowOf(n, s), device |-> s.device]}
             \/ UNCHANGED pushed
      BY <1>5, ContinuesBySendFcm DEF rowVars
    <2>2. RowOf(n, s) \in rows /\ <<s.to, s.device>> \in registered /\ RowOf(n, s).to = s.to
      BY <1>1, <1>2, <2>1, RowsMade DEF Announces
    <2>3. PushesAreOfRows'
      <3> DEFINE z == [row |-> RowOf(n, s), device |-> s.device]
      <3>1. z.row = RowOf(n, s) /\ z.device = s.device
        OBVIOUS
      <3>2. \A x \in pushed' : x \in pushed \/ x = z
        BY <2>1
      <3> HIDE DEF z
      <3>3. \A x \in pushed' : x.row \in rows /\ <<x.row.to, x.device>> \in registered
        BY <2>2, <3>1, <3>2 DEF PushInv, PushesAreOfRows
      <3> QED BY <2>1, <3>3 DEF PushesAreOfRows, deviceVars
    <2>4. \A x \in task[p].todo \ {s} : Announces(n, x)'
      BY <1>2, <2>1, AnnouncesFrame DEF deviceVars
    <2>5. /\ Todo(p)' = task[p].todo \ {s}
          /\ task[p].todo \ {s} # {} => task'[p].call = n
          /\ \A q \in Proc : q # p => task'[q] = task[q] /\ Todo(q)' = Todo(q)
      BY <2>1, TodoByContinue
    <2>6. \A q \in Proc : q # p => SendsAnnounce(q)'
      BY <2>1, <2>5, AnnouncesFrame DEF PushInv, SendsAnnounce, deviceVars
    <2>7. SendsAnnounce(p)'
      BY <2>4, <2>5 DEF SendsAnnounce
    <2>8. \A q \in Proc : SendsAnnounce(q)'
      BY <2>6, <2>7
    <2> QED BY <2>1, <2>3, <2>8 DEF PushInv, deviceVars
  <1>6. CASE FailToSend(p, s)
    <2>1. /\ Continues(p, n, task[p].todo \ {s})
          /\ UNCHANGED <<deviceVars, rows, pushed>>
      BY <1>6, ContinuesByFailToSend DEF rowVars
    <2>2. \A x \in task[p].todo \ {s} : Announces(n, x)'
      BY <1>2, <2>1, AnnouncesFrame DEF deviceVars
    <2> QED BY <2>1, <2>2, PushByContinue
  <1> QED BY <1>3, <1>4, <1>5, <1>6 DEF SendStep

LEMMA HappensTakesOn ==
    ASSUME TypeInv, NEW p \in Proc, Happens(p)
    PROVE  TakesOn(p, calls + 1) /\ moved \subseteq moved'
  <1>1. \A o \in Order : customer[o] \in User /\ riderId[o] \in Rider \cup {NoUser}
    BY CustomerAssumption DEF TypeInv, TypeOK
  <1>2. \A event \in {"PENDING", "ASSIGNED", "CANCELLED", "NO_RIDERS", "PAYMENT_CAPTURED",
                      "EXPIRED"} : event \in OwnerEvents \cup RiderEvents
    BY DEF OwnerEvents, RiderEvents
  <1>3. ASSUME NEW o \in Order, Place(p, o) PROVE TakesOn(p, calls + 1) /\ moved \subseteq moved'
    <2>1. Tell(p, "PENDING", o, customer[o], NoUser) /\ UNCHANGED moved
      BY <1>3 DEF Place
    <2> QED BY <1>1, <1>2, <2>1, TakenOn
  <1>4. ASSUME NEW o \in Order, NEW r \in Rider, Assign(p, o, r)
        PROVE  TakesOn(p, calls + 1) /\ moved \subseteq moved'
    <2>1. Tell(p, "ASSIGNED", o, customer[o], r) /\ GiveTo(o, r)
      BY <1>4 DEF Assign
    <2> QED BY <1>1, <1>2, <2>1, TakenOn, GivenToRider
  <1>5. ASSUME NEW o \in Order, NEW event \in Reported, Report(p, event, o)
        PROVE  TakesOn(p, calls + 1) /\ moved \subseteq moved'
    <2>1. Tell(p, event, o, customer[o], riderId[o])
      BY <1>5 DEF Report
    <2>2. UNCHANGED moved
      BY <1>5 DEF Report, orderVars
    <2> QED BY <1>1, <1>2, <2>1, <2>2, TakenOn DEF Reported
  <1>6. ASSUME NEW u \in User, Expire(p, u) PROVE TakesOn(p, calls + 1) /\ moved \subseteq moved'
    <2>1. Tell(p, "EXPIRED", NoOrder, u, NoUser) /\ UNCHANGED moved
      BY <1>6 DEF Expire, orderVars
    <2> QED BY <1>2, <2>1, TakenOn
  <1> QED BY <1>3, <1>4, <1>5, <1>6, HappensCases

LEMMA PushByNext ==
    ASSUME TypeInv, PushInv, [Next]_vars
    PROVE  PushInv'
  <1>1. CASE \E p \in Proc : Happens(p)
    <2>1. PICK p \in Proc : Happens(p)
      BY <1>1
    <2>2. TakesOn(p, calls + 1)
      BY <2>1, HappensTakesOn
    <2> QED BY <2>2, PushByTasks DEF TakesOn, SendsAnnounce, rowVars
  <1>2. CASE \E p \in Proc : ReadOrder(p)
    <2>1. PICK p \in Proc : ReadOrder(p)
      BY <1>2
    <2> PICK n, h : n = task[p].call /\ h = happened[n]
      OBVIOUS
    <2>2. /\ Continues(p, n, Recipients(h)) /\ UNCHANGED <<deviceVars, pushed, rows>>
          /\ h \in Happening \cup {Nothing} /\ h # Nothing
      BY <2>1, ContinuesByReadOrder DEF rowVars
    <2>3. \A s \in Recipients(h) : s.step = "create"
      BY <2>2, RecipientsOf DEF TypeInv
    <2>4. \A s \in Recipients(h) : Announces(n, s)'
      BY <2>3 DEF Announces
    <2> QED BY <2>2, <2>4, PushByContinue
  <1>3. CASE \E p \in Proc : FailToRead(p)
    <2>1. PICK p \in Proc : FailToRead(p)
      BY <1>3
    <2>2. Continues(p, task[p].call, {}) /\ UNCHANGED <<deviceVars, pushed, rows>>
      BY <2>1, ContinuesByFailToRead DEF rowVars
    <2> QED BY <2>2, PushByContinue
  <1>4. CASE Crash
    <2>1. /\ \A p \in Proc : task'[p] = Idle
          /\ UNCHANGED <<deviceVars, pushed, rows>>
      BY <1>4, EndsByCrash DEF rowVars
    <2>2. \A p \in Proc : Todo(p)' = {}
      BY <2>1 DEF Todo, Idle
    <2> QED BY <2>1, <2>2 DEF PushInv, SendsAnnounce, PushesAreOfRows, deviceVars
  <1>5. ASSUME UNCHANGED <<rows, deviceVars, task, pushed>>
        PROVE  PushInv'
    BY <1>5 DEF PushInv, PushesAreOfRows, SendsAnnounce, Announces, Todo, deviceVars
  <1>6. CASE \E u \in User : UserDoes(u)
    <2>1. PICK u \in User : UserDoes(u)
      BY <1>6
    <2>2. UNCHANGED <<rows, task, pushed>> /\ registered \subseteq registered'
      BY <2>1, UsersChangeLittle
    <2>3. \A v \in User : fcmToken'[v] # NoDevice => <<v, fcmToken'[v]>> \in registered'
      <3>1. CASE UNCHANGED deviceVars
        BY <3>1 DEF PushInv, deviceVars
      <3>2. CASE \E d \in Device : UpdateFcmToken(u, d)
        BY <3>2 DEF UpdateFcmToken, PushInv, TypeInv, TypeOK
      <3> QED BY <2>1, <3>1, <3>2 DEF UserDoes, MarkAsRead, MarkAllAsRead, MarkRows
    <2>4. \A p \in Proc : SendsAnnounce(p)'
      BY <2>2, AnnouncesFrame DEF PushInv, SendsAnnounce, Todo
    <2>5. PushesAreOfRows'
      BY <2>2 DEF PushInv, PushesAreOfRows
    <2> QED BY <2>3, <2>4, <2>5 DEF PushInv
  <1>7. CASE \E o \in Order, r \in Rider : Reassign(o, r)
    BY <1>5, <1>7 DEF Reassign, rowVars
  <1>8. CASE UNCHANGED vars
    BY <1>5, <1>8 DEF vars, rowVars
  <1> QED BY <1>1, <1>2, <1>3, <1>4, <1>6, <1>7, <1>8, PushBySend DEF Next

LEMMA PushInit == Init => PushInv
    BY DEF Init, PushInv, SendsAnnounce, PushesAreOfRows, Todo, Idle

\* A push announces a notification that is stored, on a device that its addressee
\* has registered, however the sends of a call and registrations interleave.
THEOREM PushesAnnounceRows == Spec => []PushesAreOfRows
  <1>1. TypeInv /\ PushInv => PushesAreOfRows
    BY DEF PushInv
  <1>2. Init => TypeInv /\ PushInv
    BY TypesInit, PushInit
  <1>3. TypeInv /\ PushInv /\ [Next]_vars => (TypeInv /\ PushInv)'
    BY TypesByNext, PushByNext
  <1> QED BY <1>1, <1>2, <1>3, PTL DEF Spec

LEMMA ReadersKept ==
    ASSUME TypeInv, ReadByAddressee, [Next]_vars
    PROVE  ReadByAddressee'
  <1>1. ASSUME rows' \ unread' \subseteq rows \ unread, UNCHANGED readers
        PROVE  ReadByAddressee'
    BY <1>1 DEF ReadByAddressee
  <1>2. ASSUME UNCHANGED rowVars
        PROVE  ReadByAddressee'
    BY <1>1, <1>2 DEF rowVars
  <1>3. ASSUME NEW p \in Proc, NEW s \in Todo(p), SendStep(p, s)
        PROVE  ReadByAddressee'
    BY <1>1, <1>2, <1>3 DEF SendStep, CreateRow, ReadToken, SendFcm, FailToSend, Fault
  <1>4. ASSUME NEW p \in Proc, Happens(p) \/ ReadOrder(p) \/ FailToRead(p)
        PROVE  ReadByAddressee'
    BY <1>2, <1>4, HappensCases
       DEF Place, Report, Assign, Expire, Tell, ReadOrder, FailToRead, Fault
  <1>5. CASE \E o \in Order, r \in Rider : Reassign(o, r)
    BY <1>2, <1>5 DEF Reassign
  <1>6. CASE Crash
    BY <1>2, <1>6 DEF Crash, Fault
  <1>7. CASE UNCHANGED vars
    BY <1>2, <1>7 DEF vars
  <1> QED BY <1>3, <1>4, <1>5, <1>6, <1>7, UsersChangeLittle DEF Next

\* Only its addressee takes a notification out of the unread ones.
THEOREM OthersReadNothing == Spec => []ReadByAddressee
  <1>1. Init => TypeInv /\ ReadByAddressee
    BY TypesInit DEF Init, ReadByAddressee
  <1>2. TypeInv /\ ReadByAddressee /\ [Next]_vars => (TypeInv /\ ReadByAddressee)'
    BY TypesByNext, ReadersKept
  <1> QED BY <1>1, <1>2, PTL DEF Spec

-----------------------------------------------------------------------------
(* That parties are told.                                                  *)

\* the call of p is about to tell a party
WillTell(p, n, as, u) ==
    /\ task[p] # Idle
    /\ task[p].call = n
    /\ \/ task[p].pc = "read"
       \/ \E s \in Todo(p) : s.as = as /\ s.to = u /\ s.step = "create"

\* a party has been told, or is not told for one of the two reasons
IsTold(n, as, u) ==
    \/ [call |-> n, as |-> as, to |-> u] \in rows
    \/ <<n, as>> \in lost
    \/ (as = "rider" /\ n \in moved)

ToldInv ==
    \A n \in Call : happened[n] # Nothing =>
        \A x \in Parties(happened[n]) :
            IsTold(n, x[1], x[2]) \/ \E p \in Proc : WillTell(p, n, x[1], x[2])

LEMMA IsToldFrame ==
    ASSUME rows \subseteq rows', lost \subseteq lost', moved \subseteq moved',
           NEW n, NEW as, NEW u, IsTold(n, as, u)
    PROVE  IsTold(n, as, u)'
    BY DEF IsTold

LEMMA ToldByTaking ==
    ASSUME TypeInv, ToldInv, NEW p \in Proc, NEW n, TakesOn(p, n), moved \subseteq moved'
    PROVE  ToldInv'
  <1>1. /\ rows \subseteq rows' /\ lost \subseteq lost'
        /\ \A m \in Call : m # n => happened'[m] = happened[m]
        /\ task[p] = Idle
        /\ task'[p] # Idle /\ task'[p].pc = "read" /\ task'[p].call = n
        /\ \A q \in Proc : q # p => task'[q] = task[q] /\ Todo(q)' = Todo(q)
    BY DEF TakesOn, rowVars
  <1>2. \A as, u : WillTell(p, n, as, u)'
    BY <1>1 DEF WillTell
  <1>3. \A q \in Proc, m \in Call : \A as, u : WillTell(q, m, as, u) => WillTell(q, m, as, u)'
    BY <1>1 DEF WillTell
  <1>4. \A m \in Call : \A as, u : IsTold(m, as, u) => IsTold(m, as, u)'
    BY <1>1, IsToldFrame
  <1> QED BY <1>1, <1>2, <1>3, <1>4 DEF ToldInv

LEMMA ToldByContinue ==
    ASSUME TypeInv, ToldInv, NEW p \in Proc, NEW n, NEW todo, Continues(p, n, todo),
           UNCHANGED happened, rows \subseteq rows', lost \subseteq lost', moved \subseteq moved',
           \A x \in Parties(happened[n]) : WillTell(p, n, x[1], x[2]) =>
              \/ IsTold(n, x[1], x[2])'
              \/ \E s \in todo : s.as = x[1] /\ s.to = x[2] /\ s.step = "create"
    PROVE  ToldInv'
  <1>1. /\ Todo(p)' = todo
        /\ todo # {} => task'[p] # Idle /\ task'[p].call = n
        /\ \A q \in Proc : q # p => Todo(q)' = Todo(q) /\ task'[q] = task[q]
    BY TodoByContinue
  <1>2. \A as, u : (\E s \in todo : s.as = as /\ s.to = u /\ s.step = "create")
                     => WillTell(p, n, as, u)'
    BY <1>1 DEF WillTell
  <1>3. \A q \in Proc, m \in Call : \A as, u :
          q # p /\ WillTell(q, m, as, u) => WillTell(q, m, as, u)'
    BY <1>1 DEF WillTell
  <1>4. \A m \in Call : \A as, u : IsTold(m, as, u) => IsTold(m, as, u)'
    BY IsToldFrame
  <1>5. \A m \in Call : \A as, u : WillTell(p, m, as, u) => m = n
    BY DEF WillTell, Continues
  <1>6. ASSUME NEW m \in Call, happened[m] # Nothing, NEW x \in Parties(happened[m])
        PROVE  IsTold(m, x[1], x[2])' \/ \E q \in Proc : WillTell(q, m, x[1], x[2])'
    <2>1. CASE IsTold(m, x[1], x[2])
      BY <1>4, <2>1
    <2>2. CASE \E q \in Proc : q # p /\ WillTell(q, m, x[1], x[2])
      BY <1>3, <2>2
    <2>3. CASE WillTell(p, m, x[1], x[2])
      <3>1. m = n
        BY <1>5, <2>3
      <3> QED BY <1>2, <1>6, <2>3, <3>1
    <2> QED BY <1>6, <2>1, <2>2, <2>3 DEF ToldInv
  <1> QED BY <1>6 DEF ToldInv

LEMMA ToldBySend ==
    ASSUME TypeInv, ToldInv, NEW p \in Proc, NEW s \in Todo(p), SendStep(p, s)
    PROVE  ToldInv'
  <1> PICK n, todo : n = task[p].call /\ todo = task[p].todo
    OBVIOUS
  <1>1. /\ s \in Send /\ n \in Call /\ s \in todo /\ task[p].pc = "send"
        /\ Todo(p) = todo
    BY TodoOf DEF Todo
  <1>2. \A as, u : WillTell(p, n, as, u) =>
          \E x \in todo : x.as = as /\ x.to = u /\ x.step = "create"
    BY <1>1 DEF WillTell
  <1>3. ASSUME Continues(p, n, todo \ {s}), UNCHANGED <<happened, rows, moved>>,
               lost \subseteq lost', s.step # "create" \/ <<n, s.as>> \in lost'
        PROVE  ToldInv'
    <2>1. \A x \in Parties(happened[n]) : WillTell(p, n, x[1], x[2]) =>
              \/ IsTold(n, x[1], x[2])'
              \/ \E y \in todo \ {s} : y.as = x[1] /\ y.to = x[2] /\ y.step = "create"
      BY <1>2, <1>3 DEF IsTold
    <2> QED BY <1>3, <2>1, ToldByContinue
  <1>4. CASE CreateRow(p, s)
    <2>1. /\ Continues(p, n, (todo \ {s}) \cup {AtToken(s)})
          /\ rows' = rows \cup {RowOf(n, s)}
          /\ UNCHANGED <<happened, lost, moved>>
      BY <1>4, ContinuesByCreateRow DEF orderVars, callVars
    <2>2. \A x \in Parties(happened[n]) : WillTell(p, n, x[1], x[2]) =>
              \/ IsTold(n, x[1], x[2])'
              \/ \E y \in (todo \ {s}) \cup {AtToken(s)} :
                   y.as = x[1] /\ y.to = x[2] /\ y.step = "create"
      BY <1>2, <2>1 DEF IsTold, RowOf
    <2> QED BY <2>1, <2>2, ToldByContinue
  <1>5. CASE ReadToken(p, s)
    <2>1. s.step = "token" /\ UNCHANGED <<happened, rows, moved, lost>>
      BY <1>5, ContinuesByReadToken DEF orderVars, rowVars, callVars
    <2>2. CASE Continues(p, n, todo \ {s})
      BY <1>3, <2>1, <2>2
    <2>3. CASE Continues(p, n, (todo \ {s}) \cup {AtPush(s, fcmToken[s.to])})
      <3>1. \A x \in Parties(happened[n]) : WillTell(p, n, x[1], x[2]) =>
              \E y \in (todo \ {s}) \cup {AtPush(s, fcmToken[s.to])} :
                 y.as = x[1] /\ y.to = x[2] /\ y.step = "create"
        BY <1>2, <2>1
      <3> QED BY <2>1, <2>3, <3>1, ToldByContinue
    <2> QED BY <1>5, <2>2, <2>3, ContinuesByReadToken
  <1>6. CASE SendFcm(p, s)
    <2>1. s.step = "push" /\ Continues(p, n, todo \ {s}) /\ UNCHANGED <<happened, rows, moved, lost>>
      BY <1>6, ContinuesBySendFcm DEF orderVars, rowVars, callVars
    <2> QED BY <1>3, <2>1
  <1>7. CASE FailToSend(p, s)
    <2>1. /\ Continues(p, n, todo \ {s}) /\ lost' = lost \cup {<<n, s.as>>}
          /\ UNCHANGED <<happened, rows, moved>>
      BY <1>7, ContinuesByFailToSend DEF orderVars, rowVars, callVars
    <2> QED BY <1>3, <2>1
  <1> QED BY <1>4, <1>5, <1>6, <1>7 DEF SendStep

LEMMA ToldByReadOrder ==
    ASSUME TypeInv, ConcernInv, ToldInv, NEW p \in Proc, ReadOrder(p)
    PROVE  ToldInv'
  <1> PICK n, h : n = task[p].call /\ h = happened[n]
    OBVIOUS
  <1>1. /\ Continues(p, n, Recipients(h))
        /\ task[p].pc = "read" /\ h \in Happening \cup {Nothing} /\ h # Nothing
        /\ UNCHANGED <<happened, rows, lost, moved>>
    BY ContinuesByReadOrder DEF orderVars, rowVars, callVars
  <1>2. h.event \in RiderEvents /\ n \notin moved => RiderNow(h) = h.rider
    <2>1. ReadsSoon(p)
      BY DEF ConcernInv
    <2> QED BY <1>1, <2>1 DEF ReadsSoon, RiderNow
  <1>3. /\ RiderNow(h) \in Rider \cup {NoUser}
        /\ h.event \in OwnerEvents => NewSend("owner", h.owner) \in Recipients(h)
        /\ h.event \in RiderEvents /\ RiderNow(h) # NoUser =>
             NewSend("rider", RiderNow(h)) \in Recipients(h)
    BY <1>1, RecipientsOf DEF TypeInv
  <1>4. \A as, u : /\ NewSend(as, u).as = as /\ NewSend(as, u).to = u
                   /\ NewSend(as, u).step = "create"
    BY DEF NewSend
  <1>5. ASSUME NEW x \in Parties(h)
        PROVE  \/ IsTold(n, x[1], x[2])'
               \/ \E s \in Recipients(h) : s.as = x[1] /\ s.to = x[2] /\ s.step = "create"
    <2>1. \/ x = <<"owner", h.owner>> /\ h.event \in OwnerEvents
          \/ x = <<"rider", h.rider>> /\ h.event \in RiderEvents /\ h.rider # NoUser
      BY <1>5 DEF Parties
    <2>2. CASE x = <<"owner", h.owner>> /\ h.event \in OwnerEvents
      BY <1>3, <1>4, <2>2
    <2>3. CASE x = <<"rider", h.rider>> /\ h.event \in RiderEvents /\ h.rider # NoUser
      <3>1. CASE n \in moved
        BY <1>1, <2>3, <3>1 DEF IsTold
      <3>2. CASE n \notin moved
        BY <1>2, <1>3, <1>4, <2>3, <3>2
      <3> QED BY <3>1, <3>2
    <2> QED BY <2>1, <2>2, <2>3
  <1> QED BY <1>1, <1>5, ToldByContinue

\* a call that ends by a fault leaves its parties among the lost
LEMMA LostIfPending ==
    ASSUME TypeInv, NEW p \in Proc, NEW n, NEW as \in Role, NEW u, WillTell(p, n, as, u)
    PROVE  <<n, as>> \in Pending(task[p])
  <1>1. task[p] \in Task
    BY DEF TypeInv, TypeOK
  <1>2. CASE task[p].pc = "read"
    BY <1>1, <1>2, PendingParties DEF WillTell
  <1>3. CASE task[p].pc # "read"
    <2>1. task[p].pc = "send" /\ task[p].call = n
          /\ \E s \in task[p].todo : s.as = as /\ s.step = "create"
      BY <1>3 DEF WillTell, Todo
    <2> QED BY <1>1, <2>1, PendingParties
  <1> QED BY <1>2, <1>3

LEMMA PartiesHaveRoles ==
    ASSUME NEW h, NEW x \in Parties(h)
    PROVE  x[1] \in Role
    BY DEF Parties, Role

LEMMA ToldByNext ==
    ASSUME TypeInv, ConcernInv, ToldInv, [Next]_vars
    PROVE  ToldInv'
  <1>1. CASE \E p \in Proc : Happens(p)
    BY <1>1, HappensTakesOn, ToldByTaking
  <1>2. CASE \E p \in Proc : FailToRead(p)
    <2> PICK p \in Proc : FailToRead(p)
      BY <1>2
    <2> PICK n : n = task[p].call
      OBVIOUS
    <2>1. /\ Continues(p, n, {})
          /\ lost' = lost \cup Pending(task[p])
          /\ UNCHANGED <<happened, rows, moved>>
      BY ContinuesByFailToRead DEF orderVars, rowVars, callVars
    <2>2. \A x \in Parties(happened[n]) : WillTell(p, n, x[1], x[2]) => IsTold(n, x[1], x[2])'
      BY <2>1, LostIfPending, PartiesHaveRoles DEF IsTold
    <2> QED BY <2>1, <2>2, ToldByContinue
  <1>3. CASE Crash
    <2>1. /\ lost' = lost \cup UNION {Pending(task[p]) : p \in Proc}
          /\ UNCHANGED <<happened, rows, moved>>
      BY <1>3, EndsByCrash DEF orderVars, rowVars, callVars
    <2>2. ASSUME NEW n \in Call, happened[n] # Nothing, NEW x \in Parties(happened[n])
          PROVE  IsTold(n, x[1], x[2])'
      <3>1. CASE IsTold(n, x[1], x[2])
        BY <2>1, <3>1 DEF IsTold
      <3>2. CASE \E p \in Proc : WillTell(p, n, x[1], x[2])
        <4>1. PICK p \in Proc : WillTell(p, n, x[1], x[2])
          BY <3>2
        <4>2. <<n, x[1]>> \in Pending(task[p])
          BY <4>1, LostIfPending, PartiesHaveRoles
        <4> QED BY <2>1, <4>2 DEF IsTold
      <3> QED BY <2>2, <3>1, <3>2 DEF ToldInv
    <2> QED BY <2>1, <2>2 DEF ToldInv
  <1>4. ASSUME UNCHANGED <<happened, rows, lost, task>>, moved \subseteq moved'
        PROVE  ToldInv'
    BY <1>4 DEF ToldInv, IsTold, WillTell, Todo
  <1>5. CASE \E o \in Order, r \in Rider : Reassign(o, r)
    BY <1>4, <1>5, GivenToRider DEF Reassign, rowVars, callVars
  <1>6. CASE \E u \in User : UserDoes(u)
    BY <1>4, <1>6, UsersChangeLittle DEF orderVars, callVars
  <1>7. CASE UNCHANGED vars
    BY <1>4, <1>7 DEF vars, orderVars, rowVars, callVars
  <1> QED BY <1>1, <1>2, <1>3, <1>5, <1>6, <1>7, ToldBySend, ToldByReadOrder DEF Next

\* Whoever was concerned by an event has it in their list when its call is over,
\* whichever other send failed, unless the order changed hands in between.
THEOREM PartiesHearOfIt == Spec => []PartiesAreTold
  <1>1. ToldInv => PartiesAreTold
    BY DEF ToldInv, PartiesAreTold, Over, IsTold, WillTell
  <1>2. Init => TypeInv /\ ConcernInv /\ ToldInv
    BY TypesInit, ConcernInit DEF Init, ToldInv
  <1>3. TypeInv /\ ConcernInv /\ ToldInv /\ [Next]_vars => (TypeInv /\ ConcernInv /\ ToldInv)'
    BY TypesByNext, ConcernByNext, ToldByNext
  <1> QED BY <1>1, <1>2, <1>3, PTL DEF Spec
=============================================================================
