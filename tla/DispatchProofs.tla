--------------------------- MODULE DispatchProofs ---------------------------
(* Proofs of the safety properties of Dispatch, for every set of orders,   *)
(* riders and handlers.                                                    *)
EXTENDS Dispatch, TLAPS, FiniteSetTheorems, SequenceTheorems

USE RiderAssumption, NoneAssumption, TtlAssumption, BoundAssumption,
    FlagAssumption, OverrideAssumption

-----------------------------------------------------------------------------
(* Lemmas about the helpers.                                               *)

\* indexOf is 0 or a position of the list.
LEMMA IndexOfRange ==
    ASSUME NEW list \in Seq(Rider), NEW r
    PROVE  IndexOf(list, r) \in 0..Len(list)
BY LenProperties DEF IndexOf, ToSet

\* What riderRejected keeps of a list is a list of riders, a tail of it.
LEMMA RemainingIsTail ==
    ASSUME NEW list \in Seq(Rider), NEW r
    PROVE  /\ Remaining(list, r) \in Seq(Rider)
           /\ IsTailOf(Remaining(list, r), list)
<1> DEFINE i == IndexOf(list, r)
<1>1. i \in 0..Len(list) /\ Len(list) \in Nat
  BY IndexOfRange, LenProperties
<1>2. \A k \in (i + 1)..Len(list) : list[k] \in Rider
  BY <1>1, ElementOfSeq
<1>3. /\ SubSeq(list, i + 1, Len(list)) \in Seq(Rider)
      /\ Len(SubSeq(list, i + 1, Len(list))) = Len(list) - i
      /\ \A k \in 1..(Len(list) - i) :
           SubSeq(list, i + 1, Len(list))[k] = list[i + k]
  <2>1. /\ SubSeq(list, i + 1, Len(list)) \in Seq(Rider)
        /\ Len(SubSeq(list, i + 1, Len(list))) =
             IF i + 1 <= Len(list) THEN Len(list) - (i + 1) + 1 ELSE 0
        /\ \A k \in 1..(Len(list) - (i + 1) + 1) :
             SubSeq(list, i + 1, Len(list))[k] = list[(i + 1) + k - 1]
    BY <1>1, <1>2, SubSeqProperties
  <2> QED
    BY <1>1, <2>1
<1> QED
  BY <1>1, <1>3 DEF Remaining, IsTailOf

\* A tail of a tail is a tail.
LEMMA TailOfTail ==
    ASSUME NEW s \in Seq(Rider), NEW t \in Seq(Rider), NEW u \in Seq(Rider),
           IsTailOf(s, t), IsTailOf(t, u)
    PROVE  IsTailOf(s, u)
<1>1. Len(s) \in Nat /\ Len(t) \in Nat /\ Len(u) \in Nat
  BY LenProperties
<1>2. Len(s) <= Len(u)
  BY <1>1 DEF IsTailOf
<1>3. ASSUME NEW i \in 1..Len(s)
      PROVE  s[i] = u[Len(u) - Len(s) + i]
  <2>1. s[i] = t[Len(t) - Len(s) + i]
    BY DEF IsTailOf
  <2>2. Len(t) - Len(s) + i \in 1..Len(t)
    BY <1>1 DEF IsTailOf
  <2>3. t[Len(t) - Len(s) + i] = u[Len(u) - Len(t) + (Len(t) - Len(s) + i)]
    BY <2>2 DEF IsTailOf
  <2> QED
    BY <1>1, <2>1, <2>3
<1> QED
  BY <1>2, <1>3 DEF IsTailOf

\* findMatch ranks the eligible riders in a finite sequence of riders.
LEMMA RankingIsSeq ==
    ASSUME NEW S \in SUBSET Rider, NEW ranking \in SetToSeqs(S)
    PROVE  ranking \in Seq(S)
<1>1. IsFiniteSet(S)
  BY FS_Subset
<1>2. Cardinality(S) \in Nat
  BY <1>1, FS_CardinalityType
<1>3. ranking \in [1..Cardinality(S) -> S]
  BY DEF SetToSeqs
<1> QED
  BY <1>2, <1>3, SeqDef

\* Changing one number of jobs keeps timeouts a table of numbers.
LEMMA TimeoutsExcept ==
    ASSUME NEW f \in [Order -> [Rider -> [Delay -> Nat]]],
           NEW o \in Order, NEW r \in Rider, NEW d \in Delay, NEW n \in Nat
    PROVE  [f EXCEPT ![o][r][d] = n] \in [Order -> [Rider -> [Delay -> Nat]]]
OBVIOUS

\* A job can be due at once, or after the whole life of an offer.
LEMMA DelayEnds == 0 \in Delay /\ MATCH_TTL \in Delay
BY DEF Delay

\* A tick keeps the number of delayed jobs a natural number.
LEMMA SoonerType ==
    ASSUME NEW jobs \in [Delay -> Nat]
    PROVE  Sooner(jobs) \in [Delay -> Nat]
BY DEF Sooner, Delay

\* A job that waits is still there after a tick, one tick closer.
LEMMA SoonerKeeps ==
    ASSUME NEW jobs \in [Delay -> Nat], NEW d \in Delay, jobs[d] > 0
    PROVE  Countdown(d) \in Delay /\ Sooner(jobs)[Countdown(d)] > 0
BY DEF Sooner, Delay, Countdown

-----------------------------------------------------------------------------
(* Type correctness, with the handlers' local variables.                   *)

TypeInv == TypeOK /\ HandlerOK

\* The record of a free slot is well formed.
LEMMA IdleIsTask == Idle \in Task /\ Idle.pc = "idle" /\ Idle.job = NoRider
BY EmptySeq DEF Idle, Handler, Task, PC

\* Initially every variable has its type.
LEMMA InitType == Init => TypeInv
<1> SUFFICES ASSUME Init PROVE TypeInv
  OBVIOUS
<1>1. task \in [Proc -> Task]
  BY IdleIsTask DEF Init
<1>2. TypeOK
  BY <1>1, EmptySeq DEF Init, TypeOK, Delay
<1>3. HandlerOK
  BY DEF Init, HandlerOK, LocalsOK, Idle, Handler, RiderPC
<1> QED
  BY <1>2, <1>3 DEF TypeInv

\* A handler's step replaces the record of its slot; what TypeInv says of
\* handlers then rests on the new record alone.
LEMMA OneTaskChanges ==
    ASSUME task \in [Proc -> Task], HandlerOK,
           NEW p \in Proc, NEW t \in Task, LocalsOK(t),
           task' = [task EXCEPT ![p] = t]
    PROVE  task' \in [Proc -> Task] /\ HandlerOK'
BY DEF HandlerOK

\* What a handler's step keeps, whichever it is.
HandlersOK == /\ task \in [Proc -> Task] /\ HandlerOK
              /\ overlapped \subseteq Order

\* Ending a handler leaves handlers well formed.
LEMMA FinishType ==
    ASSUME HandlersOK,
           NEW p \in Proc, Finish(p)
    PROVE  HandlersOK'
<1>1. Idle \in Task /\ LocalsOK(Idle)
  BY IdleIsTask DEF LocalsOK, Idle, Handler, RiderPC
<1> QED
  BY <1>1, OneTaskChanges DEF Finish, HandlersOK

\* Starting a handler that has no list yet keeps handlers well formed.
LEMMA StartType ==
    ASSUME HandlersOK,
           NEW p \in Proc, NEW pc \in PC \ {"idle", "store"}, NEW o \in Order,
           NEW r \in Rider \cup {NoRider}, NEW job \in Rider \cup {NoRider},
           pc \in RiderPC => r \in Rider,
           Start(p, pc, o, r, job)
    PROVE  HandlersOK'
<1>1. Handler(pc, o, r, job) \in Task
  BY EmptySeq DEF Handler, Task
<1>2. LocalsOK(Handler(pc, o, r, job))
  BY DEF Handler, LocalsOK
<1> QED
  BY <1>1, <1>2, OneTaskChanges DEF Start, HandlersOK

\* So does moving one to an await that needs no more locals.
LEMMA MoveType ==
    ASSUME HandlersOK,
           NEW p \in Proc, task[p].pc # "idle",
           NEW pc \in PC \ {"idle", "store"},
           task[p].pc \in RiderPC \/ pc \notin RiderPC,
           Move(p, pc)
    PROVE  HandlersOK'
<1> DEFINE t == [task[p] EXCEPT !.pc = pc]
<1>1. task[p] \in Task /\ LocalsOK(task[p])
  BY DEF HandlersOK, HandlerOK
<1>2. t \in Task /\ t.pc = pc /\ t.order = task[p].order /\ t.rider = task[p].rider
  BY <1>1 DEF Task
<1>3. LocalsOK(t)
  BY <1>1, <1>2 DEF LocalsOK
<1>4. task' = [task EXCEPT ![p] = t] /\ UNCHANGED overlapped
  BY DEF Move
<1> QED
  BY <1>2, <1>3, <1>4, OneTaskChanges DEF HandlersOK

\* Every step keeps every variable, and every handler's locals, in its type.
LEMMA TypeStep == TypeInv /\ [Next]_vars => TypeInv'
<1> SUFFICES ASSUME TypeInv, [Next]_vars
             PROVE  TypeInv'
  OBVIOUS
<1>0. /\ TypeOK /\ HandlerOK /\ HandlersOK /\ task \in [Proc -> Task]
      /\ \A p \in Proc : LocalsOK(task[p]) /\ task[p] \in Task
  BY DEF TypeInv, TypeOK, HandlerOK, HandlersOK
<1>e. <<>> \in Seq(Rider)
  BY EmptySeq
<1> USE DEF rowVars, redisVars, historyVars, boundVars
<1>1. ASSUME NEW p \in Proc, NEW o \in Order, NEW premium \in BOOLEAN,
             CreateOrder(p, o, premium)
      PROVE  TypeInv'
  <2>1. HandlersOK'
    BY <1>0, <1>1, StartType DEF CreateOrder, PC, RiderPC
  <2> QED
    BY <1>0, <1>1, <2>1 DEF CreateOrder, HandlersOK, TypeInv, TypeOK, Delay, OrderStatus
<1>2. ASSUME NEW p \in Proc, NEW o \in Order, NEW r \in Rider, Accept(p, o, r)
      PROVE  TypeInv'
  <2>1. HandlersOK'
    BY <1>0, <1>2, StartType DEF Accept, PC, RiderPC
  <2>9. requests' \in 0..MaxRequests
    BY <1>0, <1>2 DEF Accept, TypeOK
  <2> QED
    BY <1>0, <1>2, <2>1, <2>9 DEF Accept, HandlersOK, TypeInv, TypeOK
<1>3. ASSUME NEW p \in Proc, NEW o \in Order, NEW r \in Rider, Reject(p, o, r)
      PROVE  TypeInv'
  <2>1. HandlersOK'
    BY <1>0, <1>3, StartType DEF Reject, StartRejection, PC, RiderPC
  <2>9. requests' \in 0..MaxRequests
    BY <1>0, <1>3 DEF Reject, TypeOK
  <2> QED
    BY <1>0, <1>3, <2>1, <2>9 DEF Reject, StartRejection, HandlersOK, TypeInv, TypeOK
<1>4. ASSUME NEW p \in Proc, NEW o \in Order,
             NEW r \in Rider, WorkerTakes(p, o, r)
      PROVE  TypeInv'
  <2>1. HandlersOK'
    BY <1>0, <1>4, StartType DEF WorkerTakes, StartRejection, PC, RiderPC
  <2>9. timeouts' \in [Order -> [Rider -> [Delay -> Nat]]]
    <3>1. timeouts[o][r][0] - 1 \in Nat
      BY <1>0, <1>4, DelayEnds DEF WorkerTakes, TypeOK
    <3> QED
      BY <1>0, <1>4, <3>1, TimeoutsExcept, DelayEnds DEF WorkerTakes, TypeOK
  <2> QED
    BY <1>0, <1>4, <2>1, <2>9 DEF WorkerTakes, StartRejection, HandlersOK, TypeInv, TypeOK
<1>5. ASSUME NEW p \in Proc, NEW o \in Order, Cancel(p, o)
      PROVE  TypeInv'
  <2>1. HandlersOK'
    BY <1>0, <1>5, StartType DEF Cancel, PC, RiderPC
  <2>9. requests' \in 0..MaxRequests
    BY <1>0, <1>5 DEF Cancel, TypeOK
  <2> QED
    BY <1>0, <1>5, <2>1, <2>9 DEF Cancel, HandlersOK, TypeInv, TypeOK
<1>6. ASSUME NEW o \in Order, NEW s \in OverrideStatuses,
             OverrideOrderStatus(o, s)
      PROVE  TypeInv'
  BY <1>0, <1>6 DEF OverrideOrderStatus, TypeInv, TypeOK, HandlerOK
<1>7. ASSUME NEW o \in Order, NEW r \in Rider, ReassignOrder(o, r)
      PROVE  TypeInv'
  BY <1>0, <1>7 DEF ReassignOrder, TypeInv, TypeOK, HandlerOK, OrderStatus
<1>27. ASSUME NEW r \in Rider, ChangeRiderFleet(r)
      PROVE  TypeInv'
  BY <1>0, <1>27 DEF ChangeRiderFleet, TypeInv, TypeOK, HandlerOK
<1>8. ASSUME NEW p \in Proc, FindNobody(p)
      PROVE  TypeInv'
  <2>1. HandlersOK'
    BY <1>0, <1>8, FinishType DEF FindNobody
  <2> QED
    BY <1>0, <1>8, <2>1 DEF FindNobody, HandlersOK, TypeInv, TypeOK
<1>9. ASSUME NEW p \in Proc, FindRiders(p)
      PROVE  TypeInv'
  <2> DEFINE o == task[p].order
  <2>1. PICK nearby \in SUBSET Rider :
          \E ranking \in SetToSeqs(Eligible(o, nearby)) :
            /\ ranking # <<>>
            /\ shortlist' = [shortlist EXCEPT ![o] = ranking]
            /\ task' = [task EXCEPT ![p].pc = "store", ![p].rest = ranking]
    BY <1>9 DEF FindRiders
  <2>2. Eligible(o, nearby) \in SUBSET Rider
    BY DEF Eligible
  <2>3. PICK ranking \in Seq(Rider) :
            /\ ranking # <<>>
            /\ shortlist' = [shortlist EXCEPT ![o] = ranking]
            /\ task' = [task EXCEPT ![p].pc = "store", ![p].rest = ranking]
    BY <2>1, <2>2, RankingIsSeq, SeqMonotonic
  <2> DEFINE t == [task[p] EXCEPT !.pc = "store", !.rest = ranking]
  <2>4. t \in Task /\ t.pc = "store" /\ t.rest = ranking /\ t.order = o
    BY <1>0 DEF Task, PC
  <2>5. LocalsOK(t)
    BY <1>0, <1>9, <2>3, <2>4 DEF LocalsOK, RiderPC, FindRiders
  <2>6. task' \in [Proc -> Task] /\ HandlerOK'
    BY <1>0, <2>3, <2>4, <2>5, OneTaskChanges
  <2>7. fleetThen' \in [Order -> SUBSET Rider]
    BY <1>0, <1>9 DEF FindRiders, TypeOK
  <2> QED
    BY <1>0, <1>9, <2>3, <2>6, <2>7 DEF FindRiders, TypeInv, TypeOK
<1>10. ASSUME NEW p \in Proc, StoreCandidates(p)
      PROVE  TypeInv'
  <2> DEFINE t == [task[p] EXCEPT !.pc = "request", !.rider = Head(task[p].rest),
                                 !.rest = <<>>]
  <2>1. task[p].rest \in Seq(Rider) /\ task[p].rest # <<>>
    BY <1>0, <1>10 DEF StoreCandidates, LocalsOK, Task
  <2>2. Head(task[p].rest) \in Rider
    BY <2>1, HeadTailProperties
  <2>3. /\ t \in Task /\ t.pc = "request" /\ t.order = task[p].order
        /\ t.rider = Head(task[p].rest)
    BY <1>0, <2>2, EmptySeq DEF Task, PC
  <2>4. LocalsOK(t)
    BY <1>0, <1>10, <2>2, <2>3 DEF LocalsOK, StoreCandidates
  <2>5. task' \in [Proc -> Task] /\ HandlerOK'
    BY <1>0, <1>10, <2>3, <2>4, OneTaskChanges DEF StoreCandidates
  <2>8. task[p].order \in Order
    BY <1>0, <1>10 DEF StoreCandidates, LocalsOK, RiderPC
  <2>9. /\ candidates' \in [Order -> Seq(Rider)]
        /\ listTtl' \in [Order -> 0..CANDIDATE_TTL]
    BY <1>0, <1>10, <2>1, <2>8 DEF StoreCandidates, TypeOK
  <2> QED
    BY <1>0, <1>10, <2>1, <2>5, <2>9 DEF StoreCandidates, TypeInv, TypeOK
<1>11. ASSUME NEW p \in Proc, SetOffer(p)
      PROVE  TypeInv'
  <2>1. HandlersOK'
    BY <1>0, <1>11, MoveType DEF SetOffer, PC, RiderPC
  <2>8. task[p].order \in Order /\ task[p].rider \in Rider
    BY <1>0, <1>11 DEF SetOffer, LocalsOK, RiderPC
  <2>9. offer' \in [Order -> [Rider -> 0..MATCH_TTL]]
    BY <1>0, <1>11, <2>8 DEF SetOffer, TypeOK
  <2> QED
    BY <1>0, <1>11, <2>1, <2>9 DEF SetOffer, HandlersOK, TypeInv, TypeOK
<1>12. ASSUME NEW p \in Proc, EmitJobRequest(p)
      PROVE  TypeInv'
  <2>1. HandlersOK'
    BY <1>0, <1>12, MoveType DEF EmitJobRequest, PC, RiderPC
  <2> QED
    BY <1>0, <1>12, <2>1 DEF EmitJobRequest, HandlersOK, TypeInv, TypeOK, LocalsOK, RiderPC
<1>13. ASSUME NEW p \in Proc, AddTimeout(p)
      PROVE  TypeInv'
  <2>1. HandlersOK'
    BY <1>0, <1>13, FinishType DEF AddTimeout
  <2>8. task[p].order \in Order /\ task[p].rider \in Rider
    BY <1>0, <1>13 DEF AddTimeout, LocalsOK, RiderPC
  <2>9. timeouts' \in [Order -> [Rider -> [Delay -> Nat]]]
    <3>1. timeouts[task[p].order][task[p].rider][MATCH_TTL] + 1 \in Nat
      BY <1>0, <2>8, DelayEnds DEF TypeOK
    <3> QED
      BY <1>0, <1>13, <2>8, <3>1, TimeoutsExcept, DelayEnds DEF AddTimeout, TypeOK
  <2> QED
    BY <1>0, <1>13, <2>1, <2>9 DEF AddTimeout, HandlersOK, TypeInv, TypeOK
<1>14. ASSUME NEW p \in Proc, AcceptDelKey(p)
      PROVE  TypeInv'
  <2>1. HandlersOK'
    BY <1>0, <1>14, MoveType DEF AcceptDelKey, PC, RiderPC
  <2>8. task[p].order \in Order /\ task[p].rider \in Rider
    BY <1>0, <1>14 DEF AcceptDelKey, LocalsOK, RiderPC
  <2>9. offer' \in [Order -> [Rider -> 0..MATCH_TTL]]
    BY <1>0, <1>14, <2>8 DEF AcceptDelKey, TypeOK
  <2> QED
    BY <1>0, <1>14, <2>1, <2>9 DEF AcceptDelKey, HandlersOK, TypeInv, TypeOK
<1>15. ASSUME NEW p \in Proc, RejectDelKey(p)
      PROVE  TypeInv'
  <2>1. HandlersOK'
    BY <1>0, <1>15, MoveType DEF RejectDelKey, PC, RiderPC
  <2>8. task[p].order \in Order /\ task[p].rider \in Rider
    BY <1>0, <1>15 DEF RejectDelKey, LocalsOK, RiderPC
  <2>9. offer' \in [Order -> [Rider -> 0..MATCH_TTL]]
    BY <1>0, <1>15, <2>8 DEF RejectDelKey, TypeOK
  <2> QED
    BY <1>0, <1>15, <2>1, <2>9 DEF RejectDelKey, HandlersOK, TypeInv, TypeOK
<1>16. ASSUME NEW p \in Proc, AcceptDelList(p)
      PROVE  TypeInv'
  <2>1. HandlersOK'
    BY <1>0, <1>16, MoveType DEF AcceptDelList, PC, RiderPC
  <2>8. task[p].order \in Order
    BY <1>0, <1>16 DEF AcceptDelList, LocalsOK, RiderPC
  <2>9. /\ candidates' \in [Order -> Seq(Rider)]
        /\ listTtl' \in [Order -> 0..CANDIDATE_TTL]
    BY <1>0, <1>16, <1>e, <2>8 DEF AcceptDelList, TypeOK
  <2> QED
    BY <1>0, <1>16, <2>1, <2>9 DEF AcceptDelList, HandlersOK, TypeInv, TypeOK
<1>17. ASSUME NEW p \in Proc, ExhaustDelList(p)
      PROVE  TypeInv'
  <2>1. HandlersOK'
    BY <1>0, <1>17, MoveType DEF ExhaustDelList, PC, RiderPC
  <2>8. task[p].order \in Order
    BY <1>0, <1>17 DEF ExhaustDelList, LocalsOK, RiderPC
  <2>9. /\ candidates' \in [Order -> Seq(Rider)]
        /\ listTtl' \in [Order -> 0..CANDIDATE_TTL]
    BY <1>0, <1>17, <1>e, <2>8 DEF ExhaustDelList, TypeOK
  <2> QED
    BY <1>0, <1>17, <2>1, <2>9 DEF ExhaustDelList, HandlersOK, TypeInv, TypeOK
<1>18. ASSUME NEW p \in Proc, AcceptUpdate(p)
      PROVE  TypeInv'
  <2>1. HandlersOK'
    BY <1>0, <1>18, FinishType DEF AcceptUpdate
  <2> QED
    BY <1>0, <1>18, <2>1 DEF AcceptUpdate, HandlersOK, TypeInv, TypeOK, OrderStatus, Task
<1>19. ASSUME NEW p \in Proc, CancelUpdate(p)
      PROVE  TypeInv'
  <2>1. HandlersOK'
    BY <1>0, <1>19, FinishType DEF CancelUpdate
  <2> QED
    BY <1>0, <1>19, <2>1 DEF CancelUpdate, HandlersOK, TypeInv, TypeOK, OrderStatus
<1>20. ASSUME NEW p \in Proc, RejectNoList(p)
      PROVE  TypeInv'
  <2>1. HandlersOK'
    BY <1>0, <1>20, FinishType DEF RejectNoList
  <2> QED
    BY <1>0, <1>20, <2>1 DEF RejectNoList, HandlersOK, TypeInv, TypeOK
<1>21. ASSUME NEW p \in Proc, RejectReadList(p)
      PROVE  TypeInv'
  <2> DEFINE rest == Remaining(candidates[task[p].order], task[p].rider)
             t == [task[p] EXCEPT !.pc = IF rest = <<>> THEN "exhaust_del"
                                                        ELSE "store",
                                  !.rest = rest]
  <2>1. task[p].order \in Order
    BY <1>0, <1>21 DEF RejectReadList, LocalsOK
  <2>2. rest \in Seq(Rider)
    BY <1>0, <2>1, RemainingIsTail DEF TypeOK
  <2> HIDE DEF rest
  <2>3. /\ t \in Task /\ t.order = task[p].order /\ t.rest = rest
        /\ t.pc = IF rest = <<>> THEN "exhaust_del" ELSE "store"
    BY <1>0, <2>2 DEF Task, PC
  <2>4. LocalsOK(t)
    BY <2>1, <2>3 DEF LocalsOK, RiderPC
  <2>5. task' = [task EXCEPT ![p] = t]
    BY <1>21 DEF RejectReadList, rest
  <2>6. task' \in [Proc -> Task] /\ HandlerOK'
    BY <1>0, <2>3, <2>4, <2>5, OneTaskChanges
  <2>7. skipped' \subseteq Order
    BY <1>0, <1>21, <2>1 DEF RejectReadList, TypeOK
  <2> QED
    BY <1>0, <1>21, <2>6, <2>7 DEF RejectReadList, TypeInv, TypeOK
<1>22. ASSUME NEW p \in Proc, ExhaustEmit(p)
      PROVE  TypeInv'
  <2>1. HandlersOK'
    BY <1>0, <1>22, FinishType DEF ExhaustEmit
  <2> QED
    BY <1>0, <1>22, <2>1 DEF ExhaustEmit, HandlersOK, TypeInv, TypeOK
<1>23. ASSUME NEW p \in Proc, Fail(p)
      PROVE  TypeInv'
  <2>1. HandlersOK'
    BY <1>0, <1>23, FinishType DEF Fail
  <2>2. task[p].order \in Order
    BY <1>0, <1>23 DEF Fail, Working, LocalsOK
  <2>3. disturbed' \subseteq Order /\ faults' \in 0..MaxFaults
    BY <1>0, <1>23, <2>2 DEF Fail, TypeOK
  <2> QED
    BY <1>0, <1>23, <2>1, <2>3 DEF Fail, HandlersOK, TypeInv, TypeOK
<1>24. CASE Tick
  <2>1. offer' \in [Order -> [Rider -> 0..MATCH_TTL]]
    BY <1>0, <1>24 DEF Tick, Countdown, TypeOK
  <2>2. /\ candidates' \in [Order -> Seq(Rider)]
        /\ listTtl' \in [Order -> 0..CANDIDATE_TTL]
    BY <1>0, <1>e, <1>24 DEF Tick, Countdown, TypeOK
  <2>3. timeouts' \in [Order -> [Rider -> [Delay -> Nat]]]
    BY <1>0, <1>24, SoonerType DEF Tick, TypeOK
  <2> QED
    BY <1>0, <1>24, <2>1, <2>2, <2>3 DEF Tick, TypeInv, TypeOK, HandlerOK
<1>25. CASE Crash
  <2>1. task' \in [Proc -> Task] /\ HandlerOK'
    BY <1>25, IdleIsTask DEF Crash, HandlerOK, LocalsOK, Idle, Handler, RiderPC
  <2>2. {task[p].order : p \in {q \in Proc : Working(q)}} \subseteq Order
    BY <1>0 DEF Working, LocalsOK
  <2>3. timeouts' \in [Order -> [Rider -> [Delay -> Nat]]]
    <3> DEFINE more(o, r) == IF \E p \in Proc : task[p].order = o /\ task[p].job = r
                             THEN 1 ELSE 0
    <3>1. timeouts' = [o \in Order |-> [r \in Rider |->
                         [timeouts[o][r] EXCEPT ![0] = @ + more(o, r)]]]
      BY <1>25 DEF Crash
    <3>2. \A o \in Order, r \in Rider : more(o, r) \in Nat
      OBVIOUS
    <3> HIDE DEF more
    <3>3. ASSUME NEW o \in Order, NEW r \in Rider
          PROVE  [timeouts[o][r] EXCEPT ![0] = @ + more(o, r)] \in [Delay -> Nat]
      BY <1>0, <3>2 DEF TypeOK, Delay
    <3> QED
      BY <3>1, <3>3
  <2> QED
    BY <1>0, <1>25, <2>1, <2>2, <2>3 DEF Crash, TypeInv, TypeOK
<1>26. CASE UNCHANGED vars
  BY <1>0, <1>26 DEF vars, TypeInv, TypeOK, HandlerOK
<1> QED
  BY <1>1, <1>2, <1>3, <1>4, <1>5, <1>6, <1>7, <1>8, <1>9, <1>10, <1>11, <1>12, <1>13, <1>14, <1>15, <1>16, <1>17, <1>18, <1>19, <1>20, <1>21, <1>22, <1>23, <1>24, <1>25, <1>26, <1>27
     DEF Next, Call, Step, Worker

\* Every variable keeps its type, whatever the sets and the bounds are.
THEOREM TypeCorrect == Spec => []TypeOK
<1>1. Spec => []TypeInv
  BY InitType, TypeStep, PTL DEF Spec
<1>2. TypeInv => TypeOK
  BY DEF TypeInv
<1> QED
  BY <1>1, <1>2, PTL

-----------------------------------------------------------------------------
(* The list of candidates is a tail of the ranking.  findMatch writes the  *)
(* ranking once, while the order has no list: that is what is strengthened. *)

RankingInv ==
    /\ TypeInv
    /\ \A o \in Order : IsTailOf(candidates[o], shortlist[o])
    /\ \A p \in Proc : task[p].pc # "idle" =>
         IsTailOf(task[p].rest, shortlist[task[p].order])
    /\ \A p \in Proc : task[p].pc = "query" =>
         /\ shortlist[task[p].order] = <<>>
         /\ status[task[p].order] # "NONE"
    /\ \A p, q \in Proc :
         /\ task[p].pc = "query" /\ task[q].pc = "query"
         /\ task[p].order = task[q].order
         => p = q
    /\ \A o \in Order : status[o] = "NONE" => shortlist[o] = <<>>

\* An empty list is a tail of every list, and nothing else is one of it.
LEMMA EmptyTail ==
    ASSUME NEW s \in Seq(Rider)
    PROVE  /\ IsTailOf(<<>>, s)
           /\ IsTailOf(s, s)
           /\ IsTailOf(s, <<>>) => s = <<>>
<1>1. Len(s) \in Nat /\ Len(<<>>) = 0
  BY LenProperties, EmptySeq
<1>2. s # <<>> => Len(s) > 0
  BY EmptySeq
<1> QED
  BY <1>1, <1>2 DEF IsTailOf

\* a step that ranks nobody and writes no rider into a list
KeepsRankings ==
    /\ shortlist' = shortlist
    /\ \A o \in Order : candidates'[o] \in {candidates[o], <<>>}
    /\ \A o \in Order : status'[o] = "NONE" => status[o] = "NONE"
    /\ \A p \in Proc :
         /\ task'[p].pc = "query" => task'[p] = task[p]
         /\ task'[p].pc # "idle" =>
              \/ task'[p].rest = <<>>
              \/ /\ task[p].pc # "idle"
                 /\ task'[p].rest = task[p].rest
                 /\ task'[p].order = task[p].order

\* Such a step keeps RankingInv.
LEMMA KeepsRankingInv == RankingInv /\ TypeInv' /\ KeepsRankings => RankingInv'
<1> SUFFICES ASSUME RankingInv, TypeInv', KeepsRankings
             PROVE  RankingInv'
  OBVIOUS
<1>0. /\ shortlist \in [Order -> Seq(Rider)]
      /\ \A p \in Proc : task'[p].pc # "idle" => task'[p].order \in Order
  BY DEF RankingInv, TypeInv, TypeOK, HandlerOK, LocalsOK
<1>1. ASSUME NEW o \in Order
      PROVE  IsTailOf(candidates'[o], shortlist'[o])
  BY <1>0, EmptyTail DEF RankingInv, KeepsRankings
<1>2. ASSUME NEW p \in Proc, task'[p].pc # "idle"
      PROVE  IsTailOf(task'[p].rest, shortlist'[task'[p].order])
  <2>1. shortlist[task'[p].order] \in Seq(Rider)
    BY <1>0, <1>2
  <2>2. CASE task'[p].rest = <<>>
    BY <2>1, <2>2, EmptyTail DEF KeepsRankings
  <2>3. CASE task'[p].rest # <<>>
    BY <1>2, <2>3 DEF KeepsRankings, RankingInv
  <2> QED
    BY <2>2, <2>3
<1>3. ASSUME NEW p \in Proc, task'[p].pc = "query"
      PROVE  /\ shortlist'[task'[p].order] = <<>>
             /\ status'[task'[p].order] # "NONE"
  BY <1>0, <1>3 DEF KeepsRankings, RankingInv
<1>4. ASSUME NEW p \in Proc, NEW q \in Proc,
             task'[p].pc = "query", task'[q].pc = "query",
             task'[p].order = task'[q].order
      PROVE  p = q
  BY <1>4 DEF KeepsRankings, RankingInv
<1>5. ASSUME NEW o \in Order, status'[o] = "NONE"
      PROVE  shortlist'[o] = <<>>
  BY <1>5 DEF KeepsRankings, RankingInv
<1> QED
  BY <1>1, <1>2, <1>3, <1>4, <1>5 DEF RankingInv, IsTailOf

\* Ending and moving a handler keep its list or drop it.
LEMMA FinishKeeps ==
    ASSUME task \in [Proc -> Task], NEW p \in Proc, Finish(p), NEW q \in Proc
    PROVE  task'[q] = task[q] \/ (task'[q].pc = "idle" /\ q = p)
BY DEF Finish, Idle, Handler

\* Moving one changes the await it is at, and nothing of the others.
LEMMA MoveKeeps ==
    ASSUME task \in [Proc -> Task], NEW p \in Proc, NEW pc, Move(p, pc),
           NEW q \in Proc
    PROVE  \/ task'[q] = task[q]
           \/ /\ q = p
              /\ task'[q].pc = pc
              /\ task'[q].order = task[q].order
              /\ task'[q].rider = task[q].rider
              /\ task'[q].rest = task[q].rest
              /\ task'[q].job = task[q].job
BY DEF Move, Task

\* Every step keeps the lists tails of the ranking, findMatch among them, for no
\* list is left over when it writes one.
LEMMA RankingStep == RankingInv /\ [Next]_vars => RankingInv'
<1> SUFFICES ASSUME RankingInv, [Next]_vars
             PROVE  RankingInv'
  OBVIOUS
<1>0. /\ TypeInv /\ TypeOK /\ task \in [Proc -> Task] /\ TypeInv'
      /\ \A p \in Proc : LocalsOK(task[p]) /\ task[p] \in Task
  BY TypeStep DEF RankingInv, TypeInv, TypeOK, HandlerOK
<1> USE DEF rowVars, redisVars, historyVars, boundVars
<1>1. ASSUME NEW p \in Proc, NEW o \in Order, NEW premium \in BOOLEAN,
             CreateOrder(p, o, premium)
      PROVE  RankingInv'
  <2>1. /\ status[o] = "NONE" /\ status' = [status EXCEPT ![o] = "PENDING"]
        /\ shortlist' = shortlist /\ candidates' = candidates
        /\ Start(p, "query", o, NoRider, NoRider)
    BY <1>1 DEF CreateOrder
  <2>2. \A x \in Order : status'[x] = IF x = o THEN "PENDING" ELSE status[x]
    BY <1>0, <2>1 DEF TypeOK
  <2>3. shortlist[o] = <<>>
    BY <2>1 DEF RankingInv
  <2>4. ASSUME NEW q \in Proc
        PROVE  \/ task'[q] = task[q]
               \/ q = p /\ task'[q].order = o /\ task'[q].rest = <<>>
    BY <1>0, <2>1 DEF Start, Handler, PC
  <2>5. ASSUME NEW q \in Proc, task'[q].pc # "idle"
        PROVE  IsTailOf(task'[q].rest, shortlist'[task'[q].order])
    BY <2>1, <2>3, <2>4, <2>5, EmptySeq, EmptyTail DEF RankingInv
  <2>6. ASSUME NEW q \in Proc, task[q].pc = "query"
        PROVE  task[q].order # o /\ task[q].order \in Order
    BY <1>0, <2>1, <2>6 DEF RankingInv, LocalsOK
  <2>7. ASSUME NEW q \in Proc, task'[q].pc = "query"
        PROVE  /\ shortlist'[task'[q].order] = <<>>
               /\ status'[task'[q].order] # "NONE"
    BY <2>1, <2>2, <2>3, <2>4, <2>6, <2>7 DEF RankingInv
  <2>8. ASSUME NEW q \in Proc, NEW x \in Proc,
               task'[q].pc = "query", task'[x].pc = "query",
               task'[q].order = task'[x].order
        PROVE  q = x
    BY <2>4, <2>6, <2>8 DEF RankingInv
  <2>9. ASSUME NEW x \in Order
        PROVE  /\ IsTailOf(candidates'[x], shortlist'[x])
               /\ status'[x] = "NONE" => shortlist'[x] = <<>>
    BY <2>1, <2>2 DEF RankingInv
  <2> QED
    BY <1>0, <2>5, <2>7, <2>8, <2>9 DEF RankingInv, IsTailOf
<1>2. ASSUME NEW p \in Proc, FindRiders(p)
      PROVE  RankingInv'
  <2> DEFINE o == task[p].order
  <2>1. /\ o \in Order /\ task[p].pc = "query" /\ candidates' = candidates
        /\ status' = status /\ shortlist[o] = <<>> /\ status[o] # "NONE"
    BY <1>0, <1>2 DEF FindRiders, LocalsOK, RankingInv
  <2>2. PICK nearby \in SUBSET Rider :
          \E ranking \in SetToSeqs(Eligible(o, nearby)) :
            /\ shortlist' = [shortlist EXCEPT ![o] = ranking]
            /\ task' = [task EXCEPT ![p].pc = "store", ![p].rest = ranking]
    BY <1>2 DEF FindRiders
  <2>3. Eligible(o, nearby) \in SUBSET Rider
    BY DEF Eligible
  <2>4. PICK ranking \in Seq(Rider) :
            /\ shortlist' = [shortlist EXCEPT ![o] = ranking]
            /\ task' = [task EXCEPT ![p].pc = "store", ![p].rest = ranking]
    BY <2>2, <2>3, RankingIsSeq, SeqMonotonic
  <2>5. \A x \in Order : shortlist'[x] = IF x = o THEN ranking ELSE shortlist[x]
    BY <1>0, <2>4 DEF TypeOK
  <2>6. ASSUME NEW q \in Proc
        PROVE  IF q = p THEN /\ task'[q].pc = "store" /\ task'[q].order = o
                             /\ task'[q].rest = ranking
                        ELSE task'[q] = task[q]
    BY <1>0, <2>4 DEF Task
  <2>7. /\ candidates[o] \in Seq(Rider)
        /\ \A q \in Proc : task[q].rest \in Seq(Rider)
    BY <1>0, <2>1 DEF TypeOK, Task
  <2>8. ASSUME NEW x \in Order
        PROVE  IsTailOf(candidates'[x], shortlist'[x])
    <3>1. CASE x = o
      <4>1. candidates[o] = <<>>
        BY <2>1, <2>7, EmptyTail DEF RankingInv
      <4> QED
        BY <2>1, <2>5, <3>1, <4>1, EmptyTail
    <3>2. CASE x # o
      BY <2>1, <2>5, <3>2 DEF RankingInv
    <3> QED
      BY <3>1, <3>2
  <2>9. ASSUME NEW q \in Proc, task'[q].pc # "idle"
        PROVE  IsTailOf(task'[q].rest, shortlist'[task'[q].order])
    <3>1. CASE q = p
      BY <2>1, <2>5, <2>6, <3>1, EmptyTail
    <3>2. CASE q # p /\ task[q].order = o
      <4>1. task[q].rest = <<>>
        BY <2>1, <2>6, <2>7, <2>9, <3>2, EmptyTail DEF RankingInv
      <4> QED
        BY <2>1, <2>5, <2>6, <3>2, <4>1, EmptyTail
    <3>3. CASE q # p /\ task[q].order # o
      <4>1. task[q].order \in Order
        BY <1>0, <2>6, <2>9, <3>3 DEF LocalsOK
      <4> QED
        BY <2>5, <2>6, <2>9, <3>3, <4>1 DEF RankingInv
    <3> QED
      BY <3>1, <3>2, <3>3
  <2>10. ASSUME NEW q \in Proc, task'[q].pc = "query"
         PROVE  /\ shortlist'[task'[q].order] = <<>>
                /\ status'[task'[q].order] # "NONE"
    <3>1. q # p /\ task'[q] = task[q]
      BY <2>6, <2>10
    <3>2. task[q].order # o /\ task[q].order \in Order
      BY <1>0, <2>1, <2>10, <3>1 DEF RankingInv, LocalsOK
    <3> QED
      BY <2>1, <2>5, <2>10, <3>1, <3>2 DEF RankingInv
  <2>11. ASSUME NEW q \in Proc, NEW x \in Proc,
                task'[q].pc = "query", task'[x].pc = "query",
                task'[q].order = task'[x].order
         PROVE  q = x
    BY <2>6, <2>11 DEF RankingInv
  <2>12. ASSUME NEW x \in Order, status'[x] = "NONE"
         PROVE  shortlist'[x] = <<>>
    BY <2>1, <2>5, <2>12 DEF RankingInv
  <2> QED
    BY <1>0, <2>8, <2>9, <2>10, <2>11, <2>12 DEF RankingInv, IsTailOf
<1>3. ASSUME NEW p \in Proc, StoreCandidates(p)
      PROVE  RankingInv'
  <2> DEFINE o == task[p].order
  <2>1. /\ o \in Order /\ task[p].pc = "store"
        /\ status' = status /\ shortlist' = shortlist
        /\ IsTailOf(task[p].rest, shortlist[o])
    BY <1>0, <1>3 DEF StoreCandidates, LocalsOK, RankingInv
  <2>2. \A x \in Order :
          candidates'[x] = IF x = o THEN task[p].rest ELSE candidates[x]
    BY <1>0, <1>3 DEF StoreCandidates, TypeOK
  <2>3. ASSUME NEW q \in Proc
        PROVE  \/ task'[q] = task[q]
               \/ /\ q = p /\ task'[q].pc = "request"
                  /\ task'[q].order = o /\ task'[q].rest = <<>>
    BY <1>0, <1>3 DEF StoreCandidates, Task
  <2>4. ASSUME NEW x \in Order
        PROVE  /\ IsTailOf(candidates'[x], shortlist'[x])
               /\ status'[x] = "NONE" => shortlist'[x] = <<>>
    BY <2>1, <2>2 DEF RankingInv
  <2>5. shortlist[o] \in Seq(Rider)
    BY <1>0, <2>1 DEF TypeOK
  <2>6. ASSUME NEW q \in Proc, task'[q].pc # "idle"
        PROVE  IsTailOf(task'[q].rest, shortlist'[task'[q].order])
    BY <2>1, <2>3, <2>5, <2>6, EmptyTail DEF RankingInv
  <2>7. ASSUME NEW q \in Proc, task'[q].pc = "query"
        PROVE  /\ task'[q] = task[q]
               /\ shortlist'[task'[q].order] = <<>>
               /\ status'[task'[q].order] # "NONE"
    BY <2>1, <2>3, <2>7 DEF RankingInv
  <2>8. ASSUME NEW q \in Proc, NEW x \in Proc,
               task'[q].pc = "query", task'[x].pc = "query",
               task'[q].order = task'[x].order
        PROVE  q = x
    BY <2>7, <2>8 DEF RankingInv
  <2> QED
    BY <1>0, <2>4, <2>6, <2>7, <2>8 DEF RankingInv
<1>4. ASSUME NEW p \in Proc, RejectReadList(p)
      PROVE  RankingInv'
  <2> DEFINE o == task[p].order
             rest == Remaining(candidates[o], task[p].rider)
  <2>1. /\ o \in Order /\ status' = status /\ shortlist' = shortlist
        /\ candidates' = candidates
        /\ candidates[o] \in Seq(Rider) /\ shortlist[o] \in Seq(Rider)
        /\ IsTailOf(candidates[o], shortlist[o])
    BY <1>0, <1>4 DEF RejectReadList, LocalsOK, RankingInv, TypeOK
  <2>2. rest \in Seq(Rider) /\ IsTailOf(rest, shortlist[o])
    BY <2>1, RemainingIsTail, TailOfTail
  <2>3. task' = [task EXCEPT ![p].pc = IF rest = <<>> THEN "exhaust_del"
                                                      ELSE "store",
                             ![p].rest = rest]
    BY <1>4 DEF RejectReadList
  <2> HIDE DEF rest
  <2>4. ASSUME NEW q \in Proc
        PROVE  \/ task'[q] = task[q]
               \/ /\ q = p /\ task'[q].pc \in {"store", "exhaust_del"}
                  /\ task'[q].order = o /\ task'[q].rest = rest
    BY <1>0, <2>3 DEF Task
  <2>5. ASSUME NEW q \in Proc, task'[q].pc # "idle"
        PROVE  IsTailOf(task'[q].rest, shortlist'[task'[q].order])
    BY <2>1, <2>2, <2>4, <2>5 DEF RankingInv
  <2>6. ASSUME NEW q \in Proc, task'[q].pc = "query"
        PROVE  /\ task'[q] = task[q]
               /\ shortlist'[task'[q].order] = <<>>
               /\ status'[task'[q].order] # "NONE"
    BY <2>1, <2>4, <2>6 DEF RankingInv
  <2>7. ASSUME NEW q \in Proc, NEW x \in Proc,
               task'[q].pc = "query", task'[x].pc = "query",
               task'[q].order = task'[x].order
        PROVE  q = x
    BY <2>6, <2>7 DEF RankingInv
  <2>8. ASSUME NEW x \in Order
        PROVE  /\ IsTailOf(candidates'[x], shortlist'[x])
               /\ status'[x] = "NONE" => shortlist'[x] = <<>>
    BY <2>1, <2>8 DEF RankingInv
  <2> QED
    BY <1>0, <2>5, <2>6, <2>7, <2>8 DEF RankingInv
<1>5. ASSUME NEW p \in Proc, NEW o \in Order,
             \/ Cancel(p, o)
             \/ \E r \in Rider : \/ Accept(p, o, r) \/ Reject(p, o, r)
                                \/ WorkerTakes(p, o, r)
      PROVE  RankingInv'
  <2>1. PICK pc \in PC, rider \in Rider \cup {NoRider}, job \in Rider \cup {NoRider} :
          pc # "query" /\ Start(p, pc, o, rider, job)
    BY <1>5 DEF Accept, Reject, WorkerTakes, Cancel, StartRejection, PC
  <2>2. shortlist' = shortlist /\ candidates' = candidates /\ status' = status
    BY <1>5 DEF Accept, Reject, WorkerTakes, Cancel
  <2>3. ASSUME NEW q \in Proc
        PROVE  \/ task'[q] = task[q]
               \/ task'[q].pc # "query" /\ task'[q].rest = <<>>
    <3>1. task' = [task EXCEPT ![p] = Handler(pc, o, rider, job)]
      BY <2>1 DEF Start
    <3>2. /\ Handler(pc, o, rider, job).pc = pc
          /\ Handler(pc, o, rider, job).rest = <<>>
      BY DEF Handler
    <3> QED
      BY <1>0, <2>1, <3>1, <3>2
  <2>4. KeepsRankings
    BY <2>2, <2>3 DEF KeepsRankings
  <2> QED
    BY <1>0, <2>4, KeepsRankingInv
<1>6. ASSUME NEW o \in Order,
             \/ \E s \in OverrideStatuses : OverrideOrderStatus(o, s)
             \/ \E r \in Rider : ReassignOrder(o, r)
      PROVE  RankingInv'
  <2>1. KeepsRankings
    BY <1>0, <1>6 DEF KeepsRankings, OverrideOrderStatus, ReassignOrder,
                      OrderStatus, TypeOK
  <2> QED
    BY <1>0, <2>1, KeepsRankingInv
<1>7. ASSUME NEW p \in Proc,
             \/ FindNobody(p) \/ AddTimeout(p) \/ AcceptUpdate(p)
             \/ CancelUpdate(p) \/ RejectNoList(p) \/ ExhaustEmit(p) \/ Fail(p)
      PROVE  RankingInv'
  <2>1. Finish(p)
    BY <1>7 DEF FindNobody, AddTimeout, AcceptUpdate, CancelUpdate,
                RejectNoList, ExhaustEmit, Fail
  <2>2. /\ shortlist' = shortlist /\ candidates' = candidates
        /\ \A o \in Order : status'[o] = "NONE" => status[o] = "NONE"
    BY <1>0, <1>7 DEF FindNobody, AddTimeout, AcceptUpdate, CancelUpdate,
                RejectNoList, ExhaustEmit, Fail, TypeOK
  <2>3. KeepsRankings
    BY <1>0, <2>1, <2>2, FinishKeeps DEF KeepsRankings
  <2> QED
    BY <1>0, <2>3, KeepsRankingInv
<1>8. ASSUME NEW p \in Proc,
             \/ SetOffer(p) \/ EmitJobRequest(p) \/ AcceptDelKey(p)
             \/ AcceptDelList(p) \/ RejectDelKey(p) \/ ExhaustDelList(p)
      PROVE  RankingInv'
  <2>1. /\ task[p].pc # "idle"
        /\ \E pc \in PC \ {"query", "idle"} : Move(p, pc)
    BY <1>8 DEF SetOffer, EmitJobRequest, AcceptDelKey, AcceptDelList,
                RejectDelKey, ExhaustDelList, PC
  <2>2. /\ shortlist' = shortlist /\ status' = status
        /\ \A o \in Order : candidates'[o] \in {candidates[o], <<>>}
    BY <1>0, <1>8 DEF SetOffer, EmitJobRequest, AcceptDelKey, AcceptDelList,
                RejectDelKey, ExhaustDelList, TypeOK
  <2>3. KeepsRankings
    BY <1>0, <2>1, <2>2, MoveKeeps DEF KeepsRankings
  <2> QED
    BY <1>0, <2>3, KeepsRankingInv
<1>9. CASE Tick \/ Crash \/ UNCHANGED vars
  <2>1. /\ shortlist' = shortlist /\ status' = status
        /\ \A o \in Order : candidates'[o] \in {candidates[o], <<>>}
    BY <1>0, <1>9 DEF Tick, Crash, vars, TypeOK
  <2>2. \A p \in Proc : task'[p] = task[p] \/ task'[p].pc = "idle"
    BY <1>9, IdleIsTask DEF Tick, Crash, vars
  <2>3. KeepsRankings
    BY <2>1, <2>2 DEF KeepsRankings
  <2> QED
    BY <1>0, <2>3, KeepsRankingInv
<1>10. ASSUME NEW p \in Proc, Step(p) \/ Fail(p)
       PROVE  RankingInv'
  <2>1. CASE FindRiders(p) \/ StoreCandidates(p) \/ RejectReadList(p)
    BY <2>1, <1>2, <1>3, <1>4
  <2>2. CASE \/ FindNobody(p) \/ AddTimeout(p) \/ AcceptUpdate(p)
             \/ CancelUpdate(p) \/ RejectNoList(p) \/ ExhaustEmit(p) \/ Fail(p)
    BY <2>2, <1>7
  <2>3. CASE \/ SetOffer(p) \/ EmitJobRequest(p) \/ AcceptDelKey(p)
             \/ AcceptDelList(p) \/ RejectDelKey(p) \/ ExhaustDelList(p)
    BY <2>3, <1>8
  <2> QED
    BY <1>10, <2>1, <2>2, <2>3 DEF Step
<1>11. CASE Call
  <2>1. CASE \E p \in Proc, o \in Order, premium \in BOOLEAN :
               CreateOrder(p, o, premium)
    BY <2>1, <1>1
  <2>2. CASE \E p \in Proc, o \in Order :
               Cancel(p, o) \/ \E r \in Rider : Accept(p, o, r) \/ Reject(p, o, r)
    <3>1. PICK p \in Proc, o \in Order :
            Cancel(p, o) \/ \E r \in Rider : Accept(p, o, r) \/ Reject(p, o, r)
      BY <2>2
    <3> QED
      BY <3>1, <1>5
  <2>3. CASE \E o \in Order :
               \/ \E s \in OverrideStatuses : OverrideOrderStatus(o, s)
               \/ \E r \in Rider : ReassignOrder(o, r)
    BY <2>3, <1>6
  <2>4. CASE \E r \in Rider : ChangeRiderFleet(r)
    <3>1. KeepsRankings
      BY <2>4 DEF KeepsRankings, ChangeRiderFleet
    <3> QED
      BY <1>0, <3>1, KeepsRankingInv
  <2> QED
    BY <1>11, <2>1, <2>2, <2>3, <2>4 DEF Call
<1>12. CASE Worker
  BY <1>5, <1>12 DEF Worker
<1> QED
  BY <1>9, <1>10, <1>11, <1>12 DEF Next

\* Initially there are no lists.
LEMMA InitRanking == Init => RankingInv
<1> SUFFICES ASSUME Init PROVE RankingInv
  OBVIOUS
<1>1. IsTailOf(<<>>, <<>>)
  BY EmptySeq, EmptyTail
<1> QED
  BY <1>1, InitType DEF Init, RankingInv, Idle, Handler, IsTailOf

\* Whatever handlers run at once, no list of candidates holds a rider out of
\* the order in which findMatch ranked the riders, or one it did not rank.
THEOREM RankingFollowed == Spec => []CandidatesFollowRanking
<1>1. Spec => []RankingInv
  BY InitRanking, RankingStep, PTL DEF Spec
<1>2. RankingInv => CandidatesFollowRanking
  <2> SUFFICES ASSUME RankingInv PROVE CandidatesFollowRanking
    OBVIOUS
  <2>1. ASSUME NEW p \in Proc, NEW o \in Order, task[p].order = o
        PROVE  IsTailOf(task[p].rest, shortlist[o])
    <3>1. task[p].pc = "idle" => task[p].rest = <<>>
      BY DEF RankingInv, TypeInv, HandlerOK, LocalsOK, Idle, Handler
    <3>2. shortlist[o] \in Seq(Rider)
      BY DEF RankingInv, TypeInv, TypeOK
    <3> QED
      BY <2>1, <3>1, <3>2, EmptyTail DEF RankingInv
  <2> QED
    BY <2>1 DEF CandidatesFollowRanking, RankingInv
<1> QED
  BY <1>1, <1>2, PTL

-----------------------------------------------------------------------------
(* The dispatch of an order goes on while riders are left on its list.     *)

GoesOnInv == TypeInv /\ DispatchGoesOn

\* what shows that the dispatch of o goes on
Evidence(o) ==
    \/ \E r \in Rider, d \in Delay : timeouts[o][r][d] > 0
    \/ \E p \in Proc : Dispatching(p, o)

\* A step that keeps the jobs of o and its dispatching handlers keeps the
\* evidence.
LEMMA EvidenceKept ==
    ASSUME GoesOnInv, NEW o \in Order, o \notin disturbed, candidates[o] # <<>>,
           \A r \in Rider, d \in Delay :
             timeouts[o][r][d] > 0 => \E e \in Delay : timeouts'[o][r][e] > 0,
           \A q \in Proc : Dispatching(q, o) => Dispatching(q, o)'
    PROVE  Evidence(o)'
BY DEF GoesOnInv, DispatchGoesOn, Evidence

\* So does one that changes the handler of one slot, if that handler was not
\* dispatching o or still is.
LEMMA OneHandlerKept ==
    ASSUME GoesOnInv, NEW o \in Order, o \notin disturbed, candidates[o] # <<>>,
           timeouts'[o] = timeouts[o],
           NEW p \in Proc, \A q \in Proc \ {p} : task'[q] = task[q],
           Dispatching(p, o) => Dispatching(p, o)'
    PROVE  Evidence(o)'
<1>1. \A q \in Proc : Dispatching(q, o) => Dispatching(q, o)'
  BY DEF Dispatching
<1> QED
  BY <1>1, EvidenceKept

\* Every step that leaves a list leaves a job or a handler that continues it.
LEMMA GoesOnStep == GoesOnInv /\ [Next]_vars => GoesOnInv'
<1> SUFFICES ASSUME GoesOnInv, [Next]_vars, NEW o \in Order,
                    o \notin disturbed', candidates'[o] # <<>>
             PROVE  Evidence(o)'
  BY TypeStep DEF GoesOnInv, DispatchGoesOn, Evidence
<1>0. /\ TypeOK /\ TypeInv' /\ task \in [Proc -> Task] /\ disturbed \subseteq Order
      /\ candidates \in [Order -> Seq(Rider)]
      /\ timeouts \in [Order -> [Rider -> [Delay -> Nat]]]
      /\ \A p \in Proc : LocalsOK(task[p]) /\ task[p] \in Task
  BY TypeStep DEF GoesOnInv, TypeInv, TypeOK, HandlerOK
<1> USE DEF rowVars, redisVars, historyVars, boundVars
<1>1. ASSUME NEW p \in Proc, NEW x \in Order,
             \/ \E premium \in BOOLEAN : CreateOrder(p, x, premium)
             \/ \E r \in Rider : Accept(p, x, r) \/ Reject(p, x, r)
             \/ Cancel(p, x)
      PROVE  Evidence(o)'
  <2>1. /\ task[p] = Idle /\ timeouts' = timeouts /\ candidates' = candidates
        /\ disturbed' = disturbed
        /\ \E h : task' = [task EXCEPT ![p] = h]
    BY <1>1 DEF CreateOrder, Accept, Reject, Cancel, StartRejection, Start, Working
  <2>2. ~Dispatching(p, o)
    BY <2>1 DEF Dispatching, Idle, Handler
  <2> QED
    BY <1>0, <2>1, <2>2, OneHandlerKept
<1>2. ASSUME NEW x \in Order,
             \/ \E s \in OverrideStatuses : OverrideOrderStatus(x, s)
             \/ \E r \in Rider : ReassignOrder(x, r) \/ ChangeRiderFleet(r)
      PROVE  Evidence(o)'
  <2>1. /\ task' = task /\ timeouts' = timeouts /\ candidates' = candidates
        /\ disturbed' = disturbed
    BY <1>2 DEF OverrideOrderStatus, ReassignOrder, ChangeRiderFleet
  <2> QED
    BY <2>1, EvidenceKept DEF Dispatching
<1>3. ASSUME NEW p \in Proc,
             \/ FindNobody(p) \/ FindRiders(p) \/ AcceptDelKey(p)
             \/ AcceptUpdate(p) \/ CancelUpdate(p) \/ ExhaustEmit(p)
      PROVE  Evidence(o)'
  <2>1. /\ timeouts' = timeouts /\ candidates' = candidates
        /\ disturbed' = disturbed
        /\ \E h : task' = [task EXCEPT ![p] = h]
    BY <1>3 DEF FindNobody, FindRiders, AcceptDelKey, AcceptUpdate, CancelUpdate,
                ExhaustEmit, Finish, Move
  <2>2. ~Dispatching(p, o)
    BY <1>3 DEF Dispatching, FindNobody, FindRiders, AcceptDelKey, AcceptUpdate,
                CancelUpdate, ExhaustEmit
  <2> QED
    BY <1>0, <2>1, <2>2, OneHandlerKept
<1>4. ASSUME NEW p \in Proc, SetOffer(p) \/ EmitJobRequest(p) \/ RejectDelKey(p)
      PROVE  Evidence(o)'
  <2>1. /\ timeouts' = timeouts /\ candidates' = candidates
        /\ disturbed' = disturbed
    BY <1>4 DEF SetOffer, EmitJobRequest, RejectDelKey
  <2>2. PICK pc \in {"emit", "enqueue", "reject_list"} :
          task' = [task EXCEPT ![p].pc = pc]
    BY <1>4 DEF SetOffer, EmitJobRequest, RejectDelKey, Move
  <2>3. task'[p].pc = pc /\ task'[p].order = task[p].order
    BY <1>0, <2>2 DEF Task
  <2>4. Dispatching(p, o) => Dispatching(p, o)'
    BY <2>2, <2>3 DEF Dispatching
  <2> QED
    BY <1>0, <2>1, <2>2, <2>4, OneHandlerKept
<1>5. ASSUME NEW p \in Proc, RejectReadList(p)
      PROVE  Evidence(o)'
  <2>1. /\ timeouts' = timeouts /\ candidates' = candidates
        /\ disturbed' = disturbed
    BY <1>5 DEF RejectReadList
  <2> DEFINE rest == Remaining(candidates[task[p].order], task[p].rider)
             pc == IF rest = <<>> THEN "exhaust_del" ELSE "store"
  <2>2. task' = [task EXCEPT ![p].pc = pc, ![p].rest = rest]
    BY <1>5 DEF RejectReadList
  <2>3. pc \in {"exhaust_del", "store"}
    OBVIOUS
  <2> HIDE DEF rest, pc
  <2>4. task'[p].pc = pc /\ task'[p].order = task[p].order
    BY <1>0, <2>2 DEF Task
  <2>5. Dispatching(p, o) => Dispatching(p, o)'
    BY <2>3, <2>4 DEF Dispatching
  <2> QED
    BY <1>0, <2>1, <2>2, <2>5, OneHandlerKept
<1>6. ASSUME NEW p \in Proc, StoreCandidates(p)
      PROVE  Evidence(o)'
  <2>1. /\ timeouts' = timeouts /\ disturbed' = disturbed
        /\ candidates' = [candidates EXCEPT ![task[p].order] = task[p].rest]
    BY <1>6 DEF StoreCandidates
  <2>2. /\ task'[p].pc = "request" /\ task'[p].order = task[p].order
        /\ \A q \in Proc \ {p} : task'[q] = task[q]
    BY <1>0, <1>6 DEF StoreCandidates, Task
  <2>3. CASE o = task[p].order
    BY <2>2, <2>3 DEF Evidence, Dispatching
  <2>4. CASE o # task[p].order
    <3>1. candidates[o] # <<>>
      BY <1>0, <2>1, <2>4
    <3>2. ~Dispatching(p, o)
      BY <2>4 DEF Dispatching
    <3> QED
      BY <2>1, <2>2, <3>1, <3>2, OneHandlerKept
  <2> QED
    BY <2>3, <2>4
<1>7. ASSUME NEW p \in Proc, AddTimeout(p)
      PROVE  Evidence(o)'
  <2>1. /\ task[p].order \in Order /\ task[p].rider \in Rider
        /\ candidates' = candidates /\ disturbed' = disturbed
        /\ task' = [task EXCEPT ![p] = Idle]
        /\ timeouts' = [timeouts EXCEPT
                          ![task[p].order][task[p].rider][MATCH_TTL] = @ + 1]
    BY <1>0, <1>7 DEF AddTimeout, LocalsOK, RiderPC, Finish
  <2>2. CASE o = task[p].order
    <3>1. timeouts[o][task[p].rider][MATCH_TTL] \in Nat
      BY <1>0, <2>1, DelayEnds
    <3>2. timeouts'[o][task[p].rider][MATCH_TTL] > 0
      BY <1>0, <2>1, <2>2, <3>1, DelayEnds
    <3> QED
      BY <2>1, <3>2, DelayEnds DEF Evidence
  <2>3. CASE o # task[p].order
    <3>1. timeouts'[o] = timeouts[o] /\ ~Dispatching(p, o)
      BY <1>0, <2>1, <2>3 DEF Dispatching
    <3> QED
      BY <1>0, <2>1, <3>1, OneHandlerKept
  <2> QED
    BY <2>2, <2>3
<1>8. ASSUME NEW p \in Proc,
             AcceptDelList(p) \/ RejectNoList(p) \/ ExhaustDelList(p)
      PROVE  Evidence(o)'
  <2>1. /\ timeouts' = timeouts /\ disturbed' = disturbed
        /\ task[p].order \in Order
        /\ \E h : task' = [task EXCEPT ![p] = h]
        /\ candidates' = [candidates EXCEPT ![task[p].order] = <<>>]
    BY <1>0, <1>8 DEF AcceptDelList, RejectNoList, ExhaustDelList, Finish, Move,
                      LocalsOK
  <2>2. o # task[p].order /\ candidates[o] # <<>>
    BY <1>0, <2>1
  <2>3. ~Dispatching(p, o)
    BY <2>2 DEF Dispatching
  <2> QED
    BY <1>0, <2>1, <2>2, <2>3, OneHandlerKept
<1>9. ASSUME NEW p \in Proc, Fail(p)
      PROVE  Evidence(o)'
  <2>1. /\ timeouts' = timeouts /\ candidates' = candidates
        /\ disturbed' = disturbed \cup {task[p].order}
        /\ \E h : task' = [task EXCEPT ![p] = h]
    BY <1>9 DEF Fail, Finish
  <2>2. ~Dispatching(p, o)
    BY <2>1 DEF Dispatching
  <2> QED
    BY <1>0, <2>1, <2>2, OneHandlerKept
<1>10. ASSUME NEW p \in Proc, NEW x \in Order, NEW r \in Rider,
              WorkerTakes(p, x, r)
       PROVE  Evidence(o)'
  <2>1. /\ task[p] = Idle /\ candidates' = candidates /\ disturbed' = disturbed
        /\ timeouts' = [timeouts EXCEPT ![x][r][0] = @ - 1]
    BY <1>10 DEF WorkerTakes, Working
  <2>2. PICK pc \in {"reject_del", "reject_list"} :
          task' = [task EXCEPT ![p] = Handler(pc, x, r, r)]
    BY <1>10 DEF WorkerTakes, StartRejection, Start
  <2>3. CASE x = o
    <3>1. task'[p] = Handler(pc, x, r, r)
      BY <1>0, <2>2
    <3> QED
      BY <2>2, <2>3, <3>1 DEF Evidence, Dispatching, Handler
  <2>4. CASE x # o
    <3>1. timeouts'[o] = timeouts[o] /\ ~Dispatching(p, o)
      BY <1>0, <2>1, <2>4 DEF Dispatching, Idle, Handler
    <3> QED
      BY <1>0, <2>1, <2>2, <3>1, OneHandlerKept
  <2> QED
    BY <2>3, <2>4
<1>11. CASE Tick
  <2>1. /\ task' = task /\ disturbed' = disturbed /\ candidates[o] # <<>>
        /\ \A r \in Rider : timeouts'[o][r] = Sooner(timeouts[o][r])
    BY <1>0, <1>11 DEF Tick
  <2>2. ASSUME NEW r \in Rider, NEW d \in Delay, timeouts[o][r][d] > 0
        PROVE  \E e \in Delay : timeouts'[o][r][e] > 0
    <3>1. timeouts[o][r] \in [Delay -> Nat] /\ timeouts'[o][r] = Sooner(timeouts[o][r])
      BY <1>0, <2>1
    <3>2. Countdown(d) \in Delay /\ Sooner(timeouts[o][r])[Countdown(d)] > 0
      BY <2>2, <3>1, SoonerKeeps
    <3> QED
      BY <3>1, <3>2
  <2> QED
    BY <2>1, <2>2, EvidenceKept DEF Dispatching
<1>12. CASE Crash
  <2>1. /\ candidates' = candidates
        /\ disturbed' = disturbed \cup
             {task[p].order : p \in {q \in Proc : Working(q)}}
    BY <1>12 DEF Crash
  <2>2. \A q \in Proc : ~Dispatching(q, o)
    BY <2>1 DEF Dispatching, Working, Idle, Handler
  <2>3. ASSUME NEW r \in Rider, NEW d \in Delay, timeouts[o][r][d] > 0
        PROVE  timeouts'[o][r][d] > 0
    <3>1. PICK n \in {0, 1} :
            timeouts'[o][r] = [timeouts[o][r] EXCEPT ![0] = @ + n]
      BY <1>0, <1>12 DEF Crash
    <3> QED
      BY <1>0, <2>3, <3>1, DelayEnds
  <2> QED
    BY <2>1, <2>2, <2>3, EvidenceKept
<1>13. CASE UNCHANGED vars
  BY <1>13, EvidenceKept DEF vars, Dispatching
<1>14. ASSUME NEW p \in Proc, Step(p) \/ Fail(p)
       PROVE  Evidence(o)'
  <2>1. CASE \/ FindNobody(p) \/ FindRiders(p) \/ AcceptDelKey(p)
             \/ AcceptUpdate(p) \/ CancelUpdate(p) \/ ExhaustEmit(p)
    BY <2>1, <1>3
  <2>2. CASE \/ SetOffer(p) \/ EmitJobRequest(p) \/ RejectDelKey(p)
             \/ RejectReadList(p) \/ StoreCandidates(p) \/ AddTimeout(p)
    BY <2>2, <1>4, <1>5, <1>6, <1>7
  <2>3. CASE \/ AcceptDelList(p) \/ RejectNoList(p) \/ ExhaustDelList(p)
             \/ Fail(p)
    BY <2>3, <1>8, <1>9
  <2> QED
    BY <1>14, <2>1, <2>2, <2>3 DEF Step
<1> QED
  BY <1>1, <1>2, <1>10, <1>11, <1>12, <1>13, <1>14 DEF Next, Call, Worker

\* As long as nothing throws or crashes while it is dispatched, an order whose
\* list still holds riders has a timeout in the queue or a handler at work, for
\* any number of orders, riders and handlers.
THEOREM DispatchNeverStalls == Spec => []DispatchGoesOn
<1>1. Init => GoesOnInv
  BY InitType DEF GoesOnInv, DispatchGoesOn, Init
<1>2. Spec => []GoesOnInv
  BY <1>1, GoesOnStep, PTL DEF Spec
<1>3. GoesOnInv => DispatchGoesOn
  BY DEF GoesOnInv
<1> QED
  BY <1>2, <1>3, PTL

-----------------------------------------------------------------------------
(* Every open offer is covered by a timeout.  With the types this is       *)
(* inductive: a job and the key it covers count down together, and the     *)
(* worker takes jobs only when they are due, when the key is gone.         *)

CoverInv == TypeInv /\ TimeoutCoversOffer

\* what covers the offer of o to r: a job that outlasts it, or a handler that
\* will add one
Covered(o, r) ==
    \/ \E d \in Delay : d >= offer[o][r] /\ timeouts[o][r][d] > 0
    \/ \E p \in Proc : /\ task[p].pc \in {"emit", "enqueue"}
                       /\ task[p].order = o
                       /\ task[p].rider = r

\* An offer stays covered when it does not grow, its jobs stay, and so does the
\* handler that is about to add one.
LEMMA CoverKept ==
    ASSUME CoverInv, NEW o \in Order, NEW r \in Rider,
           o \notin disturbed, OfferLive(o, r)',
           offer'[o][r] = offer[o][r],
           \A d \in Delay : timeouts[o][r][d] > 0 /\ d > 0 =>
                              timeouts'[o][r][d] > 0,
           \A p \in Proc : /\ task[p].pc \in {"emit", "enqueue"}
                           /\ task[p].order = o
                           /\ task[p].rider = r
                           => /\ task'[p].pc \in {"emit", "enqueue"}
                              /\ task'[p].order = o
                              /\ task'[p].rider = r
    PROVE  Covered(o, r)'
<1>1. OfferLive(o, r) /\ offer[o][r] \in Nat
  BY DEF OfferLive, CoverInv, TypeInv, TypeOK
<1>2. \A d \in Delay : d >= offer[o][r] => d > 0
  BY <1>1 DEF OfferLive, Delay
<1> QED
  BY <1>1, <1>2 DEF CoverInv, TimeoutCoversOffer, Covered

\* No step opens an offer without a handler that will add its timeout, or takes
\* the timeout of one that is open.
LEMMA CoverStep == CoverInv /\ [Next]_vars => CoverInv'
<1> SUFFICES ASSUME CoverInv, [Next]_vars, NEW o \in Order, NEW r \in Rider,
                    o \notin disturbed', OfferLive(o, r)'
             PROVE  Covered(o, r)'
  BY TypeStep DEF CoverInv, TimeoutCoversOffer, Covered
<1>0. /\ TypeOK /\ TypeInv' /\ task \in [Proc -> Task] /\ disturbed \subseteq Order
      /\ offer \in [Order -> [Rider -> 0..MATCH_TTL]]
      /\ timeouts \in [Order -> [Rider -> [Delay -> Nat]]]
      /\ \A p \in Proc : LocalsOK(task[p]) /\ task[p] \in Task
  BY TypeStep DEF CoverInv, TypeInv, TypeOK, HandlerOK
<1> USE DEF rowVars, redisVars, historyVars, boundVars
\* a step that changes one handler, which was not about to add a timeout
<1>1. ASSUME NEW p \in Proc, task[p].pc \notin {"emit", "enqueue"},
             \E h : task' = [task EXCEPT ![p] = h],
             UNCHANGED <<offer, timeouts, disturbed>>
      PROVE  Covered(o, r)'
  <2>1. \A q \in Proc \ {p} : task'[q] = task[q]
    BY <1>0, <1>1
  <2> QED
    BY <1>1, <2>1, CoverKept
<1>2. ASSUME NEW p \in Proc, NEW x \in Order,
             \/ \E premium \in BOOLEAN : CreateOrder(p, x, premium)
             \/ \E s \in Rider : Accept(p, x, s) \/ Reject(p, x, s)
             \/ Cancel(p, x)
      PROVE  Covered(o, r)'
  <2>1. task[p].pc = "idle"
    BY <1>2, IdleIsTask DEF CreateOrder, Accept, Reject, Cancel, Working
  <2>2. /\ \E h : task' = [task EXCEPT ![p] = h]
        /\ UNCHANGED <<offer, timeouts, disturbed>>
    BY <1>2 DEF CreateOrder, Accept, Reject, Cancel, StartRejection, Start
  <2> QED
    BY <1>1, <2>1, <2>2
<1>3. ASSUME NEW p \in Proc,
             \/ FindNobody(p) \/ FindRiders(p) \/ StoreCandidates(p)
             \/ AcceptDelList(p) \/ AcceptUpdate(p) \/ RejectNoList(p)
             \/ RejectReadList(p) \/ ExhaustDelList(p) \/ ExhaustEmit(p)
             \/ CancelUpdate(p)
      PROVE  Covered(o, r)'
  <2>1. /\ \E h : task' = [task EXCEPT ![p] = h]
        /\ UNCHANGED <<offer, timeouts, disturbed>>
        /\ task[p].pc \notin {"emit", "enqueue"}
    BY <1>3 DEF FindNobody, FindRiders, StoreCandidates, AcceptDelList,
       AcceptUpdate, RejectNoList, RejectReadList, ExhaustDelList, ExhaustEmit,
       CancelUpdate, Finish, Move
  <2> QED
    BY <1>1, <2>1
<1>4. ASSUME NEW p \in Proc, SetOffer(p)
      PROVE  Covered(o, r)'
  <2>1. /\ task'[p].pc = "emit" /\ task'[p].order = task[p].order
        /\ task'[p].rider = task[p].rider
        /\ \A q \in Proc \ {p} : task'[q] = task[q]
        /\ task[p].pc = "request"
        /\ UNCHANGED <<timeouts, disturbed>>
    BY <1>0, <1>4 DEF SetOffer, Move, Task
  <2>2. CASE task[p].order = o /\ task[p].rider = r
    BY <2>1, <2>2 DEF Covered
  <2>3. CASE ~(task[p].order = o /\ task[p].rider = r)
    <3>1. offer'[o][r] = offer[o][r]
      BY <1>0, <1>4, <2>3 DEF SetOffer, LocalsOK, RiderPC
    <3> QED
      BY <2>1, <3>1, CoverKept
  <2> QED
    BY <2>2, <2>3
<1>5. ASSUME NEW p \in Proc, EmitJobRequest(p)
      PROVE  Covered(o, r)'
  <2>1. /\ task'[p].pc = "enqueue" /\ task'[p].order = task[p].order
        /\ task'[p].rider = task[p].rider
        /\ \A q \in Proc \ {p} : task'[q] = task[q]
        /\ UNCHANGED <<offer, timeouts, disturbed>>
    BY <1>0, <1>5 DEF EmitJobRequest, Move, Task
  <2> QED
    BY <2>1, CoverKept
<1>6. ASSUME NEW p \in Proc, AddTimeout(p)
      PROVE  Covered(o, r)'
  <2>1. /\ task[p].order \in Order /\ task[p].rider \in Rider
        /\ UNCHANGED <<offer, disturbed>>
        /\ \A q \in Proc \ {p} : task'[q] = task[q]
        /\ timeouts' = [timeouts EXCEPT
                          ![task[p].order][task[p].rider][MATCH_TTL] = @ + 1]
    BY <1>0, <1>6 DEF AddTimeout, LocalsOK, RiderPC, Finish
  <2>2. CASE task[p].order = o /\ task[p].rider = r
    <3>1. timeouts[o][r][MATCH_TTL] \in Nat /\ offer[o][r] <= MATCH_TTL
      BY <1>0, DelayEnds
    <3>2. timeouts'[o][r][MATCH_TTL] > 0
      BY <1>0, <2>1, <2>2, <3>1, DelayEnds
    <3> QED
      BY <2>1, <3>1, <3>2, DelayEnds DEF Covered
  <2>3. CASE ~(task[p].order = o /\ task[p].rider = r)
    <3>1. timeouts'[o][r] = timeouts[o][r]
      BY <1>0, <2>1, <2>3
    <3>2. /\ \A d \in Delay : timeouts'[o][r][d] = timeouts[o][r][d]
          /\ offer'[o][r] = offer[o][r] /\ o \notin disturbed
      BY <2>1, <3>1
    <3>3. ASSUME NEW q \in Proc, task[q].order = o, task[q].rider = r
          PROVE  task'[q] = task[q]
      BY <2>1, <2>3, <3>3
    <3> QED
      BY <3>2, <3>3, CoverKept, SMTT(30)
  <2> QED
    BY <2>2, <2>3
<1>7. ASSUME NEW p \in Proc, AcceptDelKey(p) \/ RejectDelKey(p)
      PROVE  Covered(o, r)'
  <2>1. /\ task[p].pc \notin {"emit", "enqueue"}
        /\ task[p].order \in Order /\ task[p].rider \in Rider
        /\ offer' = [offer EXCEPT ![task[p].order][task[p].rider] = 0]
        /\ \A q \in Proc \ {p} : task'[q] = task[q]
        /\ UNCHANGED <<timeouts, disturbed>>
    BY <1>0, <1>7 DEF AcceptDelKey, RejectDelKey, Move, LocalsOK, RiderPC
  <2>2. offer'[o][r] = offer[o][r]
    BY <1>0, <2>1 DEF OfferLive
  <2> QED
    BY <2>1, <2>2, CoverKept
<1>8. ASSUME NEW p \in Proc, Fail(p)
      PROVE  Covered(o, r)'
  <2>1. /\ task[p].order # o /\ o \notin disturbed
        /\ \A q \in Proc \ {p} : task'[q] = task[q]
        /\ UNCHANGED <<offer, timeouts>>
    BY <1>8 DEF Fail, Finish
  <2> QED
    BY <2>1, CoverKept
<1>9. ASSUME NEW p \in Proc, NEW x \in Order, NEW s \in Rider,
             WorkerTakes(p, x, s)
      PROVE  Covered(o, r)'
  <2>1. /\ task[p].pc = "idle" /\ UNCHANGED <<offer, disturbed>>
        /\ timeouts' = [timeouts EXCEPT ![x][s][0] = @ - 1]
        /\ \A q \in Proc \ {p} : task'[q] = task[q]
    BY <1>9, IdleIsTask DEF WorkerTakes, Working, StartRejection, Start
  <2>2. \A d \in Delay : d > 0 => timeouts'[o][r][d] = timeouts[o][r][d]
    BY <1>0, <2>1
  <2> QED
    BY <2>1, <2>2, CoverKept
<1>10. CASE Tick
  <2>1. /\ task' = task /\ disturbed' = disturbed
        /\ offer'[o][r] = Countdown(offer[o][r])
        /\ timeouts'[o][r] = Sooner(timeouts[o][r])
        /\ timeouts[o][r] \in [Delay -> Nat] /\ offer[o][r] \in Nat
    BY <1>0, <1>10 DEF Tick
  <2>2. OfferLive(o, r) /\ offer'[o][r] = offer[o][r] - 1
    BY <2>1 DEF OfferLive, Countdown
  <2>3. ASSUME NEW d \in Delay, d >= offer[o][r], timeouts[o][r][d] > 0
        PROVE  Covered(o, r)'
    <3>1. Countdown(d) \in Delay /\ timeouts'[o][r][Countdown(d)] > 0
      BY <2>1, <2>3, SoonerKeeps
    <3>2. Countdown(d) >= offer'[o][r]
      BY <2>1, <2>2, <2>3 DEF Countdown, Delay, OfferLive
    <3> QED
      BY <3>1, <3>2 DEF Covered
  <2> QED
    BY <2>1, <2>2, <2>3 DEF CoverInv, TimeoutCoversOffer, Covered
<1>11. CASE Crash
  <2>1. /\ UNCHANGED offer
        /\ disturbed' = disturbed \cup
             {task[p].order : p \in {q \in Proc : Working(q)}}
    BY <1>11 DEF Crash
  <2>2. \A q \in Proc : task[q].pc # "idle" => task[q].order # o
    BY <2>1, IdleIsTask DEF Working
  <2>3. \A d \in Delay : d > 0 => timeouts'[o][r][d] = timeouts[o][r][d]
    BY <1>0, <1>11 DEF Crash
  <2> QED
    BY <2>1, <2>2, <2>3, CoverKept
<1>12. CASE UNCHANGED <<offer, timeouts, disturbed, task>>
  BY <1>12, CoverKept
<1>13. CASE UNCHANGED vars
  BY <1>12, <1>13 DEF vars
<1>14. ASSUME NEW x \in Order,
              \/ \E s \in OverrideStatuses : OverrideOrderStatus(x, s)
              \/ \E s \in Rider : ReassignOrder(x, s) \/ ChangeRiderFleet(s)
       PROVE  Covered(o, r)'
  BY <1>12, <1>14 DEF OverrideOrderStatus, ReassignOrder, ChangeRiderFleet
<1>15. ASSUME NEW p \in Proc, Step(p) \/ Fail(p)
       PROVE  Covered(o, r)'
  <2>1. CASE \/ FindNobody(p) \/ FindRiders(p) \/ StoreCandidates(p)
             \/ AcceptDelList(p) \/ AcceptUpdate(p) \/ RejectNoList(p)
             \/ RejectReadList(p) \/ ExhaustDelList(p) \/ ExhaustEmit(p)
             \/ CancelUpdate(p)
    BY <2>1, <1>3
  <2>2. CASE \/ SetOffer(p) \/ EmitJobRequest(p) \/ AddTimeout(p)
             \/ AcceptDelKey(p) \/ RejectDelKey(p) \/ Fail(p)
    BY <2>2, <1>4, <1>5, <1>6, <1>7, <1>8
  <2> QED
    BY <1>15, <2>1, <2>2 DEF Step
<1> QED
  BY <1>2, <1>9, <1>10, <1>11, <1>13, <1>14, <1>15 DEF Next, Call, Worker

\* No offer lapses unnoticed: while a rider may still accept, a timeout that
\* outlasts the offer is queued or about to be, however accepts, refusals and
\* earlier timeouts interleave.
THEOREM OffersAreCovered == Spec => []TimeoutCoversOffer
<1>1. Init => CoverInv
  BY InitType DEF CoverInv, TimeoutCoversOffer, OfferLive, Init
<1>2. Spec => []CoverInv
  BY <1>1, CoverStep, PTL DEF Spec
<1>3. CoverInv => TimeoutCoversOffer
  BY DEF CoverInv
<1> QED
  BY <1>2, <1>3, PTL

-----------------------------------------------------------------------------
(* The rider of an order is one whom findMatch found.  Keys, handlers and  *)
(* the row name riders of the shortlist only, which is written once, with  *)
(* the fleet of that time, before anything is derived from it; and         *)
(* isPremium changes only when there is no shortlist yet.                  *)

\* the riders findMatch found for an order
Found(o) == ToSet(shortlist[o])

OrderElig(o) ==
    /\ isPremium[o] => Found(o) \subseteq fleetThen[o]
    /\ \A r \in Rider : OfferLive(o, r) => r \in Found(o)
    /\ riderId[o] # NoRider /\ o \notin reassigned => riderId[o] \in Found(o)

TaskElig(t) ==
    t.pc \in {"request", "emit", "enqueue", "accept_delkey", "accept_dellist",
              "accept_update"} => t.rider \in Found(t.order)

EligInv == /\ RankingInv
           /\ \A o \in Order : OrderElig(o)
           /\ \A p \in Proc : TaskElig(task[p])

\* What EligInv says of the other slots survives a step that takes no rider off a
\* shortlist.
LEMMA OthersElig ==
    ASSUME EligInv, RankingInv', NEW p \in Proc, NEW t, TaskElig(t)',
           task' = [task EXCEPT ![p] = t],
           \A o \in Order : Found(o) \subseteq Found(o)',
           \A o \in Order : OrderElig(o)'
    PROVE  EligInv'
<1>1. task \in [Proc -> Task] /\ \A q \in Proc : LocalsOK(task[q])
  BY DEF EligInv, RankingInv, TypeInv, TypeOK, HandlerOK
<1>2. ASSUME NEW q \in Proc
      PROVE  TaskElig(task[q])'
  <2>1. CASE q = p
    BY <1>1, <2>1 DEF TaskElig
  <2>2. CASE q # p
    <3>1. task'[q] = task[q] /\ TaskElig(task[q]) /\ LocalsOK(task[q])
      BY <1>1, <2>2 DEF EligInv
    <3>2. task[q].pc # "idle" => task[q].order \in Order
      BY <3>1 DEF LocalsOK
    <3> QED
      BY <3>1, <3>2 DEF TaskElig, Found
  <2> QED
    BY <2>1, <2>2
<1> QED
  BY <1>2 DEF EligInv

\* the variables that eligibility is about, the keys apart
eligVars == <<riderId, isPremium, shortlist, fleetThen, reassigned>>

\* the keys that are there after the step were there before
NoKeyAdded == \A o \in Order, r \in Rider : OfferLive(o, r)' => OfferLive(o, r)

\* So it does when only a handler moves and keys are deleted or expire.
LEMMA MoveElig ==
    ASSUME EligInv, RankingInv', UNCHANGED eligVars, NoKeyAdded,
           NEW p \in Proc, NEW t, TaskElig(t),
           task' = [task EXCEPT ![p] = t]
    PROVE  EligInv'
<1>1. \A o \in Order : OrderElig(o)'
  BY DEF EligInv, OrderElig, Found, eligVars, NoKeyAdded
<1>2. TaskElig(t)'
  BY DEF TaskElig, Found, eligVars
<1>3. \A o \in Order : Found(o) \subseteq Found(o)'
  BY DEF eligVars, Found
<1> QED
  BY <1>1, <1>2, <1>3, OthersElig

\* The head of a list that a handler is about to store was found.
LEMMA HeadIsFound ==
    ASSUME EligInv, NEW p \in Proc, task[p].pc = "store"
    PROVE  Head(task[p].rest) \in Found(task[p].order)
<1> DEFINE o == task[p].order
           s == task[p].rest
           list == shortlist[o]
<1>1. /\ o \in Order /\ s \in Seq(Rider) /\ s # <<>> /\ list \in Seq(Rider)
      /\ IsTailOf(s, list)
  <2>1. LocalsOK(task[p]) /\ task[p] \in Task
    BY DEF EligInv, RankingInv, TypeInv, TypeOK, HandlerOK
  <2> QED
    BY <2>1 DEF EligInv, RankingInv, TypeInv, TypeOK, LocalsOK, Task
<1> HIDE DEF o, s, list
<1>2. Len(s) \in Nat /\ Len(s) > 0 /\ Len(list) \in Nat /\ Head(s) = s[1]
  BY <1>1
<1>3. Len(s) <= Len(list) /\ s[1] = list[Len(list) - Len(s) + 1]
  BY <1>1, <1>2 DEF IsTailOf
<1>4. Len(list) - Len(s) + 1 \in 1..Len(list)
  BY <1>2, <1>3
<1>5. DOMAIN list = 1..Len(list)
  BY <1>1
<1>6. s[1] \in ToSet(list)
  BY <1>3, <1>4, <1>5 DEF ToSet
<1> QED
  BY <1>2, <1>6 DEF o, s, list, Found

\* findMatch filters, and requestRider, riderAccepted and riderRejected only hand on
\* what it filtered.
LEMMA EligStep == EligInv /\ [Next]_vars => EligInv'
<1> SUFFICES ASSUME EligInv, [Next]_vars
             PROVE  EligInv'
  OBVIOUS
<1>0. /\ TypeOK /\ task \in [Proc -> Task] /\ RankingInv /\ RankingInv'
      /\ \A p \in Proc : LocalsOK(task[p]) /\ task[p] \in Task
      /\ \A p \in Proc : TaskElig(task[p])
      /\ \A x \in Order : OrderElig(x)
      /\ NoRider \notin Rider
  BY RankingStep, NoneAssumption
     DEF EligInv, RankingInv, TypeInv, TypeOK, HandlerOK
<1> USE DEF rowVars, redisVars, historyVars, boundVars
\* handlers that move to an await where they hold no rider, and change nothing
\* that eligibility is about
<1>1. ASSUME NEW p \in Proc, NEW t, UNCHANGED eligVars, NoKeyAdded,
             task' = [task EXCEPT ![p] = t],
             t.pc \notin {"request", "emit", "enqueue", "accept_delkey",
                          "accept_dellist", "accept_update"}
      PROVE  EligInv'
  <2>1. TaskElig(t)
    BY <1>1 DEF TaskElig
  <2> QED
    BY <1>0, <1>1, <2>1, MoveElig
<1>2. ASSUME NEW p \in Proc, NEW x \in Order, NEW premium \in BOOLEAN,
             CreateOrder(p, x, premium)
      PROVE  EligInv'
  <2> DEFINE t == Handler("query", x, NoRider, NoRider)
  <2>1. /\ status[x] = "NONE" /\ task' = [task EXCEPT ![p] = t]
        /\ UNCHANGED <<riderId, shortlist, fleetThen, reassigned, offer>>
        /\ \A y \in Order \ {x} : isPremium'[y] = isPremium[y]
    BY <1>0, <1>2 DEF CreateOrder, Start, TypeOK
  <2>2. shortlist[x] = <<>> /\ Found(x) = {}
    <3>1. shortlist[x] = <<>>
      BY <1>0, <2>1 DEF RankingInv
    <3> QED
      BY <3>1 DEF Found, ToSet
  <2>3. ASSUME NEW y \in Order
        PROVE  OrderElig(y)'
    <3>1. OrderElig(y) /\ Found(y)' = Found(y)
      BY <1>0, <2>1 DEF Found
    <3>2. CASE y = x
      BY <2>1, <2>2, <3>1, <3>2 DEF OrderElig, OfferLive
    <3>3. CASE y # x
      BY <2>1, <3>1, <3>3 DEF OrderElig, OfferLive
    <3> QED
      BY <3>2, <3>3
  <2>4. TaskElig(t)'
    BY DEF TaskElig, Handler
  <2>5. \A y \in Order : Found(y) \subseteq Found(y)'
    BY <2>1 DEF Found
  <2> HIDE DEF t
  <2> QED
    BY <1>0, <2>1, <2>3, <2>4, <2>5, OthersElig
<1>3. ASSUME NEW p \in Proc, FindRiders(p)
      PROVE  EligInv'
  <2> DEFINE x == task[p].order
  <2>1. x \in Order /\ task[p].pc = "query"
    BY <1>0, <1>3 DEF FindRiders, LocalsOK
  <2>2. PICK nearby \in SUBSET Rider :
          \E ranking \in SetToSeqs(Eligible(x, nearby)) :
            /\ shortlist' = [shortlist EXCEPT ![x] = ranking]
            /\ task' = [task EXCEPT ![p].pc = "store", ![p].rest = ranking]
    BY <1>3 DEF FindRiders
  <2>3. /\ Eligible(x, nearby) \in SUBSET Rider
        /\ isPremium[x] => Eligible(x, nearby) \subseteq fleet
    BY DEF Eligible
  <2>4. PICK ranking \in Seq(Eligible(x, nearby)) :
            /\ shortlist' = [shortlist EXCEPT ![x] = ranking]
            /\ task' = [task EXCEPT ![p].pc = "store", ![p].rest = ranking]
    BY <2>2, <2>3, RankingIsSeq
  <2>5. isPremium[x] => ToSet(ranking) \subseteq fleet
    <3>1. \A i \in DOMAIN ranking : ranking[i] \in Eligible(x, nearby)
      BY <2>4
    <3> QED
      BY <2>3, <3>1 DEF ToSet
  <2>6. /\ UNCHANGED <<riderId, isPremium, reassigned, offer>>
        /\ fleetThen' = [fleetThen EXCEPT ![x] = fleet]
    BY <1>3 DEF FindRiders
  <2>7. Found(x) = {}
    <3>1. shortlist[x] = <<>>
      BY <1>0, <2>1 DEF RankingInv
    <3> QED
      BY <3>1 DEF Found, ToSet
  <2>8. ASSUME NEW y \in Order
        PROVE  OrderElig(y)' /\ Found(y) \subseteq Found(y)'
    <3>1. /\ shortlist'[y] = IF y = x THEN ranking ELSE shortlist[y]
          /\ fleetThen'[y] = IF y = x THEN fleet ELSE fleetThen[y]
      BY <1>0, <2>1, <2>4, <2>6 DEF TypeOK
    <3>2. OrderElig(y)
      BY <1>0
    <3>3. CASE y = x
      BY <2>5, <2>6, <2>7, <3>1, <3>2, <3>3 DEF OrderElig, Found, OfferLive
    <3>4. CASE y # x
      BY <2>6, <3>1, <3>2, <3>4 DEF OrderElig, Found, OfferLive
    <3> QED
      BY <3>3, <3>4
  <2>9. PICK t : task' = [task EXCEPT ![p] = t] /\ t.pc = "store"
    <3> DEFINE u == [task[p] EXCEPT !.pc = "store", !.rest = ranking]
    <3>1. task' = [task EXCEPT ![p] = u] /\ u.pc = "store"
      BY <1>0, <2>4 DEF Task
    <3> QED
      BY <3>1
  <2>10. TaskElig(t)'
    BY <2>9 DEF TaskElig
  <2> QED
    BY <1>0, <2>8, <2>9, <2>10, OthersElig
<1>4. ASSUME NEW p \in Proc, SetOffer(p)
      PROVE  EligInv'
  <2>0. PICK t : t = [task[p] EXCEPT !.pc = "emit"]
    OBVIOUS
  <2> DEFINE x == t.order
             r == t.rider
  <2>1. /\ x \in Order /\ r \in Found(x)
        /\ UNCHANGED eligVars
        /\ offer' = [offer EXCEPT ![x][r] = MATCH_TTL]
        /\ task' = [task EXCEPT ![p] = t]
        /\ t.pc = "emit"
    BY <1>0, <1>4, <2>0 DEF SetOffer, Move, LocalsOK, TaskElig, Task, RiderPC, eligVars
  <2>2. \A y \in Order : Found(y)' = Found(y)
    BY <2>1 DEF Found, eligVars
  <2>3. ASSUME NEW y \in Order
        PROVE  OrderElig(y)'
    <3>1. \A s \in Rider : OfferLive(y, s)' => OfferLive(y, s) \/ (y = x /\ s = r)
      BY <1>0, <2>1 DEF OfferLive, TypeOK
    <3> QED
      BY <1>0, <2>1, <2>2, <3>1 DEF OrderElig, eligVars
  <2>4. TaskElig(t)'
    BY <2>1, <2>2 DEF TaskElig
  <2> QED
    BY <1>0, <2>1, <2>2, <2>3, <2>4, OthersElig
<1>5. ASSUME NEW p \in Proc, StoreCandidates(p)
      PROVE  EligInv'
  <2> DEFINE t == [task[p] EXCEPT !.pc = "request", !.rider = Head(task[p].rest),
                                  !.rest = <<>>]
  <2>1. /\ UNCHANGED eligVars /\ NoKeyAdded /\ task[p].pc = "store"
        /\ task' = [task EXCEPT ![p] = t]
        /\ t.pc = "request" /\ t.order = task[p].order
        /\ t.rider = Head(task[p].rest)
    BY <1>0, <1>5 DEF StoreCandidates, eligVars, Task, NoKeyAdded, OfferLive
  <2> HIDE DEF t
  <2>2. TaskElig(t)
    BY <1>0, <2>1, HeadIsFound DEF TaskElig
  <2> QED
    BY <1>0, <2>1, <2>2, MoveElig
<1>6. ASSUME NEW p \in Proc, EmitJobRequest(p) \/ AcceptDelKey(p) \/ AcceptDelList(p)
      PROVE  EligInv'
  <2>1. PICK pc \in {"enqueue", "accept_dellist", "accept_update"} :
          /\ Move(p, pc)
          /\ task[p].pc \in {"emit", "accept_delkey", "accept_dellist"}
    BY <1>6 DEF EmitJobRequest, AcceptDelKey, AcceptDelList
  <2> DEFINE t == [task[p] EXCEPT !.pc = pc]
  <2>2. /\ task' = [task EXCEPT ![p] = t]
        /\ t.pc = pc /\ t.order = task[p].order /\ t.rider = task[p].rider
    BY <1>0, <2>1 DEF Move, Task
  <2> HIDE DEF t
  <2>3. TaskElig(t)
    BY <1>0, <2>1, <2>2 DEF TaskElig
  <2>4. UNCHANGED eligVars
    BY <1>6 DEF EmitJobRequest, AcceptDelKey, AcceptDelList, eligVars
  <2>5. NoKeyAdded
    <3>1. CASE EmitJobRequest(p) \/ AcceptDelList(p)
      BY <3>1 DEF EmitJobRequest, AcceptDelList, NoKeyAdded, OfferLive
    <3>2. CASE AcceptDelKey(p)
      BY <1>0, <3>2 DEF AcceptDelKey, NoKeyAdded, OfferLive, TypeOK
    <3> QED
      BY <1>6, <3>1, <3>2
  <2> QED
    BY <1>0, <2>2, <2>3, <2>4, <2>5, MoveElig
<1>7. ASSUME NEW p \in Proc, NEW x \in Order, NEW r \in Rider, Accept(p, x, r)
      PROVE  EligInv'
  <2> DEFINE t == Handler("accept_delkey", x, r, NoRider)
  <2>1. /\ UNCHANGED eligVars /\ NoKeyAdded
        /\ task' = [task EXCEPT ![p] = t]
    BY <1>7 DEF Accept, Start, eligVars, NoKeyAdded, OfferLive
  <2>2. TaskElig(t)
    BY <1>0, <1>7 DEF Accept, TaskElig, Handler, OrderElig
  <2> HIDE DEF t
  <2> QED
    BY <1>0, <2>1, <2>2, MoveElig
<1>8. ASSUME NEW p \in Proc, AcceptUpdate(p)
      PROVE  EligInv'
  <2> DEFINE x == task[p].order
             r == task[p].rider
  <2>1. /\ x \in Order /\ r \in Found(x)
        /\ task' = [task EXCEPT ![p] = Idle]
        /\ riderId' = [riderId EXCEPT ![x] = r]
        /\ UNCHANGED <<isPremium, shortlist, fleetThen, reassigned, offer>>
    BY <1>0, <1>8 DEF AcceptUpdate, LocalsOK, TaskElig, Finish
  <2> HIDE DEF x, r
  <2>2. \A y \in Order : Found(y)' = Found(y)
    BY <2>1 DEF Found
  <2>3. ASSUME NEW y \in Order
        PROVE  OrderElig(y)'
    <3>1. riderId'[y] = IF y = x THEN r ELSE riderId[y]
      BY <1>0, <2>1 DEF TypeOK
    <3> QED
      BY <1>0, <2>1, <2>2, <3>1 DEF OrderElig, OfferLive
  <2>4. TaskElig(Idle)'
    BY DEF TaskElig, Idle, Handler
  <2> QED
    BY <1>0, <2>1, <2>2, <2>3, <2>4, OthersElig
<1>9. ASSUME NEW x \in Order,
             \/ \E s \in OverrideStatuses : OverrideOrderStatus(x, s)
             \/ \E s \in Rider : ReassignOrder(x, s)
       PROVE  EligInv'
  <2>1. /\ UNCHANGED <<isPremium, shortlist, fleetThen, offer, task>>
        /\ reassigned \subseteq reassigned'
    BY <1>9 DEF OverrideOrderStatus, ReassignOrder
  <2>2. ASSUME NEW y \in Order
        PROVE  y \in reassigned' \/ riderId'[y] = riderId[y]
    BY <1>0, <1>9 DEF OverrideOrderStatus, ReassignOrder, TypeOK
  <2>3. \A y \in Order : Found(y)' = Found(y)
    BY <2>1 DEF Found
  <2>4. ASSUME NEW y \in Order
        PROVE  OrderElig(y)'
    BY <1>0, <2>1, <2>2, <2>3 DEF OrderElig, OfferLive
  <2>5. ASSUME NEW q \in Proc
        PROVE  TaskElig(task[q])'
    <3>1. task'[q] = task[q] /\ TaskElig(task[q])
      BY <1>0, <2>1
    <3> QED
      BY <2>1, <3>1 DEF TaskElig, Found
  <2> QED
    BY <1>0, <2>4, <2>5 DEF EligInv
<1>10. ASSUME NEW p \in Proc, NEW x \in Order,
              \/ \E r \in Rider : Reject(p, x, r) \/ WorkerTakes(p, x, r)
              \/ Cancel(p, x)
       PROVE  EligInv'
  <2>1. UNCHANGED eligVars /\ NoKeyAdded
    BY <1>10 DEF Reject, WorkerTakes, Cancel, eligVars, NoKeyAdded, OfferLive
  <2>2. PICK t : /\ task' = [task EXCEPT ![p] = t]
                 /\ t.pc \in {"reject_del", "reject_list", "cancel_update"}
    <3>1. \A pc, r, job : Handler(pc, x, r, job).pc = pc
      BY DEF Handler
    <3>2. CASE Cancel(p, x)
      <4> DEFINE t == Handler("cancel_update", x, NoRider, NoRider)
      <4>1. task' = [task EXCEPT ![p] = t] /\ t.pc = "cancel_update"
        BY <3>1, <3>2 DEF Cancel, Start
      <4> QED
        BY <4>1
    <3>3. ASSUME NEW r \in Rider, NEW job, StartRejection(p, x, r, job)
          PROVE  \E t : /\ task' = [task EXCEPT ![p] = t]
                        /\ t.pc \in {"reject_del", "reject_list"}
      <4> DEFINE pc == IF OfferLive(x, r) THEN "reject_del" ELSE "reject_list"
                 t == Handler(pc, x, r, job)
      <4>1. task' = [task EXCEPT ![p] = t]
        BY <3>3 DEF StartRejection, Start
      <4>2. t.pc \in {"reject_del", "reject_list"}
        BY <3>1
      <4> QED
        BY <4>1, <4>2
    <3> QED
      BY <1>10, <3>2, <3>3 DEF Reject, WorkerTakes
  <2> QED
    BY <1>1, <2>1, <2>2
<1>11. ASSUME NEW p \in Proc,
              \/ FindNobody(p) \/ AddTimeout(p) \/ RejectNoList(p)
              \/ ExhaustEmit(p) \/ CancelUpdate(p) \/ Fail(p)
       PROVE  EligInv'
  <2>1. UNCHANGED eligVars /\ NoKeyAdded /\ task' = [task EXCEPT ![p] = Idle]
    BY <1>11 DEF FindNobody, AddTimeout, RejectNoList, ExhaustEmit, CancelUpdate, Fail,
       Finish, eligVars, NoKeyAdded, OfferLive
  <2> QED
    BY <1>1, <2>1, IdleIsTask
<1>12. ASSUME NEW p \in Proc,
              RejectDelKey(p) \/ RejectReadList(p) \/ ExhaustDelList(p)
       PROVE  EligInv'
  <2>1. UNCHANGED eligVars
    BY <1>12 DEF RejectDelKey, RejectReadList, ExhaustDelList, eligVars
  <2>k. NoKeyAdded
    <3>1. CASE RejectReadList(p) \/ ExhaustDelList(p)
      BY <3>1 DEF RejectReadList, ExhaustDelList, NoKeyAdded, OfferLive
    <3>2. CASE RejectDelKey(p)
      BY <1>0, <3>2 DEF RejectDelKey, NoKeyAdded, OfferLive, TypeOK
    <3> QED
      BY <1>12, <3>1, <3>2
  <2>2. PICK pc \in {"reject_list", "exhaust_del", "store", "exhaust_emit"} :
          \/ task' = [task EXCEPT ![p].pc = pc]
          \/ \E rest : task' = [task EXCEPT ![p].pc = pc, ![p].rest = rest]
    BY <1>12 DEF RejectDelKey, RejectReadList, ExhaustDelList, Move
  <2>3. PICK t : /\ task' = [task EXCEPT ![p] = t]
                 /\ t.pc = pc
    <3>1. CASE task' = [task EXCEPT ![p].pc = pc]
      <4> DEFINE u == [task[p] EXCEPT !.pc = pc]
      <4>1. task' = [task EXCEPT ![p] = u] /\ u.pc = pc
        BY <1>0, <3>1 DEF Task
      <4> QED
        BY <4>1
    <3>2. ASSUME NEW rest, task' = [task EXCEPT ![p].pc = pc, ![p].rest = rest]
          PROVE  \E t : task' = [task EXCEPT ![p] = t] /\ t.pc = pc
      <4> DEFINE u == [task[p] EXCEPT !.pc = pc, !.rest = rest]
      <4>1. task' = [task EXCEPT ![p] = u] /\ u.pc = pc
        BY <1>0, <3>2 DEF Task
      <4> QED
        BY <4>1
    <3> QED
      BY <2>2, <3>1, <3>2
  <2> QED
    BY <1>1, <2>1, <2>k, <2>2, <2>3
\* no handler moves, or all are lost
<1>13. ASSUME UNCHANGED eligVars, NoKeyAdded,
              \A q \in Proc : task'[q] = task[q] \/ task'[q].pc = "idle"
       PROVE  EligInv'
  <2>1. \A y \in Order : OrderElig(y)'
    BY <1>0, <1>13 DEF OrderElig, Found, eligVars, NoKeyAdded
  <2>2. \A q \in Proc : TaskElig(task[q])'
    BY <1>0, <1>13 DEF TaskElig, Found, eligVars
  <2> QED
    BY <1>0, <2>1, <2>2 DEF EligInv
<1>14. CASE Crash
  BY <1>13, <1>14, IdleIsTask DEF Crash, eligVars, NoKeyAdded, OfferLive
<1>15. CASE UNCHANGED vars \/ \E r \in Rider : ChangeRiderFleet(r)
  BY <1>13, <1>15 DEF vars, ChangeRiderFleet, eligVars, NoKeyAdded, OfferLive
<1>16. CASE Tick
  <2>1. NoKeyAdded
    BY <1>0, <1>16 DEF Tick, NoKeyAdded, OfferLive, Countdown, TypeOK
  <2> QED
    BY <1>13, <1>16, <2>1 DEF Tick, eligVars
<1>17. ASSUME NEW p \in Proc, Step(p) \/ Fail(p)
       PROVE  EligInv'
  <2>1. CASE \/ FindNobody(p) \/ AddTimeout(p) \/ RejectNoList(p)
             \/ ExhaustEmit(p) \/ CancelUpdate(p) \/ Fail(p)
    BY <2>1, <1>11
  <2>2. CASE RejectDelKey(p) \/ RejectReadList(p) \/ ExhaustDelList(p)
    BY <2>2, <1>12
  <2>3. CASE EmitJobRequest(p) \/ AcceptDelKey(p) \/ AcceptDelList(p)
    BY <2>3, <1>6
  <2>4. CASE FindRiders(p) \/ SetOffer(p) \/ StoreCandidates(p) \/ AcceptUpdate(p)
    BY <2>4, <1>3, <1>4, <1>5, <1>8
  <2> QED
    BY <1>17, <2>1, <2>2, <2>3, <2>4 DEF Step
<1>18. CASE Call
  BY <1>18, <1>2, <1>7, <1>9, <1>10, <1>15 DEF Call
<1> QED
  BY <1>10, <1>14, <1>15, <1>16, <1>17, <1>18 DEF Next, Worker

\* It holds of every reachable state.
LEMMA EligHolds == Spec => []EligInv
<1>1. Init => EligInv
  <2> SUFFICES ASSUME Init PROVE EligInv
    OBVIOUS
  <2>1. \A o \in Order : OrderElig(o)
    BY DEF Init, OrderElig, OfferLive
  <2>2. \A p \in Proc : TaskElig(task[p])
    BY IdleIsTask DEF Init, TaskElig, Idle, Handler
  <2> QED
    BY <2>1, <2>2, InitRanking DEF EligInv
<1> QED
  BY <1>1, EligStep, PTL DEF Spec

-----------------------------------------------------------------------------
(* Steps that leave an order alone.  What concerns one order is changed by *)
(* its handlers, by the calls and jobs that start them, by an admin and by *)
(* time; so a claim about one order need be followed through these only.   *)

\* the history of overlaps, faults, early refusals and reassignments is never forgotten
LEMMA HistoryGrows ==
    ASSUME TypeInv, [Next]_vars
    PROVE  overlapped \subseteq overlapped' /\ disturbed \subseteq disturbed'
           /\ reassigned \subseteq reassigned' /\ skipped \subseteq skipped'
<1> USE DEF rowVars, redisVars, historyVars, boundVars
<1>1. ASSUME NEW p \in Proc, Step(p) \/ Fail(p)
      PROVE  /\ overlapped' = overlapped /\ disturbed \subseteq disturbed'
             /\ reassigned' = reassigned /\ skipped \subseteq skipped'
  BY <1>1 DEF Step, Fail, Finish, Move, FindNobody, FindRiders, StoreCandidates, SetOffer,
     EmitJobRequest, AddTimeout, AcceptDelKey, AcceptDelList, AcceptUpdate, RejectDelKey,
     RejectNoList, RejectReadList, ExhaustDelList, ExhaustEmit, CancelUpdate
<1>2. ASSUME NEW p \in Proc, NEW x \in Order,
             \/ \E premium \in BOOLEAN : CreateOrder(p, x, premium)
             \/ \E r \in Rider : Accept(p, x, r) \/ Reject(p, x, r) \/ WorkerTakes(p, x, r)
             \/ Cancel(p, x)
      PROVE  /\ overlapped \subseteq overlapped' /\ disturbed' = disturbed
             /\ reassigned' = reassigned /\ skipped' = skipped
  BY <1>2 DEF CreateOrder, Accept, Reject, WorkerTakes, Cancel, StartRejection, Start
<1>3. ASSUME NEW x \in Order,
             \/ \E s \in OverrideStatuses : OverrideOrderStatus(x, s)
             \/ \E r \in Rider : ReassignOrder(x, r)
      PROVE  /\ overlapped' = overlapped /\ disturbed' = disturbed
             /\ reassigned \subseteq reassigned' /\ skipped' = skipped
  BY <1>3 DEF OverrideOrderStatus, ReassignOrder
<1>4. CASE Tick \/ Crash \/ UNCHANGED vars \/ \E r \in Rider : ChangeRiderFleet(r)
  BY <1>4 DEF Tick, Crash, vars, ChangeRiderFleet
<1>5. CASE Call
  BY <1>2, <1>3, <1>4, <1>5 DEF Call
<1> QED
  BY <1>1, <1>2, <1>4, <1>5 DEF Next, Worker

\* Nothing that concerns o changes.
Untouched(o) ==
    /\ status'[o] = status[o] /\ riderId'[o] = riderId[o]
    /\ (o \in reassigned') <=> (o \in reassigned)
    /\ offer'[o] = offer[o] /\ candidates'[o] = candidates[o] /\ listTtl'[o] = listTtl[o]
    /\ timeouts'[o] = timeouts[o] /\ asked'[o] = asked[o] /\ shortlist'[o] = shortlist[o]
    /\ \A q \in Proc : task[q].order = o \/ task'[q].order = o => task'[q] = task[q]

\* A handler's step touches its own order only.
LEMMA StepElsewhere ==
    ASSUME TypeInv, NEW p \in Proc, Step(p) \/ Fail(p), NEW o \in Order, task[p].order # o
    PROVE  Untouched(o)
<1>0. /\ TypeOK /\ task \in [Proc -> Task] /\ Idle.order = NoOrder /\ NoOrder # o
  BY DEF TypeInv, TypeOK, Idle, Handler
<1> USE DEF rowVars, redisVars, historyVars, boundVars
<1>1. \A q \in Proc : task[q].order = o \/ task'[q].order = o => task'[q] = task[q]
  <2>1. ASSUME NEW pc, task' = [task EXCEPT ![p].pc = pc]
        PROVE  task'[p].order = task[p].order /\ \A q \in Proc \ {p} : task'[q] = task[q]
    BY <1>0, <2>1 DEF Task
  <2>2. ASSUME NEW pc, NEW rest, task' = [task EXCEPT ![p].pc = pc, ![p].rest = rest]
        PROVE  task'[p].order = task[p].order /\ \A q \in Proc \ {p} : task'[q] = task[q]
    BY <1>0, <2>2 DEF Task
  <2>3. ASSUME NEW pc, NEW r, NEW rest,
               task' = [task EXCEPT ![p].pc = pc, ![p].rider = r, ![p].rest = rest]
        PROVE  task'[p].order = task[p].order /\ \A q \in Proc \ {p} : task'[q] = task[q]
    BY <1>0, <2>3 DEF Task
  <2>4. ASSUME task' = [task EXCEPT ![p] = Idle]
        PROVE  task'[p].order = NoOrder /\ \A q \in Proc \ {p} : task'[q] = task[q]
    BY <1>0, <2>4
  <2>5. \/ \E pc : task' = [task EXCEPT ![p].pc = pc]
        \/ \E pc, rest : task' = [task EXCEPT ![p].pc = pc, ![p].rest = rest]
        \/ \E pc, r, rest : task' = [task EXCEPT ![p].pc = pc, ![p].rider = r, ![p].rest = rest]
        \/ task' = [task EXCEPT ![p] = Idle]
    <3>1. CASE FindRiders(p)
      BY <3>1 DEF FindRiders
    <3>2. CASE StoreCandidates(p)
      BY <3>2 DEF StoreCandidates
    <3>3. CASE RejectReadList(p)
      BY <3>3 DEF RejectReadList
    <3>4. CASE \/ FindNobody(p) \/ AddTimeout(p) \/ AcceptUpdate(p) \/ CancelUpdate(p)
               \/ RejectNoList(p) \/ ExhaustEmit(p) \/ Fail(p)
      BY <3>4 DEF FindNobody, AddTimeout, AcceptUpdate, CancelUpdate, RejectNoList,
         ExhaustEmit, Fail, Finish
    <3>5. CASE \/ SetOffer(p) \/ EmitJobRequest(p) \/ AcceptDelKey(p) \/ AcceptDelList(p)
               \/ RejectDelKey(p) \/ ExhaustDelList(p)
      BY <3>5 DEF SetOffer, EmitJobRequest, AcceptDelKey, AcceptDelList, RejectDelKey,
         ExhaustDelList, Move
    <3> QED
      BY <3>1, <3>2, <3>3, <3>4, <3>5 DEF Step
  <2> QED
    BY <1>0, <2>1, <2>2, <2>3, <2>4, <2>5
<1>2. status'[o] = status[o] /\ riderId'[o] = riderId[o] /\ reassigned' = reassigned
  BY <1>0 DEF Step, Fail, TypeOK, FindNobody, FindRiders, StoreCandidates, SetOffer,
     EmitJobRequest, AddTimeout, AcceptDelKey, AcceptDelList, AcceptUpdate, RejectDelKey,
     RejectNoList, RejectReadList, ExhaustDelList, ExhaustEmit, CancelUpdate
<1>3. offer'[o] = offer[o] /\ candidates'[o] = candidates[o] /\ listTtl'[o] = listTtl[o]
  BY <1>0 DEF Step, Fail, TypeOK, FindNobody, FindRiders, StoreCandidates, SetOffer,
     EmitJobRequest, AddTimeout, AcceptDelKey, AcceptDelList, AcceptUpdate, RejectDelKey,
     RejectNoList, RejectReadList, ExhaustDelList, ExhaustEmit, CancelUpdate
<1>4. timeouts'[o] = timeouts[o] /\ asked'[o] = asked[o] /\ shortlist'[o] = shortlist[o]
  BY <1>0 DEF Step, Fail, TypeOK, FindNobody, FindRiders, StoreCandidates, SetOffer,
     EmitJobRequest, AddTimeout, AcceptDelKey, AcceptDelList, AcceptUpdate, RejectDelKey,
     RejectNoList, RejectReadList, ExhaustDelList, ExhaustEmit, CancelUpdate
<1> QED
  BY <1>1, <1>2, <1>3, <1>4 DEF Untouched

\* A call about an order, or a job of it, touches that order only.
LEMMA StartElsewhere ==
    ASSUME TypeInv, NEW p \in Proc, NEW x \in Order, NEW o \in Order, x # o,
           \/ \E premium \in BOOLEAN : CreateOrder(p, x, premium)
           \/ \E r \in Rider : Accept(p, x, r) \/ Reject(p, x, r) \/ WorkerTakes(p, x, r)
           \/ Cancel(p, x)
    PROVE  Untouched(o)
<1>0. /\ TypeOK /\ task \in [Proc -> Task] /\ Idle.order = NoOrder /\ NoOrder # o
  BY DEF TypeInv, TypeOK, Idle, Handler
<1> USE DEF rowVars, redisVars, historyVars, boundVars
<1>1. task[p] = Idle
  BY DEF CreateOrder, Accept, Reject, WorkerTakes, Cancel, Working
<1>2. PICK h : task' = [task EXCEPT ![p] = h] /\ h.order = x
  <2>1. PICK pc, r, job : task' = [task EXCEPT ![p] = Handler(pc, x, r, job)]
    BY DEF CreateOrder, Accept, Reject, WorkerTakes, Cancel, StartRejection, Start
  <2>2. Handler(pc, x, r, job).order = x
    BY DEF Handler
  <2> QED
    BY <2>1, <2>2
<1>3. \A q \in Proc : task[q].order = o \/ task'[q].order = o => task'[q] = task[q]
  BY <1>0, <1>1, <1>2
<1>4. /\ status'[o] = status[o] /\ riderId'[o] = riderId[o] /\ reassigned' = reassigned
      /\ offer'[o] = offer[o] /\ candidates'[o] = candidates[o] /\ listTtl'[o] = listTtl[o]
      /\ timeouts'[o] = timeouts[o] /\ asked'[o] = asked[o] /\ shortlist'[o] = shortlist[o]
  BY <1>0 DEF TypeOK, CreateOrder, Accept, Reject, WorkerTakes, Cancel
<1> QED
  BY <1>3, <1>4 DEF Untouched

\* The steps that change something of an order whose handlers stay alone.
LEMMA TouchingSteps ==
    ASSUME TypeInv, [Next]_vars, NEW o \in Order, Alone(o)'
    PROVE  \/ Untouched(o)
           \/ Tick
           \/ \E p \in Proc : Step(p) /\ task[p].order = o
           \/ \E p \in Proc, premium \in BOOLEAN : CreateOrder(p, o, premium)
           \/ \E p \in Proc, r \in Rider : \/ Accept(p, o, r) \/ Reject(p, o, r)
                                           \/ WorkerTakes(p, o, r)
           \/ \E p \in Proc : Cancel(p, o)
           \/ \E s \in OverrideStatuses : OverrideOrderStatus(o, s)
           \/ \E r \in Rider : ReassignOrder(o, r)
<1>0. /\ TypeOK /\ Idle.order = NoOrder /\ NoOrder # o
  BY DEF TypeInv, TypeOK, Idle, Handler
<1> USE DEF rowVars, redisVars, historyVars, boundVars
<1>1. ASSUME NEW p \in Proc, Fail(p)
      PROVE  Untouched(o)
  <2>1. task[p].order # o
    BY <1>1 DEF Fail, Alone
  <2> QED
    BY <1>1, <2>1, StepElsewhere
<1>2. ASSUME NEW x \in Order, x # o,
             \/ \E s \in OverrideStatuses : OverrideOrderStatus(x, s)
             \/ \E r \in Rider : ReassignOrder(x, r)
      PROVE  Untouched(o)
  BY <1>0, <1>2 DEF OverrideOrderStatus, ReassignOrder, Untouched, TypeOK
<1>3. CASE Crash
  <2>1. \A q \in Proc : task[q].order # o /\ task'[q].order # o
    BY <1>0, <1>3 DEF Crash, Alone, Working
  <2>2. timeouts'[o] = timeouts[o]
    <3>1. \A r \in Rider : timeouts'[o][r] = [timeouts[o][r] EXCEPT ![0] = @ + 0]
      BY <1>3, <2>1 DEF Crash
    <3>2. /\ \A r \in Rider : timeouts[o][r] \in [Delay -> Nat]
          /\ timeouts[o] \in [Rider -> [Delay -> Nat]]
      BY <1>0 DEF TypeOK
    <3>3. \A r \in Rider : timeouts'[o][r] = timeouts[o][r]
      BY <3>1, <3>2, DelayEnds
    <3>4. timeouts'[o] = [r \in Rider |-> timeouts'[o][r]]
      BY <1>3 DEF Crash
    <3> QED
      BY <3>2, <3>3, <3>4
  <2> QED
    BY <1>3, <2>1, <2>2 DEF Crash, Untouched
<1>4. CASE UNCHANGED vars \/ \E r \in Rider : ChangeRiderFleet(r)
  BY <1>4 DEF vars, ChangeRiderFleet, Untouched
<1>5. ASSUME NEW p \in Proc, NEW x \in Order, x # o,
             \/ \E premium \in BOOLEAN : CreateOrder(p, x, premium)
             \/ \E r \in Rider : Accept(p, x, r) \/ Reject(p, x, r) \/ WorkerTakes(p, x, r)
             \/ Cancel(p, x)
      PROVE  Untouched(o)
  BY <1>5, StartElsewhere
<1>6. ASSUME NEW p \in Proc, Step(p), task[p].order # o
      PROVE  Untouched(o)
  BY <1>6, StepElsewhere
<1> QED
  BY <1>1, <1>2, <1>3, <1>4, <1>5, <1>6 DEF Next, Call, Worker

\* A job that is queued after a tick was queued before it.
LEMMA SoonerOnly ==
    ASSUME NEW jobs \in [Delay -> Nat], NEW d \in Delay, Sooner(jobs)[d] > 0
    PROVE  \E e \in Delay : jobs[e] > 0 /\ Countdown(e) = d
<1>1. Sooner(jobs)[d] = (IF d = 0 THEN jobs[0] ELSE 0)
                          + (IF d = MATCH_TTL THEN 0 ELSE jobs[d + 1])
  BY DEF Sooner
<1>2. CASE d = 0 /\ jobs[0] > 0
  BY <1>2, DelayEnds DEF Countdown
<1>3. CASE d # MATCH_TTL /\ jobs[d + 1] > 0
  <2>1. d + 1 \in Delay /\ Countdown(d + 1) = d
    BY <1>3 DEF Delay, Countdown
  <2> QED
    BY <1>3, <2>1
<1>4. (d = 0 /\ jobs[0] > 0) \/ (d # MATCH_TTL /\ jobs[d + 1] > 0)
  BY <1>1, DelayEnds DEF Delay
<1> QED
  BY <1>2, <1>3, <1>4

\* What time does to one order.
LEMMA TickEffect ==
    ASSUME TypeInv, Tick, NEW o \in Order
    PROVE  /\ \A r \in Rider : offer'[o][r] = Countdown(offer[o][r])
           /\ \A r \in Rider : OfferLive(o, r)' => OfferLive(o, r)
           /\ \A r \in Rider, d \in Delay : timeouts'[o][r][d] > 0 =>
                \E e \in Delay : timeouts[o][r][e] > 0 /\ Countdown(e) = d
           /\ \A r \in Rider, d \in Delay : timeouts[o][r][d] > 0 =>
                Countdown(d) \in Delay /\ timeouts'[o][r][Countdown(d)] > 0
           /\ candidates'[o] = IF listTtl[o] > 1 THEN candidates[o] ELSE <<>>
           /\ listTtl'[o] = Countdown(listTtl[o])
           /\ UNCHANGED <<status, riderId, asked, reassigned, task, shortlist>>
<1>0. /\ \A r \in Rider : offer[o][r] \in Nat /\ timeouts[o][r] \in [Delay -> Nat]
      /\ \A r \in Rider : offer'[o][r] = Countdown(offer[o][r])
      /\ \A r \in Rider : timeouts'[o][r] = Sooner(timeouts[o][r])
  BY DEF TypeInv, TypeOK, Tick
<1>1. \A r \in Rider : OfferLive(o, r)' => OfferLive(o, r)
  BY <1>0 DEF OfferLive, Countdown
<1>2. \A r \in Rider, d \in Delay : timeouts'[o][r][d] > 0 =>
                \E e \in Delay : timeouts[o][r][e] > 0 /\ Countdown(e) = d
  BY <1>0, SoonerOnly
<1>3. \A r \in Rider, d \in Delay : timeouts[o][r][d] > 0 =>
                Countdown(d) \in Delay /\ timeouts'[o][r][Countdown(d)] > 0
  BY <1>0, SoonerKeeps
<1> QED
  BY <1>0, <1>1, <1>2, <1>3 DEF Tick, rowVars, historyVars

-----------------------------------------------------------------------------
(* Who has an order was asked, if its handlers never overlapped and none   *)
(* failed.  riderAccepted checks only the key, which requestRider sets one *)
(* read before it sends job_request; alone at work, a handler that has set *)
(* a key has sent the request before anyone can accept.                    *)

AskedOf(o) ==
    /\ \A r \in Rider : OfferLive(o, r) =>
         r \in asked[o] \/ \E p \in Proc : /\ task[p].order = o /\ task[p].rider = r
                                           /\ task[p].pc = "emit"
    /\ \A p \in Proc :
         /\ task[p].order = o
         /\ task[p].pc \in {"accept_delkey", "accept_dellist", "accept_update"}
         => task[p].rider \in asked[o]
    /\ riderId[o] # NoRider /\ o \notin reassigned => riderId[o] \in asked[o]

AskedInv == \A o \in Order : Alone(o) => AskedOf(o)

\* A handler's step keeps it of the handler's order.
LEMMA HandlerStepAsked ==
    ASSUME TypeInv, NEW o \in Order, AskedOf(o), NEW p \in Proc, Step(p), task[p].order = o
    PROVE  AskedOf(o)'
<1>0. /\ TypeOK /\ task \in [Proc -> Task] /\ task[p] \in Task /\ LocalsOK(task[p])
      /\ Idle.order = NoOrder /\ NoOrder # o
  BY DEF TypeInv, TypeOK, HandlerOK, Idle, Handler
<1> USE DEF rowVars, redisVars, historyVars, boundVars
\* the handler ends or moves away from what AskedOf speaks of
<1>1. ASSUME NEW u, task' = [task EXCEPT ![p] = u], task[p].pc # "emit",
             u.pc \in {"accept_dellist", "accept_update"} =>
                u.rider = task[p].rider /\ task[p].pc \in {"accept_delkey", "accept_dellist"},
             u.pc # "accept_delkey",
             asked' = asked, riderId' = riderId, reassigned' = reassigned,
             \A r \in Rider : OfferLive(o, r)' =>
                OfferLive(o, r) \/ (u.order = o /\ u.rider = r /\ u.pc = "emit")
      PROVE  AskedOf(o)'
  <2>1. task'[p] = u /\ \A q \in Proc \ {p} : task'[q] = task[q]
    BY <1>0, <1>1
  <2>2. ASSUME NEW r \in Rider, OfferLive(o, r)'
        PROVE  \/ r \in asked'[o]
               \/ \E q \in Proc : /\ task'[q].order = o /\ task'[q].rider = r
                                  /\ task'[q].pc = "emit"
    BY <1>0, <1>1, <2>1, <2>2 DEF AskedOf
  <2>3. ASSUME NEW q \in Proc, task'[q].order = o,
               task'[q].pc \in {"accept_delkey", "accept_dellist", "accept_update"}
        PROVE  task'[q].rider \in asked'[o]
    BY <1>0, <1>1, <2>1, <2>3 DEF AskedOf
  <2> QED
    BY <1>1, <2>2, <2>3 DEF AskedOf
<1>2. ASSUME NEW pc, Move(p, pc)
      PROVE  \E u : /\ task' = [task EXCEPT ![p] = u]
                    /\ u.pc = pc /\ u.order = o /\ u.rider = task[p].rider
  <2> DEFINE u == [task[p] EXCEPT !.pc = pc]
  <2>1. /\ task' = [task EXCEPT ![p] = u]
        /\ u.pc = pc /\ u.order = o /\ u.rider = task[p].rider
    BY <1>0, <1>2 DEF Move, Task
  <2> QED
    BY <2>1
<1>3. CASE \/ FindNobody(p) \/ AddTimeout(p) \/ RejectNoList(p) \/ ExhaustEmit(p)
           \/ CancelUpdate(p)
  <2>1. /\ task' = [task EXCEPT ![p] = Idle] /\ task[p].pc # "emit" /\ Idle.pc = "idle"
        /\ asked' = asked /\ riderId' = riderId /\ reassigned' = reassigned /\ offer' = offer
    BY <1>3, IdleIsTask DEF FindNobody, AddTimeout, RejectNoList, ExhaustEmit, CancelUpdate, Finish
  <2> QED
    BY <1>1, <2>1 DEF OfferLive
<1>4. CASE FindRiders(p) \/ StoreCandidates(p) \/ RejectReadList(p)
  <2>1. \E u : /\ task' = [task EXCEPT ![p] = u]
               /\ u.pc \in {"store", "request", "exhaust_del"}
    <3>1. ASSUME NEW pc \in {"store", "request", "exhaust_del"}, NEW r, NEW rest,
                 task' = [task EXCEPT ![p] = [task[p] EXCEPT !.pc = pc, !.rider = r,
                                                             !.rest = rest]]
          PROVE  \E u : /\ task' = [task EXCEPT ![p] = u]
                        /\ u.pc \in {"store", "request", "exhaust_del"}
      <4> DEFINE u == [task[p] EXCEPT !.pc = pc, !.rider = r, !.rest = rest]
      <4>1. u.pc = pc
        BY <1>0 DEF Task
      <4> QED
        BY <3>1, <4>1
    <3>2. ASSUME NEW pc \in {"store", "exhaust_del"}, NEW rest,
                 task' = [task EXCEPT ![p].pc = pc, ![p].rest = rest]
          PROVE  \E u : /\ task' = [task EXCEPT ![p] = u]
                        /\ u.pc \in {"store", "request", "exhaust_del"}
      <4> DEFINE u == [task[p] EXCEPT !.pc = pc, !.rest = rest]
      <4>1. u.pc = pc
        BY <1>0 DEF Task
      <4>2. task' = [task EXCEPT ![p] = u]
        BY <1>0, <3>2
      <4> QED
        BY <4>1, <4>2
    <3>3. CASE FindRiders(p)
      BY <3>2, <3>3 DEF FindRiders
    <3>4. CASE StoreCandidates(p)
      BY <3>1, <3>4 DEF StoreCandidates
    <3>5. CASE RejectReadList(p)
      BY <3>2, <3>5 DEF RejectReadList
    <3> QED
      BY <1>4, <3>3, <3>4, <3>5
  <2>2. /\ task[p].pc # "emit" /\ offer' = offer
        /\ asked' = asked /\ riderId' = riderId /\ reassigned' = reassigned
    BY <1>4 DEF FindRiders, StoreCandidates, RejectReadList
  <2>3. PICK u : /\ task' = [task EXCEPT ![p] = u]
                 /\ u.pc \in {"store", "request", "exhaust_del"}
    BY <2>1
  <2> QED
    BY <1>1, <2>2, <2>3 DEF OfferLive
<1>5. CASE SetOffer(p)
  <2>1. PICK u : /\ task' = [task EXCEPT ![p] = u] /\ u.pc = "emit" /\ u.order = o
                 /\ u.rider = task[p].rider
    BY <1>2, <1>5 DEF SetOffer
  <2>2. /\ task[p].pc = "request"
        /\ asked' = asked /\ riderId' = riderId /\ reassigned' = reassigned
    BY <1>5 DEF SetOffer
  <2>3. \A r \in Rider : OfferLive(o, r)' => OfferLive(o, r) \/ r = task[p].rider
    BY <1>0, <1>5 DEF SetOffer, OfferLive, TypeOK
  <2> QED
    BY <1>1, <2>1, <2>2, <2>3
<1>6. CASE EmitJobRequest(p)
  <2>1. PICK u : /\ task' = [task EXCEPT ![p] = u] /\ u.pc = "enqueue" /\ u.order = o
    BY <1>2, <1>6 DEF EmitJobRequest
  <2>2. /\ asked'[o] = asked[o] \cup {task[p].rider}
        /\ UNCHANGED <<offer, riderId, reassigned>>
    BY <1>0, <1>6 DEF EmitJobRequest, TypeOK
  <2>3. task'[p] = u /\ \A q \in Proc \ {p} : task'[q] = task[q]
    BY <1>0, <2>1
  <2> QED
    BY <2>1, <2>2, <2>3 DEF AskedOf, OfferLive
<1>7. CASE \/ AcceptDelKey(p) \/ RejectDelKey(p) \/ AcceptDelList(p) \/ ExhaustDelList(p)
  <2>1. PICK pc \in {"accept_dellist", "reject_list", "accept_update", "exhaust_emit"} :
          /\ Move(p, pc) /\ task[p].pc # "emit"
          /\ pc \in {"accept_dellist", "accept_update"} =>
               task[p].pc \in {"accept_delkey", "accept_dellist"}
    BY <1>7 DEF AcceptDelKey, RejectDelKey, AcceptDelList, ExhaustDelList
  <2>2. PICK u : /\ task' = [task EXCEPT ![p] = u] /\ u.pc = pc /\ u.order = o
                 /\ u.rider = task[p].rider
    BY <1>2, <2>1
  <2>3. asked' = asked /\ riderId' = riderId /\ reassigned' = reassigned
    BY <1>7 DEF AcceptDelKey, RejectDelKey, AcceptDelList, ExhaustDelList
  <2>4. \A r \in Rider : OfferLive(o, r)' => OfferLive(o, r)
    <3>1. CASE AcceptDelKey(p) \/ RejectDelKey(p)
      <4>1. offer' = [offer EXCEPT ![o][task[p].rider] = 0]
        BY <3>1 DEF AcceptDelKey, RejectDelKey
      <4>2. offer \in [Order -> [Rider -> 0..MATCH_TTL]]
        BY <1>0 DEF TypeOK
      <4>3. \A r \in Rider : offer'[o][r] = IF r = task[p].rider THEN 0 ELSE offer[o][r]
        BY <4>1, <4>2
      <4> QED
        BY <4>3 DEF OfferLive
    <3>2. CASE AcceptDelList(p) \/ ExhaustDelList(p)
      BY <3>2 DEF AcceptDelList, ExhaustDelList, OfferLive
    <3> QED
      BY <1>7, <3>1, <3>2
  <2> QED
    BY <1>1, <2>1, <2>2, <2>3, <2>4
<1>8. CASE AcceptUpdate(p)
  <2>1. /\ task[p].pc = "accept_update" /\ task[p].rider \in asked[o]
        /\ task' = [task EXCEPT ![p] = Idle] /\ Idle.pc = "idle"
        /\ riderId'[o] = task[p].rider /\ UNCHANGED <<offer, asked>>
    BY <1>0, <1>8, IdleIsTask DEF AcceptUpdate, Finish, AskedOf, TypeOK
  <2>2. task'[p] = Idle /\ \A q \in Proc \ {p} : task'[q] = task[q]
    BY <1>0, <2>1
  <2> QED
    BY <1>0, <2>1, <2>2 DEF AskedOf, OfferLive
<1> QED
  BY <1>3, <1>4, <1>5, <1>6, <1>7, <1>8 DEF Step

\* Every step keeps it.
LEMMA AskedStep == TypeInv /\ AskedInv /\ [Next]_vars => AskedInv'
<1> SUFFICES ASSUME TypeInv, AskedInv, [Next]_vars, NEW o \in Order, Alone(o)'
             PROVE  AskedOf(o)'
  BY DEF AskedInv
<1>0. /\ AskedOf(o) /\ TypeOK /\ task \in [Proc -> Task]
      /\ Idle.order = NoOrder /\ NoOrder # o
  BY HistoryGrows DEF Alone, AskedInv, TypeInv, TypeOK, Idle, Handler
<1> USE DEF rowVars, redisVars, historyVars, boundVars
<1>1. CASE Untouched(o)
  <2>1. \A q \in Proc : task'[q].order = o => task'[q] = task[q]
    BY <1>1 DEF Untouched
  <2>2. \A q \in Proc : task[q].order = o => task'[q] = task[q]
    BY <1>1 DEF Untouched
  <2> QED
    BY <1>0, <1>1, <2>1, <2>2 DEF Untouched, AskedOf, OfferLive
<1>2. CASE Tick
  BY <1>0, <1>2, TickEffect DEF AskedOf
<1>3. ASSUME NEW p \in Proc, NEW pc, NEW r, NEW job, ~Working(p), Start(p, pc, o, r, job),
             pc # "emit", UNCHANGED <<offer, asked, riderId, reassigned>>,
             pc = "accept_delkey" => r \in Rider /\ OfferLive(o, r),
             pc \notin {"accept_dellist", "accept_update"}
      PROVE  AskedOf(o)'
  <2>1. \A q \in Proc : task[q].order # o
    BY <1>3 DEF Start, Alone
  <2> DEFINE h == Handler(pc, o, r, job)
  <2>2. h.pc = pc /\ h.rider = r /\ task' = [task EXCEPT ![p] = h]
    BY <1>3 DEF Start, Handler
  <2> HIDE DEF h
  <2>3. task'[p] = h /\ \A q \in Proc \ {p} : task'[q] = task[q]
    BY <1>0, <2>2
  <2>4. \A s \in Rider : OfferLive(o, s) => s \in asked[o]
    BY <1>0, <2>1 DEF AskedOf
  <2> QED
    BY <1>0, <1>3, <2>1, <2>2, <2>3, <2>4 DEF AskedOf, OfferLive
<1>4. ASSUME NEW p \in Proc,
             \/ \E premium \in BOOLEAN : CreateOrder(p, o, premium)
             \/ \E r \in Rider : Accept(p, o, r) \/ Reject(p, o, r) \/ WorkerTakes(p, o, r)
             \/ Cancel(p, o)
      PROVE  AskedOf(o)'
  BY <1>3, <1>4 DEF CreateOrder, Accept, Reject, WorkerTakes, StartRejection, Cancel
<1>5. ASSUME \/ \E s \in OverrideStatuses : OverrideOrderStatus(o, s)
             \/ \E r \in Rider : ReassignOrder(o, r)
      PROVE  AskedOf(o)'
  BY <1>0, <1>5 DEF OverrideOrderStatus, ReassignOrder, AskedOf, OfferLive
<1> QED
  BY <1>0, <1>1, <1>2, <1>4, <1>5, TouchingSteps, HandlerStepAsked

\* Unless an admin chose him, the rider of an order was found for it, drove for the
\* fleet then if the order is premium, and was asked if no handler of the order
\* overlapped another or failed, whoever accepts and rejects.
THEOREM AssigneesAreEligible == Spec => []AssigneeWasEligible
<1>1. Init => AskedInv
  BY DEF Init, AskedInv, AskedOf, OfferLive, Idle, Handler
<1>2. Spec => []AskedInv
  BY <1>1, InitType, TypeStep, AskedStep, PTL DEF Spec
<1>3. EligInv /\ AskedInv => AssigneeWasEligible
  BY DEF EligInv, OrderElig, Found, AskedInv, AskedOf, AssigneeWasEligible
<1> QED
  BY EligHolds, <1>2, <1>3, PTL

-----------------------------------------------------------------------------
(* The riders of an order are asked in turn.  While the handlers of an     *)
(* order do not overlap, its list holds nobody behind the first who was    *)
(* asked before, an offer is open to the first only, and each handler      *)
(* works for the rider whose turn it is: that is why a late answer or a    *)
(* stale timeout, which finds its rider no longer on the list, can ask the *)
(* first of the list again without opening a second offer.                 *)

\* no offer of o is open
NoOffer(o) == \A r \in Rider : ~OfferLive(o, r)

\* dispatch has not begun to ask riders for o
Fresh(o) ==
    /\ candidates[o] = <<>> /\ asked[o] = {} /\ NoOffer(o)
    /\ \A r \in Rider, d \in Delay : timeouts[o][r][d] = 0

\* matching has given o to a rider
Settled(o) == riderId[o] # NoRider /\ o \notin reassigned

\* The riders of the list can be asked in its order: no rider is on it twice, those
\* behind the first have not been asked, and only the first may hold an offer.
InTurn(o, list) ==
    /\ \A i, j \in 1..Len(list) : list[i] = list[j] => i = j
    /\ \A i \in 2..Len(list) : list[i] \notin asked[o]
    /\ list # <<>> => \A r \in Rider : OfferLive(o, r) => r = Head(list)

\* what holds of the keys, jobs and row of o, whatever its handler does
OrderTurn(o) ==
    /\ InTurn(o, candidates[o])
    /\ \A r, s \in Rider : OfferLive(o, r) /\ OfferLive(o, s) => r = s
    /\ \A r \in Rider, d \in Delay : timeouts[o][r][d] > 0 => r \in asked[o]
    /\ status[o] = "NONE" => Fresh(o) /\ ~Settled(o)
    /\ Settled(o) => candidates[o] = <<>> /\ NoOffer(o)

\* the rider of the handler is the one whose turn it is
AtHead(t) ==
    /\ \A r \in Rider : OfferLive(t.order, r) => r = t.rider
    /\ candidates[t.order] # <<>> => Head(candidates[t.order]) = t.rider

\* what a handler that runs alone knows of its order
HandlerTurn(t) ==
    LET o == t.order IN
    /\ status[o] # "NONE"
    /\ t.pc = "query" => Fresh(o)
    /\ t.pc = "store" => InTurn(o, t.rest)
    /\ t.pc \in {"request", "emit", "enqueue", "accept_delkey", "reject_del"} => AtHead(t)
    /\ t.pc = "enqueue" => t.rider \in asked[o]
    /\ t.pc = "reject_list" => ~OfferLive(o, t.rider)
    /\ t.pc \in {"accept_dellist", "accept_update", "exhaust_del"} => NoOffer(o)
    /\ t.pc = "accept_update" => candidates[o] = <<>>
    /\ t.pc = "exhaust_del" => t.rest = <<>>
    /\ Settled(o) => t.pc \in {"reject_del", "reject_list", "exhaust_del",
                               "exhaust_emit", "cancel_update"}

\* at most one handler works on o
Solo(o) == \A p, q \in Proc : task[p].order = o /\ task[q].order = o => p = q

TurnOf(o) ==
    /\ Solo(o)
    /\ OrderTurn(o)
    /\ \A p \in Proc : task[p].order = o => HandlerTurn(task[p])

TurnInv == \A o \in Order : Orderly(o) => TurnOf(o)

\* indexOf finds a rider who is on the list, and gives 0 for one who is not.
LEMMA IndexOfFinds ==
    ASSUME NEW list \in Seq(Rider), NEW r
    PROVE  \/ /\ IndexOf(list, r) \in 1..Len(list) /\ list[IndexOf(list, r)] = r
           \/ /\ IndexOf(list, r) = 0
              /\ \A i \in 1..Len(list) : list[i] # r
<1>1. ToSet(list) = {list[i] : i \in 1..Len(list)}
  BY DEF ToSet
<1>2. CASE r \in ToSet(list)
  BY <1>1, <1>2 DEF IndexOf
<1>3. CASE r \notin ToSet(list)
  BY <1>1, <1>3 DEF IndexOf
<1> QED
  BY <1>2, <1>3

\* What riderRejected keeps of a list that is in turn, for a rider who was asked or is
\* not on it: the riders behind him when it was his turn, and all of it otherwise.
LEMMA RemainingInTurn ==
    ASSUME NEW o \in Order, NEW list \in Seq(Rider), list # <<>>, InTurn(o, list),
           NEW r, r \in ToSet(list) => r \in asked[o]
    PROVE  \/ r = Head(list) /\ Remaining(list, r) = Tail(list)
           \/ /\ \A i \in 1..Len(list) : list[i] # r
              /\ Remaining(list, r) = list
<1> DEFINE k == IndexOf(list, r)
<1>0. /\ Len(list) \in Nat /\ Len(list) >= 1 /\ Head(list) = list[1]
      /\ \A i \in 1..Len(list) : list[i] \in Rider
      /\ DOMAIN list = 1..Len(list)
  BY EmptySeq, LenProperties, ElementOfSeq
<1>1. CASE k \in 1..Len(list) /\ list[k] = r
  <2>0. r \in asked[o]
    BY <1>0, <1>1 DEF ToSet
  <2>1. k = 1
    BY <1>0, <1>1, <2>0 DEF InTurn
  <2>2. SubSeq(list, 2, Len(list)) = Tail(list)
    BY <1>0
  <2>3. k + 1 = 2 /\ Remaining(list, r) = SubSeq(list, k + 1, Len(list))
    BY <2>1 DEF Remaining
  <2>4. r = Head(list) /\ Remaining(list, r) = Tail(list)
    <3> HIDE DEF k
    <3> QED
      BY <1>0, <1>1, <2>1, <2>2, <2>3
  <2> QED
    BY <2>4
<1>2. CASE k = 0 /\ \A i \in 1..Len(list) : list[i] # r
  <2>1. SubSeq(list, 1, Len(list)) = list
    BY <1>0
  <2>2. k + 1 = 1 /\ Remaining(list, r) = SubSeq(list, k + 1, Len(list))
    BY <1>2 DEF Remaining
  <2>3. Remaining(list, r) = list
    <3> HIDE DEF k
    <3> QED
      BY <2>1, <2>2
  <2> QED
    BY <1>2, <2>3
<1> QED
  BY <1>1, <1>2, IndexOfFinds

\* It is in turn again, when the rider holds no offer any more.
LEMMA RestInTurn ==
    ASSUME NEW o \in Order, NEW list \in Seq(Rider), list # <<>>, InTurn(o, list),
           NEW r, r \in ToSet(list) => r \in asked[o], ~OfferLive(o, r)
    PROVE  /\ InTurn(o, Remaining(list, r))
           /\ Remaining(list, r) = <<>> => NoOffer(o)
<1>1. CASE r = Head(list) /\ Remaining(list, r) = Tail(list)
  <2>1. NoOffer(o)
    BY <1>1 DEF InTurn, NoOffer
  <2>2. /\ Len(list) \in Nat /\ Len(Tail(list)) = Len(list) - 1
        /\ \A i \in 1..Len(Tail(list)) : Tail(list)[i] = list[i + 1]
    BY EmptySeq, LenProperties, HeadTailProperties
  <2>3. \A i, j \in 1..Len(Tail(list)) : Tail(list)[i] = Tail(list)[j] => i = j
    BY <2>2 DEF InTurn
  <2>4. \A i \in 2..Len(Tail(list)) : Tail(list)[i] \notin asked[o]
    BY <2>2 DEF InTurn
  <2> QED
    BY <1>1, <2>1, <2>3, <2>4 DEF InTurn, NoOffer
<1>2. CASE Remaining(list, r) = list
  BY <1>2
<1> QED
  BY <1>1, <1>2, RemainingInTurn

\* An empty list is in turn.
LEMMA EmptyInTurn == ASSUME NEW o PROVE InTurn(o, <<>>)
BY EmptySeq DEF InTurn

\* A list stays in turn while nobody is asked and no offer opens.
LEMMA InTurnKept ==
    ASSUME NEW o, NEW list, InTurn(o, list), asked'[o] = asked[o],
           \A r \in Rider : OfferLive(o, r)' => OfferLive(o, r)
    PROVE  InTurn(o, list)'
BY DEF InTurn

\* So do the keys, jobs and row of an order, when no more happens to them than that
\* offers close, the list expires, and jobs are added for riders who were asked.
LEMMA OrderTurnKept ==
    ASSUME NEW o, OrderTurn(o),
           candidates'[o] \in {candidates[o], <<>>}, asked'[o] = asked[o],
           \A r \in Rider : OfferLive(o, r)' => OfferLive(o, r),
           \A r \in Rider, d \in Delay : timeouts'[o][r][d] > 0 => r \in asked[o],
           status'[o] # "NONE", Settled(o)' => Settled(o)
    PROVE  OrderTurn(o)'
<1>1. PICK list : list = candidates'[o]
  OBVIOUS
<1>2. InTurn(o, list)
  BY <1>1, EmptyInTurn DEF OrderTurn
<1>3. InTurn(o, list)'
  BY <1>2, InTurnKept
<1> QED
  BY <1>1, <1>3 DEF OrderTurn, InTurn, NoOffer

\* When the only handler of an order becomes t, the claim rests on t and the order.
LEMMA OneHandlerTurn ==
    ASSUME task \in [Proc -> Task], NEW o \in Order, OrderTurn(o)',
           NEW p \in Proc, \A q \in Proc \ {p} : task[q].order # o,
           NEW t, task' = [task EXCEPT ![p] = t],
           t.order = o => HandlerTurn(t)'
    PROVE  TurnOf(o)'
<1>1. task'[p] = t /\ \A q \in Proc \ {p} : task'[q] = task[q]
  OBVIOUS
<1>2. Solo(o)'
  BY <1>1 DEF Solo
<1>3. ASSUME NEW q \in Proc, task'[q].order = o
      PROVE  HandlerTurn(task[q])'
  <2>1. q = p /\ task'[q] = t
    BY <1>1, <1>3
  <2>2. HandlerTurn(t)'
    BY <1>3, <2>1
  <2> QED
    BY <2>1, <2>2 DEF HandlerTurn, AtHead, InTurn
<1> QED
  BY <1>2, <1>3 DEF TurnOf

\* An order that is left alone stays in turn.
LEMMA UntouchedTurn ==
    ASSUME TypeInv, NEW o \in Order, TurnOf(o), Untouched(o)
    PROVE  TurnOf(o)'
<1>0. /\ \A r \in Rider : OfferLive(o, r)' <=> OfferLive(o, r)
      /\ Settled(o)' <=> Settled(o)
      /\ candidates'[o] = candidates[o] /\ asked'[o] = asked[o]
      /\ timeouts'[o] = timeouts[o] /\ status'[o] = status[o]
  BY DEF Untouched, OfferLive, Settled
<1>f. Fresh(o)' <=> Fresh(o)
  BY <1>0 DEF Fresh, NoOffer
<1>1. OrderTurn(o)'
  <2>1. OrderTurn(o)
    BY DEF TurnOf
  <2>2. InTurn(o, candidates[o])'
    BY <1>0, <2>1 DEF OrderTurn, InTurn
  <2> QED
    BY <1>0, <1>f, <2>1, <2>2 DEF OrderTurn, NoOffer
<1>2. ASSUME NEW q \in Proc, task'[q].order = o
      PROVE  HandlerTurn(task[q])'
  <2>1. task'[q] = task[q] /\ HandlerTurn(task[q])
    BY <1>2 DEF Untouched, TurnOf
  <2>2. PICK t : t = task[q] /\ t.order = o
    BY <1>2, <2>1
  <2>3. t.rest = task[q].rest /\ HandlerTurn(t)
    BY <2>1, <2>2
  <2>4. InTurn(o, t.rest) => InTurn(o, t.rest)'
    BY <1>0 DEF InTurn
  <2>5. t.rider \in Rider => (OfferLive(o, t.rider)' <=> OfferLive(o, t.rider))
    BY <1>0
  <2>6. t.pc = "reject_list" => t.rider \in Rider
    BY <2>2 DEF TypeInv, HandlerOK, LocalsOK, RiderPC
  <2>7. HandlerTurn(t)'
    BY <1>0, <1>f, <2>2, <2>3, <2>4, <2>5, <2>6 DEF HandlerTurn, AtHead, NoOffer
  <2> QED
    BY <2>1, <2>2, <2>7 DEF HandlerTurn, AtHead, InTurn
<1>3. Solo(o)'
  BY DEF TurnOf, Solo, Untouched
<1> QED
  BY <1>1, <1>2, <1>3 DEF TurnOf

\* A call or a due job starts the only handler of an order, or finds one at work.
LEMMA StartsAlone ==
    ASSUME TypeInv, NEW p \in Proc, NEW o \in Order, Orderly(o)',
           NEW pc, NEW r, NEW job, ~Working(p), Start(p, pc, o, r, job)
    PROVE  /\ \A q \in Proc : task[q].order # o
           /\ task' = [task EXCEPT ![p] = Handler(pc, o, r, job)]
BY DEF Start, Orderly, Alone

\* A rider who was asked and holds an offer is the one whose turn it is.
LEMMA OfferAtHead ==
    ASSUME NEW o, OrderTurn(o), NEW r \in Rider, OfferLive(o, r),
           NEW t, t.order = o, t.rider = r
    PROVE  AtHead(t)
BY DEF OrderTurn, InTurn, AtHead

\* The step of an order's only handler keeps the riders in turn.
LEMMA HandlerStepTurn ==
    ASSUME TypeInv, NEW o \in Order, TurnOf(o), Orderly(o)',
           NEW p \in Proc, Step(p), task[p].order = o
    PROVE  TurnOf(o)'
<1>0. /\ TypeOK /\ task \in [Proc -> Task] /\ candidates \in [Order -> Seq(Rider)]
      /\ candidates[o] \in Seq(Rider)
      /\ LocalsOK(task[p]) /\ task[p] \in Task
      /\ Idle.order = NoOrder /\ NoOrder # o
      /\ OrderTurn(o) /\ HandlerTurn(task[p])
      /\ \A q \in Proc \ {p} : task[q].order # o
  BY DEF TypeInv, TypeOK, HandlerOK, Idle, Handler, TurnOf, Solo
<1>n. status[o] # "NONE"
  BY <1>0 DEF HandlerTurn
<1>t. PICK t : t = task[p]
  OBVIOUS
<1>h. /\ t.order = o /\ HandlerTurn(t) /\ t \in Task
  BY <1>0, <1>t
<1> USE DEF rowVars, redisVars, historyVars, boundVars
\* the handler ends, without opening an offer
<1>1. ASSUME task' = [task EXCEPT ![p] = Idle], OrderTurn(o)'
      PROVE  TurnOf(o)'
  BY <1>0, <1>1, OneHandlerTurn
<1>2. CASE FindNobody(p) \/ RejectNoList(p) \/ ExhaustEmit(p)
  <2>1. /\ task' = [task EXCEPT ![p] = Idle]
        /\ UNCHANGED <<rowVars, redisVars, timeouts, asked, reassigned>>
    BY <1>2 DEF FindNobody, RejectNoList, ExhaustEmit, Finish
  <2>2. OrderTurn(o)'
    BY <1>0, <1>n, <2>1, OrderTurnKept DEF OfferLive, Settled, OrderTurn
  <2> QED
    BY <1>1, <2>1, <2>2
<1>3. CASE CancelUpdate(p)
  <2>1. /\ task' = [task EXCEPT ![p] = Idle] /\ status'[o] = "CANCELLED"
        /\ UNCHANGED <<riderId, redisVars, timeouts, asked, reassigned>>
    BY <1>0, <1>3 DEF CancelUpdate, Finish, TypeOK
  <2>2. OrderTurn(o)'
    BY <1>0, <2>1, OrderTurnKept DEF OfferLive, Settled, OrderTurn
  <2> QED
    BY <1>1, <2>1, <2>2
<1>4. CASE AddTimeout(p)
  <2>1. /\ task' = [task EXCEPT ![p] = Idle] /\ t.pc = "enqueue" /\ t.rider \in asked[o]
        /\ timeouts' = [timeouts EXCEPT ![o][t.rider][MATCH_TTL] = @ + 1]
        /\ UNCHANGED <<rowVars, redisVars, asked, reassigned>>
    BY <1>4, <1>t, <1>h DEF AddTimeout, Finish, HandlerTurn
  <2>2. \A r \in Rider, d \in Delay : timeouts'[o][r][d] > 0 =>
          r = t.rider \/ timeouts[o][r][d] > 0
    BY <1>0, <2>1, DelayEnds DEF TypeOK
  <2>3. \A r \in Rider, d \in Delay : timeouts'[o][r][d] > 0 => r \in asked[o]
    BY <1>0, <2>1, <2>2 DEF OrderTurn
  <2>4. /\ candidates'[o] = candidates[o] /\ asked'[o] = asked[o] /\ status'[o] = status[o]
        /\ \A r \in Rider : OfferLive(o, r)' <=> OfferLive(o, r)
        /\ Settled(o)' <=> Settled(o)
    BY <2>1 DEF OfferLive, Settled
  <2>5. OrderTurn(o)'
    BY <1>0, <1>n, <2>3, <2>4, OrderTurnKept
  <2> QED
    BY <1>1, <2>1, <2>5
<1>5. CASE AcceptUpdate(p)
  <2>1. /\ task' = [task EXCEPT ![p] = Idle] /\ t.pc = "accept_update"
        /\ status'[o] = "ASSIGNED"
        /\ UNCHANGED <<redisVars, timeouts, asked, reassigned>>
    BY <1>0, <1>5, <1>t DEF AcceptUpdate, Finish, TypeOK
  <2>2. candidates[o] = <<>> /\ NoOffer(o)
    BY <1>h, <2>1 DEF HandlerTurn
  <2>3. OrderTurn(o)'
    BY <1>0, <2>1, <2>2 DEF OrderTurn, InTurn, OfferLive, NoOffer
  <2> QED
    BY <1>1, <2>1, <2>3
\* findMatch has ranked the riders
<1>6. CASE FindRiders(p)
  <2>1. PICK nearby \in SUBSET Rider :
          \E ranking \in SetToSeqs(Eligible(o, nearby)) :
            /\ ranking # <<>>
            /\ task' = [task EXCEPT ![p].pc = "store", ![p].rest = ranking]
    BY <1>0, <1>6 DEF FindRiders
  <2>2. Eligible(o, nearby) \in SUBSET Rider
    BY DEF Eligible
  <2>3. PICK ranking \in SetToSeqs(Eligible(o, nearby)) :
            task' = [task EXCEPT ![p].pc = "store", ![p].rest = ranking]
    BY <2>1
  <2>4. /\ ranking \in Seq(Rider)
        /\ \A i, j \in 1..Len(ranking) : ranking[i] = ranking[j] => i = j
    <3>1. ranking \in Seq(Eligible(o, nearby))
      BY <2>2, RankingIsSeq
    <3>2. ranking \in Seq(Rider)
      BY <2>2, <3>1, SeqMonotonic
    <3>3. DOMAIN ranking = 1..Len(ranking)
      BY <3>2
    <3> QED
      BY <3>2, <3>3 DEF SetToSeqs
  <2>5. t.pc = "query" /\ UNCHANGED <<rowVars, redisVars, timeouts, asked, reassigned>>
    BY <1>6, <1>t DEF FindRiders
  <2>6. /\ candidates[o] = <<>> /\ asked[o] = {} /\ NoOffer(o) /\ ~Settled(o)
    BY <1>h, <2>5 DEF HandlerTurn, Fresh
  <2>7. PICK u : u = [t EXCEPT !.pc = "store", !.rest = ranking]
    OBVIOUS
  <2>8. /\ u.pc = "store" /\ u.rest = ranking /\ u.order = o
        /\ task' = [task EXCEPT ![p] = u]
    BY <1>0, <1>t, <1>h, <2>3, <2>7 DEF Task
  <2>9. InTurn(o, ranking)'
    BY <2>4, <2>5, <2>6 DEF InTurn, NoOffer, OfferLive
  <2>10. OrderTurn(o)'
    BY <1>0, <1>n, <2>5, OrderTurnKept DEF OfferLive, Settled, OrderTurn
  <2>11. HandlerTurn(u)'
    BY <1>n, <2>5, <2>6, <2>8, <2>9 DEF HandlerTurn, Settled
  <2> QED
    BY <1>0, <2>8, <2>10, <2>11, OneHandlerTurn
<1>7. CASE StoreCandidates(p)
  <2>1. /\ t.pc = "store" /\ candidates'[o] = t.rest
        /\ UNCHANGED <<rowVars, offer, timeouts, asked, reassigned>>
    BY <1>0, <1>7, <1>t DEF StoreCandidates
  <2>2. InTurn(o, t.rest) /\ ~Settled(o)
    BY <1>h, <2>1 DEF HandlerTurn
  <2>3. t.rest # <<>>
    BY <1>0, <1>t, <2>1 DEF LocalsOK
  <2>4. PICK u : u = [t EXCEPT !.pc = "request", !.rider = Head(t.rest), !.rest = <<>>]
    OBVIOUS
  <2>5. /\ u.pc = "request" /\ u.rider = Head(t.rest) /\ u.order = o
        /\ task' = [task EXCEPT ![p] = u]
    BY <1>0, <1>7, <1>t, <1>h, <2>4 DEF Task, StoreCandidates
  <2>6. InTurn(o, t.rest)'
    BY <2>1, <2>2 DEF InTurn, OfferLive
  <2>7. OrderTurn(o)'
    BY <1>0, <1>n, <2>1, <2>2, <2>6 DEF OrderTurn, InTurn, OfferLive, Settled
  <2>8. AtHead(u)'
    BY <2>1, <2>2, <2>3, <2>5 DEF AtHead, InTurn, OfferLive
  <2>9. HandlerTurn(u)'
    BY <1>n, <2>1, <2>2, <2>5, <2>8 DEF HandlerTurn, Settled
  <2> QED
    BY <1>0, <2>5, <2>7, <2>9, OneHandlerTurn
\* the handler moves on
<1>8. ASSUME NEW pc, Move(p, pc)
      PROVE  \E u : /\ task' = [task EXCEPT ![p] = u]
                    /\ u.pc = pc /\ u.order = o /\ u.rider = t.rider /\ u.rest = t.rest
  <2> DEFINE u == [t EXCEPT !.pc = pc]
  <2>1. /\ task' = [task EXCEPT ![p] = u]
        /\ u.pc = pc /\ u.order = o /\ u.rider = t.rider /\ u.rest = t.rest
    BY <1>0, <1>t, <1>h, <1>8 DEF Move, Task
  <2> QED
    BY <2>1
<1>9. CASE SetOffer(p)
  <2>1. PICK u : /\ task' = [task EXCEPT ![p] = u] /\ u.pc = "emit" /\ u.order = o
                 /\ u.rider = t.rider
    BY <1>8, <1>9 DEF SetOffer
  <2>2. /\ t.pc = "request" /\ t.rider \in Rider
        /\ UNCHANGED <<rowVars, candidates, timeouts, asked, reassigned>>
        /\ offer' = [offer EXCEPT ![o][t.rider] = MATCH_TTL]
    BY <1>0, <1>9, <1>t DEF SetOffer, LocalsOK, RiderPC
  <2>3. AtHead(t) /\ ~Settled(o)
    BY <1>h, <2>2 DEF HandlerTurn
  <2>4. \A r \in Rider : OfferLive(o, r)' => r = t.rider
    BY <1>0, <1>h, <2>2, <2>3 DEF AtHead, OfferLive, TypeOK
  <2>5. AtHead(u)'
    BY <1>h, <2>1, <2>2, <2>3, <2>4 DEF AtHead
  <2>6. InTurn(o, candidates[o])'
    BY <1>0, <1>h, <2>2, <2>3, <2>4 DEF OrderTurn, InTurn, AtHead
  <2>7. OrderTurn(o)'
    BY <1>0, <1>n, <2>2, <2>3, <2>4, <2>6 DEF OrderTurn, Settled
  <2>8. HandlerTurn(u)'
    BY <1>n, <2>1, <2>2, <2>3, <2>5 DEF HandlerTurn, Settled
  <2> QED
    BY <1>0, <2>1, <2>7, <2>8, OneHandlerTurn
<1>10. CASE EmitJobRequest(p)
  <2>1. PICK u : /\ task' = [task EXCEPT ![p] = u] /\ u.pc = "enqueue" /\ u.order = o
                 /\ u.rider = t.rider
    BY <1>8, <1>10 DEF EmitJobRequest
  <2>2. /\ t.pc = "emit" /\ asked'[o] = asked[o] \cup {t.rider}
        /\ UNCHANGED <<rowVars, redisVars, timeouts, reassigned>>
    BY <1>0, <1>10, <1>t DEF EmitJobRequest, TypeOK
  <2>3. AtHead(t) /\ ~Settled(o)
    BY <1>h, <2>2 DEF HandlerTurn
  <2>4. InTurn(o, candidates[o])'
    <3>1. \A i \in 2..Len(candidates[o]) : candidates[o][i] # t.rider
      <4>1. candidates[o] # <<>> =>
              /\ Head(candidates[o]) = candidates[o][1] /\ Len(candidates[o]) \in Nat \ {0}
        BY <1>0, EmptySeq, LenProperties
      <4>2. candidates[o] = <<>> => Len(candidates[o]) = 0
        OBVIOUS
      <4> QED
        BY <1>0, <1>h, <2>3, <4>1, <4>2 DEF OrderTurn, InTurn, AtHead
    <3>2. InTurn(o, candidates[o])
      BY <1>0 DEF OrderTurn
    <3> QED
      BY <2>2, <3>1, <3>2 DEF InTurn, OfferLive
  <2>5. OrderTurn(o)'
    BY <1>0, <1>n, <2>2, <2>3, <2>4 DEF OrderTurn, Settled, OfferLive
  <2>6. HandlerTurn(u)'
    BY <1>h, <1>n, <2>1, <2>2, <2>3 DEF HandlerTurn, Settled, AtHead, OfferLive
  <2> QED
    BY <1>0, <2>1, <2>5, <2>6, OneHandlerTurn
<1>11. CASE AcceptDelKey(p) \/ RejectDelKey(p)
  <2>1. PICK pc \in {"accept_dellist", "reject_list"} :
          /\ Move(p, pc)
          /\ t.pc = IF pc = "reject_list" THEN "reject_del" ELSE "accept_delkey"
    BY <1>11, <1>t DEF AcceptDelKey, RejectDelKey
  <2>2. PICK u : /\ task' = [task EXCEPT ![p] = u] /\ u.pc = pc /\ u.order = o
                 /\ u.rider = t.rider
    BY <1>8, <2>1
  <2>3. /\ t.rider \in Rider
        /\ UNCHANGED <<rowVars, candidates, timeouts, asked, reassigned>>
        /\ offer' = [offer EXCEPT ![o][t.rider] = 0]
    BY <1>0, <1>11, <1>t DEF AcceptDelKey, RejectDelKey, LocalsOK, RiderPC
  <2>4. AtHead(t)
    BY <1>h, <2>1 DEF HandlerTurn
  <2>5. NoOffer(o)'
    BY <1>0, <1>h, <2>3, <2>4 DEF NoOffer, OfferLive, AtHead, TypeOK
  <2>6. OrderTurn(o)'
    BY <1>0, <1>n, <2>3, <2>5, OrderTurnKept DEF OrderTurn, NoOffer, Settled
  <2>7. HandlerTurn(u)'
    BY <1>h, <1>n, <2>1, <2>2, <2>3, <2>4, <2>5 DEF HandlerTurn, NoOffer, Settled
  <2> QED
    BY <1>0, <2>2, <2>6, <2>7, OneHandlerTurn
<1>12. CASE AcceptDelList(p) \/ ExhaustDelList(p)
  <2>1. PICK pc \in {"accept_update", "exhaust_emit"} :
          /\ Move(p, pc)
          /\ t.pc = IF pc = "exhaust_emit" THEN "exhaust_del" ELSE "accept_dellist"
    BY <1>12, <1>t DEF AcceptDelList, ExhaustDelList
  <2>2. PICK u : /\ task' = [task EXCEPT ![p] = u] /\ u.pc = pc /\ u.order = o
                 /\ u.rider = t.rider
    BY <1>8, <2>1
  <2>3. /\ candidates'[o] = <<>>
        /\ UNCHANGED <<rowVars, offer, timeouts, asked, reassigned>>
    BY <1>0, <1>12, <1>t DEF AcceptDelList, ExhaustDelList
  <2>4. OrderTurn(o)'
    BY <1>0, <1>n, <2>3, OrderTurnKept DEF OrderTurn, OfferLive, Settled
  <2>5. HandlerTurn(u)'
    BY <1>h, <1>n, <2>1, <2>2, <2>3 DEF HandlerTurn, NoOffer, OfferLive, Settled
  <2> QED
    BY <1>0, <2>2, <2>4, <2>5, OneHandlerTurn
<1>13. CASE RejectReadList(p)
  <2>0. PICK rest : rest = Remaining(candidates[o], t.rider)
    OBVIOUS
  <2>1. /\ t.pc = "reject_list" /\ candidates[o] # <<>>
        /\ UNCHANGED <<rowVars, redisVars, timeouts, asked, reassigned>>
        /\ task' = [task EXCEPT ![p].pc = IF rest = <<>> THEN "exhaust_del" ELSE "store",
                                ![p].rest = rest]
    BY <1>0, <1>13, <1>t, <2>0 DEF RejectReadList
  <2>2. /\ t.rider \in ToSet(candidates[o]) => t.rider \in asked[o]
        /\ ~OfferLive(o, t.rider)
    <3>1. o \notin skipped'
      BY DEF Orderly
    <3>2. ~Unasked(o, t.rider)
      BY <1>0, <1>13, <1>t, <3>1 DEF RejectReadList
    <3> QED
      BY <1>h, <2>1, <3>2 DEF HandlerTurn, Unasked
  <2>3. InTurn(o, rest) /\ (rest = <<>> => NoOffer(o))
    BY <1>0, <2>0, <2>1, <2>2, RestInTurn DEF OrderTurn
  <2>4. ~Settled(o)
    BY <1>0, <2>1 DEF OrderTurn
  <2>5. PICK u : u = [t EXCEPT !.pc = IF rest = <<>> THEN "exhaust_del" ELSE "store",
                               !.rest = rest]
    OBVIOUS
  <2>6. /\ u.pc = (IF rest = <<>> THEN "exhaust_del" ELSE "store")
        /\ u.rest = rest /\ u.order = o /\ task' = [task EXCEPT ![p] = u]
    BY <1>0, <1>t, <1>h, <2>1, <2>5 DEF Task
  <2>7. OrderTurn(o)'
    BY <1>0, <1>n, <2>1, OrderTurnKept DEF OrderTurn, OfferLive, Settled
  <2>8. InTurn(o, rest)'
    BY <2>1, <2>3 DEF InTurn, OfferLive
  <2>9. HandlerTurn(u)'
    BY <1>n, <2>1, <2>3, <2>4, <2>6, <2>8 DEF HandlerTurn, NoOffer, OfferLive, Settled
  <2> QED
    BY <1>0, <2>6, <2>7, <2>9, OneHandlerTurn
<1> QED
  BY <1>2, <1>3, <1>4, <1>5, <1>6, <1>7, <1>9, <1>10, <1>11, <1>12, <1>13 DEF Step

\* Time closes offers and drops lists, for all orders at once.
LEMMA TickTurn ==
    ASSUME TypeInv, NEW o \in Order, TurnOf(o), Tick
    PROVE  TurnOf(o)'
<1>0. /\ \A r \in Rider : OfferLive(o, r)' => OfferLive(o, r)
      /\ \A r \in Rider, d \in Delay : timeouts'[o][r][d] > 0 =>
           \E e \in Delay : timeouts[o][r][e] > 0
      /\ candidates'[o] \in {candidates[o], <<>>}
      /\ UNCHANGED <<status, riderId, asked, reassigned, task>>
  BY TickEffect
<1>f. Fresh(o) => Fresh(o)'
  <2>1. \A r \in Rider, d \in Delay : timeouts'[o][r][d] \in Nat /\ timeouts[o][r][d] \in Nat
    BY TypeStep DEF TypeInv, TypeOK, Next
  <2>2. ASSUME \A r \in Rider, d \in Delay : timeouts[o][r][d] = 0
        PROVE  \A r \in Rider, d \in Delay : timeouts'[o][r][d] = 0
    BY <1>0, <2>1, <2>2
  <2> QED
    BY <1>0, <2>2 DEF Fresh, NoOffer
<1>s. Settled(o)' <=> Settled(o)
  BY <1>0 DEF Settled
<1>1. OrderTurn(o)'
  <2>1. PICK list : list = candidates'[o]
    OBVIOUS
  <2>2. InTurn(o, list)
    BY <1>0, <2>1, EmptyInTurn DEF TurnOf, OrderTurn
  <2>3. InTurn(o, list)'
    BY <1>0, <2>2, InTurnKept
  <2>4. InTurn(o, candidates[o])'
    BY <2>1, <2>3 DEF InTurn
  <2>5. OrderTurn(o)
    BY DEF TurnOf
  <2>6. \A r \in Rider, d \in Delay : timeouts'[o][r][d] > 0 => r \in asked'[o]
    BY <1>0, <2>5 DEF OrderTurn
  <2> QED
    BY <1>0, <1>f, <1>s, <2>4, <2>5, <2>6 DEF OrderTurn, NoOffer
<1>2. ASSUME NEW q \in Proc, task'[q].order = o
      PROVE  HandlerTurn(task[q])'
  <2>1. PICK t : t = task[q] /\ t.order = o /\ HandlerTurn(t)
    BY <1>0, <1>2 DEF TurnOf
  <2>2. InTurn(o, t.rest) => InTurn(o, t.rest)'
    BY <1>0, InTurnKept
  <2>3. t.pc = "reject_list" => t.rider \in Rider
    BY <2>1 DEF TypeInv, HandlerOK, LocalsOK, RiderPC
  <2>4. HandlerTurn(t)'
    BY <1>0, <1>f, <1>s, <2>1, <2>2, <2>3 DEF HandlerTurn, AtHead, NoOffer
  <2> QED
    BY <1>0, <2>1, <2>4 DEF HandlerTurn, AtHead, InTurn
<1>3. Solo(o)'
  BY <1>0 DEF TurnOf, Solo
<1> QED
  BY <1>1, <1>2, <1>3 DEF TurnOf

\* A call or a due job keeps the riders in turn, when no other handler is at work.
LEMMA StartTurn ==
    ASSUME TypeInv, NEW o \in Order, TurnOf(o), Orderly(o)', NEW p \in Proc,
           \/ \E premium \in BOOLEAN : CreateOrder(p, o, premium)
           \/ \E r \in Rider : Accept(p, o, r) \/ Reject(p, o, r) \/ WorkerTakes(p, o, r)
           \/ Cancel(p, o)
    PROVE  TurnOf(o)'
<1>0. /\ TypeOK /\ task \in [Proc -> Task] /\ OrderTurn(o)
  BY DEF TypeInv, TypeOK, TurnOf
<1> USE DEF rowVars, redisVars, historyVars, boundVars
<1>1. ASSUME NEW premium \in BOOLEAN, CreateOrder(p, o, premium)
      PROVE  TurnOf(o)'
  <2>1. PICK t : t = Handler("query", o, NoRider, NoRider)
    OBVIOUS
  <2>2. /\ \A q \in Proc : task[q].order # o
        /\ task' = [task EXCEPT ![p] = t]
    BY <1>1, <2>1, StartsAlone DEF CreateOrder
  <2>3. t.pc = "query" /\ t.order = o
    BY <2>1 DEF Handler
  <2>4. /\ status[o] = "NONE" /\ status'[o] = "PENDING"
        /\ UNCHANGED <<riderId, redisVars, timeouts, asked, reassigned>>
    BY <1>0, <1>1 DEF CreateOrder, TypeOK
  <2>5. Fresh(o) /\ ~Settled(o)
    BY <1>0, <2>4 DEF OrderTurn
  <2>6. OrderTurn(o)'
    BY <1>0, <2>4, OrderTurnKept DEF OrderTurn, OfferLive, Settled
  <2>7. HandlerTurn(t)'
    BY <2>3, <2>4, <2>5 DEF HandlerTurn, Fresh, NoOffer, OfferLive, Settled
  <2> QED
    BY <1>0, <2>2, <2>6, <2>7, OneHandlerTurn
<1>2. ASSUME NEW r \in Rider, Accept(p, o, r)
      PROVE  TurnOf(o)'
  <2>1. PICK t : t = Handler("accept_delkey", o, r, NoRider)
    OBVIOUS
  <2>2. /\ \A q \in Proc : task[q].order # o
        /\ task' = [task EXCEPT ![p] = t]
    BY <1>2, <2>1, StartsAlone DEF Accept
  <2>3. t.pc = "accept_delkey" /\ t.order = o /\ t.rider = r
    BY <2>1 DEF Handler
  <2>4. /\ OfferLive(o, r)
        /\ UNCHANGED <<rowVars, redisVars, timeouts, asked, reassigned>>
    BY <1>2 DEF Accept
  <2>5. /\ AtHead(t) /\ ~Settled(o) /\ status[o] # "NONE"
    BY <1>0, <2>3, <2>4, OfferAtHead DEF OrderTurn, NoOffer, Fresh
  <2>6. OrderTurn(o)'
    BY <1>0, <2>4, <2>5, OrderTurnKept DEF OrderTurn, OfferLive, Settled
  <2>7. HandlerTurn(t)'
    BY <2>3, <2>4, <2>5 DEF HandlerTurn, AtHead, OfferLive, Settled
  <2> QED
    BY <1>0, <2>2, <2>6, <2>7, OneHandlerTurn
<1>3. ASSUME NEW r \in Rider, Reject(p, o, r) \/ WorkerTakes(p, o, r)
      PROVE  TurnOf(o)'
  <2>0. PICK job : StartRejection(p, o, r, job)
    BY <1>3 DEF Reject, WorkerTakes
  <2>1. PICK t : t = Handler(IF OfferLive(o, r) THEN "reject_del" ELSE "reject_list", o, r, job)
    OBVIOUS
  <2>2. /\ \A q \in Proc : task[q].order # o
        /\ task' = [task EXCEPT ![p] = t]
    BY <1>3, <2>0, <2>1, StartsAlone DEF Reject, WorkerTakes, StartRejection
  <2>3. /\ t.pc = (IF OfferLive(o, r) THEN "reject_del" ELSE "reject_list")
        /\ t.order = o /\ t.rider = r
    BY <2>1 DEF Handler
  <2>4. /\ status[o] # "NONE"
        /\ UNCHANGED <<rowVars, redisVars, asked, reassigned>>
    BY <1>0, <1>3, DelayEnds DEF Reject, WorkerTakes, OrderTurn, Fresh
  <2>5. \A s \in Rider, d \in Delay : timeouts'[o][s][d] > 0 => timeouts[o][s][d] > 0
    <3>1. CASE Reject(p, o, r)
      BY <3>1 DEF Reject
    <3>2. CASE WorkerTakes(p, o, r)
      BY <1>0, <3>2, DelayEnds DEF WorkerTakes, TypeOK
    <3> QED
      BY <1>3, <3>1, <3>2
  <2>6. status[o] # "NONE" /\ (OfferLive(o, r) => AtHead(t))
    BY <1>0, <2>3, <2>4, OfferAtHead DEF OrderTurn, Fresh
  <2>7. OrderTurn(o)'
    BY <1>0, <2>4, <2>5, <2>6, OrderTurnKept DEF OrderTurn, OfferLive, Settled
  <2>8. HandlerTurn(t)'
    BY <2>3, <2>4, <2>6 DEF HandlerTurn, AtHead, OfferLive, Settled
  <2> QED
    BY <1>0, <2>2, <2>7, <2>8, OneHandlerTurn
<1>4. ASSUME Cancel(p, o)
      PROVE  TurnOf(o)'
  <2>1. PICK t : t = Handler("cancel_update", o, NoRider, NoRider)
    OBVIOUS
  <2>2. /\ \A q \in Proc : task[q].order # o
        /\ task' = [task EXCEPT ![p] = t]
    BY <1>4, <2>1, StartsAlone DEF Cancel
  <2>3. t.pc = "cancel_update" /\ t.order = o
    BY <2>1 DEF Handler
  <2>4. /\ status[o] # "NONE"
        /\ UNCHANGED <<rowVars, redisVars, timeouts, asked, reassigned>>
    BY <1>4 DEF Cancel, CANCELLABLE_STATUSES
  <2>5. OrderTurn(o)'
    BY <1>0, <2>4, OrderTurnKept DEF OrderTurn, OfferLive, Settled
  <2>6. HandlerTurn(t)'
    BY <2>3, <2>4 DEF HandlerTurn
  <2> QED
    BY <1>0, <2>2, <2>5, <2>6, OneHandlerTurn
<1> QED
  BY <1>1, <1>2, <1>3, <1>4

\* An admin's write changes the row only.
LEMMA AdminTurn ==
    ASSUME TypeInv, NEW o \in Order, TurnOf(o),
           \/ \E s \in OverrideStatuses : OverrideOrderStatus(o, s)
           \/ \E r \in Rider : ReassignOrder(o, r)
    PROVE  TurnOf(o)'
<1>0. /\ UNCHANGED <<offer, candidates, timeouts, asked, task>>
      /\ status[o] # "NONE" /\ status'[o] # "NONE"
      /\ Settled(o)' => Settled(o)
  BY OverrideAssumption
     DEF OverrideOrderStatus, ReassignOrder, TypeInv, TypeOK, OrderStatus, redisVars, historyVars, Settled
<1>1. OrderTurn(o)'
  BY <1>0, OrderTurnKept DEF TurnOf, OrderTurn, OfferLive
<1>2. ASSUME NEW q \in Proc, task'[q].order = o
      PROVE  HandlerTurn(task[q])'
  <2>1. PICK t : t = task[q] /\ t.order = o /\ HandlerTurn(t)
    BY <1>0, <1>2 DEF TurnOf
  <2>2. InTurn(o, t.rest) => InTurn(o, t.rest)'
    BY <1>0, InTurnKept DEF OfferLive
  <2>3. HandlerTurn(t)'
    BY <1>0, <2>1, <2>2 DEF HandlerTurn, AtHead, NoOffer, OfferLive, Fresh
  <2> QED
    BY <1>0, <2>1, <2>3 DEF HandlerTurn, AtHead, InTurn
<1>3. Solo(o)'
  BY <1>0 DEF TurnOf, Solo
<1> QED
  BY <1>1, <1>2, <1>3 DEF TurnOf

\* Every step keeps the riders of the orders that stay orderly in turn.
LEMMA TurnStep == TypeInv /\ TurnInv /\ [Next]_vars => TurnInv'
<1> SUFFICES ASSUME TypeInv, TurnInv, [Next]_vars, NEW o \in Order, Orderly(o)'
             PROVE  TurnOf(o)'
  BY DEF TurnInv
<1>1. Orderly(o) /\ TurnOf(o)
  BY HistoryGrows DEF Orderly, Alone, TurnInv
<1>2. Alone(o)'
  BY DEF Orderly
<1> QED
  BY <1>1, <1>2, TouchingSteps, UntouchedTurn, TickTurn, HandlerStepTurn, StartTurn, AdminTurn

\* Initially nobody has been asked.
LEMMA InitTurn == Init => TurnInv
<1> SUFFICES ASSUME Init, NEW o \in Order PROVE TurnOf(o)
  BY DEF TurnInv
<1>1. OrderTurn(o)
  BY EmptyInTurn DEF Init, OrderTurn, Fresh, NoOffer, OfferLive, Settled
<1>2. \A p \in Proc : task[p].order # o
  BY DEF Init, Idle, Handler
<1> QED
  BY <1>1, <1>2 DEF TurnOf, Solo

\* It holds of every reachable state.
LEMMA TurnHolds == Spec => [](TypeInv /\ TurnInv)
BY InitType, InitTurn, TypeStep, TurnStep, PTL DEF Spec

\* Of an order whose handlers never overlap, and on whose list no rider refused before
\* he was asked, at most one offer is open, whatever answers come late and whatever
\* timeouts are stale.
THEOREM OffersAreSingle == Spec => []OneOpenOffer
<1>1. TurnInv => OneOpenOffer
  BY DEF TurnInv, TurnOf, OrderTurn, OneOpenOffer
<1> QED
  BY TurnHolds, <1>1, PTL

\* Such an order stays with the rider who took it, unless an admin moves it.
THEOREM AssignmentsAreFinal == Spec => AssignmentIsFinal
<1> DEFINE Final == \A o \in Order :
             Orderly(o)' /\ riderId[o] # NoRider /\ o \notin reassigned' =>
               riderId'[o] = riderId[o]
<1>1. TypeInv /\ TurnInv /\ [Next]_vars => [Final]_vars
  <2> SUFFICES ASSUME TypeInv, TurnInv, [Next]_vars, NEW o \in Order,
                      Orderly(o)', riderId[o] # NoRider, o \notin reassigned'
               PROVE  riderId'[o] = riderId[o]
    OBVIOUS
  <2>0. TurnOf(o) /\ Settled(o)
    BY HistoryGrows DEF Orderly, Alone, TurnInv, Settled
  <2> USE DEF rowVars, redisVars, historyVars, boundVars
  <2>1. ASSUME NEW p \in Proc, Step(p), task[p].order = o
        PROVE  riderId'[o] = riderId[o]
    <3>1. task[p].pc # "accept_update"
      BY <2>0, <2>1 DEF TurnOf, HandlerTurn
    <3> QED
      BY <2>1, <3>1 DEF Step, FindNobody, FindRiders, StoreCandidates, SetOffer,
         EmitJobRequest, AddTimeout, AcceptDelKey, AcceptDelList, AcceptUpdate,
         RejectDelKey, RejectNoList, RejectReadList, ExhaustDelList, ExhaustEmit,
         CancelUpdate
  <2>2. ASSUME NEW p \in Proc,
               \/ \E premium \in BOOLEAN : CreateOrder(p, o, premium)
               \/ \E r \in Rider : Accept(p, o, r) \/ Reject(p, o, r) \/ WorkerTakes(p, o, r)
               \/ Cancel(p, o)
        PROVE  riderId'[o] = riderId[o]
    BY <2>2 DEF CreateOrder, Accept, Reject, WorkerTakes, Cancel
  <2>3. ASSUME NEW r \in Rider, ReassignOrder(o, r)
        PROVE  FALSE
    BY <2>3 DEF ReassignOrder
  <2>4. CASE Tick \/ Untouched(o) \/ \E s \in OverrideStatuses : OverrideOrderStatus(o, s)
    BY <2>4 DEF Tick, Untouched, OverrideOrderStatus
  <2>5. Alone(o)'
    BY DEF Orderly
  <2> QED
    BY <2>1, <2>2, <2>3, <2>4, <2>5, TouchingSteps
<1>2. Spec => [][Final]_vars
  BY <1>1, TurnHolds, PTL DEF Spec
<1> QED
  BY <1>2 DEF AssignmentIsFinal

-----------------------------------------------------------------------------
(* What time does not take from an order while the worker keeps up         *)
(* (Prompt).  Between two ticks every handler ends and every due job runs, *)
(* so an offer does not lapse while its answer is handled, and the list,   *)
(* which is stored anew before every offer, outlives the timeout of that   *)
(* offer: its key expires only after nobody is left to pass it on.         *)

\* a handler that answers an offer finds it open, and one that makes an offer, the list
HandlerPrompt(t) ==
    /\ t.pc \in {"accept_delkey", "reject_del"} => OfferLive(t.order, t.rider)
    /\ t.pc \in {"request", "emit", "enqueue"} =>
         candidates[t.order] # <<>> /\ listTtl[t.order] > MATCH_TTL

\* The list outlives a job that will pass it on.
ListPrompt(o) ==
    candidates[o] # <<>> =>
        \/ \E r \in Rider, d \in Delay : timeouts[o][r][d] > 0 /\ d < listTtl[o]
        \/ \E p \in Proc : Dispatching(p, o)

PromptOf(o) ==
    /\ ListPrompt(o)
    /\ \A p \in Proc : task[p].order = o => HandlerPrompt(task[p])

PromptInv == Prompt => \A o \in Order : Orderly(o) => PromptOf(o)

\* It is kept for an order that is left alone.
LEMMA UntouchedPrompt ==
    ASSUME TypeInv, NEW o \in Order, PromptOf(o), Untouched(o)
    PROVE  PromptOf(o)'
<1>1. ListPrompt(o)'
  <2>1. \A p \in Proc : Dispatching(p, o) => Dispatching(p, o)'
    BY DEF Untouched, Dispatching
  <2> QED
    BY <2>1 DEF PromptOf, ListPrompt, Untouched
<1>2. ASSUME NEW p \in Proc, task'[p].order = o
      PROVE  HandlerPrompt(task[p])'
  BY <1>2 DEF Untouched, PromptOf, HandlerPrompt, OfferLive
<1> QED
  BY <1>1, <1>2 DEF PromptOf

\* Jobs and lists count down together, and a tick finds no handler and no due job.
LEMMA TickPrompt ==
    ASSUME TypeInv, NEW o \in Order, PromptOf(o), Prompt, Tick
    PROVE  PromptOf(o)' /\ candidates'[o] = candidates[o]
<1>0. /\ \A p \in Proc : task[p] = Idle /\ task'[p] = Idle
      /\ \A r \in Rider : timeouts[o][r][0] = 0
      /\ Idle.order = NoOrder /\ NoOrder # o /\ Idle.pc = "idle"
      /\ listTtl[o] \in Nat
  BY DEF Tick, Quiet, Working, Idle, Handler, TypeInv, TypeOK
<1>1. CASE candidates[o] = <<>>
  BY <1>0, <1>1, TickEffect DEF PromptOf, ListPrompt
<1>2. CASE candidates[o] # <<>>
  <2>1. PICK r \in Rider, d \in Delay : timeouts[o][r][d] > 0 /\ d < listTtl[o]
    BY <1>0, <1>2 DEF PromptOf, ListPrompt, Dispatching
  <2>2. d \in Nat \ {0} /\ listTtl[o] > 1 /\ Countdown(d) < Countdown(listTtl[o])
    BY <1>0, <2>1 DEF Delay, Countdown
  <2>3. /\ candidates'[o] = candidates[o] /\ listTtl'[o] = Countdown(listTtl[o])
        /\ Countdown(d) \in Delay /\ timeouts'[o][r][Countdown(d)] > 0
    BY <2>1, <2>2, TickEffect
  <2>4. ListPrompt(o)'
    BY <2>2, <2>3 DEF ListPrompt
  <2> QED
    BY <1>0, <2>3, <2>4 DEF PromptOf
<1> QED
  BY <1>1, <1>2

\* When no handler that dispatches an order is at work, the list rests on a job.
LEMMA RestsOnJob ==
    ASSUME NEW o, PromptOf(o), \A q \in Proc : ~Dispatching(q, o),
           candidates'[o] \in {candidates[o], <<>>}, listTtl'[o] = listTtl[o],
           \A r \in Rider, d \in Delay : timeouts[o][r][d] > 0 => timeouts'[o][r][d] > 0
    PROVE  ListPrompt(o)'
BY DEF PromptOf, ListPrompt

\* The step of an order's only handler keeps it.
LEMMA HandlerStepPrompt ==
    ASSUME TypeInv, NEW o \in Order, TurnOf(o), PromptOf(o),
           NEW p \in Proc, Step(p), task[p].order = o
    PROVE  PromptOf(o)'
<1>0. /\ TypeOK /\ task \in [Proc -> Task] /\ LocalsOK(task[p]) /\ task[p] \in Task
      /\ Idle.order = NoOrder /\ NoOrder # o
      /\ HandlerTurn(task[p]) /\ HandlerPrompt(task[p])
      /\ \A q \in Proc \ {p} : task[q].order # o
      /\ MATCH_TTL \in Nat /\ CANDIDATE_TTL \in Nat /\ CANDIDATE_TTL > MATCH_TTL
  BY TtlAssumption DEF TypeInv, TypeOK, HandlerOK, Idle, Handler, TurnOf, Solo, PromptOf
<1> USE DEF rowVars, redisVars, historyVars, boundVars
\* what the handler becomes decides
<1>1. ASSUME NEW u, task' = [task EXCEPT ![p] = u], ListPrompt(o)',
             u.order = o => HandlerPrompt(u)'
      PROVE  PromptOf(o)'
  BY <1>0, <1>1 DEF PromptOf, HandlerPrompt
<1>2. CASE \/ FindNobody(p) \/ ExhaustEmit(p) \/ CancelUpdate(p)
           \/ RejectNoList(p) \/ AcceptUpdate(p)
  <2>1. /\ task' = [task EXCEPT ![p] = Idle]
        /\ UNCHANGED <<redisVars, timeouts>>
    BY <1>2 DEF FindNobody, ExhaustEmit, CancelUpdate, RejectNoList, AcceptUpdate, Finish
  <2>2. \/ candidates[o] = <<>>
        \/ task[p].pc \in {"query", "exhaust_emit", "cancel_update"}
    BY <1>0, <1>2 DEF FindNobody, ExhaustEmit, CancelUpdate, RejectNoList, AcceptUpdate, HandlerTurn
  <2>3. ListPrompt(o)'
    BY <1>0, <2>1, <2>2, RestsOnJob DEF Dispatching, ListPrompt
  <2> QED
    BY <1>0, <1>1, <2>1, <2>3
<1>3. CASE AddTimeout(p)
  <2>1. /\ task' = [task EXCEPT ![p] = Idle] /\ task[p].pc = "enqueue" /\ task[p].rider \in Rider
        /\ timeouts' = [timeouts EXCEPT ![o][task[p].rider][MATCH_TTL] = @ + 1]
        /\ UNCHANGED redisVars
    BY <1>0, <1>3 DEF AddTimeout, Finish, LocalsOK, RiderPC
  <2>2. timeouts'[o][task[p].rider][MATCH_TTL] > 0 /\ listTtl'[o] > MATCH_TTL
    BY <1>0, <2>1, DelayEnds DEF TypeOK, HandlerPrompt
  <2>3. \E r \in Rider, d \in Delay : timeouts'[o][r][d] > 0 /\ d < listTtl'[o]
    BY <2>1, <2>2, DelayEnds
  <2>4. ListPrompt(o)'
    BY <2>3 DEF ListPrompt
  <2> QED
    BY <1>0, <1>1, <2>1, <2>4
<1>4. CASE StoreCandidates(p)
  <2>1. PICK u : u = [task[p] EXCEPT !.pc = "request", !.rider = Head(task[p].rest), !.rest = <<>>]
    OBVIOUS
  <2>2. /\ u.pc = "request" /\ u.order = o /\ task' = [task EXCEPT ![p] = u]
        /\ task[p].rest # <<>>
    BY <1>0, <1>4, <2>1 DEF Task, StoreCandidates, LocalsOK
  <2>3. candidates'[o] # <<>> /\ listTtl'[o] > MATCH_TTL
    BY <1>0, <1>4, <2>2 DEF StoreCandidates, TypeOK
  <2>4. ListPrompt(o)' /\ HandlerPrompt(u)'
    BY <1>0, <2>2, <2>3 DEF ListPrompt, Dispatching, HandlerPrompt
  <2> QED
    BY <1>1, <2>2, <2>4
<1>5. CASE FindRiders(p) \/ RejectReadList(p)
  <2>1. PICK u : /\ u.pc \in {"store", "exhaust_del"} /\ u.order = o
                 /\ task' = [task EXCEPT ![p] = u]
    BY <1>0, <1>5 DEF Task, FindRiders, RejectReadList
  <2>2. ListPrompt(o)' /\ HandlerPrompt(u)'
    BY <1>0, <2>1 DEF ListPrompt, Dispatching, HandlerPrompt
  <2> QED
    BY <1>1, <2>1, <2>2
<1>6. ASSUME NEW pc, Move(p, pc)
      PROVE  \E u : task' = [task EXCEPT ![p] = u] /\ u.pc = pc /\ u.order = o
  <2> DEFINE u == [task[p] EXCEPT !.pc = pc]
  <2>1. task' = [task EXCEPT ![p] = u] /\ u.pc = pc /\ u.order = o
    BY <1>0, <1>6 DEF Move, Task
  <2> QED
    BY <2>1
<1>7. CASE SetOffer(p) \/ EmitJobRequest(p) \/ RejectDelKey(p)
  <2>1. PICK u : /\ u.pc \in {"emit", "enqueue", "reject_list"} /\ u.order = o
                 /\ task' = [task EXCEPT ![p] = u]
                 /\ u.pc # "reject_list" => task[p].pc \in {"request", "emit"}
    BY <1>6, <1>7 DEF SetOffer, EmitJobRequest, RejectDelKey
  <2>2. UNCHANGED <<candidates, listTtl>>
    BY <1>7 DEF SetOffer, EmitJobRequest, RejectDelKey
  <2>3. ListPrompt(o)' /\ HandlerPrompt(u)'
    BY <1>0, <2>1, <2>2 DEF ListPrompt, Dispatching, HandlerPrompt
  <2> QED
    BY <1>1, <2>1, <2>3
<1>8. CASE AcceptDelKey(p) \/ AcceptDelList(p) \/ ExhaustDelList(p)
  <2>1. PICK u : /\ u.pc \in {"accept_dellist", "accept_update", "exhaust_emit"} /\ u.order = o
                 /\ task' = [task EXCEPT ![p] = u]
    BY <1>6, <1>8 DEF AcceptDelKey, AcceptDelList, ExhaustDelList
  <2>2. \/ candidates'[o] = <<>>
        \/ task[p].pc = "accept_delkey" /\ UNCHANGED <<candidates, listTtl, timeouts>>
    BY <1>0, <1>8 DEF AcceptDelKey, AcceptDelList, ExhaustDelList, TypeOK
  <2>3. ListPrompt(o)'
    BY <1>0, <2>2, RestsOnJob DEF ListPrompt, Dispatching
  <2> QED
    BY <1>1, <2>1, <2>3 DEF HandlerPrompt
<1> QED
  BY <1>2, <1>3, <1>4, <1>5, <1>7, <1>8 DEF Step

\* So does a call or a due job that finds no handler of the order at work.
LEMMA StartPrompt ==
    ASSUME TypeInv, NEW o \in Order, PromptOf(o), Orderly(o)', NEW p \in Proc,
           \/ \E premium \in BOOLEAN : CreateOrder(p, o, premium)
           \/ \E r \in Rider : Accept(p, o, r) \/ Reject(p, o, r) \/ WorkerTakes(p, o, r)
           \/ Cancel(p, o)
    PROVE  PromptOf(o)'
<1>0. TypeOK /\ task \in [Proc -> Task]
  BY DEF TypeInv, TypeOK
<1> USE DEF rowVars, redisVars, historyVars, boundVars
<1>1. PICK pc, r, job :
        /\ ~Working(p) /\ Start(p, pc, o, r, job)
        /\ pc \in {"query", "accept_delkey", "reject_del", "reject_list", "cancel_update"}
        /\ pc \in {"accept_delkey", "reject_del"} => OfferLive(o, r)
        /\ UNCHANGED <<offer, candidates, listTtl>>
        /\ timeouts' = timeouts \/ pc \in {"reject_del", "reject_list"}
  BY DEF CreateOrder, Accept, Reject, WorkerTakes, Cancel, StartRejection
<1>2. PICK u : u = Handler(pc, o, r, job)
  OBVIOUS
<1>3. /\ \A q \in Proc : task[q].order # o
      /\ task' = [task EXCEPT ![p] = u]
      /\ u.pc = pc /\ u.order = o /\ u.rider = r
  BY <1>1, <1>2, StartsAlone DEF Handler
<1>4. ListPrompt(o)'
  <2>1. CASE pc \in {"reject_del", "reject_list"}
    BY <1>0, <1>3, <2>1 DEF ListPrompt, Dispatching
  <2>2. CASE timeouts' = timeouts
    BY <1>1, <1>3, <2>2, RestsOnJob DEF Dispatching
  <2> QED
    BY <1>1, <2>1, <2>2
<1>5. HandlerPrompt(u)'
  BY <1>1, <1>3 DEF HandlerPrompt, OfferLive
<1> QED
  BY <1>0, <1>3, <1>4, <1>5 DEF PromptOf, HandlerPrompt

\* Every step keeps it for the orders that stay orderly.
LEMMA PromptStep == TypeInv /\ TurnInv /\ PromptInv /\ [Next]_vars => PromptInv'
<1> SUFFICES ASSUME TypeInv, TurnInv, PromptInv, [Next]_vars, Prompt,
                    NEW o \in Order, Orderly(o)'
             PROVE  PromptOf(o)'
  BY DEF PromptInv
<1>1. TurnOf(o) /\ PromptOf(o)
  BY HistoryGrows DEF Orderly, Alone, TurnInv, PromptInv
<1>a. Alone(o)'
  BY DEF Orderly
<1>2. ASSUME \/ \E s \in OverrideStatuses : OverrideOrderStatus(o, s)
             \/ \E r \in Rider : ReassignOrder(o, r)
      PROVE  PromptOf(o)'
  BY <1>1, <1>2 DEF OverrideOrderStatus, ReassignOrder, redisVars, PromptOf, ListPrompt,
     Dispatching, HandlerPrompt, OfferLive
<1> QED
  BY <1>1, <1>2, <1>a, TouchingSteps, UntouchedPrompt, TickPrompt, HandlerStepPrompt, StartPrompt

\* What is known of every reachable state of an order whose riders are asked in turn.
TurnsAreKept == TypeInv /\ RankingInv /\ TurnInv /\ PromptInv

LEMMA TurnsHold == Spec => []TurnsAreKept
<1>1. Init => PromptInv
  BY DEF Init, PromptInv, PromptOf, ListPrompt, Idle, Handler
<1> QED
  BY <1>1, InitType, InitRanking, InitTurn, TypeStep, RankingStep, TurnStep, PromptStep, PTL
     DEF Spec, TurnsAreKept

-----------------------------------------------------------------------------
(* Dispatch implements Offers, step by step.  Of an order whose handlers   *)
(* never overlap, at most one handler decides what the mapping shows, so a *)
(* step of dispatch is followed through that handler's await.              *)

TakingPC == {"accept_dellist", "accept_update"}
PassingPC == {"store", "exhaust_del"}

\* the queue and the taker, when t is the only handler of o
QueueBy(o, t) ==
    IF t.pc \in TakingPC THEN <<>>
    ELSE IF t.pc \in PassingPC THEN t.rest ELSE candidates[o]
TakerBy(o, t) == IF t.pc \in TakingPC THEN t.rider ELSE riderId[o]

\* What the mapping shows of an order with at most one handler and one offer.
Shown == \A o \in Order :
    /\ Solo(o) => \A p \in Proc : task[p].order = o =>
         Queue(o) = QueueBy(o, task[p]) /\ Taker(o) = TakerBy(o, task[p])
    /\ (\A p \in Proc : task[p].order # o) =>
         Queue(o) = candidates[o] /\ Taker(o) = riderId[o]
    /\ NoOffer(o) => Holder(o) = NoRider
    /\ \A r \in Rider :
         OfferLive(o, r) /\ (\A s \in Rider : OfferLive(o, s) => s = r) => Holder(o) = r

LEMMA ShownHolds == Shown
<1>1. ASSUME NEW o \in Order, Solo(o), NEW p \in Proc, task[p].order = o
      PROVE  Queue(o) = QueueBy(o, task[p]) /\ Taker(o) = TakerBy(o, task[p])
  <2>1. /\ Taking(o) = IF task[p].pc \in TakingPC THEN {p} ELSE {}
        /\ Passing(o) = IF task[p].pc \in PassingPC THEN {p} ELSE {}
    BY <1>1 DEF Taking, Passing, At, Solo, TakingPC, PassingPC
  <2> QED
    BY <2>1 DEF Queue, Taker, QueueBy, TakerBy
<1>2. ASSUME NEW o \in Order, \A p \in Proc : task[p].order # o
      PROVE  Queue(o) = candidates[o] /\ Taker(o) = riderId[o]
  <2>1. Taking(o) = {} /\ Passing(o) = {}
    BY <1>2 DEF Taking, Passing, At
  <2> QED
    BY <2>1 DEF Queue, Taker
<1>3. ASSUME NEW o \in Order, NoOffer(o)
      PROVE  Holder(o) = NoRider
  BY <1>3 DEF NoOffer, Holder, Offered
<1>4. ASSUME NEW o \in Order, NEW r \in Rider, OfferLive(o, r),
             \A s \in Rider : OfferLive(o, s) => s = r
      PROVE  Holder(o) = r
  <2>1. Offered(o) = {r}
    BY <1>4 DEF Offered
  <2> QED
    BY <2>1 DEF Holder
<1> QED
  BY <1>1, <1>2, <1>3, <1>4 DEF Shown

LEMMA ShownAfter == Shown'
BY ShownHolds, PTL

\* the order looks the same after the step
Stays(o) ==
    /\ Queue(o)' = Queue(o) /\ Holder(o)' = Holder(o) /\ Taker(o)' = Taker(o)
    /\ shortlist'[o] = shortlist[o]

\* what Offers lets happen to an order
Allows(o) == Dispatched!Step(o) \/ Dispatched!Same(o)

LEMMA StaysAllowed ==
    ASSUME NEW o \in Order, Stays(o)
    PROVE  Allows(o)
BY DEF Stays, Allows, Dispatched!Same, Dispatched!Becomes

\* Offers that do not change have the same holder.
LEMMA SameHolder ==
    ASSUME NEW o, offer'[o] = offer[o]
    PROVE  Holder(o)' = Holder(o)
BY DEF Holder, Offered, OfferLive

\* An order that is left alone looks the same.
LEMMA UntouchedStays ==
    ASSUME NEW o \in Order, Solo(o), Untouched(o)
    PROVE  Stays(o)
<1>0. Shown /\ Shown' /\ Solo(o)'
  BY ShownHolds, ShownAfter DEF Solo, Untouched
<1>1. /\ candidates'[o] = candidates[o] /\ riderId'[o] = riderId[o] /\ offer'[o] = offer[o]
      /\ shortlist'[o] = shortlist[o]
      /\ \A q \in Proc : task[q].order = o \/ task'[q].order = o => task'[q] = task[q]
  BY DEF Untouched
<1>2. CASE \E p \in Proc : task[p].order = o
  <2>1. PICK p \in Proc : task[p].order = o /\ task'[p] = task[p]
    BY <1>1, <1>2
  <2>2. QueueBy(o, task[p])' = QueueBy(o, task[p]) /\ TakerBy(o, task[p])' = TakerBy(o, task[p])
    BY <1>1, <2>1 DEF QueueBy, TakerBy
  <2>3. /\ Queue(o) = QueueBy(o, task[p]) /\ Taker(o) = TakerBy(o, task[p])
        /\ Queue(o)' = QueueBy(o, task[p])' /\ Taker(o)' = TakerBy(o, task[p])'
    BY <1>0, <2>1 DEF Shown
  <2> QED
    BY <1>1, <2>2, <2>3, SameHolder DEF Stays
<1>3. CASE \A p \in Proc : task[p].order # o
  BY <1>0, <1>1, <1>3, SameHolder DEF Shown, Stays
<1> QED
  BY <1>2, <1>3

\* Time lets an offer lapse, and takes nothing else of what is shown.
LEMMA TickAllowed ==
    ASSUME TypeInv, NEW o \in Order, TurnOf(o), PromptOf(o), Prompt, Tick
    PROVE  Allows(o)
<1>0. /\ Shown /\ Shown'
      /\ \A p \in Proc : task[p].order # o /\ task'[p].order # o
  BY ShownHolds, ShownAfter, NoneAssumption DEF Tick, Quiet, Working, Idle, Handler
<1>1. /\ candidates'[o] = candidates[o] /\ UNCHANGED <<riderId, shortlist>>
      /\ \A r \in Rider : OfferLive(o, r)' => OfferLive(o, r)
  BY TickPrompt, TickEffect
<1>2. Queue(o)' = Queue(o) /\ Taker(o)' = Taker(o)
  BY <1>0, <1>1 DEF Shown
<1>3. CASE NoOffer(o)
  <2>1. Holder(o) = NoRider /\ Holder(o)' = NoRider
    BY <1>0, <1>1, <1>3 DEF Shown, NoOffer
  <2> QED
    BY <1>1, <1>2, <2>1, StaysAllowed DEF Stays
<1>4. ASSUME NEW r \in Rider, OfferLive(o, r)
      PROVE  Allows(o)
  <2>1. /\ Holder(o) = r /\ r # NoRider
        /\ \A s \in Rider : OfferLive(o, s)' => s = r
    BY <1>0, <1>1, <1>4, NoneAssumption DEF Shown, TurnOf, OrderTurn
  <2>2. CASE OfferLive(o, r)'
    BY <1>0, <1>1, <1>2, <2>1, <2>2, StaysAllowed DEF Shown, Stays
  <2>3. CASE ~OfferLive(o, r)'
    <3>1. Holder(o)' = NoRider
      BY <1>0, <2>1, <2>3 DEF Shown, NoOffer
    <3> QED
      BY <1>1, <1>2, <2>1, <3>1
         DEF Allows, Dispatched!Step, Dispatched!Declined, Dispatched!Becomes
  <2> QED
    BY <2>2, <2>3
<1> QED
  BY <1>3, <1>4 DEF NoOffer

\* A handler that starts has not yet done anything that is shown.
LEMMA StartStays ==
    ASSUME TypeInv, NEW o \in Order, Orderly(o)', Solo(o)', NEW p \in Proc,
           \/ \E premium \in BOOLEAN : CreateOrder(p, o, premium)
           \/ \E r \in Rider : Accept(p, o, r) \/ Reject(p, o, r) \/ WorkerTakes(p, o, r)
           \/ Cancel(p, o)
    PROVE  Stays(o)
<1> USE DEF rowVars, redisVars, historyVars, boundVars
<1>0. Shown /\ Shown' /\ task \in [Proc -> Task]
  BY ShownHolds, ShownAfter DEF TypeInv, TypeOK
<1>1. PICK pc, r, job :
        /\ ~Working(p) /\ Start(p, pc, o, r, job)
        /\ pc \in {"query", "accept_delkey", "reject_del", "reject_list", "cancel_update"}
        /\ UNCHANGED <<offer, candidates, riderId, shortlist>>
  BY DEF CreateOrder, Accept, Reject, WorkerTakes, Cancel, StartRejection
<1>2. /\ \A q \in Proc : task[q].order # o
      /\ task' = [task EXCEPT ![p] = Handler(pc, o, r, job)]
  BY <1>1, StartsAlone
<1>3. task'[p].order = o /\ task'[p].pc = pc
  BY <1>0, <1>2 DEF Handler
<1>4. Queue(o) = candidates[o] /\ Taker(o) = riderId[o]
  BY <1>0, <1>2 DEF Shown
<1>5. Queue(o)' = QueueBy(o, task[p])' /\ Taker(o)' = TakerBy(o, task[p])'
  BY <1>0, <1>3 DEF Shown
<1>6. QueueBy(o, task[p])' = candidates[o] /\ TakerBy(o, task[p])' = riderId[o]
  BY <1>1, <1>3 DEF QueueBy, TakerBy, TakingPC, PassingPC
<1> QED
  BY <1>1, <1>4, <1>5, <1>6, SameHolder DEF Stays

\* The step of an order's only handler is a step of Offers, or shows nothing new.
LEMMA HandlerStepAllowed ==
    ASSUME TypeInv, RankingInv, NEW o \in Order, TurnOf(o), TurnOf(o)', Orderly(o)',
           \A q \in Proc : task[q].order = o => HandlerPrompt(task[q]),
           NEW p \in Proc, Step(p), task[p].order = o
    PROVE  Allows(o)
<1>0. /\ Shown /\ Shown' /\ TypeOK /\ task \in [Proc -> Task]
      /\ candidates[o] \in Seq(Rider)
      /\ LocalsOK(task[p]) /\ task[p] \in Task
      /\ Idle.order = NoOrder /\ NoOrder # o
      /\ OrderTurn(o) /\ HandlerTurn(task[p]) /\ HandlerPrompt(task[p])
      /\ \A q \in Proc \ {p} : task[q].order # o
      /\ MATCH_TTL > 0 /\ NoRider \notin Rider
  BY ShownHolds, ShownAfter, TtlAssumption, NoneAssumption
     DEF TypeInv, TypeOK, HandlerOK, Idle, Handler, TurnOf, Solo
<1>t. PICK t : t = task[p]
  OBVIOUS
<1>h. /\ t.order = o /\ HandlerTurn(t) /\ HandlerPrompt(t) /\ LocalsOK(t) /\ t \in Task
      /\ Queue(o) = QueueBy(o, t) /\ Taker(o) = TakerBy(o, t)
  BY <1>0, <1>t DEF Shown, TurnOf
<1> USE DEF rowVars, redisVars, historyVars, boundVars
\* what is shown when the handler goes on as u, and when it ends
<1>1. ASSUME NEW u, u.order = o, task' = [task EXCEPT ![p] = u]
      PROVE  /\ Queue(o)' = IF u.pc \in TakingPC THEN <<>>
                            ELSE IF u.pc \in PassingPC THEN u.rest ELSE candidates'[o]
             /\ Taker(o)' = IF u.pc \in TakingPC THEN u.rider ELSE riderId'[o]
  <2>1. task'[p] = u
    BY <1>0, <1>1
  <2>2. Queue(o)' = QueueBy(o, task[p])' /\ Taker(o)' = TakerBy(o, task[p])'
    BY <1>0, <1>1, <2>1 DEF Shown, TurnOf
  <2> QED
    BY <2>1, <2>2 DEF QueueBy, TakerBy
<1>2. ASSUME task' = [task EXCEPT ![p] = Idle]
      PROVE  Queue(o)' = candidates'[o] /\ Taker(o)' = riderId'[o]
  <2>1. \A q \in Proc : task'[q].order # o
    BY <1>0, <1>2
  <2> QED
    BY <1>0, <2>1 DEF Shown
<1>3. CASE FindNobody(p) \/ AddTimeout(p) \/ RejectNoList(p) \/ ExhaustEmit(p) \/ CancelUpdate(p)
  <2>1. /\ task' = [task EXCEPT ![p] = Idle]
        /\ t.pc \notin TakingPC \cup PassingPC
        /\ UNCHANGED <<candidates, offer, riderId, shortlist>>
    BY <1>3, <1>t DEF FindNobody, AddTimeout, RejectNoList, ExhaustEmit, CancelUpdate, Finish,
       TakingPC, PassingPC
  <2>2. Stays(o)
    BY <1>h, <1>2, <2>1, SameHolder DEF Stays, QueueBy, TakerBy
  <2> QED
    BY <2>2, StaysAllowed
<1>4. CASE AcceptUpdate(p)
  <2>1. /\ task' = [task EXCEPT ![p] = Idle] /\ t.pc = "accept_update"
        /\ riderId'[o] = t.rider
        /\ UNCHANGED <<candidates, offer, shortlist>>
    BY <1>0, <1>4, <1>t DEF AcceptUpdate, Finish, TypeOK
  <2>2. candidates[o] = <<>>
    BY <1>h, <2>1 DEF HandlerTurn
  <2>3. Stays(o)
    BY <1>h, <1>2, <2>1, <2>2, SameHolder DEF Stays, QueueBy, TakerBy, TakingPC
  <2> QED
    BY <2>3, StaysAllowed
<1>5. CASE FindRiders(p)
  <2>0. PICK nearby \in SUBSET Rider :
          \E ranking \in SetToSeqs(Eligible(o, nearby)) :
            /\ ranking # <<>>
            /\ shortlist' = [shortlist EXCEPT ![o] = ranking]
            /\ task' = [task EXCEPT ![p].pc = "store", ![p].rest = ranking]
    BY <1>5 DEF FindRiders
  <2>1. PICK ranking \in SetToSeqs(Eligible(o, nearby)) :
            /\ ranking # <<>>
            /\ shortlist' = [shortlist EXCEPT ![o] = ranking]
            /\ task' = [task EXCEPT ![p].pc = "store", ![p].rest = ranking]
    BY <2>0
  <2>2. \A i, j \in 1..Len(ranking) : ranking[i] = ranking[j] => i = j
    <3>1. Eligible(o, nearby) \in SUBSET Rider
      BY DEF Eligible
    <3>2. ranking \in Seq(Eligible(o, nearby))
      BY <2>1, <3>1, RankingIsSeq
    <3>3. DOMAIN ranking = 1..Len(ranking)
      BY <3>2
    <3> QED
      BY <3>3 DEF SetToSeqs
  <2>3. PICK u : u = [t EXCEPT !.pc = "store", !.rest = ranking]
    OBVIOUS
  <2>4. /\ u.pc = "store" /\ u.rest = ranking /\ u.order = o
        /\ task' = [task EXCEPT ![p] = u]
    BY <1>0, <1>t, <1>h, <2>1, <2>3 DEF Task
  <2>5. /\ t.pc = "query" /\ UNCHANGED <<offer, riderId>>
        /\ shortlist[o] = <<>> /\ shortlist'[o] = ranking
    BY <1>0, <1>5, <1>t, <2>1 DEF FindRiders, RankingInv, TypeOK
  <2>6. Queue(o)' = ranking /\ Taker(o)' = Taker(o)
    BY <1>1, <1>h, <2>4, <2>5 DEF TakerBy, TakingPC, PassingPC
  <2>7. Holder(o)' = NoRider
    <3>1. NoOffer(o)
      BY <1>h, <2>5 DEF HandlerTurn, Fresh
    <3> QED
      BY <1>0, <2>5, <3>1, SameHolder DEF Shown
  <2> QED
    BY <2>1, <2>2, <2>5, <2>6, <2>7 DEF Allows, Dispatched!Step, Dispatched!Rank, Dispatched!Becomes
<1>6. CASE StoreCandidates(p)
  <2>1. PICK u : u = [t EXCEPT !.pc = "request", !.rider = Head(t.rest), !.rest = <<>>]
    OBVIOUS
  <2>2. /\ t.pc = "store" /\ candidates'[o] = t.rest
        /\ u.pc = "request" /\ u.order = o /\ task' = [task EXCEPT ![p] = u]
        /\ UNCHANGED <<offer, riderId, shortlist>>
    BY <1>0, <1>6, <1>t, <1>h, <2>1 DEF Task, StoreCandidates, TypeOK
  <2>3. Stays(o)
    BY <1>1, <1>h, <2>2, SameHolder DEF Stays, QueueBy, TakerBy, TakingPC, PassingPC
  <2> QED
    BY <2>3, StaysAllowed
<1>7. CASE RejectReadList(p)
  <2>0. PICK rest : rest = Remaining(candidates[o], t.rider)
    OBVIOUS
  <2>1. PICK u : u = [t EXCEPT !.pc = IF rest = <<>> THEN "exhaust_del" ELSE "store", !.rest = rest]
    OBVIOUS
  <2>2. /\ t.pc = "reject_list" /\ candidates[o] # <<>> /\ t.rider \in Rider
        /\ u.pc \in PassingPC /\ u.rest = rest /\ u.order = o /\ task' = [task EXCEPT ![p] = u]
        /\ UNCHANGED <<offer, candidates, riderId, shortlist>>
    BY <1>0, <1>7, <1>t, <1>h, <2>0, <2>1 DEF Task, RejectReadList, PassingPC, LocalsOK, RiderPC
  <2>3. /\ Queue(o) = candidates[o] /\ Queue(o)' = rest
        /\ Taker(o)' = Taker(o) /\ Holder(o)' = Holder(o)
    BY <1>1, <1>h, <2>2, SameHolder DEF QueueBy, TakerBy, TakingPC, PassingPC
  <2>4. /\ t.rider \in ToSet(candidates[o]) => t.rider \in asked[o]
        /\ ~OfferLive(o, t.rider)
    <3>1. o \notin skipped'
      BY DEF Orderly
    <3>2. ~Unasked(o, t.rider)
      BY <1>0, <1>7, <1>t, <3>1 DEF RejectReadList
    <3> QED
      BY <1>h, <2>2, <3>2 DEF HandlerTurn, Unasked
  <2>5. CASE t.rider = Head(candidates[o]) /\ rest = Tail(candidates[o])
    <3>1. Holder(o) = NoRider
      BY <1>0, <2>2, <2>4, <2>5 DEF OrderTurn, InTurn, NoOffer, Shown
    <3> QED
      BY <2>2, <2>3, <2>5, <3>1 DEF Allows, Dispatched!Step, Dispatched!PassOn, Dispatched!Becomes
  <2>6. CASE rest = candidates[o]
    BY <2>2, <2>3, <2>6, StaysAllowed DEF Stays
  <2> QED
    BY <1>0, <2>0, <2>2, <2>4, <2>5, <2>6, RemainingInTurn DEF OrderTurn
<1>8. ASSUME NEW pc, Move(p, pc)
      PROVE  \E u : /\ task' = [task EXCEPT ![p] = u]
                    /\ u.pc = pc /\ u.order = o /\ u.rider = t.rider /\ u.rest = t.rest
  <2> DEFINE u == [t EXCEPT !.pc = pc]
  <2>1. /\ task' = [task EXCEPT ![p] = u]
        /\ u.pc = pc /\ u.order = o /\ u.rider = t.rider /\ u.rest = t.rest
    BY <1>0, <1>t, <1>h, <1>8 DEF Move, Task
  <2> QED
    BY <2>1
<1>9. CASE SetOffer(p)
  <2>1. PICK u : task' = [task EXCEPT ![p] = u] /\ u.pc = "emit" /\ u.order = o
    BY <1>8, <1>9 DEF SetOffer
  <2>2. /\ t.pc = "request" /\ t.rider \in Rider
        /\ UNCHANGED <<candidates, riderId, shortlist>>
        /\ offer' = [offer EXCEPT ![o][t.rider] = MATCH_TTL]
    BY <1>0, <1>9, <1>t DEF SetOffer, LocalsOK, RiderPC
  <2>3. /\ Queue(o) = candidates[o] /\ Queue(o)' = Queue(o) /\ Taker(o)' = Taker(o)
    BY <1>1, <1>h, <2>1, <2>2 DEF QueueBy, TakerBy, TakingPC, PassingPC
  <2>4. AtHead(t) /\ candidates[o] # <<>>
    BY <1>h, <2>2 DEF HandlerTurn, HandlerPrompt
  <2>5. Holder(o) \in {NoRider, t.rider}
    BY <1>0, <1>h, <2>4 DEF AtHead, Shown, NoOffer
  <2>6. Holder(o)' = t.rider
    <3>1. OfferLive(o, t.rider)'
      BY <1>0, <2>2 DEF OfferLive, TypeOK
    <3> QED
      BY <1>0, <2>2, <3>1 DEF Shown, TurnOf, OrderTurn
  <2> QED
    BY <1>h, <2>2, <2>3, <2>4, <2>5, <2>6
       DEF AtHead, Allows, Dispatched!Step, Dispatched!AskFirst, Dispatched!Becomes
<1>10. CASE EmitJobRequest(p)
  <2>1. PICK u : task' = [task EXCEPT ![p] = u] /\ u.pc = "enqueue" /\ u.order = o
    BY <1>8, <1>10 DEF EmitJobRequest
  <2>2. t.pc = "emit" /\ UNCHANGED <<candidates, offer, riderId, shortlist>>
    BY <1>10, <1>t DEF EmitJobRequest
  <2>3. Stays(o)
    BY <1>1, <1>h, <2>1, <2>2, SameHolder DEF Stays, QueueBy, TakerBy, TakingPC, PassingPC
  <2> QED
    BY <2>3, StaysAllowed
\* the deletion of the key ends the offer: it is taken, or refused
<1>11. CASE AcceptDelKey(p) \/ RejectDelKey(p)
  <2>1. PICK pc \in {"accept_dellist", "reject_list"} :
          /\ Move(p, pc)
          /\ t.pc = IF pc = "reject_list" THEN "reject_del" ELSE "accept_delkey"
    BY <1>11, <1>t DEF AcceptDelKey, RejectDelKey
  <2>2. PICK u : /\ task' = [task EXCEPT ![p] = u] /\ u.pc = pc /\ u.order = o
                 /\ u.rider = t.rider
    BY <1>8, <2>1
  <2>3. /\ t.rider \in Rider
        /\ UNCHANGED <<candidates, riderId, shortlist>>
        /\ offer' = [offer EXCEPT ![o][t.rider] = 0]
    BY <1>0, <1>11, <1>t DEF AcceptDelKey, RejectDelKey, LocalsOK, RiderPC
  <2>4. OfferLive(o, t.rider) /\ \A r \in Rider : OfferLive(o, r) => r = t.rider
    BY <1>h, <2>1 DEF HandlerTurn, HandlerPrompt, AtHead
  <2>5. Holder(o) = t.rider /\ t.rider # NoRider
    BY <1>0, <2>3, <2>4 DEF Shown
  <2>6. Holder(o)' = NoRider
    BY <1>0, <2>3, <2>4 DEF Shown, NoOffer, OfferLive, TypeOK
  <2>7. CASE pc = "accept_dellist"
    <3>1. Queue(o)' = <<>> /\ Taker(o)' = t.rider
      BY <1>1, <2>2, <2>7 DEF TakingPC
    <3> QED
      BY <2>3, <2>5, <2>6, <3>1 DEF Allows, Dispatched!Step, Dispatched!Take, Dispatched!Becomes
  <2>8. CASE pc = "reject_list"
    <3>1. Queue(o)' = Queue(o) /\ Taker(o)' = Taker(o)
      BY <1>1, <1>h, <2>1, <2>2, <2>3, <2>8 DEF QueueBy, TakerBy, TakingPC, PassingPC
    <3> QED
      BY <2>3, <2>5, <2>6, <3>1 DEF Allows, Dispatched!Step, Dispatched!Declined, Dispatched!Becomes
  <2> QED
    BY <2>7, <2>8
<1>12. CASE AcceptDelList(p) \/ ExhaustDelList(p)
  <2>1. PICK pc \in {"accept_update", "exhaust_emit"} :
          /\ Move(p, pc)
          /\ t.pc = IF pc = "exhaust_emit" THEN "exhaust_del" ELSE "accept_dellist"
    BY <1>12, <1>t DEF AcceptDelList, ExhaustDelList
  <2>2. PICK u : /\ task' = [task EXCEPT ![p] = u] /\ u.pc = pc /\ u.order = o
                 /\ u.rider = t.rider
    BY <1>8, <2>1
  <2>3. candidates'[o] = <<>> /\ UNCHANGED <<offer, riderId, shortlist>>
    BY <1>0, <1>12, <1>t DEF AcceptDelList, ExhaustDelList, TypeOK
  <2>4. t.pc = "exhaust_del" => t.rest = <<>>
    BY <1>h DEF HandlerTurn
  <2>5. Stays(o)
    BY <1>1, <1>h, <2>1, <2>2, <2>3, <2>4, SameHolder
       DEF Stays, QueueBy, TakerBy, TakingPC, PassingPC
  <2> QED
    BY <2>5, StaysAllowed
<1> QED
  BY <1>3, <1>4, <1>5, <1>6, <1>7, <1>9, <1>10, <1>11, <1>12 DEF Step

\* Every step of dispatch is a step of Offers or leaves what is shown as it is.
LEMMA StepAllowed ==
    ASSUME TurnsAreKept, TurnInv', Prompt, [Next]_vars
    PROVE  Dispatched!Next
<1> DEFINE Loose == overlapped \cup disturbed \cup skipped \cup reassigned
<1>1. Loose \subseteq Loose'
  BY HistoryGrows DEF TurnsAreKept
<1>2. ASSUME NEW o \in Order, o \notin Loose'
      PROVE  Allows(o)
  <2>1. /\ TypeInv /\ RankingInv /\ Orderly(o)' /\ o \notin reassigned'
        /\ TurnOf(o) /\ TurnOf(o)' /\ PromptOf(o) /\ Solo(o) /\ Solo(o)'
    BY <1>1, <1>2 DEF TurnsAreKept, TurnInv, PromptInv, Orderly, Alone, TurnOf
  <2>a. Alone(o)'
    BY <2>1 DEF Orderly
  <2>2. CASE Untouched(o)
    BY <2>1, <2>2, UntouchedStays, StaysAllowed
  <2>3. CASE Tick
    BY <2>1, <2>3, TickAllowed
  <2>4. ASSUME NEW p \in Proc, Step(p), task[p].order = o
        PROVE  Allows(o)
    BY <2>1, <2>4, HandlerStepAllowed DEF PromptOf
  <2>5. ASSUME NEW p \in Proc,
               \/ \E premium \in BOOLEAN : CreateOrder(p, o, premium)
               \/ \E r \in Rider : Accept(p, o, r) \/ Reject(p, o, r) \/ WorkerTakes(p, o, r)
               \/ Cancel(p, o)
        PROVE  Allows(o)
    BY <2>1, <2>5, StartStays, StaysAllowed
  <2>6. ASSUME NEW s \in OverrideStatuses, OverrideOrderStatus(o, s)
        PROVE  Allows(o)
    <3>1. UNCHANGED <<riderId, offer, candidates, shortlist, task>>
      BY <2>6 DEF OverrideOrderStatus, redisVars, historyVars
    <3>2. Stays(o)
      BY <3>1, SameHolder DEF Stays, Queue, Taker, Taking, Passing, At
    <3> QED
      BY <3>2, StaysAllowed
  <2>7. ASSUME NEW r \in Rider, ReassignOrder(o, r)
        PROVE  FALSE
    BY <2>1, <2>7 DEF ReassignOrder
  <2> QED
    BY <2>1, <2>a, <2>2, <2>3, <2>4, <2>5, <2>6, <2>7, TouchingSteps DEF TurnsAreKept
<1> QED
  BY <1>1, <1>2 DEF Allows, Dispatched!Next

\* While the worker keeps up, dispatch asks the riders of an order as Offers promises: in
\* turn, each after the one before has refused or let the offer lapse, until one
\* takes it; no late answer, stale timeout or expired key makes it otherwise.  It says
\* nothing of the orders that are loose: handlers overlapped or failed, an admin
\* reassigned, or a rider on the list refused before he was asked (riderRejected).
THEOREM RidersAreAskedInTurn == Prompt => (Spec => Dispatched!Safety)
<1> SUFFICES ASSUME Prompt PROVE Spec => Dispatched!Safety
  OBVIOUS
<1>1. Init => Dispatched!Init
  BY DEF Init, Dispatched!Init, Queue, Holder, Taker, Taking, Passing, At, Offered, OfferLive,
     Idle, Handler
<1>2. TurnsAreKept /\ TurnsAreKept' /\ [Next]_vars => [Dispatched!Next]_(Dispatched!offerVars)
  BY StepAllowed DEF TurnsAreKept
<1> QED
  BY <1>1, <1>2, TurnsHold, PTL DEF Spec, Dispatched!Safety

-----------------------------------------------------------------------------
(* Chains of offers do not multiply.  A chain is a job that waits or a     *)
(* handler that may still add one; a handler turns the one into the other, *)
(* and only the creation of the order and a rider's rejection begin one.   *)
(* A crash gives the job the worker was running back to the queue, but     *)
(* the worker runs one at a time, and its handler was a chain already.     *)

\* awaits at which a handler may add a job, or is run by one that a crash gives back
ChainPC == {"query", "store", "request", "emit", "enqueue", "reject_del",
            "reject_list", "exhaust_del", "exhaust_emit"}

\* the handlers that are links of a chain of o
Links(o) == {p \in Proc : task[p].order = o /\ task[p].pc \in ChainPC}

\* the calls that began a chain of o: those made, and its creation
Begun(o) == requests + IF status[o] = "NONE" THEN 0 ELSE 1

\* the chains of o are no more than the calls that began one
OrderChains(o) ==
    /\ IsFiniteSet(Jobs(timeouts[o])) /\ IsFiniteSet(Links(o))
    /\ Cardinality(Jobs(timeouts[o])) + Cardinality(Links(o)) <= Begun(o)

\* at most one handler runs for a job, and it is a link
WorkerAlone ==
    /\ \A p \in Proc : task[p].job # NoRider => task[p].pc \in ChainPC
    /\ \A p, q \in Proc : task[p].job # NoRider /\ task[q].job # NoRider => p = q

ChainInv == WorkerAlone /\ \A o \in Order : OrderChains(o)

\* A job is told by its rider, its delay and its number.
LEMMA JobIs ==
    ASSUME NEW j, NEW x
    PROVE  x \in Jobs(j) <=> \E r \in Rider, d \in Delay : \E n \in 1..j[r][d] : x = <<r, d, n>>
<1> DEFINE Numbered(r, d) == {<<r, d, n>> : n \in 1..j[r][d]}
<1>1. Jobs(j) = UNION {Numbered(r, d) : r \in Rider, d \in Delay}
  BY DEF Jobs
<1>2. x \in Jobs(j) <=> \E r \in Rider, d \in Delay : x \in Numbered(r, d)
  <2> HIDE DEF Numbered
  <2> QED
    BY <1>1
<1> QED
  BY <1>2

\* k holds one job more than j, for rider r after delay d
OneMore(j, k, r, d) ==
    /\ k[r][d] = j[r][d] + 1
    /\ \A s \in Rider, e \in Delay : s # r \/ e # d => k[s][e] = j[s][e]

\* One job more is one element more.
LEMMA JobAdded ==
    ASSUME NEW j \in [Rider -> [Delay -> Nat]], IsFiniteSet(Jobs(j)),
           NEW r \in Rider, NEW d \in Delay,
           NEW k, OneMore(j, k, r, d)
    PROVE  IsFiniteSet(Jobs(k)) /\ Cardinality(Jobs(k)) = Cardinality(Jobs(j)) + 1
<1>0. PICK x : x = <<r, d, j[r][d] + 1>>
  OBVIOUS
<1>1. /\ k[r][d] = j[r][d] + 1 /\ j[r][d] \in Nat
      /\ \A s \in Rider, e \in Delay : s # r \/ e # d => k[s][e] = j[s][e]
  BY DEF OneMore
<1>2. x \notin Jobs(j)
  <2>1. SUFFICES ASSUME NEW s \in Rider, NEW e \in Delay, NEW n \in 1..j[s][e], x = <<s, e, n>>
                 PROVE  FALSE
    BY JobIs
  <2> QED
    BY <1>0, <1>1, <2>1
<1>3. x \in Jobs(k)
  <2>1. j[r][d] + 1 \in 1..k[r][d]
    BY <1>1
  <2> QED
    BY <1>0, <2>1, JobIs
<1>4. ASSUME NEW y \in Jobs(j) PROVE y \in Jobs(k)
  <2>1. PICK s \in Rider, e \in Delay : \E n \in 1..j[s][e] : y = <<s, e, n>>
    BY JobIs
  <2>2. PICK n \in 1..j[s][e] : y = <<s, e, n>>
    BY <2>1
  <2>3. n \in 1..k[s][e]
    BY <1>1
  <2> QED
    BY <2>2, <2>3, JobIs
<1>5. ASSUME NEW y \in Jobs(k), y # x PROVE y \in Jobs(j)
  <2>1. PICK s \in Rider, e \in Delay : \E n \in 1..k[s][e] : y = <<s, e, n>>
    BY JobIs
  <2>2. PICK n \in 1..k[s][e] : y = <<s, e, n>>
    BY <2>1
  <2>3. n \in 1..j[s][e]
    BY <1>0, <1>1, <1>5, <2>2
  <2> QED
    BY <2>2, <2>3, JobIs
<1>6. Jobs(k) = Jobs(j) \cup {x}
  BY <1>3, <1>4, <1>5
<1> QED
  BY <1>2, <1>6, FS_AddElement

\* One job less is one element less.
LEMMA JobTaken ==
    ASSUME NEW j, IsFiniteSet(Jobs(j)), NEW r \in Rider, NEW d \in Delay,
           NEW k \in [Rider -> [Delay -> Nat]], OneMore(k, j, r, d)
    PROVE  IsFiniteSet(Jobs(k)) /\ Cardinality(Jobs(k)) = Cardinality(Jobs(j)) - 1
<1>1. ASSUME NEW y \in Jobs(k) PROVE y \in Jobs(j)
  <2>1. PICK s \in Rider, e \in Delay : \E n \in 1..k[s][e] : y = <<s, e, n>>
    BY JobIs
  <2>2. PICK n \in 1..k[s][e] : y = <<s, e, n>>
    BY <2>1
  <2>3. k[s][e] \in Nat
    OBVIOUS
  <2>4. n \in 1..j[s][e]
    BY <2>3 DEF OneMore
  <2> QED
    BY <2>2, <2>4, JobIs
<1>2. IsFiniteSet(Jobs(k))
  BY <1>1, FS_Subset
<1>3. Cardinality(Jobs(j)) = Cardinality(Jobs(k)) + 1
  BY <1>2, JobAdded
<1> QED
  BY <1>2, <1>3, FS_CardinalityType

\* A tick makes no job: each one after it was one before.
LEMMA JobsAge ==
    ASSUME NEW j \in [Rider -> [Delay -> Nat]], IsFiniteSet(Jobs(j)),
           NEW k, k = [r \in Rider |-> Sooner(j[r])]
    PROVE  IsFiniteSet(Jobs(k)) /\ Cardinality(Jobs(k)) <= Cardinality(Jobs(j))
<1> DEFINE Aged(x) == IF x[2] = 0 THEN x
                      ELSE IF x[2] = 1 THEN <<x[1], 0, x[3] + j[x[1]][0]>>
                      ELSE <<x[1], x[2] - 1, x[3]>>
           f == [x \in Jobs(j) |-> Aged(x)]
<1>0. /\ \A r \in Rider, d \in Delay : j[r][d] \in Nat
      /\ \A r \in Rider, d \in Delay :
           k[r][d] = (IF d = 0 THEN j[r][0] ELSE 0) + (IF d = MATCH_TTL THEN 0 ELSE j[r][d + 1])
  BY DEF Sooner
<1>9. /\ 1 \in Delay /\ 0 \in Delay
      /\ \A r \in Rider : k[r][0] = j[r][0] + j[r][1]
  BY <1>0 DEF Delay
<1>1. ASSUME NEW x \in Jobs(j) PROVE Aged(x) \in Jobs(k)
  <2>1. PICK r \in Rider, d \in Delay : \E n \in 1..j[r][d] : x = <<r, d, n>>
    BY JobIs
  <2>2. PICK n \in 1..j[r][d] : x = <<r, d, n>>
    BY <2>1
  <2>3. CASE d = 0
    <3>1. n \in 1..k[r][0]
      BY <1>0, <1>9, <2>3
    <3> QED
      BY <2>2, <2>3, <3>1, JobIs, DelayEnds
  <2>4. CASE d = 1
    <3>1. n + j[r][0] \in 1..k[r][0]
      BY <1>0, <1>9, <2>4
    <3>2. <<r, 0, n + j[r][0]>> \in Jobs(k)
      BY <3>1, JobIs, DelayEnds
    <3> QED
      BY <2>2, <2>4, <3>2
  <2>5. CASE d > 1
    <3>1. d - 1 \in Delay /\ d - 1 # MATCH_TTL /\ d - 1 # 0 /\ (d - 1) + 1 = d
      BY <2>5 DEF Delay
    <3>2. n \in 1..k[r][d - 1]
      BY <1>0, <3>1
    <3>3. <<r, d - 1, n>> \in Jobs(k)
      BY <3>1, <3>2, JobIs
    <3> QED
      BY <2>2, <2>5, <3>3 DEF Delay
  <2> QED
    BY <2>3, <2>4, <2>5 DEF Delay
<1>2. ASSUME NEW y \in Jobs(k) PROVE \E x \in Jobs(j) : Aged(x) = y
  <2>1. PICK r \in Rider, d \in Delay : \E n \in 1..k[r][d] : y = <<r, d, n>>
    BY JobIs
  <2>2. PICK n \in 1..k[r][d] : y = <<r, d, n>>
    BY <2>1
  <2>3. CASE d = 0 /\ n <= j[r][0]
    <3>1. y \in Jobs(j)
      BY <2>2, <2>3, JobIs, <1>0
    <3> QED
      BY <2>2, <2>3, <3>1
  <2>4. CASE d = 0 /\ n > j[r][0]
    <3>1. 1 \in Delay /\ n - j[r][0] \in 1..j[r][1] /\ (n - j[r][0]) + j[r][0] = n
      BY <1>0, <1>9, <2>4
    <3>2. <<r, 1, n - j[r][0]>> \in Jobs(j)
      BY <3>1, JobIs
    <3>3. Aged(<<r, 1, n - j[r][0]>>) = y
      BY <2>2, <2>4, <3>1
    <3> QED
      BY <3>2, <3>3
  <2>5. CASE d > 0
    <3>1. d # MATCH_TTL
      BY <1>0, <2>5 DEF Delay
    <3>2. d + 1 \in Delay /\ n \in 1..j[r][d + 1] /\ (d + 1) - 1 = d /\ d + 1 # 0 /\ d + 1 # 1
      BY <1>0, <2>5, <3>1 DEF Delay
    <3>3. <<r, d + 1, n>> \in Jobs(j)
      BY <3>2, JobIs
    <3>4. Aged(<<r, d + 1, n>>) = y
      BY <2>2, <3>2
    <3> QED
      BY <3>3, <3>4
  <2> QED
    BY <2>3, <2>4, <2>5, <1>0 DEF Delay
<1>3. f \in Surjection(Jobs(j), Jobs(k))
  <2>1. f \in [Jobs(j) -> Jobs(k)] /\ \A y \in Jobs(k) : \E x \in Jobs(j) : f[x] = y
    BY <1>1, <1>2
  <2> QED
    BY <2>1 DEF Surjection
<1> QED
  BY <1>3, FS_Surjection

\* What a handler's step does to the record of its slot: a link stays a link or is done.
LEMMA HandlerMoves ==
    ASSUME TypeInv, NEW p \in Proc, Step(p) \/ Fail(p)
    PROVE  /\ \A q \in Proc \ {p} : task'[q] = task[q]
           /\ \/ task'[p] = Idle
              \/ /\ task'[p].order = task[p].order /\ task'[p].job = task[p].job
                 /\ task'[p].pc \in ChainPC <=> task[p].pc \in ChainPC
<1>0. task \in [Proc -> Task] /\ task[p] \in Task
  BY DEF TypeInv, TypeOK
<1>1. ASSUME NEW pc, task' = [task EXCEPT ![p].pc = pc]
      PROVE  /\ task'[p].order = task[p].order /\ task'[p].job = task[p].job /\ task'[p].pc = pc
             /\ \A q \in Proc \ {p} : task'[q] = task[q]
  BY <1>0, <1>1 DEF Task
<1>2. ASSUME NEW pc, NEW rest, task' = [task EXCEPT ![p].pc = pc, ![p].rest = rest]
      PROVE  /\ task'[p].order = task[p].order /\ task'[p].job = task[p].job /\ task'[p].pc = pc
             /\ \A q \in Proc \ {p} : task'[q] = task[q]
  BY <1>0, <1>2 DEF Task
<1>3. ASSUME NEW pc, NEW r, NEW rest,
             task' = [task EXCEPT ![p].pc = pc, ![p].rider = r, ![p].rest = rest]
      PROVE  /\ task'[p].order = task[p].order /\ task'[p].job = task[p].job /\ task'[p].pc = pc
             /\ \A q \in Proc \ {p} : task'[q] = task[q]
  BY <1>0, <1>3 DEF Task
<1>4. ASSUME task' = [task EXCEPT ![p] = Idle]
      PROVE  task'[p] = Idle /\ \A q \in Proc \ {p} : task'[q] = task[q]
  BY <1>0, <1>4
<1>5. CASE FindRiders(p)
  BY <1>2, <1>5 DEF FindRiders, ChainPC
<1>6. CASE StoreCandidates(p)
  BY <1>3, <1>6 DEF StoreCandidates, ChainPC
<1>7. CASE RejectReadList(p)
  BY <1>2, <1>7 DEF RejectReadList, ChainPC
<1>8. CASE \/ FindNobody(p) \/ AddTimeout(p) \/ AcceptUpdate(p) \/ CancelUpdate(p)
           \/ RejectNoList(p) \/ ExhaustEmit(p) \/ Fail(p)
  BY <1>4, <1>8 DEF FindNobody, AddTimeout, AcceptUpdate, CancelUpdate, RejectNoList,
     ExhaustEmit, Fail, Finish
<1>9. CASE SetOffer(p) \/ EmitJobRequest(p)
  BY <1>1, <1>9 DEF SetOffer, EmitJobRequest, Move, ChainPC
<1>10. CASE AcceptDelKey(p) \/ AcceptDelList(p)
  <2>1. task[p].pc \notin ChainPC
    BY <1>10 DEF AcceptDelKey, AcceptDelList, ChainPC
  <2>2. PICK pc \in {"accept_dellist", "accept_update"} : task' = [task EXCEPT ![p].pc = pc]
    BY <1>10 DEF AcceptDelKey, AcceptDelList, Move
  <2>3. pc \notin ChainPC
    BY DEF ChainPC
  <2> QED
    BY <1>1, <2>1, <2>2, <2>3
<1>11. CASE RejectDelKey(p) \/ ExhaustDelList(p)
  BY <1>1, <1>11 DEF RejectDelKey, ExhaustDelList, Move, ChainPC
<1> QED
  BY <1>5, <1>6, <1>7, <1>8, <1>9, <1>10, <1>11 DEF Step

\* A call starts its handler in a free slot.
LEMMA StartedTask ==
    ASSUME TypeInv, NEW p \in Proc, NEW pc, NEW x, NEW r, NEW job,
           ~Working(p), Start(p, pc, x, r, job)
    PROVE  /\ \A q \in Proc \ {p} : task'[q] = task[q]
           /\ task'[p].pc = pc /\ task'[p].order = x /\ task'[p].job = job
           /\ task[p].pc = "idle"
<1>1. task \in [Proc -> Task]
  BY DEF TypeInv, TypeOK
<1>2. task' = [task EXCEPT ![p] = Handler(pc, x, r, job)]
  BY DEF Start
<1>3. task[p].pc = "idle"
  BY DEF Working, Idle, Handler
<1> QED
  BY <1>1, <1>2, <1>3 DEF Handler

\* The worker stays alone: it takes a job only when it runs none.
LEMMA AloneStep ==
    ASSUME TypeInv, WorkerAlone, [Next]_vars
    PROVE  WorkerAlone'
<1>0. /\ task \in [Proc -> Task] /\ Idle.job = NoRider
  BY DEF TypeInv, TypeOK, Idle, Handler
<1>1. ASSUME NEW p \in Proc, Step(p) \/ Fail(p)
      PROVE  WorkerAlone'
  BY <1>0, <1>1, HandlerMoves DEF WorkerAlone
<1>2. ASSUME NEW p \in Proc, NEW pc, NEW x, NEW r, NEW job, ~Working(p), Start(p, pc, x, r, job),
             job = NoRider \/ (WorkerFree /\ pc \in ChainPC)
      PROVE  WorkerAlone'
  BY <1>0, <1>2, StartedTask DEF WorkerAlone, WorkerFree
<1>3. ASSUME NEW p \in Proc, NEW x \in Order,
             \/ \E premium \in BOOLEAN : CreateOrder(p, x, premium)
             \/ \E r \in Rider : Accept(p, x, r) \/ Reject(p, x, r) \/ WorkerTakes(p, x, r)
             \/ Cancel(p, x)
      PROVE  WorkerAlone'
  BY <1>2, <1>3 DEF CreateOrder, Accept, Reject, WorkerTakes, Cancel, StartRejection, ChainPC
<1>4. CASE task' = task
  BY <1>4 DEF WorkerAlone
<1>5. CASE Crash
  BY <1>0, <1>5 DEF Crash, WorkerAlone
<1>6. Tick \/ UNCHANGED vars \/ (\E r \in Rider : ChangeRiderFleet(r)) \/ (\E x \in Order :
         \/ \E s \in OverrideStatuses : OverrideOrderStatus(x, s)
         \/ \E r \in Rider : ReassignOrder(x, r)) => task' = task
  BY DEF Tick, vars, OverrideOrderStatus, ReassignOrder, ChangeRiderFleet
<1> QED
  BY <1>1, <1>3, <1>4, <1>5, <1>6 DEF Next, Call, Worker

\* No call that began a chain is forgotten: an order's row is never deleted.
LEMMA BegunGrows ==
    ASSUME TypeInv, [Next]_vars, NEW o \in Order
    PROVE  Begun(o) \in Nat /\ Begun(o)' \in Nat /\ Begun(o) <= Begun(o)'
<1>0. TypeOK /\ requests \in Nat /\ status \in [Order -> OrderStatus \cup {"NONE"}]
  BY DEF TypeInv, TypeOK
<1> USE DEF rowVars, redisVars, historyVars, boundVars
<1>1. requests' = requests \/ requests' = requests + 1
  <2>1. ASSUME NEW p \in Proc, Step(p) \/ Fail(p)
        PROVE  requests' = requests
    BY <2>1 DEF Step, Fail, FindNobody, FindRiders, StoreCandidates, SetOffer,
       EmitJobRequest, AddTimeout, AcceptDelKey, AcceptDelList, AcceptUpdate, RejectDelKey,
       RejectNoList, RejectReadList, ExhaustDelList, ExhaustEmit, CancelUpdate
  <2>2. CASE Call
    BY <2>2 DEF Call, CreateOrder, Accept, Reject, Cancel, OverrideOrderStatus, ReassignOrder,
       ChangeRiderFleet
  <2> QED
    BY <2>1, <2>2 DEF Next, Worker, WorkerTakes, Tick, Crash, vars
<1>2. status'[o] = "NONE" => status[o] = "NONE"
  <2>1. ASSUME NEW p \in Proc, Step(p) \/ Fail(p)
        PROVE  status'[o] = "NONE" => status[o] = "NONE"
    BY <1>0, <2>1 DEF Step, Fail, FindNobody, FindRiders, StoreCandidates, SetOffer,
       EmitJobRequest, AddTimeout, AcceptDelKey, AcceptDelList, AcceptUpdate, RejectDelKey,
       RejectNoList, RejectReadList, ExhaustDelList, ExhaustEmit, CancelUpdate
  <2>2. CASE Call
    <3>1. "NONE" \notin OverrideStatuses
      BY DEF OrderStatus
    <3> QED
      BY <1>0, <2>2, <3>1 DEF Call, CreateOrder, Accept, Reject, Cancel,
         OverrideOrderStatus, ReassignOrder, ChangeRiderFleet
  <2> QED
    BY <2>1, <2>2 DEF Next, Worker, WorkerTakes, Tick, Crash, vars
<1> QED
  BY <1>0, <1>1, <1>2 DEF Begun

\* An order about which nothing changes keeps its chains, and one whose links
\* only drop out while its jobs stay.
LEMMA LinksDrop ==
    ASSUME NEW o \in Order, OrderChains(o), Begun(o) \in Nat, Begun(o)' \in Nat,
           Begun(o) <= Begun(o)', timeouts'[o] = timeouts[o], Links(o)' \subseteq Links(o)
    PROVE  OrderChains(o)'
<1>1. IsFiniteSet(Links(o)') /\ Cardinality(Links(o)') <= Cardinality(Links(o))
  BY FS_Subset DEF OrderChains
<1>2. Cardinality(Links(o)') \in Nat /\ Cardinality(Links(o)) \in Nat
      /\ Cardinality(Jobs(timeouts[o])) \in Nat
  BY <1>1, FS_CardinalityType DEF OrderChains
<1> QED
  BY <1>1, <1>2 DEF OrderChains

\* An order that nothing touches keeps its chains.
LEMMA UntouchedChains ==
    ASSUME TypeInv, [Next]_vars, NEW o \in Order, OrderChains(o), Untouched(o)
    PROVE  OrderChains(o)'
<1>1. Links(o)' \subseteq Links(o)
  BY DEF Untouched, Links
<1>2. timeouts'[o] = timeouts[o]
  BY DEF Untouched
<1> QED
  BY <1>1, <1>2, BegunGrows, LinksDrop

\* A handler that adds a job is done, so that its link becomes the job.
LEMMA HandlerChains ==
    ASSUME TypeInv, [Next]_vars, NEW o \in Order, OrderChains(o),
           NEW p \in Proc, Step(p) \/ Fail(p), task[p].order = o
    PROVE  OrderChains(o)'
<1>0. /\ TypeOK /\ task \in [Proc -> Task] /\ Idle.order # o
      /\ timeouts[o] \in [Rider -> [Delay -> Nat]]
  BY DEF TypeInv, TypeOK, Idle, Handler
<1>1. Links(o)' \subseteq Links(o)
  BY <1>0, HandlerMoves DEF Links
<1>2. CASE AddTimeout(p)
  <2>1. /\ p \in Links(o) /\ p \notin Links(o)' /\ task[p].rider \in Rider
        /\ timeouts' = [timeouts EXCEPT ![o][task[p].rider][MATCH_TTL] = @ + 1]
    BY <1>0, <1>2 DEF AddTimeout, Finish, Links, ChainPC, TypeInv, HandlerOK, LocalsOK, RiderPC
  <2>2. OneMore(timeouts[o], timeouts'[o], task[p].rider, MATCH_TTL)
    BY <1>0, <2>1, DelayEnds DEF OneMore, TypeOK
  <2>3. /\ IsFiniteSet(Jobs(timeouts'[o]))
        /\ Cardinality(Jobs(timeouts'[o])) = Cardinality(Jobs(timeouts[o])) + 1
    BY <1>0, <2>1, <2>2, DelayEnds, JobAdded DEF OrderChains
  <2>4. /\ IsFiniteSet(Links(o) \ {p})
        /\ Cardinality(Links(o) \ {p}) = Cardinality(Links(o)) - 1
    BY <2>1, FS_RemoveElement DEF OrderChains
  <2>5. Links(o)' \subseteq Links(o) \ {p}
    BY <1>1, <2>1
  <2>6. IsFiniteSet(Links(o)') /\ Cardinality(Links(o)') <= Cardinality(Links(o)) - 1
    BY <2>4, <2>5, FS_Subset
  <2>7. /\ Cardinality(Links(o)') \in Nat /\ Cardinality(Links(o)) \in Nat
        /\ Cardinality(Jobs(timeouts[o])) \in Nat
    BY <2>6, FS_CardinalityType DEF OrderChains
  <2> QED
    BY <2>3, <2>6, <2>7, BegunGrows DEF OrderChains
<1>3. CASE ~AddTimeout(p)
  <2>1. timeouts' = timeouts
    BY <1>3 DEF Step, Fail, FindNobody, FindRiders, StoreCandidates, SetOffer,
       EmitJobRequest, AcceptDelKey, AcceptDelList, AcceptUpdate, RejectDelKey,
       RejectNoList, RejectReadList, ExhaustDelList, ExhaustEmit, CancelUpdate,
       rowVars, redisVars
  <2> QED
    BY <1>1, <2>1, BegunGrows, LinksDrop
<1> QED
  BY <1>2, <1>3

\* A handler that starts is at most one link more.
LEMMA OneLinkMore ==
    ASSUME NEW o \in Order, OrderChains(o), NEW p, Links(o)' \subseteq Links(o) \cup {p}
    PROVE  /\ IsFiniteSet(Links(o)')
           /\ Cardinality(Links(o)') \in Nat /\ Cardinality(Links(o)) \in Nat
           /\ Cardinality(Links(o)') <= Cardinality(Links(o)) + 1
<1>0. IsFiniteSet(Links(o)) /\ Cardinality(Links(o)) \in Nat
  BY FS_CardinalityType DEF OrderChains
<1>1. /\ IsFiniteSet(Links(o) \cup {p})
      /\ Cardinality(Links(o) \cup {p}) <= Cardinality(Links(o)) + 1
  <2>1. /\ IsFiniteSet(Links(o) \cup {p})
        /\ Cardinality(Links(o) \cup {p}) =
             IF p \in Links(o) THEN Cardinality(Links(o)) ELSE Cardinality(Links(o)) + 1
    BY <1>0, FS_AddElement, Zenon
  <2> QED
    BY <1>0, <2>1
<1>2. /\ IsFiniteSet(Links(o)')
      /\ Cardinality(Links(o)') <= Cardinality(Links(o) \cup {p})
  BY <1>1, FS_Subset
<1>3. Cardinality(Links(o)') \in Nat /\ Cardinality(Links(o) \cup {p}) \in Nat
  BY <1>1, <1>2, FS_CardinalityType
<1> QED
  BY <1>0, <1>1, <1>2, <1>3

\* Calls that start no link keep the chains; creation and a rejection begin one
\* and are counted; the worker's handler takes the place of its job.
LEMMA StartChains ==
    ASSUME TypeInv, [Next]_vars, NEW o \in Order, OrderChains(o), NEW p \in Proc,
           \/ \E premium \in BOOLEAN : CreateOrder(p, o, premium)
           \/ \E r \in Rider : Accept(p, o, r) \/ Reject(p, o, r) \/ WorkerTakes(p, o, r)
           \/ Cancel(p, o)
    PROVE  OrderChains(o)'
<1>0. /\ TypeOK /\ task \in [Proc -> Task] /\ requests \in Nat
      /\ timeouts[o] \in [Rider -> [Delay -> Nat]]
      /\ Begun(o) \in Nat /\ Begun(o)' \in Nat /\ Begun(o) <= Begun(o)'
  BY BegunGrows DEF TypeInv, TypeOK
<1>1. Links(o)' \subseteq Links(o) \cup {p}
  <2>1. \A q \in Proc \ {p} : task'[q] = task[q]
    BY StartedTask DEF CreateOrder, Accept, Reject, WorkerTakes, Cancel, StartRejection
  <2> QED
    BY <2>1 DEF Links
<1>2. /\ IsFiniteSet(Links(o)')
      /\ Cardinality(Links(o)') \in Nat /\ Cardinality(Links(o)) \in Nat
      /\ Cardinality(Links(o)') <= Cardinality(Links(o)) + 1
  BY <1>1, OneLinkMore
<1>6. /\ IsFiniteSet(Jobs(timeouts[o])) /\ Cardinality(Jobs(timeouts[o])) \in Nat
      /\ Cardinality(Jobs(timeouts[o])) + Cardinality(Links(o)) <= Begun(o)
  BY FS_CardinalityType DEF OrderChains
<1>3. ASSUME (\E r \in Rider : Accept(p, o, r)) \/ Cancel(p, o)
      PROVE  OrderChains(o)'
  <2>1. /\ \A q \in Proc \ {p} : task'[q] = task[q]
        /\ task'[p].pc \in {"accept_delkey", "cancel_update"}
    BY <1>3, StartedTask DEF Accept, Cancel
  <2>2. Links(o)' \subseteq Links(o)
    BY <2>1 DEF Links, ChainPC
  <2>3. timeouts' = timeouts
    BY <1>3 DEF Accept, Cancel
  <2> QED
    BY <1>0, <2>2, <2>3, LinksDrop
<1>4. ASSUME \/ \E premium \in BOOLEAN : CreateOrder(p, o, premium)
             \/ \E r \in Rider : Reject(p, o, r)
      PROVE  OrderChains(o)'
  <2>1. Begun(o)' = Begun(o) + 1 /\ timeouts' = timeouts
    BY <1>0, <1>4 DEF CreateOrder, Reject, Begun, TypeOK, boundVars, rowVars
  <2> QED
    BY <1>0, <1>2, <1>6, <2>1 DEF OrderChains
<1>5. ASSUME NEW r \in Rider, WorkerTakes(p, o, r)
      PROVE  OrderChains(o)'
  <2>1. /\ timeouts[o][r][0] > 0
        /\ timeouts' = [timeouts EXCEPT ![o][r][0] = @ - 1]
    BY <1>5 DEF WorkerTakes
  <2>2. timeouts'[o] = [timeouts[o] EXCEPT ![r][0] = @ - 1]
    BY <1>0, <2>1 DEF TypeOK
  <2>3. /\ timeouts'[o] \in [Rider -> [Delay -> Nat]]
        /\ OneMore(timeouts'[o], timeouts[o], r, 0)
    BY <1>0, <2>1, <2>2, DelayEnds DEF OneMore
  <2>4. /\ IsFiniteSet(Jobs(timeouts'[o]))
        /\ Cardinality(Jobs(timeouts'[o])) = Cardinality(Jobs(timeouts[o])) - 1
    BY <2>3, DelayEnds, JobTaken DEF OrderChains
  <2> QED
    BY <1>0, <1>2, <1>6, <2>4 DEF OrderChains
<1> QED
  BY <1>3, <1>4, <1>5

\* Time makes no job and ends no handler.
LEMMA TickChains ==
    ASSUME TypeInv, NEW o \in Order, OrderChains(o), Tick
    PROVE  OrderChains(o)'
<1>1. /\ timeouts[o] \in [Rider -> [Delay -> Nat]]
      /\ timeouts'[o] = [r \in Rider |-> Sooner(timeouts[o][r])]
  BY DEF TypeInv, TypeOK, Tick
<1>2. /\ IsFiniteSet(Jobs(timeouts'[o]))
      /\ Cardinality(Jobs(timeouts'[o])) <= Cardinality(Jobs(timeouts[o]))
  BY <1>1, JobsAge DEF OrderChains
<1>3. Links(o)' = Links(o) /\ Begun(o)' = Begun(o)
  BY DEF Tick, Links, Begun, rowVars, boundVars
<1>4. Cardinality(Jobs(timeouts'[o])) \in Nat /\ Cardinality(Jobs(timeouts[o])) \in Nat
      /\ Cardinality(Links(o)) \in Nat /\ Begun(o) \in Nat
  BY <1>2, FS_CardinalityType DEF OrderChains, Begun, TypeInv, TypeOK
<1>5. /\ IsFiniteSet(Links(o))
      /\ Cardinality(Jobs(timeouts[o])) + Cardinality(Links(o)) <= Begun(o)
  BY DEF OrderChains
<1>6. Cardinality(Jobs(timeouts'[o])) + Cardinality(Links(o)) <= Begun(o)
  BY <1>2, <1>4, <1>5
<1> QED
  BY <1>2, <1>3, <1>5, <1>6 DEF OrderChains

\* A crash ends every handler and gives back at most the one job of the worker.
LEMMA CrashChains ==
    ASSUME TypeInv, WorkerAlone, NEW o \in Order, OrderChains(o), Crash
    PROVE  OrderChains(o)'
<1>0. /\ task \in [Proc -> Task] /\ timeouts[o] \in [Rider -> [Delay -> Nat]]
      /\ \A p \in Proc : task[p].job \in Rider \cup {NoRider}
      /\ Begun(o)' = Begun(o) /\ Begun(o) \in Nat
  BY DEF TypeInv, TypeOK, Task, Crash, Begun, rowVars
<1>1. Links(o)' = {} /\ IsFiniteSet(Links(o)') /\ Cardinality(Links(o)') = 0
  <2>1. Links(o)' = {}
    BY DEF Crash, Links, Idle, Handler, ChainPC
  <2> QED
    BY <2>1, FS_EmptySet
<1>2. /\ IsFiniteSet(Jobs(timeouts[o])) /\ Cardinality(Jobs(timeouts[o])) \in Nat
      /\ IsFiniteSet(Links(o)) /\ Cardinality(Links(o)) \in Nat
      /\ Cardinality(Jobs(timeouts[o])) + Cardinality(Links(o)) <= Begun(o)
  BY FS_CardinalityType DEF OrderChains
<1>3. \A s \in Rider : timeouts'[o][s] =
        [timeouts[o][s] EXCEPT ![0] = @ + IF \E p \in Proc : task[p].order = o /\ task[p].job = s
                                          THEN 1 ELSE 0]
  BY DEF Crash
<1>4. ASSUME NEW p \in Proc, task[p].order = o, task[p].job # NoRider
      PROVE  OrderChains(o)'
  <2>1. PICK r \in Rider : r = task[p].job
    BY <1>0, <1>4
  <2>2. \A s \in Rider : (\E q \in Proc : task[q].order = o /\ task[q].job = s) <=> s = r
    BY <1>4, <2>1 DEF WorkerAlone
  <2>3. timeouts'[o][r] = [timeouts[o][r] EXCEPT ![0] = @ + 1]
    BY <1>3, <2>2
  <2>4. \A s \in Rider \ {r} : timeouts'[o][s] = [timeouts[o][s] EXCEPT ![0] = @ + 0]
    BY <1>3, <2>2
  <2>5. OneMore(timeouts[o], timeouts'[o], r, 0)
    BY <1>0, <2>3, <2>4, DelayEnds DEF OneMore
  <2>6. /\ IsFiniteSet(Jobs(timeouts'[o]))
        /\ Cardinality(Jobs(timeouts'[o])) = Cardinality(Jobs(timeouts[o])) + 1
    BY <1>0, <1>2, <2>5, DelayEnds, JobAdded
  <2>7. p \in Links(o)
    BY <1>4 DEF WorkerAlone, Links
  <2>8. Cardinality(Links(o)) # 0
    BY <1>2, <2>7, FS_EmptySet
  <2>9. Cardinality(Jobs(timeouts'[o])) <= Begun(o)
    <3>1. \A a, b, c \in Nat : b # 0 /\ a + b <= c => a + 1 <= c
      OBVIOUS
    <3>2. Begun(o) \in Nat
      BY <1>0
    <3>3. Cardinality(Jobs(timeouts[o])) + 1 <= Begun(o)
      BY <1>2, <2>8, <3>1, <3>2
    <3> QED
      BY <2>6, <3>3
  <2>10. Cardinality(Jobs(timeouts'[o])) \in Nat
    BY <2>6, FS_CardinalityType
  <2>11. Cardinality(Jobs(timeouts'[o])) + Cardinality(Links(o)') <= Begun(o)'
    BY <1>0, <1>1, <2>9, <2>10
  <2> QED
    BY <1>1, <2>6, <2>11 DEF OrderChains
<1>5. ASSUME \A p \in Proc : task[p].order = o => task[p].job = NoRider
      PROVE  OrderChains(o)'
  <2>1. \A s \in Rider : timeouts'[o][s] = [timeouts[o][s] EXCEPT ![0] = @ + 0]
    BY <1>3, <1>5
  <2>2. \A s \in Rider : timeouts'[o][s] = timeouts[o][s]
    BY <1>0, <2>1, DelayEnds
  <2>3. timeouts'[o] = [s \in Rider |-> timeouts'[o][s]]
    BY DEF Crash
  <2>4. timeouts'[o] = timeouts[o]
    BY <1>0, <2>2, <2>3
  <2> QED
    BY <1>0, <1>1, <2>4, LinksDrop
<1> QED
  BY <1>4, <1>5

\* No step begins a chain that is not counted.
LEMMA ChainStep == TypeInv /\ ChainInv /\ [Next]_vars => ChainInv'
<1> SUFFICES ASSUME TypeInv, ChainInv, [Next]_vars PROVE ChainInv'
  OBVIOUS
<1>0. WorkerAlone /\ WorkerAlone' /\ \A o \in Order : OrderChains(o)
  BY AloneStep DEF ChainInv
<1> SUFFICES ASSUME NEW o \in Order PROVE OrderChains(o)'
  BY <1>0 DEF ChainInv
<1>1. ASSUME NEW p \in Proc, Step(p) \/ Fail(p)
      PROVE  OrderChains(o)'
  BY <1>0, <1>1, HandlerChains, StepElsewhere, UntouchedChains
<1>2. ASSUME NEW p \in Proc, NEW x \in Order,
             \/ \E premium \in BOOLEAN : CreateOrder(p, x, premium)
             \/ \E r \in Rider : Accept(p, x, r) \/ Reject(p, x, r) \/ WorkerTakes(p, x, r)
             \/ Cancel(p, x)
      PROVE  OrderChains(o)'
  <2>1. CASE x = o
    BY <1>0, <1>2, <2>1, StartChains
  <2>2. CASE x # o
    BY <1>0, <1>2, <2>2, StartElsewhere, UntouchedChains
  <2> QED
    BY <2>1, <2>2
<1>3. ASSUME \/ UNCHANGED vars
             \/ \E r \in Rider : ChangeRiderFleet(r)
             \/ \E x \in Order : \/ \E s \in OverrideStatuses : OverrideOrderStatus(x, s)
                                 \/ \E r \in Rider : ReassignOrder(x, r)
      PROVE  OrderChains(o)'
  <2>1. task' = task /\ timeouts' = timeouts
    BY <1>3 DEF vars, OverrideOrderStatus, ReassignOrder, ChangeRiderFleet
  <2>2. Links(o)' = Links(o) /\ timeouts'[o] = timeouts[o]
    BY <2>1 DEF Links
  <2> QED
    BY <1>0, <2>2, BegunGrows, LinksDrop
<1> QED
  BY <1>0, <1>1, <1>2, <1>3, TickChains, CrashChains DEF Next, Call, Worker

\* Initially no job waits and no handler runs.
LEMMA InitChains == Init => ChainInv
<1> SUFFICES ASSUME Init PROVE ChainInv
  OBVIOUS
<1>1. WorkerAlone
  BY DEF Init, WorkerAlone, Idle, Handler
<1>2. ASSUME NEW o \in Order PROVE OrderChains(o)
  <2>1. Links(o) = {} /\ Begun(o) = 0
    BY DEF Init, Links, Idle, Handler, ChainPC, Begun
  <2>2. \A r \in Rider, d \in Delay : timeouts[o][r][d] = 0
    BY DEF Init
  <2>3. Jobs(timeouts[o]) = {}
    BY <2>2, JobIs
  <2> QED
    BY <2>1, <2>3, FS_EmptySet DEF OrderChains
<1> QED
  BY <1>1, <1>2 DEF ChainInv

\* Timeouts do not multiply, whatever handlers overlap, fail or crash: an order has
\* no more chains of offers than its creation and the calls made.
THEOREM ChainsStayBounded == Spec => []ChainsAreBounded
<1>1. ASSUME TypeInv, ChainInv PROVE ChainsAreBounded
  <2> SUFFICES ASSUME NEW o \in Order
               PROVE  Cardinality(Jobs(timeouts[o]))
                        + Cardinality({p \in Proc : \/ task[p].pc = "query" /\ task[p].order = o
                                                    \/ Dispatching(p, o)}) <= 1 + requests
    BY DEF ChainsAreBounded
  <2> DEFINE active == {p \in Proc : \/ task[p].pc = "query" /\ task[p].order = o
                                     \/ Dispatching(p, o)}
  <2>1. OrderChains(o) /\ requests \in Nat
    BY <1>1 DEF ChainInv, TypeInv, TypeOK
  <2>2. active \subseteq Links(o)
    BY DEF Dispatching, Links, ChainPC
  <2>3. IsFiniteSet(active) /\ Cardinality(active) <= Cardinality(Links(o))
    BY <2>1, <2>2, FS_Subset DEF OrderChains
  <2>4. /\ Cardinality(active) \in Nat /\ Cardinality(Links(o)) \in Nat
        /\ Cardinality(Jobs(timeouts[o])) \in Nat
    BY <2>1, <2>3, FS_CardinalityType DEF OrderChains
  <2>5. Begun(o) <= 1 + requests
    BY <2>1 DEF Begun
  <2>6. Begun(o) \in Nat
    BY <2>1 DEF Begun
  <2> HIDE DEF active
  <2>7. Cardinality(Jobs(timeouts[o])) + Cardinality(active) <= 1 + requests
    BY <2>1, <2>3, <2>4, <2>5, <2>6 DEF OrderChains
  <2> QED
    BY <2>7 DEF active
<1>2. Spec => [](TypeInv /\ ChainInv)
  BY InitType, InitChains, TypeStep, ChainStep, PTL DEF Spec
<1> QED
  BY <1>1, <1>2, PTL

=============================================================================
