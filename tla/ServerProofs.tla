---------------------------- MODULE ServerProofs -----------------------------
(* Proofs about Pricing, for every set of keys, values and calls, and any  *)
(* number of restarts, failed writes and losses of Redis; about the orders that are priced*)
(* meanwhile; about Listings, for every filter, page size and table; and   *)
(* about all of them on the server they share with Accounts.               *)
EXTENDS AccountsProofs, FiniteSetTheorems

USE KeyAssumption, ValueAssumption, DefaultAssumption, BoundAssumption

-----------------------------------------------------------------------------
(* Type correctness, with what seeding and updates know of each other.     *)

\* Nobody writes before the server is up; a key in the middle of its seeding
\* is still among the keys to seed.
BootOK ==
    /\ \A p \in Proc : task[p].todo # {} => Up
    /\ seedKey # NoKey => seedKey \in seeding /\ seedValue \in Value

PricesTyped == TypeOK /\ BootOK

\* Taking a write off a call keeps the call well typed.
LEMMA WriteEnds ==
    ASSUME PricesTyped, NEW p \in Proc, NEW w \in Write, w \in task[p].todo,
           task' = [task EXCEPT ![p].todo = @ \ {w}]
    PROVE  /\ task' \in [Proc -> Task]
           /\ \A q \in Proc : /\ task'[q].dto = task[q].dto
                              /\ task'[q].todo \subseteq task[q].todo
           /\ \A q \in Proc \ {p} : task'[q].todo = task[q].todo
           /\ task'[p].todo = task[p].todo \ {w}
<1>1. task \in [Proc -> Task]
  BY DEF PricesTyped, TypeOK
<1> DEFINE t == [task[p] EXCEPT !.todo = @ \ {w}]
<1>2. t \in Task /\ t.dto = task[p].dto /\ t.todo = task[p].todo \ {w}
  BY <1>1 DEF Task
<1>3. task' = [task EXCEPT ![p] = t]
  OBVIOUS
<1> HIDE DEF t
<1> QED
  BY <1>1, <1>2, <1>3

\* The server starts with every key to seed and no call.
LEMMA InitTyped == Init => PricesTyped
<1> SUFFICES ASSUME Init
             PROVE  PricesTyped
  OBVIOUS
<1>1. task \in [Proc -> Task] /\ \A p \in Proc : task[p].todo = {}
  BY DEF Init, Idle, Task
<1>2. \A p \in Proc : \A w \in task[p].todo : task[p].dto[w[2]] \in Value
  BY <1>1
<1>3. lost \in BOOLEAN
  BY DEF Init
<1> QED
  BY <1>1, <1>2, <1>3 DEF Init, PricesTyped, TypeOK, BootOK

\* No update, seeding, restart or loss of Redis breaks a type.
LEMMA TypedStep == PricesTyped /\ [Next]_vars => PricesTyped'
<1> SUFFICES ASSUME PricesTyped, [Next]_vars
             PROVE  PricesTyped'
  OBVIOUS
<1>0. /\ TypeOK /\ BootOK /\ task \in [Proc -> Task]
      /\ \A p \in Proc : \A w \in task[p].todo : task[p].dto[w[2]] \in Value
  BY DEF PricesTyped, TypeOK
<1> USE DEF storeVars, seedVars, boundVars
<1>1. ASSUME NEW p \in Proc, NEW dto \in [Key -> Value \cup {Absent}],
             UpdatePricing(p, dto)
      PROVE  PricesTyped'
  <2> DEFINE t == [dto |-> dto, todo |-> WritesOf(dto)]
  <2>1. t \in Task /\ \A w \in t.todo : t.dto[w[2]] \in Value
    BY DEF Task, Write, WritesOf
  <2>2. task' = [task EXCEPT ![p] = t]
    BY <1>1 DEF UpdatePricing
  <2> HIDE DEF t
  <2>3. /\ task' \in [Proc -> Task]
        /\ \A q \in Proc : \A w \in task'[q].todo : task'[q].dto[w[2]] \in Value
    BY <1>0, <2>1, <2>2
  <2> QED
    BY <1>0, <1>1, <2>3 DEF UpdatePricing, PricesTyped, TypeOK, BootOK, Up
<1>2. ASSUME NEW p \in Proc, NEW k \in Key, SetRedis(p, k)
      PROVE  PricesTyped'
  <2> DEFINE w == <<"redis", k>>
  <2>1. w \in Write /\ w \in task[p].todo /\ w[2] = k
    BY <1>2 DEF Write, SetRedis
  <2>2. task' = [task EXCEPT ![p].todo = @ \ {w}]
    BY <1>2 DEF SetRedis
  <2>3. task[p].dto[k] \in Value
    BY <1>0, <2>1
  <2> HIDE DEF w
  <2>4. /\ task' \in [Proc -> Task]
        /\ \A q \in Proc : /\ task'[q].dto = task[q].dto
                           /\ task'[q].todo \subseteq task[q].todo
    BY <2>1, <2>2, WriteEnds
  <2> QED
    BY <1>0, <1>2, <2>3, <2>4 DEF SetRedis, PricesTyped, TypeOK, BootOK, Up
<1>3. ASSUME NEW p \in Proc, NEW k \in Key, UpsertConfig(p, k)
      PROVE  PricesTyped'
  <2> DEFINE w == <<"db", k>>
  <2>1. w \in Write /\ w \in task[p].todo /\ w[2] = k
    BY <1>3 DEF Write, UpsertConfig
  <2>2. task' = [task EXCEPT ![p].todo = @ \ {w}]
    BY <1>3 DEF UpsertConfig
  <2>3. task[p].dto[k] \in Value
    BY <1>0, <2>1
  <2> HIDE DEF w
  <2>4. /\ task' \in [Proc -> Task]
        /\ \A q \in Proc : /\ task'[q].dto = task[q].dto
                           /\ task'[q].todo \subseteq task[q].todo
    BY <2>1, <2>2, WriteEnds
  <2> QED
    BY <1>0, <1>3, <2>3, <2>4 DEF UpsertConfig, PricesTyped, TypeOK, BootOK, Up
<1>4. ASSUME NEW k \in Key, SeedSkip(k)
      PROVE  PricesTyped'
  BY <1>0, <1>4 DEF SeedSkip, PricesTyped, TypeOK, BootOK, Up
<1>5. ASSUME NEW k \in Key, SeedLookUp(k)
      PROVE  PricesTyped'
  BY <1>0, <1>5 DEF SeedLookUp, PricesTyped, TypeOK, BootOK, Up
<1>6. CASE SeedSet
  BY <1>0, <1>6 DEF SeedSet, PricesTyped, TypeOK, BootOK, Up
<1>7. CASE Restart
  <2>1. task' \in [Proc -> Task] /\ \A p \in Proc : task'[p].todo = {}
    BY <1>7 DEF Restart, Idle, Task
  <2>2. \A p \in Proc : \A w \in task'[p].todo : task'[p].dto[w[2]] \in Value
    BY <2>1
  <2>3. lost' \in BOOLEAN
    BY <1>7 DEF Restart
  <2> QED
    BY <1>0, <1>7, <2>1, <2>2, <2>3 DEF Restart, PricesTyped, TypeOK, BootOK, Up
<1>8. CASE LoseRedis
  BY <1>0, <1>8 DEF LoseRedis, PricesTyped, TypeOK, BootOK, Up
<1>9. ASSUME NEW p \in Proc, NEW w \in Write, FailWrite(p, w)
      PROVE  PricesTyped'
  <2>1. w \in task[p].todo /\ task' = [task EXCEPT ![p].todo = @ \ {w}] /\ w[2] \in Key
    BY <1>9 DEF FailWrite, Write
  <2>2. /\ task' \in [Proc -> Task]
        /\ \A q \in Proc : /\ task'[q].dto = task[q].dto
                           /\ task'[q].todo \subseteq task[q].todo
    BY <2>1, WriteEnds
  <2> QED
    BY <1>0, <1>9, <2>1, <2>2 DEF FailWrite, PricesTyped, TypeOK, BootOK, Up
<1>10. CASE UNCHANGED vars
  BY <1>0, <1>10 DEF vars, PricesTyped, TypeOK, BootOK, Up
<1> QED
  BY <1>1, <1>2, <1>3, <1>4, <1>5, <1>6, <1>7, <1>8, <1>9, <1>10
  DEF Next, ServePricing, SeedDefaultPricing

\* Every variable keeps its type, and nobody writes during the boot.
LEMMA TypedHolds == Spec => []PricesTyped
BY InitTyped, TypedStep, PTL DEF Spec

\* However updates and restarts interleave, Redis, AppConfig and the writes in
\* flight hold values an admin may set and nothing else.
THEOREM PricesTypeCorrect == Spec => []TypeOK
<1>1. PricesTyped => TypeOK
  BY DEF PricesTyped
<1> QED
  BY TypedHolds, <1>1, PTL

-----------------------------------------------------------------------------
(* SeedFillsRedis.  During the boot it holds of the keys that are done.    *)

SeededOK == ~lost => \A k \in Key \ seeding : redis[k] # Absent

\* A key that was seeded is overwritten, and never taken away but by LoseRedis.
LEMMA SeededStep == PricesTyped /\ SeededOK /\ [Next]_vars => SeededOK'
<1> SUFFICES ASSUME PricesTyped, SeededOK, [Next]_vars
             PROVE  SeededOK'
  OBVIOUS
<1>0. /\ redis \in [Key -> Value \cup {Absent}] /\ BootOK
      /\ \A p \in Proc : \A w \in task[p].todo : task[p].dto[w[2]] \in Value
  BY DEF PricesTyped, TypeOK
<1> USE DEF storeVars, seedVars, boundVars
<1>1. ASSUME NEW p \in Proc, NEW k \in Key, SetRedis(p, k)
      PROVE  SeededOK'
  <2>1. task[p].dto[k] \in Value
    BY <1>0, <1>1 DEF SetRedis
  <2> QED
    BY <1>0, <1>1, <2>1 DEF SetRedis, SeededOK
<1>2. ASSUME NEW k \in Key, SeedSkip(k)
      PROVE  SeededOK'
  BY <1>2 DEF SeedSkip, SeededOK
<1>3. CASE SeedSet
  BY <1>0, <1>3 DEF SeedSet, SeededOK, BootOK
<1>4. CASE Restart
  BY <1>4 DEF Restart, SeededOK
<1>5. CASE LoseRedis
  BY <1>5 DEF LoseRedis, SeededOK
<1>6. CASE UNCHANGED <<redis, seeding, lost>>
  BY <1>6 DEF SeededOK
<1> QED
  BY <1>1, <1>2, <1>3, <1>4, <1>5, <1>6
  DEF Next, ServePricing, SeedDefaultPricing, UpdatePricing, UpsertConfig, FailWrite, SeedLookUp,
      vars

\* The keys that seeding is done with have a value in Redis, unless it was lost.
LEMMA SeededHolds == Spec => []SeededOK
<1>1. Init => SeededOK
  BY DEF Init, SeededOK
<1> QED
  BY <1>1, SeededStep, TypedHolds, PTL DEF Spec

\* Once the server takes requests every key has a value in Redis, however
\* often the seeding was cut short.
THEOREM SeedingFillsRedis == Spec => []SeedFillsRedis
<1>1. SeededOK => SeedFillsRedis
  BY DEF SeededOK, SeedFillsRedis, Up
<1> QED
  BY SeededHolds, <1>1, PTL

-----------------------------------------------------------------------------
(* PricesPersist.  The strengthening says, of a key that is not torn, of   *)
(* which therefore no write has failed:                                    *)
(*   - one call at most has writes of it in flight;                        *)
(*   - of the two stores, the one that call has written has its value;     *)
(*   - when no write is in flight Redis has what AppConfig has, or nothing;*)
(*   - seeding is about to set what AppConfig has, else the default.       *)

Has(p, store, k) == <<store, k>> \in task[p].todo
Writes(p, k) == Has(p, "redis", k) \/ Has(p, "db", k)

OneWriter(k) == \A p, q \in Proc : Writes(p, k) /\ Writes(q, k) => p = q

HalfDone(k) ==
    \A p \in Proc : Writes(p, k) =>
        /\ ~Has(p, "redis", k) => redis[k] \in {task[p].dto[k], Absent}
        /\ ~Has(p, "db", k) => appConfig[k] = task[p].dto[k]

Agree(k) ==
    (\A p \in Proc : ~Writes(p, k)) /\ appConfig[k] # Absent =>
        redis[k] \in {appConfig[k], Absent}

SeedReady(k) ==
    seedKey = k =>
        seedValue = IF appConfig[k] = Absent THEN Default[k] ELSE appConfig[k]

KeyOK(k) == OneWriter(k) /\ HalfDone(k) /\ Agree(k) /\ SeedReady(k)

StoresOK == \A k \in Key \ torn : KeyOK(k)

\* InFlight in terms of the two writes.
LEMMA InFlightWrites ==
    \A k \in Key : InFlight(k) <=> \E p \in Proc : Writes(p, k)
BY DEF InFlight, Writes, Has

\* A write that fails leaves the other keys alone.
LEMMA FailsForItsKey ==
    ASSUME PricesTyped, NEW p \in Proc, NEW w \in Write, FailWrite(p, w), NEW k \in Key \ torn'
    PROVE  /\ \A q \in Proc : task'[q].dto = task[q].dto
           /\ \A q \in Proc : Has(q, "redis", k)' <=> Has(q, "redis", k)
           /\ \A q \in Proc : Has(q, "db", k)' <=> Has(q, "db", k)
<1>1. w \in task[p].todo /\ task' = [task EXCEPT ![p].todo = @ \ {w}] /\ w[2] # k
  BY DEF FailWrite
<1>2. /\ \A q \in Proc : task'[q].dto = task[q].dto
      /\ \A q \in Proc \ {p} : task'[q].todo = task[q].todo
      /\ task'[p].todo = task[p].todo \ {w}
  BY <1>1, WriteEnds
<1>3. <<"redis", k>> # w /\ <<"db", k>> # w
  BY <1>1
<1>4. ASSUME NEW q \in Proc, NEW store \in {"redis", "db"}
      PROVE  Has(q, store, k)' <=> Has(q, store, k)
  <2>1. CASE q = p
    BY <1>2, <1>3, <2>1 DEF Has
  <2>2. CASE q # p
    BY <1>2, <2>2 DEF Has
  <2> QED
    BY <2>1, <2>2
<1> QED
  BY <1>2, <1>4

\* Calls and seeding keep a key's stores together, until the key is torn.
LEMMA StoresStep == PricesTyped /\ StoresOK /\ [Next]_vars => StoresOK'
<1> SUFFICES ASSUME PricesTyped, StoresOK, [Next]_vars, NEW k \in Key \ torn'
             PROVE  KeyOK(k)'
  BY DEF StoresOK
<1>0. /\ TypeOK /\ BootOK /\ task \in [Proc -> Task] /\ k \in Key
      /\ redis \in [Key -> Value \cup {Absent}]
      /\ appConfig \in [Key -> Value \cup {Absent}]
      /\ \A p \in Proc : \A w \in task[p].todo : task[p].dto[w[2]] \in Value
  BY DEF PricesTyped, TypeOK
<1> USE DEF storeVars, seedVars, boundVars
<1>k. k \notin torn /\ KeyOK(k)
  <2>1. torn \subseteq torn'
    BY DEF Next, ServePricing, SeedDefaultPricing, UpdatePricing, SetRedis, UpsertConfig,
       FailWrite, SeedSkip, SeedLookUp, SeedSet, Restart, LoseRedis, vars
  <2> QED
    BY <2>1 DEF StoresOK
<1>s. (\E p \in Proc : Writes(p, k)) => seedKey = NoKey
  BY <1>0 DEF BootOK, Writes, Has, Up
<1>1. ASSUME NEW p \in Proc, NEW dto \in [Key -> Value \cup {Absent}],
             UpdatePricing(p, dto)
      PROVE  KeyOK(k)'
  <2>1. /\ task'[p] = [dto |-> dto, todo |-> WritesOf(dto)]
        /\ task[p].todo = {}
        /\ \A q \in Proc \ {p} : task'[q] = task[q]
    BY <1>0, <1>1 DEF UpdatePricing
  <2>2. UNCHANGED <<redis, appConfig, seedKey, seedValue>>
    BY <1>1 DEF UpdatePricing
  <2>3. ~Writes(p, k) /\ \A q \in Proc \ {p} : Writes(q, k)' <=> Writes(q, k)
    BY <2>1 DEF Writes, Has
  <2>4. CASE dto[k] = Absent
    <3>1. ~Writes(p, k)'
      BY <2>1, <2>4 DEF Writes, Has, WritesOf
    <3> QED
      BY <1>k, <2>1, <2>2, <2>3, <3>1
      DEF KeyOK, OneWriter, HalfDone, Agree, SeedReady, Has
  <2>5. CASE dto[k] # Absent
    <3>1. ~InFlight(k)
      BY <1>1, <2>5 DEF UpdatePricing
    <3>2. \A q \in Proc : ~Writes(q, k)
      BY <1>0, <3>1, InFlightWrites
    <3>3. Has(p, "redis", k)' /\ Has(p, "db", k)'
      BY <1>0, <2>1, <2>5 DEF Has, WritesOf
    <3>4. \A q \in Proc : Writes(q, k)' => q = p
      BY <2>3, <3>2
    <3> QED
      BY <1>k, <2>2, <3>3, <3>4
      DEF KeyOK, OneWriter, HalfDone, Agree, SeedReady, Writes
  <2> QED
    BY <2>4, <2>5
<1>2. ASSUME NEW p \in Proc, NEW j \in Key, SetRedis(p, j)
      PROVE  KeyOK(k)'
  <2> DEFINE w == <<"redis", j>>
  <2>1. w \in Write /\ w \in task[p].todo /\ task' = [task EXCEPT ![p].todo = @ \ {w}]
    BY <1>2 DEF Write, SetRedis
  <2>2. /\ \A q \in Proc : task'[q].dto = task[q].dto
        /\ \A q \in Proc \ {p} : task'[q].todo = task[q].todo
        /\ task'[p].todo = task[p].todo \ {w}
    <3> HIDE DEF w
    <3> QED
      BY <2>1, WriteEnds
  <2>3. UNCHANGED <<appConfig, seedKey, seedValue>>
    BY <1>2 DEF SetRedis
  <2>4. CASE j # k
    <3>1. /\ \A q \in Proc : Has(q, "redis", k)' <=> Has(q, "redis", k)
          /\ \A q \in Proc : Has(q, "db", k)' <=> Has(q, "db", k)
      BY <2>2, <2>4 DEF Has
    <3>2. redis'[k] = redis[k]
      BY <1>0, <1>2, <2>4 DEF SetRedis
    <3> QED
      BY <1>k, <2>2, <2>3, <3>1, <3>2
      DEF KeyOK, OneWriter, HalfDone, Agree, SeedReady, Writes
  <2>5. CASE j = k
    <3>1. /\ Has(p, "redis", k) /\ ~Has(p, "redis", k)'
          /\ Has(p, "db", k)' <=> Has(p, "db", k)
      BY <2>1, <2>2, <2>5 DEF Has
    <3>2. \A q \in Proc \ {p} : ~Writes(q, k) /\ ~Writes(q, k)'
      BY <1>k, <2>2, <3>1 DEF KeyOK, OneWriter, Writes, Has
    <3>3. redis'[k] = task[p].dto[k]
      BY <1>0, <1>2, <2>5 DEF SetRedis
    <3>4. ~Has(p, "db", k) => appConfig[k] = task[p].dto[k]
      BY <1>k, <3>1 DEF KeyOK, HalfDone, Writes
    <3>5. OneWriter(k)'
      BY <3>2 DEF OneWriter
    <3>6. HalfDone(k)'
      BY <2>2, <2>3, <3>1, <3>2, <3>3, <3>4 DEF HalfDone
    <3>7. Agree(k)'
      BY <2>3, <3>1, <3>3, <3>4 DEF Agree, Writes
    <3> QED
      BY <1>k, <2>3, <3>5, <3>6, <3>7 DEF KeyOK, SeedReady
  <2> QED
    BY <2>4, <2>5
<1>3. ASSUME NEW p \in Proc, NEW j \in Key, UpsertConfig(p, j)
      PROVE  KeyOK(k)'
  <2> DEFINE w == <<"db", j>>
  <2>1. w \in Write /\ w \in task[p].todo /\ task' = [task EXCEPT ![p].todo = @ \ {w}]
    BY <1>3 DEF Write, UpsertConfig
  <2>2. /\ \A q \in Proc : task'[q].dto = task[q].dto
        /\ \A q \in Proc \ {p} : task'[q].todo = task[q].todo
        /\ task'[p].todo = task[p].todo \ {w}
    <3> HIDE DEF w
    <3> QED
      BY <2>1, WriteEnds
  <2>3. UNCHANGED <<redis, seedKey, seedValue>>
    BY <1>3 DEF UpsertConfig
  <2>4. CASE j # k
    <3>1. /\ \A q \in Proc : Has(q, "redis", k)' <=> Has(q, "redis", k)
          /\ \A q \in Proc : Has(q, "db", k)' <=> Has(q, "db", k)
      BY <2>2, <2>4 DEF Has
    <3>2. appConfig'[k] = appConfig[k]
      BY <1>0, <1>3, <2>4 DEF UpsertConfig
    <3> QED
      BY <1>k, <2>2, <2>3, <3>1, <3>2
      DEF KeyOK, OneWriter, HalfDone, Agree, SeedReady, Writes
  <2>5. CASE j = k
    <3>1. /\ Has(p, "db", k) /\ ~Has(p, "db", k)'
          /\ Has(p, "redis", k)' <=> Has(p, "redis", k)
      BY <2>1, <2>2, <2>5 DEF Has
    <3>2. \A q \in Proc \ {p} : ~Writes(q, k) /\ ~Writes(q, k)'
      BY <1>k, <2>2, <3>1 DEF KeyOK, OneWriter, Writes, Has
    <3>3. appConfig'[k] = task[p].dto[k]
      BY <1>0, <1>3, <2>5 DEF UpsertConfig
    <3>4. ~Has(p, "redis", k) => redis[k] \in {task[p].dto[k], Absent}
      BY <1>k, <3>1 DEF KeyOK, HalfDone, Writes
    <3>5. OneWriter(k)'
      BY <3>2 DEF OneWriter
    <3>6. HalfDone(k)'
      BY <2>2, <2>3, <3>1, <3>2, <3>3, <3>4 DEF HalfDone
    <3>7. Agree(k)'
      BY <2>3, <3>1, <3>3, <3>4 DEF Agree, Writes
    <3>8. SeedReady(k)'
      BY <1>s, <2>3, <3>1 DEF SeedReady, Writes
    <3> QED
      BY <3>5, <3>6, <3>7, <3>8 DEF KeyOK
  <2> QED
    BY <2>4, <2>5
<1>4. ASSUME NEW j \in Key, SeedLookUp(j)
      PROVE  KeyOK(k)'
  <2>1. UNCHANGED <<redis, appConfig, task>>
    BY <1>4 DEF SeedLookUp
  <2>2. SeedReady(k)'
    BY <1>4 DEF SeedLookUp, SeedReady
  <2> QED
    BY <1>k, <2>1, <2>2 DEF KeyOK, OneWriter, HalfDone, Agree, Writes, Has
<1>5. CASE SeedSet
  <2>1. UNCHANGED <<appConfig, task>> /\ seedKey' = NoKey /\ seedKey # NoKey
    BY <1>5 DEF SeedSet
  <2>2. \A p \in Proc : ~Writes(p, k) /\ ~Writes(p, k)'
    BY <1>s, <2>1 DEF Writes, Has
  <2>3. appConfig[k] # Absent => redis'[k] \in {appConfig[k], Absent}
    BY <1>0, <1>5, <1>k, <2>2 DEF SeedSet, KeyOK, SeedReady, Agree
  <2> QED
    BY <2>1, <2>2, <2>3 DEF KeyOK, OneWriter, HalfDone, Agree, SeedReady
<1>6. CASE Restart
  <2>1. UNCHANGED <<redis, appConfig>> /\ seedKey' = NoKey /\ ~InFlight(k)
    BY <1>6 DEF Restart
  <2>2. \A p \in Proc : ~Writes(p, k) /\ ~Writes(p, k)'
    BY <1>0, <1>6, <2>1, InFlightWrites DEF Restart, Idle, Writes, Has
  <2> QED
    BY <1>k, <2>1, <2>2 DEF KeyOK, OneWriter, HalfDone, Agree, SeedReady
<1>7. CASE LoseRedis
  <2>1. UNCHANGED <<appConfig, task, seedKey, seedValue>> /\ redis'[k] = Absent
    BY <1>0, <1>7 DEF LoseRedis
  <2> QED
    BY <1>k, <2>1 DEF KeyOK, OneWriter, HalfDone, Agree, SeedReady, Writes, Has
<1>8. ASSUME NEW p \in Proc, NEW w \in Write, FailWrite(p, w)
      PROVE  KeyOK(k)'
  <2>1. UNCHANGED <<redis, appConfig, seedKey, seedValue>>
    BY <1>8 DEF FailWrite
  <2>2. /\ \A q \in Proc : task'[q].dto = task[q].dto
        /\ \A q \in Proc : Has(q, "redis", k)' <=> Has(q, "redis", k)
        /\ \A q \in Proc : Has(q, "db", k)' <=> Has(q, "db", k)
    BY <1>8, FailsForItsKey
  <2> QED
    BY <1>k, <2>1, <2>2 DEF KeyOK, OneWriter, HalfDone, Agree, SeedReady, Writes
<1>9. CASE UNCHANGED <<redis, appConfig, task, seedKey, seedValue>>
  BY <1>k, <1>9 DEF KeyOK, OneWriter, HalfDone, Agree, SeedReady, Writes, Has
<1> QED
  BY <1>1, <1>2, <1>3, <1>4, <1>5, <1>6, <1>7, <1>8, <1>9
  DEF Next, ServePricing, SeedDefaultPricing, SeedSkip, vars

\* In every reachable state the stores of a key that is not torn fit together.
LEMMA StoresHold == Spec => []StoresOK
<1>1. Init => StoresOK
  BY DEF Init, StoresOK, KeyOK, OneWriter, HalfDone, Agree, SeedReady, Writes,
     Has, Idle
<1> QED
  BY <1>1, StoresStep, TypedHolds, PTL DEF Spec

\* Prices survive restarts and failed updates: a key that is not torn is served as
\* AppConfig has it, once the server is up and Redis has kept its data.
THEOREM PricesSurvive == Spec => []PricesPersist
<1>1. PricesTyped /\ SeededOK /\ StoresOK => PricesPersist
  <2> SUFFICES ASSUME PricesTyped, SeededOK, StoresOK, Up, ~lost,
                      NEW k \in Key \ torn, appConfig[k] # Absent, ~InFlight(k)
               PROVE  Served(k) = appConfig[k]
    BY DEF PricesPersist
  <2>1. redis[k] # Absent
    BY DEF SeededOK, Up
  <2>2. redis[k] = appConfig[k]
    BY <2>1, InFlightWrites DEF StoresOK, KeyOK, Agree
  <2> QED
    BY <2>1, <2>2 DEF Served
<1> QED
  BY <1>1, TypedHolds, SeededHolds, StoresHold, PTL

-----------------------------------------------------------------------------
(* OrderIsPricedAsPosted.                                                  *)

\* The server takes steps of Pricing only, whatever runs beside it.
LEMMA ServerStepsPricing == [ServerNext]_serverVars => [Next]_vars
BY DEF ServerNext, serverVars, ForPricing, ForOrders, ServeOrders, ForAccounts, ForLists,
       CodeExpires, RestartServer, LoseRedisData, Next, ServePricing

LEMMA ServerRunsPricing == ServerSpec => Spec
<1>1. ServerInit => Init
  BY DEF ServerInit
<1> QED
  BY <1>1, ServerStepsPricing, PTL DEF ServerSpec, Spec

\* So on the server, too, the boot leaves no key without a value, and prices persist.
THEOREM ServerKeepsPrices == ServerSpec => [](SeedFillsRedis /\ PricesPersist)
BY ServerRunsPricing, SeedingFillsRedis, PricesSurvive, PTL

\* A key that nobody has posted yet is served with its default.
FreshOK ==
    \A k \in Key \ torn :
        /\ appConfig[k] = Absent
        /\ \A p \in Proc : Writes(p, k) => Has(p, "redis", k)
        => redis[k] \in {Default[k], Absent}

\* Only an update gives a key another value than its default.
LEMMA FreshStep == PricesTyped /\ StoresOK /\ FreshOK /\ [Next]_vars => FreshOK'
<1> SUFFICES ASSUME PricesTyped, StoresOK, FreshOK, [Next]_vars, NEW k \in Key \ torn',
                    appConfig'[k] = Absent,
                    \A p \in Proc : Writes(p, k)' => Has(p, "redis", k)'
             PROVE  redis'[k] \in {Default[k], Absent}
  BY DEF FreshOK
<1>0. /\ TypeOK /\ BootOK /\ task \in [Proc -> Task] /\ k \in Key
      /\ redis \in [Key -> Value \cup {Absent}]
      /\ appConfig \in [Key -> Value \cup {Absent}]
      /\ \A p \in Proc : \A w \in task[p].todo : task[p].dto[w[2]] \in Value
  BY DEF PricesTyped, TypeOK
<1> USE DEF storeVars, seedVars, boundVars
<1>k. k \notin torn /\ KeyOK(k)
  <2>1. torn \subseteq torn'
    BY DEF Next, ServePricing, SeedDefaultPricing, UpdatePricing, SetRedis, UpsertConfig,
       FailWrite, SeedSkip, SeedLookUp, SeedSet, Restart, LoseRedis, vars
  <2> QED
    BY <2>1 DEF StoresOK
<1>f. appConfig[k] = Absent /\ (\A p \in Proc : Writes(p, k) => Has(p, "redis", k))
        => redis[k] \in {Default[k], Absent}
  BY <1>k DEF FreshOK
<1>1. ASSUME NEW p \in Proc, NEW dto \in [Key -> Value \cup {Absent}],
             UpdatePricing(p, dto)
      PROVE  redis'[k] \in {Default[k], Absent}
  <2>1. /\ task[p].todo = {} /\ \A q \in Proc \ {p} : task'[q] = task[q]
        /\ UNCHANGED <<redis, appConfig>>
    BY <1>0, <1>1 DEF UpdatePricing
  <2>2. \A q \in Proc : Writes(q, k) => Has(q, "redis", k)
    BY <2>1 DEF Writes, Has
  <2> QED
    BY <1>f, <2>1, <2>2
<1>2. ASSUME NEW p \in Proc, NEW j \in Key, SetRedis(p, j)
      PROVE  redis'[k] \in {Default[k], Absent}
  <2> DEFINE w == <<"redis", j>>
  <2>1. w \in Write /\ w \in task[p].todo /\ task' = [task EXCEPT ![p].todo = @ \ {w}]
    BY <1>2 DEF Write, SetRedis
  <2>2. /\ \A q \in Proc : task'[q].dto = task[q].dto
        /\ \A q \in Proc \ {p} : task'[q].todo = task[q].todo
        /\ task'[p].todo = task[p].todo \ {w}
    <3> HIDE DEF w
    <3> QED
      BY <2>1, WriteEnds
  <2>3. appConfig' = appConfig
    BY <1>2 DEF SetRedis
  <2>4. CASE j # k
    <3>1. /\ \A q \in Proc : Has(q, "redis", k)' <=> Has(q, "redis", k)
          /\ \A q \in Proc : Has(q, "db", k)' <=> Has(q, "db", k)
      BY <2>2, <2>4 DEF Has
    <3>2. redis'[k] = redis[k]
      BY <1>0, <1>2, <2>4 DEF SetRedis
    <3> QED
      BY <1>f, <2>3, <3>1, <3>2 DEF Writes
  <2>5. CASE j = k
    <3>1. Has(p, "redis", k) /\ ~Has(p, "redis", k)' /\ (Has(p, "db", k)' <=> Has(p, "db", k))
      BY <2>1, <2>2, <2>5 DEF Has
    <3>2. ~Has(p, "db", k)
      BY <3>1 DEF Writes
    <3>3. appConfig[k] = task[p].dto[k] /\ task[p].dto[k] \in Value
      BY <1>0, <1>k, <2>1, <2>5, <3>1, <3>2 DEF KeyOK, HalfDone, Writes
    <3> QED
      BY <2>3, <3>3
  <2> QED
    BY <2>4, <2>5
<1>3. ASSUME NEW p \in Proc, NEW j \in Key, UpsertConfig(p, j)
      PROVE  redis'[k] \in {Default[k], Absent}
  <2> DEFINE w == <<"db", j>>
  <2>1. w \in Write /\ w \in task[p].todo /\ task' = [task EXCEPT ![p].todo = @ \ {w}]
    BY <1>3 DEF Write, UpsertConfig
  <2>2. /\ \A q \in Proc \ {p} : task'[q].todo = task[q].todo
        /\ task'[p].todo = task[p].todo \ {w}
    <3> HIDE DEF w
    <3> QED
      BY <2>1, WriteEnds
  <2>3. redis' = redis /\ task[p].dto[j] \in Value
    BY <1>0, <1>3, <2>1 DEF UpsertConfig
  <2>4. j # k
    BY <1>0, <1>3, <2>3 DEF UpsertConfig
  <2>5. /\ \A q \in Proc : Has(q, "redis", k)' <=> Has(q, "redis", k)
        /\ \A q \in Proc : Has(q, "db", k)' <=> Has(q, "db", k)
    BY <2>2, <2>4 DEF Has
  <2>6. appConfig'[k] = appConfig[k]
    BY <1>0, <1>3, <2>4 DEF UpsertConfig
  <2> QED
    BY <1>f, <2>3, <2>5, <2>6 DEF Writes
<1>4. CASE SeedSet
  <2>1. UNCHANGED <<appConfig, task>>
    BY <1>4 DEF SeedSet
  <2>2. redis'[k] = redis[k] \/ (seedKey = k /\ redis'[k] = seedValue)
    BY <1>0, <1>4 DEF SeedSet
  <2>3. seedKey = k => seedValue = Default[k]
    BY <1>k, <2>1 DEF KeyOK, SeedReady
  <2> QED
    BY <1>f, <2>1, <2>2, <2>3 DEF Writes, Has
<1>5. CASE Restart
  <2>1. UNCHANGED <<redis, appConfig>> /\ ~InFlight(k)
    BY <1>5 DEF Restart
  <2>2. \A p \in Proc : ~Writes(p, k)
    BY <1>0, <2>1, InFlightWrites
  <2> QED
    BY <1>f, <2>1, <2>2
<1>6. CASE LoseRedis
  BY <1>0, <1>6 DEF LoseRedis
<1>7. ASSUME NEW p \in Proc, NEW w \in Write, FailWrite(p, w)
      PROVE  redis'[k] \in {Default[k], Absent}
  <2>1. UNCHANGED <<redis, appConfig>>
    BY <1>7 DEF FailWrite
  <2>2. /\ \A q \in Proc : Has(q, "redis", k)' <=> Has(q, "redis", k)
        /\ \A q \in Proc : Has(q, "db", k)' <=> Has(q, "db", k)
    BY <1>7, FailsForItsKey
  <2> QED
    BY <1>f, <2>1, <2>2 DEF Writes
<1>8. CASE UNCHANGED <<redis, appConfig, task>>
  BY <1>f, <1>8 DEF Writes, Has
<1> QED
  BY <1>1, <1>2, <1>3, <1>4, <1>5, <1>6, <1>7, <1>8
  DEF Next, ServePricing, SeedDefaultPricing, SeedSkip, SeedLookUp, vars

\* What is served of a key that is not torn is among what was posted.
LEMMA ServedIsPosted ==
  ASSUME PricesTyped, SeededOK, StoresOK, FreshOK, Up, ~lost, NEW k \in Key \ torn
  PROVE  Served(k) \in Posted(k)
<1>1. redis[k] # Absent
  BY DEF SeededOK, Up
<1>2. CASE InFlight(k)
  BY <1>2 DEF Posted
<1>3. CASE ~InFlight(k)
  <2>1. \A p \in Proc : ~Writes(p, k)
    BY <1>3, InFlightWrites
  <2>2. appConfig[k] # Absent => redis[k] = appConfig[k]
    BY <1>1, <2>1 DEF StoresOK, KeyOK, Agree
  <2>3. appConfig[k] = Absent => redis[k] = Default[k]
    BY <1>1, <2>1 DEF FreshOK
  <2> QED
    BY <1>1, <1>3, <2>2, <2>3 DEF Served, Posted
<1> QED
  BY <1>2, <1>3

\* Calls of createOrder run while the server is up; the values that they have read, or may
\* still read, are among those posted since their reads began.
QuoteOK ==
    /\ quote # NoQuote => Up
    /\ ~lost => \A k \in Key \ torn :
         /\ quote.pc = "rates" =>
              /\ Served(k) \in fair[k]
              /\ Given(k) \subseteq fair[k]
         /\ quote.pc \in {"rates", "create"} /\ k \notin quote.todo =>
              quote.tariff[k] \in fair[k]
    /\ quote.pc = "distance" => quote.todo = Key
    /\ quote.pc = "create" => quote.todo = {}

QuoteInv == QuotesTypeOK /\ QuoteOK

\* Values of a request, of Redis and of AppConfig are values.
LEMMA PostedTypes ==
  ASSUME PricesTyped, NEW k \in Key
  PROVE  Given(k) \subseteq Value /\ Served(k) \in Value /\ Posted(k) \subseteq Value
<1>1. Given(k) \subseteq Value
  <2> SUFFICES ASSUME NEW p \in Proc,
                      <<"redis", k>> \in task[p].todo \/ <<"db", k>> \in task[p].todo
               PROVE  task[p].dto[k] \in Value
    BY DEF Given
  <2> QED
    BY DEF PricesTyped, TypeOK
<1>2. Served(k) \in Value
  BY DEF PricesTyped, TypeOK, Served
<1>3. appConfig[k] \in Value \cup {Absent}
  BY DEF PricesTyped, TypeOK
<1>4. Posted(k) \subseteq Value
  BY <1>1, <1>2, <1>3 DEF Posted
<1> QED
  BY <1>1, <1>2, <1>4

\* When there is no call there is nothing to keep.
LEMMA QuoteEndsOK ==
  ASSUME QuoteEnds
  PROVE  QuoteInv'
<1>1. quote' = NoQuote /\ fair' = Nothing
  BY DEF QuoteEnds
<1>2. NoQuote \in Quote /\ Nothing \in [Key -> SUBSET Value] /\ NoQuote.pc = "idle"
  BY DEF NoQuote, Quote, Nothing
<1> QED
  BY <1>1, <1>2 DEF QuoteInv, QuotesTypeOK, QuoteOK

\* A step of createOrder keeps it: the reads begin with what is posted.
LEMMA OrderStep ==
  ASSUME PricesTyped, SeededOK, StoresOK, FreshOK, QuoteInv, ServeOrders
  PROVE  QuoteInv'
<1>0. /\ quote \in Quote /\ fair \in [Key -> SUBSET Value]
      /\ UNCHANGED <<redis, appConfig, task, seeding, lost, torn>>
  BY DEF QuoteInv, QuotesTypeOK, ServeOrders, vars, storeVars, seedVars
<1>1. \A k \in Key : Served(k)' = Served(k) /\ Given(k)' = Given(k)
  BY <1>0 DEF Served, Given
<1>u. Up' <=> Up
  BY <1>0 DEF Up
<1>o. /\ quote # NoQuote => Up
      /\ ~lost => \A k \in Key \ torn :
           /\ quote.pc = "rates" => Served(k) \in fair[k] /\ Given(k) \subseteq fair[k]
           /\ quote.pc \in {"rates", "create"} /\ k \notin quote.todo =>
                quote.tariff[k] \in fair[k]
      /\ quote.pc = "distance" => quote.todo = Key
      /\ quote.pc = "create" => quote.todo = {}
  BY DEF QuoteInv, QuoteOK
<1>n. /\ NoQuote \in Quote /\ Nothing \in [Key -> SUBSET Value] /\ NoQuote.pc = "idle"
      /\ quote.pc # "idle" => quote # NoQuote
  BY DEF NoQuote, Quote, Nothing
<1>2. CASE CreateOrder
  <2> DEFINE q == [pc |-> "distance", todo |-> Key, tariff |-> [k \in Key |-> Absent]]
  <2>1. quote' = q /\ fair' = fair /\ Up
    BY <1>2 DEF CreateOrder, NoQuote
  <2>2. q \in Quote /\ q.pc = "distance" /\ q.todo = Key
    BY DEF Quote
  <2> HIDE DEF q
  <2> QED
    BY <1>0, <1>u, <2>1, <2>2 DEF QuoteInv, QuotesTypeOK, QuoteOK
<1>3. CASE GetDistance
  <2>1. quote.pc = "distance" /\ quote' = [quote EXCEPT !.pc = "rates"]
    BY <1>3 DEF GetDistance
  <2>2. quote' \in Quote /\ quote'.pc = "rates" /\ quote'.todo = Key
    BY <1>0, <1>o, <2>1 DEF Quote
  <2>3. fair' = [k \in Key |-> Posted(k)]
    BY <1>3 DEF GetDistance
  <2>4. fair' \in [Key -> SUBSET Value]
    BY <2>3, PostedTypes
  <2>5. Up
    BY <1>n, <1>o, <2>1
  <2>6. ASSUME NEW k \in Key \ torn, ~lost
        PROVE  Served(k) \in fair'[k] /\ Given(k) \subseteq fair'[k]
    <3>1. Served(k) \in Posted(k)
      BY <2>5, <2>6, ServedIsPosted
    <3>2. Given(k) \subseteq Posted(k)
      BY DEF Given, Posted, InFlight
    <3> QED
      BY <2>3, <3>1, <3>2
  <2>7. QuotesTypeOK'
    BY <2>2, <2>4 DEF QuotesTypeOK
  <2> QED
    BY <1>0, <1>1, <1>u, <2>2, <2>5, <2>6, <2>7 DEF QuoteInv, QuoteOK
<1>4. ASSUME NEW k \in Key, ReadRate(k)
      PROVE  QuoteInv'
  <2>1. /\ quote.pc = "rates" /\ fair' = fair
        /\ quote' = [quote EXCEPT !.todo = @ \ {k}, !.tariff[k] = Served(k)]
    BY <1>4 DEF ReadRate
  <2>2. Served(k) \in Value
    BY PostedTypes
  <2>3. /\ quote' \in Quote /\ quote'.pc = "rates" /\ quote'.todo = quote.todo \ {k}
        /\ quote'.tariff = [quote.tariff EXCEPT ![k] = Served(k)]
    BY <1>0, <2>1, <2>2 DEF Quote
  <2>4. \A j \in Key : quote'.tariff[j] = IF j = k THEN Served(k) ELSE quote.tariff[j]
    BY <1>0, <2>3 DEF Quote
  <2>5. QuotesTypeOK'
    BY <1>0, <2>1, <2>3 DEF QuotesTypeOK
  <2>6. Up
    BY <1>n, <1>o, <2>1
  <2>7. ASSUME NEW j \in Key \ torn, ~lost
        PROVE  /\ Served(j) \in fair[j] /\ Given(j) \subseteq fair[j]
               /\ j \notin quote'.todo => quote'.tariff[j] \in fair[j]
    BY <1>o, <2>1, <2>3, <2>4, <2>7
  <2> QED
    BY <1>0, <1>1, <1>u, <2>1, <2>3, <2>5, <2>6, <2>7 DEF QuoteInv, QuoteOK
<1>5. CASE LookUps
  <2>1. /\ quote.pc = "rates" /\ quote.todo = {} /\ fair' = fair
        /\ quote' = [quote EXCEPT !.pc = "create"]
    BY <1>5 DEF LookUps
  <2>2. /\ quote' \in Quote /\ quote'.pc = "create" /\ quote'.todo = {}
        /\ quote'.tariff = quote.tariff
    BY <1>0, <2>1 DEF Quote
  <2>3. Up /\ QuotesTypeOK'
    BY <1>0, <1>n, <1>o, <2>1, <2>2 DEF QuotesTypeOK
  <2> QED
    BY <1>0, <1>o, <1>u, <2>1, <2>2, <2>3 DEF QuoteInv, QuoteOK
<1>6. CASE QuoteEnds
  BY <1>6, QuoteEndsOK
<1> QED
  BY <1>2, <1>3, <1>4, <1>5, <1>6 DEF ServeOrders

\* So does a step of Pricing: what it changes is posted.
LEMMA PricingStepOK ==
  ASSUME PricesTyped, QuoteInv, ServePricing, PostsSeen, UNCHANGED quote, PricesTyped'
  PROVE  QuoteInv'
<1>0. /\ quote \in Quote /\ fair \in [Key -> SUBSET Value] /\ quote' = quote
      /\ redis \in [Key -> Value \cup {Absent}]
  BY DEF QuoteInv, QuotesTypeOK, PricesTyped, TypeOK
<1>1. fair' = [k \in Key |-> IF quote.pc = "rates" THEN fair[k] \cup Given(k)' ELSE fair[k]]
  BY DEF PostsSeen
<1>2. \A k \in Key : fair[k] \subseteq fair'[k]
  BY <1>1
<1>3. \A k \in Key : Given(k)' \subseteq Value
  <2> SUFFICES ASSUME NEW k \in Key, NEW p \in Proc,
                      <<"redis", k>> \in task'[p].todo \/ <<"db", k>> \in task'[p].todo
               PROVE  task'[p].dto[k] \in Value
    BY DEF Given
  <2> QED
    BY DEF PricesTyped, TypeOK
<1>4. QuotesTypeOK'
  <2>1. fair' \in [Key -> SUBSET Value]
    BY <1>0, <1>1, <1>3
  <2> QED
    BY <1>0, <2>1 DEF QuotesTypeOK
<1>5. lost' = lost /\ torn \subseteq torn' /\ (Up => Up')
  BY DEF ServePricing, SeedDefaultPricing, UpdatePricing, SetRedis, UpsertConfig, FailWrite,
     SeedSkip, SeedLookUp, SeedSet, seedVars, Up
<1>n. quote.pc # "idle" => quote # NoQuote
  BY DEF NoQuote
<1>6. ASSUME NEW k \in Key \ torn', ~lost', quote.pc = "rates"
      PROVE  Served(k)' \in fair'[k] /\ Given(k)' \subseteq fair'[k]
  <2>0. k \in Key \ torn /\ Served(k) \in fair[k] /\ Given(k) \subseteq fair[k] /\ Up
    BY <1>5, <1>6, <1>n DEF QuoteInv, QuoteOK
  <2>1. redis'[k] = redis[k] \/ redis'[k] \in Given(k) \cap Value
    <3>1. ASSUME NEW p \in Proc, NEW j \in Key, SetRedis(p, j)
          PROVE  redis'[k] = redis[k] \/ redis'[k] \in Given(k) \cap Value
      <4>1. redis' = [redis EXCEPT ![j] = task[p].dto[j]] /\ <<"redis", j>> \in task[p].todo
        BY <3>1 DEF SetRedis
      <4>2. CASE j = k
        <5>1. redis'[k] = task[p].dto[k] /\ task[p].dto[k] \in Given(k)
          BY <1>0, <2>0, <4>1, <4>2 DEF Given
        <5>2. Given(k) \subseteq Value
          BY <2>0, PostedTypes
        <5> QED
          BY <5>1, <5>2
      <4>3. CASE j # k
        BY <1>0, <2>0, <4>1, <4>3
      <4> QED
        BY <4>2, <4>3
    <3>2. CASE redis' = redis
      BY <3>2
    <3>3. redis' = redis \/ \E p \in Proc, j \in Key : SetRedis(p, j)
      <4>1. ~SeedSet
        BY <2>0 DEF SeedSet, PricesTyped, BootOK, Up
      <4> QED
        BY <4>1 DEF ServePricing, SeedDefaultPricing, UpdatePricing, UpsertConfig, FailWrite,
           SeedSkip, SeedLookUp, storeVars
    <3> QED
      BY <3>1, <3>2, <3>3
  <2>2. Served(k)' \in {Served(k)} \cup Given(k)
    BY <2>1, ValueAssumption DEF Served
  <2> QED
    BY <1>1, <1>2, <1>6, <2>0, <2>2
<1>7. ASSUME NEW k \in Key \ torn', ~lost', quote.pc \in {"rates", "create"},
             k \notin quote.todo
      PROVE  quote.tariff[k] \in fair'[k]
  <2>1. quote.tariff[k] \in fair[k]
    BY <1>5, <1>7 DEF QuoteInv, QuoteOK
  <2> QED
    BY <1>2, <2>1
<1>8. /\ quote # NoQuote => Up'
      /\ quote.pc = "distance" => quote.todo = Key
      /\ quote.pc = "create" => quote.todo = {}
  BY <1>5 DEF QuoteInv, QuoteOK
<1>9. QuoteOK'
  BY <1>0, <1>6, <1>7, <1>8 DEF QuoteOK
<1> QED
  BY <1>4, <1>9 DEF QuoteInv

\* Every step of the server keeps it; a loss of Redis makes its promises void, a restart
\* ends the call.
LEMMA QuoteStep ==
  ASSUME PricesTyped, SeededOK, StoresOK, FreshOK, QuoteInv, PricesTyped', [ServerNext]_serverVars
  PROVE  QuoteInv'
<1>1. CASE ForPricing
  <2>1. ServePricing /\ PostsSeen /\ UNCHANGED quote
    BY <1>1 DEF ForPricing, ServePricing
  <2> QED
    BY <2>1, PricingStepOK
<1>2. CASE ForOrders
  <2>1. ServeOrders
    BY <1>2 DEF ForOrders
  <2> QED
    BY <2>1, OrderStep
<1>3. CASE RestartServer
  <2>1. QuoteEnds
    BY <1>3 DEF RestartServer
  <2> QED
    BY <2>1, QuoteEndsOK
<1>4. CASE LoseRedisData
  <2>1. /\ UNCHANGED <<quote, fair, seeding, torn>> /\ lost' = TRUE
    BY <1>4 DEF LoseRedisData, LoseRedis, quoteVars, seedVars
  <2> QED
    BY <2>1 DEF QuoteInv, QuotesTypeOK, QuoteOK, Up
<1>5. CASE UNCHANGED <<vars, quoteVars>>
  BY <1>5 DEF QuoteInv, QuotesTypeOK, QuoteOK, Up, Served, Given, vars, quoteVars, storeVars,
     seedVars
<1>6. CASE ForAccounts \/ ForLists \/ CodeExpires \/ UNCHANGED serverVars
  <2>1. UNCHANGED <<vars, quoteVars>>
    BY <1>6 DEF ForAccounts, ForLists, CodeExpires, serverVars
  <2> QED
    BY <1>5, <2>1
<1> QED
  BY <1>1, <1>2, <1>3, <1>4, <1>6 DEF ServerNext

\* It holds in every state of the server.
LEMMA QuotesHold == ServerSpec => []QuoteInv
<1>1. Init => FreshOK
  BY DEF Init, FreshOK
<1>2. Spec => []FreshOK
  BY <1>1, FreshStep, TypedHolds, StoresHold, PTL DEF Spec
<1>3. ServerInit => QuoteInv
  <2> SUFFICES ASSUME QuotesInit
               PROVE  QuoteInv
    BY DEF ServerInit
  <2>1. /\ quote = NoQuote /\ NoQuote \in Quote /\ fair \in [Key -> SUBSET Value]
        /\ NoQuote.pc = "idle"
    BY DEF QuotesInit, NoQuote, Nothing, Quote
  <2> QED
    BY <2>1 DEF QuoteInv, QuotesTypeOK, QuoteOK
<1>4. PricesTyped /\ SeededOK /\ StoresOK /\ FreshOK /\ QuoteInv /\ PricesTyped'
        /\ [ServerNext]_serverVars => QuoteInv'
  BY QuoteStep
<1> QED
  BY <1>2, <1>3, <1>4, ServerRunsPricing, TypedHolds, SeededHolds, StoresHold, PTL
  DEF ServerSpec

\* Every order is priced with values that were in force during its reads.
THEOREM OrdersArePricedAsPosted == ServerSpec => []OrderIsPricedAsPosted
<1>1. QuoteInv => OrderIsPricedAsPosted
  BY DEF QuoteInv, QuoteOK, OrderIsPricedAsPosted
<1> QED
  BY QuotesHold, <1>1, PTL

-----------------------------------------------------------------------------
(* Listings.  A row is behind the client, or still to come, by its rank:   *)
(* the number of newer rows.  Ranks tell the rows of a list apart; a row   *)
(* that leaves, or joins, moves every rank by one at most.                 *)

Rank(m, r) == Cardinality({q \in m : q > r})

Finite(m) == IsFiniteSet(m) /\ m \subseteq Nat

\* A set with one new element at most has at most one element more.
LEMMA OneMore ==
  ASSUME NEW A, NEW B, IsFiniteSet(A), \A x, y \in B \ A : x = y
  PROVE  IsFiniteSet(B) /\ Cardinality(B) <= Cardinality(A) + 1
<1>1. CASE B \ A = {}
  <2>1. B \in SUBSET A
    BY <1>1
  <2> QED
    BY <2>1, FS_Subset, FS_CardinalityType
<1>2. CASE B \ A # {}
  <2>1. PICK x \in B : x \notin A
    BY <1>2
  <2>2. B \in SUBSET (A \cup {x})
    BY <2>1
  <2>3. IsFiniteSet(A \cup {x}) /\ Cardinality(A \cup {x}) = Cardinality(A) + 1
    BY <2>1, FS_AddElement
  <2> QED
    BY <2>2, <2>3, FS_Subset, FS_CardinalityType
<1> QED
  BY <1>1, <1>2

\* A rank is a number, less than the number of rows for a row of the list.
LEMMA RankType ==
  ASSUME NEW m, Finite(m), NEW r \in Nat
  PROVE  Rank(m, r) \in Nat /\ (r \in m => Rank(m, r) < Cardinality(m))
<1> DEFINE newer == {q \in m : q > r}
<1>1. newer \in SUBSET m /\ IsFiniteSet(m)
  BY DEF Finite
<1>2. IsFiniteSet(newer) /\ Cardinality(newer) \in Nat /\ Cardinality(m) \in Nat
  BY <1>1, FS_Subset, FS_CardinalityType
<1>3. Cardinality(newer) <= Cardinality(m)
  BY <1>1, FS_Subset
<1>4. ASSUME r \in m
      PROVE  Cardinality(newer) # Cardinality(m)
  <2>1. newer # m
    BY <1>4
  <2> QED
    BY <1>1, <2>1, FS_Subset
<1> QED
  BY <1>2, <1>3, <1>4 DEF Rank

\* Of two rows of a list the newer one has the lower rank.
LEMMA RanksDiffer ==
  ASSUME NEW m, Finite(m), NEW r \in m, NEW s \in m, r < s
  PROVE  Rank(m, s) < Rank(m, r)
<1> DEFINE hr == {q \in m : q > r}
           hs == {q \in m : q > s}
<1>0. m \subseteq Nat /\ IsFiniteSet(m) /\ r \in Nat /\ s \in Nat
  BY DEF Finite
<1>1. hr \in SUBSET m /\ s \in hr /\ s \notin hs
  BY <1>0
<1>r. hs \in SUBSET hr
  <2> SUFFICES ASSUME NEW q \in m, q > s
               PROVE  q > r
    OBVIOUS
  <2>1. q \in Nat
    BY <1>0
  <2> QED
    BY <1>0, <2>1
<1>2. IsFiniteSet(hr)
  BY <1>0, <1>1, FS_Subset
<1>3. Cardinality(hs) <= Cardinality(hr) /\ Cardinality(hs) # Cardinality(hr)
  <2> HIDE DEF hr, hs
  <2> QED
    BY <1>1, <1>r, <1>2, FS_Subset
<1>4. Cardinality(hr) \in Nat /\ Cardinality(hs) \in Nat
  <2>1. IsFiniteSet(hs)
    <3> HIDE DEF hr, hs
    <3> QED
      BY <1>r, <1>2, FS_Subset
  <2> QED
    BY <1>2, <2>1, FS_CardinalityType
<1> QED
  BY <1>3, <1>4 DEF Rank

\* When q joins, the older rows, and no others, have one newer row more.
LEMMA RankJoins ==
  ASSUME NEW m, Finite(m), NEW q \in Nat, q \notin m, NEW r \in Nat
  PROVE  Rank(m \cup {q}, r) = IF q > r THEN Rank(m, r) + 1 ELSE Rank(m, r)
<1> DEFINE newer == {x \in m : x > r}
<1>1. newer \in SUBSET m /\ IsFiniteSet(m)
  BY DEF Finite
<1>2. IsFiniteSet(newer)
  BY <1>1, FS_Subset
<1>3. {x \in m \cup {q} : x > r} = IF q > r THEN newer \cup {q} ELSE newer
  OBVIOUS
<1>4. Cardinality(newer \cup {q}) = Cardinality(newer) + 1
  <2>1. q \notin newer
    OBVIOUS
  <2> HIDE DEF newer
  <2> QED
    BY <1>2, <2>1, FS_AddElement
<1> QED
  BY <1>3, <1>4 DEF Rank

\* When q leaves they have one less: the ranks are those before it joined.
LEMMA RankLeaves ==
  ASSUME NEW m, Finite(m), NEW q \in m, NEW r \in Nat
  PROVE  /\ Finite(m \ {q})
         /\ Rank(m, r) = IF q > r THEN Rank(m \ {q}, r) + 1 ELSE Rank(m \ {q}, r)
<1>1. Finite(m \ {q})
  <2>1. IsFiniteSet(m \ {q})
    BY FS_RemoveElement DEF Finite
  <2> QED
    BY <2>1 DEF Finite
<1>2. (m \ {q}) \cup {q} = m /\ q \notin m \ {q} /\ q \in Nat
  BY DEF Finite
<1> QED
  BY <1>1, <1>2, RankJoins

-----------------------------------------------------------------------------
\* of the rows in st those that a client who has got s, and the first b, missed
Skipped(st, m, s, b) == {r \in st \ s : Rank(m, r) < b}

\* the rows that it has twice, or will have: they are again after the first b
Pushed(rep, m, s, b) == rep \cup {r \in s \cap m : Rank(m, r) >= b}

\* Both are finite: the repeated rows are, and the list is.
LEMMA PushedFinite ==
  ASSUME NEW m, Finite(m), NEW rep, IsFiniteSet(rep), NEW s, NEW b
  PROVE  IsFiniteSet(Pushed(rep, m, s, b))
<1>1. {r \in s \cap m : Rank(m, r) >= b} \in SUBSET m /\ IsFiniteSet(m)
  BY DEF Finite
<1>2. IsFiniteSet({r \in s \cap m : Rank(m, r) >= b})
  BY <1>1, FS_Subset
<1> QED
  BY <1>2, FS_Union DEF Pushed

\* A row that leaves moves one row at most over the border, to the client's back.
LEMMA ExitSkips ==
  ASSUME NEW m, Finite(m), NEW q \in m, NEW st \in SUBSET m, NEW s, NEW b \in Nat
  PROVE  Cardinality(Skipped(st \ {q}, m \ {q}, s, b))
           <= Cardinality(Skipped(st, m, s, b)) + 1
<1> DEFINE A == Skipped(st, m, s, b)
           B == Skipped(st \ {q}, m \ {q}, s, b)
<1>1. IsFiniteSet(A)
  <2>1. A \in SUBSET m /\ IsFiniteSet(m)
    BY DEF Skipped, Finite
  <2> QED
    BY <2>1, FS_Subset
<1>2. ASSUME NEW x \in B \ A
      PROVE  x \in m /\ x \in Nat /\ Rank(m, x) = b
  <2>1. x \in m /\ x \in Nat /\ Rank(m \ {q}, x) < b /\ ~(Rank(m, x) < b)
    BY DEF Skipped, Finite
  <2>2. /\ Finite(m \ {q})
        /\ Rank(m, x) = IF q > x THEN Rank(m \ {q}, x) + 1 ELSE Rank(m \ {q}, x)
    BY <2>1, RankLeaves
  <2>3. Rank(m, x) \in Nat /\ Rank(m \ {q}, x) \in Nat
    BY <2>1, <2>2, RankType
  <2> QED
    BY <2>1, <2>2, <2>3
<1>3. ASSUME NEW x \in B \ A, NEW y \in B \ A
      PROVE  x = y
  <2>1. x \in m /\ x \in Nat /\ Rank(m, x) = b /\ y \in m /\ y \in Nat /\ Rank(m, y) = b
    BY <1>2
  <2>2. ~(x < y) /\ ~(y < x)
    BY <2>1, RanksDiffer
  <2> QED
    BY <2>1, <2>2
<1> HIDE DEF A, B
<1>4. Cardinality(B) <= Cardinality(A) + 1
  BY <1>1, <1>3, OneMore
<1> QED
  BY <1>4 DEF A, B

\* A row that joins moves none to the client's back.
LEMMA EntrySkipsNone ==
  ASSUME NEW m, Finite(m), NEW q \in Nat, q \notin m, NEW st \in SUBSET m, NEW s,
         NEW b \in Nat
  PROVE  Cardinality(Skipped(st, m \cup {q}, s, b)) <= Cardinality(Skipped(st, m, s, b))
<1>1. Skipped(st, m \cup {q}, s, b) \in SUBSET Skipped(st, m, s, b)
  <2> SUFFICES ASSUME NEW x \in st, Rank(m \cup {q}, x) < b
               PROVE  Rank(m, x) < b
    BY DEF Skipped
  <2>1. x \in Nat
    BY DEF Finite
  <2> QED
    BY <2>1, RankJoins, RankType
<1>2. Skipped(st, m, s, b) \in SUBSET m /\ IsFiniteSet(m)
  BY DEF Skipped, Finite
<1>3. IsFiniteSet(Skipped(st, m, s, b))
  BY <1>2, FS_Subset
<1> QED
  BY <1>1, <1>3, FS_Subset

\* A row that joins is again to come, or pushes one row before the client.
LEMMA EntryPushes ==
  ASSUME NEW m, Finite(m), NEW q \in Nat, q \notin m, NEW rep, IsFiniteSet(rep),
         NEW s, NEW b \in Nat
  PROVE  Cardinality(Pushed(rep, m \cup {q}, s, b))
           <= Cardinality(Pushed(rep, m, s, b)) + 1
<1> DEFINE A == Pushed(rep, m, s, b)
           B == Pushed(rep, m \cup {q}, s, b)
<1>0. Finite(m \cup {q})
  <2>1. IsFiniteSet(m \cup {q})
    BY FS_AddElement DEF Finite
  <2> QED
    BY <2>1 DEF Finite
<1>1. IsFiniteSet(A)
  BY PushedFinite
<1>2. ASSUME NEW x \in B \ A
      PROVE  /\ x \in Nat /\ x \in m \cup {q}
             /\ x = q => Rank(m \cup {q}, x) >= b
             /\ x # q => x < q /\ Rank(m \cup {q}, x) = b
  <2>1. /\ x \in m \cup {q} /\ x \in Nat /\ Rank(m \cup {q}, x) >= b
        /\ x \in m => ~(Rank(m, x) >= b)
    BY DEF Pushed, Finite
  <2>2. Rank(m \cup {q}, x) = IF q > x THEN Rank(m, x) + 1 ELSE Rank(m, x)
    BY <2>1, RankJoins
  <2>3. Rank(m, x) \in Nat
    BY <2>1, RankType
  <2> QED
    BY <2>1, <2>2, <2>3
<1>3. ASSUME NEW x \in B \ A, NEW y \in B \ A
      PROVE  x = y
  <2>1. x \in Nat /\ x \in m \cup {q} /\ y \in Nat /\ y \in m \cup {q}
    BY <1>2
  <2>2. Rank(m \cup {q}, x) \in Nat /\ Rank(m \cup {q}, y) \in Nat
    BY <1>0, <2>1, RankType
  <2>3. /\ x < y => Rank(m \cup {q}, y) < Rank(m \cup {q}, x)
        /\ y < x => Rank(m \cup {q}, x) < Rank(m \cup {q}, y)
    BY <1>0, <2>1, RanksDiffer
  <2>4. /\ x = q => Rank(m \cup {q}, x) >= b
        /\ x # q => x < q /\ Rank(m \cup {q}, x) = b
        /\ y = q => Rank(m \cup {q}, y) >= b
        /\ y # q => y < q /\ Rank(m \cup {q}, y) = b
    BY <1>2
  <2> QED
    BY <2>1, <2>2, <2>3, <2>4
<1> HIDE DEF A, B
<1>4. Cardinality(B) <= Cardinality(A) + 1
  BY <1>1, <1>3, OneMore
<1> QED
  BY <1>4 DEF A, B

\* A row that leaves brings none before the client again.
LEMMA ExitPushesNone ==
  ASSUME NEW m, Finite(m), NEW q \in m, NEW rep, IsFiniteSet(rep), NEW s, NEW b \in Nat
  PROVE  Cardinality(Pushed(rep, m \ {q}, s, b)) <= Cardinality(Pushed(rep, m, s, b))
<1>1. Pushed(rep, m \ {q}, s, b) \in SUBSET Pushed(rep, m, s, b)
  <2> SUFFICES ASSUME NEW x \in m, Rank(m \ {q}, x) >= b
               PROVE  Rank(m, x) >= b
    BY DEF Pushed
  <2>1. x \in Nat
    BY DEF Finite
  <2>2. /\ Finite(m \ {q})
        /\ Rank(m, x) = IF q > x THEN Rank(m \ {q}, x) + 1 ELSE Rank(m \ {q}, x)
    BY <2>1, RankLeaves
  <2>3. Rank(m, x) \in Nat /\ Rank(m \ {q}, x) \in Nat
    BY <2>1, <2>2, RankType
  <2> QED
    BY <2>2, <2>3
<1>2. IsFiniteSet(Pushed(rep, m, s, b))
  BY PushedFinite
<1> QED
  BY <1>1, <1>2, FS_Subset

-----------------------------------------------------------------------------
(* The inductive invariant: at most one row behind the client for each row *)
(* that left, at most one twice or to come again for each that joined; and *)
(* the same with the page that a call has read but not yet answered.       *)

Behind(s, b) == Skipped(stayed, matching, s, b)
Again(rep, s, b) == Pushed(rep, matching, s, b)

BeforePage == (page - 1) * limit
AfterPage == page * limit

ShownOK ==
    /\ Cardinality(Behind(shown, BeforePage)) <= exits
    /\ Cardinality(Again(repeated, shown, BeforePage)) <= joined

\* the rows of the page are read, its number is not
DataOK ==
    query.todo = {"count"} =>
        /\ Cardinality(Behind(shown \cup query.data, AfterPage)) <= exits
        /\ Cardinality(Again(repeated \cup (shown \cap query.data),
                             shown \cup query.data, AfterPage)) <= joined

\* the number is read, the rows are not
CountOK ==
    query.todo = {"findMany"} /\ ~split => Cardinality(matching) <= query.count

ListsInv == ListsTypeOK /\ ShownOK /\ DataOK /\ CountOK /\ EachExitHidesOne

\* What a step may use of the types.
LEMMA ListTypes ==
  ASSUME ListsTypeOK
  PROVE  /\ rows \in Nat /\ Finite(matching) /\ matching \subseteq Row
         /\ stayed \in SUBSET matching /\ stayed \subseteq Nat
         /\ limit \in Nat /\ page \in Nat /\ BeforePage \in Nat /\ AfterPage \in Nat
         /\ BeforePage <= AfterPage
         /\ IsFiniteSet(stayed) /\ IsFiniteSet(repeated)
         /\ IsFiniteSet(repeated \cup (shown \cap query.data))
<1>1. IsFiniteSet(Row) /\ Row \subseteq Nat
  <2>1. rows \in Nat
    BY ListAssumption DEF ListsTypeOK
  <2>2. IsFiniteSet(1..rows)
    BY <2>1, FS_Interval
  <2> QED
    BY <2>1, <2>2 DEF Row
<1>2. Finite(matching) /\ stayed \in SUBSET matching /\ stayed \subseteq Nat
  <2>1. matching \in SUBSET Row /\ stayed \in SUBSET matching
    BY DEF ListsTypeOK
  <2>2. IsFiniteSet(matching)
    BY <1>1, <2>1, FS_Subset
  <2> QED
    BY <1>1, <2>1, <2>2 DEF Finite
<1>3. IsFiniteSet(stayed)
  BY <1>2, FS_Subset DEF Finite
<1>4. IsFiniteSet(repeated) /\ IsFiniteSet(repeated \cup (shown \cap query.data))
  <2>1. repeated \in SUBSET Row /\ (repeated \cup (shown \cap query.data)) \in SUBSET Row
    BY DEF ListsTypeOK
  <2> QED
    BY <1>1, <2>1, FS_Subset
<1>5. limit \in Nat /\ page \in Nat /\ page - 1 \in Nat
  BY ListAssumption DEF ListsTypeOK
<1>6. BeforePage \in Nat /\ AfterPage \in Nat
  BY <1>5 DEF BeforePage, AfterPage
<1>7. AfterPage = BeforePage + limit
  <2>1. page = (page - 1) + 1
    BY <1>5
  <2>2. \A n \in Nat : (n + 1) * limit = n * limit + limit
    BY <1>5
  <2> QED
    BY <1>5, <2>1, <2>2 DEF BeforePage, AfterPage
<1> QED
  BY <1>2, <1>3, <1>4, <1>5, <1>6, <1>7 DEF ListsTypeOK

\* A read of the rows of a page puts no row behind the client, and gives it twice
\* only rows that were to come again.
LEMMA PageRead ==
  ASSUME ListsTypeOK
  PROVE  /\ Cardinality(Behind(shown \cup PageOfRows, AfterPage))
              <= Cardinality(Behind(shown, BeforePage))
         /\ Cardinality(Again(repeated \cup (shown \cap PageOfRows),
                              shown \cup PageOfRows, AfterPage))
              <= Cardinality(Again(repeated, shown, BeforePage))
<1>0. /\ Finite(matching) /\ stayed \in SUBSET matching /\ IsFiniteSet(matching)
      /\ BeforePage \in Nat /\ AfterPage \in Nat /\ BeforePage <= AfterPage
      /\ IsFiniteSet(stayed) /\ IsFiniteSet(repeated)
  BY ListTypes DEF Finite
<1>r. \A r \in matching : Rank(matching, r) \in Nat /\ Newer(r) = Rank(matching, r)
  BY <1>0, RankType DEF Finite, Rank, Newer
<1>p. PageOfRows = {r \in matching : BeforePage <= Rank(matching, r)
                                     /\ Rank(matching, r) < AfterPage}
  BY <1>r DEF PageOfRows, BeforePage, AfterPage
<1>1. Behind(shown \cup PageOfRows, AfterPage) \in SUBSET Behind(shown, BeforePage)
  BY <1>0, <1>r, <1>p DEF Behind, Skipped
<1>2. Again(repeated \cup (shown \cap PageOfRows), shown \cup PageOfRows, AfterPage)
        \in SUBSET Again(repeated, shown, BeforePage)
  BY <1>0, <1>r, <1>p DEF Again, Pushed
<1>3. IsFiniteSet(Behind(shown, BeforePage))
  <2>1. Behind(shown, BeforePage) \in SUBSET stayed
    BY DEF Behind, Skipped
  <2> QED
    BY <1>0, <2>1, FS_Subset
<1>4. IsFiniteSet(Again(repeated, shown, BeforePage))
  BY <1>0, PushedFinite DEF Again
<1> QED
  BY <1>1, <1>2, <1>3, <1>4, FS_Subset

\* So the page keeps to the two numbers.
LEMMA PageKeeps ==
  ASSUME ListsTypeOK, ShownOK
  PROVE  /\ Cardinality(Behind(shown \cup PageOfRows, AfterPage)) <= exits
         /\ Cardinality(Again(repeated \cup (shown \cap PageOfRows),
                              shown \cup PageOfRows, AfterPage)) <= joined
<1> DEFINE b1 == Behind(shown, BeforePage)
           b2 == Behind(shown \cup PageOfRows, AfterPage)
           a1 == Again(repeated, shown, BeforePage)
           a2 == Again(repeated \cup (shown \cap PageOfRows), shown \cup PageOfRows, AfterPage)
<1>0. /\ Finite(matching) /\ stayed \in SUBSET matching /\ IsFiniteSet(stayed)
      /\ IsFiniteSet(repeated) /\ joined \in Nat /\ exits \in Nat
  BY ListTypes DEF ListsTypeOK
<1>1. IsFiniteSet(b1) /\ IsFiniteSet(b2)
  <2>1. b1 \in SUBSET stayed /\ b2 \in SUBSET stayed
    BY DEF Behind, Skipped
  <2> QED
    BY <1>0, <2>1, FS_Subset
<1>2. IsFiniteSet(a1) /\ IsFiniteSet(a2)
  <2>1. (repeated \cup (shown \cap PageOfRows)) \in SUBSET (repeated \cup matching)
    BY DEF PageOfRows
  <2>2. IsFiniteSet(repeated \cup matching)
    BY <1>0, FS_Union DEF Finite
  <2>3. IsFiniteSet(repeated \cup (shown \cap PageOfRows))
    BY <2>1, <2>2, FS_Subset
  <2> QED
    BY <1>0, <2>3, PushedFinite DEF Again
<1>3. Cardinality(b2) <= Cardinality(b1) /\ Cardinality(a2) <= Cardinality(a1)
  BY PageRead
<1>4. Cardinality(b1) <= exits /\ Cardinality(a1) <= joined
  BY DEF ShownOK
<1> HIDE DEF b1, b2, a1, a2
<1>5. /\ Cardinality(b1) \in Nat /\ Cardinality(b2) \in Nat
      /\ Cardinality(a1) \in Nat /\ Cardinality(a2) \in Nat
  BY <1>1, <1>2, FS_CardinalityType
<1>6. Cardinality(b2) <= exits /\ Cardinality(a2) <= joined
  BY <1>0, <1>3, <1>4, <1>5
<1> QED
  BY <1>6 DEF b1, b2, a1, a2

\* Once the number says that there is no other page, every row that stayed and
\* is not shown is behind the client.
LEMMA EndIsBehind ==
  ASSUME ListsTypeOK, NEW s, NEW count \in Nat, Cardinality(matching) <= count,
         AfterPage >= count
  PROVE  Behind(s, AfterPage) = stayed \ s
<1>0. Finite(matching) /\ stayed \in SUBSET matching /\ AfterPage \in Nat
  BY ListTypes
<1>1. Cardinality(matching) \in Nat
  BY <1>0, FS_CardinalityType DEF Finite
<1>2. ASSUME NEW r \in stayed
      PROVE  Rank(matching, r) < AfterPage
  <2>1. r \in matching /\ r \in Nat
    BY <1>0 DEF Finite
  <2>2. Rank(matching, r) \in Nat /\ Rank(matching, r) < Cardinality(matching)
    BY <1>0, <2>1, RankType
  <2> QED
    BY <1>0, <1>1, <2>2
<1> QED
  BY <1>2 DEF Behind, Skipped

-----------------------------------------------------------------------------
\* A row that joins keeps the invariant: it counts for one of the two numbers.
LEMMA JoinKeeps ==
  ASSUME ListsInv, NEW q \in Nat \ matching, Join(q),
         rows' \in Nat, rows <= rows', q \in 1..rows'
  PROVE  ListsInv'
<1>0. /\ ListsTypeOK /\ rows \in Nat /\ Finite(matching) /\ matching \subseteq Row
      /\ stayed \in SUBSET matching /\ BeforePage \in Nat /\ AfterPage \in Nat
      /\ IsFiniteSet(repeated) /\ IsFiniteSet(repeated \cup (shown \cap query.data))
  BY ListTypes DEF ListsInv
<1>1. /\ matching' = matching \cup {q} /\ q \notin matching /\ q \in Nat
      /\ UNCHANGED <<stayed, exits, page, limit, query, shown, total, repeated, where>>
      /\ joined' = joined + 1 /\ joined \in Nat /\ exits \in Nat
      /\ split' = (split \/ query.todo = {"findMany"})
  BY <1>0 DEF Join, clientVars, ListsTypeOK
<1>2. BeforePage' = BeforePage /\ AfterPage' = AfterPage
  BY <1>1 DEF BeforePage, AfterPage
<1>3. ListsTypeOK'
  <2>1. Row \subseteq Row' /\ q \in Row'
    BY <1>0 DEF Row
  <2>2. split' \in BOOLEAN
    BY <1>1
  <2>3. joined' \in Nat /\ matching' \subseteq Row' /\ stayed' \subseteq matching'
    BY <1>0, <1>1, <2>1
  <2>4. query'.data \subseteq Row' /\ shown' \subseteq Row' /\ repeated' \subseteq Row'
    BY <1>0, <1>1, <2>1 DEF ListsTypeOK
  <2> QED
    BY <1>0, <1>1, <2>2, <2>3, <2>4 DEF ListsTypeOK
<1>4. ASSUME NEW s, NEW b \in Nat, Cardinality(Behind(s, b)) <= exits
      PROVE  Cardinality(Skipped(stayed, matching \cup {q}, s, b)) <= exits
  <2>1. Cardinality(Skipped(stayed, matching \cup {q}, s, b)) <= Cardinality(Behind(s, b))
    BY <1>0, <1>1, EntrySkipsNone DEF Behind
  <2>2. IsFiniteSet(Behind(s, b)) /\ IsFiniteSet(Skipped(stayed, matching \cup {q}, s, b))
    <3>1. /\ Behind(s, b) \in SUBSET matching /\ IsFiniteSet(matching)
          /\ Skipped(stayed, matching \cup {q}, s, b) \in SUBSET matching
      BY <1>0 DEF Behind, Skipped, Finite
    <3> QED
      BY <3>1, FS_Subset
  <2>3. /\ Cardinality(Behind(s, b)) \in Nat
        /\ Cardinality(Skipped(stayed, matching \cup {q}, s, b)) \in Nat
    BY <2>2, FS_CardinalityType
  <2> QED
    BY <1>1, <1>4, <2>1, <2>3
<1>5. ASSUME NEW rep, IsFiniteSet(rep), NEW s, NEW b \in Nat,
             Cardinality(Again(rep, s, b)) <= joined
      PROVE  Cardinality(Pushed(rep, matching \cup {q}, s, b)) <= joined + 1
  <2>1. Cardinality(Pushed(rep, matching \cup {q}, s, b)) <= Cardinality(Again(rep, s, b)) + 1
    BY <1>0, <1>1, <1>5, EntryPushes DEF Again
  <2>2. IsFiniteSet(Again(rep, s, b))
    BY <1>0, <1>5, PushedFinite DEF Again
  <2>3. IsFiniteSet(Pushed(rep, matching \cup {q}, s, b))
    <3>1. Finite(matching \cup {q})
      <4>1. IsFiniteSet(matching \cup {q})
        BY <1>0, FS_AddElement DEF Finite
      <4> QED
        BY <1>0, <1>1, <4>1 DEF Finite
    <3> QED
      BY <1>5, <3>1, PushedFinite
  <2>4. /\ Cardinality(Again(rep, s, b)) \in Nat
        /\ Cardinality(Pushed(rep, matching \cup {q}, s, b)) \in Nat
    BY <2>2, <2>3, FS_CardinalityType
  <2> QED
    BY <1>1, <1>5, <2>1, <2>4
<1>6. ShownOK'
  <2>1. Cardinality(Skipped(stayed, matching \cup {q}, shown, BeforePage)) <= exits
    BY <1>0, <1>4 DEF ListsInv, ShownOK
  <2>2. Cardinality(Pushed(repeated, matching \cup {q}, shown, BeforePage)) <= joined + 1
    BY <1>0, <1>5 DEF ListsInv, ShownOK
  <2> QED
    BY <1>1, <1>2, <2>1, <2>2 DEF ShownOK, Behind, Again
<1>7. DataOK'
  <2> SUFFICES ASSUME query.todo = {"count"}
               PROVE  DataOK'
    BY <1>1 DEF DataOK
  <2> DEFINE s == shown \cup query.data
             rep == repeated \cup (shown \cap query.data)
  <2>1. /\ Cardinality(Behind(s, AfterPage)) <= exits
        /\ Cardinality(Again(rep, s, AfterPage)) <= joined
    BY DEF ListsInv, DataOK
  <2>2. IsFiniteSet(rep)
    BY <1>0
  <2> HIDE DEF s, rep
  <2>3. Cardinality(Skipped(stayed, matching \cup {q}, s, AfterPage)) <= exits
    BY <1>0, <1>4, <2>1
  <2>4. Cardinality(Pushed(rep, matching \cup {q}, s, AfterPage)) <= joined + 1
    BY <1>0, <1>5, <2>1, <2>2
  <2> QED
    BY <1>1, <1>2, <2>3, <2>4 DEF DataOK, Behind, Again, s, rep
<1>8. CountOK'
  BY <1>1 DEF ListsInv, CountOK
<1>9. EachExitHidesOne'
  <2>1. Done' => Done
    BY <1>1 DEF Done
  <2> QED
    BY <1>1, <2>1 DEF ListsInv, EachExitHidesOne
<1> QED
  BY <1>3, <1>6, <1>7, <1>8, <1>9 DEF ListsInv

\* So does a row that leaves.
LEMMA LeaveKeeps ==
  ASSUME ListsInv, NEW q \in matching, Leave(q)
  PROVE  ListsInv'
<1>0. /\ ListsTypeOK /\ rows \in Nat /\ Finite(matching) /\ matching \subseteq Row
      /\ stayed \in SUBSET matching /\ BeforePage \in Nat /\ AfterPage \in Nat
      /\ IsFiniteSet(repeated) /\ IsFiniteSet(repeated \cup (shown \cap query.data))
      /\ IsFiniteSet(stayed)
  BY ListTypes DEF ListsInv
<1>1. /\ matching' = matching \ {q} /\ stayed' = stayed \ {q}
      /\ UNCHANGED <<rows, joined, page, limit, query, shown, total, repeated, where, split>>
      /\ exits' = exits + 1 /\ joined \in Nat /\ exits \in Nat
  BY <1>0 DEF Leave, clientVars, ListsTypeOK
<1>2. BeforePage' = BeforePage /\ AfterPage' = AfterPage
  BY <1>1 DEF BeforePage, AfterPage
<1>m. Finite(matching \ {q})
  <2>1. IsFiniteSet(matching \ {q})
    BY <1>0, FS_RemoveElement DEF Finite
  <2> QED
    BY <1>0, <2>1 DEF Finite
<1>3. ListsTypeOK'
  BY <1>0, <1>1 DEF ListsTypeOK, Row
<1>4. ASSUME NEW s, NEW b \in Nat, Cardinality(Behind(s, b)) <= exits
      PROVE  Cardinality(Skipped(stayed \ {q}, matching \ {q}, s, b)) <= exits + 1
  <2>1. Cardinality(Skipped(stayed \ {q}, matching \ {q}, s, b))
          <= Cardinality(Behind(s, b)) + 1
    BY <1>0, ExitSkips DEF Behind
  <2>2. /\ IsFiniteSet(Behind(s, b))
        /\ IsFiniteSet(Skipped(stayed \ {q}, matching \ {q}, s, b))
    <3>1. /\ Behind(s, b) \in SUBSET stayed
          /\ Skipped(stayed \ {q}, matching \ {q}, s, b) \in SUBSET stayed
      BY DEF Behind, Skipped
    <3> QED
      BY <1>0, <3>1, FS_Subset
  <2>3. /\ Cardinality(Behind(s, b)) \in Nat
        /\ Cardinality(Skipped(stayed \ {q}, matching \ {q}, s, b)) \in Nat
    BY <2>2, FS_CardinalityType
  <2> QED
    BY <1>1, <1>4, <2>1, <2>3
<1>5. ASSUME NEW rep, IsFiniteSet(rep), NEW s, NEW b \in Nat,
             Cardinality(Again(rep, s, b)) <= joined
      PROVE  Cardinality(Pushed(rep, matching \ {q}, s, b)) <= joined
  <2>1. Cardinality(Pushed(rep, matching \ {q}, s, b)) <= Cardinality(Again(rep, s, b))
    BY <1>0, <1>5, ExitPushesNone DEF Again
  <2>2. IsFiniteSet(Again(rep, s, b))
    BY <1>0, <1>5, PushedFinite DEF Again
  <2>3. IsFiniteSet(Pushed(rep, matching \ {q}, s, b))
    BY <1>m, <1>5, PushedFinite
  <2>4. /\ Cardinality(Again(rep, s, b)) \in Nat
        /\ Cardinality(Pushed(rep, matching \ {q}, s, b)) \in Nat
    BY <2>2, <2>3, FS_CardinalityType
  <2> QED
    BY <1>1, <1>5, <2>1, <2>4
<1>6. ShownOK'
  <2>1. Cardinality(Skipped(stayed \ {q}, matching \ {q}, shown, BeforePage)) <= exits + 1
    BY <1>0, <1>4 DEF ListsInv, ShownOK
  <2>2. Cardinality(Pushed(repeated, matching \ {q}, shown, BeforePage)) <= joined
    BY <1>0, <1>5 DEF ListsInv, ShownOK
  <2> QED
    BY <1>1, <1>2, <2>1, <2>2 DEF ShownOK, Behind, Again
<1>7. DataOK'
  <2> SUFFICES ASSUME query.todo = {"count"}
               PROVE  DataOK'
    BY <1>1 DEF DataOK
  <2> DEFINE s == shown \cup query.data
             rep == repeated \cup (shown \cap query.data)
  <2>1. /\ Cardinality(Behind(s, AfterPage)) <= exits
        /\ Cardinality(Again(rep, s, AfterPage)) <= joined
    BY DEF ListsInv, DataOK
  <2>2. IsFiniteSet(rep)
    BY <1>0
  <2> HIDE DEF s, rep
  <2>3. Cardinality(Skipped(stayed \ {q}, matching \ {q}, s, AfterPage)) <= exits + 1
    BY <1>0, <1>4, <2>1
  <2>4. Cardinality(Pushed(rep, matching \ {q}, s, AfterPage)) <= joined
    BY <1>0, <1>5, <2>1, <2>2
  <2> QED
    BY <1>1, <1>2, <2>3, <2>4 DEF DataOK, Behind, Again, s, rep
<1>8. CountOK'
  <2>1. Cardinality(matching') <= Cardinality(matching)
    BY <1>0, <1>1, FS_Subset DEF Finite
  <2>2. Cardinality(matching') \in Nat /\ Cardinality(matching) \in Nat
    BY <1>0, <1>1, <1>m, FS_CardinalityType DEF Finite
  <2>3. query.count \in Nat
    BY <1>0 DEF ListsTypeOK
  <2> QED
    BY <1>1, <2>1, <2>2, <2>3 DEF ListsInv, CountOK
<1>9. EachExitHidesOne'
  <2>1. Done' => Done
    BY <1>1 DEF Done
  <2>2. IsFiniteSet(stayed \ shown)
    BY <1>0, FS_Difference
  <2>3. (stayed' \ shown') \in SUBSET (stayed \ shown)
    BY <1>1
  <2>4. Cardinality(stayed' \ shown') <= Cardinality(stayed \ shown)
    BY <2>2, <2>3, FS_Subset
  <2>5. Cardinality(stayed' \ shown') \in Nat /\ Cardinality(stayed \ shown) \in Nat
    BY <2>2, <2>3, FS_Subset, FS_CardinalityType
  <2> QED
    BY <1>1, <2>1, <2>4, <2>5 DEF ListsInv, EachExitHidesOne
<1> QED
  BY <1>3, <1>6, <1>7, <1>8, <1>9 DEF ListsInv

\* Calls keep the invariant: what a page gives its client was counted before.
LEMMA CallKeeps ==
  ASSUME ListsInv, GetPage \/ FindMany \/ Count \/ CallLost
  PROVE  ListsInv'
<1>0. /\ ListsTypeOK /\ rows \in Nat /\ Finite(matching) /\ matching \subseteq Row
      /\ stayed \in SUBSET matching /\ BeforePage \in Nat /\ AfterPage \in Nat
      /\ page \in Nat /\ joined \in Nat /\ exits \in Nat
  BY ListTypes DEF ListsInv, ListsTypeOK
<1>1. UNCHANGED <<rows, matching, where, limit, stayed, joined, exits>>
  BY DEF GetPage, FindMany, Count, Read, CallLost, tableVars
<1>n. NoQuery.todo = {} /\ NoQuery.data = {} /\ NoQuery.count = 0
  BY DEF NoQuery
<1>2. CASE GetPage \/ CallLost
  <2>1. /\ UNCHANGED <<page, shown, total, repeated>>
        /\ query'.data = {} /\ query'.count = 0
        /\ query'.todo = Reads \/ query'.todo = {}
        /\ split' \in BOOLEAN /\ (GetPage => ~Done) /\ (CallLost => split' = split)
    <3>1. CASE GetPage
      <4>1. query' = [todo |-> Reads, data |-> {}, count |-> 0]
        BY <3>1 DEF GetPage, NoQuery
      <4>2. UNCHANGED <<page, shown, total, repeated>> /\ split' = FALSE /\ ~Done
        BY <3>1 DEF GetPage
      <4>3. split' \in BOOLEAN /\ (CallLost => split' = split)
        BY <4>1, <4>2, <1>n DEF CallLost, Reads
      <4> QED
        BY <4>1, <4>2, <4>3
    <3>2. CASE CallLost
      <4>1. query' = NoQuery /\ UNCHANGED <<page, shown, total, repeated, split>>
        BY <3>2 DEF CallLost
      <4>2. GetPage => ~Done
        BY DEF GetPage
      <4>3. split' \in BOOLEAN
        BY <1>0, <4>1 DEF ListsTypeOK
      <4> QED
        BY <1>n, <4>1, <4>2, <4>3
    <3> QED
      BY <1>2, <3>1, <3>2
  <2>2. ListsTypeOK'
    BY <1>0, <1>1, <2>1 DEF ListsTypeOK, Row
  <2>3. ShownOK'
    BY <1>1, <2>1 DEF ListsInv, ShownOK, Behind, Again, BeforePage
  <2>4. query'.todo # {"count"} /\ query'.todo # {"findMany"}
    BY <2>1 DEF Reads
  <2>5. DataOK' /\ CountOK'
    BY <2>4 DEF DataOK, CountOK
  <2>6. EachExitHidesOne'
    BY <1>1, <1>2, <2>1 DEF ListsInv, EachExitHidesOne, Done
  <2> QED
    BY <2>2, <2>3, <2>5, <2>6 DEF ListsInv
<1>3. ASSUME NEW which \in Reads, NEW data, NEW count, Read(which, data, count),
             query.todo # {which}, ListsTypeOK', DataOK', CountOK'
      PROVE  ListsInv'
  <2>1. UNCHANGED <<page, shown, total, repeated, split>>
    BY <1>3 DEF Read
  <2>2. ShownOK' /\ EachExitHidesOne'
    BY <1>1, <2>1 DEF ListsInv, ShownOK, Behind, Again, BeforePage, EachExitHidesOne, Done
  <2> QED
    BY <1>3, <2>2 DEF ListsInv
<1>4. ASSUME NEW which \in Reads, NEW data \in SUBSET Row, NEW count \in Nat,
             Read(which, data, count), query.todo = {which},
             Cardinality(Behind(shown \cup data, AfterPage)) <= exits,
             Cardinality(Again(repeated \cup (shown \cap data), shown \cup data, AfterPage))
               <= joined,
             split \/ Cardinality(matching) <= count
      PROVE  ListsInv'
  <2>1. /\ query' = NoQuery /\ shown' = shown \cup data /\ split' = split
        /\ repeated' = repeated \cup (shown \cap data)
        /\ total' = count /\ page' = page + 1
    BY <1>4 DEF Read
  <2>2. ListsTypeOK'
    BY <1>0, <1>1, <1>4, <1>n, <2>1 DEF ListsTypeOK, Row
  <2>3. BeforePage' = AfterPage
    <3>1. page' - 1 = page
      BY <1>0, <2>1
    <3> QED
      BY <1>1, <3>1 DEF BeforePage, AfterPage
  <2>4. ShownOK'
    BY <1>1, <1>4, <2>1, <2>3 DEF ShownOK, Behind, Again
  <2>5. DataOK' /\ CountOK'
    BY <1>n, <2>1 DEF DataOK, CountOK
  <2>6. EachExitHidesOne'
    <3> SUFFICES ASSUME Done', ~split
                 PROVE  Cardinality(stayed' \ shown') <= exits'
      BY <2>1 DEF EachExitHidesOne
    <3>1. AfterPage >= count
      BY <2>1, <2>3 DEF Done, BeforePage
    <3>2. Behind(shown \cup data, AfterPage) = stayed \ (shown \cup data)
      BY <1>0, <1>4, <3>1, EndIsBehind
    <3> QED
      BY <1>1, <1>4, <2>1, <3>2
  <2> QED
    BY <2>2, <2>4, <2>5, <2>6 DEF ListsInv
<1>5. CASE FindMany
  <2> DEFINE data == PageOfRows
  <2>1. /\ Read("findMany", data, query.count) /\ "findMany" \in Reads
        /\ data \in SUBSET Row /\ query.count \in Nat
    BY <1>0, <1>5 DEF FindMany, Reads, PageOfRows, ListsTypeOK
  <2>2. /\ Cardinality(Behind(shown \cup data, AfterPage)) <= exits
        /\ Cardinality(Again(repeated \cup (shown \cap data), shown \cup data, AfterPage))
             <= joined
    BY <1>0, PageKeeps DEF ListsInv, ShownOK
  <2> HIDE DEF data
  <2>3. CASE query.todo = {"findMany"}
    <3>1. split \/ Cardinality(matching) <= query.count
      BY <1>0, <2>3 DEF ListsInv, CountOK, ListsTypeOK
    <3> QED
      BY <1>4, <2>1, <2>2, <2>3, <3>1
  <2>4. CASE query.todo # {"findMany"}
    <3>1. /\ query' = [todo |-> query.todo \ {"findMany"}, data |-> data,
                       count |-> query.count]
          /\ UNCHANGED <<page, shown, total, repeated, split>>
      BY <2>1, <2>4 DEF Read
    <3>2. query'.data = data /\ query'.count = query.count /\ "findMany" \notin query'.todo
          /\ query'.todo \subseteq query.todo
      BY <3>1
    <3>3. ListsTypeOK'
      BY <1>0, <1>1, <2>1, <3>1, <3>2 DEF ListsTypeOK, Row
    <3>4. AfterPage' = AfterPage
      BY <1>1, <3>1 DEF AfterPage
    <3>5. DataOK'
      BY <1>1, <2>2, <3>1, <3>2, <3>4 DEF DataOK, Behind, Again
    <3>6. CountOK'
      BY <3>2 DEF CountOK
    <3> QED
      BY <1>3, <2>1, <2>4, <3>3, <3>5, <3>6
  <2> QED
    BY <2>3, <2>4
<1>6. CASE Count
  <2> DEFINE count == Cardinality(matching)
  <2>1. /\ Read("count", query.data, count) /\ "count" \in Reads
        /\ query.data \in SUBSET Row
    BY <1>0, <1>6 DEF Count, Reads, ListsTypeOK
  <2>2. count \in Nat
    BY <1>0, FS_CardinalityType DEF Finite
  <2> HIDE DEF count
  <2>3. CASE query.todo = {"count"}
    <3>1. /\ Cardinality(Behind(shown \cup query.data, AfterPage)) <= exits
          /\ Cardinality(Again(repeated \cup (shown \cap query.data),
                               shown \cup query.data, AfterPage)) <= joined
      BY <2>3 DEF ListsInv, DataOK
    <3>2. Cardinality(matching) <= count
      BY <2>2 DEF count
    <3> QED
      BY <1>4, <2>1, <2>2, <2>3, <3>1, <3>2
  <2>4. CASE query.todo # {"count"}
    <3>1. /\ query' = [todo |-> query.todo \ {"count"}, data |-> query.data, count |-> count]
          /\ UNCHANGED <<page, shown, total, repeated, split>>
      BY <2>1, <2>4 DEF Read
    <3>2. query'.data = query.data /\ query'.count = count /\ "count" \notin query'.todo
          /\ query'.todo \subseteq query.todo
      BY <3>1
    <3>3. ListsTypeOK'
      BY <1>0, <1>1, <2>1, <2>2, <3>1, <3>2 DEF ListsTypeOK, Row
    <3>4. DataOK'
      BY <3>2 DEF DataOK
    <3>5. CountOK'
      BY <1>1, <2>2, <3>1, <3>2 DEF CountOK, count
    <3> QED
      BY <1>3, <2>1, <2>4, <3>3, <3>4, <3>5
  <2> QED
    BY <2>3, <2>4
<1> QED
  BY <1>2, <1>5, <1>6

\* The invariant holds when a client begins, and every step keeps it.
LEMMA ListsHold == ListsSpec => []ListsInv
<1>1. ASSUME ListsInit
      PROVE  ListsInv
  <2>1. ListsTypeOK
    <3>1. query.todo = {} /\ query.data = {} /\ query.count = 0
      BY <1>1 DEF ListsInit, NoQuery
    <3>2. rows \in Nat /\ matching \subseteq Row /\ page \in Nat \ {0}
      BY <1>1, ListAssumption DEF ListsInit
    <3>3. split \in BOOLEAN /\ joined \in Nat /\ exits \in Nat /\ total \in Nat
      BY <1>1 DEF ListsInit
    <3> QED
      BY <1>1, <3>1, <3>2, <3>3 DEF ListsInit, ListsTypeOK
  <2>2. ShownOK
    <3>0. Finite(matching) /\ stayed = matching /\ shown = {} /\ repeated = {}
          /\ BeforePage = 0 /\ joined = 0 /\ exits = 0
      BY <1>1, <2>1, ListTypes DEF ListsInit, BeforePage
    <3>1. Behind(shown, BeforePage) = {}
      <4>1. \A r \in stayed : Rank(matching, r) \in Nat
        BY <3>0, RankType DEF Finite
      <4> QED
        BY <3>0, <4>1 DEF Behind, Skipped
    <3>2. Again(repeated, shown, BeforePage) = {}
      BY <3>0 DEF Again, Pushed
    <3> QED
      BY <3>0, <3>1, <3>2, FS_EmptySet DEF ShownOK
  <2>3. DataOK /\ CountOK
    BY <1>1 DEF ListsInit, DataOK, CountOK, NoQuery
  <2>4. EachExitHidesOne
    BY <1>1 DEF ListsInit, EachExitHidesOne, Done
  <2> QED
    BY <2>1, <2>2, <2>3, <2>4 DEF ListsInv
<1>2. ASSUME ListsInv, [ListsNext]_listVars
      PROVE  ListsInv'
  <2>0. ListsTypeOK /\ rows \in Nat /\ matching \subseteq Row
    BY <1>2, ListTypes DEF ListsInv
  <2>1. CASE GetPage \/ FindMany \/ Count \/ CallLost
    BY <1>2, <2>1, CallKeeps
  <2>2. CASE Create
    <3>1. CASE Join(rows + 1)
      <4>1. rows' \in Nat /\ rows <= rows' /\ rows + 1 \in 1..rows'
        BY <2>0, <2>2 DEF Create
      <4>2. rows + 1 \in Nat \ matching
        BY <2>0 DEF Row
      <4> QED
        BY <1>2, <3>1, <4>1, <4>2, JoinKeeps
    <3>2. CASE UNCHANGED <<matching, where, limit, clientVars, stayed, joined, exits, split>>
      <4>1. ListsTypeOK'
        <5>1. Row \subseteq Row'
          BY <2>0, <2>2 DEF Create, Row
        <5> QED
          BY <2>0, <2>2, <3>2, <5>1 DEF Create, ListsTypeOK, clientVars
      <4> QED
        BY <1>2, <3>2, <4>1 DEF ListsInv, ShownOK, DataOK, CountOK, EachExitHidesOne, Done,
           Behind, Again, BeforePage, AfterPage, clientVars
    <3> QED
      BY <2>2, <3>1, <3>2 DEF Create
  <2>3. ASSUME NEW r \in Row, Enter(r)
        PROVE  ListsInv'
    <3>1. r \in Nat \ matching /\ rows' = rows /\ r \in 1..rows' /\ Join(r)
      BY <2>0, <2>3 DEF Enter, Row
    <3> QED
      BY <1>2, <2>0, <3>1, JoinKeeps
  <2>4. ASSUME NEW r \in Row, Leave(r)
        PROVE  ListsInv'
    <3>1. r \in matching
      BY <2>4 DEF Leave
    <3> QED
      BY <1>2, <2>4, <3>1, LeaveKeeps
  <2>5. CASE UNCHANGED listVars
    BY <1>2, <2>5 DEF ListsInv, ListsTypeOK, ShownOK, DataOK, CountOK, EachExitHidesOne, Done,
       Behind, Again, BeforePage, AfterPage, Row, listVars, tableVars, clientVars
  <2> QED
    BY <1>2, <2>1, <2>2, <2>3, <2>4, <2>5 DEF ListsNext, ServeLists
<1> QED
  BY <1>1, <1>2, PTL DEF ListsSpec

\* Whatever its filter, its page size and the changes meanwhile, a client that
\* pages to the end misses at most one row for each row that left the list.
THEOREM ExitsHideOneEach == ListsSpec => []EachExitHidesOne
<1>1. ListsInv => EachExitHidesOne
  BY DEF ListsInv
<1> QED
  BY ListsHold, <1>1, PTL

\* And it gets at most one row again for each row that joined.
THEOREM EntriesRepeatOneEach == ListsSpec => []EachEntryRepeatsOne
<1>1. ASSUME ListsInv
      PROVE  EachEntryRepeatsOne
  <2>1. /\ Finite(matching) /\ IsFiniteSet(repeated) /\ joined \in Nat
    BY <1>1, ListTypes DEF ListsInv, ListsTypeOK
  <2>2. IsFiniteSet(Again(repeated, shown, BeforePage))
    BY <2>1, PushedFinite DEF Again
  <2>3. repeated \in SUBSET Again(repeated, shown, BeforePage)
    BY DEF Again, Pushed
  <2>4. Cardinality(repeated) <= Cardinality(Again(repeated, shown, BeforePage))
    BY <2>2, <2>3, FS_Subset
  <2>5. Cardinality(repeated) \in Nat
        /\ Cardinality(Again(repeated, shown, BeforePage)) \in Nat
    BY <2>1, <2>2, FS_CardinalityType
  <2>6. Cardinality(Again(repeated, shown, BeforePage)) <= joined
    BY <1>1 DEF ListsInv, ShownOK
  <2> QED
    BY <2>1, <2>4, <2>5, <2>6 DEF EachEntryRepeatsOne
<1> QED
  BY ListsHold, <1>1, PTL

-----------------------------------------------------------------------------
\* The server, too, takes steps of Listings only.
LEMMA ServerRunsLists == ServerSpec => ListsSpec
<1>1. ServerInit => ListsInit
  BY DEF ServerInit
<1>2. [ServerNext]_serverVars => [ListsNext]_listVars
  BY DEF ServerNext, serverVars, ForPricing, ForOrders, ForAccounts, ForLists, CodeExpires,
         RestartServer, LoseRedisData, ListsNext
<1> QED
  BY <1>1, <1>2, PTL DEF ServerSpec, ListsSpec

\* So lists keep to their two numbers on the server that restarts under them.
THEOREM ServerListsWell == ServerSpec => [](EachExitHidesOne /\ EachEntryRepeatsOne)
BY ServerRunsLists, ExitsHideOneEach, EntriesRepeatOneEach, PTL

\* All that the server keeps is of its type, whatever runs, fails or restarts.
THEOREM ServerTypeCorrect == ServerSpec => []ServerTypeOK
<1>1. QuoteInv => QuotesTypeOK
  BY DEF QuoteInv
<1>2. ListsInv => ListsTypeOK
  BY DEF ListsInv
<1>3. TypeOK /\ QuotesTypeOK /\ AccountsTypeOK /\ ListsTypeOK => ServerTypeOK
  BY DEF ServerTypeOK
<1>4. ServerSpec => []TypeOK
  BY ServerRunsPricing, PricesTypeCorrect, PTL
<1>5. ServerSpec => []AccountsTypeOK
  BY ServerRunsAccounts, TypeCorrect, PTL
<1>6. ServerSpec => []ListsInv
  BY ServerRunsLists, ListsHold, PTL
<1> QED
  BY <1>1, <1>2, <1>3, <1>4, <1>5, <1>6, QuotesHold, PTL

=============================================================================
