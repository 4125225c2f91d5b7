------------------------------- MODULE Pricing -------------------------------
(***************************************************************************)
(* The pricing values an admin sets: AdminService.updatePricing writes each*)
(* one to Redis and to the AppConfig table (all writes at once, in a       *)
(* Promise.all), seedDefaultPricing fills Redis when the server boots, and *)
(* createOrder and getPricing read Redis.                                  *)
(*                                                                         *)
(* One server: it takes requests only once the seeding is done.            *)
(***************************************************************************)
EXTENDS Naturals, FiniteSets

CONSTANTS
    Key,            \* "baseFare", "perKmRate", "surgeMultiplier"
    Value,
    Absent,
    Default,        \* [Key -> Value]: PRICING_DEFAULTS
    Proc,           \* slots for calls of updatePricing
    NoKey,
    MaxUpdates,     \* bound: calls of updatePricing
    MaxRestarts,    \* bound: restarts of the server
    MaxLosses,      \* bound: times Redis loses its data
    MaxFailures     \* bound: writes of updatePricing that throw

ASSUME KeyAssumption == IsFiniteSet(Key) /\ NoKey \notin Key
ASSUME ValueAssumption == Absent \notin Value
ASSUME DefaultAssumption == Default \in [Key -> Value]
ASSUME BoundAssumption ==
    {MaxUpdates, MaxRestarts, MaxLosses, MaxFailures} \subseteq Nat

VARIABLES
    redis,      \* config:<key> in Redis
    appConfig,  \* the AppConfig table
    task,       \* per slot: the value given for each key, and the writes to do
    seeding,    \* the keys the boot has still to look at; {} once the server is up
    seedKey,    \* the key seeding has found absent in Redis and asked AppConfig for
    seedValue,  \* what AppConfig answered
    lost,       \* history: Redis has lost data since the server started to boot
    torn,       \* history: keys with two updates at once, or one that failed
                \* in part or was cut short
    updates, restarts, losses, failures   \* counted against the bounds

storeVars == <<redis, appConfig>>
seedVars == <<seeding, seedKey, seedValue>>
boundVars == <<updates, restarts, losses, failures>>
vars == <<storeVars, task, seedVars, lost, torn, boundVars>>

-----------------------------------------------------------------------------
Write == {"redis", "db"} \X Key

Idle == [dto |-> [k \in Key |-> Absent], todo |-> {}]

Task == [dto : [Key -> Value \cup {Absent}], todo : SUBSET Write]

Up == seeding = {}
InFlight(k) == \E p \in Proc, store \in {"redis", "db"} : <<store, k>> \in task[p].todo

-----------------------------------------------------------------------------
(* updatePricing.                                                          *)

\* Mutant of WritesOf: a key that the request leaves out is written, too.
WritesOfAll(dto) == IF \E k \in Key : dto[k] # Absent THEN {"redis", "db"} \X Key
                                                      ELSE {}

\* two writes for each key that the request names
WritesOf(dto) == {"redis", "db"} \X {k \in Key : dto[k] # Absent}

UpdatePricing(p, dto) ==
    /\ Up
    /\ task[p].todo = {}
    /\ updates < MaxUpdates
    /\ WritesOf(dto) # {}
    /\ task' = [task EXCEPT ![p] = [dto |-> dto, todo |-> WritesOf(dto)]]
    /\ torn' = torn \cup {k \in Key : dto[k] # Absent /\ InFlight(k)}
    /\ updates' = updates + 1
    /\ UNCHANGED <<storeVars, seedVars, lost, restarts, losses, failures>>

SetRedis(p, k) ==
    /\ <<"redis", k>> \in task[p].todo
    /\ redis' = [redis EXCEPT ![k] = task[p].dto[k]]
    /\ task' = [task EXCEPT ![p].todo = @ \ {<<"redis", k>>}]
    /\ UNCHANGED <<appConfig, seedVars, lost, torn, boundVars>>

UpsertConfig(p, k) ==
    /\ <<"db", k>> \in task[p].todo
    /\ appConfig' = [appConfig EXCEPT ![k] = task[p].dto[k]]
    /\ task' = [task EXCEPT ![p].todo = @ \ {<<"db", k>>}]
    /\ UNCHANGED <<redis, seedVars, lost, torn, boundVars>>

\* One of the writes throws, and the call answers 500; Promise.all stops none of
\* the others and takes none back.
FailWrite(p, w) ==
    /\ w \in task[p].todo
    /\ failures < MaxFailures
    /\ failures' = failures + 1
    /\ task' = [task EXCEPT ![p].todo = @ \ {w}]
    /\ torn' = torn \cup {w[2]}
    /\ UNCHANGED <<storeVars, seedVars, lost, updates, restarts, losses>>

-----------------------------------------------------------------------------
(* seedDefaultPricing, one key after the other.                            *)

\* the key is there, and left as it is
SeedSkip(k) ==
    /\ k \in seeding
    /\ seedKey = NoKey
    /\ redis[k] # Absent
    /\ seeding' = seeding \ {k}
    /\ UNCHANGED <<storeVars, task, seedKey, seedValue, lost, torn, boundVars>>

\* Mutant of SeedLookUp: AppConfig is not asked.
SeedDefaultOnly(k) ==
    /\ k \in seeding
    /\ seedKey = NoKey
    /\ redis[k] = Absent
    /\ seedKey' = k
    /\ seedValue' = Default[k]
    /\ UNCHANGED <<storeVars, task, seeding, lost, torn, boundVars>>

\* the key is absent: the value is the one of AppConfig, else the default
SeedLookUp(k) ==
    /\ k \in seeding
    /\ seedKey = NoKey
    /\ redis[k] = Absent
    /\ seedKey' = k
    /\ seedValue' = IF appConfig[k] = Absent THEN Default[k] ELSE appConfig[k]
    /\ UNCHANGED <<storeVars, task, seeding, lost, torn, boundVars>>

SeedSet ==
    /\ seedKey # NoKey
    /\ redis' = [redis EXCEPT ![seedKey] = seedValue]
    /\ seeding' = seeding \ {seedKey}
    /\ seedKey' = NoKey
    /\ seedValue' = Absent
    /\ UNCHANGED <<appConfig, task, lost, torn, boundVars>>

-----------------------------------------------------------------------------
(* Restarts and the loss of Redis.                                         *)

Restart ==
    /\ restarts < MaxRestarts
    /\ torn' = torn \cup {k \in Key : InFlight(k)}
    /\ restarts' = restarts + 1
    /\ task' = [p \in Proc |-> Idle]
    /\ seeding' = Key
    /\ seedKey' = NoKey
    /\ seedValue' = Absent
    /\ lost' = FALSE
    /\ UNCHANGED <<storeVars, updates, losses, failures>>

LoseRedis ==
    /\ losses < MaxLosses
    /\ losses' = losses + 1
    /\ redis' = [k \in Key |-> Absent]
    /\ lost' = TRUE
    /\ UNCHANGED <<appConfig, task, seedVars, torn, updates, restarts, failures>>

-----------------------------------------------------------------------------
Init ==
    /\ redis = [k \in Key |-> Absent]
    /\ appConfig = [k \in Key |-> Absent]
    /\ task = [p \in Proc |-> Idle]
    /\ seeding = Key
    /\ seedKey = NoKey
    /\ seedValue = Absent
    /\ lost = FALSE
    /\ torn = {}
    /\ updates = 0
    /\ restarts = 0
    /\ losses = 0
    /\ failures = 0

SeedDefaultPricing == SeedSet \/ \E k \in Key : SeedSkip(k) \/ SeedLookUp(k)

\* what the server does for pricing, at its boot and when it is up
ServePricing ==
    \/ \E p \in Proc, dto \in [Key -> Value \cup {Absent}] : UpdatePricing(p, dto)
    \/ \E p \in Proc, k \in Key : SetRedis(p, k) \/ UpsertConfig(p, k)
    \/ \E p \in Proc, w \in Write : FailWrite(p, w)
    \/ SeedDefaultPricing

Next == ServePricing \/ Restart \/ LoseRedis

Spec == Init /\ [][Next]_vars

-----------------------------------------------------------------------------
(* What pricing keeps to.                                                  *)

TypeOK ==
    /\ redis \in [Key -> Value \cup {Absent}]
    /\ appConfig \in [Key -> Value \cup {Absent}]
    /\ task \in [Proc -> Task]
    /\ \A p \in Proc : \A w \in task[p].todo : task[p].dto[w[2]] \in Value
    /\ seeding \subseteq Key /\ seedKey \in Key \cup {NoKey}
    /\ seedValue \in Value \cup {Absent}
    /\ lost \in BOOLEAN
    /\ torn \subseteq Key
    /\ updates \in 0..MaxUpdates
    /\ restarts \in 0..MaxRestarts
    /\ losses \in 0..MaxLosses
    /\ failures \in 0..MaxFailures

\* What createOrder and getPricing see of a key: Redis, else the default.
Served(k) == IF redis[k] = Absent THEN Default[k] ELSE redis[k]

\* README: the values persist across restarts.  When the server is up and Redis
\* has kept its data since the boot, an order is priced with the value that an
\* admin set last, wherever restarts and losses of Redis fell; except for a key
\* that has had two updates at once, or one that a restart cut short or of
\* whose two writes one threw: no code compares the two stores.
PricesPersist ==
    Up /\ ~lost =>
        \A k \in Key \ torn :
            appConfig[k] # Absent /\ ~InFlight(k) => Served(k) = appConfig[k]

\* Once the server takes requests every key has a value in Redis, whatever part
\* of the seeding an earlier boot had done; only Redis can take it away again.
SeedFillsRedis == Up /\ ~lost => \A k \in Key : redis[k] # Absent

=============================================================================
