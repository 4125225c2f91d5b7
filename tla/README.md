# Fairr Ride in TLA+

Fairr Ride is a delivery platform: a NestJS server (`src/backend/src`) over Postgres
(Prisma), Redis and a BullMQ queue, with sockets, two payment gateways and a frontend
that is still a scaffold. The repository's own tests only check a "Hello World" route.
This directory holds TLA+ modules of the server's core logic, TLC configurations that
model-check them on small instances, and proofs for TLAPS of what can be proved for every
instance.

Node runs one handler at a time until its next `await`. Everything hard about this code
comes from what happens *between* two awaits of a handler: another handler, a job of the
queue, a repeated webhook, a timer, a failure. So all modules share one convention:

* an action is the stretch of a handler from one `await` to the next;
* what a handler remembers over an await is a record in the variable `task`, one per slot;
  a slot is a handler in flight, and `Cardinality(Proc)` is how many overlap;
* the first read of a handler is part of the action that starts it (before it, the handler
  has done nothing that anybody can see);
* `Promise.all` of several writes is *not* a transaction here: its writes are a set
  (`todo`) from which any one may land next, or fail while the others land.

## 1. Inventory

| Component (under `src/backend/src`) | State | Operations | Talks to |
|---|---|---|---|
| `matching/` service, BullMQ processor, gateway | Redis: `match:<order>:candidates` (300 s), `match:<order>:<rider>` (30 s); delayed jobs `rider-timeout`; `Order.status`, `Order.riderId` | `findMatch`, `requestRider`, `riderAccepted`, `riderRejected`, worker | orders, notifications, sockets |
| `orders/` | `Order` rows | create (distance, price, row), cancel, lists, (status update: no caller) | matching, maps, pricing in Redis |
| `payments/` with Paystack and OPay | `Payment` row, `Order.paymentStatus`, `RiderProfile.walletBalance` | initiate, two webhooks, cash confirmation, `splitAndCredit` | gateways, subscriptions |
| `subscriptions/` service and cron job | `Subscription` rows, `RiderProfile.commissionModel` | subscribe, cancel, expire hourly, admin update | payments (rate), gateway |
| `admin/` | `Payout`, `AppConfig`, promos, disputes, any order | override status, reassign, payout, finance summary, pricing, verify riders, resolve disputes, paged lists | all of them |
| `auth/` | one-time codes in Redis (600 s), `User`, tokens | request and verify a code; the role check of every call | sms |
| `chat/` gateway, service, controller | `ChatMessage` and `CallLog` rows, rooms `chat:<order>` and `admin:chat` | connect, join with history, leave, send, log a call | orders |
| `tracking/` with `matching/` gateway | `GpsLog` rows, `RiderProfile` position, the map of sockets, rooms `order:<order>` | connect, disconnect, join, location update, ETA | orders, matching |
| `notifications/` | `Notification` rows, push tokens | a trigger map over events | all of them |
| `riders/`, `users/` | `RiderProfile`, `User.status`, `BusinessAccount`, addresses | profile, KYC papers, verification, online flag, business account; single-row CRUD | admin, matching (who is selected) |
| `redis/`, `prisma/`, `sms/`, `orders/maps` | the stores and external services | get/set/del, queries, calls | |
| `src/frontend` | a store, an API client, a socket client | pages without logic | |

What makes each one correct, and what makes that hard:

* **Matching.** One rider is asked at a time, in the order of the ranking; an unanswered
  offer is closed and the next rider asked; the customer hears something in the end. Hard:
  a rider's answer, the timeout of the same offer and stale timeouts of earlier offers read
  and write one list; a chain of offers lives only in the delayed jobs.
* **Orders.** Status transitions respect who may do what; a cancelled order stays cancelled.
  Hard: checks and writes are two awaits, and four components write the status.
* **Payments.** An order is settled once, to one rider, and wallet, `Payment` row and status
  tell one story. Hard: webhooks repeat and overlap; three writes without a transaction;
  the order is read twice, with a reassignment in between.
* **Subscriptions.** One active subscription per user, and the rider's commission model
  follows it. Hard: two tables, two writes, a job that writes what it selected earlier.
* **Pricing.** What an admin set is charged, also after restarts. Hard: two stores written
  in parallel, a boot that fills one from the other, and orders that read while updates run.
* **Chat.** A client in a room has every message of the order, and only its parties have them.
  Hard: a join reads the order, then the history, and enters the room last; a message is
  stored first and emitted later; the order changes hands, sockets close, the process ends.
* **Tracking.** The customer sees where the rider is, and nothing that was not logged. Hard:
  old connections are noticed as gone after new ones were made; an update is three awaits,
  two of them writes in parallel; updates overlap.
* **Notifications.** Whoever an event concerns is told, once, and nobody else; a push announces
  what is in the list. Hard: nobody waits for a notification, so the order is read after it
  may have changed hands; two sends run side by side, and one may fail.
* **Auth.** A code signs its phone in once; account, tokens, profile and business name one role.
  Hard: the code is looked up, deleted, and the account looked up and created in four awaits,
  with expiry, failures and other verifications in between.
* **Riders.** Who is VERIFIED rides with papers an admin has judged. Hard: an admin's look at the
  papers, the check of his verdict and its write are apart, and papers may come in between.
* **Lists.** Ten routes answer page by page. Who pages to the end sees every row that stayed on the
  list, as far as the changes meanwhile allow. Hard: a page and the total are two queries, and
  rows that join or leave shift the offset of the next page.

## 2. Modules

| Module | Models | Notes |
|---|---|---|
| `Dispatch` | `createOrder`, `findMatch`, `requestRider`, `riderAccepted`, `riderRejected`, the `rider-timeout` worker, `cancelOrder`, `overrideOrderStatus`, `reassignOrder`, `changeRiderFleet` | detailed, await by await |
| `Offers` | what dispatch promises: riders are asked in turn, each once the one before has refused or let the offer lapse, until one takes the order or none is left | abstract |
| `Ledger` | what settling promises: one settlement per order, payouts (of any amount, as nothing checks it) covered by the balance | abstract |
| `Settlement` | `initiatePayment`, both webhooks, `confirmCashPayment`, `splitAndCredit`, `processPayout`, `getFinanceSummary`, the gateways as an environment | detailed; implements `Ledger` |
| `Subscriptions` | `subscribe`, `cancelSubscription`, `checkAndExpireSubscriptions`, `adminUpdateSubscription` | detailed |
| `Pricing` | `updatePricing`, `seedDefaultPricing` at boot, `getPricing` | detailed |
| `Quotes` | `createOrder` up to the row it creates: distance, pricing values, look-ups | detailed; extends `Pricing` |
| `Chat` | `ChatGateway`, `ChatService`, the call log of `ChatController` | detailed |
| `Tracking` | `MatchingGateway`'s sockets and rooms, `logLocation`, `updateRiderLocation` | detailed |
| `Notices` | `sendOrderNotification`, `send`, the marks as read, `updateFcmToken`, the events of the other services | detailed |
| `Accounts` | `requestOtp`, `verifyOtp`, the role check, `RidersService`, business accounts, what an admin does to accounts and profiles | detailed |
| `Listings` | the ten paged lists, their client, and the writes that move rows in and out | detailed |
| `Server` | `Pricing`, `Quotes`, `Accounts` and `Listings` on one process and one Redis | composes them |
| `MC*` | instances for TLC: symmetry sets, functions for constants | |
| `*Proofs` | theorems and proofs | |

### Dispatch

`status`, `riderId`, `isPremium` are columns of `Order`. `offer[o][r]` is the countdown of the
Redis key of an offer (0: no key), `candidates[o]` and `listTtl[o]` the shortlist and its time
to live, `timeouts[o][r][d]` how many `rider-timeout` jobs have delay `d` left. One clock ticks
for Redis and BullMQ. The SQL search returns *any* set of riders and the sort *any* order of it
(acceptance statistics are not modelled); the FLEET filter for premium orders is kept. `fleet` is
who has that `riderType` now, and `ChangeRiderFleet` is the admin who changes it, at any moment.
`FindRiders`, `StoreCandidates`, `SetOffer`, `EmitJobRequest`, `AddTimeout` are the awaits of
`findMatch` and `requestRider`; `Accept*` those of `riderAccepted`; `Reject*` and `Exhaust*`
those of `riderRejected`, which a rider (`Reject`) or the worker (`WorkerTakes`) starts. `Fail`
makes an await throw (a job is not retried: `attempts` is 1), `Crash` kills the process: Redis,
Postgres and the queue stay, and BullMQ runs the active job again (`task[p].job` is the rider
that job is for, `NoRider` when a request started the handler). History variables record what
was sent, the fleet when `findMatch` looked (`fleetThen`), `disturbed` the orders hit by a fault,
and `overlapped` the orders two of whose handlers were at work at once; an order in neither is
`Alone(o)`. The instance still has two slots, so that a handler of such an order runs into
everything else: late answers, stale jobs, admin writes.

Any rider accepts or rejects any order at any time: nobody checks that he was asked. Without a key
`riderAccepted` returns, whoever calls. A rejection by a rider who is on the list but whose turn has
not come is carried out like any other: it cuts the list behind him and asks the next one, while
the rider before him still holds the offer. Such orders are `skipped`, and what holds only when they
are set aside is stated of `Orderly(o)`: alone and not skipped.

`Offers` forgets keys, jobs and handlers. Its `queue` is the riders who are still to be asked or
were asked last, its `holder` the one whose answer is awaited, its `taker` who has the order; a
rider is asked, again or for the first time, only at the head of the queue and while nobody else
holds the offer, and no step forgets the queue. `Dispatch` implements it (`OffersInTurn`) for
orders that are not `loose`: handlers that met or failed, a rider who refused before his turn, or
an admin who reassigned. The mapping
chooses the await at which each answer counts: an accept when it has deleted its key, a
rejection when it has read the list. The awaits of `requestRider` are stutters but for
`SetOffer`; a stale timeout, which finds a list without its rider, is `AskFirst` again. `Ends`
is the liveness half (every queue comes to its end) and `Safety` the rest. In the mapping
`Queue(o)` is the list in Redis, or what a handler that has read it holds, or empty once an accept
has deleted its key; `Holder(o)` the rider with an open offer; `Taker(o)` the rider of the row, or
of the accept under way. Where a mapping names "the" handler it chooses one: of an order that is
not loose there is one at most.

### Settlement and Ledger

Prices are whole naira (`createOrder` rounds) and rates 15 or 5 percent, so amounts are exact in
kobo and `Math.round` does nothing. `links` and `charges` are the gateway: a customer pays
through a link once, and the event of a charge is delivered any number of times. The handlers
follow the code: `Begin` (read and check), `NoteReference` (the webhook's upsert of an empty
row), `ReadRate` (subscription of the rider read *first*), `ReadAgain` (order read again: the
rider who is credited), then the writes of `splitAndCredit` in any order. `Assign` and
`ToggleSubscription` are the rest of the system as payments see it. A payout may be of any
integer amount: `processPayout` compares it with the balance and nothing else, so zero and less
pass. `FinanceSummary` is the admin's aggregate, which sums a `Column` of the rows at a time;
`WalletsMatchBooks` compares it with the wallets and the captured orders.

`Ledger` has two variables, who is settled and what is owed. The refinement mapping undoes
the writes of a `Promise.all` that is still in flight: an order counts as settled, and a
balance as changed, when the last write lands (`EarlyCredit`, `EarlyDebit`). It undoes the writes
of one handler, the `Payer` of a rider, for the implementation is claimed of handlers that run one
at a time.

### Subscriptions

A row of `sub` holds user, whether `riderId` is set, status and end date. A subscription is
`ACTIVE` before it is paid, as in the code. The cron job is a slot of its own (`Cron`: one job
at a time); its first action reads the lapsed rows, its second writes their status by id, its
third resets the models. Handlers of users, of the admin and of the job interleave. The history
variable `calm` says that no two handlers have overlapped, none has failed, no admin has written
to a row that was over and no rider has named a model (`NameModel`, the one write of `riders/`
to that column): the condition of `ModelFollowsPlan` and `OneActive`.

### Pricing

`redis` and `appConfig` map each key to a value or `Absent`. `updatePricing` writes two entries
per key of the request, all at once: each lands (`SetRedis`, `UpsertConfig`) or throws
(`FailWrite`), which stops none of the others. At boot `seeding` holds the keys still to look at
(the server listens only after `onModuleInit`, so `UpdatePricing` needs `seeding = {}`). One
server is assumed. The history variable `torn` collects keys with two updates at once, or one
that a restart cut short or of whose writes one threw; `lost` says that Redis lost its data
since the boot.

### Quotes

`quote` is one call of `createOrder`: it has the distance to get (`GetDistance`: measured,
mocked, or an exception), then the values to read, all at once (`ReadRate` in any order), then
two look-ups and the row (`QuoteEnds`, which is also any exception on the way). `fair` is
history: for each key the values that were posted when the reads began, or were posted since. A
value counts as posted when AppConfig has it last, and while an update is under way both the
value served and the new one do. The price itself is arithmetic on these values and is left out;
the finished order goes on in `Dispatch` and `Notices`.

### Listings

A row is its number in the order of creation, `matching` the rows that the filter lets through,
`where` the columns that the filter names (`Where` has those of all ten lists). `Create`,
`Enter` and `Leave` are what other calls do; a list whose filter names no column that changes
never loses a row. A call for a page is two reads that land in either order (`FindMany`,
`Count`), after either of which the other may see a changed table; the client asks for the next
page as long as the total it got last says that there is one, and asks again when a call is
lost.

### Chat

`row` is the two tables, `chatRoom` and `adminRoom` the rooms of socket.io, `userId` the user of
a socket (a connection without a valid token is closed at once and is no action). A socket that
closes leaves its rooms, but a handler it started goes on: `EnterRoom` then joins nothing.
`JoinOrderChat`, `ReadHistory`, `EnterRoom` are the awaits of a join; `SendMessage` or `LogCall`,
`CreateRow`, `Emit` those of a message or a call. `Assign` and `SetStatus` are the rest of the
system. `seen` is what a client has got; `lost`, `before` and `gap` say of a row a client has not
got why: its handler failed, the client came later, or it fell between history and join.

### Tracking

`socketMap` is the `Map` of the gateway, `orderRoom` the rooms, `gpsLog` and `position` what is
stored; positions are numbered as they are reported. `LocationUpdate`, `UpdateRiderLocation`,
`LogLocation` (one write of `Promise.all` lands) and `EmitRiderLocation` are the awaits of an
update. A rider names any order id; one that is of no order (outside `Placed`) makes `logLocation`
return before it writes, and the gateway emits to its room all the same: such an id has a room and
no trail. `WriteFails` ends the handler while its other write may still land. `EmitOrderAssigned`
is what `riderAccepted` calls; only the customer's socket joins (section 5). `newest`, `joined`
and `marker` are history: the last socket of a user, the one there was at the assignment, and
what a client shows. `overlapped` are the orders two of whose updates met, or one failed.

### Notices

An event (`Place`, `Assign`, `CancelOrder`, `FindNobody`, `Capture`, `Expire`) starts a call in a
slot: `happened` remembers what it is about and who was concerned. Until `ReadOrder` the order may
change hands (`Assign`, or `Reassign`, which tells nobody): `moved`. The switch of the code is
`TellOwner` and `TellRider`; each send in `todo` goes on by itself through `CreateRow`, `ReadToken`
and `SendFcm`. `FailToRead` is the `.catch(() => null)` of the callers, `FailToSend` the
`allSettled`; `lost` collects whom a fault kept from being told. A row is named by its call and the
role of its receiver, which leaves out wording, titles and amounts.

### Accounts and Server

A phone stands for its user (`User.phone` is unique). `code[ph]` is the Redis key `otp:<phone>`,
a code is the number of the request that made it (two requests never draw the same six digits
here), `texted` what reached the phone. `running` holds one record per write under way, with
what its handler has read or its caller has seen: the code for `verifyOtp`, the papers for a
verdict. `verifyRider` starts two (its `Promise.all`), and either may fail alone.
`RequestOtp`/`SendOtp`, `VerifyOtp`/`DelCode`/`FindUser` or `FindNobody`/`CreateUser` are the
awaits of AuthService; `EnsureProfile` is the upsert every rider's call begins with; `Write*`
are the updates. `SignedInAs` is JwtStrategy with RolesGuard: the role the user *has*, not the
one in the token. `business` is the table `BusinessAccount`, `inReview` the users whose details
`upsertBusinessAccount` has written; its second write may fail and leave the first. An admin is
not an account of the model. A verdict is about papers its admin was shown by an earlier read
(`getRiderDetail` and the lists): any that the profile has had, the newest or not
(`MayHaveSeen`). The request does not name them, so its write is for whatever the profile has by
then. `judged`, `unseen` and `overlapped` are history: the papers the last verdict was about,
the phones whose profile had others when it was written, and the phones two of whose handlers
met.

`Server` joins the components that a restart and a loss of Redis hit together: a restart cuts the
handlers of all and seeds the prices again before any call is taken. Orders (with pricing), accounts
and lists write different keys and tables, so one behaviour of the model takes calls for one of them
(`traffic`), and faults for all.

## 3. Runs

Every run ends well within five minutes with two workers.

| Run | Question | Instance | States |
|---|---|---|---|
| `dispatch_concurrent` | With two handlers interleaved: is the ranking followed, the assignee eligible, every offer covered by a timeout, the chain of offers alive, and bounded? Do orders whose handlers did not meet, and that no rider refused before his turn, have one open offer, and a final assignment? | 2 slots, 3 riders (none in the fleet at first, joining and leaving at any time), 2 calls, reassignments, 1 fault, offer 2 ticks, list 3 | 1.34M |
| `dispatch_live` | Does every customer hear an answer? Does dispatch implement `Offers`, its liveness too? | 2 slots, 3 riders (1 in the fleet), 2 calls, offer 2 ticks, list 3, fairness | 318k |
| `dispatch_cancelled` | Is CANCELLED final? **No.** | 1 slot, 1 rider | |
| `settle_serial` | Do wallets, rows and the finance summary agree, and do payments implement `Ledger`, with repeated events, reassignments and payouts? | 1 slot, 2 orders (OPay, cash), 2 riders, 2 payouts of 85, 95, 0 or -10 kobo | 242k |
| `settle_concurrent` | With overlapping deliveries and a fault: is what is captured booked in full, and every charge captured in the end? | 2 slots, 1 card order, 2 links, 1 fault, fairness | 184k |
| `settle_double` | Is an order credited once? **No.** | 2 slots | |
| `settle_unassigned` | Is a captured order credited to somebody? **No.** | 1 slot | |
| `subs_concurrent` | With users, admin and job interleaved and a fault: is nothing expired early, and everything lapsed closed in the end? While calm: does the model follow the table, and has nobody two subscriptions? | 1 slot and the job, 2 users (1 rider), 2 rows, all plans, a week of 1 and a month of 2 ticks, clock to 2, fairness | 272k |
| `server` | Do prices survive restarts, and is an order priced as posted? Does a code sign in once, do account, tokens, profile and business agree, is VERIFIED about papers an admin was shown? What does a client miss, or see twice, that pages through a list? | Pricing: 2 slots, 2 keys, 3 values, 2 updates; one `createOrder` at a time; Accounts: 1 phone, 2 roles, 5 calls, 2 writes under way; lists of up to 4 rows, pages of 1 or 2, 3 changes, a filter of which no column changes and one of which one does; 2 restarts, 1 loss of Redis, 1 write of an update that throws (with orders: in place of a restart and of an update) | 1.79M |
| `chat` | With joins, messages, calls, disconnections, reassignments and a fault interleaved: what do clients miss, and who sees what? | 2 slots, 2 sockets, a customer, 2 riders, an admin, 1 message, 1 fault | 792k |
| `tracking` | Do late disconnections, joins, assignments and overlapping updates leave the newest socket in the map, the customer in the room, and clients with what the trail has? | 2 slots, 3 sockets (2 of the customer, 1 of the rider), one order and one id that is of none, 2 updates, 1 fault | 686k |
| `notices` | With two calls, assignments, users and a fault interleaved: is everybody concerned told, and nobody else? Do pushes announce stored rows? | 2 slots, an order that is placed or not, a customer, 2 riders, 1 device, 2 calls, 1 registration or reader, 1 fault | 1.3M |

**Why the bounds suffice.** Three riders make a list with a head, a middle and an end, so that a
stale timeout, a skip and a re-ask all differ; an offer of two ticks and a list one tick longer
let an answer come before the deadline and after it, with the list there or gone, and a list
that is not renewed expire under its third rider; two calls are a refusal and an acceptance, or
two of either; two slots give every pair of handlers every order of their awaits. Payouts of 85
and 95 kobo are the two amounts a rider can earn from one naira, so a payout may empty a wallet,
leave something, or be refused; zero and -10 are the amounts that nothing refuses. One message
is enough for a gap, for it is either before the read of the history, between read and join, or
after; two updates for one that overtakes the other; three sockets for a user's two tabs and a
rider, and one id that is of no order beside one that is (a socket without a user can only join
rooms, as the others do, and is left to the theorems); two calls, about an order that may exist
before, for an assignment, a cancellation and a capture to overlap in pairs. One restart inside
an update and one inside the seeding are the two ways a boot can be cut short; one write that
throws leaves its key apart for good, and a second would only do the same to another key. Five
calls are a code, a verification, a profile with papers, a verdict, and papers again or a second
sign-in; accounts of two phones share nothing, so one phone is enough, and two writes under way
are a pair of handlers or the two writes of `verifyRider`. Three changes to a list of four rows,
read by pages of one or two, put an exit before, inside and after the pages that were read, and
a row on both of two pages; the theorems have no bounds. Unbounded things are capped by
constants with `Max` in their names, each counted in a variable. Where a cfg says
`CHECK_DEADLOCK FALSE` the system may really stop: all orders are settled, or a bound is used
up.

**Fairness.** Weak fairness of `Step(p)`: an await returns and Node goes on with the handler. Of
`Worker` and `Tick` in Dispatch: BullMQ takes a due job, time passes. Of `Deliver` in
Settlement: the gateways repeat an event until it is acknowledged. Of `Expire` in Subscriptions:
the cron job runs every hour. No user is ever assumed to call. `dispatch_live` also sets
`Prompt`: time passes only while nothing is due, that is, the worker is never so far behind that
the list's 300 s run out first. Without it a customer may wait for ever, and a list may expire
with riders on it. The run has no fault: `CustomerIsAnswered` is about orders that none has hit,
for a fault ends a dispatch (section 5); `dispatch_concurrent` has one.

**Mutants.** Each module holds, before a definition, the form a plausible slip would give it
(a dropped guard, a comparison reversed, a forgotten write), commented `Mutant of`. Each
property of a passing run is violated by one of them.

## 4. Proofs

| Theorem | Says, for every value of the constants |
|---|---|
| `DispatchProofs!TypeCorrect` | every variable of Dispatch keeps its type |
| `DispatchProofs!RankingFollowed` | what is left of a candidate list is a tail of the ranking |
| `DispatchProofs!DispatchNeverStalls` | while riders are left, a job or a handler will move the dispatch on |
| `DispatchProofs!OffersAreCovered` | an open offer has a timeout that outlasts it, or a handler about to add one |
| `DispatchProofs!AssigneesAreEligible` | unless an admin chose the rider, an order goes to a rider who was found for it, a premium one to one who drove for the fleet then; and to one who was asked, if no two handlers of the order met and none failed |
| `DispatchProofs!ChainsStayBounded` | timeouts do not multiply, through overlaps, faults and crashes: jobs and handlers that may add one are no more than the calls made and the creation |
| `DispatchProofs!OffersAreSingle`, `AssignmentsAreFinal` | an order whose handlers never met, and that no rider refused before his turn, has one open offer at most, and the rider who took it keeps it |
| `DispatchProofs!RidersAreAskedInTurn` | with `Prompt`, every step of Dispatch is a step of `Offers` or a stutter, where `Offers` says nothing of orders that are loose: `Dispatched!Safety` |
| `SettlementProofs!TypeCorrect` | rows, counters and handlers' locals keep their types; the two shares of a price are natural numbers |
| `SettlementProofs!CapturedHasRow` | a captured order that no fault touched has a row with its whole price |
| `SettlementProofs!PaymentsKeepTheLedger`, `NobodyIsOverdrawn` | with one handler at a time, no fault and no payment before the assignment (`OneAtATime`), Settlement implements `Ledger`, whatever integers the payouts are, and no balance in the books is negative |
| `SettlementProofs!BooksBalance` | under the same conditions, whenever no handler runs: wallets and payouts add up to what the rows owe riders, the gross of the rows to the prices of captured orders |
| `SubscriptionsProofs!TypeCorrect`, `ExpiryIsNeverEarly` | nothing is closed as EXPIRED before its end |
| `SubscriptionsProofs!NobodySubscribesTwice`, `ModelsFollowPlans` | while calm a user has one ACTIVE row at most, and a rider's commission model is that of the row |
| `ChatProofs!TypeCorrect`, `GapIsAll`, `AdminsHearAll`, `ChatIsForParties` | a client in a room lacks only what fell between history and join; admins lack nothing; only parties and admins see messages |
| `TrackingProofs!TypeCorrect`, `MapIsFresh`, `CustomersAreJoined` | the map holds a user's newest open socket and no closed one; the customer is in the room of an assigned order |
| `TrackingProofs!ShownIsInTrail`, `ClientsAgree` | of an order clients are shown only what is logged, and the end of the trail when updates came one at a time |
| `NoticesProofs!TypeCorrect`, `PartiesHearOfIt`, `ToldTheRightOnes` | who was concerned when an event happened is told and nobody else, unless the order changed hands or the send itself failed |
| `NoticesProofs!PushesAnnounceRows`, `OthersReadNothing` | pushes are of stored rows, on devices of the addressee; nobody marks what is another's |
| `AccountsProofs!TypeCorrect`, `CodesServeOnce`, `VerifiedWasJudged` | a code signs its phone in at most once, unless two handlers of the phone overlapped; VERIFIED is about the papers an admin was shown, whatever overlaps or fails, unless others came in before his verdict was written |
| `AccountsProofs!ServerKeepsAccounts`, `ServerProofs!ServerKeepsPrices` | `Server` keeps what its components keep: its steps are steps of each, or leave it alone |
| `AccountsProofs!RolesAlwaysAgree` | tokens, account, profile and business agree on the role, whatever overlaps or fails |
| `ServerProofs!PricesTypeCorrect`, `SeedingFillsRedis`, `PricesSurvive` | after the boot every key has a value, and one that is not torn (two updates at once, a restart inside one, a write of one that threw) is served as AppConfig has it |
| `ServerProofs!OrdersArePricedAsPosted` | an order is created with values that were in force at some moment of its reads |
| `ServerProofs!ExitsHideOneEach`, `EntriesRepeatOneEach`, `ServerListsWell` | who pages to the end misses no more of the rows that stayed than rows left, and sees no more rows twice than joined |
| `ServerProofs!ServerTypeCorrect` | all that the server keeps is of its type |

They rest on the named assumptions in the modules (sets that are finite, `NoX` that is not
an `X`, time limits with the list outliving the offer), which TLC evaluates in every run.
The bounds (`MaxRequests`, `MaxFaults`, ...) are arbitrary naturals.

Each proof follows one shape: `TypeInv`, which adds to `TypeOK` that a handler's locals fit the
await it is at (`LocalsOK`); then the strengthening of the property; one step per action.

* **RankingFollowed** needs that the list a handler *is about to write* is a tail, too, and
  that an order has one `findMatch` only: tails of tails are tails.
* **DispatchNeverStalls** says which evidence each await leaves behind: the handler that
  takes the last job of an order is itself the evidence, until it has added the next one.
* **OffersAreCovered** is inductive with the types: a job and the key it covers count down
  together, and the worker takes only due jobs, when the key is gone.
* **AssigneesAreEligible** follows the filter of `findMatch` from the ranking (over
  *RankingFollowed*: the head of a tail is one of the ranking) to the rider about to be asked,
  to the riders asked, to the one accepting, and keeps the fleet of that moment, for `fleet` itself
  may change at any step. That the rider was asked does not come from a guard, as there is none: the
  invariant (`AskedOf`) is that a rider with an open offer, or accepting one, was asked unless a
  handler is still between the key and the request, and that handler is then the only one.
  `isPremium` changes only in `createOrder`, when
  nothing is derived from it yet; that is why the invariant speaks of orders without a row.
* **ChainsStayBounded** counts, for an order, the jobs that wait and the handlers that may add one
  (`Links`): a handler that adds a job is done, and the worker's handler takes the place of its
  job, so only the creation and calls raise the sum (`Begun`). A crash gives a job back to the
  queue; that the worker runs one at a time (`WorkerAlone`), and that its handler was a link
  already, keeps the count. A tick maps the jobs before it onto those after it.
* **OffersAreSingle** and **AssignmentsAreFinal** rest on `TurnInv`, about orders whose handlers
  have not met and that nobody refused out of turn: nobody behind the head of the list has been
  asked, an open offer is the head's, and each await works for the rider whose turn it is. A
  late answer or a stale timeout finds its rider gone from the list and asks the head: it opens
  no second offer. Steps that touch other orders are set aside once, for all invariants
  (`TouchingSteps`).
* **RidersAreAskedInTurn** adds `PromptInv`: while the worker keeps up, an offer does not lapse
  while its answer is handled, and the list outlives the job that will pass it on. Then each
  action is shown to be the step of `Offers` it stands for, or to leave `Queue`, `Holder` and
  `Taker` alone.
* **CapturedHasRow.** The status may land before the row, or after a second handler has
  started over. The invariant says, of orders without a fault: a handler that is writing has
  its row still to write or has written it, and a captured order is booked or some handler
  has its row to write. A row once booked stays booked (`BookedStays`): the webhook's empty
  row never replaces one.
* **PaymentsKeepTheLedger** needs of the one handler (`SerialInv`) that it has read a status
  nobody has changed since, and that a payout under way was covered by the wallet (which is all
  that is known of its amount). The first write of a `Promise.all` to land stutters, the last is
  the step of `Ledger`; **NobodyIsOverdrawn** is an invariant of `Ledger`, carried over by the
  mapping.
* **BooksBalance** follows the difference between the two sums: while a handler writes they differ
  by what it has written to one side only (`Ahead`), and an order's row is in place when its
  status is CAPTURED or its handler has written it (`RowKept`). What it needs of sums (a sum is an
  integer; it moves by what one entry moves; sums add) is proved from `FoldFunctionOnSet`'s
  definition. The library's induction takes an operator and cannot be cited, so each of these goes
  by the smallest set, in a well-founded order, of which it would be false.
* **ExpiryIsNeverEarly.** The job's rows had ended when it read them; no step gives an ended
  row a later end: the date `cancelSubscription` took is not ahead of the clock.
* **NobodySubscribesTwice** and **ModelsFollowPlans** rest on `CalmInv`: while calm one handler is
  at work, what it has read is still true (`StillTrue`), and a rider's model agrees with the table
  or is what that handler is about to write.
* **PricesSurvive.** Of a key that is not torn: one call at most writes it, and none of its
  writes threw; the store that call has done already has its value; else Redis has what
  AppConfig has, or nothing; seeding is about to set what AppConfig has.
* **OrdersArePricedAsPosted** rests on *PricesSurvive* and on `FreshOK`, that a key nobody has
  posted is served with its default. `QuoteOK` says of a call that reads: what is served now,
  what is posted and what each running update was given is already among the values in force,
  and so is what it has read.
* **ExitsHideOneEach** ranks the rows: a row that stayed and was not shown, though it is older
  than the rows of the pages before, has had fewer rows newer than it than the page asked for
  supposes. Each exit takes one from the rank of the rows behind it, so the rows hidden are at
  most the exits (`Skipped` bounds them while the client is under way); a row that joins only
  pushes rows back. The last page's total, counted before its rows changed (`split`) or after,
  says that nothing is behind it. **EntriesRepeatOneEach** is the same from the other side:
  `Pushed` rows are those shown whose rank is now that of a page still to come. Both count with
  the library's theorems on finite sets.
* **GapIsAll** carries the promise back from the client in the room to the one about to enter
  it: whatever is emitted after its history was read is in its gap.
* **MapIsFresh** is inductive with the fact that a socket a history variable names has
  connected: a new connection is then none of them, and a disconnection takes only the entry
  that holds the very socket. **CustomersAreJoined** rests on it.
* **ShownIsInTrail** needs that a handler with its write of the trail behind it finds its
  position there, and that a handler with nothing to write works for an id of no order, of which
  the theorem says nothing. **ClientsAgree** says of an order without overlap: its one update is
  newer than its trail, and what a client in the room has not been shown is what that update is
  about to emit; who is not in the room has been shown nothing.

* **ToldTheRightOnes** says of a call that has yet to read its order: the rider of the event still
  has the order, or the call is among the moved. A step that gives the order away moves all such
  calls, so the property passes from the call to its sends and from the sends to the rows.
  **PartiesHearOfIt** follows a party the other way: it has a row, or a call that has not read, or
  a send before its row, or is lost.

* **CodesServeOnce** follows a code: it is stored, or in the hands of a handler, or on a token,
  and of a phone without overlap in one place only (`CodesOK`). It rests on `Alone`: such a
  phone has one handler, or the two writes of one `verifyRider`. **VerifiedWasJudged** does
  without: a verdict is written with the papers it was about beside it, and new papers take the
  verdict back. So does **RolesAlwaysAgree**: an account is created only where there is none,
  and without one there are no tokens and no profile. What a call does is stated once, for all
  of them (`CallDoes`), and each invariant is then shown of one form of call.

**Only model-checked:** liveness (`CustomerIsAnswered`, `PaidIsCaptured`, `LapsedIsClosed`, and
`Offers`' `Ends`, so of `OffersInTurn` its safety half is proved), for TLAPS as used here proves
nothing under fairness. Every invariant and every action property of the passing runs has a
theorem. `OneOpenOffer`, `AssignmentIsFinal`, `WalletsMatchBooks`, `SettlesOnce`, `OneActive` and
`ModelFollowsPlan` are proved under the conditions they are checked under, no more: section 5 names
what happens without.

## 5. Where the code does not do what the repository says

Three runs show it (PROJECT.json quotes the lines): an accept after the cancellation
assigns a cancelled order (`dispatch_cancelled`); overlapping deliveries of one event credit
the rider twice (`settle_double`); a payment before the assignment is credited to nobody
(`settle_unassigned`).

The following show in the models as well. They have no run of their own; the passing runs
exclude them by the conditions named.

* Two riders with open offers (after a late refusal restarts the list) both accept: the second
  overwrites the first (`matching.service.ts:192`). *`OneOpenOffer` and `AssignmentIsFinal`
  are about orders whose handlers did not overlap: `overlapped`.*
* Nothing checks that a rider who rejects was asked (`matching.controller.ts:43`): one further
  down the list cuts it behind himself, the next one is asked while the first still holds the
  offer, and both may accept, one after the other (`matching.service.ts:244`). *`skipped`.*
* The fleet is looked at once, when riders are searched (`matching.service.ts:112`): who leaves it
  before he accepts is given the premium order all the same (`admin.service.ts:207`). So is, in the
  code, who goes offline or takes another order meanwhile. *`fleetThen`.*
* When the last candidate refuses, only the socket event is sent, no NO_RIDERS notification
  (`matching.service.ts:251`; README.md:203 lists it).
* `cancelOrder` checks the status and writes in two awaits (`orders.service.ts:159`): an order that
  is picked up in between is cancelled.
* A fault ends a dispatch for good: `findMatch` is not queued, a failed job is not retried
  (`orders.service.ts:95`). *`disturbed`.*
* When the status lands and the credit fails, the repeated event finds CAPTURED and returns
  (`payments.service.ts:148`). *`disturbed`.*
* Two payouts at once overdraw a wallet (`admin.service.ts:428`). *One slot in `settle_serial`.*
* The amount of a payout is only compared with the balance (`admin.controller.ts:169`,
  `admin.service.ts:428`): one of zero makes a row and nothing else, one below zero adds to the
  wallet. *`Ledger` takes any amount that the balance covers.*
* The rate is that of the rider of the first read, the credit goes to the rider of the second
  (`payments.service.ts:143`). *`Ledger` allows either rate.*
* A second `initiatePayment` that waits for the gateway turns CAPTURED back into AUTHORIZED
  (`payments.service.ts:77`). *`PaidIsCaptured` is a leads-to, not a "stays captured".*
* Two `subscribe` calls at once make two ACTIVE rows (`subscriptions.service.ts:135`).
  *`calm`.*
* A rider who renews while the hourly job is between its two writes loses the commission model
  of the new subscription (`subscriptions.service.ts:259`). *`calm`.*
* An admin who closes an old row resets the model of a rider who has a new one, and one who opens a
  row again sets none (`subscriptions.service.ts:341`); a rider's own profile update may name a
  `commissionModel` (`riders.service.ts:36`), which no rate is read from. *`calm`.*
* The job fails between its two writes: the model is never reset
  (`subscriptions.service.ts:249`). A lapsed row blocks a renewal until the job runs (`:136`).
* Two updates of one key at once, a restart between the two writes of one, or one of the two that
  throws while the other lands, leave Redis and AppConfig apart (`admin.service.ts:509`, `:519`); in
  the last case the admin is told of an error, and the value served stays what it is: a boot fills
  in only what Redis has lost. *`torn`.*
* Between a loss of Redis' data and the next boot orders are priced at the built-in defaults
  (`orders.service.ts:51`). *`lost`.*
* A message emitted between the read of a client's history and its join is in neither
  (`chat.gateway.ts:74`). *`gap`.* One whose handler ends between the row and the emission
  is not emitted at all, though README.md:209 promises real time (`:96`). *`lost`.*
* A rider who is replaced stays in the room of the chat and of the order, and may be the
  receiver of a message that was being written (`chat.service.ts:51`). *`OnlyPartiesSee` counts
  who has driven for the order.*
* `emitOrderAssigned` says it joins "user and rider sockets" (`matching.gateway.ts:108`), but
  `riderAccepted` selects no id of the rider's user (`matching.service.ts:200`): the rider's
  socket never joins. `reassignOrder` emits nothing. *`EmitOrderAssigned` joins the customer.*
* The newest of a user's tabs closes: the map has no socket for the user, though the older
  tab is open (`matching.gateway.ts:45`). *`CustomerFollows` is about the newest.*
* Updates that overlap may be emitted in the other order, and a client that joins late is
  shown nothing until the next one (`matching.gateway.ts:73`). *`overlapped`; `MarkersAgree` is
  about clients that were shown something.*
* A position sent for an id of no order is emitted to the room of that id, which anybody may
  join, and logged nowhere (`tracking.service.ts:47`, `matching.gateway.ts:83`). *`ShownIsLogged` is
  about orders.*
* One write of a position fails while the other lands: it is logged or stored, and never emitted
  (`tracking.service.ts:49`). *`overlapped`.*
* An order that is reassigned between an event and its notification: the new rider is told of
  the credit or the cancellation, the old one is not (`notifications.service.ts:73`), nor is
  the new rider of a reassignment told of the job (`admin.service.ts:288`). *`moved`.*
* A device stays registered with its former user, who is then pushed to on a phone that is
  another's (`users.service.ts:113`). *`PushesAreOfRows` counts who has registered it.*
* README.md:195 lists the arrival at the pickup and the steps up to the delivery among what is
  told, and SMS: the events have texts, but nothing calls with them
  (`notifications.service.ts:136`), and `sendSms` (`:64`) is called by nobody. The rider is told
  that the whole price "has been credited", the net of it is (`:235`).
* Two verifications of one code that overlap both sign in, and the `del` of one removes a code
  that was requested meanwhile (`auth.service.ts:33`, `:39`). *`overlapped`.* A new user who
  leaves out the role, or whose `create` fails, has spent the code (`:46`).
* A business whose e-mail is taken has its `BusinessAccount`, and its orders name it, without any
  details (`users.service.ts:46`). *`RolesAgree` has the other direction only.*
* A verdict does not say which papers it is about: those submitted after the admin looked, and
  before his verdict is written, come out VERIFIED unseen (`riders.service.ts:92`, `:106`).
  *`unseen`.* The two writes of `verifyRider` may land by halves (`:103`); the admin's
  `verifyRider` writes the first only (`admin.service.ts:201`), so that `User.status` stays
  PENDING_VERIFICATION. Nothing reads that status.
* One update that names two keys may be mixed in one order: the new value of one, the old one of the
  other (`orders.service.ts:51`). *`OrderIsPricedAsPosted` is about each value.*
* A page and its total come from two reads of a table that changes: a client may stop one page early
  (`admin.service.ts:113`). *`split`.* Rows with the same `createdAt` have no order at all
  (`:106`); the model takes them to differ.
* Two admins who resolve one dispute both pass the check, and the notes of the later one replace the
  other's (`admin.service.ts:347`).
* `getFinanceSummary` counts payouts that are PAID (`admin.service.ts:368`); `processPayout` makes
  them PROCESSING and nothing makes them PAID, so `totalPaid` is always 0. A row that only holds
  the reference of an unfinished webhook counts as a payment (`:362`).
* A code lives 600 s (`auth.service.ts:9`), README.md:120 says five minutes.
* Seen while reading, outside the models: README.md:305 lists POST `/chat/:orderId/messages`,
  which no controller has; RIDER_MONTHLY is described as "0% commission"
  (`subscriptions.service.ts:87`) and charged 5%; `deliveryLimit` of a plan is never enforced;
  a scheduled order is dispatched at once.

## 6. Not modelled, and why

The ETA of tracking is floating-point trigonometry, which TLA+'s integers do not express, and
leaves no trace; the price is arithmetic on decimals. SMS and maps are calls that answer or fail.
Details of one row, the dashboard, a rider's earnings and the finance report by days read once and
keep nothing; names, saved addresses and promo codes are writes of single rows
that no other handler reads. Signatures of webhooks are assumed to have been checked. The SQL search
by distance and the acceptance averages decide only *which* riders and *in which order*: the models
take every answer. `AdminService.getOrders`, `OrdersService.updateOrderStatus`, `sendSms` and
`verifyTransaction` are called by nobody. Of disputes the list is modelled and a resolution as what
moves a row in it; nothing in the code opens one. The frontend has no logic.

## 7. Plan

Done: 1 `Dispatch` with proofs; 2 `Ledger`, `Settlement` with proofs; 3 `Subscriptions` with
proofs; 4 `Pricing` with proofs; 5 `Chat` with proofs; 6 `Tracking` with proofs;
7 `Notices` with proofs; 8 `Accounts` with proofs, and `Server`, which composes it with `Pricing`;
9 `Quotes` and `Listings` on `Server`, with proofs; 10 `Offers`, which `Dispatch` implements.

Proved since: every safety property of the runs, the step simulations of `Offers` and `Ledger`.
Left to model: Dispatch's assignment and Settlement composed, in place of the free `Assign`.
