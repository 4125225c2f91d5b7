------------------------------- MODULE Quotes -------------------------------
(***************************************************************************)
(* OrdersService.createOrder, up to the row it creates: the distance from  *)
(* the maps service, the pricing values from Redis (read at once, in a     *)
(* Promise.all), two look-ups, the order.  The call may run beside         *)
(* updatePricing and be cut short by a restart (Pricing).  Finding a rider *)
(* for the order is in Dispatch, telling the customer in Notices.          *)
(*                                                                         *)
(* One call at a time: calls of createOrder write nothing that another one *)
(* reads.  Arithmetic on the price is not modelled here.                   *)
(***************************************************************************)
EXTENDS Pricing

VARIABLES
    quote,      \* the call: how far it is, the values it has still to read, those it has
    fair        \* history: per key, the values posted when, or since, the reads began

quoteVars == <<quote, fair>>

-----------------------------------------------------------------------------
Quote == [pc : {"idle", "distance", "rates", "create"},
          todo : SUBSET Key, tariff : [Key -> Value \cup {Absent}]]

NoQuote == [pc |-> "idle", todo |-> {}, tariff |-> [k \in Key |-> Absent]]
Nothing == [k \in Key |-> {}]

\* what calls of updatePricing that are under way were given for k
Given(k) == {task[p].dto[k] : p \in {q \in Proc :
                <<"redis", k>> \in task[q].todo \/ <<"db", k>> \in task[q].todo}}

\* AppConfig keeps what was posted last; Redis what is served meanwhile
Posted(k) == IF InFlight(k) THEN {Served(k)} \cup Given(k)
             ELSE IF appConfig[k] = Absent THEN {Default[k]} ELSE {appConfig[k]}

\* an update that starts during the reads may be seen by them
PostsSeen == fair' = [k \in Key |-> IF quote.pc = "rates" THEN fair[k] \cup Given(k)'
                                                          ELSE fair[k]]

-----------------------------------------------------------------------------
CreateOrder ==
    /\ Up
    /\ quote = NoQuote
    /\ quote' = [NoQuote EXCEPT !.pc = "distance", !.todo = Key]
    /\ UNCHANGED fair

\* MapsService: measured, or the mock distance without a key or a route; then
\* the reads are started
GetDistance ==
    /\ quote.pc = "distance"
    /\ quote' = [quote EXCEPT !.pc = "rates"]
    /\ fair' = [k \in Key |-> Posted(k)]

\* Mutant of ReadRate: the key is misspelt, so that the default stands in.
ReadMisspelt(k) ==
    /\ quote.pc = "rates"
    /\ k \in quote.todo
    /\ quote' = [quote EXCEPT !.todo = @ \ {k}, !.tariff[k] = Default[k]]
    /\ UNCHANGED fair

\* the default stands in for a key that Redis has not; after the last read the
\* call goes on to the look-ups
ReadRate(k) ==
    /\ quote.pc = "rates"
    /\ k \in quote.todo
    /\ quote' = [quote EXCEPT !.todo = @ \ {k}, !.tariff[k] = Served(k)]
    /\ UNCHANGED fair

LookUps ==
    /\ quote.pc = "rates"
    /\ quote.todo = {}
    /\ quote' = [quote EXCEPT !.pc = "create"]
    /\ UNCHANGED fair

\* The order is created, with what was read; or an await throws, the maps
\* service's among them, or the process ends, and there is no order.
QuoteEnds ==
    /\ quote' = NoQuote
    /\ fair' = Nothing

-----------------------------------------------------------------------------
QuotesInit == quote = NoQuote /\ fair = Nothing

ServeOrders ==
    /\ \/ CreateOrder \/ GetDistance \/ LookUps
       \/ \E k \in Key : ReadRate(k)
       \/ quote # NoQuote /\ QuoteEnds
    /\ UNCHANGED vars

QuotesTypeOK ==
    /\ quote \in Quote
    /\ fair \in [Key -> SUBSET Value]

\* Each value an order is created with is one that was in force at some moment of
\* the reads: the value posted last, or one whose update was under way or came
\* in meanwhile, never an older one; however reads, updates, restarts and
\* other orders interleave.  Not for a key whose two stores overlapping updates, one
\* that a restart cut short or one that failed in part may have left apart, nor
\* after a loss of Redis.  (Of one update that names two keys, an order
\* may have the new value of one and the old value of the other.)
OrderIsPricedAsPosted ==
    quote.pc = "create" /\ ~lost =>
        \A k \in Key \ torn : quote.tariff[k] \in fair[k]

=============================================================================
