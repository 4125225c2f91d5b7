------------------------------- MODULE Offers -------------------------------
(***************************************************************************)
(* What dispatch promises of an order, without keys, jobs or handlers: the *)
(* riders who may take it are asked in turn, each once the one before has  *)
(* refused or let the offer lapse, until one takes it or none is left.     *)
(* Nothing else ends a dispatch: there is no step that forgets the queue.  *)
(*                                                                         *)
(* The promise is for orders whose handlers ran one at a time and without  *)
(* a fault, that no rider refused before he was asked and no admin         *)
(* reassigned; of the others (loose) nothing is said.                      *)
(***************************************************************************)
EXTENDS Naturals, Sequences

CONSTANTS Order, Rider, NoRider

VARIABLES
    ranked,     \* the orders for which riders were found
    queue,      \* the riders who are still to be asked, or were asked last
    holder,     \* the rider whose answer is awaited
    taker,      \* the rider who has the order
    loose       \* the orders of which nothing is promised

offerVars == <<ranked, queue, holder, taker, loose>>

-----------------------------------------------------------------------------
Init ==
    /\ ranked = {}
    /\ queue = [o \in Order |-> <<>>]
    /\ holder = [o \in Order |-> NoRider]
    /\ taker = [o \in Order |-> NoRider]
    /\ loose = {}

\* What a step does to one order.
Becomes(o, q, h, t) == queue'[o] = q /\ holder'[o] = h /\ taker'[o] = t

Same(o) == Becomes(o, queue[o], holder[o], taker[o]) /\ (o \in ranked' <=> o \in ranked)

Rank(o) ==
    /\ o \notin ranked /\ o \in ranked'
    /\ queue'[o] # <<>>
    /\ \A i, j \in 1..Len(queue'[o]) : queue'[o][i] = queue'[o][j] => i = j
    /\ Becomes(o, queue'[o], NoRider, taker[o])

\* also again, to the rider who is asked already
AskFirst(o) ==
    /\ queue[o] # <<>>
    /\ holder[o] \in {NoRider, Head(queue[o])}
    /\ Becomes(o, queue[o], Head(queue[o]), taker[o])

\* he refuses, or the offer lapses
Declined(o) == holder[o] # NoRider /\ Becomes(o, queue[o], NoRider, taker[o])

PassOn(o) ==
    /\ queue[o] # <<>>
    /\ holder[o] = NoRider
    /\ Becomes(o, Tail(queue[o]), NoRider, taker[o])

Take(o) == holder[o] # NoRider /\ Becomes(o, <<>>, NoRider, holder[o])

Step(o) ==
    \/ Rank(o)
    \/ /\ o \in ranked' <=> o \in ranked
       /\ AskFirst(o) \/ Declined(o) \/ PassOn(o) \/ Take(o)

\* Time passes for all orders at once.
Next ==
    /\ loose \subseteq loose'
    /\ \A o \in Order \ loose' : Step(o) \/ Same(o)

\* Every queue comes to its end.
Ends == \A o \in Order : queue[o] # <<>> ~> queue[o] = <<>> \/ o \in loose

Safety == Init /\ [][Next]_offerVars

Spec == Safety /\ Ends

=============================================================================
