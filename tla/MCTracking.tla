----------------------------- MODULE MCTracking -----------------------------
(* Tracking on a small instance: a customer with two tabs, a rider, an order and *)
(* an id that is of no order.                                                     *)
EXTENDS Tracking, TLC

CONSTANTS ada, bisi, s1, s2, s3

Customers == [o \in Placed |-> ada]

Owners == (s1 :> ada) @@ (s2 :> ada) @@ (s3 :> bisi)

Symmetry == Permutations({s1, s2}) \cup Permutations(Proc)

=============================================================================
