------------------------------- MODULE MCChat -------------------------------
(* Chat on a small instance: one customer writes every order. *)
EXTENDS Chat, TLC

CONSTANT ada

Customers == [o \in Order |-> ada]
Symmetry == Permutations(Socket) \cup Permutations(Message) \cup Permutations(Proc)
            \cup Permutations(Rider)

=============================================================================
