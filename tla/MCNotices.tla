----------------------------- MODULE MCNotices -----------------------------
(* Notices on a small instance: a customer and two riders.                 *)
EXTENDS Notices, TLC

CONSTANTS ada, bisi, chidi, d1

Customers == [o \in Order |-> ada]

Symmetry == Permutations({bisi, chidi}) \cup Permutations(Proc)

=============================================================================
