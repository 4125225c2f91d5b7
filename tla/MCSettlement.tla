---------------------------- MODULE MCSettlement ----------------------------
(* Settlement on small instances: two orders, paid in the ways the runs need. *)
EXTENDS Settlement, TLC

CONSTANTS o1, o2

OneNaira == [o \in Order |-> 1]
Card == [o \in Order |-> "CARD"]
\* an admin may enter any number
Amounts == {85, 95, 0, -10}

OpayAndCash == [o \in Order |-> IF o = o1 THEN "OPAY" ELSE "CASH"]

\* used only by runs that check no liveness
Symmetry == Permutations(Rider) \cup Permutations(Proc)

=============================================================================
