------------------------------ MODULE MCServer ------------------------------
(* Server on small instances. *)
EXTENDS Server, TLC

CONSTANTS v0, v1, v2, baseFare, perKmRate

Defaults == [k \in Key |-> v0]

\* a filter of which no column is ever updated, and one of which a column is
Filters == {{"userId"}, {"role", "status"}}

Symmetry == Permutations({v1, v2}) \cup Permutations(Key) \cup Permutations(Proc)

=============================================================================
