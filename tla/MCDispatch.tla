---------------------------- MODULE MCDispatch ----------------------------
(* Small instances of Dispatch for TLC. *)
EXTENDS Dispatch, TLC

\* Slots are interchangeable, and so are the riders who do not drive for the
\* fleet; used only by runs that check no liveness.
Symmetry == Permutations(Proc) \cup Permutations(Rider \ InitialFleet)
                               \cup Permutations(InitialFleet)

=============================================================================
