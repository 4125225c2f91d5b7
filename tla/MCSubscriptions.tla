--------------------------- MODULE MCSubscriptions ---------------------------
(* Subscriptions on small instances: a week is one unit of the clock, a month *)
(* two, so that both kinds of plan lapse within the bound.                    *)
EXTENDS Subscriptions

=============================================================================
