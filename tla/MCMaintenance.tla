----------------------------- MODULE MCMaintenance -----------------------------
(* Maintenance on small sets, for TLC. *)
EXTENDS Maintenance, TLC

\* A copy put back by hand, its epoch raised or not, then one asked for.
MCHandThenAsked == <<"hand", "asked">>
=============================================================================
