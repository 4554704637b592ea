------------------------------ MODULE MCWakeup ------------------------------
(* One device and one server.                                               *)
EXTENDS Wakeup
=============================================================================
