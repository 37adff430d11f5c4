----------------------------- MODULE MCReadLog ------------------------------
(* ReadLog on two entities, with recordings nested three deep. *)
EXTENDS ReadLog
=============================================================================
