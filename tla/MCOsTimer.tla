------------------------------ MODULE MCOsTimer -----------------------------
(* Values for TLC: three timers over a counter of a few ticks. *)
EXTENDS OsTimerInv

CONSTANTS u, v, w
=============================================================================
