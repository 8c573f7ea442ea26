------------------------------ MODULE MCOsTask ------------------------------
(* Values for TLC: tasks a, b (and c) on level 1 over the idle task of     *)
(* level 2; level 0 is for os_task_priority_set and os_task_init.          *)
EXTENDS OsTaskInv

CONSTANTS a, b, c

PrioLevels == 0..2
PrioOf == [t \in Task |-> IF t = Idle THEN 2 ELSE 1]
LongSlice == [t \in Task |-> IF t = a THEN 2 ELSE 1]
Twice == [x \in UserTimer |-> 2]
WakesA == [x \in UserTimer |-> a]
=============================================================================
