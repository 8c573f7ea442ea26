---------------------------- MODULE MCOsMessages ----------------------------
(* Values for TLC: two tasks on two levels above the idle task. *)
EXTENDS OsObjectsInv

CONSTANTS a, b

PrioLevels == 0..2
PrioOf == [t \in Task |-> IF t = Idle THEN 2 ELSE IF t = a THEN 0 ELSE 1]
UnitSlice == [t \in Task |-> 1]
PeriodOf == [x \in UserTimer |-> 2]
NoRequests == [t \in Task |-> {}]
UseSets == {{"mbox", "isr", "empty"}, {"mqueue", "isr", "empty"}}
=============================================================================
