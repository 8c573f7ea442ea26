--------------------------- MODULE MCOsResources ---------------------------
(* Values for TLC: three tasks on three levels above the idle task. *)
EXTENDS OsObjectsInv

CONSTANTS a, b, c

PrioLevels == 0..3
PrioOf == [t \in Task |-> CASE t = Idle -> 3 [] t = a -> 0 [] t = b -> 1 [] OTHER -> 2]
UnitSlice == [t \in Task |-> 1]
PeriodOf == [x \in UserTimer |-> 2]
Values == [set : Bits, info : Info] \cup Mutex
AndClear(s) == <<s, {"AND", "CLEAR"}>>
OrClear(s) == <<s, {"OR", "CLEAR"}>>
Requests == [t \in Task |-> CASE t = a -> {AndClear(Bit), <<Bit, {"OR"}>>}
                              [] t = b -> {OrClear({e}) : e \in Bit}
                              [] t = c -> {OrClear(Bit)}
                              [] OTHER -> {}]

(* What the application does with which discipline. *)
OneMutex == {{"mutex", "sleep"}}
AllUses == {{"mutex", "nest", "again", "delete", "sleep"},
            {"mutex", "nest", "timed", "sleep"}, {"event"}, {"mpool", "sleep"}}
PoolUse == {{"mpool", "sleep"}}
=============================================================================
