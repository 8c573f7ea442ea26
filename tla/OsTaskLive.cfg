SPECIFICATION FairSpec
CONSTANTS
    a = a  b = b  c = c
    Task = {a, b, idle}
    Idle = idle
    NoTask = none
    Prio <- PrioLevels
    Obj = {}
    UserTimer = {u}
    Period <- Twice
    Periodic = {u}
    ListHead = head
    Slice <- LongSlice
    Cleanup = {a, b}
    BasePrio <- PrioOf
    Levels = {1}
    Delay = {0, 2}
    Wakes <- WakesA
    MaxLock = 0
    Ops = {"suspend", "exit", "init", "startup", "sleep", "timer", "yield", "isr"}
    Risky = {}
INVARIANTS TimeoutOnlyWhenSuspended
PROPERTIES RoundRobin SleepEnds DefunctCleaned
