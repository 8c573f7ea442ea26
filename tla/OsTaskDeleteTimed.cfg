SPECIFICATION FairSpec
CONSTANTS
    a = a  b = b  c = c
    Task = {a, b, idle}
    Idle = idle
    NoTask = none
    Prio <- PrioLevels
    Obj = {}
    UserTimer = {}
    Period <- Twice
    Periodic = {}
    ListHead = head
    Slice <- LongSlice
    Cleanup = {a}
    BasePrio <- PrioOf
    Levels = {0, 1}
    Delay = {0, 2}
    Wakes <- WakesA
    MaxLock = 2
    Ops = {"sleep", "delete"}
    Risky = {"deleteTimed"}
INVARIANTS DeletedLeavesQueue
