SPECIFICATION FairSpec
CONSTANTS
    a = a  b = b  c = c
    Task = {a, b, c, idle}
    Idle = idle
    NoTask = none
    Prio <- PrioLevels
    Sem = sem
    Obj = {sem}
    UserTimer = {u}
    Period <- PeriodOf
    Periodic = {u}
    ListHead = head
    Slice <- UnitSlice
    Cleanup = {}
    Flag = "OS_IPC_FIFO"
    Value = 1
    MaxValue = 1
    Forever = 9
    Timeout = {1, 9}
    BasePrio <- PrioOf
    MaxLock = 1
    Ops = {"take", "delete", "timer"}
    Risky = {}
PROPERTIES ImplementsSemaphore TimedTakeEnds
