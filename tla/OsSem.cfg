SPECIFICATION Spec
CONSTANTS
    a = a  b = b  c = c
    Task = {a, b, c, idle}
    Idle = idle
    NoTask = none
    Prio <- PrioLevels
    Sem = sem
    Obj = {sem}
    UserTimer = {}
    Period <- PeriodOf
    Periodic = {}
    ListHead = head
    Slice <- UnitSlice
    Cleanup = {}
    Flag = "OS_IPC_PRIO"
    Value = 1
    MaxValue = 2
    Forever = 9
    Timeout = {0, 1, 2, 9}
    BasePrio <- PrioOf
    MaxLock = 1
    Ops = {"take", "give", "reset", "isr", "lock"}
    Risky = {}
INVARIANTS PendingExact MostUrgentRuns
PROPERTIES ImplementsSemaphore
