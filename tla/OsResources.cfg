SPECIFICATION Spec
CONSTANTS
    a = a  b = b  c = c
    Task = {a, b, c, idle}
    Idle = idle
    NoTask = none
    Prio <- PrioLevels
    Mutex = {x, y}
    Event = event
    Bit = {e1, e2}
    Request <- Requests
    Pool = pool
    Block = {b1, b2}
    Nil = nil
    MaxHold = 2
    Obj = {x, y, event, pool, recv, send, queue}
    UserTimer = {}
    Period <- PeriodOf
    Periodic = {}
    ListHead = head
    Slice <- UnitSlice
    Cleanup = {}
    Flag = "OS_IPC_PRIO"
    Forever = 9
    Timeout = {1}
    PoolTimeout = {0, 9}
    EventTimeout = {1, 9}
    BasePrio <- PrioOf
    Val <- Values
    Msg = {}
    Recv = recv  Send = send  Queue = queue
    Size = 1
    Node = {n1}
    Null = null
    NoVal = nothing
    Uses <- AllUses
INVARIANTS HoldExact PriorityRestored NobodyWaitsInVain BlocksExact SuspendCountExact
PROPERTIES ConsumedOnce
