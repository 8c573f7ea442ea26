SPECIFICATION FairSpec
CONSTANTS
    a = a  b = b
    Task = {a, b, idle}
    Idle = idle
    NoTask = none
    Prio <- PrioLevels
    Obj = {recv, send, queue, event, pool}
    UserTimer = {}
    Period <- PeriodOf
    Periodic = {}
    ListHead = head
    Slice <- UnitSlice
    Cleanup = {}
    Flag = "OS_IPC_FIFO"
    Forever = 9
    Timeout = {0, 2, 9}
    BasePrio <- PrioOf
    NoVal = nothing
    Recv = recv  Send = send  Queue = queue
    Size = 2
    Val = {m1, m2}
    Msg = {m1, m2}
    Node = {n1, n2}
    Null = null
    Mutex = {}
    MaxHold = 0
    Event = event
    Bit = {}
    Request <- NoRequests
    EventTimeout = {}
    Pool = pool
    Block = {b1}
    Nil = nil
    PoolTimeout = {}
    Uses <- UseSets
INVARIANTS NodesExact NobodySleepsOnMessages
PROPERTIES TimedCallsEnd ImplementsMail ImplementsMessages
