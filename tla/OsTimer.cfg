SPECIFICATION FairSpec
CONSTANTS
    u = u  v = v  w = w
    Timer = {u, v, w}
    None = none
    Periodic = {u}
    W = 3
    Interval = {1, 2}
    Risky = {}
INVARIANTS LinkedCanBeStopped
PROPERTIES ImplementsTimerService ClockReturns
