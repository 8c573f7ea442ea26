SPECIFICATION FairSpec
CONSTANTS
    u = u  v = v  w = w
    Timer = {u, v, w}
    None = none
    Periodic = {u}
    W = 4
    Interval = {0, 2}
    Risky = {}
INVARIANTS OnTime
