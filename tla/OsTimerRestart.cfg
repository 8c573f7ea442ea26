SPECIFICATION FairSpec
CONSTANTS
    u = u  v = v  w = w
    Timer = {u, v}
    None = none
    Periodic = {u}
    W = 5
    Interval = {1, 2, 4}
    Risky = {"restartSelf"}
INVARIANTS LinkedCanBeStopped
