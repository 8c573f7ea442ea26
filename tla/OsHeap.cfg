SPECIFICATION FairSpec
CONSTANTS
    Task = {a, b}
    NoTask = none
    Size = 15
    Header = 3
    MinSize = 3
    Ask = {0, 2, 9}
    Uses <- UseSets
    NoBlock = null
INVARIANTS Tiled BlocksOwned NothingLost LowestFree
PROPERTIES CallsEnd
