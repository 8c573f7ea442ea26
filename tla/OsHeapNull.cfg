SPECIFICATION Spec
CONSTANTS
    Task = {a}
    NoTask = none
    Size = 15
    Header = 3
    MinSize = 3
    Ask = {0, 3, 9}
    Uses <- ReallocUse
    NoBlock = null
PROPERTIES NullOnlyWhenFull
