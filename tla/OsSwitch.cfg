SPECIFICATION Spec
CONSTANTS
    Task = {a, b, c}
    NoTask = none
    MaxNest <- Nested
INVARIANTS
    RunsCurrent
    ContextsKept
