SPECIFICATION Spec
CONSTANTS
    a = a
    b = b
    Exprs <- MCExprs
    PagesOf <- MCPagesOf
    MaxScheduled = 3
    MaxTriggered = 1
    NumPages = 3
    Periods = {1}
    LedPeriod = 2
    CheckPeriod = 1
    ClockMod = 2
    RunawayLimit = 1
    Debounce = 1
    MaxConditions = 1
    MaxImports = 0
    Builtins = {"every", "condition", "driver"}
INVARIANTS
    TypeOK
    NoStaleHandler
    FailedRunHalts
PROPERTIES
    PendingKept
