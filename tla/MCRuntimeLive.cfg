SPECIFICATION FairSpec
CONSTANTS
    a = a
    b = b
    Exprs <- MCExprs
    PagesOf <- MCPagesOf
    MaxScheduled = 2
    MaxTriggered = 1
    NumPages = 2
    Periods = {1}
    LedPeriod = 2
    CheckPeriod = 1
    ClockMod = 2
    RunawayLimit = 1
    Debounce = 1
    MaxConditions = 1
    MaxImports = 1
    Builtins = {"condition", "adc", "while", "import"}
PROPERTIES
    LoopStopped
    InterruptsReturn
    RunfileRuns
