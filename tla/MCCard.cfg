SPECIFICATION Spec
CONSTANTS
    Sector = 2
    Byte = 4
    Word = 256
    Unit = 5
    Cards <- MCCards
    Last = 4
    Systems = {"old", "new"}
    First = "old"
    Handled <- MCHandled
    Watched <- MCWatched
    Root = 1
    RewriteLimit = 2
    Requests <- MCRequests
    FatFirst = FALSE
    MaxCount = 2
    MaxFailures = 1
INVARIANTS
    FailureShown
    ReadsBack
PROPERTIES
    RewriteCaught
    HandlersReached
    ManualKept
