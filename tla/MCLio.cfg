CONSTANTS
    DATASIZE = 44
    Position = 32
    Byte = 16
    HeaderSize = 2
    Alphabet <- MCAlphabet
    BuiltinNames <- MCBuiltinNames
    BufferSize = 72
    RestValues = 73
    STRBUFSIZE = 8
    MAXDEPTH = 4
    Programs <- MCPrograms
    MaxRuns = 3

SPECIFICATION Spec
CHECK_DEADLOCK FALSE
INVARIANTS
    InBuffer
    ReadsAsWritten
    Means
    RunsAsWritten
    MemoryApart
PROPERTIES
    ReadsInLayout
    ExpressionWellLaid
