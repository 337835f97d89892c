CONSTANTS
    BlockChars = 3
    BlockEntries = 8
    BlockFat = 16
    Calls <- MCCalls
    PARTITION_START = 3
    PARTITION_SIZE = 68
    ROOT_DIR_SECTORS = 2
    LfnChars = 13
    RunFile = 14
    Libraries <- MCLibraries
    MaxImports = 2

SPECIFICATION Spec
INVARIANTS
    FoundAsMade
    Room
    TextDelivered
