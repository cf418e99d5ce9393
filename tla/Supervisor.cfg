SPECIFICATION FairSpec
CONSTANTS
    LINE_LIMIT = 1
    ReadSize = 2
    Reads = 2
    PipeSize = 2
    Timeout = 1
    MaxLines = 2
INVARIANTS
    TypeOK
    ChildReaped
    NothingInvented
PROPERTIES
    KeepsContract
    CallReturns
