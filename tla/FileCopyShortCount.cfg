SPECIFICATION CopySpec
CONSTANTS
    SrcLen = 5
    MaxChunk = 2
    MaxCount = 5
    Window = 20
    InitSize = 1
    MaxRequests = 30
    Faults <- NoFaults
    Commands = 1
    ReadFaults = FALSE
    RequestLen = 1
    OpenFaults = FALSE
INVARIANT
    ShortCountIsNoFailure
CHECK_DEADLOCK FALSE
