SPECIFICATION DiligentSpec
CONSTANTS
    SrcLen = 5
    MaxChunk = 2
    MaxCount = 4
    Window = 3
    InitSize = 1
    MaxRequests = 10
    Faults <- NoFaults
INVARIANT
    FramingKept
PROPERTIES
    CallReturns
    AllReported
CHECK_DEADLOCK FALSE
