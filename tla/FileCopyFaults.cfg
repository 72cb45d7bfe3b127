SPECIFICATION CopySpec
CONSTANTS
    SrcLen = 5
    MaxChunk = 2
    MaxCount = 5
    Window = 3
    InitSize = 2
    MaxRequests = 30
    Faults <- Failures
    Commands = 2
    ReadFaults = TRUE
    RequestLen = 2
    OpenFaults = TRUE
INVARIANTS
    CopyTypeOK
    CopiedIsWhole
    OneFileAtATime
PROPERTIES
    ImplementsLoop
CHECK_DEADLOCK FALSE
