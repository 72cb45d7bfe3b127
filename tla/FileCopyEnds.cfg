SPECIFICATION FairCopySpec
CONSTANTS
    SrcLen = 4
    MaxChunk = 2
    MaxCount = 4
    Window = 20
    InitSize = 4
    MaxRequests = 30
    Faults <- Losses
    Commands = 2
    ReadFaults = TRUE
    RequestLen = 2
    OpenFaults = FALSE
PROPERTY
    SessionEnds
CHECK_DEADLOCK FALSE
