SPECIFICATION Spec
CONSTANTS
    SrcLen = 4
    MaxChunk = 2
    MaxCount = 4
    Window = 3
    InitSize = 1
    MaxRequests = 6
    Faults <- AllFaults
INVARIANTS
    TypeOK
    AckAccounting
    PipelineCoversGap
    ReportedIsStored
    NoOrphanReply
PROPERTY
    ImplementsUpload
CHECK_DEADLOCK FALSE
