SPECIFICATION FairSpec
CONSTANTS
    Chunks = 3
    PacketLen = 2
    Window = 1
    Rekeys = 2
    Requests = 2
    AskAlways = FALSE
INVARIANTS
    TypeOK
    PendingIsWanted
    ReportedIsSent
    RepliesInOrder
    KexUndisturbed
    WithinWindow
PROPERTY
    Finishes
CHECK_DEADLOCK FALSE
