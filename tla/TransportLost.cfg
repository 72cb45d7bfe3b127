SPECIFICATION Spec
CONSTANTS
    Chunks = 3
    PacketLen = 2
    Window = 1
    Rekeys = 1
    Requests = 1
    AskAlways = TRUE
PROPERTY
    ForeignSendIsRefused
CHECK_DEADLOCK FALSE
