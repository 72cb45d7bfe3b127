SPECIFICATION FairSpec
CONSTANTS
    Chunks = 2
    PacketLen = 1
    Window = 1
    Rekeys = 1
    Requests = 0
    AskAlways = FALSE
PROPERTY
    HalfSentGoesOn
CHECK_DEADLOCK FALSE
