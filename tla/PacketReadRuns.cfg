SPECIFICATION FairSpec
CONSTANTS
    Block = 8
    MacLen = 5
    Suites <- AllSuites
    Alike = TRUE
    Payloads <- ShortAndLong
    Plain = 1
    Packets = 3
    BufSize = 20
INVARIANTS
    TypeOK
    InStep
    AssertionsHold
    MacIsRaw
    NothingHeldBack
PROPERTY
    AllRead
CHECK_DEADLOCK FALSE
