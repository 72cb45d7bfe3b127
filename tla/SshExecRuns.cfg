SPECIFICATION FairSpec
CONSTANTS
    MaxCommands = 3
    MaxRemotes = 3
    MaxKeys = 4
    ClosesEarly = FALSE
INVARIANTS
    ExecTypeOK
    ResourcesNest
    NothingLeft
    NothingSkipped
PROPERTIES
    ProgramEnds
CHECK_DEADLOCK FALSE
