SPECIFICATION Spec
CONSTANTS
    SettingsNodes <- OneOrTwoFlags
    MaxCommands = 3
INVARIANTS
    ConfigTypeOK
    RootHoldsDecision
    ExecSettingsKept
PROPERTIES
    NoFlagScope
    NextScope
CHECK_DEADLOCK FALSE
