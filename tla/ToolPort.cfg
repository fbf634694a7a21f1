SPECIFICATION PortSpec
CONSTANTS
    c1 = c1
    c2 = c2
    c3 = c3
    Calls = {c1, c2, c3}
    Paths = {"refunded", "balance"}
    Values = {0, 1}
    MaxCalls = 2
    ArgumentKinds = {"valid", "off_schema", "not_json"}
    Tools <- MCTools
    Handlers <- MCHandlers
    ReadOnly <- MCReadOnly
    InitialWorld <- MCInitialWorld
    Faults <- MCFaults
    Preconditions <- MCPreconditions
SYMMETRY Symmetry
INVARIANTS
    TypeOK
    Isolation
    AttemptsCounted
    AnswersAreTrue
    ViolationsMatchEvidence
PROPERTIES
    NoEffectAfterSeal
    ImplementsSerialTools
CHECK_DEADLOCK FALSE
