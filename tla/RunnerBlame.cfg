SPECIFICATION RunSpec
CONSTANTS
    c1 = c1
    c2 = c2
    c3 = c3
    Calls = {c1, c2, c3}
    Detached = {}
    Paths = {"refunded"}
    Values = {0, 1}
    MaxCalls = 3
    ArgumentKinds = {"valid"}
    Tools <- MCTools
    Handlers <- MCTools
    ReadOnly <- MCReadOnly
    InitialWorld <- MCInitialWorld
    Faults <- NoFaults
    Preconditions <- MCPreconditions
    Asserted <- Untouched
SYMMETRY Symmetry
INVARIANTS
    BlameIsFirstDeparture
CHECK_DEADLOCK FALSE
