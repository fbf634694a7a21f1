SPECIFICATION FairRunSpec
CONSTANTS
    c1 = c1
    c2 = c2
    c3 = c3
    Calls = {c1, c2, c3}
    Detached = {c3}
    Paths = {"refunded"}
    Values = {0, 1}
    MaxCalls = 3
    ArgumentKinds = {"valid"}
    Tools <- MCTools
    Handlers <- MCTools
    ReadOnly <- MCReadOnly
    InitialWorld <- MCInitialWorld
    Faults <- MCFaults
    Preconditions <- MCPreconditions
    Asserted <- MCAssertions
INVARIANTS
    RunTypeOK
    PassIsEarned
    CoverageIsReal
    BlameIsFinalDeparture
    VerdictStands
PROPERTIES
    RunEnds
CHECK_DEADLOCK FALSE
