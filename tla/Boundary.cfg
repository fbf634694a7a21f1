SPECIFICATION FairBoundarySpec
CONSTANTS
    c1 = c1
    c2 = c2
    c3 = c3
    Calls = {c1, c2, c3}
    Tools = {"pay", "status"}
    Inputs = {"500 cents"}
    Opaque = "opaque"
    Faults <- MCFaults
    Stuck = {c1}
    Programs <- MCPrograms
INVARIANTS
    BoundaryTypeOK
    AttemptsInOrder
    RepeatsAreReal
    TraceIsTrue
    CoverageIsTrue
PROPERTIES
    OthersEnd
CHECK_DEADLOCK FALSE
