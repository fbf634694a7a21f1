SPECIFICATION FairVerifySpec
CONSTANTS
    first = first
    second = second
    third = third
    Clients = {first, second}
    Fresh = {first, second}
    Ids = {"refund"}
    Requests = {"500 cents", "900 cents"}
    Modes = {"normal", "pending"}
    Operation <- Conflicting
    Behind <- OnTime
    Window = 1
    Delay = 1
    Retention = 2
    MaxNow = 2
    MaxAttempts = 2
    MaxChecks = 2
    Timeout = 1
PROPERTIES
    KeepsPromise
    InvocationEnds
CHECK_DEADLOCK FALSE
