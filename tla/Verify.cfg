SPECIFICATION VerifySpec
CONSTANTS
    first = first
    second = second
    third = third
    Clients = {first, second}
    Fresh = {first}
    Ids = {"refund"}
    Requests = {"500 cents"}
    Modes = {"normal", "false_success", "pending", "failed", "failed_late", "partial", "wrong_amount"}
    Operation <- OneOperation
    Behind <- SecondBehind
    Window = 2
    Delay = 1
    Retention = 4
    MaxNow = 5
    MaxAttempts = 2
    MaxChecks = 2
    Timeout = 2
INVARIANTS
    VerifyTypeOK
    AtMostOneEffect
    OutcomeIsTrue
    LastWriteIsChecked
CHECK_DEADLOCK FALSE
