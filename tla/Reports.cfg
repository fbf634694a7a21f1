SPECIFICATION Spec
CONSTANTS
    MaxInvocations = 2
    Commands <- MCCommands
    OwnCodes = {0, 1, 2}
INVARIANTS
    ReportsTypeOK
    ExitCodeIsTrue
PROPERTIES
    ReportsSurvive
CHECK_DEADLOCK FALSE
