SPECIFICATION Spec
CONSTANTS
    MaxInvocations = 2
    Commands <- MCCommands
    OwnCodes = {}
INVARIANTS
    ExitOneIsAssertionFailure
CHECK_DEADLOCK FALSE
