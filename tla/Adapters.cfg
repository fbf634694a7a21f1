SPECIFICATION FairDriverSpec
CONSTANTS
    Agents = {"client", "any"}
    Isolations = {"trusted_subprocess", "docker_network_none"}
    Ids = {1, 2}
    MaxMessages = 2
    MaxSaid = 4
    OutRoom = 2
    ErrRoom = 1
INVARIANTS
    DriverTypeOK
    ToolsInOrder
    AnswerIsEarned
    HonestIsHeard
    NothingLeft
PROPERTIES
    HonestEnds
    DeadlineEnds
CHECK_DEADLOCK FALSE
