SPECIFICATION FairSpec
CONSTANTS
    DiscoveryTime = 2
    WaitJoin = 4
    ChangeStatePending = 2
    DataCheck = 3
    EchoInterval = 3
    MaxMessages = 5
    Patience = 12
PROPERTIES
    SessionEnds
CHECK_DEADLOCK FALSE
