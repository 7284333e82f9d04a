SPECIFICATION FairSpec
CONSTANTS
    SeqMod = 8
    FirstSeq = 2
    MaxRetransmit = 2
    Lifetime = 3
    MaxRequests = 8
    Cisco = TRUE
INVARIANTS
    TypeOK
    AtMostOnceInOrder
    NoGhostRequest
    OneAnswer
    HandshakeOrder
PROPERTIES
    RequestEnds
CHECK_DEADLOCK FALSE
