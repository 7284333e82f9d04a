SPECIFICATION FairSpec
CONSTANTS
    Host = {h1}
    Port = {p1}
    Session = {s1, s2}
    Recv = recv
    Rpc = rpc
    NoOne = none
    QSize = 1
    MaxHeld = 1
CHECK_DEADLOCK FALSE
PROPERTY ReceiveLoopReturns
PROPERTY SessionsAreFreed
