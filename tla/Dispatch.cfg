SPECIFICATION Spec
CONSTANTS
    Host = {h1, h2}
    Port = {p1}
    Session = {s1, s2}
    Recv = recv
    Rpc = rpc
    NoOne = none
    QSize = 1
    MaxHeld = 1
CHECK_DEADLOCK FALSE
INVARIANT TypeOK
INVARIANT OneSessionPerHost
INVARIANT HandedToTheLiving
INVARIANT ShellSeesTheLiving
INVARIANT AnsweredIsRemembered
 
