SPECIFICATION Spec
CONSTANTS
    WtpEcho = 4
    AcEcho = 10
    Retransmit = 1
    MaxRetransmit = 4
    MaxDelay = 1
    MaxLosses = 1
INVARIANTS
    TypeOK
    SessionSurvives
    EndNoticed

