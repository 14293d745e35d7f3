SPECIFICATION Spec
CONSTANTS
    MaxId = 3
    ReceiveMaxima = {1, 2}
    MaxQosCount = 2
    MaxMsgs = 3
    MaxConns = 3
    MaxRestarts = 1
    Publishers = {p1}
    SingleThread = TRUE
    Takeover = FALSE
    CleanConns = {}
    Qos2 = {1, 3}
    Oversize = {}
    MayExpire = {}
    MayBeRefused = {}
INVARIANTS
    UnfinishedIdsAreUsed
