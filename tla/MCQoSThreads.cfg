SPECIFICATION Spec
CONSTANTS
    MaxId = 2
    ReceiveMaxima = {1, 2}
    MaxQosCount = 2
    MaxMsgs = 4
    MaxConns = 2
    MaxRestarts = 0
    Publishers = {p1}
    SingleThread = FALSE
    Takeover = TRUE
    CleanConns = {}
    Qos2 = {}
    Oversize = {}
    MayExpire = {2}
    MayBeRefused = {3}
INVARIANTS
    QuotaWithinReceiveMaximum
    QueuedIdsAreUsed
