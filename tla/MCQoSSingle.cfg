SPECIFICATION FairSpec
CONSTANTS
    MaxId = 4
    ReceiveMaxima = {1, 2}
    MaxQosCount = 2
    MaxMsgs = 5
    MaxConns = 3
    MaxRestarts = 0
    Publishers = {p1}
    SingleThread = TRUE
    Takeover = FALSE
    CleanConns = {3}
    Qos2 = {1, 3, 5}
    Oversize = {}
    MayExpire = {2}
    MayBeRefused = {}
INVARIANTS
    IdsAreSound
PROPERTIES
    FirstDeliveryInOrder
    DropsOnlyWithUnfinished
    NoSilentLoss
    AtLeastOnce
