SPECIFICATION MCSpec
CONSTANTS
    MaxConns = 2
    MaxTime = 3
    Profiles <- MCResume
    MaxInterval = 1
    NewExpiries <- MCZero
    SingleThread = TRUE
    Takeover = FALSE
    LinkKinds <- MCLinkKinds
    AnswerSize = 2
    AnswerFits = TRUE
    PacketLengths = {1, 4}
    PongLengths = {2}
    MaxPieces = 2
    RemInitial = 2
    RemLimit = 4
    Versions = {1, 2}
    Lasting = {1}
    CleanStart = {}
    GroupChoices = {FALSE}
    BaseInterval = 2
    LongInterval = 3
    BackOffAfter = 2
    MaxAddresses = 1
    MaxReloads = 1
    ReloadsOverlap = FALSE
    MaxFailures = 1
    MaxTries = 3
    Malformed <- MCMalformed
    Slashed <- MCSlashed
    Shares <- MCShares
    Cpus = 2
    Situation <- MCFewSituations
    Edits <- MCFewEdits
    ConfigPath <- Conf
    MainThreads = {0, 1}
    MayFail = TRUE
    MaxSignals = 1
    MaxEdits = 1
    MaxArrivals = 0
    MaxRestarts = 0
    MaxEvents = 2
    MaxLate = 1
INVARIANTS
    SessionKeepsItsWill
PROPERTIES
    LastWillComesOut
    PeerProgress
CHECK_DEADLOCK FALSE
