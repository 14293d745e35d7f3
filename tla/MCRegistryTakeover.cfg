SPECIFICATION MCSpec
CONSTANTS
    MaxConns = 3
    MaxTime = 2
    Profiles <- MCTakeover
    MaxInterval = 1
    NewExpiries <- MCNone
    SingleThread = TRUE
    Takeover = TRUE
    Malformed <- MCMalformed
    Slashed <- MCSlashed
    Shares <- MCShares
    Cpus = 2
    Situation <- MCMainSituation
    Edits <- MCEdits
    ConfigPath <- Conf
    MainThreads = {0, 1}
    MayFail = FALSE
    MaxSignals = 2
    MaxEdits = 2
    MaxArrivals = 2
    MaxRestarts = 1
    MaxEvents = 4
    MaxLate = 1
INVARIANTS
    MainIsSound
    RegistryIsSound
PROPERTIES
    NoUnwantedWill
    NotExpiredEarly
