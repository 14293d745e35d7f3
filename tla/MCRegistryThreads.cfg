SPECIFICATION FairSpec
CONSTANTS
    MaxConns = 2
    MaxTime = 2
    Profiles <- MCResume
    MaxInterval = 1
    NewExpiries <- MCZero
    SingleThread = FALSE
    Takeover = TRUE
PROPERTIES
    NoWillAfterDisconnect
    SessionEnds
