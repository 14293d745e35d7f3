SPECIFICATION Spec
CONSTANTS
    MaxConns = 3
    MaxTime = 2
    Profiles <- MCResumeToEnd
    MaxInterval = 1
    NewExpiries <- MCNone
    SingleThread = TRUE
    Takeover = TRUE
INVARIANTS
    OneClientPerId
