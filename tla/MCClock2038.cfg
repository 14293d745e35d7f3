SPECIFICATION FileSpec
CONSTANTS
    MaxSaves = 2
    Rows = 2
    FailingSteps = {"open", "write", "flush", "rename"}
    MaxDamage = 1
    Clock = {7, 9}
    Word = 16
    Sessions <- MCSessions
INVARIANTS
    TimeWentOn
CHECK_DEADLOCK FALSE
