SPECIFICATION FairSpec
CONSTANTS
    Targets = {w1}
    NoTarget = NoTarget
    IdleTTL = 1
    RetentionTTL = 1
    MaxSafe = 1000
    MissingIsRemoved = TRUE
    MaxSockets = 2
    MaxClock = 2
    MaxRounds = 2
    MaxCrashes = 2
    MaxCleanupFailures = 1
PROPERTIES
    UnownedIsReclaimed
CHECK_DEADLOCK FALSE
