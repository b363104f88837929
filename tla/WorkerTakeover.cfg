SPECIFICATION FairSpec
CONSTANTS
    Targets = {w1, w2}
    NoTarget = NoTarget
    IdleTTL = 1
    RetentionTTL = 1
    MaxSafe = 1000
    MissingIsRemoved = TRUE
    MaxSockets = 1
    MaxClock = 1
    MaxRounds = 1
    MaxCrashes = 0
    MaxCleanupFailures = 1
PROPERTIES
    UnownedIsReclaimed
CHECK_DEADLOCK FALSE
