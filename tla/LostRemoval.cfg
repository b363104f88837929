SPECIFICATION FairSpec
CONSTANTS
    Targets = {w1, w2}
    NoTarget = NoTarget
    IdleTTL = 1
    RetentionTTL = 1
    MaxSafe = 1000
    MissingIsRemoved = FALSE
    MaxSockets = 1
    MaxClock = 0
    MaxRounds = 1
    MaxCrashes = 0
    MaxCleanupFailures = 1
PROPERTIES
    UnownedIsReclaimed
CHECK_DEADLOCK FALSE
