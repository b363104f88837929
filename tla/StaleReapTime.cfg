SPECIFICATION Spec
CONSTANTS
    Targets = {w1, w2}
    NoTarget = NoTarget
    IdleTTL = 2
    RetentionTTL = 1
    MaxSafe = 1000
    MissingIsRemoved = TRUE
    MaxSockets = 1
    MaxClock = 2
    MaxRounds = 1
    MaxCrashes = 0
    MaxCleanupFailures = 0
SYMMETRY Symmetry
PROPERTIES
    ReclaimsOnlyUnowned
CHECK_DEADLOCK FALSE
