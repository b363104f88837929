SPECIFICATION Spec
CONSTANTS
    Targets = {w1, w2}
    NoTarget = NoTarget
    IdleTTL = 2
    RetentionTTL = 1
    MaxSafe = 1000
    MissingIsRemoved = FALSE
    MaxSockets = 1
    MaxClock = 2
    MaxRounds = 2
    MaxCrashes = 1
    MaxCleanupFailures = 0
SYMMETRY Symmetry
INVARIANTS
    TypeOK
    EndedRunHoldsNothing
    DeletedStrandsNothing
    RunningIsLeased
PROPERTIES
    NoActiveOwnerRemoved
    RenewedLeaseSurvivesReap
CHECK_DEADLOCK FALSE
