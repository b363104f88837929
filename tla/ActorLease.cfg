SPECIFICATION Spec
CONSTANTS
    Targets = {w1, w2}
    NoTarget = NoTarget
    Containers = {c1, c2}
    IdleTTL = 2
    RetentionTTL = 1
    MaxSafe = 4
    MaxNow = 3
INVARIANTS
    TypeOK
    RowChecks
    OneTargetPerGeneration
    IndexNeverTrips
    RegisteredWasGranted
PROPERTIES
    SupersededForever
    FencesOwnership
CHECK_DEADLOCK FALSE
