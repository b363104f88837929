SPECIFICATION Spec
CONSTANTS
    r1 = r1
    r2 = r2
    r3 = r3
    r4 = r4
    e1 = e1
    Runs = {r1, r2, r3, r4}
    Explicit = {r1}
    EventKeys = {e1}
    MaxConcurrency = 1
    Skip = FALSE
    Every = 2
    Ttl = 1
    LiveCommands = TRUE
    MaxNow = 3
    MaxWaiting = 1
    MaxFaults = 1
INVARIANTS
    TypeOK
    OneRunPerFire
    RefusedOnlyWhenFull
PROPERTIES
    IntervalFiresAgain
    AdmittedWithinPolicy
CHECK_DEADLOCK FALSE
