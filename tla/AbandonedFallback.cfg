SPECIFICATION Spec
CONSTANTS
    Backends = {TRUE}
    Targetings = {{1, 2}}
    MaxCommands = 2
    MaxRounds = 3
    MaxGenerations = 1
    MaxTurns = 2
    MaxResends = 0
    MaxRestarts = 1
    MaxDisconnects = 0
PROPERTIES
    RecoveryRetries
CHECK_DEADLOCK FALSE
