SPECIFICATION Spec
CONSTANTS
    Backends = {TRUE}
    Targetings = {{1, 2}}
    MaxCommands = 2
    MaxRounds = 3
    MaxGenerations = 1
    MaxTurns = 2
    MaxResends = 0
    MaxRestarts = 0
    MaxDisconnects = 0
INVARIANTS
    IntentOrder
CHECK_DEADLOCK FALSE
