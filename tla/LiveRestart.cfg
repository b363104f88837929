SPECIFICATION Spec
CONSTANTS
    Backends = {TRUE, FALSE}
    Targetings = {{1, 2}, {2}}
    MaxCommands = 1
    MaxRounds = 3
    MaxGenerations = 2
    MaxTurns = 2
    MaxResends = 0
    MaxRestarts = 1
    MaxDisconnects = 1
INVARIANTS
    TypeOK
    CompletedWasCarriedOut
CHECK_DEADLOCK FALSE
