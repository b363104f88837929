SPECIFICATION Spec
CONSTANTS
    Backends = {TRUE}
    Targetings = {{2}, {1}, {}}
    MaxCommands = 1
    MaxRounds = 3
    MaxGenerations = 2
    MaxTurns = 2
    MaxResends = 1
    MaxRestarts = 0
    MaxDisconnects = 0
INVARIANTS
    CarriedOutOnce
PROPERTIES
    CommandsEnd
CHECK_DEADLOCK FALSE
