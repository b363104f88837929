SPECIFICATION Spec
CONSTANTS
    Backends = {TRUE}
    Targetings = {{1}, {}}
    MaxCommands = 2
    MaxRounds = 2
    MaxGenerations = 2
    MaxTurns = 2
    MaxResends = 1
    MaxRestarts = 0
    MaxDisconnects = 0
INVARIANTS
    CarriedOutOnce
PROPERTIES
    CommandsEnd
CHECK_DEADLOCK FALSE
