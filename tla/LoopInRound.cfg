SPECIFICATION Spec
CONSTANTS
    Graphs <- LoopsInRound
    MaxParallelism = 2
    MaxCorrections = 1
    MaxTraversals = 2
    MaxIterations = 2
    MaxRounds = 2
    MaxRestarts = 0
PROPERTIES
    ResultsRetained
CHECK_DEADLOCK FALSE
