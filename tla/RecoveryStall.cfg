SPECIFICATION Spec
CONSTANTS
    Graphs <- LoneWhile
    MaxParallelism = 2
    MaxCorrections = 1
    MaxTraversals = 1
    MaxIterations = 1
    MaxRounds = 1
    MaxRestarts = 1
INVARIANTS
    RecoveredLoopEnds
CHECK_DEADLOCK FALSE
