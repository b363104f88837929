SPECIFICATION Spec
CONSTANTS
    Graphs <- TwiceFeds
    MaxParallelism = 2
    MaxCorrections = 0
    MaxTraversals = 1
    MaxIterations = 1
    MaxRounds = 1
    MaxRestarts = 0
INVARIANTS
    ParallelismHolds
CHECK_DEADLOCK FALSE
