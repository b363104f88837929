SPECIFICATION Spec
CONSTANTS
    Graphs <- LoopFans
    MaxParallelism = 2
    MaxCorrections = 0
    MaxTraversals = 2
    MaxIterations = 2
    MaxRounds = 1
    MaxRestarts = 0
INVARIANTS
    ParallelismHolds
CHECK_DEADLOCK FALSE
