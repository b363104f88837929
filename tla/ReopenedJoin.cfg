SPECIFICATION Spec
CONSTANTS
    Graphs <- Joins
    MaxParallelism = 2
    MaxCorrections = 1
    MaxTraversals = 1
    MaxIterations = 1
    MaxRounds = 1
    MaxRestarts = 1
INVARIANTS
    AnyJoinVotes
CHECK_DEADLOCK FALSE
