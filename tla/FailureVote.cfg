SPECIFICATION Spec
CONSTANTS
    Graphs <- FailureVotes
    MaxParallelism = 2
    MaxCorrections = 1
    MaxTraversals = 2
    MaxIterations = 2
    MaxRounds = 1
    MaxRestarts = 0
INVARIANTS
    AnyJoinVotes
CHECK_DEADLOCK FALSE
