SPECIFICATION Spec
CONSTANTS
    Graphs <- RootsInLoops
    MaxParallelism = 2
    MaxCorrections = 1
    MaxTraversals = 2
    MaxIterations = 2
    MaxRounds = 1
    MaxRestarts = 0
INVARIANTS
    NothingElseStalls
CHECK_DEADLOCK FALSE
