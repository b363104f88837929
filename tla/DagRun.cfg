SPECIFICATION Spec
CONSTANTS
    Graphs <- TestGraphs
    MaxParallelism = 2
    MaxCorrections = 1
    MaxTraversals = 1
    MaxIterations = 1
    MaxRounds = 2
    MaxRestarts = 1
INVARIANTS
    TypeOK
    ParallelismHolds
    RestIsQuiet
    SuccessVotes
    OnlyLoopsStall
PROPERTIES
    EndedIsFinal
    ImplementsRunLife
    DependenciesFirst
    RoundScoped
CHECK_DEADLOCK FALSE
