SPECIFICATION Spec
CONSTANTS
    n1 = n1
    n2 = n2
    r1 = r1
    r2 = r2
    Nodes = {n1, n2}
    Runs = {r1, r2}
    Ownerships <- OneRunOrTwo
    ExpiresAfter = 1
    MaxProposals = 2
    MaxNow = 2
    MaxCrashes = 0
PROPERTIES
    ExpiredIsRejected
CHECK_DEADLOCK FALSE
