SPECIFICATION DeploymentSpec
CONSTANTS
    Request = {r1, r2}
    Run = {p1, p2}
    MaxFaults = 2
INVARIANTS
    NothingUsedClosed
    AllClosedAtExit
PROPERTIES
    
    InitKeepsAccount
    RerunCompletes
CHECK_DEADLOCK FALSE
