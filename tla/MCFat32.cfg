SPECIFICATION Spec
CONSTANTS
    FatCount = 1
    ClusterCount = 7
    K = 2
    Paths <- MCPaths
    Offsets = {0, 2}
    Lengths = {1, 3}
    Refusals = {"forward"}
    MaxOps = 3
    MaxFaults = 1
INVARIANTS
    
    NothingLeaks
    AsPromised
    FreeCountHonest
CHECK_DEADLOCK FALSE
