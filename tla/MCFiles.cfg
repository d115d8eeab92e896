\* The system may stop: see MCFilesTimer.cfg for where it does.
SPECIFICATION FilesSafe
CONSTANTS
    p1 = p1
    p2 = p2
    x = x
    y = y
    Procs <- MCProcs
    Prefixes <- MCPrefixes
    Flags <- MCFlags
    QSIZE = 2
    MaxCalls = 4
    MaxErrors = 1
    MaxTimeouts = 1
SYMMETRY MCSymmetry
CHECK_DEADLOCK FALSE
INVARIANTS AppendsKept OwnCompletion 
