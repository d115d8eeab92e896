SPECIFICATION FilesFair
CONSTANTS
    p1 = p1
    p2 = p2
    x = x
    y = y
    Procs <- MCProcs
    Prefixes = {x}
    Flags <- MCFlags
    QSIZE = 2
    MaxCalls = 2
    MaxErrors = 0
    MaxTimeouts = 0
CHECK_DEADLOCK FALSE
PROPERTY TimerRuns
