SPECIFICATION Spec
CONSTANTS
    Procs = {p1, p2}
    Keys = {"a", "shift", "caps", "bs", "enter", "up", "down", "left", "right", "home", "end", "delete"}
    Maxes = {4}
    BufferCap = 5
    HistoryCap = 1
    Cols = 6
    MaxKeys = 4
SYMMETRY MCSymmetry
INVARIANTS
    RingKeepsNewest
    
    
CHECK_DEADLOCK FALSE
