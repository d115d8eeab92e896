SPECIFICATION XhciSafe
CONSTANTS
    t1 = t1
    t2 = t2
    Pollers = {t1, t2}
    Ports <- MCPorts
    Slots <- MCSlots
    AtBoot = 1
    PlugAtBoot = TRUE
    Full = {2}
    Frames <- MCFrames
    CommandRing = 4
    SetupRing = 16
    KeyRing = 4
    EventRing = 3
    Depth = 2
    FaultStages = {"address", "cleanup", "idle", "report", "control"}
    MaxPlugs = 2
    MaxReports = 2
    MaxFaults = 1
SYMMETRY MCSymmetry
INVARIANTS DmaSafe  ControllerKept
