SPECIFICATION XhciFair
CONSTANTS
    t1 = t1
    Pollers = {t1}
    Ports <- MCPorts
    Slots <- MCSlots
    AtBoot = 1
    PlugAtBoot = FALSE
    Full = {2}
    Frames <- MCFrames
    CommandRing = 4
    SetupRing = 16
    KeyRing = 4
    EventRing = 3
    Depth = 2
    FaultStages = {}
    MaxPlugs = 2
    MaxReports = 1
    MaxFaults = 0
PROPERTY OwnSlot
