SPECIFICATION ThreadsSafe
CONSTANTS
  MaxId = 4
  MaxSlots = 3
  Queues = {q}
  SliceTicks = 1
  SleepTimes = {1}
  MaxTicks = 1
  Word = 64
  Codes = {0}
  Signals = {9}
  Vectors = {}
  MaxFd = 3
  Closable = {3}
INVARIANTS OneHome SlotsAccounted StackInUseIsOwned AddressSpaceInUse 
  ProcessComplete StatusDelivered
