SPECIFICATION ThreadsFair
CONSTANTS
  MaxId = 3
  MaxSlots = 3
  Queues = {q}
  SliceTicks = 2
  SleepTimes = {1}
  MaxTicks = 1
  Word = 64
  Codes = {}
  Signals = {}
  Vectors = {14}
  MaxFd = 2
  Closable = {}
PROPERTIES  WaitReturns
