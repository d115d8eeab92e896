SPECIFICATION BlockingFair
CONSTANTS
  Q = q
  SemQ = q
  Queues = {q}
  Workers = 3
  SemWorkers = 2
  Permits = 2
  MaxId = 4
  MaxSlots = 4
  SliceTicks = 1
  SleepTimes = {}
  MaxTicks = 0
  Word = 64
INVARIANTS NoLostWakeup PermitsConserved
PROPERTIES ImplementsMutex FreeLockIsTaken FreePermitIsTaken
