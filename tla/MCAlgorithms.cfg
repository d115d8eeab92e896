\* The search, boot and load of an image come to an end.
SPECIFICATION AllSpec
CONSTANTS
  W = 3
  TotalFrames = 10
  Counts = {2, 3, 4, 7}
  Top = 13
  HeapStart = 4
  HeapMaxSize = 12
  GrowStep = 8
  PageSize = 4
  MinBlock = 2
  Layouts <- MCLayouts
  Places = 3
  Topics = {"scan", "map", "heap", "elf", "keys", "user", "names"}
INVARIANTS FirstFit OnlyUsableFree DirectMapExact NoOverlap Coalesced LoadedAsPromised  CopiesExact NamesResolve
CHECK_DEADLOCK FALSE
