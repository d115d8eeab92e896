\* The lookups come to an end.
SPECIFICATION AllSpec
CONSTANTS
  W = 3
  TotalFrames = 10
  Counts = {2}
  Top = 13
  HeapStart = 4
  HeapMaxSize = 12
  GrowStep = 8
  PageSize = 4
  MinBlock = 2
  Layouts <- MCLayouts
  Places = 3
  Topics = {"names"}
INVARIANT MountsAppear
CHECK_DEADLOCK FALSE
