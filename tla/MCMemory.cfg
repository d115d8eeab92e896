SPECIFICATION SpacesSpec
CONSTANTS
  W = 7
  TotalFrames = 14
  Usable = {2, 3, 4, 5, 6, 8, 9, 10}
  Reclaimable = {12}
  MaxCount = 3
  Spaces = {s1, s2}
  Levels = 3
  Fanout = 2
  KernelStart = 1
  Images <- MCImages
  StackPages <- MCStack
  KernelPages = {5}
  MaxOps = 3
SYMMETRY MCSymmetry
INVARIANTS OneHolder WalkAsPromised FramesConserved
PROPERTIES AllocLowest
CHECK_DEADLOCK FALSE
