CONSTANTS
  HEADER = 2
  BLOCK = 1
  FrameSizes <- MCFrameSize
  OtherSizes <- MCOtherSizes
  WINDOW = 2
  MaxTime = 2
  MaxSetups = 1
SPECIFICATION Spec
INVARIANT FlagMeansSets
CHECK_DEADLOCK FALSE
