CONSTANTS
  HEADER = 2
  BLOCK = 1
  FrameSizes <- MCFrameSize
  OtherSizes <- MCOtherSizes
  WINDOW = 2
  MaxTime = 2
  MaxSetups = 1
SPECIFICATION Spec
INVARIANTS
  PacketsAreWhole
  ThreadOwnsTheStream
PROPERTIES
  SetsReachTheirFrame
CHECK_DEADLOCK FALSE
