CONSTANTS
  HEADER = 2
  BLOCK = 3
  FrameSizes <- MCFrameSizes
  OtherSizes = {0}
  WINDOW = 1
  MaxTime = 1
  MaxSetups = 2
SPECIFICATION Spec
INVARIANTS
  KeyStreamInStep
PROPERTIES
  StopReturns
  PacketsAreTaken
CHECK_DEADLOCK FALSE
