CONSTANTS
  MAX_CONNECTIONS = 2
  Streams <- MCMirror
  Options <- MCBothOptions
  MaxSessions = 1
SPECIFICATION Spec
INVARIANTS
  OneClient
  StoppedMeansStopped
  RoomWhenAccepting
  OneJoiner
  DownIsNoticed
CHECK_DEADLOCK FALSE
