CONSTANTS
  MAX_CONNECTIONS = 1
  Streams <- MCMirror
  Options <- MCVideo
  MaxSessions = 1
SPECIFICATION Spec
PROPERTY
  RemovalsEnd
CHECK_DEADLOCK FALSE
