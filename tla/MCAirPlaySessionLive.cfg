CONSTANTS
  MAX_CONNECTIONS = 1
  Streams <- MCAllStreams
  Options <- MCVideo
  MaxSessions = 1
SPECIFICATION Spec
INVARIANT
  ClockOutlivesUsers
PROPERTY
  JoinsEnd
CHECK_DEADLOCK FALSE
