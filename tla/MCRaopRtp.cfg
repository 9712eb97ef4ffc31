CONSTANTS
  RAOP_BUFFER_LENGTH = 2
  SEQ_HALF = 4
  Packets <- MCPackets
  MaxPosts = 2
SPECIFICATION MCSpec
INVARIANTS
  ThreadOwnsTheSession
  LastPostSurvives
PROPERTIES
  PlayedFromThisSession
  StopReturns
  EventsReachTheRenderer
CHECK_DEADLOCK FALSE
