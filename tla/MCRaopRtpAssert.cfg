CONSTANTS
  RAOP_BUFFER_LENGTH = 2
  SEQ_HALF = 4
  Packets <- MCPackets
  MaxPosts = 2
SPECIFICATION MCSpec
INVARIANTS
  EnqueueAccepts
CHECK_DEADLOCK FALSE
