CONSTANTS
  RAOP_BUFFER_LENGTH = 4
  SEQ_HALF = 6
  Packets <- MCPackets
SPECIFICATION Spec
INVARIANTS
  TypeOK
  WindowInv
  ResendNamesTheGap
PROPERTIES
  ImplementsOrderedStream
CHECK_DEADLOCK FALSE
