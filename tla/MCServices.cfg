CONSTANTS
  RAOP_NTP_DATA_COUNT = 2
  RAOP_NTP_MAX_DISP = 20
  LIMIT = 2
  THETA <- MCTheta
  Delays <- MCDelays
  Holds = {1}
  SendTimes = {10}
  INFLIGHT = 2
  PRIME = 11
  GENERATOR = 2
  HASH = 7
  BYTE = 3
  Conns = {1, 2}
  PinOptions <- MCPinOptions
  PinChoices = {1234, 7}
  ServerKeys = {3}
  ClientKeys = {6}
  Salts = {5}
  Clients = {1, 2}
  Skew <- MCSkew
  Errors = {1}
  Formats = {8, 2, 1}
  SoundOptions <- MCSoundOptions
  MAX_TIME = 1
  Speakers = {"a", "b"}
  Sounds <- MCSounds
  Sentences <- MCSentences
  max_length_ = 2
  ClassLabels <- MCClassLabels
  EntityLabels <- MCEntityLabels
  Outputs = {"WiFi"}
  Lines = 3
  HomeAssistant = TRUE
  DATA_SIZE = 8
  StatusLines = {2}
  HeaderLines = {2, 5}
  Bodies = {0, 3, 9}
  HEADERS = 3
  Threads = {"t1", "t2"}
  Types = {"counter", "histogram"}
  Names <- MCNames
  merge = TRUE
  bucket_boundaries_ <- MCBoundaries
  Values <- MCValues
  Operations = 3
SPECIFICATION MCSpec
INVARIANTS
  ServicesTypeOK
  ConvertedWithinDelay
  RightPinIsAccepted
  SecretsAgree
  
  ResponseIsWhole
  HeardAsSent
  MetricsAddUp
PROPERTIES
  SilentClientIsReported
  ServicesServe
CHECK_DEADLOCK FALSE
