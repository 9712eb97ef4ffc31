SPECIFICATION MCSpec
CONSTANTS
  Clients = {1, 2}
  Options <- MCStarts
  MAX_LAUNCHES = 2
  MAX_RESETS = 2
  Lines <- MCLines
  Writable <- MCWritable
  Macs <- MCMacs
  MAX_OPTIONS = 2
  MAXLEN = 31
  BUFFER = 100
  Requests <- MCRequests
  Behind <- MCBehind
INVARIANTS
  ServedAsSent
  OptionsAsWritten
  AdvertisedIsServed
  ClientsStayPaired
PROPERTIES
  RequestsAreSettled
  EndsInOrder
CHECK_DEADLOCK FALSE
