SPECIFICATION LiveSpec
CONSTANTS
  NConns = 2
  Concurrency = 2
  Batch = 1
  Payload = 1
  MaxGrants = 1
  maxBatchesInFlight = 1
  MaxStreams <- MCMaxStreams
  Window <- MCWindow
  ConnWindow <- MCConnWindow
INVARIANTS Balanced GraceWaits  
PROPERTIES RunEnds
