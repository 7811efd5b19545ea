SPECIFICATION LiveSpec
CONSTANTS
  w1 = w1
  w2 = w2
  Workers <- MCWorkers
  NConns = 2
  Streams = 2
  Total = 3
  MaxDials = 3
INVARIANTS StreamsKept NoneLeaked 
PROPERTIES HealthyKept RunEnds
