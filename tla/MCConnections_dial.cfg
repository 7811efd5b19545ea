SPECIFICATION Spec
CONSTANTS
  w1 = w1
  w2 = w2
  Workers <- MCWorkers
  NumConnections = 3
  RetryTimes = 3
  NAddrs = 3
  IdxRange = 4
  Limits = {0, 1, 2}
INVARIANTS Collected EvenlySpread
