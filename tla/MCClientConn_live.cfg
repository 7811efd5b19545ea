CONSTANTS
  c1 = c1
  c2 = c2
  b1 = b1
  NoOne = NoOne
  Callers <- TwoCallers
  Batchers <- NoBatcher
  MaxStreamID = 1
  Bodies = {1}
  BatchSize = 1
  BatchBody = 0
  ConnWindow = 0
  InitWindow = 0
  MaxStreams = 1
  Windows = {}
  Limits = {}
  Increments = {1}
  MaxGrant = 1
SPECIFICATION FairSpec
PROPERTIES DoReturns CloseReturns
