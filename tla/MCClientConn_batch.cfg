CONSTANTS
  c1 = c1
  c2 = c2
  b1 = b1
  NoOne = NoOne
  Callers <- OneCaller
  Batchers <- OneBatcher
  MaxStreamID = 5
  Bodies = {1}
  BatchSize = 2
  BatchBody = 1
  ConnWindow = 1
  InitWindow = 1
  MaxStreams = 3
  Windows = {}
  Limits = {2}
  Increments = {1}
  MaxGrant = 2
SPECIFICATION Spec
INVARIANTS TypeOK Accounting
PROPERTIES KeepsPromise
