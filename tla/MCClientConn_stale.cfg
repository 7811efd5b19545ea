CONSTANTS
  c1 = c1
  c2 = c2
  b1 = b1
  NoOne = NoOne
  Callers <- OneCaller
  Batchers <- OneBatcher
  MaxStreamID = 3
  Bodies = {2}
  BatchSize = 2
  BatchBody = 0
  ConnWindow = 1
  InitWindow = 1
  MaxStreams = 2
  Windows = {0}
  Limits = {1}
  Increments = {1}
  MaxGrant = 2
SPECIFICATION Spec
PROPERTIES BatchKeepsLimit
