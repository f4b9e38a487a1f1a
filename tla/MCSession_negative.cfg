SPECIFICATION Spec
CONSTANTS
  b1 = b1
  b2 = b2
  b3 = b3
  NULL = NULL
  NoText = NoText
  Keys <- MCKeys1
  Stored <- MCKeys1
  Blocks = {b1, b2}
  Samples <- MCSamples
  MaxN = 1
  Faults = {}
  Redelete = FALSE
  OtherStores = {}
  Grid = 3
  Precision = 10000000
  Garbage <- MCGarbage
  Junk <- MCJunk
  MaxFree = 2
PROPERTY FailedSampleIsNotRecorded
