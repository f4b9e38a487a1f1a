SPECIFICATION Spec
CONSTANTS
  b1 = b1
  b2 = b2
  b3 = b3
  NULL = NULL
  NoText = NoText
  Keys <- MCKeys2
  Stored <- MCKeys2
  Blocks = {b1, b2}
  Samples <- MCSample
  MaxN = 1
  Faults = {}
  Redelete = TRUE
  OtherStores = {}
  Grid = 3
  Precision = 10000000
  Garbage <- MCGarbage
  Junk <- MCJunk
  MaxFree = 2
INVARIANT LiveRecordsOwnTheirStats
