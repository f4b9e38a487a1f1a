SPECIFICATION Spec
CONSTANTS
  b1 = b1
  b2 = b2
  b3 = b3
  NULL = NULL
  NoText = NoText
  Keys <- MCKeys3
  Stored = {}
  Blocks = {b1, b2, b3}
  Samples <- MCSamplePair
  MaxN = 3
  Faults = {}
  Redelete = FALSE
  OtherStores <- MCOtherStores3
  Grid = 3
  Precision = 24
  Garbage <- MCGarbage
  Junk <- MCJunk
  MaxFree = 2
SYMMETRY MCSymmetry
INVARIANT StatsOfSamples
PROPERTY NoCrossTalk
