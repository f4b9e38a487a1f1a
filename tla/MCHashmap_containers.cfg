SPECIFICATION Spec
CONSTANTS
  NULL = NULL
  Junk = Junk
  k1 = k1
  k2 = k2
  k3 = k3
  k4 = k4
  Keys = {k1, k2, k3, k4}
  Hash <- MCHash
  Elements <- MCElements
  Nodes <- MCNodes
  InitialMax <- MCInitialMax
  DEFAULT_EXPAND_RATE = 2
  DEFAULT_NUMBER_OF_BUCKETS = 2
  MaxEntries = 2
  MaxEnd = 5
  Oom = TRUE
INVARIANTS PushStaysInside HoldsItems UnusedAreNull FindFinds SortsSort NodesAreOwned 
