SPECIFICATION Spec
CONSTANTS
  NULL = NULL
  Names <- MCNames
  Nodes <- MCNodes
  IntMax = 31
CHECK_DEADLOCK FALSE
INVARIANTS TypeOK NoDuplicateInsert ListIsExact AccumulatorHolds DestroyFreesAll
PROPERTIES ImplementsNameMap
