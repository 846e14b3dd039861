\* Up to five blocks of memory; two names that differ in case.
SPECIFICATION Spec
CONSTANTS
  None = None
  N = 5
  App <- Apps
  Name <- OneName
  ConstName <- OneConst
  Lower <- LowerAA
  MaxArray = 2
  CircularLimit = 1
INVARIANTS HeapOK ListsAreLinked NothingLeaks
PROPERTIES ImplementsForest
CHECK_DEADLOCK FALSE
