SPECIFICATION PeeledSpec
CONSTANTS
  TrackedLimit = 56
  ArrayShortSize = 4
  ComplexityLimit = 3
  MaxWalk = 50
  MaxNodes = 40
  ValueSearchLimit = 2
  Threads = {1, 2, 3}
  MaxDepth = 2
  MaxEpoch = 1
INVARIANT LocksBalanced
CHECK_DEADLOCK FALSE
