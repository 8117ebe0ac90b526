SPECIFICATION AUSpec
CONSTANTS
  Node = {1, 2, 3}
  Start = 1
  Uses <- MCUses
INVARIANT OverlapExhaustive
CHECK_DEADLOCK FALSE
