SPECIFICATION MCSpec
CONSTANTS
  Node = {1, 2, 3}
  Start = 1
  Uses <- MCUses
  N = 3
  F = 2
  L = 1
  Graphs <- MCGraphs
  Worklist <- MCWorklist
  DoStackAllocation = TRUE
  EliminateAllocations = TRUE
  EliminateLocks = TRUE
  EliminateNestedLocks = TRUE
  UseCompressedOops = FALSE
  StackAllocSizeLimit = 256
  EliminateAllocationArraySizeLimit = 64
INVARIANTS ChainsSafe ReferencedExact ChainsMaximal UniqueTypesCurrent CompressedExact OverlapFromLater
PROPERTIES AnalysisEnds
CHECK_DEADLOCK FALSE
