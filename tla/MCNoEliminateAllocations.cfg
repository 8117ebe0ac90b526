SPECIFICATION Spec
CONSTANTS
  N = 3
  F = 2
  L = 1
  Graphs <- MCGraphs
  Worklist <- MCWorklist
  WithCopies = FALSE
  DoStackAllocation = TRUE
  EliminateAllocations = FALSE
  EliminateLocks = TRUE
  EliminateNestedLocks = TRUE
  UseCompressedOops = FALSE
  StackAllocSizeLimit = 256
  EliminateAllocationArraySizeLimit = 64
  CanPopFrame = FALSE
  MaxStackReg = 18
  STACK_REG_BUFFER = 4
  InitialFixedSlots = {2}
INVARIANT NoHeapToStack
CHECK_DEADLOCK FALSE
