SPECIFICATION MCSpec
CONSTANTS
  Allocs <- MCAllocs
  Safepoints = {1, 2}
  nfields <- MCFields
  uses <- MCUses
  held <- MCHeld
  reach <- MCReach
  Arrays = {"b"}
  Klass <- MCKlass
  Writes <- MCWrites
  MaxLocals = 4
  MaxStack = 3
  MaxWrites = 2
  MaxDeopts = 2
  Threads = {"t1", "t2"}
  Sites = {1}
  HasData = {1}
  Reasons = {"null_check", "class_check"}
  PerBytecode = {"null_check", "class_check"}
  Actions = {"make_not_entrant"}
  PerBytecodeTrapLimit = 2
  PerMethodTrapLimit = 3
  PerBytecodeRecompilationCutoff = 0
  MaxTrap = 2
  MaxCompiles = 10
  Regs = {1, 2, 3, 4, 5, 6, 7}
  Programs <- BOPrograms
  ShortRange = 8
  LongSize = 4
  ShortSize = 2
  NopSize = 1
  LoopAlignment = 4
  MaxLoopPad = 2
  LoopInstrs = 2
  SchedRegs = {1, 2, 3, 4, 5}
  MaxPinch = 4
INVARIANTS
  RollbackExact FieldsDisjoint ReplacedEverywhere StackObjectsDescribed
  DecodedAsRecorded FrameRestored ThreadStateRestored DeoptInfoFreed
  RecompilationEnds
  UsedValuesDescribed LayoutKeepsFlow BranchesReach TablesMatch ScheduleKeepsMeaning
CHECK_DEADLOCK FALSE
