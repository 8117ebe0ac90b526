SPECIFICATION GCSpec
CONSTANTS
  Allocs = {"a", "b"}
  Calls = {"c"}
  Consts = {"k"}
  phantom_obj = "phantom"
  null_obj = "null"
  Vars = {"pa", "va", "pb", "vb", "x", "y", "r"}
  Fields = {"f", "g"}
  Arraycopies = {"ac"}
  JavaObjects <- MCJavaObjects
  OffsetBot = 99
  CG_BUILD_ITER_LIMIT = 4
  Starts <- MCStarts
  Methods <- MCMethods
  Ranks <- MCRanks
INVARIANTS PointsToClosed EscapeFinal FieldsInitialized EscapeSound
PROPERTY CGTerminates
CHECK_DEADLOCK FALSE
