SPECIFICATION MCSpec
CONSTANTS
  StackWords <- MCStackWords
  CallerWords <- MCCallerWords
  Objects <- MCObjects
  TypeArrays <- MCTypeArrays
  CalleeMap <- MCCalleeMap
  Forward <- MCForward
  OWStarts <- MCOWStarts
  MaxWalks = 2
  BEStarts <- MCBEStarts
  Mutators = {"m1", "m2"}
  HeapStart = 8
  HeapEnd = 20
  RegionWords = 4
  CardWords = 2
  Wrap = 32
  FieldsOf <- MCFieldsOf
  WeakFields = {13}
  FreshObject = 16
  QueueSize = 1
  G1Starts <- MCG1Starts
INVARIANTS FrameUpdated ChecksKept RemSetComplete MarkingComplete
CHECK_DEADLOCK FALSE
