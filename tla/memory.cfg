SPECIFICATION MCSpec
CONSTANTS
  ArenaUnits = 11
  ImageUnits = 2
  Base = 8
  Requests = {1, 8, 9}
  WordSpan = 65536
  MaxBlocks = 4
  KeyNumbers = {1, 2, 3, 5}
  KeyStrings = {"a", "b"}
  Contents = {1}
  MaxFaults = 1
  MaxSteps = 6
  Hash <- MCHash
  MaxObjects = 3
  StackSlots = 2
  GCSWEEPMAX = 2
  MaxOps = 3
  MaxCycles = 1
INVARIANTS
  TypeOK
  DataDisjoint
  ListOffData
  SortedRing
  
  NothingReachableIsFreed
  GarbageIsFreed
PROPERTIES
  NullOnlyWhenFull
  ReallocKeepsContents
  CallsReturn
CHECK_DEADLOCK FALSE
