SPECIFICATION LuaSpec
CONSTANTS
  MAXINDEXRK = 3
  LFIELDS_PER_FLUSH = 2
  MAXSTACK = 30
  MAXARG_sBx = 100
  MAXARG_C = 3
  LUAI_MAXVARS = 20
  LUAI_MAXUPVALUES = 4
  LUAI_MAXCCALLS = 12
  BASIC_CI_SIZE = 5
  LUAI_MAXCALLS = 40
  MAXTAGLOOP = 4
  Programs <- MCPrograms
  StrLess <- MCStrLess
  NumeralOf <- MCNumeralOf
  NumText <- MCNumText
  CharOf <- MCCharOf
  Compile <- MCCompile
INVARIANTS   MachineSound
PROPERTY UpvaluesKeepTheirValue
CHECK_DEADLOCK FALSE
