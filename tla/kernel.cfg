SPECIFICATION MCSpec
CONSTANTS
  \* StrLib
  Chars = {97, 98, 200}
  MaxStr = 3
  MemSize = 8
  WordSize = 2
  \* Format
  Width = 12
  MexpLimit = 1000
  FmtCalls <- MCFmtCalls
  \* Numerals
  LongWidth = 8
  DBL_MIN_EXP <- MinExp
  DBL_MAX_EXP = 20
  NumTexts <- MCNumTexts
  OldPointers <- MCOldPointers
  NumBases = {10, 8, 16, 2}
  \* Vfs
  FileNames <- MCFileNames
  DataBytes = {"#", "nl", "nul"}
  GROW = 1
  LUAL_BUFFERSIZE = 2
  RootSlots = 2
  Handles = {1}
  MaxSize = 3
  Offsets = {0, 1, 3}
  MaxBytes = 3
  \* Console
  SCREEN_WIDTH = 4
  SCREEN_HEIGHT = 2
  TabStop = 2
  Printable = {"a"}
  Colors <- MCColors
  LastColor = 3
  Margin = 3
  MaxEvents = 3
  Texts <- MCTexts
  \* Machine
  Maps <- MCMaps
  WordLimit = 3
  Waits = {2}
  Trigger = 2
  FifoSize = 3
  MaxOpen = 2
  MaxRequests = 2
  MaxBytesIn = 3
  \* StrMatch and TabLib
  LUA_MAXCAPTURES = 3
  MatchCalls <- MCMatchCalls
  TableCells = 8
  TabCalls <- MCTabCalls
INVARIANTS
  
  
  
  
  ScreenTrue
  SeenIsRun
  MachineSafe
  MatchesAreRight
  TableLibraryRight
PROPERTIES
  
  AlwaysGoesOn
CHECK_DEADLOCK FALSE
