SPECIFICATION Spec
CONSTANTS
  ArenaUnits = 9
  ImageUnits = 2
  Base = 8
  Requests = {1, 8, 9}
  WordSpan = 65536
  MaxBlocks = 4
PROPERTIES
  FreedIsReusable
CHECK_DEADLOCK FALSE
