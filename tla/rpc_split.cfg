SPECIFICATION Spec
CONSTANTS
  BASE = 4
  RequestLens = {1, 2}
  BodyLens = {0, 1}
  SplitReads = TRUE
  MaxRequests = 1
  MaxLosses = 0
INVARIANTS
  ServerSurvives
CHECK_DEADLOCK FALSE
