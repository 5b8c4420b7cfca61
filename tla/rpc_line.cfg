SPECIFICATION FairSpec
CONSTANTS
  BASE = 4
  RequestLens = {1, 16}
  BodyLens = {2, 7, 20}
  SplitReads = TRUE
  MaxRequests = 4
  MaxLosses = 1
INVARIANTS
  TypeOK
  FreshStart
PROPERTIES
  ImplementsPromise
  EveryRequestAnswered
CHECK_DEADLOCK FALSE
