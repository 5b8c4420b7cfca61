SPECIFICATION FairSpec
CONSTANTS
  SERIAL_BUF_SIZE = 4
  MaxBytes = 6
INVARIANTS
  TypeOK
  FifoUnlessRaced
  SurvivorsInOrder
  NoByteInvented
  RunawayCopyNeedsFlush
PROPERTIES
  EveryByteDelivered
CHECK_DEADLOCK FALSE
