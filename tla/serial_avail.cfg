SPECIFICATION Spec
CONSTANTS
  SERIAL_BUF_SIZE = 3
  MaxBytes = 5
INVARIANTS
  AvailIsGuaranteed
CHECK_DEADLOCK FALSE
