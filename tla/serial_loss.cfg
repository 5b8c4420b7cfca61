SPECIFICATION Spec
CONSTANTS
  SERIAL_BUF_SIZE = 8
  MaxBytes = 4
INVARIANTS
  KernelDataIntact
