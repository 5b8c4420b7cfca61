SPECIFICATION FairSpec
CONSTANTS
  LeftShift = LeftShift
  RightShift = RightShift
  CapsLock = CapsLock
  Backspace = Backspace
  CharKeys = {A}
  BareKeys = {F1}
  HeldAtBoot = {{}, {LeftShift, A}}
  KEYBOARD_BUF_SIZE = 3
  MaxScans = 4
INVARIANTS
  TypeOK
  ShiftAccounting
  StdinInOrder
  OverrunNeedsBackspace
PROPERTIES
  KeysReachStdin
CHECK_DEADLOCK FALSE
