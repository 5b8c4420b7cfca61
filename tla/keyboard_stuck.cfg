SPECIFICATION Spec
CONSTANTS
  LeftShift = LeftShift
  RightShift = RightShift
  CapsLock = CapsLock
  Backspace = Backspace
  CharKeys = {A}
  BareKeys = {F1}
  HeldAtBoot = {{}}
  KEYBOARD_BUF_SIZE = 3
  MaxScans = 4
INVARIANTS
  ShiftMeansHeld
CHECK_DEADLOCK FALSE
