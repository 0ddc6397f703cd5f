SPECIFICATION Spec
CONSTANTS
  Width = 8
  Cells = {1, 7}
  Strings = {}
  MaxBytes = 3
INVARIANTS
  LastInFirstOut
CHECK_DEADLOCK FALSE
