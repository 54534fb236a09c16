CONSTANTS
  Keys = {1, 2, 3, 4, 5}
  MaxNodes = 5
  Removable = {}
SPECIFICATION Spec
INVARIANTS AllFound
CHECK_DEADLOCK FALSE
