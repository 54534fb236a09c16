CONSTANTS
  Keys = {1, 2, 3}
  MaxNodes = 3
  Removable = {1, 2, 3}
SPECIFICATION Spec
PROPERTIES RemoveReturnsItsValue
CHECK_DEADLOCK FALSE
