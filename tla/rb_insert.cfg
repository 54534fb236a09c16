CONSTANTS
  Keys = {1, 2, 3, 4, 5, 6, 7, 8, 9, 10, 11, 12, 13, 14, 15, 16, 17, 18, 19, 20}
  MaxNodes = 20
  Removable = {}
  AnyOrder = 7
SPECIFICATION Spec
INVARIANTS TypeOK LinksAgree KeysInOrder ColorsRight Balanced AssertsHold DriverSafe
PROPERTIES RefinesDictionary LoopClimbs
CONSTRAINT Orders
CHECK_DEADLOCK FALSE
