CONSTANTS
  Keys = {1, 2, 3, 4, 5}
  MaxNodes = 5
  Removable = {1, 2, 3}
SPECIFICATION FairSpec
INVARIANTS DropFreesOnce PairsStay
PROPERTIES CallReturns RemoveTakesOne
CHECK_DEADLOCK FALSE
