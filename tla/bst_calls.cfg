CONSTANTS
  Keys = {1, 2, 3, 4}
  MaxNodes = 5
  Removable = {1, 2, 3, 4}
SPECIFICATION Spec
INVARIANTS TypeOK PairsStay DropFreesOnce
PROPERTIES RemoveTakesOne RemoveForgetsOneNode InsertKeepsOrder RefinesDictionary
CHECK_DEADLOCK FALSE
