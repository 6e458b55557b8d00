CONSTANTS
  Size = 8
  ParentLists <- MCParentLists
  Families = {8, 16}
  Sizes = {1, 2, 4}
  MaxRows = 4
  PageSize = 2
  PageLimit = 20
SPECIFICATION Spec
CHECK_DEADLOCK FALSE
INVARIANTS
  TypeOK
  ScanAgrees
  FloorIsLowestFree
  AllocateIsExact
  SplitIsExact
  ReservationIsAtTheEnds
