CONSTANTS
  MaxRows = 2
  MaxCols = 19
  Sides = {4, 12}
  Guard = 8
SPECIFICATION Spec
CHECK_DEADLOCK FALSE
INVARIANTS RowsRight PlanesRight GroupsRight
