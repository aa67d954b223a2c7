CONSTANTS
  Entries <- MCEntries
  Points <- MCPoints
  Radii = {1, 4, 5}
  MaxEntries = 4
  MaxLeaves = 2
SPECIFICATION Spec
INVARIANTS BoundaryAsDocumented
CHECK_DEADLOCK FALSE
