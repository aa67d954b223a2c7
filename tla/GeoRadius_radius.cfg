CONSTANTS
  Entries <- MCEntries
  Points <- MCPoints
  Radii = {1, 4, 5}
  MaxEntries = 4
  MaxLeaves = 2
SPECIFICATION Spec
INVARIANTS NothingBeyond NothingMissed
CHECK_DEADLOCK FALSE
