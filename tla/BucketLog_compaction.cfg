CONSTANTS
  a = a
  b = b
  v = v
  w = w
  INSERT = INSERT
  DELETE = DELETE
  Empty = Empty
  NilOptions = NilOptions
  Nil = Nil
  NoFile = NoFile
  Words <- MCWords
  Coords <- MCCoords
  Second = 2
  KeyOrder <- MCKeyOrder
  Entries <- MCTwoEntries
  Freqs <- EachOnly
  CompactFactor = 1
  Chunk = 2
  Batch = 2
  Tears = {2}
  MaxStatements = 2
  MaxStarts = 1
  MaxFailures = 0
SPECIFICATION Spec
INVARIANTS Condensed
CHECK_DEADLOCK FALSE
