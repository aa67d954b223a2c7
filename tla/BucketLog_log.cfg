CONSTANTS
  a = a
  b = b
  v = v
  w = w
  INSERT = INSERT
  DELETE = DELETE
  Empty = Empty
  NilOptions = NilOptions
  Nil = Nil
  NoFile = NoFile
  Words <- MCWords
  Coords <- MCCoords
  Second = 2
  KeyOrder <- MCKeyOrder
  Entries <- MCTwoEntries
  Freqs <- AllFreqs
  CompactFactor = 1
  Chunk = 2
  Batch = 2
  Tears = {1, 2, 3}
  MaxStatements = 2
  MaxStarts = 3
  MaxFailures = 2
SPECIFICATION Spec
INVARIANTS TypeOK KeepsCopy LogPlusBuffer EachDurable NeverProlonged
PROPERTIES Implements
CONSTRAINT UpToHarm
CHECK_DEADLOCK FALSE
