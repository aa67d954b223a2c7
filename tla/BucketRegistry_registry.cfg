CONSTANTS
  a = a
  ab = ab
  one = one
  twelve = twelve
  NoBucket = NoBucket
  NoText = NoText
  Names <- MCNames
  SplitNames = {}
  Options <- MCOptions
  Shortened <- MCShortened
  Freqs <- AllFreqs
  FileMultLimit = 2
  MaxCalls = 4
  MaxStarts = 3
SPECIFICATION Spec
INVARIANTS TypeOK BucketsAreRegistered NoneInvented
PROPERTIES RestartKeeps
CHECK_DEADLOCK FALSE
