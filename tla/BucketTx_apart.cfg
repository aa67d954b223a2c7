SPECIFICATION FairSpec
CONSTANTS
  t1 = t1
  t2 = t2
  p1 = p1
  one = one
  two = two
  word = word
  Nil = Nil
  Never = Never
  NoField = NoField
  Absent = Absent
  Keys = {1, 2}
  Times = {0, 1, 2}
  Patterns <- MCPatterns
  FieldValues <- MCFieldValues
  Rank <- MCRank
  Entries <- MCApart
  Geo = FALSE
  Txs = {t1, t2}
  MaxTime = 2
  MaxDepth = 0
  Rewrites = FALSE
  ViewersWrite = FALSE
INVARIANTS
  DeadlinesComplete
  IndexesComplete
PROPERTIES
  ExpiredLeave
