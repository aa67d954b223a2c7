SPECIFICATION FairSpec
CONSTANTS
  c1 = c1
  c2 = c2
  b1 = b1
  b2 = b2
  perf = perf
  NoBucket = NoBucket
  RunManager = RunManager
  NoOne = NoOne
  Clients = {c1, c2}
  Bkts = {b1}
  Calls <- Few
  SyncAtTicks = FALSE
  Overlap = FALSE
PROPERTIES
  CallsReturn
  ManagersEnd
