SPECIFICATION Spec
CONSTANTS
  c1 = c1
  c2 = c2
  b1 = b1
  b2 = b2
  perf = perf
  NoBucket = NoBucket
  RunManager = RunManager
  NoOne = NoOne
  Clients = {c1, c2}
  Bkts = {b1, b2}
  Calls <- Several
  SyncAtTicks = FALSE
  Overlap = TRUE
INVARIANTS
  TypeOK
  TxSeesOpen
  BucketExclusion
  IdleHoldsNothing
  EndedInNobodysWay
SYMMETRY
  Alike
