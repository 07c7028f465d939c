SPECIFICATION Spec
CONSTANTS
  w1 = w1
  w2 = w2
  c1 = c1
  Commands = {c1}
  Targets = {"a"}
  MaxTargets = 3
  Workers = {w1, w2}
  NoWorker = NoWorker
  Regions <- TwoRegions
  NoRegion = NoRegion
  RegionOf <- OwnRegion
  LeaseRegionOf <- NoTaskRegion
  Shape <- LastZero
  StoredTasks <- FirstStored
  MayFail = FALSE
  MaxLog = 2
  MaxAttempts = 3
  MaxDisruptions = 1
INVARIANTS
  TypeOK
  EvidenceChain
  ExecutedInOrder
  RowIsBacked
PROPERTIES
  ImplementsTaskLog
CHECK_DEADLOCK FALSE
