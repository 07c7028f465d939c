SPECIFICATION Spec
CONSTANTS
  w1 = w1
  w2 = w2
  c1 = c1
  Commands = {c1}
  Targets = {"a"}
  MaxTargets = 1
  Workers = {w1}
  NoWorker = NoWorker
  Regions <- TwoRegions
  NoRegion = NoRegion
  RegionOf <- SameRegion
  LeaseRegionOf <- NoTaskRegion
  Shape <- AllSound
  StoredTasks <- AllStored
  MayFail = TRUE
  MaxLog = 2
  MaxAttempts = 4
  MaxDisruptions = 0

INVARIANTS
  AckOnlyAfterRecord
CHECK_DEADLOCK FALSE
