SPECIFICATION FairSpec
CONSTANTS
  w1 = w1
  w2 = w2
  c1 = c1
  Commands = {c1}
  Targets = {"a"}
  MaxTargets = 2
  Workers = {w1, w2}
  NoWorker = NoWorker
  Regions <- TwoRegions
  NoRegion = NoRegion
  RegionOf <- SameRegion
  LeaseRegionOf <- NoTaskRegion
  Shape <- OneMalformed
  StoredTasks <- FirstStored
  MayFail = FALSE
  MaxLog = 2
  MaxAttempts = 4
  MaxDisruptions = 1

PROPERTIES
  EveryTaskHandled
CHECK_DEADLOCK FALSE
