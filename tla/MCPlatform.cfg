SPECIFICATION PlatformFairSpec
CONSTANTS
  Commands = {c1}
  Targets = {"a"}
  MaxTargets = 2
  Handlers = {h1, h2, h3}
  Keys = {"k"}
  Ops <- DecisionOps
  NoCommand = NoCommand
  NoEnvelope = NoEnvelope
  Workers = {w1}
  NoWorker = NoWorker
  Regions <- OneRegion
  NoRegion = NoRegion
  RegionOf <- SameRegion
  LeaseRegionOf <- NoTaskRegion
  Shape <- LastMalformed
  MaxLog = 6
  MaxAttempts = 6
  MaxDisruptions = 0
  MayFail = FALSE
  MayDrop = TRUE
  MaxSends = 1
INVARIANTS
  PlatformTypeOK
PROPERTIES
  KeepsPromise
  AcceptedIsExecuted
CHECK_DEADLOCK FALSE
