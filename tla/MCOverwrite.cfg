SPECIFICATION PlatformSpec
CONSTANTS
  Commands = {c1}
  Targets = {"a"}
  MaxTargets = 1
  Handlers = {h1}
  Keys = {"k"}
  Ops <- DecisionOps
  NoCommand = NoCommand
  NoEnvelope = NoEnvelope
  Workers = {w1}
  NoWorker = NoWorker
  Regions <- OneRegion
  NoRegion = NoRegion
  RegionOf <- SameRegion
  LeaseRegionOf <- NoTaskRegion
  Shape <- AllSound
  MaxLog = 1
  MaxAttempts = 6
  MaxDisruptions = 0
  MayFail = FALSE
  MayDrop = FALSE
  MaxSends = 1
INVARIANTS
  RecordedIsShown
CHECK_DEADLOCK FALSE
