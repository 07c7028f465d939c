SPECIFICATION Spec
CONSTANTS
  Commands = {c1}
  Handlers = {h1, h2, h3}
  Targets = {"a", "b"}
  MaxTargets = 2
  Keys = {"k"}
  Ops <- AllOps
  MayFail = TRUE
  MayDrop = TRUE
  MaxSends = 1
  NoCommand = NoCommand
  NoEnvelope = NoEnvelope
SYMMETRY Symmetry
INVARIANTS
  QueuedMeansPublished
CHECK_DEADLOCK FALSE
