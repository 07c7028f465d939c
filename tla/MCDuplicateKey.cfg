SPECIFICATION Spec
CONSTANTS
  Commands = {c1, c2}
  Handlers = {h1, h2}
  Targets = {"a"}
  MaxTargets = 1
  Keys = {"k"}
  Ops <- DecisionOps
  MayFail = FALSE
  MayDrop = FALSE
  MaxSends = 1
  NoCommand = NoCommand
  NoEnvelope = NoEnvelope
SYMMETRY Symmetry
INVARIANTS
  OneReleasePerKey
CHECK_DEADLOCK FALSE
