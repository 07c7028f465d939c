SPECIFICATION Spec
CONSTANTS
  Commands = {c1}
  Handlers = {h1, h2, h3}
  Targets = {"a"}
  MaxTargets = 1
  Keys = {"k"}
  Ops <- DecisionOps
  MayFail = FALSE
  MayDrop = FALSE
  MaxSends = 1
  NoCommand = NoCommand
  NoEnvelope = NoEnvelope
SYMMETRY Symmetry
INVARIANTS
  DecisionsAgree
CHECK_DEADLOCK FALSE
