SPECIFICATION Spec
CONSTANTS
  Commands = {c1, c2}
  Handlers = {h1, h2, h3}
  Targets = {"a"}
  MaxTargets = 1
  Keys = {"k", "l"}
  Ops <- AllOps
  MayFail = TRUE
  MayDrop = TRUE
  MaxSends = 2
  NoCommand = NoCommand
  NoEnvelope = NoEnvelope
SYMMETRY Symmetry
INVARIANTS
  TypeOK
  ApprovalPrecedesRelease
  SentOncePerRelease
CHECK_DEADLOCK FALSE
