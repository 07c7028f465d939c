SPECIFICATION Spec
CONSTANTS
  RawIds <- Spellings
  ValueOf <- Values
  Missing <- NoId
  Workers = {w1}
  Tasks <- OneRefused
  NoTask = NoTask
  Second = 2
  RetryAfters = {0, 5}
  MaxTime = 4
  MaxDisruptions = 1
INVARIANTS
  TypeOK
  WaitBounded
  ThreePerWindow
  PenaltyServed
CHECK_DEADLOCK FALSE
