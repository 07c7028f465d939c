SPECIFICATION Spec
CONSTANTS
  RawIds <- Spellings
  ValueOf <- Values
  Missing <- NoId
  Workers = {w1}
  Tasks <- OneRoute
  NoTask = NoTask
  Second = 2
  RetryAfters = {4}
  MaxTime = 4
  MaxDisruptions = 1
INVARIANT PenaltyKept
CHECK_DEADLOCK FALSE
