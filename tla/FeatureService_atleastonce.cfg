\* Expected to fail: auto-commit covers events that only memory holds.
CONSTANTS
  m = m
  p = p
  Entity = {m}
  WindowSize <- TwoTicks
  WindowStep <- TwoTicks
  BatchSize = 1
  MaxEvents = 2
  MaxTime = 3
  MaxStarts = 2
SPECIFICATION Spec
INVARIANT AtLeastOnce
CHECK_DEADLOCK FALSE
