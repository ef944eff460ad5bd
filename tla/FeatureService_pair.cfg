\* Two entities with different windows share the sweep, its awaits and the batches.
CONSTANTS
  m = m
  p = p
  Entity = {m, p}
  WindowSize <- Mixed
  WindowStep <- Cut
  BatchSize = 2
  MaxEvents = 1
  MaxTime = 3
  MaxStarts = 1
SPECIFICATION FairSpec
PROPERTY EventuallyStored
CHECK_DEADLOCK FALSE
