\* Expected to fail: a window scored again on the next day lands in another partition.
CONSTANTS
  Domains <- OneDomain
  FlushBatch = 1
  BufferSize = 1
  MinBuffer = 1
  RetrainEvery = 1
  MinLive = 1
  MaxWindows = 2
  MaxTime = 2
  MaxStarts = 2
  MaxChecks = 0
  DayLength = 2
SPECIFICATION Spec
INVARIANT OneAlertPerWindow
CHECK_DEADLOCK FALSE
