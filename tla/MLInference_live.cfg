\* Liveness of one run of the process, both domains on the one worker.
CONSTANTS
  Domains <- TwoDomains
  FlushBatch = 1
  BufferSize = 1
  MinBuffer = 1
  RetrainEvery = 1
  MinLive = 1
  MaxWindows = 1
  MaxTime = 0
  MaxStarts = 1
  MaxChecks = 1
  DayLength = 1
SPECIFICATION FairSpec
INVARIANT ScoresReportedOnce
PROPERTIES ConsumptionContinues AlertsSettle
CHECK_DEADLOCK FALSE
