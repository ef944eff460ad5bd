\* One domain: three windows, a restart, inserts and merges on one day.
CONSTANTS
  Domains <- OneDomain
  FlushBatch = 1
  BufferSize = 2
  MinBuffer = 1
  RetrainEvery = 2
  MinLive = 1
  MaxWindows = 3
  MaxTime = 1
  MaxStarts = 2
  MaxChecks = 0
  DayLength = 2
SPECIFICATION Spec
INVARIANTS TypeOK EveryMessageAccounted AlertConservation LatestSurvives
           ModelsTrackTraffic
CHECK_DEADLOCK FALSE
