\* What connections are sent and what a tab shows, within the Bounds of MCLiveFeed.
CONSTANTS
  a = a
  b = b
  Tab = {a, b}
  BacklogSize = 2
  MaxShown = 2
  MaxAlerts = 2
  MaxSent = 3
  MaxStored = 2
  MaxMetrics = 1
  MaxConns = 3
  MaxRestarts = 1
SPECIFICATION Spec
INVARIANTS TypeOK MissedOnlyBeforeBacklog ShownAsOftenAsSent NoGapPerConnection OneBadClient
CONSTRAINT Bounds
SYMMETRY Tabs
CHECK_DEADLOCK FALSE
