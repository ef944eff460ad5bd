\* Expected to fail: a client leaves while a broadcast awaits another client's send.
CONSTANTS
  a = a
  b = b
  Tab = {a, b}
  BacklogSize = 1
  MaxShown = 1
  MaxAlerts = 1
  MaxSent = 1
  MaxStored = 0
  MaxMetrics = 0
  MaxConns = 2
  MaxRestarts = 0
SPECIFICATION Spec
INVARIANT RelaySurvives
CHECK_DEADLOCK FALSE
