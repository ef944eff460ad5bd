\* Two tabs wait for an alert while clients leave and others join in their place.
CONSTANTS
  a = a
  b = b
  Tab = {a, b}
  BacklogSize = 1
  MaxShown = 1
  MaxAlerts = 1
  MaxSent = 1
  MaxStored = 0
  MaxMetrics = 0
  MaxConns = 3
  MaxRestarts = 0
SPECIFICATION FairSpec
PROPERTY AlertsReachClients
CHECK_DEADLOCK FALSE
