\* Three events every two ticks, the real backoff base with a cap it reaches.
CONSTANTS
  btc = btc
  shop = shop
  Entity = {btc, shop}
  RateUp = 3
  RateDown = 2
  Base = 200
  Cap = 500
  MaxShift = 2
  MaxTicks = 3
  MaxFaults = 2
SPECIFICATION Spec
INVARIANTS TypeOK TopicInOrder NothingSkipped RateHeld BackoffFollowsOutage
PROPERTIES FeedResumes FeedIsOrdered
CHECK_DEADLOCK FALSE
