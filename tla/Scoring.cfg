\* Five windows of one entity, one of another, one training, a restart.
CONSTANTS
  btc = btc
  card = card
  Market = {btc}
  Payments = {card}
  Window <- Windows
  Learned = {200, 990}
  VelocityWindows = 2
  MinBuffer = 4
  MaxWindows <- Lengths
  MaxRaises = 1
  MaxTrainings <- Trainings
SPECIFICATION Spec
INVARIANTS DetectorsSeeOwnHistory WarmUpOnlyWatches RegimeChangeHasDrift CalibrationOfOwnModel
CHECK_DEADLOCK FALSE
