\* One entity, windows of two ticks; sweeps run late and catch up; one restart.
CONSTANTS
  m = m
  p = p
  Entity = {m}
  WindowSize <- TwoTicks
  WindowStep <- TwoTicks
  BatchSize = 1
  MaxEvents = 2
  MaxTime = 4
  MaxStarts = 2
SPECIFICATION Spec
INVARIANTS TypeOK WindowedExactlyOnce WindowTimes BaselineIsThePast RowConservation
PROPERTIES ResumeNeverSkips WindowsTumble
CHECK_DEADLOCK FALSE
