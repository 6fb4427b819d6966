SPECIFICATION FairCaptureSpec
CONSTANTS
  e1 = e1
  e2 = e2
  old = old
  Events = {e1, e2, old}
  Old = {old}
  Overlap = 1
  Window = 1
  Lag = 1
  MaxTime = 3
  MaxEvents = 2
  BatchSize = 2
  MaxFaults = 1
CHECK_DEADLOCK FALSE
INVARIANT NothingMissed
PROPERTY EveryEventIsStored
