SPECIFICATION FairSpec
CONSTANTS
  e1 = e1
  e2 = e2
  bad = bad
  other = other
  Events = {e1, e2}
  Output <- Log
  EventOf <- LineEvents
  Malformed = Malformed
  Foreign = Foreign
  Files = 2
  MaxEvents = 1
  BatchSize = 2
  MaxFaults = 2
CHECK_DEADLOCK FALSE
INVARIANT NothingSkipped
PROPERTY DeliverySpec
PROPERTY EveryLineIsStored
