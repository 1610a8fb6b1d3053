SPECIFICATION FairSpec
CONSTANTS
  Events = {e1}
  Devices = {d1}
  Relays = {p1}
  Workers = {w1}
  Attempts = 2
  MaxStalls = 1
  MaxCrashes = 0
  MaxRequeues = 1
  Environments <- CalmOnly
  None = None
PROPERTY
  RequeueIsAttempted
CHECK_DEADLOCK FALSE
