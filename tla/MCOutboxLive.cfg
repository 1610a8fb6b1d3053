SPECIFICATION FairSpec
CONSTANTS
  Events = {e1, e2}
  Devices = {d1}
  Relays = {p1, p2}
  Workers = {w1}
  Attempts = 2
  MaxStalls = 1
  MaxCrashes = 1
  MaxRequeues = 0
  Environments <- CalmOnly
  None = None
PROPERTY
  EventSettles
CHECK_DEADLOCK FALSE
