SPECIFICATION Spec
CONSTANTS
  Bookings = {b1}
  Requests = {r1, r2}
  MaxTime = 3
  None = None
PROPERTY
  TermsFrozenAfterPending
CHECK_DEADLOCK FALSE
