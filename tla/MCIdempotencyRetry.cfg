SPECIFICATION Spec
CONSTANTS
  Calls = {c1, c2, c3}
  Payloads = {p1}
  LockTime = 2
  MaxClock = 1
  None = None
INVARIANT
  RetriesExecuteOnce
CHECK_DEADLOCK FALSE
