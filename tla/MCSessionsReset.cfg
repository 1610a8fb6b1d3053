SPECIFICATION Spec
CONSTANTS
  Sessions = {s1, s2}
  Families = {f1}
  Grants = {g1}
  Requests = {r1, r2}
  None = None
INVARIANT
  ResetEndsSessions
CHECK_DEADLOCK FALSE
