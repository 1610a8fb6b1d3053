SPECIFICATION Spec
CONSTANTS
  Sessions = {s1, s2, s3, s4}
  Families = {f1, f2}
  Grants = {g1}
  Requests = {r1, r2, r3}
  None = None
INVARIANTS
  TypeOK
  ReplacementsAreChain
  OneResetPerGrant
PROPERTY
  FollowsTokenFamily
SYMMETRY Symmetry
CHECK_DEADLOCK FALSE
