SPECIFICATION Spec
CONSTANTS
  ann = ann  bob = bob  annC = annC  bobP = bobP
  Users = {ann, bob}
  None = None
  Customers = {annC}
  Photographers = {bobP}
  Owner <- RoleOwner
  MatchIds = {m1}
  InterestIds = {i1}
  Requests = {r1, r2}
  Cooldown = 1
  MaxClock = 0
SYMMETRY Symmetry
INVARIANTS BlockedUsersHaveNoActiveMatch
CHECK_DEADLOCK FALSE
