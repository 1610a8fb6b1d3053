SPECIFICATION FairSpec
CONSTANTS
  ann = ann  bob = bob  annC = annC  bobP = bobP
  Users = {ann, bob}
  None = None
  Customers = {annC}
  Photographers = {bobP}
  Owner <- RoleOwner
  MatchIds = {m1, m2}
  InterestIds = {i1, i2}
  Requests = {r1, r2}
  Cooldown = 1
  MaxClock = 0
PROPERTIES EveryRequestEnds
CHECK_DEADLOCK FALSE
