SPECIFICATION Spec
CONSTANTS
  ann = ann  bob = bob  annC = annC  bobP = bobP
  Users = {ann, bob}
  None = None
  Customers = {annC}
  Photographers = {bobP}
  Owner <- RoleOwner
  MatchIds = {m1, m2}
  InterestIds = {i1, i2}
  Requests = {r1, r2, r3}
  Cooldown = 1
  MaxClock = 2
SYMMETRY Symmetry
INVARIANTS TypeOK OneActiveMatchPerPair CreateFindsKeyFree MatchColumnsAgree OneDecisionPerInterest AcceptHasMatch
PROPERTIES CooldownRespected
CHECK_DEADLOCK FALSE
