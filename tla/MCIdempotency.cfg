SPECIFICATION PartsSpec
CONSTANTS
  c1 = c1
  c2 = c2
  c3 = c3
  c4 = c4
  Calls = {c1, c2, c3, c4}
  Payloads = {p1, p2}
  LockTime = 2
  MaxClock = 4
  None = None
  Requests = {c1, c2}
  Sessions = {s1}
  Penalties = {c3, c4}
  Offers <- SomeTerms
  Challenges = {c3, c4}
  MaxAttempts = 2
  f1 = f1
  f2 = f2
  Files = {f1, f2}
  NoFile = NoFile
  Uploads <- SomeUploads
  Take = 1
  Documents = {c1, c2}
  Users = {c3, c4}
  Nobody = Nobody
  MaxEdits = 1
  DeviceIds = {k1}
  Tokens = {t1, t2}
  NoToken = NoToken
  Rows = {1, 2, 3}
  MaxAt = 2
  Limit = 1
  Fields = {c3, c4}
  Services = {w1}
INVARIANTS
  TypeOK
  AnswersAreCommitted
  ExecutedOnceUntilTrouble
  PartsTypeOK
  SessionsAreEntitled
  PenaltiesRule
  CodesAreLimited
  MediaIsKept
  ConsentsStand
  PushesReachTheirUser
  PagesAddUp
  SelectionsFitCatalogue
SYMMETRY Symmetry
CHECK_DEADLOCK FALSE
