SPECIFICATION Spec
CONSTANTS
  Events = {e1}
  Devices = {d1, d2}
  Relays = {p1, p2}
  Workers = {w1, w2}
  Attempts = 2
  MaxStalls = 1
  MaxCrashes = 1
  MaxRequeues = 1
  Environments <- CalmToHostile
  None = None
INVARIANTS
  TypeOK
  PublishedMeansDelivered
  FailedAfterAllAttempts
  RepeatsOnlyAfterLoss
  OneWorkerPerEvent
PROPERTY
  PublishedIsFinal
SYMMETRY Symmetry
CHECK_DEADLOCK FALSE
