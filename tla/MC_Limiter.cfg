SPECIFICATION Spec
CONSTANTS
  Users = {alice}
  IPs = {i1, i2}
  Infos <- Both
  FirstInfos <- Slow
  NewInfos <- Fast
  Checks = {c1, c2}
  Maps = {m1, m2}
  MaxAlive = 1
  MaxChecks = 2
  MaxUpdates = 1
  None = None
INVARIANTS
  TypeOK
  ReportedOnce
  DeviceRemembered
  BucketCurrent
  LimitHolds
SYMMETRY Symmetry
VIEW Observed
CHECK_DEADLOCK FALSE
