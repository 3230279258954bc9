SPECIFICATION FairSpec
CONSTANTS
  Nodes = {n1, n2}
  Pulls = {0, 1, 2}
  Syncs = {s1, s2, s3}
  Main = Main
  MaxChanges = 2
  MaxLosses = 1
  None = None
  Values = 8
  Absent = Absent
INVARIANTS
  TypeOK
  OneController
  SyncGoesOn
  StatusSound
PROPERTY Converges
CHECK_DEADLOCK FALSE
