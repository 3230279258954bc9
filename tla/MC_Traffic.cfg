SPECIFICATION FairSpec
CONSTANTS
  Nodes = {n1}
  Types = {vless, trojan}
  Controllers = {k1}
  Uuids = {u1}
  Conns = {c1, c2}
  Storages = {s1}
  MaxCounters = 2
  MaxBytes = 2
  MaxChanges = 2
  ReportLoops = 2
  ReportMinTraffic = 0
  PlainIO = TRUE
  CoreFails = TRUE
  None = None
INVARIANTS
  TypeOK
  NoByteTakenTwice
  NoZeroUid
PROPERTIES
  StaysInReach
  EventuallyCollected
CHECK_DEADLOCK FALSE
