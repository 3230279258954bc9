SPECIFICATION Spec
CONSTANTS
  Nodes = {n1, n2}
  Types = {vless}
  Controllers = {k1, k2}
  Uuids = {u1}
  Conns = {c1}
  Storages = {s1, s2}
  MaxCounters = 1
  MaxBytes = 2
  MaxChanges = 2
  ReportLoops = 2
  ReportMinTraffic = 0
  PlainIO = FALSE
  CoreFails = FALSE
  None = None
INVARIANTS
  InboundUsersKnown
CHECK_DEADLOCK FALSE
