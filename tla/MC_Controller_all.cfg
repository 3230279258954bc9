SPECIFICATION Spec
CONSTANTS
  NodeCfgs <- TwoPulls
  UserLists <- ListsOrNone
  Monitors = {m1, m2}
  MaxChanges = 4
  Faults = {"node", "decode", "user", "cert", "addnode", "addusers", "delusers"}
  MayUnlist = TRUE
  None = None
  vless = vless
  hysteria2 = hysteria2
  alice = alice
  bob = bob
CHECK_DEADLOCK FALSE
INVARIANTS
  TypeOK
  InboundHasLimiter
  SingleInbound
  MonitorReachable
  RemovedIsGone
  ServedUsersKnown
PROPERTY NoOtherPanic
