SPECIFICATION HistorySpec
CONSTANTS
  NodeCfgs <- OnePull
  UserLists <- Lists
  Monitors = {m1}
  MaxChanges = 3
  Faults = {"node", "startusers"}
  MayUnlist = FALSE
  None = None
  vless = vless
  hysteria2 = hysteria2
  alice = alice
  bob = bob
CHECK_DEADLOCK FALSE
PROPERTIES Converges RunsForward
