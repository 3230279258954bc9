SPECIFICATION Spec
CONSTANTS
  NodeCfgs <- OnePull
  UserLists <- Lists
  Monitors = {m1}
  MaxChanges = 2
  Faults = {"cert"}
  MayUnlist = FALSE
  None = None
  vless = vless
  hysteria2 = hysteria2
  alice = alice
  bob = bob
CHECK_DEADLOCK FALSE
INVARIANT NodeUp
