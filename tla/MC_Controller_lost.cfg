SPECIFICATION FairSpec
CONSTANTS
  NodeCfgs <- OnePull
  UserLists <- Lists
  Monitors = {m1}
  MaxChanges = 2
  Faults = {"user"}
  MayUnlist = FALSE
  None = None
  vless = vless
  hysteria2 = hysteria2
  alice = alice
  bob = bob
CHECK_DEADLOCK FALSE
PROPERTY Converges
