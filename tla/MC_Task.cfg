SPECIFICATION FairSpec
CONSTANTS
  Loops = {l1, l2, l3}
  MaxStarts = 3
INVARIANTS
  TypeOK
  CloseNeverPanics
  RunningHasLoop
  NoAbandonedLoop
PROPERTIES
  ClosedTaskEnds
  RunningTaskExecutes
CHECK_DEADLOCK FALSE
