SPECIFICATION Spec
CONSTANTS
  Tasks = {t1, t2}
  OutFragments = 3
  ErrFragments = 1
  MaxRequests = 2
CHECK_DEADLOCK FALSE
INVARIANTS
  FollowInv
PROPERTIES
  ExitTellsOfTasks
  FollowEnds
  OnlyANativeStartBlocks
