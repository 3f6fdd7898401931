CONSTANTS
  Children = {"t1", "t2"}
  Kernel <- NewerKernel
  Known <- FewCaps
  SystemDirs = {"usr"}
  Volumes = {"data"}
  Width = 2
  MaxFaults = 1
CHECK_DEADLOCK FALSE
SPECIFICATION FairSpec
INVARIANTS
  HelperInv
  ConfinedWhenRunning
  NeverRefused
  NoOrphans
  LostToAnEarlyFailure
PROPERTIES
  HelperDeathIsSeen
