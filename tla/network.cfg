CONSTANTS
  Sessions = {s1, s2, s3}
  Containers <- FewContainers
  Address <- OneAddress
  Ports <- SomePorts
  Limited = {"db"}
  NoOne = NoOne
  MaxAttempts = 2
  MaxFaults = 2
CHECK_DEADLOCK FALSE
SYMMETRY AnySession
CONSTRAINT FewStarts
SPECIFICATION Spec
INVARIANTS
  WiringInv
  OnNetwork
  UniqueAddresses
  
  LimitsHold
PROPERTIES
  OnlyLateCleanupDisconnects
