CONSTANTS
  c1 = c1
  c2 = c2
  c3 = c3
  Containers = {c1}
  NoContainer = NoContainer
  NameOf <- TwoOfOneName
  Layers = {l1}
  LayersOf <- SharedLayers
  Limited = {c1}
  Sessions = {s1, s2}
  Pids = {p1, p2}
  NoPid = NoPid
  Discipline = "concurrent"
  CrashableCommands = {}
  MaxFaults = 0
CHECK_DEADLOCK FALSE
SPECIFICATION FairSpec
PROPERTIES
  StopCompletes
  ExitIsRecorded
  CommandReturns
