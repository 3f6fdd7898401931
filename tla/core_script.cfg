CONSTANTS
  c1 = c1
  c2 = c2
  c3 = c3
  Containers = {c1, c2, c3}
  NoContainer = NoContainer
  NameOf <- TwoOfOneName
  Layers = {l1}
  LayersOf <- SharedLayers
  Limited = {c1}
  Sessions = {s1, s2, s3}
  Pids = {p1, p2}
  NoPid = NoPid
  Discipline = "script"
  CrashableCommands = {"create", "start", "stop"}
  MaxFaults = 1
CHECK_DEADLOCK FALSE
SYMMETRY Symmetry
SPECIFICATION Spec
INVARIANTS
  OneEnginePerVolume
  StoppedMeansDead
  RunningIsWired
  NeverUndercounted
PROPERTIES
  ImplementsLifecycle
