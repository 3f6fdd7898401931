CONSTANTS
  c1 = c1
  c2 = c2
  c3 = c3
  Containers = {c1}
  NoContainer = NoContainer
  NameOf <- TwoOfOneName
  Layers = {l1}
  LayersOf <- SharedLayers
  Limited = {}
  Sessions = {s1, s2}
  Pids = {p1}
  NoPid = NoPid
  Discipline = "script"
  CrashableCommands = {}
  MaxFaults = 0
CHECK_DEADLOCK FALSE
SPECIFICATION Spec
INVARIANTS
  OnlyDestroyedIsTerminal
