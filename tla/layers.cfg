CONSTANTS
  Callers = {a, b, c}
  Sharing <- Both
  Killable <- EnsureWhenShared
  MaxCount = 3
  MaxKills = 1
CHECK_DEADLOCK FALSE
SYMMETRY Symmetry
SPECIFICATION Spec
INVARIANTS
  LayerInv
PROPERTIES
  CountsReferences
