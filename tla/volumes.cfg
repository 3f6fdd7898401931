CONSTANTS
  Sessions = {s1, s2}
  NoOne = NoOne
  LockAttempts = 2
  Serial = TRUE
  MaxCommits = 2
  MaxKills = 1
SYMMETRY Symmetry
CHECK_DEADLOCK FALSE
SPECIFICATION Spec
INVARIANTS
  VolumeInv
PROPERTIES
  FinishedBackupIsExact
  CommitsSurviveStarts
  EngineFindsAll
