CONSTANTS
  Sessions = {s1, s2}
  NoOne = NoOne
  LockAttempts = 1
  Serial = TRUE
  MaxCommits = 1
  MaxKills = 0
CHECK_DEADLOCK FALSE
SPECIFICATION Spec
INVARIANTS
  ConsistentBackup
