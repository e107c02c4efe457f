SPECIFICATION FairOpsSpec
CONSTANTS
  Backups = {b1, b2}
  KEEP = 1
  KEEP_WEEKS = 2
  WEEK = 2
  MAX_STAMP = 4
  MAX_MARKS = 1
INVARIANTS RotationKeeps  BackupRemembered
PROPERTIES PauseFollowsSpace
