SPECIFICATION SessionSpec
CONSTANTS
  Variants = {v1, v2}
  MAX_HISTORY = 1
  MaxEdits = 2
  None = None
  Own = own
  Backup = backup
  Others = {other}
  Quota = 2
  MaxSaves = 2
  MaxSessions = 3
INVARIANTS SessionTypeOK HistoryInLockStep RefreshKeepsEdits OverlapsNeedRetries
PROPERTIES ImplementsUndoTimeline BackupWaitsForTheUser
SYMMETRY VariantSymmetry
CHECK_DEADLOCK FALSE
