CONSTANTS
  UpdateBackup = 5
  MaxBackup = 2
  MaxTotal = 2
  CommandMask = 5
  MaxGap = 4
  Backups = {0, 1, 3}
  ServerPauses = TRUE
  MaxSequence = 7
SPECIFICATION Spec
INVARIANTS HonestIsKept RunOnce
PROPERTIES OneRunPerFrame CarriedIsRun
CHECK_DEADLOCK FALSE
VIEW FreshView
