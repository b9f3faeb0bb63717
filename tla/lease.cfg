\* Two invocations, one state directory, kills, failing files, edits.
CONSTANTS
  p1 = p1
  p2 = p2
  d1 = d1
  None = None
  Other = Other
  Procs <- TwoProcs
  Dirs <- OneDir
  FilesFail = TRUE
  MaxEdits = 1
  MaxCrashes = 2
SPECIFICATION FairSpec
INVARIANTS
  OriginalRecoverable
PROPERTIES
  RestoreIsExact
  BackupOutlivesPatch
  LockIsReleased
  SettingsComeBack
