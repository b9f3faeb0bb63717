\* One invocation killed once: is what it leaves restorable?
CONSTANTS
  p1 = p1
  p2 = p2
  d1 = d1
  None = None
  Other = Other
  Procs <- OneProc
  Dirs <- OneDir
  FilesFail = FALSE
  MaxEdits = 0
  MaxCrashes = 1
SPECIFICATION Spec
INVARIANTS
  PendingIsRestorable
