SPECIFICATION SyncSpec
CONSTANTS
  MaxThreads = 3
  UserQueues = {l1, c1}
  Locks = {l1}
  CVs = {c1}
  ExitCodes = {0}
  Calls = {"create", "yield", "exit", "kill", "wait", "lock", "cv", "lock_create", "cv_create", "lock_destroy", "cv_destroy"}
  Structured = FALSE
  Drift = 0
  Disciplined = TRUE
  KillsInside = FALSE
INVARIANTS SyncTypeOK LockHeldOnce NoStrandedWaiter NoHang OnePlace NoThreadLost
PROPERTY LockProgress
