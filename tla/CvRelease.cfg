SPECIFICATION SyncSpec
CONSTANTS
  MaxThreads = 4
  UserQueues = {l1, c1}
  Locks = {l1}
  CVs = {c1}
  ExitCodes = {0}
  Calls = {"create", "lock", "cv", "lock_create", "cv_create"}
  Structured = FALSE
  Drift = 0
  Disciplined = TRUE
  KillsInside = FALSE
INVARIANT WaitersAsleep
