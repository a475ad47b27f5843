SPECIFICATION SyncSpec
CONSTANTS
  MaxThreads = 4
  UserQueues = {l1, c1}
  Locks = {l1}
  CVs = {c1}
  ExitCodes = {0}
  Calls = {"create", "kill", "lock", "lock_create"}
  Structured = FALSE
  Drift = 0
  Disciplined = TRUE
  KillsInside = TRUE
INVARIANT NoStrandedWaiter
