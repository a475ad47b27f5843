SPECIFICATION Spec
CONSTANTS
  MaxThreads = 3
  UserQueues = {q1}
  ExitCodes = {0}
  Calls = {"yield", "create", "exit", "wait"}
  Structured = FALSE
  Drift = 0
INVARIANT WaitOnce
