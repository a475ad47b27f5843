SPECIFICATION Spec
CONSTANTS
  MaxThreads = 4
  UserQueues = {q1}
  ExitCodes = {0, 1}
  Calls = {"yield", "create", "exit", "wait"}
  Structured = TRUE
  Drift = 3
INVARIANT WaitFindsTarget
