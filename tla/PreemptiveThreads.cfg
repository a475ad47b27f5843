SPECIFICATION FairSpec
CONSTANTS
  MaxThreads = 3
  UserQueues = {q1}
  ExitCodes = {0, 1}
  Calls = {"yield", "create", "exit", "kill", "queue", "sleep", "wakeup", "wait"}
  Structured = FALSE
  Drift = 0
INVARIANTS TypeOK OnePlace NoThreadLost TidPartition StackSafe WaiterHasTarget KilledNeverRuns
PROPERTIES ReadyRuns WaitReturns KilledExits LifeSpec
