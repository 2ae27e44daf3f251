SPECIFICATION Spec
CONSTANTS
  MaxTid = 1
  Mutex = {}
  CleanupMutex = {}
  Cond = {}
  Sem = {}
  Barrier = {}
  NULL = NULL
  MaxSem = 0
  Policy = "first"
  Ops = {"create", "finish", "exit"}
INVARIANT DeadlockHasVictim
