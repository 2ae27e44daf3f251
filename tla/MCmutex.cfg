SPECIFICATION Spec
CONSTANTS
  MaxTid = 2
  Mutex = {m1, m2}
  CleanupMutex = {k1}
  Cond = {}
  Sem = {}
  Barrier = {}
  NULL = NULL
  MaxSem = 0
  Policy = "any"
  Ops = {"create", "finish", "exit", "join", "return", "point", "memory", "sleep", "checkpoint", "error", "lock", "unlock", "trylock", "mutexDestroy"}
INVARIANTS
  TypeOK
  Serialized
  EnabledTracking
  DeadlockIsReal
