SPECIFICATION Spec
CONSTANTS
  MaxTid = 2
  Mutex = {}
  CleanupMutex = {}
  Cond = {}
  Sem = {s1}
  Barrier = {b1}
  NULL = NULL
  MaxSem = 2
  Policy = "any"
  Ops = {"create", "finish", "join", "semwait", "sempost", "semDestroy", "barrier", "barrierDestroy"}
INVARIANTS
  EnabledTracking
  DeadlockIsReal
  NoInternalAssert
PROPERTIES
  DestroyedSemUntouched
