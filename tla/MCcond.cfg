SPECIFICATION FairSpec
CONSTANTS
  MaxTid = 2
  Mutex = {m1}
  CleanupMutex = {}
  Cond = {c1}
  Sem = {}
  Barrier = {}
  NULL = NULL
  MaxSem = 0
  Policy = "any"
  Ops = {"create", "finish", "join", "lock", "trylock", "unlock", "condwait", "timedwait", "signal", "broadcast", "condDestroy"}
INVARIANTS
  Serialized
  EnabledTracking
  SignalTargetWaits
  BroadcastWakesAll
PROPERTIES
  Implements
  Progress
  SignalReturns
