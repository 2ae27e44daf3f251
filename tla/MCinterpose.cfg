CONSTANTS
  t0 = t0
  t1 = t1
  Thread = {t0, t1}
  Main = t0
  Unresolvable = {"exit", "atfork"}
  CalledElsewhere = {"create", "mutex_lock", "mutex_trylock", "mutex_unlock", "cond_wait", "once", "join", "exit", "self", "rwlock_rdlock"}
  MaxDepth = 2
SPECIFICATION Spec
INVARIANTS StartsOnce OneBaton NoUncontrolledBlocking
CHECK_DEADLOCK FALSE
