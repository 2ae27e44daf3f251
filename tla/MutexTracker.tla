---------------------------- MODULE MutexTracker ----------------------------
(***************************************************************************)
(* Mutexes: lock, trylock, unlock, init and destroy.                       *)
(***************************************************************************)
EXTENDS TrackerState

\* determineLockStatus probes the real mutex with trylock.  Any answer but
\* EBUSY (a destroyed mutex gives EINVAL) makes the thread ready.
determineLockStatus(t, m) ==
  IF mutex[m] \in Tid
  THEN /\ enable_map' = [enable_map EXCEPT ![t] = FALSE]
       /\ lock_wait_map' = [lock_wait_map EXCEPT ![t] = m]
       /\ UNCHANGED lock_ready_map
  ELSE /\ enable_map' = [enable_map EXCEPT ![t] = TRUE]
       /\ lock_ready_map' = [lock_ready_map EXCEPT ![t] = m]
       /\ UNCHANGED lock_wait_map

\* Mutant: the other ready threads stay enabled.
threadHasAcquiredLock_NoDisable(t, m) ==
  /\ lock_ready_map' = [lock_ready_map EXCEPT ![t] = NULL]
  /\ UNCHANGED <<lock_wait_map, enable_map>>

\* threadHasAcquiredLock: the other threads that were ready on m now wait.
threadHasAcquiredLock(t, m) ==
  LET losers == {u \in Tid \ {t} : lock_ready_map[u] = m} IN
  /\ lock_ready_map' = [u \in Tid |-> IF u = t \/ u \in losers THEN NULL ELSE lock_ready_map[u]]
  /\ lock_wait_map' = [u \in Tid |-> IF u \in losers THEN m ELSE lock_wait_map[u]]
  /\ enable_map' = [u \in Tid |-> u \notin losers /\ enable_map[u]]

\* threadHasReleasedLock: every thread waiting on m becomes ready.  en is
\* enable_map with what the caller assigned to it.
threadHasReleasedLock(m, en) ==
  LET freed == {u \in Tid : lock_wait_map[u] = m} IN
  /\ lock_ready_map' = [u \in Tid |-> IF u \in freed THEN m ELSE lock_ready_map[u]]
  /\ lock_wait_map' = [u \in Tid |-> IF u \in freed THEN NULL ELSE lock_wait_map[u]]
  /\ enable_map' = [u \in Tid |-> u \in freed \/ en[u]]

\* Originals::pthread_mutex_trylock
TryAcquire(t, m) == mutex' = IF mutex[m] = FREE THEN [mutex EXCEPT ![m] = t] ELSE mutex

BeforeMutexLock(t) ==
  /\ Running(t)
  /\ "lock" \in Ops
  /\ \E m \in Mutex :
       /\ determineLockStatus(t, m)
       /\ UNCHANGED <<mutex, mutex_destroy, threadVars, semVars, condVars, barrierVars>>
       /\ Schedule
       /\ Goto(t, "paused", "lock", m)

\* Also the end of a wait on a condition variable, where it runs unlocked.
SimulateMutexLock(t) ==
  /\ status = "running"
  /\ pc[t] = "launched"
  /\ call[t] \in {"lock", "condwait", "timedwait"}
  /\ threadHasAcquiredLock(t, arg[t])
  /\ TryAcquire(t, arg[t])
  /\ Goto(t, "app", "none", NULL)
  /\ UNCHANGED <<mutex_destroy, launchVars, threadVars, semVars, condVars, barrierVars>>

BeforeMutexTrylock(t) ==
  /\ Running(t)
  /\ "trylock" \in Ops
  /\ \E m \in Mutex :
       /\ enable_map' = [enable_map EXCEPT ![t] = TRUE]
       /\ UNCHANGED <<threadVars, lockVars, semVars, condVars, barrierVars>>
       /\ Schedule
       /\ Goto(t, "paused", "trylock", m)

SimulateMutexTrylock(t) ==
  /\ status = "running"
  /\ pc[t] = "launched"
  /\ call[t] = "trylock"
  /\ IF mutex[arg[t]] = FREE
     THEN threadHasAcquiredLock(t, arg[t])
     ELSE UNCHANGED <<lock_ready_map, lock_wait_map, enable_map>>
  /\ TryAcquire(t, arg[t])
  /\ Goto(t, "app", "none", NULL)
  /\ UNCHANGED <<mutex_destroy, launchVars, threadVars, semVars, condVars, barrierVars>>

\* Probing a destroyed mutex is undefined: EINVAL, or a segmentation fault.
InvalidMutexFault(t) ==
  /\ status = "running"
  /\ \/ pc[t] = "app" /\ "lock" \in Ops /\ \E m \in Mutex : mutex[m] = DESTROYED
     \/ /\ pc[t] = "launched"
        /\ call[t] \in {"lock", "trylock", "condwait", "timedwait"}
        /\ mutex[arg[t]] = DESTROYED
  /\ Halt("error")
  /\ UNCHANGED <<enable_map, threadVars, lockVars, semVars, condVars,
                 barrierVars, controlVars>>

\* The wrapper unlocks the real mutex first ...
MutexUnlock(t) ==
  /\ Running(t)
  /\ "unlock" \in Ops
  /\ \E m \in Mutex :
       /\ mutex[m] = t
       /\ mutex' = [mutex EXCEPT ![m] = FREE]
       /\ Goto(t, "unlocking", "none", m)
  /\ UNCHANGED <<lock_ready_map, lock_wait_map, mutex_destroy, enable_map,
                 launchVars, threadVars, semVars, condVars, barrierVars>>

\* ... and tells the tracker afterwards.
AfterMutexUnlock(t) ==
  /\ status = "running"
  /\ pc[t] = "unlocking"
  /\ threadHasReleasedLock(arg[t], enable_map)
  /\ UNCHANGED <<mutex, mutex_destroy, threadVars, semVars, condVars, barrierVars>>
  /\ Schedule
  /\ Goto(t, "paused", "point", NULL)

\* The real destroy refuses a held mutex (EBUSY), the tracker marks it anyway.
SimulateMutexDestroy(t) ==
  /\ Running(t)
  /\ "mutexDestroy" \in Ops
  /\ \E m \in Mutex :
       /\ mutex_destroy' = mutex_destroy \cup {m}
       /\ mutex' = IF mutex[m] = FREE THEN [mutex EXCEPT ![m] = DESTROYED] ELSE mutex
  /\ UNCHANGED <<lock_ready_map, lock_wait_map, enable_map, launchVars,
                 threadVars, semVars, condVars, barrierVars, controlVars>>

\* The program initialises a mutex nobody is about to lock.
BeforeMutexInit(t) ==
  /\ Running(t)
  /\ "mutexDestroy" \in Ops
  /\ \E m \in Mutex :
       /\ mutex[m] = DESTROYED
       /\ \A u \in Tid : arg[u] # m
       /\ mutex_destroy' = mutex_destroy \ {m}
       /\ mutex' = [mutex EXCEPT ![m] = FREE]
  /\ UNCHANGED <<lock_ready_map, lock_wait_map, enable_map, launchVars,
                 threadVars, semVars, condVars, barrierVars, controlVars>>

=============================================================================
