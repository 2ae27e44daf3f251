-------------------------- MODULE ExecutionTracker --------------------------
(***************************************************************************)
(* The serializer: thread life cycle, mutexes, condition variables,        *)
(* semaphores and barriers put together, for an arbitrary application      *)
(* that makes the calls in Ops in any order.                               *)
(***************************************************************************)
EXTENDS ThreadLifecycle, CondTracker, SemTracker, BarrierTracker

\* The constructor runs initializeThreadData for the main thread.
Init ==
  /\ curr_id = 0
  /\ enable_map = [t \in Tid |-> t = 0]
  /\ finish_map = [t \in Tid |-> FALSE]
  /\ join_map = [t \in Tid |-> UNJOINED]
  /\ lock_ready_map = [t \in Tid |-> NULL]
  /\ lock_wait_map = [t \in Tid |-> NULL]
  /\ sem_ready_map = [t \in Tid |-> NULL]
  /\ sem_wait_map = [t \in Tid |-> NULL]
  /\ cond_map = [t \in Tid |-> NULL]
  /\ wait_ready_map = [t \in Tid |-> TRUE]
  /\ was_signalled_map = [t \in Tid |-> TRUE]
  /\ sem_map = [t \in Tid |-> 0]
  /\ wait_sem_map = [t \in Tid |-> 0]
  /\ thread_map = [t \in Tid |-> NULL]
  /\ barrier_count = [b \in Barrier |-> 0]
  /\ mutex_destroy = {} /\ cond_destroy = {} /\ sem_destroy = {} /\ barrier_destroy = {}
  /\ mutex = [m \in AllMutex |-> FREE]
  /\ semval \in [Sem -> 0..MaxSem]
  /\ pc = [t \in Tid |-> IF t = 0 THEN "app" ELSE "none"]
  /\ call = [t \in Tid |-> "none"]
  /\ arg = [t \in Tid |-> NULL]
  /\ newchoice = [t \in Tid |-> INVALID_THREAD]
  /\ joined = {}
  /\ status = "running"

\* A call of the application.
AppStep(t) ==
  \/ MyMemoryAccess(t) \/ SimulateSleep(t) \/ thrilleCheckpoint(t)
  \/ thrilleSchedPoint(t) \/ ProgramError(t)
  \/ BeforeCreate(t) \/ ThreadFinish(t) \/ SimulateExit(t) \/ BeforeJoin(t)
  \/ BeforeMutexLock(t) \/ BeforeMutexTrylock(t) \/ MutexUnlock(t)
  \/ SimulateMutexDestroy(t) \/ BeforeMutexInit(t) \/ InvalidMutexFault(t)
  \/ SimulateCondWait(t) \/ SimulateCondTimedwait(t)
  \/ BeforeCondSignal(t, "signal") \/ BeforeCondSignal(t, "broadcast")
  \/ SimulateCondDestroy(t) \/ BeforeCondInit(t)
  \/ BeforeSemWait(t) \/ SimulateSemPost(t)
  \/ SimulateSemDestroy(t) \/ BeforeSemInit(t)
  \/ BeforeBarrierInit(t) \/ BeforeBarrierWait(t) \/ SimulateBarrierDestroy(t)

\* The library, or the original pthread function, going on with a call.
LibStep(t) ==
  \/ pauseThread(t) \/ AfterCreate(t) \/ ThreadStart(t) \/ JoinReturns(t)
  \/ CleanupUnlock(t) \/ ThreadDies(t)
  \/ SimulateMutexLock(t) \/ SimulateMutexTrylock(t) \/ AfterMutexUnlock(t)
  \/ waitPauseThread(t) \/ LeaveCond(t) \/ BeforeRelock(t)
  \/ signalThreadReady(t) \/ TimedwaitEnd(t)
  \/ scheduleThreadWaitingOnCond(t) \/ waitThreadReady(t) \/ SignalEnd(t)
  \/ SimulateSemWait(t)

\* The process is gone.
Ended == status # "running" /\ UNCHANGED vars

Next ==
  \/ \E t \in Tid : AppStep(t) \/ LibStep(t) \/ CleanupLock(t)
  \/ MainReturns
  \/ Ended

Spec == Init /\ [][Next]_vars

\* The operating system runs every thread that is inside the library.
FairSpec == Spec /\ \A t \in Tid : WF_vars(LibStep(t))

-----------------------------------------------------------------------------
(***************************************************************************)
(* Properties                                                              *)
(***************************************************************************)

\* The object of each call, and the calls of some control points.
ArgOK ==
  \A t \in Tid :
    /\ call[t] \in {"lock", "trylock", "condwait", "timedwait"} => arg[t] \in Mutex
    /\ call[t] = "semwait" => arg[t] \in Sem
    /\ call[t] = "join" => arg[t] \in Tid
    /\ call[t] \in {"signal", "broadcast"} => arg[t] \in Cond
    /\ pc[t] = "unlocking" => arg[t] \in Mutex
    /\ pc[t] = "cleanup" => arg[t] \in CleanupMutex
    /\ pc[t] \in {"cwait", "woken", "relock", "ready", "timed"}
         => call[t] \in {"condwait", "timedwait"}
    /\ pc[t] \in {"sigwake", "sigwait"}
         => newchoice[t] \in Tid /\ call[t] \in {"signal", "broadcast"}

\* The shapes of the tracker's maps (executiontracker.h).
TypeOK ==
  /\ curr_id \in Tid
  /\ enable_map \in [Tid -> BOOLEAN]
  /\ finish_map \in [Tid -> BOOLEAN]
  /\ join_map \in [Tid -> Tid \cup {UNJOINED}]
  /\ lock_ready_map \in [Tid -> AllMutex \cup {NULL}]
  /\ lock_wait_map \in [Tid -> AllMutex \cup {NULL}]
  /\ sem_ready_map \in [Tid -> Sem \cup {NULL}]
  /\ sem_wait_map \in [Tid -> Sem \cup {NULL}]
  /\ cond_map \in [Tid -> Cond \cup {NULL}]
  /\ wait_ready_map \in [Tid -> BOOLEAN]
  /\ was_signalled_map \in [Tid -> BOOLEAN]
  /\ sem_map \in [Tid -> Nat]
  /\ wait_sem_map \in [Tid -> Nat]
  /\ thread_map \in [Tid -> Barrier \cup {NULL}]
  /\ barrier_count \in [Barrier -> 0..(MaxTid + 1)]
  /\ mutex_destroy \subseteq Mutex
  /\ cond_destroy \subseteq Cond
  /\ sem_destroy \subseteq Sem
  /\ barrier_destroy \subseteq Barrier
  /\ mutex \in [AllMutex -> Tid \cup {FREE, DESTROYED}]
  /\ semval \in [Sem -> 0..MaxSem]
  /\ pc \in [Tid -> PC]
  /\ call \in [Tid -> Calls]
  /\ arg \in [Tid -> Object \cup Tid \cup {NULL}]
  /\ newchoice \in [Tid -> Tid \cup {INVALID_THREAD}]
  /\ joined \subseteq Tid
  /\ status \in Status
  /\ ArgOK

\* Where a thread holds the right to run: in application code or in the part
\* of a call that no other thread may overlap.
ActivePC == {"app", "launched", "creating", "unlocking", "joining",
             "sigwake", "sigwait", "sigend"}

\* The right to run is with t: it runs, it has been launched and not yet
\* resumed, or a timeout has been handed to it.
HasBaton(t) == pc[t] \in ActivePC \/ sem_map[t] > 0 \/ ~was_signalled_map[t]

\* The serialization invariant of doc/error.log: launchThread hands the right
\* to run to one thread and the caller gives it up, so exactly one thread has
\* it for as long as the process runs, and nobody is launched twice.
Serialized ==
  status = "running" =>
    /\ \E t \in Tid : HasBaton(t)
    /\ \A t, u \in Tid : HasBaton(t) /\ HasBaton(u) => t = u
    /\ \A t \in Tid :
         /\ sem_map[t] <= 1
         /\ pc[t] \in ActivePC => sem_map[t] = 0 /\ was_signalled_map[t]
         /\ sem_map[t] = 1 => was_signalled_map[t]

\* Control points at which a thread has told the tracker what it waits for.
InCallPC == {"paused", "cwait", "timed"}

\* What the real objects would let a thread that is inside a call do.
CanProceed(t) ==
  IF pc[t] = "cwait" THEN call[t] = "timedwait"
  ELSE CASE call[t] = "point"   -> thread_map[t] = NULL
         [] call[t] \in {"lock", "condwait", "timedwait"} -> mutex[arg[t]] \notin Tid
         [] call[t] = "semwait" -> semval[arg[t]] > 0
         [] call[t] = "join"    -> pc[arg[t]] \in {"finishing", "cleanup", "dead"}
         [] OTHER               -> TRUE

\* The program locks a mutex it has destroyed; nothing is promised to it.
LocksDestroyed(t) ==
  call[t] \in {"lock", "condwait", "timedwait"} /\ mutex[arg[t]] = DESTROYED

\* enable_map is exact (README: the serializer "tracks which threads are
\* enabled"): a thread inside a call is enabled if and only if its call could
\* complete now, except for the moment between a real unlock and
\* AfterMutexUnlock; application code is enabled, finished threads are not.
EnabledTracking ==
  status = "running" =>
    \A t \in Tid :
      /\ pc[t] \in InCallPC /\ ~LocksDestroyed(t) =>
           \/ enable_map[t] = CanProceed(t)
           \/ /\ ~enable_map[t]
              /\ \E u \in Tid : pc[u] = "unlocking" /\ arg[u] = arg[t]
      /\ pc[t] = "app" => enable_map[t]
      /\ pc[t] \in {"none", "finishing", "cleanup", "dead"} => ~enable_map[t]

\* When deadlockCheck reports a deadlock, no thread could have gone on, nor is
\* a finished thread about to release what one waits for.
DeadlockIsReal ==
  status = "deadlock" =>
    \A t \in 0..curr_id :
      \/ pc[t] \in {"finishing", "cleanup", "dead"}
      \/ /\ pc[t] \in InCallPC
         /\ LocksDestroyed(t) \/ ~CanProceed(t)
         /\ \A u \in Tid : pc[u] = "cleanup" => arg[u] # arg[t]

\* No safe_assert about the tracker's own state can fail (registerThreadJoin,
\* SimulateSemWait, threadHasPassedSemaphore, BeforeBarrierWait,
\* thrilleSchedPoint, checkForDanglingThreads).
NoInternalAssert == status # "assert"

\* The target a signaller took from its unlocked copy of cond_map still
\* waits there when the signaller posts it and has no other wake-up pending,
\* so that a waiter is woken once, by a signal or by a timeout.
SignalTargetWaits ==
  \A t \in Tid :
    /\ status = "running" => wait_sem_map[t] <= 1
    /\ (status = "running" /\ pc[t] = "sigwake") =>
         LET u == newchoice[t] IN
         pc[u] = "cwait" /\ cond_map[u] = arg[t] /\ wait_sem_map[u] = 0

\* A broadcast comes back only when nobody waits on the condition any more.
BroadcastWakesAll ==
  \A t \in Tid :
    (status = "running" /\ pc[t] = "sigend" /\ call[t] = "broadcast")
      => Waiters(arg[t]) = {}

\* Until it is initialised again, a destroyed semaphore is neither passed nor
\* posted: both halves of sem_wait, and sem_post, check its validity.
DestroyedSemUntouched ==
  [][\A s \in Sem : s \in sem_destroy /\ s \in sem_destroy' => semval'[s] = semval[s]]_vars

\* A deadlock is reported for the sake of some thread that is not finished.
DeadlockHasVictim ==
  status = "deadlock" => \E t \in 0..curr_id : ~finish_map[t]

\* The library never swallows the right to run: again and again application
\* code runs, until the process ends.
Progress == []<>(status # "running" \/ \E t \in Tid : pc[t] = "app")

\* A signal or broadcast returns: the handshake through wait_ready_map and
\* signal_cond, repeated by a broadcast for each waiter, comes to an end.
SignalReturns ==
  \A t \in Tid :
    pc[t] \in {"sigwake", "sigwait"} ~> pc[t] \in {"sigend", "paused", "app"} \/ status # "running"

=============================================================================
