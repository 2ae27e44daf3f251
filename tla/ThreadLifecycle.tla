-------------------------- MODULE ThreadLifecycle --------------------------
(***************************************************************************)
(* Creation, start, join and end of threads.                               *)
(***************************************************************************)
EXTENDS TrackerState

\* Originals::pthread_self and the wrapper's getNextTID give the child the
\* next id; initializeThreadData resets its entries.
BeforeCreate(t) ==
  /\ Running(t)
  /\ "create" \in Ops
  /\ curr_id < MaxTid
  /\ LET child == curr_id + 1 IN
     /\ curr_id' = child
     /\ enable_map' = [enable_map EXCEPT ![child] = TRUE]
     /\ finish_map' = [finish_map EXCEPT ![child] = FALSE]
     /\ join_map' = [join_map EXCEPT ![child] = UNJOINED]
     /\ lock_wait_map' = [lock_wait_map EXCEPT ![child] = NULL]
     /\ lock_ready_map' = [lock_ready_map EXCEPT ![child] = NULL]
     /\ sem_wait_map' = [sem_wait_map EXCEPT ![child] = NULL]
     /\ sem_ready_map' = [sem_ready_map EXCEPT ![child] = NULL]
     /\ cond_map' = [cond_map EXCEPT ![child] = NULL]
     /\ wait_ready_map' = [wait_ready_map EXCEPT ![child] = TRUE]
     /\ was_signalled_map' = [was_signalled_map EXCEPT ![child] = TRUE]
     /\ sem_map' = [sem_map EXCEPT ![child] = 0]
     /\ wait_sem_map' = [wait_sem_map EXCEPT ![child] = 0]
     /\ pc' = [pc EXCEPT ![t] = "creating", ![child] = "starting"]
  /\ UNCHANGED <<call, arg, status, joined, mutex, mutex_destroy, semval,
                 sem_destroy, newchoice, cond_destroy, barrierVars>>

\* Mutant: the creator goes on without waiting for its turn.
AfterCreate_NoPause(t) ==
  /\ status = "running"
  /\ pc[t] = "creating"
  /\ UNCHANGED <<enable_map, threadVars, lockVars, semVars, condVars, barrierVars>>
  /\ Schedule
  /\ Goto(t, "app", "none", NULL)

AfterCreate(t) ==
  /\ status = "running"
  /\ pc[t] = "creating"
  /\ UNCHANGED <<enable_map, threadVars, lockVars, semVars, condVars, barrierVars>>
  /\ Schedule
  /\ Goto(t, "paused", "point", NULL)

ThreadStart(t) ==
  /\ status = "running"
  /\ pc[t] = "starting"
  /\ Goto(t, "paused", "point", NULL)
  /\ UNCHANGED <<enable_map, launchVars, threadVars, lockVars, semVars,
                 condVars, barrierVars>>

\* Mutant: the joiner is not enabled.
finalizeThread_NoJoiner(t) ==
  /\ finish_map' = [finish_map EXCEPT ![t] = TRUE]
  /\ enable_map' = [enable_map EXCEPT ![t] = FALSE]
  /\ UNCHANGED <<curr_id, join_map, joined, lockVars, semVars, condVars, barrierVars>>
  /\ Schedule
  /\ Goto(t, "finishing", "none", NULL)

\* finalizeThread: mark the thread finished, enable its joiner, schedule.
finalizeThread(t) ==
  /\ finish_map' = [finish_map EXCEPT ![t] = TRUE]
  /\ enable_map' = LET off == [enable_map EXCEPT ![t] = FALSE]
                   IN IF join_map[t] # UNJOINED
                      THEN [off EXCEPT ![join_map[t]] = TRUE] ELSE off
  /\ UNCHANGED <<curr_id, join_map, joined, lockVars, semVars, condVars, barrierVars>>
  /\ Schedule
  /\ Goto(t, "finishing", "none", NULL)

\* The start routine returns (ThreadFinish; the main thread has none) ...
ThreadFinish(t) ==
  /\ Running(t)
  /\ "finish" \in Ops
  /\ t # 0
  /\ finalizeThread(t)

\* ... or the thread calls pthread_exit.
SimulateExit(t) ==
  /\ Running(t)
  /\ "exit" \in Ops
  /\ finalizeThread(t)

(***************************************************************************)
(* What the original pthread_exit runs after the tracker let go of the     *)
(* thread: it may lock and unlock a mutex, which BeforeMutexLock and       *)
(* AfterMutexUnlock pass through because the thread is finished.  Bound:   *)
(* one such critical section per thread.                                   *)
(***************************************************************************)
CleanupLock(t) ==
  /\ status = "running"
  /\ pc[t] = "finishing"
  /\ \E m \in CleanupMutex :
       /\ mutex[m] = FREE
       /\ mutex' = [mutex EXCEPT ![m] = t]
       /\ Goto(t, "cleanup", "none", m)
  /\ UNCHANGED <<lock_ready_map, lock_wait_map, mutex_destroy, enable_map,
                 launchVars, threadVars, semVars, condVars, barrierVars>>

CleanupUnlock(t) ==
  /\ status = "running"
  /\ pc[t] = "cleanup"
  /\ mutex' = [mutex EXCEPT ![arg[t]] = FREE]
  /\ Goto(t, "dead", "none", NULL)
  /\ UNCHANGED <<lock_ready_map, lock_wait_map, mutex_destroy, enable_map,
                 launchVars, threadVars, semVars, condVars, barrierVars>>

ThreadDies(t) ==
  /\ status = "running"
  /\ pc[t] = "finishing"
  /\ Goto(t, "dead", "none", NULL)
  /\ UNCHANGED <<enable_map, launchVars, threadVars, lockVars, semVars,
                 condVars, barrierVars>>

\* registerThreadJoin asserts that nobody else waits for the target.
BeforeJoin(t) ==
  /\ Running(t)
  /\ "join" \in Ops
  /\ \E u \in Tid \ ({t} \cup joined) :
       /\ u <= curr_id
       /\ joined' = joined \cup {u}
       /\ enable_map' = [enable_map EXCEPT ![t] = finish_map[u]]
       /\ join_map' = IF finish_map[u] THEN join_map ELSE [join_map EXCEPT ![u] = t]
       /\ UNCHANGED <<curr_id, finish_map, lockVars, semVars, condVars, barrierVars>>
       /\ IF finish_map[u] \/ join_map[u] = UNJOINED
          THEN Schedule ELSE Halt("assert")
       /\ Goto(t, "paused", "join", u)

\* The original pthread_join returns once the thread is really gone.
JoinReturns(t) ==
  /\ status = "running"
  /\ pc[t] = "joining"
  /\ pc[arg[t]] = "dead"
  /\ Goto(t, "app", "none", NULL)
  /\ UNCHANGED <<enable_map, launchVars, threadVars, lockVars, semVars,
                 condVars, barrierVars>>

\* main returns: ~ExecutionTracker runs checkForDanglingThreads.
MainReturns ==
  /\ Running(0)
  /\ "return" \in Ops
  /\ Halt(IF finish_map[0] THEN "assert" ELSE "exited")
  /\ UNCHANGED <<enable_map, threadVars, lockVars, semVars, condVars,
                 barrierVars, controlVars>>

=============================================================================
