---------------------------- MODULE CondTracker ----------------------------
(***************************************************************************)
(* Condition variables.  Waiting is simulated: a waiter sits on its own    *)
(* wait semaphore with cond_map set.  A signaller wakes its target and     *)
(* blocks until the target has found out whether it can have its mutex     *)
(* back; a timeout is the scheduler launching a thread that still waits.   *)
(***************************************************************************)
EXTENDS MutexTracker

\* BeforeCondWait and BeforeCondTimedwait up to waitPauseThread: only a timed
\* wait stays enabled; checkCondValidity refuses a destroyed condition.
EnterWait(t, kind) ==
  /\ Running(t)
  /\ kind \in Ops
  /\ \E c \in Cond, m \in Mutex :
       LET en == [enable_map EXCEPT ![t] = (kind = "timedwait")] IN
       /\ mutex[m] = t
       /\ \/ /\ c \in cond_destroy
             /\ enable_map' = en
             /\ Halt("misuse")
             /\ UNCHANGED <<lock_ready_map, lock_wait_map, mutex, cond_map, controlVars>>
          \/ /\ c \notin cond_destroy
             /\ mutex' = [mutex EXCEPT ![m] = FREE]
             /\ threadHasReleasedLock(m, en)
             /\ cond_map' = [cond_map EXCEPT ![t] = c]
             /\ Schedule
             /\ Goto(t, "cwait", kind, m)
  /\ UNCHANGED <<mutex_destroy, threadVars, semVars, wait_ready_map,
                 newchoice, cond_destroy, barrierVars>>

SimulateCondWait(t) == EnterWait(t, "condwait")

SimulateCondTimedwait(t) == EnterWait(t, "timedwait")

\* waitPauseThread returns.
waitPauseThread(t) ==
  /\ status = "running"
  /\ pc[t] = "cwait"
  /\ wait_sem_map[t] > 0
  /\ wait_sem_map' = [wait_sem_map EXCEPT ![t] = @ - 1]
  /\ Step(t, "woken")
  /\ UNCHANGED <<sem_map, was_signalled_map, status, enable_map, threadVars,
                 lockVars, semVars, condVars, barrierVars>>

\* Mutant: cond_map is not reset.
LeaveCond_NoReset(t) ==
  /\ status = "running"
  /\ pc[t] = "woken"
  /\ Step(t, "relock")
  /\ UNCHANGED <<condVars, enable_map, launchVars, threadVars, lockVars,
                 semVars, barrierVars>>

LeaveCond(t) ==
  /\ status = "running"
  /\ pc[t] = "woken"
  /\ cond_map' = [cond_map EXCEPT ![t] = NULL]
  /\ Step(t, "relock")
  /\ UNCHANGED <<wait_ready_map, newchoice, cond_destroy, enable_map,
                 launchVars, threadVars, lockVars, semVars, barrierVars>>

\* Mutant: the mutex is taken to be free again.
BeforeRelock_NoProbe(t) ==
  /\ status = "running"
  /\ pc[t] = "relock"
  /\ enable_map' = [enable_map EXCEPT ![t] = TRUE]
  /\ lock_ready_map' = [lock_ready_map EXCEPT ![t] = arg[t]]
  /\ Step(t, "ready")
  /\ UNCHANGED <<lock_wait_map, mutex, mutex_destroy, launchVars, threadVars,
                 semVars, condVars, barrierVars>>

\* BeforeMutexLock(IS_COND_WAIT): neither locked nor a scheduling point.
BeforeRelock(t) ==
  /\ status = "running"
  /\ pc[t] = "relock"
  /\ determineLockStatus(t, arg[t])
  /\ Step(t, "ready")
  /\ UNCHANGED <<mutex, mutex_destroy, launchVars, threadVars, semVars,
                 condVars, barrierVars>>

\* Mutant: the signaller is not told.
signalThreadReady_NoFlag(t) ==
  /\ status = "running"
  /\ pc[t] = "ready"
  /\ Step(t, IF call[t] = "timedwait" THEN "timed" ELSE "paused")
  /\ UNCHANGED <<condVars, enable_map, launchVars, threadVars, lockVars,
                 semVars, barrierVars>>

signalThreadReady(t) ==
  /\ status = "running"
  /\ pc[t] = "ready"
  /\ wait_ready_map' = [wait_ready_map EXCEPT ![t] = TRUE]
  /\ Step(t, IF call[t] = "timedwait" THEN "timed" ELSE "paused")
  /\ UNCHANGED <<cond_map, newchoice, cond_destroy, enable_map, launchVars,
                 threadVars, lockVars, semVars, barrierVars>>

\* Mutant: a scheduling point whether the wait was signalled or timed out.
TimedwaitEnd_Always(t) ==
  /\ status = "running"
  /\ pc[t] = "timed"
  /\ UNCHANGED <<enable_map, threadVars, lockVars, semVars, condVars, barrierVars>>
  /\ ScheduleWith([was_signalled_map EXCEPT ![t] = TRUE])
  /\ Step(t, "paused")

\* The end of a timed wait: after a timeout it is a scheduling point.
TimedwaitEnd(t) ==
  /\ status = "running"
  /\ pc[t] = "timed"
  /\ UNCHANGED <<enable_map, threadVars, lockVars, semVars, condVars, barrierVars>>
  /\ IF was_signalled_map[t]
     THEN UNCHANGED launchVars
     ELSE ScheduleWith([was_signalled_map EXCEPT ![t] = TRUE])
  /\ Step(t, "paused")

-----------------------------------------------------------------------------
Waiters(c) == {u \in Tid : cond_map[u] = c}

\* selectThreadWaitingOnCond on a copy of cond_map taken without the lock.
selectThreadWaitingOnCond(c, u) ==
  /\ u \in Waiters(c)
  /\ Policy = "any" \/ \A v \in Waiters(c) : u <= v

\* The signaller wakes one more waiter of c, or is done.
NextTarget(t, c, kind) ==
  \/ /\ Waiters(c) = {}
     /\ newchoice' = [newchoice EXCEPT ![t] = INVALID_THREAD]
     /\ Goto(t, "sigend", kind, c)
  \/ \E u \in Tid :
       /\ selectThreadWaitingOnCond(c, u)
       /\ newchoice' = [newchoice EXCEPT ![t] = u]
       /\ Goto(t, "sigwake", kind, c)

BeforeCondSignal(t, kind) ==
  /\ Running(t)
  /\ kind \in Ops
  /\ \E c \in Cond :
       \/ c \in cond_destroy /\ Halt("misuse") /\ UNCHANGED <<newchoice, controlVars>>
       \/ c \notin cond_destroy /\ NextTarget(t, c, kind) /\ UNCHANGED launchVars
  /\ UNCHANGED <<cond_map, wait_ready_map, cond_destroy, enable_map,
                 threadVars, lockVars, semVars, barrierVars>>

scheduleThreadWaitingOnCond(t) ==
  /\ status = "running"
  /\ pc[t] = "sigwake"
  /\ wait_ready_map' = [wait_ready_map EXCEPT ![newchoice[t]] = FALSE]
  /\ wait_sem_map' = [wait_sem_map EXCEPT ![newchoice[t]] = @ + 1]
  /\ Step(t, "sigwait")
  /\ UNCHANGED <<sem_map, was_signalled_map, status, enable_map, cond_map,
                 newchoice, cond_destroy, threadVars, lockVars, semVars, barrierVars>>

\* Mutant: a broadcast wakes a single waiter.
waitThreadReady_Single(t) ==
  /\ status = "running"
  /\ pc[t] = "sigwait"
  /\ wait_ready_map[newchoice[t]]
  /\ newchoice' = [newchoice EXCEPT ![t] = INVALID_THREAD]
  /\ Step(t, "sigend")
  /\ UNCHANGED <<cond_map, wait_ready_map, cond_destroy, enable_map,
                 launchVars, threadVars, lockVars, semVars, barrierVars>>

\* waitThreadReady returns; a broadcast looks for more waiters.
waitThreadReady(t) ==
  /\ status = "running"
  /\ pc[t] = "sigwait"
  /\ wait_ready_map[newchoice[t]]
  /\ IF call[t] = "broadcast"
     THEN NextTarget(t, arg[t], "broadcast")
     ELSE /\ newchoice' = [newchoice EXCEPT ![t] = INVALID_THREAD]
          /\ Step(t, "sigend")
  /\ UNCHANGED <<cond_map, wait_ready_map, cond_destroy, enable_map,
                 launchVars, threadVars, lockVars, semVars, barrierVars>>

\* The scheduling point at the end of SimulateCondSignal and ...Broadcast.
SignalEnd(t) ==
  /\ status = "running"
  /\ pc[t] = "sigend"
  /\ enable_map' = [enable_map EXCEPT ![t] = TRUE]
  /\ UNCHANGED <<threadVars, lockVars, semVars, condVars, barrierVars>>
  /\ Schedule
  /\ Goto(t, "paused", "point", NULL)

SimulateCondDestroy(t) ==
  /\ Running(t)
  /\ "condDestroy" \in Ops
  /\ \E c \in Cond : cond_destroy' = cond_destroy \cup {c}
  /\ UNCHANGED <<cond_map, wait_ready_map, newchoice, enable_map, launchVars,
                 threadVars, lockVars, semVars, barrierVars, controlVars>>

BeforeCondInit(t) ==
  /\ Running(t)
  /\ "condDestroy" \in Ops
  /\ \E c \in cond_destroy : cond_destroy' = cond_destroy \ {c}
  /\ UNCHANGED <<cond_map, wait_ready_map, newchoice, enable_map, launchVars,
                 threadVars, lockVars, semVars, barrierVars, controlVars>>

=============================================================================
