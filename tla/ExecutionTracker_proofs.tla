---------------------- MODULE ExecutionTracker_proofs ----------------------
(***************************************************************************)
(* For any number of threads, any objects and any application: the         *)
(* tracker's maps keep their shapes, a destroyed semaphore is left alone,  *)
(* exactly one thread has the right to run, enable_map is exact, and the   *)
(* serializer implements PthreadMachine.                                   *)
(***************************************************************************)
EXTENDS Refinement, FiniteSetTheorems, TLAPS

-----------------------------------------------------------------------------
(***************************************************************************)
(* Type correctness.  First the helpers that several actions share.        *)
(***************************************************************************)

\* schedule and launchThread post one semaphore or end the process.
LEMMA ScheduleWithTypes ==
  ASSUME TypeOK, NEW ws \in [Tid -> BOOLEAN], ScheduleWith(ws)
  PROVE  /\ sem_map' \in [Tid -> Nat]
         /\ wait_sem_map' \in [Tid -> Nat]
         /\ was_signalled_map' \in [Tid -> BOOLEAN]
         /\ status' \in Status
<1>1. CASE Halt("deadlock")
  BY <1>1 DEF TypeOK, Halt, Status
<1>2. ASSUME NEW n \in Tid, launchThread(n, cond_map', ws)
      PROVE  /\ sem_map' \in [Tid -> Nat]
             /\ wait_sem_map' \in [Tid -> Nat]
             /\ was_signalled_map' \in [Tid -> BOOLEAN]
             /\ status' \in Status
  <2>1. sem_map' \in [Tid -> Nat]
    BY <1>2 DEF TypeOK, launchThread
  <2>2. wait_sem_map' \in [Tid -> Nat]
    BY <1>2 DEF TypeOK, launchThread
  <2>3. was_signalled_map' \in [Tid -> BOOLEAN]
    BY <1>2 DEF TypeOK, launchThread
  <2>4. status' \in Status
    BY <1>2 DEF TypeOK, launchThread
  <2> QED
    BY <2>1, <2>2, <2>3, <2>4
<1> QED
  BY <1>1, <1>2 DEF ScheduleWith

\* schedule as most calls use it.
LEMMA ScheduleTypes ==
  ASSUME TypeOK, Schedule
  PROVE  /\ sem_map' \in [Tid -> Nat]
         /\ wait_sem_map' \in [Tid -> Nat]
         /\ was_signalled_map' \in [Tid -> BOOLEAN]
         /\ status' \in Status
BY ScheduleWithTypes DEF TypeOK, Schedule

\* determineLockStatus files the thread under the mutex it probed.
LEMMA LockStatusTypes ==
  ASSUME TypeOK, NEW t \in Tid, NEW m \in Mutex, determineLockStatus(t, m)
  PROVE  /\ enable_map' \in [Tid -> BOOLEAN]
         /\ lock_ready_map' \in [Tid -> AllMutex \cup {NULL}]
         /\ lock_wait_map' \in [Tid -> AllMutex \cup {NULL}]
<1>1. CASE mutex[m] \in Tid
  BY <1>1 DEF TypeOK, determineLockStatus, AllMutex
<1>2. CASE mutex[m] \notin Tid
  <2>1. enable_map' \in [Tid -> BOOLEAN]
    BY <1>2 DEF TypeOK, determineLockStatus
  <2>2. lock_ready_map' \in [Tid -> AllMutex \cup {NULL}]
    BY <1>2 DEF TypeOK, determineLockStatus, AllMutex
  <2>3. lock_wait_map' \in [Tid -> AllMutex \cup {NULL}]
    BY <1>2 DEF TypeOK, determineLockStatus
  <2> QED
    BY <2>1, <2>2, <2>3
<1> QED
  BY <1>1, <1>2

\* threadHasAcquiredLock moves threads from ready to waiting.
LEMMA AcquiredTypes ==
  ASSUME TypeOK, NEW t \in Tid, NEW m \in Mutex, threadHasAcquiredLock(t, m)
  PROVE  /\ enable_map' \in [Tid -> BOOLEAN]
         /\ lock_ready_map' \in [Tid -> AllMutex \cup {NULL}]
         /\ lock_wait_map' \in [Tid -> AllMutex \cup {NULL}]
BY DEF TypeOK, threadHasAcquiredLock, AllMutex

\* threadHasReleasedLock moves them back.
LEMMA ReleasedTypes ==
  ASSUME TypeOK, NEW m \in Mutex, NEW en \in [Tid -> BOOLEAN], threadHasReleasedLock(m, en)
  PROVE  /\ enable_map' \in [Tid -> BOOLEAN]
         /\ lock_ready_map' \in [Tid -> AllMutex \cup {NULL}]
         /\ lock_wait_map' \in [Tid -> AllMutex \cup {NULL}]
BY DEF TypeOK, threadHasReleasedLock, AllMutex

\* The same three for semaphores: the first look at the value, ...
LEMMA SemStatusTypes ==
  ASSUME TypeOK, NEW t \in Tid, NEW s \in Sem, determineSemaphoreStatus(t, s)
  PROVE  /\ enable_map' \in [Tid -> BOOLEAN]
         /\ sem_ready_map' \in [Tid -> Sem \cup {NULL}]
         /\ sem_wait_map' \in [Tid -> Sem \cup {NULL}]
<1>1. CASE semval[s] > 0
  BY <1>1 DEF TypeOK, determineSemaphoreStatus
<1>2. CASE ~(semval[s] > 0)
  BY <1>2 DEF TypeOK, determineSemaphoreStatus
<1> QED
  BY <1>1, <1>2

\* ... a thread that has passed, ...
LEMMA PassedTypes ==
  ASSUME TypeOK, NEW t \in Tid, NEW s \in Sem, threadHasPassedSemaphore(t, s)
  PROVE  /\ enable_map' \in [Tid -> BOOLEAN]
         /\ sem_ready_map' \in [Tid -> Sem \cup {NULL}]
         /\ sem_wait_map' \in [Tid -> Sem \cup {NULL}]
BY DEF TypeOK, threadHasPassedSemaphore

\* ... and a post.
LEMMA PostedTypes ==
  ASSUME TypeOK, NEW s \in Sem, semaphoreIsPosted(s)
  PROVE  /\ enable_map' \in [Tid -> BOOLEAN]
         /\ sem_ready_map' \in [Tid -> Sem \cup {NULL}]
         /\ sem_wait_map' \in [Tid -> Sem \cup {NULL}]
BY DEF TypeOK, semaphoreIsPosted

\* The real trylock makes the caller the owner or changes nothing.
LEMMA TryAcquireTypes ==
  ASSUME TypeOK, NEW t \in Tid, NEW m \in Mutex, TryAcquire(t, m)
  PROVE  mutex' \in [AllMutex -> Tid \cup {FREE, DESTROYED}]
<1>1. CASE mutex[m] = FREE
  BY <1>1 DEF TypeOK, TryAcquire
<1>2. CASE mutex[m] # FREE
  BY <1>2 DEF TypeOK, TryAcquire
<1> QED
  BY <1>1, <1>2

\* A waiter probes the mutex of its wait, which ArgOK knows.
LEMMA BeforeRelockType ==
  ASSUME TypeOK, NEW t \in Tid, BeforeRelock(t)
  PROVE  TypeOK'
<1> USE DEF Goto, Step, threadVars, lockVars, semVars, condVars, barrierVars,
            launchVars, controlVars, Status, PC, Calls, Object, AllMutex
<1>1. arg[t] \in Mutex
  BY DEF TypeOK, ArgOK, BeforeRelock
<1> QED
  BY <1>1, LockStatusTypes DEF TypeOK, ArgOK, Running, BeforeRelock

\* pthread_mutex_lock, before the thread is launched again.
LEMMA BeforeMutexLockType ==
  ASSUME TypeOK, NEW t \in Tid, BeforeMutexLock(t)
  PROVE  TypeOK'
<1> USE DEF Goto, Step, threadVars, lockVars, semVars, condVars, barrierVars,
            launchVars, controlVars, Status, PC, Calls, Object, AllMutex
<1> QED
  BY LockStatusTypes, ScheduleTypes DEF TypeOK, ArgOK, Running, BeforeMutexLock

\* pthread_mutex_trylock, granted or not.
LEMMA SimulateMutexTrylockType ==
  ASSUME TypeOK, NEW t \in Tid, SimulateMutexTrylock(t)
  PROVE  TypeOK'
<1> USE DEF Goto, Step, threadVars, lockVars, semVars, condVars, barrierVars,
            launchVars, controlVars, Status, PC, Calls, Object, AllMutex
<1>1. arg[t] \in Mutex
  BY DEF TypeOK, ArgOK, SimulateMutexTrylock
<1>2. CASE mutex[arg[t]] = FREE
  BY <1>1, <1>2, AcquiredTypes, TryAcquireTypes DEF TypeOK, ArgOK, Running, SimulateMutexTrylock
<1>3. CASE mutex[arg[t]] # FREE
  BY <1>1, <1>3, TryAcquireTypes DEF TypeOK, ArgOK, Running, SimulateMutexTrylock
<1> QED
  BY <1>2, <1>3

\* sem_wait on a destroyed semaphore, and on a valid one.
LEMMA BeforeSemWaitType ==
  ASSUME TypeOK, NEW t \in Tid, BeforeSemWait(t)
  PROVE  TypeOK'
<1> USE DEF Goto, Step, threadVars, lockVars, semVars, condVars, barrierVars,
            launchVars, controlVars, Status, PC, Calls, Object, AllMutex
<1>1. PICK s \in Sem :
        \/ Halt("misuse") /\ UNCHANGED <<sem_ready_map, sem_wait_map, enable_map, controlVars>>
        \/ determineSemaphoreStatus(t, s) /\ Schedule /\ Goto(t, "paused", "semwait", s)
  BY DEF BeforeSemWait
<1>2. CASE Halt("misuse") /\ UNCHANGED <<sem_ready_map, sem_wait_map, enable_map, controlVars>>
  BY <1>2 DEF TypeOK, ArgOK, Running, BeforeSemWait, Halt
<1>3. CASE determineSemaphoreStatus(t, s) /\ Schedule /\ Goto(t, "paused", "semwait", s)
  BY <1>3, SemStatusTypes, ScheduleTypes DEF TypeOK, ArgOK, Running, BeforeSemWait
<1> QED
  BY <1>1, <1>2, <1>3

\* sem_post keeps the value within MaxSem.
LEMMA SimulateSemPostType ==
  ASSUME TypeOK, NEW t \in Tid, SimulateSemPost(t)
  PROVE  TypeOK'
<1> USE DEF Goto, Step, threadVars, lockVars, semVars, condVars, barrierVars,
            launchVars, controlVars, Status, PC, Calls, Object, AllMutex
<1>1. PICK s \in Sem :
        \/ Halt("misuse") /\ UNCHANGED <<sem_ready_map, sem_wait_map, semval, enable_map, controlVars>>
        \/ /\ semval[s] < MaxSem
           /\ semval' = [semval EXCEPT ![s] = @ + 1]
           /\ semaphoreIsPosted(s) /\ Schedule /\ Goto(t, "paused", "point", NULL)
  BY DEF SimulateSemPost
<1>2. CASE Halt("misuse") /\ UNCHANGED <<sem_ready_map, sem_wait_map, semval, enable_map, controlVars>>
  BY <1>2 DEF TypeOK, ArgOK, Running, SimulateSemPost, Halt
<1>3. CASE /\ semval[s] < MaxSem
           /\ semval' = [semval EXCEPT ![s] = @ + 1]
           /\ semaphoreIsPosted(s) /\ Schedule /\ Goto(t, "paused", "point", NULL)
  <2>1. semval' \in [Sem -> 0..MaxSem]
    BY <1>3, ConstantsAssumption DEF TypeOK
  <2> QED
    BY <1>3, <2>1, PostedTypes, ScheduleTypes DEF TypeOK, ArgOK, Running, SimulateSemPost
<1> QED
  BY <1>1, <1>2, <1>3

\* sem_wait goes on: the value stays a natural number.
LEMMA SimulateSemWaitType ==
  ASSUME TypeOK, NEW t \in Tid, SimulateSemWait(t)
  PROVE  TypeOK'
<1> USE DEF Goto, Step, threadVars, lockVars, semVars, condVars, barrierVars,
            launchVars, controlVars, Status, PC, Calls, Object, AllMutex
<1>1. arg[t] \in Sem
  BY DEF TypeOK, ArgOK, SimulateSemWait
<1>2. semval[arg[t]] > 0 => [semval EXCEPT ![arg[t]] = @ - 1] \in [Sem -> 0..MaxSem]
  BY <1>1, ConstantsAssumption DEF TypeOK
<1> QED
  BY <1>1, <1>2, PassedTypes DEF TypeOK, ArgOK, Running, SimulateSemWait, Halt

\* Both kinds of wait, with the release of the mutex inside.
LEMMA EnterWaitType ==
  ASSUME TypeOK, NEW t \in Tid, NEW kind \in {"condwait", "timedwait"}, EnterWait(t, kind)
  PROVE  TypeOK'
<1> USE DEF Goto, Step, threadVars, lockVars, semVars, condVars, barrierVars,
            launchVars, controlVars, Status, PC, Calls, Object, AllMutex
<1>1. [enable_map EXCEPT ![t] = (kind = "timedwait")] \in [Tid -> BOOLEAN]
  BY DEF TypeOK
<1> DEFINE en == [enable_map EXCEPT ![t] = (kind = "timedwait")]
<1>2. PICK c \in Cond, m \in Mutex :
        \/ /\ enable_map' = en
           /\ Halt("misuse")
           /\ UNCHANGED <<lock_ready_map, lock_wait_map, mutex, cond_map, controlVars>>
        \/ /\ mutex' = [mutex EXCEPT ![m] = FREE]
           /\ threadHasReleasedLock(m, en)
           /\ cond_map' = [cond_map EXCEPT ![t] = c]
           /\ Schedule
           /\ Goto(t, "cwait", kind, m)
  BY DEF EnterWait
<1>3. CASE Halt("misuse") /\ enable_map' = en
           /\ UNCHANGED <<lock_ready_map, lock_wait_map, mutex, cond_map, controlVars>>
  BY <1>1, <1>3 DEF TypeOK, ArgOK, Running, EnterWait, Halt
<1>4. CASE /\ mutex' = [mutex EXCEPT ![m] = FREE]
           /\ threadHasReleasedLock(m, en)
           /\ cond_map' = [cond_map EXCEPT ![t] = c]
           /\ Schedule
           /\ Goto(t, "cwait", kind, m)
  <2>1. /\ enable_map' \in [Tid -> BOOLEAN]
        /\ lock_ready_map' \in [Tid -> AllMutex \cup {NULL}]
        /\ lock_wait_map' \in [Tid -> AllMutex \cup {NULL}]
    BY <1>1, <1>4, ReleasedTypes
  <2>2. mutex' \in [AllMutex -> Tid \cup {FREE, DESTROYED}]
    BY <1>4 DEF TypeOK
  <2>3. cond_map' \in [Tid -> Cond \cup {NULL}]
    BY <1>4 DEF TypeOK
  <2> HIDE DEF en
  <2> QED
    BY <1>4, <2>1, <2>2, <2>3, ScheduleTypes DEF TypeOK, ArgOK, Running, EnterWait
<1> QED
  BY <1>2, <1>3, <1>4

\* pthread_barrier_wait: misuse, the last thread, or one more.
LEMMA BeforeBarrierWaitType ==
  ASSUME TypeOK, NEW t \in Tid, BeforeBarrierWait(t)
  PROVE  TypeOK'
<1> USE DEF Goto, Step, threadVars, lockVars, semVars, condVars, barrierVars,
            launchVars, controlVars, Status, PC, Calls, Object, AllMutex
<1>1. Schedule \/ Halt("assert") \/ Halt("misuse")
  BY DEF BeforeBarrierWait, BarrierOpens, BarrierBlocks
<1>2. /\ sem_map' \in [Tid -> Nat]
      /\ wait_sem_map' \in [Tid -> Nat]
      /\ was_signalled_map' \in [Tid -> BOOLEAN]
      /\ status' \in Status
  BY <1>1, ScheduleTypes DEF TypeOK, Halt, Status
<1>3. thread_map' \in [Tid -> Barrier \cup {NULL}]
  BY DEF TypeOK, BeforeBarrierWait, BarrierOpens, BarrierBlocks
<1>4. enable_map' \in [Tid -> BOOLEAN]
  <2>1. PICK b \in Barrier :
          UNCHANGED enable_map \/ BarrierOpens(t, b) \/ BarrierBlocks(t, b)
    BY DEF BeforeBarrierWait
  <2> QED
    BY <2>1 DEF TypeOK, BarrierOpens, BarrierBlocks
<1> QED
  BY <1>2, <1>3, <1>4 DEF TypeOK, ArgOK, Running, BeforeBarrierWait

\* pthread_create: the new id is one of Tid because of its bound.
LEMMA BeforeCreateType ==
  ASSUME TypeOK, NEW t \in Tid, BeforeCreate(t)
  PROVE  TypeOK'
<1> USE DEF Goto, Step, threadVars, lockVars, semVars, condVars, barrierVars,
            launchVars, controlVars, Status, PC, Calls, Object, AllMutex
<1>1. curr_id + 1 \in Tid
  BY ConstantsAssumption DEF TypeOK, BeforeCreate, Tid
<1>2. /\ curr_id' \in Tid
      /\ enable_map' \in [Tid -> BOOLEAN]
      /\ finish_map' \in [Tid -> BOOLEAN]
      /\ join_map' \in [Tid -> Tid \cup {UNJOINED}]
  BY <1>1 DEF TypeOK, BeforeCreate
<1>3. /\ lock_ready_map' \in [Tid -> AllMutex \cup {NULL}]
      /\ lock_wait_map' \in [Tid -> AllMutex \cup {NULL}]
      /\ sem_ready_map' \in [Tid -> Sem \cup {NULL}]
      /\ sem_wait_map' \in [Tid -> Sem \cup {NULL}]
      /\ cond_map' \in [Tid -> Cond \cup {NULL}]
  BY <1>1 DEF TypeOK, BeforeCreate
<1>4. /\ wait_ready_map' \in [Tid -> BOOLEAN]
      /\ was_signalled_map' \in [Tid -> BOOLEAN]
      /\ sem_map' \in [Tid -> Nat]
      /\ wait_sem_map' \in [Tid -> Nat]
      /\ pc' \in [Tid -> PC]
  BY <1>1 DEF TypeOK, BeforeCreate, PC
<1>5. ArgOK'
  BY <1>1 DEF TypeOK, ArgOK, BeforeCreate
<1> QED
  BY <1>2, <1>3, <1>4, <1>5 DEF TypeOK, BeforeCreate, barrierVars

\* thrilleSchedPoint: a scheduling point or a failed assertion.
LEMMA ThrilleSchedPointType ==
  ASSUME TypeOK, NEW t \in Tid, thrilleSchedPoint(t)
  PROVE  TypeOK'
<1> USE DEF Goto, Step, threadVars, lockVars, semVars, condVars, barrierVars,
            launchVars, controlVars, Status, PC, Calls, Object, AllMutex
<1>1. CASE SchedPoint(t)
  BY <1>1, ScheduleTypes DEF TypeOK, ArgOK, Running, SchedPoint
<1>2. CASE Halt("assert") /\ UNCHANGED <<enable_map, threadVars, lockVars, semVars, condVars,
                         barrierVars, controlVars>>
  BY <1>2 DEF TypeOK, ArgOK, Running, Halt
<1> QED
  BY <1>1, <1>2 DEF thrilleSchedPoint

\* The end of a timed wait, signalled or timed out.
LEMMA TimedwaitEndType ==
  ASSUME TypeOK, NEW t \in Tid, TimedwaitEnd(t)
  PROVE  TypeOK'
<1> USE DEF Goto, Step, threadVars, lockVars, semVars, condVars, barrierVars,
            launchVars, controlVars, Status, PC, Calls, Object, AllMutex
<1>1. [was_signalled_map EXCEPT ![t] = TRUE] \in [Tid -> BOOLEAN]
  BY DEF TypeOK
<1>2. UNCHANGED launchVars \/ ScheduleWith([was_signalled_map EXCEPT ![t] = TRUE])
  BY DEF TimedwaitEnd
<1>3. /\ sem_map' \in [Tid -> Nat]
      /\ wait_sem_map' \in [Tid -> Nat]
      /\ was_signalled_map' \in [Tid -> BOOLEAN]
      /\ status' \in Status
  BY <1>1, <1>2, ScheduleWithTypes DEF TypeOK, launchVars
<1> QED
  BY <1>3 DEF TypeOK, ArgOK, Running, TimedwaitEnd

\* The signaller posts its target, which ArgOK knows to be a thread.
LEMMA ScheduleThreadWaitingOnCondType ==
  ASSUME TypeOK, NEW t \in Tid, scheduleThreadWaitingOnCond(t)
  PROVE  TypeOK'
<1> USE DEF Goto, Step, threadVars, lockVars, semVars, condVars, barrierVars,
            launchVars, controlVars, Status, PC, Calls, Object, AllMutex
<1>0. newchoice[t] \in Tid
  BY DEF TypeOK, ArgOK, scheduleThreadWaitingOnCond
<1>1. wait_ready_map' \in [Tid -> BOOLEAN]
  BY <1>0 DEF TypeOK, scheduleThreadWaitingOnCond
<1>2. wait_sem_map' \in [Tid -> Nat]
  BY <1>0 DEF TypeOK, scheduleThreadWaitingOnCond
<1> QED
  BY <1>1, <1>2 DEF TypeOK, ArgOK, Running, scheduleThreadWaitingOnCond

\* A signaller picks its next target or is done.
LEMMA NextTargetTypes ==
  ASSUME TypeOK, NEW t \in Tid, NEW c \in Cond, NEW kind \in {"signal", "broadcast"},
         NextTarget(t, c, kind)
  PROVE  /\ pc' \in [Tid -> PC]
         /\ call' \in [Tid -> Calls]
         /\ arg' \in [Tid -> Object \cup Tid \cup {NULL}]
         /\ newchoice' \in [Tid -> Tid \cup {INVALID_THREAD}]
         /\ ArgOK'
<1> USE DEF Goto, PC, Calls, Object
<1>1. ASSUME newchoice' = [newchoice EXCEPT ![t] = INVALID_THREAD], Goto(t, "sigend", kind, c)
      PROVE  /\ newchoice' \in [Tid -> Tid \cup {INVALID_THREAD}]
             /\ ArgOK'
  BY <1>1 DEF TypeOK, ArgOK
<1>2. ASSUME NEW u \in Tid, newchoice' = [newchoice EXCEPT ![t] = u], Goto(t, "sigwake", kind, c)
      PROVE  /\ newchoice' \in [Tid -> Tid \cup {INVALID_THREAD}]
             /\ ArgOK'
  BY <1>2 DEF TypeOK, ArgOK
<1>3. /\ pc' \in [Tid -> PC]
      /\ call' \in [Tid -> Calls]
      /\ arg' \in [Tid -> Object \cup Tid \cup {NULL}]
  BY DEF TypeOK, NextTarget
<1> QED
  BY <1>1, <1>2, <1>3 DEF NextTarget

\* pthread_cond_signal and pthread_cond_broadcast begin.
LEMMA BeforeCondSignalType ==
  ASSUME TypeOK, NEW t \in Tid, NEW kind \in {"signal", "broadcast"}, BeforeCondSignal(t, kind)
  PROVE  TypeOK'
<1> USE DEF threadVars, lockVars, semVars, condVars, barrierVars, launchVars, controlVars
<1>1. PICK c \in Cond :
        \/ Halt("misuse") /\ UNCHANGED <<newchoice, controlVars>>
        \/ NextTarget(t, c, kind) /\ UNCHANGED launchVars
  BY DEF BeforeCondSignal
<1>2. CASE Halt("misuse") /\ UNCHANGED <<newchoice, controlVars>>
  BY <1>2 DEF TypeOK, ArgOK, BeforeCondSignal, Halt, Status
<1>3. CASE NextTarget(t, c, kind) /\ UNCHANGED launchVars
  BY <1>3, NextTargetTypes DEF TypeOK, BeforeCondSignal
<1> QED
  BY <1>1, <1>2, <1>3

\* The signaller hears back from its target.
LEMMA WaitThreadReadyType ==
  ASSUME TypeOK, NEW t \in Tid, waitThreadReady(t)
  PROVE  TypeOK'
<1> USE DEF threadVars, lockVars, semVars, barrierVars, launchVars
<1>1. CASE call[t] = "broadcast"
  <2>1. arg[t] \in Cond /\ NextTarget(t, arg[t], "broadcast")
    BY <1>1 DEF TypeOK, ArgOK, waitThreadReady
  <2> QED
    BY <2>1, NextTargetTypes DEF TypeOK, waitThreadReady
<1>2. CASE call[t] # "broadcast"
  BY <1>2 DEF TypeOK, ArgOK, waitThreadReady, Step, Goto, PC
<1> QED
  BY <1>1, <1>2

\* The launched thread takes one from its semaphore.
LEMMA PauseThreadType ==
  ASSUME TypeOK, NEW t \in Tid, pauseThread(t)
  PROVE  TypeOK'
<1> USE DEF Goto, Step, threadVars, lockVars, semVars, condVars, barrierVars, PC, Calls
<1>1. sem_map' \in [Tid -> Nat]
  BY DEF TypeOK, pauseThread
<1>2. CASE call[t] = "point"
  BY <1>1, <1>2 DEF TypeOK, ArgOK, pauseThread
<1>3. CASE call[t] = "join"
  <2>1. pc' = [pc EXCEPT ![t] = "joining"] /\ UNCHANGED <<call, arg, newchoice, joined>>
    BY <1>3 DEF TypeOK, pauseThread
  <2>2. pc' \in [Tid -> PC]
    BY <2>1 DEF TypeOK
  <2>3. ArgOK'
    BY <1>3, <2>1 DEF TypeOK, ArgOK, pauseThread
  <2> QED
    BY <1>1, <2>1, <2>2, <2>3 DEF TypeOK, pauseThread
<1>4. CASE call[t] \notin {"point", "join"}
  <2>1. pc' = [pc EXCEPT ![t] = "launched"] /\ UNCHANGED <<call, arg, newchoice, joined>>
    BY <1>4 DEF TypeOK, pauseThread
  <2>2. pc' \in [Tid -> PC]
    BY <2>1 DEF TypeOK
  <2>3. ArgOK'
    BY <1>4, <2>1 DEF TypeOK, ArgOK, pauseThread
  <2> QED
    BY <1>1, <2>1, <2>2, <2>3 DEF TypeOK, pauseThread
<1> QED
  BY <1>2, <1>3, <1>4

\* Every call of the application keeps the types.
LEMMA AppStepType ==
  ASSUME TypeOK, NEW t \in Tid, AppStep(t)
  PROVE  TypeOK'
<1> USE DEF Goto, Step, threadVars, lockVars, semVars, condVars, barrierVars,
            launchVars, controlVars, Status, PC, Calls, Object, AllMutex
<1>1. CASE MyMemoryAccess(t)
  BY <1>1, ScheduleTypes DEF TypeOK, ArgOK, Running, MyMemoryAccess, SchedPoint
<1>2. CASE SimulateSleep(t)
  BY <1>2, ScheduleTypes DEF TypeOK, ArgOK, Running, SimulateSleep, SchedPoint
<1>3. CASE thrilleCheckpoint(t)
  BY <1>3, ScheduleTypes DEF TypeOK, ArgOK, Running, thrilleCheckpoint, SchedPoint
<1>4. CASE thrilleSchedPoint(t)
  BY <1>4, ThrilleSchedPointType
<1>5. CASE ProgramError(t)
  BY <1>5 DEF TypeOK, ArgOK, Running, ProgramError, Halt
<1>6. CASE BeforeCreate(t)
  BY <1>6, BeforeCreateType
<1>7. CASE ThreadFinish(t)
  BY <1>7, ScheduleTypes DEF TypeOK, ArgOK, Running, ThreadFinish, finalizeThread, UNJOINED
<1>8. CASE SimulateExit(t)
  BY <1>8, ScheduleTypes DEF TypeOK, ArgOK, Running, SimulateExit, finalizeThread, UNJOINED
<1>9. CASE BeforeJoin(t)
  BY <1>9, ScheduleTypes DEF TypeOK, ArgOK, Running, BeforeJoin, UNJOINED, Halt
<1>10. CASE BeforeMutexLock(t)
  BY <1>10, BeforeMutexLockType
<1>11. CASE BeforeMutexTrylock(t)
  BY <1>11, ScheduleTypes DEF TypeOK, ArgOK, Running, BeforeMutexTrylock
<1>12. CASE MutexUnlock(t)
  BY <1>12 DEF TypeOK, ArgOK, Running, MutexUnlock
<1>13. CASE SimulateMutexDestroy(t)
  BY <1>13 DEF TypeOK, ArgOK, Running, SimulateMutexDestroy
<1>14. CASE BeforeMutexInit(t)
  BY <1>14, ConstantsAssumption DEF TypeOK, ArgOK, Running, BeforeMutexInit
<1>15. CASE InvalidMutexFault(t)
  BY <1>15 DEF TypeOK, ArgOK, Running, InvalidMutexFault, Halt
<1>16. CASE SimulateCondWait(t)
  BY <1>16, EnterWaitType DEF SimulateCondWait
<1>17. CASE SimulateCondTimedwait(t)
  BY <1>17, EnterWaitType DEF SimulateCondTimedwait
<1>18. CASE BeforeCondSignal(t, "signal")
  BY <1>18, BeforeCondSignalType
<1>19. CASE BeforeCondSignal(t, "broadcast")
  BY <1>19, BeforeCondSignalType
<1>20. CASE SimulateCondDestroy(t)
  BY <1>20 DEF TypeOK, ArgOK, Running, SimulateCondDestroy
<1>21. CASE BeforeCondInit(t)
  BY <1>21, ConstantsAssumption DEF TypeOK, ArgOK, Running, BeforeCondInit
<1>22. CASE BeforeSemWait(t)
  BY <1>22, BeforeSemWaitType
<1>23. CASE SimulateSemPost(t)
  BY <1>23, SimulateSemPostType
<1>24. CASE SimulateSemDestroy(t)
  BY <1>24 DEF TypeOK, ArgOK, Running, SimulateSemDestroy
<1>25. CASE BeforeSemInit(t)
  BY <1>25, ConstantsAssumption DEF TypeOK, ArgOK, Running, BeforeSemInit
<1>26. CASE BeforeBarrierInit(t)
  BY <1>26, ConstantsAssumption DEF TypeOK, ArgOK, Running, BeforeBarrierInit
<1>27. CASE BeforeBarrierWait(t)
  BY <1>27, BeforeBarrierWaitType
<1>28. CASE SimulateBarrierDestroy(t)
  BY <1>28 DEF TypeOK, ArgOK, Running, SimulateBarrierDestroy
<1> QED
  BY <1>1, <1>2, <1>3, <1>4, <1>5, <1>6, <1>7, <1>8, <1>9, <1>10,
     <1>11, <1>12, <1>13, <1>14, <1>15, <1>16, <1>17, <1>18, <1>19, <1>20,
     <1>21, <1>22, <1>23, <1>24, <1>25, <1>26, <1>27, <1>28
     DEF AppStep

\* Every step of the library inside a call keeps the types.
LEMMA LibStepType ==
  ASSUME TypeOK, NEW t \in Tid, LibStep(t)
  PROVE  TypeOK'
<1> USE DEF Goto, Step, threadVars, lockVars, semVars, condVars, barrierVars,
            launchVars, controlVars, Status, PC, Calls, Object, AllMutex
<1>1. CASE pauseThread(t)
  BY <1>1, PauseThreadType
<1>2. CASE AfterCreate(t)
  BY <1>2, ScheduleTypes DEF TypeOK, ArgOK, Running, AfterCreate
<1>3. CASE ThreadStart(t)
  BY <1>3 DEF TypeOK, ArgOK, Running, ThreadStart
<1>4. CASE JoinReturns(t)
  BY <1>4 DEF TypeOK, ArgOK, Running, JoinReturns
<1>5. CASE CleanupUnlock(t)
  BY <1>5 DEF TypeOK, ArgOK, Running, CleanupUnlock
<1>6. CASE ThreadDies(t)
  BY <1>6 DEF TypeOK, ArgOK, Running, ThreadDies
<1>7. CASE SimulateMutexLock(t)
  BY <1>7 DEF TypeOK, ArgOK, Running, SimulateMutexLock, threadHasAcquiredLock, TryAcquire
<1>8. CASE SimulateMutexTrylock(t)
  BY <1>8, SimulateMutexTrylockType
<1>9. CASE AfterMutexUnlock(t)
  BY <1>9, ScheduleTypes DEF TypeOK, ArgOK, Running, AfterMutexUnlock, threadHasReleasedLock
<1>10. CASE waitPauseThread(t)
  BY <1>10 DEF TypeOK, ArgOK, Running, waitPauseThread
<1>11. CASE LeaveCond(t)
  BY <1>11 DEF TypeOK, ArgOK, Running, LeaveCond
<1>12. CASE BeforeRelock(t)
  BY <1>12, BeforeRelockType
<1>13. CASE signalThreadReady(t)
  BY <1>13 DEF TypeOK, ArgOK, Running, signalThreadReady
<1>14. CASE TimedwaitEnd(t)
  BY <1>14, TimedwaitEndType
<1>15. CASE scheduleThreadWaitingOnCond(t)
  BY <1>15, ScheduleThreadWaitingOnCondType
<1>16. CASE waitThreadReady(t)
  BY <1>16, WaitThreadReadyType
<1>17. CASE SignalEnd(t)
  BY <1>17, ScheduleTypes DEF TypeOK, ArgOK, Running, SignalEnd
<1>18. CASE SimulateSemWait(t)
  BY <1>18, SimulateSemWaitType
<1> QED
  BY <1>1, <1>2, <1>3, <1>4, <1>5, <1>6, <1>7, <1>8, <1>9, <1>10,
     <1>11, <1>12, <1>13, <1>14, <1>15, <1>16, <1>17, <1>18
     DEF LibStep

\* The constructor establishes the types.
LEMMA TypeInit == Init => TypeOK
<1> SUFFICES ASSUME Init PROVE TypeOK
  OBVIOUS
<1>1. 0 \in Tid
  BY ConstantsAssumption DEF Tid
<1>2. ArgOK
  BY <1>1 DEF Init, ArgOK
<1> QED
  BY <1>1, <1>2, ConstantsAssumption
     DEF Init, TypeOK, Status, PC, Calls, Tid, UNJOINED, INVALID_THREAD, FREE, DESTROYED

\* No step breaks the types.
LEMMA TypeNext == TypeOK /\ [Next]_vars => TypeOK'
<1> SUFFICES ASSUME TypeOK, [Next]_vars PROVE TypeOK'
  OBVIOUS
<1> USE DEF Goto, threadVars, lockVars, semVars, condVars, barrierVars,
            launchVars, controlVars, Status, PC, Calls, Object, AllMutex
<1>1. ASSUME NEW t \in Tid, AppStep(t) PROVE TypeOK'
  BY <1>1, AppStepType
<1>2. ASSUME NEW t \in Tid, LibStep(t) PROVE TypeOK'
  BY <1>2, LibStepType
<1>3. ASSUME NEW t \in Tid, CleanupLock(t) PROVE TypeOK'
  BY <1>3 DEF CleanupLock, TypeOK, ArgOK
<1>4. CASE MainReturns
  BY <1>4 DEF MainReturns, Halt, TypeOK, ArgOK
<1>5. CASE UNCHANGED vars
  BY <1>5 DEF vars, TypeOK, ArgOK
<1> QED
  BY <1>1, <1>2, <1>3, <1>4, <1>5 DEF Next, Ended

\* Every map of the tracker keeps its shape, and every call has an object of
\* its kind, whatever the application does.
THEOREM TypeCorrect == Spec => []TypeOK
  BY TypeInit, TypeNext, PTL DEF Spec

-----------------------------------------------------------------------------
(***************************************************************************)
(* Who touches the value of a semaphore.                                   *)
(***************************************************************************)

\* The calls of the application that are not about semaphores.
LEMMA AppStepSemval ==
  ASSUME NEW t \in Tid, AppStep(t)
  PROVE  SimulateSemPost(t) \/ BeforeSemInit(t) \/ UNCHANGED semval
<1> USE DEF semVars
<1>1. CASE \/ MyMemoryAccess(t) \/ SimulateSleep(t) \/ thrilleCheckpoint(t)
           \/ thrilleSchedPoint(t) \/ ProgramError(t)
  BY <1>1 DEF MyMemoryAccess, SimulateSleep, thrilleCheckpoint, thrilleSchedPoint, SchedPoint, ProgramError
<1>2. CASE BeforeCreate(t) \/ ThreadFinish(t) \/ SimulateExit(t) \/ BeforeJoin(t)
  BY <1>2 DEF BeforeCreate, ThreadFinish, SimulateExit, finalizeThread, BeforeJoin
<1>3. CASE \/ BeforeMutexLock(t) \/ BeforeMutexTrylock(t) \/ MutexUnlock(t)
           \/ SimulateMutexDestroy(t) \/ BeforeMutexInit(t) \/ InvalidMutexFault(t)
  BY <1>3 DEF BeforeMutexLock, BeforeMutexTrylock, MutexUnlock, SimulateMutexDestroy,
              BeforeMutexInit, InvalidMutexFault
<1>4. CASE \/ SimulateCondWait(t) \/ SimulateCondTimedwait(t)
           \/ BeforeCondSignal(t, "signal") \/ BeforeCondSignal(t, "broadcast")
           \/ SimulateCondDestroy(t) \/ BeforeCondInit(t)
  BY <1>4 DEF SimulateCondWait, SimulateCondTimedwait, EnterWait, BeforeCondSignal,
              SimulateCondDestroy, BeforeCondInit
<1>5. CASE \/ BeforeSemWait(t) \/ SimulateSemDestroy(t)
           \/ BeforeBarrierInit(t) \/ BeforeBarrierWait(t) \/ SimulateBarrierDestroy(t)
  BY <1>5 DEF BeforeSemWait, SimulateSemDestroy, BeforeBarrierInit, BeforeBarrierWait,
              SimulateBarrierDestroy
<1> QED
  BY <1>1, <1>2, <1>3, <1>4, <1>5 DEF AppStep

\* The steps of the library but for the second half of sem_wait.
LEMMA LibStepSemval ==
  ASSUME NEW t \in Tid, LibStep(t)
  PROVE  SimulateSemWait(t) \/ UNCHANGED semval
<1> USE DEF semVars
<1>1. CASE \/ pauseThread(t) \/ AfterCreate(t) \/ ThreadStart(t) \/ JoinReturns(t)
           \/ CleanupUnlock(t) \/ ThreadDies(t)
  BY <1>1 DEF pauseThread, AfterCreate, ThreadStart, JoinReturns, CleanupUnlock, ThreadDies
<1>2. CASE \/ SimulateMutexLock(t) \/ SimulateMutexTrylock(t) \/ AfterMutexUnlock(t)
  BY <1>2 DEF SimulateMutexLock, SimulateMutexTrylock, AfterMutexUnlock
<1>3. CASE \/ waitPauseThread(t) \/ LeaveCond(t) \/ BeforeRelock(t)
           \/ signalThreadReady(t) \/ TimedwaitEnd(t)
  BY <1>3 DEF waitPauseThread, LeaveCond, BeforeRelock, signalThreadReady, TimedwaitEnd
<1>4. CASE scheduleThreadWaitingOnCond(t) \/ waitThreadReady(t) \/ SignalEnd(t)
  BY <1>4 DEF scheduleThreadWaitingOnCond, waitThreadReady, SignalEnd
<1> QED
  BY <1>1, <1>2, <1>3, <1>4 DEF LibStep

\* A semaphore that has been destroyed, and not initialised again, keeps its
\* value: also when it is destroyed between the two halves of a sem_wait, as
\* SimulateSemWait checks the validity again.
THEOREM DestroyedSemUntouchedAlways == Spec => DestroyedSemUntouched
<1> DEFINE Untouched == \A s \in Sem : s \in sem_destroy /\ s \in sem_destroy' => semval'[s] = semval[s]
<1>1. TypeOK /\ [Next]_vars => [Untouched]_vars
  <2> SUFFICES ASSUME TypeOK, Next, NEW s \in Sem, s \in sem_destroy, s \in sem_destroy'
               PROVE  semval'[s] = semval[s]
    OBVIOUS
  <2>1. ASSUME NEW t \in Tid, SimulateSemPost(t) PROVE semval'[s] = semval[s]
    BY <2>1 DEF SimulateSemPost, TypeOK
  <2>2. ASSUME NEW t \in Tid, BeforeSemInit(t) PROVE semval'[s] = semval[s]
    BY <2>2 DEF BeforeSemInit, TypeOK
  <2>3. ASSUME NEW t \in Tid, SimulateSemWait(t) PROVE semval'[s] = semval[s]
    BY <2>3 DEF SimulateSemWait, semVars, TypeOK
  <2>4. ASSUME NEW t \in Tid, CleanupLock(t) PROVE UNCHANGED semval
    BY <2>4 DEF CleanupLock, semVars
  <2>5. CASE MainReturns \/ Ended
    BY <2>5 DEF MainReturns, Ended, vars, semVars
  <2> QED
    BY <2>1, <2>2, <2>3, <2>4, <2>5, AppStepSemval, LibStepSemval DEF Next
<1> QED
  BY <1>1, TypeCorrect, PTL DEF Spec, DestroyedSemUntouched

-----------------------------------------------------------------------------
(***************************************************************************)
(* For any number of threads, any objects, any application and either      *)
(* scheduling policy, exactly one thread has the right to run.             *)
(*                                                                         *)
(* Serialized is not inductive by itself: a thread that is not created yet *)
(* must not be one that has the right to run, or pthread_create would wipe *)
(* it out.  Born says so.  Every action then has one of four effects on    *)
(* who has the right to run: it is kept, handed over, taken up or the      *)
(* process ends.                                                           *)
(***************************************************************************)

\* Ids above curr_id belong to no thread.
Born ==
  status = "running" => \A u \in Tid : u > curr_id => pc[u] = "none"

SerialInv == TypeOK /\ Serialized /\ Born

\* Nothing happens to the right to run while t moves to control point p.
Keeps(t, p) ==
  /\ pc[t] # "none"
  /\ pc' = [pc EXCEPT ![t] = p]
  /\ p \in ActivePC <=> pc[t] \in ActivePC
  /\ UNCHANGED <<sem_map, was_signalled_map, curr_id>>

\* The thread t has the right to run, gives it up and moves to p.
HandsOver(t, p, ws) ==
  /\ pc[t] # "none"
  /\ HasBaton(t)
  /\ ws = [was_signalled_map EXCEPT ![t] = TRUE]
  /\ p \notin ActivePC
  /\ pc' = [pc EXCEPT ![t] = p]
  /\ ScheduleWith(ws)
  /\ UNCHANGED curr_id

\* The process ends here: Serialized and Born say nothing about it.
LEMMA Stops ==
  ASSUME status' # "running"
  PROVE  Serialized' /\ Born'
BY DEF Serialized, Born

\* A step that launches nobody and stays on its side of ActivePC.
LEMMA KeepsBaton ==
  ASSUME SerialInv, status = "running", NEW t \in Tid, NEW p \in PC, Keeps(t, p)
  PROVE  Serialized' /\ Born'
<1>1. \A u \in Tid : (pc'[u] \in ActivePC) <=> (pc[u] \in ActivePC)
  BY DEF SerialInv, TypeOK, Keeps
<1>2. \A u \in Tid : HasBaton(u)' <=> HasBaton(u)
  BY <1>1 DEF Keeps, HasBaton
<1>3. Serialized'
  BY <1>1, <1>2 DEF SerialInv, Serialized, Keeps
<1>4. Born'
  BY DEF SerialInv, TypeOK, Born, Keeps
<1> QED
  BY <1>3, <1>4

\* A thread that has the right to run holds it in one form only.
LEMMA OneForm ==
  ASSUME SerialInv, status = "running", NEW t \in Tid, HasBaton(t)
  PROVE  /\ pc[t] \in ActivePC => sem_map[t] = 0 /\ was_signalled_map[t]
         /\ ~was_signalled_map[t] => sem_map[t] = 0
         /\ \A u \in Tid \ {t} : /\ pc[u] \notin ActivePC
                                 /\ sem_map[u] = 0
                                 /\ was_signalled_map[u] = TRUE
<1>1. \A u \in Tid : sem_map[u] \in Nat /\ sem_map[u] <= 1
  BY DEF SerialInv, TypeOK, Serialized
<1>2. \A u \in Tid \ {t} : ~HasBaton(u)
  BY DEF SerialInv, Serialized
<1>3. \A u \in Tid : was_signalled_map[u] \in BOOLEAN
  BY DEF SerialInv, TypeOK
<1>4. ~was_signalled_map[t] => sem_map[t] = 0
  BY <1>1 DEF SerialInv, Serialized
<1>5. ASSUME NEW u \in Tid \ {t}
      PROVE  pc[u] \notin ActivePC /\ sem_map[u] = 0 /\ was_signalled_map[u] = TRUE
  BY <1>1, <1>2, <1>3 DEF HasBaton
<1>6. pc[t] \in ActivePC => sem_map[t] = 0 /\ was_signalled_map[t]
  BY DEF SerialInv, Serialized
<1> QED
  BY <1>4, <1>5, <1>6

\* The right to run goes to the launched thread, which may be t again.
LEMMA HandsOverBaton ==
  ASSUME SerialInv, status = "running", NEW t \in Tid, NEW p \in PC, NEW ws, HandsOver(t, p, ws),
         pc[t] \in ActivePC \/ ~was_signalled_map[t]
  PROVE  Serialized' /\ Born'
<1>1. \A u \in Tid : sem_map[u] = 0
  BY OneForm DEF HandsOver
<1>2. \A u \in Tid : pc'[u] \notin ActivePC
  BY OneForm DEF HandsOver, SerialInv, TypeOK
<1>3. \A u \in Tid : ws[u] = TRUE
  BY OneForm DEF HandsOver, SerialInv, TypeOK
<1>4. CASE Halt("deadlock")
  BY <1>4, Stops DEF Halt
<1>5. ASSUME NEW n \in Tid, launchThread(n, cond_map', ws)
      PROVE  Serialized'
  <2>1. /\ sem_map \in [Tid -> Nat]
        /\ ws \in [Tid -> BOOLEAN]
    BY DEF SerialInv, TypeOK, HandsOver
  <2>2. CASE cond_map'[n] # NULL
    <3>1. \A u \in Tid : sem_map'[u] = 0 /\ (was_signalled_map'[u] <=> u # n)
      BY <1>1, <1>3, <1>5, <2>1, <2>2 DEF launchThread
    <3> QED
      BY <1>2, <3>1 DEF Serialized, HasBaton
  <2>3. CASE cond_map'[n] = NULL
    <3>1. /\ \A u \in Tid : was_signalled_map'[u] = TRUE
          /\ \A u \in Tid : sem_map'[u] = IF u = n THEN 1 ELSE 0
      BY <1>1, <1>3, <1>5, <2>1, <2>3 DEF launchThread
    <3> QED
      BY <1>2, <3>1 DEF Serialized, HasBaton
  <2> QED
    BY <2>2, <2>3
<1>6. Born'
  BY DEF HandsOver, Born, SerialInv, TypeOK
<1> QED
  BY <1>4, <1>5, <1>6 DEF HandsOver, ScheduleWith

\* The launched thread t takes up the right to run.
LEMMA PauseSerial ==
  ASSUME SerialInv, NEW t \in Tid, pauseThread(t)
  PROVE  Serialized' /\ Born'
<1>1. status = "running" /\ HasBaton(t) /\ sem_map[t] = 1
  BY DEF pauseThread, HasBaton, SerialInv, TypeOK, Serialized
<1>2. was_signalled_map[t]
  BY <1>1 DEF SerialInv, Serialized
<1>3. \A u \in Tid : sem_map'[u] = 0 /\ was_signalled_map'[u]
  <2>1. /\ sem_map' = [sem_map EXCEPT ![t] = sem_map[t] - 1]
        /\ was_signalled_map' = was_signalled_map
    BY DEF pauseThread
  <2>2. \A u \in Tid \ {t} : sem_map[u] = 0 /\ was_signalled_map[u]
    BY <1>1, OneForm
  <2> QED
    BY <1>1, <1>2, <2>1, <2>2 DEF SerialInv, TypeOK
<1>4. PICK p \in {"app", "joining", "launched"} : pc' = [pc EXCEPT ![t] = p]
  <2>1. CASE call[t] = "point"
    BY <2>1 DEF pauseThread, Goto
  <2>2. CASE call[t] = "join"
    BY <2>2 DEF pauseThread, Goto, Step
  <2>3. CASE call[t] \notin {"point", "join"}
    BY <2>3 DEF pauseThread, Goto, Step
  <2> QED
    BY <2>1, <2>2, <2>3
<1>5. \A u \in Tid : pc'[u] \in ActivePC <=> u = t
  BY <1>1, <1>4, OneForm DEF SerialInv, TypeOK, ActivePC
<1>6. Serialized'
  BY <1>3, <1>5 DEF Serialized, HasBaton
<1>7. Born'
  BY <1>1, <1>4 DEF pauseThread, Born, SerialInv, TypeOK, threadVars
<1> QED
  BY <1>6, <1>7

\* The new thread has no right to run, its creator keeps it.
LEMMA CreateSerial ==
  ASSUME SerialInv, NEW t \in Tid, BeforeCreate(t)
  PROVE  Serialized' /\ Born'
<1> DEFINE child == curr_id + 1
<1>1. child \in Tid /\ curr_id \in Tid
  BY ConstantsAssumption DEF SerialInv, TypeOK, BeforeCreate, Tid
<1>2. status = "running" /\ pc[t] = "app" /\ HasBaton(t)
  BY DEF BeforeCreate, Running, HasBaton, ActivePC
<1>3. pc[child] = "none" /\ child # t
  BY <1>1, <1>2 DEF SerialInv, Born, Tid
<1>4. pc' = [pc EXCEPT ![t] = "creating", ![child] = "starting"]
  BY DEF BeforeCreate
<1>5. \A u \in Tid : pc'[u] \in ActivePC <=> u = t
  BY <1>1, <1>2, <1>3, <1>4, OneForm DEF SerialInv, TypeOK, ActivePC
<1>6. /\ sem_map' = [sem_map EXCEPT ![child] = 0]
      /\ was_signalled_map' = [was_signalled_map EXCEPT ![child] = TRUE]
  BY DEF BeforeCreate
<1>7. \A u \in Tid : sem_map[u] = 0 /\ was_signalled_map[u] = TRUE
  BY <1>2, OneForm DEF SerialInv, TypeOK, ActivePC
<1>8. \A u \in Tid : sem_map'[u] = 0 /\ was_signalled_map'[u] = TRUE
  BY <1>1, <1>6, <1>7 DEF SerialInv, TypeOK
<1>9. Serialized'
  BY <1>5, <1>8 DEF Serialized, HasBaton
<1>10. Born'
  <2>1. curr_id' = child
    BY DEF BeforeCreate
  <2>2. t <= curr_id
    BY <1>1, <1>2 DEF SerialInv, Born, Tid
  <2> QED
    BY <1>1, <1>2, <1>4, <2>1, <2>2 DEF SerialInv, Born, TypeOK, Tid
<1> QED
  BY <1>9, <1>10

\* No thread moves and no thread is launched.
LEMMA UntouchedBaton ==
  ASSUME SerialInv, UNCHANGED <<sem_map, was_signalled_map, status, pc, curr_id>>
  PROVE  Serialized' /\ Born'
BY DEF SerialInv, Serialized, HasBaton, Born

\* A scheduling point: the thread t, which runs, lets the scheduler choose.
GivesUp(t, p) ==
  /\ status = "running"
  /\ pc[t] \in ActivePC
  /\ p \notin ActivePC
  /\ pc' = [pc EXCEPT ![t] = p]
  /\ Schedule
  /\ UNCHANGED curr_id

\* At a scheduling point was_signalled_map[t] is TRUE already.
LEMMA GivesUpBaton ==
  ASSUME SerialInv, NEW t \in Tid, NEW p \in PC, GivesUp(t, p)
  PROVE  Serialized' /\ Born'
<1>1. status = "running" /\ HasBaton(t) /\ pc[t] # "none"
  BY DEF GivesUp, HasBaton, ActivePC
<1>2. was_signalled_map = [was_signalled_map EXCEPT ![t] = TRUE]
  BY <1>1, OneForm DEF GivesUp, SerialInv, TypeOK
<1>3. HandsOver(t, p, was_signalled_map)
  BY <1>1, <1>2 DEF GivesUp, HandsOver, Schedule
<1> QED
  BY <1>1, <1>3, HandsOverBaton DEF GivesUp

-----------------------------------------------------------------------------
(***************************************************************************)
(* The actions that may end the process or leave for several places.       *)
(***************************************************************************)

\* thrilleSchedPoint fails its assertion or schedules.
LEMMA ThrilleSchedPointSerial ==
  ASSUME SerialInv, NEW t \in Tid, thrilleSchedPoint(t)
  PROVE  Serialized' /\ Born'
<1>1. CASE SchedPoint(t)
  <2>1. GivesUp(t, "paused")
    BY <1>1 DEF SchedPoint, Running, GivesUp, Goto, threadVars, ActivePC
  <2> QED
    BY <2>1, GivesUpBaton DEF PC
<1>2. CASE Halt("assert")
  BY <1>2, Stops DEF Halt
<1> QED
  BY <1>1, <1>2 DEF thrilleSchedPoint

\* pthread_join fails registerThreadJoin or schedules.
LEMMA BeforeJoinSerial ==
  ASSUME SerialInv, NEW t \in Tid, BeforeJoin(t)
  PROVE  Serialized' /\ Born'
<1>1. CASE Halt("assert")
  BY <1>1, Stops DEF Halt
<1>2. CASE Schedule
  <2>1. GivesUp(t, "paused")
    BY <1>2 DEF BeforeJoin, Running, GivesUp, Goto, ActivePC
  <2> QED
    BY <2>1, GivesUpBaton DEF PC
<1> QED
  BY <1>1, <1>2 DEF BeforeJoin

\* A wait gives up the right to run along with the mutex.
LEMMA EnterWaitSerial ==
  ASSUME SerialInv, NEW t \in Tid, NEW kind, EnterWait(t, kind)
  PROVE  Serialized' /\ Born'
<1>1. CASE Halt("misuse")
  BY <1>1, Stops DEF Halt
<1>2. CASE Schedule /\ pc' = [pc EXCEPT ![t] = "cwait"]
  <2>1. GivesUp(t, "cwait")
    BY <1>2 DEF EnterWait, Running, GivesUp, threadVars, ActivePC
  <2> QED
    BY <2>1, GivesUpBaton DEF PC
<1> QED
  BY <1>1, <1>2 DEF EnterWait, Goto

\* A signaller that looks for a waiter keeps the right to run.
LEMMA NextTargetMoves ==
  ASSUME NEW t \in Tid, NEW c, NEW kind, NextTarget(t, c, kind)
  PROVE  \E p \in {"sigend", "sigwake"} : pc' = [pc EXCEPT ![t] = p]
BY DEF NextTarget, Goto

\* A signal or broadcast begins, with or without a waiter.
LEMMA BeforeCondSignalSerial ==
  ASSUME SerialInv, NEW t \in Tid, NEW kind, BeforeCondSignal(t, kind)
  PROVE  Serialized' /\ Born'
<1>1. CASE Halt("misuse")
  BY <1>1, Stops DEF Halt
<1>2. ASSUME NEW c \in Cond, NextTarget(t, c, kind), UNCHANGED launchVars
      PROVE  Serialized' /\ Born'
  <2>1. PICK p \in {"sigend", "sigwake"} : pc' = [pc EXCEPT ![t] = p]
    BY <1>2, NextTargetMoves
  <2>2. Keeps(t, p)
    BY <1>2, <2>1 DEF BeforeCondSignal, Running, Keeps, launchVars, threadVars, ActivePC
  <2>3. p \in PC /\ status = "running"
    BY DEF PC, BeforeCondSignal, Running
  <2> QED
    BY <2>2, <2>3, KeepsBaton
<1> QED
  BY <1>1, <1>2 DEF BeforeCondSignal

\* The signaller goes on to its next target or to its end.
LEMMA WaitThreadReadySerial ==
  ASSUME SerialInv, NEW t \in Tid, waitThreadReady(t)
  PROVE  Serialized' /\ Born'
<1>1. PICK p \in {"sigend", "sigwake"} : pc' = [pc EXCEPT ![t] = p]
  BY NextTargetMoves DEF waitThreadReady, Step, Goto
<1>2. Keeps(t, p)
  BY <1>1 DEF waitThreadReady, Keeps, launchVars, threadVars, ActivePC
<1>3. p \in PC /\ status = "running"
  BY DEF PC, waitThreadReady
<1> QED
  BY <1>2, <1>3, KeepsBaton

\* The woken thread goes on beside its signaller, without the right to run.
LEMMA SignalThreadReadySerial ==
  ASSUME SerialInv, NEW t \in Tid, signalThreadReady(t)
  PROVE  Serialized' /\ Born'
<1>1. PICK p \in {"timed", "paused"} : pc' = [pc EXCEPT ![t] = p]
  BY DEF signalThreadReady, Step, Goto
<1>2. Keeps(t, p)
  BY <1>1 DEF signalThreadReady, Keeps, launchVars, threadVars, ActivePC
<1>3. p \in PC /\ status = "running"
  BY DEF PC, signalThreadReady
<1> QED
  BY <1>2, <1>3, KeepsBaton

\* After a timeout t has the right to run and hands it over; woken by a
\* signal it has nothing to hand over.
LEMMA TimedwaitEndSerial ==
  ASSUME SerialInv, NEW t \in Tid, TimedwaitEnd(t)
  PROVE  Serialized' /\ Born'
<1>1. /\ status = "running" /\ pc[t] = "timed" /\ UNCHANGED curr_id
      /\ pc' = [pc EXCEPT ![t] = "paused"]
  BY DEF TimedwaitEnd, Step, Goto, threadVars
<1>2. CASE was_signalled_map[t]
  <2>1. Keeps(t, "paused")
    BY <1>1, <1>2 DEF TimedwaitEnd, Keeps, launchVars, ActivePC
  <2> QED
    BY <1>1, <2>1, KeepsBaton DEF PC
<1>3. CASE ~was_signalled_map[t]
  <2>1. HandsOver(t, "paused", [was_signalled_map EXCEPT ![t] = TRUE])
    BY <1>1, <1>3 DEF TimedwaitEnd, HandsOver, HasBaton, ActivePC
  <2> QED
    BY <1>1, <1>3, <2>1, HandsOverBaton DEF PC
<1> QED
  BY <1>2, <1>3

\* sem_wait refuses a destroyed semaphore or schedules.
LEMMA BeforeSemWaitSerial ==
  ASSUME SerialInv, NEW t \in Tid, BeforeSemWait(t)
  PROVE  Serialized' /\ Born'
<1>1. CASE Halt("misuse")
  BY <1>1, Stops DEF Halt
<1>2. CASE Schedule /\ pc' = [pc EXCEPT ![t] = "paused"]
  <2>1. GivesUp(t, "paused")
    BY <1>2 DEF BeforeSemWait, Running, GivesUp, threadVars, ActivePC
  <2> QED
    BY <2>1, GivesUpBaton DEF PC
<1> QED
  BY <1>1, <1>2 DEF BeforeSemWait, Goto

\* sem_post refuses a destroyed semaphore or schedules.
LEMMA SimulateSemPostSerial ==
  ASSUME SerialInv, NEW t \in Tid, SimulateSemPost(t)
  PROVE  Serialized' /\ Born'
<1>1. CASE Halt("misuse")
  BY <1>1, Stops DEF Halt
<1>2. CASE Schedule /\ pc' = [pc EXCEPT ![t] = "paused"]
  <2>1. GivesUp(t, "paused")
    BY <1>2 DEF SimulateSemPost, Running, GivesUp, threadVars, ActivePC
  <2> QED
    BY <2>1, GivesUpBaton DEF PC
<1> QED
  BY <1>1, <1>2 DEF SimulateSemPost, Goto

\* sem_wait fails an assertion or returns to the application.
LEMMA SimulateSemWaitSerial ==
  ASSUME SerialInv, NEW t \in Tid, SimulateSemWait(t)
  PROVE  Serialized' /\ Born'
<1>1. CASE Halt("assert") \/ Halt("misuse")
  BY <1>1, Stops DEF Halt
<1>2. CASE UNCHANGED launchVars
  <2>1. Keeps(t, "app")
    BY <1>2 DEF SimulateSemWait, Keeps, Goto, launchVars, threadVars, ActivePC
  <2>2. "app" \in PC /\ status = "running"
    BY DEF PC, SimulateSemWait
  <2> QED
    BY <2>1, <2>2, KeepsBaton
<1> QED
  BY <1>1, <1>2 DEF SimulateSemWait

\* pthread_barrier_wait fails a check or schedules.
LEMMA BeforeBarrierWaitSerial ==
  ASSUME SerialInv, NEW t \in Tid, BeforeBarrierWait(t)
  PROVE  Serialized' /\ Born'
<1>1. CASE Halt("assert") \/ Halt("misuse")
  BY <1>1, Stops DEF Halt
<1>2. CASE Schedule
  <2>1. GivesUp(t, "paused")
    BY <1>2 DEF BeforeBarrierWait, Running, GivesUp, Goto, threadVars, ActivePC
  <2> QED
    BY <2>1, GivesUpBaton DEF PC
<1> QED
  BY <1>1, <1>2 DEF BeforeBarrierWait, BarrierOpens, BarrierBlocks

-----------------------------------------------------------------------------
(***************************************************************************)
(* One step per action of Next.                                            *)
(***************************************************************************)

\* Every call of the application.
LEMMA AppStepSerial ==
  ASSUME SerialInv, NEW t \in Tid, AppStep(t)
  PROVE  Serialized' /\ Born'
<1>1. CASE MyMemoryAccess(t)
  <2>1. GivesUp(t, "paused")
    BY <1>1 DEF MyMemoryAccess, SchedPoint, Running, GivesUp, Goto, threadVars, ActivePC
  <2> QED
    BY <2>1, GivesUpBaton DEF PC, ActivePC
<1>2. CASE SimulateSleep(t)
  <2>1. GivesUp(t, "paused")
    BY <1>2 DEF SimulateSleep, SchedPoint, Running, GivesUp, Goto, threadVars, ActivePC
  <2> QED
    BY <2>1, GivesUpBaton DEF PC, ActivePC
<1>3. CASE thrilleCheckpoint(t)
  <2>1. GivesUp(t, "paused")
    BY <1>3 DEF thrilleCheckpoint, SchedPoint, Running, GivesUp, Goto, threadVars, ActivePC
  <2> QED
    BY <2>1, GivesUpBaton DEF PC, ActivePC
<1>4. CASE thrilleSchedPoint(t)
  BY <1>4, ThrilleSchedPointSerial
<1>5. CASE ProgramError(t)
  BY <1>5, Stops DEF ProgramError, Halt
<1>6. CASE BeforeCreate(t)
  BY <1>6, CreateSerial
<1>7. CASE ThreadFinish(t)
  <2>1. GivesUp(t, "finishing")
    BY <1>7 DEF ThreadFinish, finalizeThread, Running, GivesUp, Goto, threadVars, ActivePC
  <2> QED
    BY <2>1, GivesUpBaton DEF PC, ActivePC
<1>8. CASE SimulateExit(t)
  <2>1. GivesUp(t, "finishing")
    BY <1>8 DEF SimulateExit, finalizeThread, Running, GivesUp, Goto, threadVars, ActivePC
  <2> QED
    BY <2>1, GivesUpBaton DEF PC, ActivePC
<1>9. CASE BeforeJoin(t)
  BY <1>9, BeforeJoinSerial
<1>10. CASE BeforeMutexLock(t)
  <2>1. GivesUp(t, "paused")
    BY <1>10 DEF BeforeMutexLock, Running, GivesUp, Goto, threadVars, ActivePC
  <2> QED
    BY <2>1, GivesUpBaton DEF PC, ActivePC
<1>11. CASE BeforeMutexTrylock(t)
  <2>1. GivesUp(t, "paused")
    BY <1>11 DEF BeforeMutexTrylock, Running, GivesUp, Goto, threadVars, ActivePC
  <2> QED
    BY <2>1, GivesUpBaton DEF PC, ActivePC
<1>12. CASE MutexUnlock(t)
  <2>1. Keeps(t, "unlocking")
    BY <1>12 DEF MutexUnlock, Running, Keeps, Step, Goto, launchVars, threadVars, ActivePC
  <2>2. "unlocking" \in PC /\ status = "running"
    BY <1>12 DEF MutexUnlock, Running, PC
  <2> QED
    BY <2>1, <2>2, KeepsBaton
<1>13. CASE SimulateMutexDestroy(t)
  BY <1>13, UntouchedBaton DEF SimulateMutexDestroy, Running, launchVars, controlVars, threadVars
<1>14. CASE BeforeMutexInit(t)
  BY <1>14, UntouchedBaton DEF BeforeMutexInit, Running, launchVars, controlVars, threadVars
<1>15. CASE InvalidMutexFault(t)
  BY <1>15, Stops DEF InvalidMutexFault, Halt
<1>16. CASE SimulateCondWait(t)
  BY <1>16, EnterWaitSerial DEF SimulateCondWait
<1>17. CASE SimulateCondTimedwait(t)
  BY <1>17, EnterWaitSerial DEF SimulateCondTimedwait
<1>18. CASE BeforeCondSignal(t, "signal")
  BY <1>18, BeforeCondSignalSerial
<1>19. CASE BeforeCondSignal(t, "broadcast")
  BY <1>19, BeforeCondSignalSerial
<1>20. CASE SimulateCondDestroy(t)
  BY <1>20, UntouchedBaton DEF SimulateCondDestroy, Running, launchVars, controlVars, threadVars
<1>21. CASE BeforeCondInit(t)
  BY <1>21, UntouchedBaton DEF BeforeCondInit, Running, launchVars, controlVars, threadVars
<1>22. CASE BeforeSemWait(t)
  BY <1>22, BeforeSemWaitSerial
<1>23. CASE SimulateSemPost(t)
  BY <1>23, SimulateSemPostSerial
<1>24. CASE SimulateSemDestroy(t)
  BY <1>24, UntouchedBaton DEF SimulateSemDestroy, Running, launchVars, controlVars, threadVars
<1>25. CASE BeforeSemInit(t)
  BY <1>25, UntouchedBaton DEF BeforeSemInit, Running, launchVars, controlVars, threadVars
<1>26. CASE BeforeBarrierInit(t)
  BY <1>26, UntouchedBaton DEF BeforeBarrierInit, Running, launchVars, controlVars, threadVars
<1>27. CASE BeforeBarrierWait(t)
  BY <1>27, BeforeBarrierWaitSerial
<1>28. CASE SimulateBarrierDestroy(t)
  BY <1>28, UntouchedBaton DEF SimulateBarrierDestroy, Running, launchVars, controlVars, threadVars
<1> QED
  BY <1>1, <1>2, <1>3, <1>4, <1>5, <1>6, <1>7, <1>8, <1>9, <1>10,
     <1>11, <1>12, <1>13, <1>14, <1>15, <1>16, <1>17, <1>18, <1>19, <1>20,
     <1>21, <1>22, <1>23, <1>24, <1>25, <1>26, <1>27, <1>28
     DEF AppStep

\* Every step of the library inside a call.
LEMMA LibStepSerial ==
  ASSUME SerialInv, NEW t \in Tid, LibStep(t)
  PROVE  Serialized' /\ Born'
<1>1. CASE pauseThread(t)
  BY <1>1, PauseSerial
<1>2. CASE AfterCreate(t)
  <2>1. GivesUp(t, "paused")
    BY <1>2 DEF AfterCreate, GivesUp, Goto, threadVars, ActivePC
  <2> QED
    BY <2>1, GivesUpBaton DEF PC, ActivePC
<1>3. CASE ThreadStart(t)
  <2>1. Keeps(t, "paused")
    BY <1>3 DEF ThreadStart, Keeps, Step, Goto, launchVars, threadVars, ActivePC
  <2>2. "paused" \in PC /\ status = "running"
    BY <1>3 DEF ThreadStart, PC
  <2> QED
    BY <2>1, <2>2, KeepsBaton
<1>4. CASE JoinReturns(t)
  <2>1. Keeps(t, "app")
    BY <1>4 DEF JoinReturns, Keeps, Step, Goto, launchVars, threadVars, ActivePC
  <2>2. "app" \in PC /\ status = "running"
    BY <1>4 DEF JoinReturns, PC
  <2> QED
    BY <2>1, <2>2, KeepsBaton
<1>5. CASE CleanupUnlock(t)
  <2>1. Keeps(t, "dead")
    BY <1>5 DEF CleanupUnlock, Keeps, Step, Goto, launchVars, threadVars, ActivePC
  <2>2. "dead" \in PC /\ status = "running"
    BY <1>5 DEF CleanupUnlock, PC
  <2> QED
    BY <2>1, <2>2, KeepsBaton
<1>6. CASE ThreadDies(t)
  <2>1. Keeps(t, "dead")
    BY <1>6 DEF ThreadDies, Keeps, Step, Goto, launchVars, threadVars, ActivePC
  <2>2. "dead" \in PC /\ status = "running"
    BY <1>6 DEF ThreadDies, PC
  <2> QED
    BY <2>1, <2>2, KeepsBaton
<1>7. CASE SimulateMutexLock(t)
  <2>1. Keeps(t, "app")
    BY <1>7 DEF SimulateMutexLock, Keeps, Step, Goto, launchVars, threadVars, ActivePC
  <2>2. "app" \in PC /\ status = "running"
    BY <1>7 DEF SimulateMutexLock, PC
  <2> QED
    BY <2>1, <2>2, KeepsBaton
<1>8. CASE SimulateMutexTrylock(t)
  <2>1. Keeps(t, "app")
    BY <1>8 DEF SimulateMutexTrylock, Keeps, Step, Goto, launchVars, threadVars, ActivePC
  <2>2. "app" \in PC /\ status = "running"
    BY <1>8 DEF SimulateMutexTrylock, PC
  <2> QED
    BY <2>1, <2>2, KeepsBaton
<1>9. CASE AfterMutexUnlock(t)
  <2>1. GivesUp(t, "paused")
    BY <1>9 DEF AfterMutexUnlock, GivesUp, Goto, threadVars, ActivePC
  <2> QED
    BY <2>1, GivesUpBaton DEF PC, ActivePC
<1>10. CASE waitPauseThread(t)
  <2>1. Keeps(t, "woken")
    BY <1>10 DEF waitPauseThread, Keeps, Step, Goto, launchVars, threadVars, ActivePC
  <2>2. "woken" \in PC /\ status = "running"
    BY <1>10 DEF waitPauseThread, PC
  <2> QED
    BY <2>1, <2>2, KeepsBaton
<1>11. CASE LeaveCond(t)
  <2>1. Keeps(t, "relock")
    BY <1>11 DEF LeaveCond, Keeps, Step, Goto, launchVars, threadVars, ActivePC
  <2>2. "relock" \in PC /\ status = "running"
    BY <1>11 DEF LeaveCond, PC
  <2> QED
    BY <2>1, <2>2, KeepsBaton
<1>12. CASE BeforeRelock(t)
  <2>1. Keeps(t, "ready")
    BY <1>12 DEF BeforeRelock, Keeps, Step, Goto, launchVars, threadVars, ActivePC
  <2>2. "ready" \in PC /\ status = "running"
    BY <1>12 DEF BeforeRelock, PC
  <2> QED
    BY <2>1, <2>2, KeepsBaton
<1>13. CASE signalThreadReady(t)
  BY <1>13, SignalThreadReadySerial
<1>14. CASE TimedwaitEnd(t)
  BY <1>14, TimedwaitEndSerial
<1>15. CASE scheduleThreadWaitingOnCond(t)
  <2>1. Keeps(t, "sigwait")
    BY <1>15 DEF scheduleThreadWaitingOnCond, Keeps, Step, Goto, launchVars, threadVars, ActivePC
  <2>2. "sigwait" \in PC /\ status = "running"
    BY <1>15 DEF scheduleThreadWaitingOnCond, PC
  <2> QED
    BY <2>1, <2>2, KeepsBaton
<1>16. CASE waitThreadReady(t)
  BY <1>16, WaitThreadReadySerial
<1>17. CASE SignalEnd(t)
  <2>1. GivesUp(t, "paused")
    BY <1>17 DEF SignalEnd, GivesUp, Goto, threadVars, ActivePC
  <2> QED
    BY <2>1, GivesUpBaton DEF PC, ActivePC
<1>18. CASE SimulateSemWait(t)
  BY <1>18, SimulateSemWaitSerial
<1> QED
  BY <1>1, <1>2, <1>3, <1>4, <1>5, <1>6, <1>7, <1>8, <1>9, <1>10,
     <1>11, <1>12, <1>13, <1>14, <1>15, <1>16, <1>17, <1>18
     DEF LibStep

\* Only the main thread runs at first.
LEMMA SerialInit == Init => SerialInv
<1> SUFFICES ASSUME Init PROVE SerialInv
  OBVIOUS
<1>1. 0 \in Tid
  BY ConstantsAssumption DEF Tid
<1>2. \A t \in Tid : (pc[t] \in ActivePC <=> t = 0) /\ sem_map[t] = 0 /\ was_signalled_map[t]
  BY DEF Init, ActivePC
<1>3. Serialized
  BY <1>1, <1>2 DEF Serialized, HasBaton
<1>4. Born
  BY DEF Init, Born
<1> QED
  BY <1>3, <1>4, TypeInit DEF SerialInv

\* The strengthened invariant is inductive.
LEMMA SerialNext == SerialInv /\ [Next]_vars => SerialInv'
<1> SUFFICES ASSUME SerialInv, [Next]_vars PROVE Serialized' /\ Born'
  BY TypeNext DEF SerialInv
<1>1. ASSUME NEW t \in Tid, AppStep(t) PROVE Serialized' /\ Born'
  BY <1>1, AppStepSerial
<1>2. ASSUME NEW t \in Tid, LibStep(t) PROVE Serialized' /\ Born'
  BY <1>2, LibStepSerial
<1>3. ASSUME NEW t \in Tid, CleanupLock(t) PROVE Serialized' /\ Born'
  <2>1. Keeps(t, "cleanup")
    BY <1>3 DEF CleanupLock, Keeps, Goto, launchVars, threadVars, ActivePC
  <2>2. "cleanup" \in PC /\ status = "running"
    BY <1>3 DEF CleanupLock, PC
  <2> QED
    BY <2>1, <2>2, KeepsBaton
<1>4. CASE MainReturns
  BY <1>4, Stops DEF MainReturns, Halt
<1>5. CASE UNCHANGED vars
  BY <1>5, UntouchedBaton DEF vars, launchVars, threadVars, controlVars
<1> QED
  BY <1>1, <1>2, <1>3, <1>4, <1>5 DEF Next, Ended

\* The serialization invariant holds for every application: launchThread and
\* pauseThread pass the right to run from thread to thread without losing or
\* duplicating it.
THEOREM SerializedAlways == Spec => []Serialized
<1>1. SerialInv => Serialized
  BY DEF SerialInv
<1> QED
  BY <1>1, SerialInit, SerialNext, PTL DEF Spec

-----------------------------------------------------------------------------
(***************************************************************************)
(* The handshake of condition variables, for any number of threads.        *)
(*                                                                         *)
(* A signaller reads cond_map without a lock, posts the wait semaphore of  *)
(* the thread it found and blocks until wait_ready_map says that thread is *)
(* done with its mutex.  That the target still waits when it is posted,    *)
(* and is posted once, rests on who has the right to run (SerialInv): the  *)
(* threads on their way out of a wait are those that a signaller waits for *)
(* or that were launched as a timeout.                                     *)
(***************************************************************************)

\* Control points between the return of waitPauseThread and signalThreadReady.
LeavingPC == {"woken", "relock", "ready"}

\* Some signaller has posted u and waits for it.
Posted(u) == \E t \in Tid : pc[t] = "sigwait" /\ newchoice[t] = u

\* cond_map[u] is set from the start of the wait to LeaveCond, no longer.
CondMapExact(u) == cond_map[u] # NULL <=> pc[u] \in {"cwait", "woken"}

\* The wait semaphore of u is up if and only if u is being woken and has not
\* noticed yet.
WaitSemExact(u) ==
  wait_sem_map[u] = IF pc[u] = "cwait" /\ (~was_signalled_map[u] \/ Posted(u)) THEN 1 ELSE 0

\* Nobody leaves a wait unless a signal or a timeout woke it.
LeavesForAReason(u) == pc[u] \in LeavingPC => ~was_signalled_map[u] \/ Posted(u)

\* A signaller that waits is let go exactly when its target is ready.
ReadyExact(t) ==
  pc[t] = "sigwait" =>
    (wait_ready_map[newchoice[t]] <=> pc[newchoice[t]] \notin {"cwait"} \cup LeavingPC)

\* The target of a signaller that is about to post.
TargetWaits(t) ==
  pc[t] = "sigwake" => pc[newchoice[t]] = "cwait" /\ cond_map[newchoice[t]] = arg[t]

\* A broadcast that has ended has left no waiter behind.
NoneLeft(t) == pc[t] = "sigend" /\ call[t] = "broadcast" => Waiters(arg[t]) = {}

Handshake ==
  status = "running" =>
    \A t \in Tid :
      /\ CondMapExact(t)
      /\ WaitSemExact(t)
      /\ LeavesForAReason(t)
      /\ ReadyExact(t)
      /\ TargetWaits(t)
      /\ NoneLeft(t)

HandshakeInv == SerialInv /\ Handshake

\* Control points that Handshake speaks of.
HandshakePC == {"cwait", "sigwake", "sigwait", "sigend"} \cup LeavingPC

-----------------------------------------------------------------------------
(***************************************************************************)
(* Steps that leave the handshake alone, and scheduling points.            *)
(***************************************************************************)

\* No thread enters, leaves or moves within a wait or a signal.
Quiet ==
  /\ UNCHANGED <<cond_map, wait_ready_map, wait_sem_map, was_signalled_map, newchoice>>
  /\ \A u \in Tid :
       \/ pc[u] \notin HandshakePC /\ pc'[u] \notin HandshakePC
       \/ pc'[u] = pc[u] /\ call'[u] = call[u] /\ arg'[u] = arg[u]

\* The process ends here: Handshake says nothing about it.
LEMMA HandshakeStops ==
  ASSUME status' # "running"
  PROVE  Handshake'
BY DEF Handshake

\* A step outside the handshake preserves it.
LEMMA QuietKeeps ==
  ASSUME HandshakeInv, status = "running", Quiet
  PROVE  Handshake'
<1>1. \A u \in Tid, q \in HandshakePC : pc'[u] = q <=> pc[u] = q
  BY DEF Quiet
<1>2. \A u \in Tid : Posted(u)' <=> Posted(u)
  <2>1. "sigwait" \in HandshakePC
    BY DEF HandshakePC
  <2> QED
    BY <1>1, <2>1 DEF Posted, Quiet
<1> SUFFICES ASSUME NEW t \in Tid
             PROVE  (/\ CondMapExact(t) /\ WaitSemExact(t) /\ LeavesForAReason(t)
                     /\ ReadyExact(t) /\ TargetWaits(t) /\ NoneLeft(t))'
  BY DEF Handshake
<1>3. /\ CondMapExact(t) /\ WaitSemExact(t) /\ LeavesForAReason(t)
      /\ ReadyExact(t) /\ TargetWaits(t) /\ NoneLeft(t)
  BY DEF HandshakeInv, Handshake
<1>4. CondMapExact(t)'
  BY <1>1, <1>3 DEF Quiet, CondMapExact, HandshakePC, LeavingPC
<1>5. WaitSemExact(t)'
  BY <1>1, <1>2, <1>3 DEF Quiet, WaitSemExact, HandshakePC
<1>6. LeavesForAReason(t)'
  BY <1>1, <1>2, <1>3 DEF Quiet, LeavesForAReason, HandshakePC, LeavingPC
<1>7. newchoice' = newchoice /\ wait_ready_map' = wait_ready_map /\ cond_map' = cond_map
  BY DEF Quiet
<1>8. pc[t] \in {"sigwake", "sigwait"} => newchoice[t] \in Tid
  BY DEF HandshakeInv, SerialInv, TypeOK, ArgOK
<1>9. ReadyExact(t)'
  BY <1>1, <1>3, <1>7, <1>8 DEF ReadyExact, HandshakePC, LeavingPC
<1>10. pc[t] \in HandshakePC \/ pc'[t] \in HandshakePC => call'[t] = call[t] /\ arg'[t] = arg[t]
  BY DEF Quiet
<1>11. TargetWaits(t)'
  BY <1>1, <1>3, <1>7, <1>8, <1>10 DEF TargetWaits, HandshakePC
<1>12. NoneLeft(t)'
  BY <1>1, <1>3, <1>7, <1>10 DEF NoneLeft, Waiters, HandshakePC
<1> QED
  BY <1>4, <1>5, <1>6, <1>9, <1>11, <1>12

\* When the scheduler runs, the handshakes are over: no signaller waits, no
\* timeout is pending.
Settled(ws) ==
  /\ \A u \in Tid :
       /\ pc'[u] \notin {"sigwake", "sigwait", "sigend"} \cup LeavingPC
       /\ cond_map'[u] # NULL <=> pc'[u] = "cwait"
       /\ wait_sem_map[u] = 0
       /\ ws[u] = TRUE
  /\ ws \in [Tid -> BOOLEAN]

\* launchThread posts the wait semaphore of a thread that waits, as a timeout.
LEMMA SchedulePosts ==
  ASSUME HandshakeInv, NEW ws, Settled(ws), ScheduleWith(ws)
  PROVE  Handshake'
<1>1. CASE Halt("deadlock")
  BY <1>1, HandshakeStops DEF Halt
<1>2. ASSUME NEW n \in Tid, launchThread(n, cond_map', ws)
      PROVE  Handshake'
  <2>1. \A u \in Tid : was_signalled_map'[u] <=> ~(u = n /\ pc'[n] = "cwait")
    BY <1>2 DEF launchThread, Settled
  <2>2. \A u \in Tid : wait_sem_map'[u] = IF u = n /\ pc'[n] = "cwait" THEN 1 ELSE 0
    BY <1>2 DEF launchThread, Settled, HandshakeInv, SerialInv, TypeOK
  <2>3. \A u \in Tid : ~Posted(u)'
    BY DEF Posted, Settled
  <2> SUFFICES ASSUME NEW t \in Tid
               PROVE  (/\ CondMapExact(t) /\ WaitSemExact(t) /\ LeavesForAReason(t)
                       /\ ReadyExact(t) /\ TargetWaits(t) /\ NoneLeft(t))'
    BY DEF Handshake
  <2>4. CondMapExact(t)' /\ LeavesForAReason(t)' /\ ReadyExact(t)' /\ TargetWaits(t)' /\ NoneLeft(t)'
    BY DEF Settled, CondMapExact, LeavesForAReason, ReadyExact, TargetWaits, NoneLeft, LeavingPC
  <2>5. WaitSemExact(t)'
    BY <2>1, <2>2, <2>3 DEF WaitSemExact
  <2> QED
    BY <2>4, <2>5
<1> QED
  BY <1>1, <1>2 DEF ScheduleWith

\* A thread that runs and is not waiting for its target finds every
\* handshake finished.
LEMMA RunnerFindsSettled ==
  ASSUME HandshakeInv, status = "running", NEW t \in Tid, HasBaton(t),
         pc[t] \notin {"sigwait"} \cup LeavingPC,
         pc[t] \in ActivePC \/ pc[t] = "timed"
  PROVE  /\ \A u \in Tid : ~Posted(u) /\ pc[u] \notin LeavingPC /\ wait_sem_map[u] = 0
         /\ \A u \in Tid \ {t} : pc[u] \notin ActivePC /\ was_signalled_map[u] = TRUE
<1>1. \A u \in Tid \ {t} : pc[u] \notin ActivePC /\ was_signalled_map[u] = TRUE
  BY OneForm DEF HandshakeInv
<1>2. \A u \in Tid : ~Posted(u)
  BY <1>1 DEF Posted, ActivePC
<1>3. \A u \in Tid : pc[u] \notin LeavingPC
  BY <1>1, <1>2 DEF HandshakeInv, Handshake, LeavesForAReason
<1>4. \A u \in Tid : wait_sem_map[u] = 0
  <2>1. pc[t] # "cwait"
    BY DEF ActivePC
  <2> QED
    BY <1>1, <1>2, <2>1 DEF HandshakeInv, Handshake, WaitSemExact
<1> QED
  BY <1>1, <1>2, <1>3, <1>4

\* A scheduling point: t, which runs, is not within a signal and does not
\* start to wait.
LEMMA GivesUpHandshake ==
  ASSUME HandshakeInv, NEW t \in Tid, NEW p \in PC, GivesUp(t, p),
         pc[t] # "sigwait", p # "cwait", p \notin LeavingPC,
         UNCHANGED cond_map
  PROVE  Handshake'
<1>1. HasBaton(t) /\ status = "running" /\ pc[t] \notin {"sigwait"} \cup LeavingPC /\ pc[t] # "cwait"
  BY DEF GivesUp, HasBaton, ActivePC, LeavingPC
<1>2. /\ \A u \in Tid : ~Posted(u) /\ pc[u] \notin LeavingPC /\ wait_sem_map[u] = 0
      /\ \A u \in Tid \ {t} : pc[u] \notin ActivePC /\ was_signalled_map[u] = TRUE
  BY <1>1, RunnerFindsSettled DEF GivesUp
<1>3. was_signalled_map[t] = TRUE
  BY <1>1, OneForm DEF GivesUp, HandshakeInv, SerialInv, TypeOK
<1>4. \A u \in Tid : cond_map[u] # NULL <=> pc[u] = "cwait"
  BY <1>1, <1>2 DEF HandshakeInv, Handshake, CondMapExact, LeavingPC
<1>5. \A u \in Tid : pc'[u] \notin {"sigwake", "sigwait", "sigend"} \cup LeavingPC
  BY <1>2 DEF GivesUp, HandshakeInv, SerialInv, TypeOK, ActivePC
<1>6. \A u \in Tid : cond_map'[u] # NULL <=> pc'[u] = "cwait"
  BY <1>1, <1>4 DEF GivesUp, HandshakeInv, SerialInv, TypeOK
<1>7. Settled(was_signalled_map)
  BY <1>2, <1>3, <1>5, <1>6 DEF Settled, HandshakeInv, SerialInv, TypeOK
<1> QED
  BY <1>7, SchedulePosts DEF GivesUp, Schedule

-----------------------------------------------------------------------------
(***************************************************************************)
(* The steps of the handshake itself.                                      *)
(***************************************************************************)

\* SimulateCondWait and SimulateCondTimedwait: t starts to wait.
LEMMA EnterWaitHandshake ==
  ASSUME HandshakeInv, NEW t \in Tid, NEW kind, EnterWait(t, kind)
  PROVE  Handshake'
<1>1. CASE Halt("misuse")
  BY <1>1, HandshakeStops DEF Halt
<1>2. ASSUME NEW c \in Cond, cond_map' = [cond_map EXCEPT ![t] = c],
             Schedule, pc' = [pc EXCEPT ![t] = "cwait"]
      PROVE  Handshake'
  <2>1. HasBaton(t) /\ status = "running" /\ pc[t] = "app"
    BY DEF EnterWait, Running, HasBaton, ActivePC
  <2>2. /\ \A u \in Tid : ~Posted(u) /\ pc[u] \notin LeavingPC /\ wait_sem_map[u] = 0
        /\ \A u \in Tid \ {t} : pc[u] \notin ActivePC /\ was_signalled_map[u] = TRUE
    BY <2>1, RunnerFindsSettled DEF ActivePC, LeavingPC
  <2>3. was_signalled_map[t] = TRUE
    BY <2>1, OneForm DEF HandshakeInv, SerialInv, TypeOK, ActivePC
  <2>4. \A u \in Tid : cond_map[u] # NULL <=> pc[u] = "cwait"
    BY <2>1, <2>2 DEF HandshakeInv, Handshake, CondMapExact, LeavingPC
  <2>5. \A u \in Tid : pc'[u] \notin {"sigwake", "sigwait", "sigend"} \cup LeavingPC
    BY <1>2, <2>2 DEF HandshakeInv, SerialInv, TypeOK, ActivePC, LeavingPC
  <2>6. \A u \in Tid : cond_map'[u] # NULL <=> pc'[u] = "cwait"
    BY <1>2, <2>4, ConstantsAssumption DEF HandshakeInv, SerialInv, TypeOK
  <2>7. Settled(was_signalled_map)
    BY <2>2, <2>3, <2>5, <2>6 DEF Settled, HandshakeInv, SerialInv, TypeOK
  <2> QED
    BY <1>2, <2>7, SchedulePosts DEF Schedule
<1> QED
  BY <1>1, <1>2 DEF EnterWait, Goto

\* While a thread is on its way out of a wait, no signaller is choosing.
LEMMA NoSecondSignaller ==
  ASSUME HandshakeInv, status = "running", NEW t \in Tid,
         ~was_signalled_map[t] \/ Posted(t), pc[t] \notin ActivePC
  PROVE  \A s \in Tid : pc[s] \notin {"sigwake", "sigend"}
<1>1. CASE ~was_signalled_map[t]
  BY <1>1, OneForm DEF HandshakeInv, HasBaton, ActivePC
<1>2. CASE Posted(t)
  <2>1. PICK r \in Tid : pc[r] = "sigwait"
    BY <1>2 DEF Posted
  <2> QED
    BY <2>1, OneForm DEF HandshakeInv, HasBaton, ActivePC
<1> QED
  BY <1>1, <1>2

\* A thread that was woken moves on; nothing but its own entries changes.
Leaves(t, p) ==
  /\ status = "running"
  /\ pc[t] \in {"cwait"} \cup LeavingPC
  /\ p \in {"woken", "relock", "ready", "paused", "timed"}
  /\ pc' = [pc EXCEPT ![t] = p]
  /\ UNCHANGED <<call, arg, newchoice, was_signalled_map>>

\* Moving on posts nobody and takes nothing from a signaller.
LEMMA LeavesFacts ==
  ASSUME HandshakeInv, NEW t \in Tid, NEW p \in PC, Leaves(t, p),
         ~was_signalled_map[t] \/ Posted(t)
  PROVE  /\ \A u \in Tid : Posted(u)' <=> Posted(u)
         /\ \A s \in Tid : pc'[s] \notin {"sigwake", "sigend"}
         /\ \A s \in Tid : pc'[s] = "sigwait" <=> pc[s] = "sigwait"
         /\ \A u \in Tid : TargetWaits(u)' /\ NoneLeft(u)'
<1>1. \A s \in Tid : pc'[s] = "sigwait" <=> pc[s] = "sigwait"
  BY DEF Leaves, HandshakeInv, SerialInv, TypeOK, LeavingPC
<1>2. pc[t] \notin ActivePC
  BY DEF Leaves, LeavingPC, ActivePC
<1>3. \A s \in Tid : pc[s] \notin {"sigwake", "sigend"}
  BY <1>2, NoSecondSignaller DEF Leaves
<1>4. \A s \in Tid : pc'[s] \notin {"sigwake", "sigend"}
  BY <1>3 DEF Leaves, HandshakeInv, SerialInv, TypeOK, LeavingPC
<1>5. \A u \in Tid : Posted(u)' <=> Posted(u)
  BY <1>1 DEF Posted, Leaves
<1>6. \A u \in Tid : TargetWaits(u)' /\ NoneLeft(u)'
  BY <1>4 DEF TargetWaits, NoneLeft
<1> QED
  BY <1>1, <1>4, <1>5, <1>6

\* The wait semaphore is taken once.
LEMMA WaitPauseHandshake ==
  ASSUME HandshakeInv, NEW t \in Tid, waitPauseThread(t)
  PROVE  Handshake'
<1> USE DEF HandshakeInv, Handshake
<1>1. /\ status = "running" /\ pc[t] = "cwait" /\ wait_sem_map[t] > 0
      /\ pc' = [pc EXCEPT ![t] = "woken"]
      /\ wait_sem_map' = [wait_sem_map EXCEPT ![t] = wait_sem_map[t] - 1]
      /\ UNCHANGED <<cond_map, wait_ready_map, newchoice, was_signalled_map>>
  BY DEF waitPauseThread, Step, Goto, condVars
<1>2. wait_sem_map[t] = 1 /\ (~was_signalled_map[t] \/ Posted(t))
  BY <1>1 DEF WaitSemExact
<1>3. Leaves(t, "woken")
  BY <1>1 DEF waitPauseThread, Step, Goto, Leaves, condVars, SerialInv, TypeOK
<1>4. /\ \A u \in Tid : Posted(u)' <=> Posted(u)
      /\ \A s \in Tid : pc'[s] = "sigwait" <=> pc[s] = "sigwait"
      /\ \A u \in Tid : TargetWaits(u)' /\ NoneLeft(u)'
  BY <1>2, <1>3, LeavesFacts DEF PC
<1>5. \A u \in Tid : CondMapExact(u)'
  BY <1>1 DEF CondMapExact, SerialInv, TypeOK
<1>6. \A u \in Tid : WaitSemExact(u)'
  BY <1>1, <1>2, <1>4 DEF WaitSemExact, SerialInv, TypeOK
<1>7. \A u \in Tid : LeavesForAReason(u)'
  BY <1>1, <1>2, <1>4 DEF LeavesForAReason, SerialInv, TypeOK, LeavingPC
<1>8. \A u \in Tid : ReadyExact(u)'
  BY <1>1, <1>4 DEF ReadyExact, SerialInv, TypeOK, ArgOK, LeavingPC
<1> QED
  BY <1>4, <1>5, <1>6, <1>7, <1>8

\* From here on the thread is no waiter any more.
LEMMA LeaveCondHandshake ==
  ASSUME HandshakeInv, NEW t \in Tid, LeaveCond(t)
  PROVE  Handshake'
<1> USE DEF HandshakeInv, Handshake
<1>1. /\ status = "running" /\ pc[t] = "woken"
      /\ pc' = [pc EXCEPT ![t] = "relock"]
      /\ cond_map' = [cond_map EXCEPT ![t] = NULL]
      /\ UNCHANGED <<wait_sem_map, wait_ready_map, newchoice, was_signalled_map>>
  BY DEF LeaveCond, Step, Goto, launchVars
<1>2. ~was_signalled_map[t] \/ Posted(t)
  BY <1>1 DEF LeavesForAReason, LeavingPC
<1>3. Leaves(t, "relock")
  BY <1>1 DEF LeaveCond, Step, Goto, Leaves, SerialInv, TypeOK, LeavingPC
<1>4. /\ \A u \in Tid : Posted(u)' <=> Posted(u)
      /\ \A s \in Tid : pc'[s] = "sigwait" <=> pc[s] = "sigwait"
      /\ \A u \in Tid : TargetWaits(u)' /\ NoneLeft(u)'
  BY <1>2, <1>3, LeavesFacts DEF PC
<1>5. \A u \in Tid : CondMapExact(u)'
  BY <1>1 DEF CondMapExact, SerialInv, TypeOK
<1>6. \A u \in Tid : WaitSemExact(u)'
  BY <1>1, <1>4 DEF WaitSemExact, SerialInv, TypeOK
<1>7. \A u \in Tid : LeavesForAReason(u)'
  BY <1>1, <1>2, <1>4 DEF LeavesForAReason, SerialInv, TypeOK, LeavingPC
<1>8. \A u \in Tid : ReadyExact(u)'
  BY <1>1, <1>4 DEF ReadyExact, SerialInv, TypeOK, ArgOK, LeavingPC
<1> QED
  BY <1>4, <1>5, <1>6, <1>7, <1>8

\* The thread files itself under its mutex.
LEMMA BeforeRelockHandshake ==
  ASSUME HandshakeInv, NEW t \in Tid, BeforeRelock(t)
  PROVE  Handshake'
<1> USE DEF HandshakeInv, Handshake
<1>1. /\ status = "running" /\ pc[t] = "relock"
      /\ pc' = [pc EXCEPT ![t] = "ready"]
      /\ UNCHANGED <<cond_map, wait_sem_map, wait_ready_map, newchoice, was_signalled_map>>
  BY DEF BeforeRelock, Step, Goto, launchVars, condVars
<1>2. ~was_signalled_map[t] \/ Posted(t)
  BY <1>1 DEF LeavesForAReason, LeavingPC
<1>3. Leaves(t, "ready")
  BY <1>1 DEF BeforeRelock, Step, Goto, Leaves, SerialInv, TypeOK, LeavingPC
<1>4. /\ \A u \in Tid : Posted(u)' <=> Posted(u)
      /\ \A s \in Tid : pc'[s] = "sigwait" <=> pc[s] = "sigwait"
      /\ \A u \in Tid : TargetWaits(u)' /\ NoneLeft(u)'
  BY <1>2, <1>3, LeavesFacts DEF PC
<1>5. \A u \in Tid : CondMapExact(u)'
  BY <1>1 DEF CondMapExact, SerialInv, TypeOK
<1>6. \A u \in Tid : WaitSemExact(u)'
  BY <1>1, <1>4 DEF WaitSemExact, SerialInv, TypeOK
<1>7. \A u \in Tid : LeavesForAReason(u)'
  BY <1>1, <1>2, <1>4 DEF LeavesForAReason, SerialInv, TypeOK, LeavingPC
<1>8. \A u \in Tid : ReadyExact(u)'
  BY <1>1, <1>4 DEF ReadyExact, SerialInv, TypeOK, ArgOK, LeavingPC
<1> QED
  BY <1>4, <1>5, <1>6, <1>7, <1>8

\* The signaller is let go.
LEMMA SignalThreadReadyHandshake ==
  ASSUME HandshakeInv, NEW t \in Tid, signalThreadReady(t)
  PROVE  Handshake'
<1> USE DEF HandshakeInv, Handshake
<1>1. PICK p \in {"timed", "paused"} : pc' = [pc EXCEPT ![t] = p]
  BY DEF signalThreadReady, Step, Goto
<1>2. /\ status = "running" /\ pc[t] = "ready"
      /\ wait_ready_map' = [wait_ready_map EXCEPT ![t] = TRUE]
      /\ UNCHANGED <<cond_map, wait_sem_map, newchoice, was_signalled_map>>
  BY DEF signalThreadReady, launchVars
<1>3. ~was_signalled_map[t] \/ Posted(t)
  BY <1>2 DEF LeavesForAReason, LeavingPC
<1>4. Leaves(t, p)
  BY <1>1, <1>2 DEF signalThreadReady, Step, Goto, Leaves, SerialInv, TypeOK, LeavingPC
<1>5. /\ \A u \in Tid : Posted(u)' <=> Posted(u)
      /\ \A s \in Tid : pc'[s] = "sigwait" <=> pc[s] = "sigwait"
      /\ \A u \in Tid : TargetWaits(u)' /\ NoneLeft(u)'
  <2>1. p \in PC
    BY DEF PC
  <2> QED
    BY <1>3, <1>4, <2>1, LeavesFacts
<1>6. \A u \in Tid : CondMapExact(u)'
  BY <1>1, <1>2 DEF CondMapExact, SerialInv, TypeOK
<1>7. \A u \in Tid : WaitSemExact(u)'
  BY <1>1, <1>2, <1>5 DEF WaitSemExact, SerialInv, TypeOK
<1>8. \A u \in Tid : LeavesForAReason(u)'
  BY <1>1, <1>2, <1>5 DEF LeavesForAReason, SerialInv, TypeOK, LeavingPC
<1>9. \A u \in Tid : ReadyExact(u)'
  BY <1>1, <1>2, <1>5 DEF ReadyExact, SerialInv, TypeOK, ArgOK, LeavingPC
<1> QED
  BY <1>5, <1>6, <1>7, <1>8, <1>9

\* The end of a timed wait, a scheduling point after a timeout.
LEMMA TimedwaitEndHandshake ==
  ASSUME HandshakeInv, NEW t \in Tid, TimedwaitEnd(t)
  PROVE  Handshake'
<1>1. /\ status = "running" /\ pc[t] = "timed"
      /\ pc' = [pc EXCEPT ![t] = "paused"]
      /\ UNCHANGED <<cond_map, wait_ready_map, newchoice>>
  BY DEF TimedwaitEnd, Step, Goto, condVars
<1>2. CASE was_signalled_map[t]
  <2>1. \A u \in Tid \ {t} : pc'[u] = pc[u] /\ call'[u] = call[u] /\ arg'[u] = arg[u]
    BY <1>1 DEF TimedwaitEnd, Step, Goto, HandshakeInv, SerialInv, TypeOK
  <2>2. pc[t] \notin HandshakePC /\ pc'[t] \notin HandshakePC
    BY <1>1 DEF HandshakePC, LeavingPC, HandshakeInv, SerialInv, TypeOK
  <2>3. Quiet
    BY <1>1, <1>2, <2>1, <2>2 DEF TimedwaitEnd, Quiet, launchVars
  <2> QED
    BY <1>1, <2>3, QuietKeeps
<1>3. CASE ~was_signalled_map[t]
  <2> DEFINE ws == [was_signalled_map EXCEPT ![t] = TRUE]
  <2>1. HasBaton(t)
    BY <1>3 DEF HasBaton
  <2>2. /\ \A u \in Tid : ~Posted(u) /\ pc[u] \notin LeavingPC /\ wait_sem_map[u] = 0
        /\ \A u \in Tid \ {t} : pc[u] \notin ActivePC /\ was_signalled_map[u] = TRUE
    BY <1>1, <2>1, RunnerFindsSettled DEF LeavingPC
  <2>3. \A u \in Tid : cond_map[u] # NULL <=> pc[u] = "cwait"
    BY <1>1, <2>2 DEF HandshakeInv, Handshake, CondMapExact, LeavingPC
  <2>4. \A u \in Tid : pc'[u] \notin {"sigwake", "sigwait", "sigend"} \cup LeavingPC
    BY <1>1, <2>2 DEF HandshakeInv, SerialInv, TypeOK, ActivePC, LeavingPC
  <2>5. \A u \in Tid : cond_map'[u] # NULL <=> pc'[u] = "cwait"
    BY <1>1, <2>3 DEF HandshakeInv, SerialInv, TypeOK
  <2>6. (\A u \in Tid : ws[u] = TRUE) /\ ws \in [Tid -> BOOLEAN]
    BY <2>2 DEF HandshakeInv, SerialInv, TypeOK
  <2>7. Settled(ws)
    BY <2>2, <2>4, <2>5, <2>6 DEF Settled
  <2>8. ScheduleWith(ws)
    BY <1>3 DEF TimedwaitEnd
  <2> QED
    BY <2>7, <2>8, SchedulePosts
<1> QED
  BY <1>2, <1>3

\* The signaller t, with every handshake settled, takes its next target from
\* cond_map or ends.
LEMMA NextTargetHandshake ==
  ASSUME HandshakeInv, status = "running", NEW t \in Tid, NEW c \in Cond, NEW kind,
         pc[t] # "cwait",
         \A u \in Tid : pc[u] \notin LeavingPC /\ wait_sem_map[u] = 0 /\ was_signalled_map[u] = TRUE,
         \A u \in Tid \ {t} : pc[u] \notin ActivePC,
         NextTarget(t, c, kind),
         UNCHANGED <<cond_map, wait_ready_map, wait_sem_map, was_signalled_map>>
  PROVE  Handshake'
<1>1. \A u \in Tid : cond_map[u] # NULL <=> pc[u] = "cwait"
  BY DEF HandshakeInv, Handshake, CondMapExact, LeavingPC
<1>2. PICK p \in {"sigend", "sigwake"} : pc' = [pc EXCEPT ![t] = p]
  BY NextTargetMoves
<1>3. call'[t] = kind /\ arg'[t] = c
  BY DEF NextTarget, Goto, HandshakeInv, SerialInv, TypeOK
<1>4. \A u \in Tid : pc'[u] # "sigwait" /\ pc'[u] \notin LeavingPC /\ (pc'[u] = "cwait" <=> pc[u] = "cwait")
  BY <1>2 DEF HandshakeInv, SerialInv, TypeOK, ActivePC, LeavingPC
<1>5. \A u \in Tid : ~Posted(u)'
  BY <1>4 DEF Posted
<1>6. \A u \in Tid : CondMapExact(u)' /\ WaitSemExact(u)' /\ LeavesForAReason(u)' /\ ReadyExact(u)'
  BY <1>1, <1>4, <1>5 DEF CondMapExact, WaitSemExact, LeavesForAReason, ReadyExact, LeavingPC
<1>7. \A u \in Tid \ {t} : pc'[u] \notin {"sigwake", "sigend"}
  BY <1>2 DEF HandshakeInv, SerialInv, TypeOK, ActivePC
<1>8. CASE Waiters(c) = {} /\ pc' = [pc EXCEPT ![t] = "sigend"]
  <2>1. pc'[t] = "sigend"
    BY <1>8 DEF HandshakeInv, SerialInv, TypeOK
  <2>2. \A u \in Tid : TargetWaits(u)' /\ NoneLeft(u)'
    BY <1>3, <1>7, <1>8, <2>1 DEF TargetWaits, NoneLeft, Waiters
  <2> QED
    BY <1>6, <2>2 DEF Handshake
<1>9. ASSUME NEW v \in Waiters(c), newchoice' = [newchoice EXCEPT ![t] = v],
             pc' = [pc EXCEPT ![t] = "sigwake"]
      PROVE  Handshake'
  <2>1. pc'[t] = "sigwake" /\ newchoice'[t] = v /\ v \in Tid /\ cond_map[v] = c
    BY <1>9 DEF HandshakeInv, SerialInv, TypeOK, Waiters
  <2>2. pc'[v] = "cwait"
    BY <1>1, <1>4, <2>1, ConstantsAssumption
  <2>3. \A u \in Tid : TargetWaits(u)' /\ NoneLeft(u)'
    BY <1>3, <1>7, <2>1, <2>2 DEF TargetWaits, NoneLeft
  <2> QED
    BY <1>6, <2>3 DEF Handshake
<1> QED
  BY <1>8, <1>9 DEF NextTarget, Goto, selectThreadWaitingOnCond

\* A signal or broadcast begins.
LEMMA BeforeCondSignalHandshake ==
  ASSUME HandshakeInv, NEW t \in Tid, NEW kind, BeforeCondSignal(t, kind)
  PROVE  Handshake'
<1>1. HasBaton(t) /\ status = "running" /\ pc[t] = "app"
  BY DEF BeforeCondSignal, Running, HasBaton, ActivePC
<1>2. CASE Halt("misuse")
  BY <1>2, HandshakeStops DEF Halt
<1>3. ASSUME NEW c \in Cond, NextTarget(t, c, kind), UNCHANGED launchVars
      PROVE  Handshake'
  <2>1. /\ \A u \in Tid : ~Posted(u) /\ pc[u] \notin LeavingPC /\ wait_sem_map[u] = 0
        /\ \A u \in Tid \ {t} : pc[u] \notin ActivePC /\ was_signalled_map[u] = TRUE
    BY <1>1, RunnerFindsSettled DEF ActivePC, LeavingPC
  <2>2. was_signalled_map[t] = TRUE
    BY <1>1, OneForm DEF HandshakeInv, SerialInv, TypeOK, ActivePC
  <2>3. UNCHANGED <<cond_map, wait_ready_map, wait_sem_map, was_signalled_map>>
    BY <1>3 DEF BeforeCondSignal, launchVars
  <2> QED
    BY <1>1, <1>3, <2>1, <2>2, <2>3, NextTargetHandshake
<1> QED
  BY <1>2, <1>3 DEF BeforeCondSignal

\* The signaller posts its target, which still waits.
LEMMA ScheduleWaitingHandshake ==
  ASSUME HandshakeInv, NEW t \in Tid, scheduleThreadWaitingOnCond(t)
  PROVE  Handshake'
<1> DEFINE u == newchoice[t]
<1>1. /\ status = "running" /\ pc[t] = "sigwake"
      /\ wait_ready_map' = [wait_ready_map EXCEPT ![u] = FALSE]
      /\ wait_sem_map' = [wait_sem_map EXCEPT ![u] = wait_sem_map[u] + 1]
      /\ pc' = [pc EXCEPT ![t] = "sigwait"]
      /\ UNCHANGED <<was_signalled_map, cond_map, newchoice>>
  BY DEF scheduleThreadWaitingOnCond, Step, Goto
<1>2. HasBaton(t)
  BY <1>1 DEF HasBaton, ActivePC
<1>3. /\ \A v \in Tid : ~Posted(v) /\ pc[v] \notin LeavingPC /\ wait_sem_map[v] = 0
      /\ \A v \in Tid \ {t} : pc[v] \notin ActivePC /\ was_signalled_map[v] = TRUE
  BY <1>1, <1>2, RunnerFindsSettled DEF ActivePC, LeavingPC
<1>4. was_signalled_map[t] = TRUE
  BY <1>1, <1>2, OneForm DEF HandshakeInv, SerialInv, TypeOK, ActivePC
<1>5. u \in Tid /\ pc[u] = "cwait" /\ u # t
  BY <1>1 DEF HandshakeInv, Handshake, TargetWaits, SerialInv, TypeOK, ArgOK
<1>6. \A v \in Tid : /\ pc'[v] = IF v = t THEN "sigwait" ELSE pc[v]
                     /\ wait_sem_map'[v] = IF v = u THEN 1 ELSE 0
                     /\ wait_ready_map'[u] = FALSE
  BY <1>1, <1>3, <1>5 DEF HandshakeInv, SerialInv, TypeOK
<1>7. \A v \in Tid \ {t} : pc'[v] \notin {"sigwake", "sigwait", "sigend"}
  BY <1>3, <1>6 DEF ActivePC
<1>8. \A v \in Tid : Posted(v)' <=> v = u
  BY <1>1, <1>6, <1>7 DEF Posted
<1>9. \A v \in Tid : CondMapExact(v)'
  BY <1>1, <1>6 DEF HandshakeInv, Handshake, CondMapExact
<1>10. \A v \in Tid : WaitSemExact(v)'
  BY <1>1, <1>3, <1>4, <1>5, <1>6, <1>8 DEF WaitSemExact
<1>11. \A v \in Tid : LeavesForAReason(v)'
  BY <1>3, <1>6 DEF LeavesForAReason, LeavingPC
<1>12. \A v \in Tid : ReadyExact(v)'
  BY <1>1, <1>5, <1>6, <1>7 DEF ReadyExact
<1>13. \A v \in Tid : TargetWaits(v)' /\ NoneLeft(v)'
  BY <1>6, <1>7 DEF TargetWaits, NoneLeft
<1> QED
  BY <1>9, <1>10, <1>11, <1>12, <1>13 DEF Handshake

\* The signaller goes on once its target is ready; a broadcast looks again.
LEMMA WaitThreadReadyHandshake ==
  ASSUME HandshakeInv, NEW t \in Tid, waitThreadReady(t)
  PROVE  Handshake'
<1> DEFINE u == newchoice[t]
<1>1. /\ status = "running" /\ pc[t] = "sigwait" /\ wait_ready_map[u]
      /\ UNCHANGED <<was_signalled_map, wait_sem_map, wait_ready_map, cond_map>>
  BY DEF waitThreadReady, launchVars
<1>2. HasBaton(t)
  BY <1>1 DEF HasBaton, ActivePC
<1>3. \A v \in Tid \ {t} : pc[v] \notin ActivePC /\ was_signalled_map[v] = TRUE
  BY <1>1, <1>2, OneForm DEF HandshakeInv
<1>4. was_signalled_map[t] = TRUE
  BY <1>1, <1>2, OneForm DEF HandshakeInv, SerialInv, TypeOK, ActivePC
<1>5. u \in Tid /\ call[t] \in {"signal", "broadcast"} /\ arg[t] \in Cond
  BY <1>1 DEF HandshakeInv, SerialInv, TypeOK, ArgOK
<1>6. pc[u] \notin {"cwait"} \cup LeavingPC
  BY <1>1 DEF HandshakeInv, Handshake, ReadyExact
<1>7. \A v \in Tid : Posted(v) => v = u
  BY <1>3 DEF Posted, ActivePC
<1>8. \A v \in Tid : pc[v] \notin LeavingPC /\ wait_sem_map[v] = 0
  BY <1>1, <1>3, <1>4, <1>6, <1>7 DEF HandshakeInv, Handshake, LeavesForAReason, WaitSemExact
<1>9. CASE call[t] = "broadcast"
  <2>1. NextTarget(t, arg[t], "broadcast")
    BY <1>9 DEF waitThreadReady
  <2> QED
    BY <1>1, <1>3, <1>4, <1>5, <1>8, <2>1, NextTargetHandshake
<1>10. CASE call[t] = "signal"
  <2>1. /\ pc' = [pc EXCEPT ![t] = "sigend"] /\ call'[t] = "signal"
    BY <1>10 DEF waitThreadReady, Step, Goto, HandshakeInv, SerialInv, TypeOK
  <2>2. \A v \in Tid : pc'[v] = IF v = t THEN "sigend" ELSE pc[v]
    BY <2>1 DEF HandshakeInv, SerialInv, TypeOK
  <2>3. \A v \in Tid \ {t} : pc'[v] \notin {"sigwake", "sigwait", "sigend"}
    BY <1>3, <2>2 DEF ActivePC
  <2>4. \A v \in Tid : ~Posted(v)'
    BY <2>2, <2>3 DEF Posted
  <2>5. \A v \in Tid : CondMapExact(v)'
    BY <1>1, <2>2 DEF HandshakeInv, Handshake, CondMapExact
  <2>6. \A v \in Tid : WaitSemExact(v)' /\ LeavesForAReason(v)'
    BY <1>1, <1>3, <1>4, <1>8, <2>2, <2>4 DEF WaitSemExact, LeavesForAReason, LeavingPC
  <2>7. \A v \in Tid : ReadyExact(v)' /\ TargetWaits(v)' /\ NoneLeft(v)'
    BY <2>1, <2>2, <2>3 DEF ReadyExact, TargetWaits, NoneLeft
  <2> QED
    BY <2>5, <2>6, <2>7 DEF Handshake
<1> QED
  BY <1>5, <1>9, <1>10

\* A new thread takes part in no wait.
LEMMA CreateHandshake ==
  ASSUME HandshakeInv, NEW t \in Tid, BeforeCreate(t)
  PROVE  Handshake'
<1> DEFINE child == curr_id + 1
<1>1. child \in Tid /\ curr_id \in Tid
  BY ConstantsAssumption DEF HandshakeInv, SerialInv, TypeOK, BeforeCreate, Tid
<1>2. status = "running" /\ pc[t] = "app" /\ HasBaton(t)
  BY DEF BeforeCreate, Running, HasBaton, ActivePC
<1>3. pc[child] = "none" /\ child # t
  BY <1>1, <1>2 DEF HandshakeInv, SerialInv, Born, Tid
<1>4. /\ \A v \in Tid : ~Posted(v) /\ pc[v] \notin LeavingPC /\ wait_sem_map[v] = 0
      /\ \A v \in Tid \ {t} : pc[v] \notin ActivePC /\ was_signalled_map[v] = TRUE
  BY <1>2, RunnerFindsSettled DEF ActivePC, LeavingPC
<1>5. was_signalled_map[t] = TRUE
  BY <1>2, OneForm DEF HandshakeInv, SerialInv, TypeOK, ActivePC
<1>6. \A v \in Tid : /\ pc'[v] = IF v = t THEN "creating" ELSE IF v = child THEN "starting" ELSE pc[v]
                     /\ cond_map'[v] = IF v = child THEN NULL ELSE cond_map[v]
  BY <1>1, <1>3 DEF BeforeCreate, HandshakeInv, SerialInv, TypeOK
<1>7. \A v \in Tid : wait_sem_map'[v] = 0 /\ was_signalled_map'[v] = TRUE
  BY <1>1, <1>4, <1>5 DEF BeforeCreate, HandshakeInv, SerialInv, TypeOK
<1>8. \A v \in Tid : pc'[v] \notin {"sigwake", "sigwait", "sigend"} \cup LeavingPC
  BY <1>4, <1>6 DEF ActivePC, LeavingPC
<1>9. \A v \in Tid : CondMapExact(v)'
  BY <1>2, <1>3, <1>6 DEF HandshakeInv, Handshake, CondMapExact
<1>10. \A v \in Tid : WaitSemExact(v)' /\ LeavesForAReason(v)'
  BY <1>7, <1>8 DEF WaitSemExact, LeavesForAReason, Posted
<1>11. \A v \in Tid : ReadyExact(v)' /\ TargetWaits(v)' /\ NoneLeft(v)'
  BY <1>8 DEF ReadyExact, TargetWaits, NoneLeft
<1> QED
  BY <1>9, <1>10, <1>11 DEF Handshake

-----------------------------------------------------------------------------
(***************************************************************************)
(* One step per action of Next.                                            *)
(***************************************************************************)

\* The thread t moves outside the handshake.
LEMMA QuietMove ==
  ASSUME HandshakeInv, status = "running", NEW t \in Tid, NEW p, NEW c, NEW o,
         Goto(t, p, c, o), pc[t] \notin HandshakePC, p \notin HandshakePC,
         UNCHANGED <<cond_map, wait_ready_map, wait_sem_map, was_signalled_map, newchoice>>
  PROVE  Handshake'
<1>1. \A u \in Tid \ {t} : pc'[u] = pc[u] /\ call'[u] = call[u] /\ arg'[u] = arg[u]
  BY DEF Goto, HandshakeInv, SerialInv, TypeOK
<1>2. pc'[t] = p
  BY DEF Goto, HandshakeInv, SerialInv, TypeOK
<1>3. Quiet
  BY <1>1, <1>2 DEF Quiet
<1> QED
  BY <1>3, QuietKeeps

\* Nobody moves.
LEMMA UntouchedHandshake ==
  ASSUME HandshakeInv,
         UNCHANGED <<cond_map, wait_ready_map, wait_sem_map, was_signalled_map, newchoice,
                     status, pc, call, arg>>
  PROVE  Handshake'
<1>1. CASE status = "running"
  BY <1>1, QuietKeeps DEF Quiet
<1>2. CASE status # "running"
  BY <1>2, HandshakeStops
<1> QED
  BY <1>1, <1>2

\* Every call of the application.
LEMMA AppStepHandshake ==
  ASSUME HandshakeInv, NEW t \in Tid, AppStep(t)
  PROVE  Handshake'
<1> USE DEF LeavingPC
<1>1. CASE MyMemoryAccess(t)
  <2>1. GivesUp(t, "paused") /\ UNCHANGED cond_map /\ pc[t] # "sigwait"
    BY <1>1 DEF MyMemoryAccess, SchedPoint, Running, GivesUp, Goto, threadVars, condVars, ActivePC
  <2> QED
    BY <2>1, GivesUpHandshake DEF PC
<1>2. CASE SimulateSleep(t)
  <2>1. GivesUp(t, "paused") /\ UNCHANGED cond_map /\ pc[t] # "sigwait"
    BY <1>2 DEF SimulateSleep, SchedPoint, Running, GivesUp, Goto, threadVars, condVars, ActivePC
  <2> QED
    BY <2>1, GivesUpHandshake DEF PC
<1>3. CASE thrilleCheckpoint(t)
  <2>1. GivesUp(t, "paused") /\ UNCHANGED cond_map /\ pc[t] # "sigwait"
    BY <1>3 DEF thrilleCheckpoint, SchedPoint, Running, GivesUp, Goto, threadVars, condVars, ActivePC
  <2> QED
    BY <2>1, GivesUpHandshake DEF PC
<1>4. CASE thrilleSchedPoint(t)
  <2>1. CASE Halt("assert")
    BY <2>1, HandshakeStops DEF Halt
  <2>2. CASE SchedPoint(t)
    <3>1. GivesUp(t, "paused") /\ UNCHANGED cond_map /\ pc[t] # "sigwait"
      BY <1>4, <2>2 DEF SchedPoint, Running, GivesUp, Goto, threadVars, condVars, ActivePC
    <3> QED
      BY <3>1, GivesUpHandshake DEF PC
  <2> QED
    BY <1>4, <2>1, <2>2 DEF thrilleSchedPoint
<1>5. CASE ProgramError(t)
  BY <1>5, HandshakeStops DEF ProgramError, Halt
<1>6. CASE BeforeCreate(t)
  BY <1>6, CreateHandshake
<1>7. CASE ThreadFinish(t)
  <2>1. GivesUp(t, "finishing") /\ UNCHANGED cond_map /\ pc[t] # "sigwait"
    BY <1>7 DEF ThreadFinish, finalizeThread, Running, GivesUp, Goto, threadVars, condVars, ActivePC
  <2> QED
    BY <2>1, GivesUpHandshake DEF PC
<1>8. CASE SimulateExit(t)
  <2>1. GivesUp(t, "finishing") /\ UNCHANGED cond_map /\ pc[t] # "sigwait"
    BY <1>8 DEF SimulateExit, finalizeThread, Running, GivesUp, Goto, threadVars, condVars, ActivePC
  <2> QED
    BY <2>1, GivesUpHandshake DEF PC
<1>9. CASE BeforeJoin(t)
  <2>1. CASE Halt("assert")
    BY <2>1, HandshakeStops DEF Halt
  <2>2. CASE Schedule
    <3>1. GivesUp(t, "paused") /\ UNCHANGED cond_map /\ pc[t] # "sigwait"
      BY <1>9, <2>2 DEF BeforeJoin, Running, GivesUp, Goto, threadVars, condVars, ActivePC
    <3> QED
      BY <3>1, GivesUpHandshake DEF PC
  <2> QED
    BY <1>9, <2>1, <2>2 DEF BeforeJoin
<1>10. CASE BeforeMutexLock(t)
  <2>1. GivesUp(t, "paused") /\ UNCHANGED cond_map /\ pc[t] # "sigwait"
    BY <1>10 DEF BeforeMutexLock, Running, GivesUp, Goto, threadVars, condVars, ActivePC
  <2> QED
    BY <2>1, GivesUpHandshake DEF PC
<1>11. CASE BeforeMutexTrylock(t)
  <2>1. GivesUp(t, "paused") /\ UNCHANGED cond_map /\ pc[t] # "sigwait"
    BY <1>11 DEF BeforeMutexTrylock, Running, GivesUp, Goto, threadVars, condVars, ActivePC
  <2> QED
    BY <2>1, GivesUpHandshake DEF PC
<1>12. CASE MutexUnlock(t)
  BY <1>12, QuietMove DEF MutexUnlock, Running, launchVars, condVars, HandshakePC
<1>13. CASE SimulateMutexDestroy(t)
  BY <1>13, UntouchedHandshake DEF SimulateMutexDestroy, Running, launchVars, condVars, controlVars
<1>14. CASE BeforeMutexInit(t)
  BY <1>14, UntouchedHandshake DEF BeforeMutexInit, Running, launchVars, condVars, controlVars
<1>15. CASE InvalidMutexFault(t)
  BY <1>15, HandshakeStops DEF InvalidMutexFault, Halt
<1>16. CASE SimulateCondWait(t)
  BY <1>16, EnterWaitHandshake DEF SimulateCondWait
<1>17. CASE SimulateCondTimedwait(t)
  BY <1>17, EnterWaitHandshake DEF SimulateCondTimedwait
<1>18. CASE BeforeCondSignal(t, "signal")
  BY <1>18, BeforeCondSignalHandshake
<1>19. CASE BeforeCondSignal(t, "broadcast")
  BY <1>19, BeforeCondSignalHandshake
<1>20. CASE SimulateCondDestroy(t)
  BY <1>20, UntouchedHandshake DEF SimulateCondDestroy, Running, launchVars, condVars, controlVars
<1>21. CASE BeforeCondInit(t)
  BY <1>21, UntouchedHandshake DEF BeforeCondInit, Running, launchVars, condVars, controlVars
<1>22. CASE BeforeSemWait(t)
  <2>1. CASE Halt("misuse")
    BY <2>1, HandshakeStops DEF Halt
  <2>2. CASE Schedule /\ pc' = [pc EXCEPT ![t] = "paused"]
    <3>1. GivesUp(t, "paused") /\ UNCHANGED cond_map /\ pc[t] # "sigwait"
      BY <1>22, <2>2 DEF BeforeSemWait, Running, GivesUp, threadVars, condVars, ActivePC
    <3> QED
      BY <3>1, GivesUpHandshake DEF PC
  <2> QED
    BY <1>22, <2>1, <2>2 DEF BeforeSemWait, Goto
<1>23. CASE SimulateSemPost(t)
  <2>1. CASE Halt("misuse")
    BY <2>1, HandshakeStops DEF Halt
  <2>2. CASE Schedule /\ pc' = [pc EXCEPT ![t] = "paused"]
    <3>1. GivesUp(t, "paused") /\ UNCHANGED cond_map /\ pc[t] # "sigwait"
      BY <1>23, <2>2 DEF SimulateSemPost, Running, GivesUp, threadVars, condVars, ActivePC
    <3> QED
      BY <3>1, GivesUpHandshake DEF PC
  <2> QED
    BY <1>23, <2>1, <2>2 DEF SimulateSemPost, Goto
<1>24. CASE SimulateSemDestroy(t)
  BY <1>24, UntouchedHandshake DEF SimulateSemDestroy, Running, launchVars, condVars, controlVars
<1>25. CASE BeforeSemInit(t)
  BY <1>25, UntouchedHandshake DEF BeforeSemInit, Running, launchVars, condVars, controlVars
<1>26. CASE BeforeBarrierInit(t)
  BY <1>26, UntouchedHandshake DEF BeforeBarrierInit, Running, launchVars, condVars, controlVars
<1>27. CASE BeforeBarrierWait(t)
  <2>1. CASE Halt("assert") \/ Halt("misuse")
    BY <2>1, HandshakeStops DEF Halt
  <2>2. CASE Schedule
    <3>1. GivesUp(t, "paused") /\ UNCHANGED cond_map /\ pc[t] # "sigwait"
      BY <1>27, <2>2 DEF BeforeBarrierWait, Running, GivesUp, Goto, threadVars, condVars, ActivePC
    <3> QED
      BY <3>1, GivesUpHandshake DEF PC
  <2> QED
    BY <1>27, <2>1, <2>2 DEF BeforeBarrierWait, BarrierOpens, BarrierBlocks
<1>28. CASE SimulateBarrierDestroy(t)
  BY <1>28, UntouchedHandshake DEF SimulateBarrierDestroy, Running, launchVars, condVars, controlVars
<1> QED
  BY <1>1, <1>2, <1>3, <1>4, <1>5, <1>6, <1>7, <1>8, <1>9, <1>10,
     <1>11, <1>12, <1>13, <1>14, <1>15, <1>16, <1>17, <1>18, <1>19, <1>20,
     <1>21, <1>22, <1>23, <1>24, <1>25, <1>26, <1>27, <1>28
     DEF AppStep

\* Every step of the library inside a call.
LEMMA LibStepHandshake ==
  ASSUME HandshakeInv, NEW t \in Tid, LibStep(t)
  PROVE  Handshake'
<1> USE DEF LeavingPC
<1>1. CASE pauseThread(t)
  <2>1. \E p \in {"app", "joining", "launched"} : \E c, o : Goto(t, p, c, o)
    BY <1>1 DEF pauseThread, Step
  <2> QED
    BY <1>1, <2>1, QuietMove DEF pauseThread, condVars, HandshakePC
<1>2. CASE AfterCreate(t)
  <2>1. GivesUp(t, "paused") /\ UNCHANGED cond_map /\ pc[t] # "sigwait"
    BY <1>2 DEF AfterCreate, GivesUp, Goto, threadVars, condVars, ActivePC
  <2> QED
    BY <2>1, GivesUpHandshake DEF PC
<1>3. CASE ThreadStart(t)
  BY <1>3, QuietMove DEF ThreadStart, launchVars, condVars, HandshakePC
<1>4. CASE JoinReturns(t)
  BY <1>4, QuietMove DEF JoinReturns, launchVars, condVars, HandshakePC
<1>5. CASE CleanupUnlock(t)
  BY <1>5, QuietMove DEF CleanupUnlock, launchVars, condVars, HandshakePC
<1>6. CASE ThreadDies(t)
  BY <1>6, QuietMove DEF ThreadDies, launchVars, condVars, HandshakePC
<1>7. CASE SimulateMutexLock(t)
  BY <1>7, QuietMove DEF SimulateMutexLock, launchVars, condVars, HandshakePC
<1>8. CASE SimulateMutexTrylock(t)
  BY <1>8, QuietMove DEF SimulateMutexTrylock, launchVars, condVars, HandshakePC
<1>9. CASE AfterMutexUnlock(t)
  <2>1. GivesUp(t, "paused") /\ UNCHANGED cond_map /\ pc[t] # "sigwait"
    BY <1>9 DEF AfterMutexUnlock, GivesUp, Goto, threadVars, condVars, ActivePC
  <2> QED
    BY <2>1, GivesUpHandshake DEF PC
<1>10. CASE waitPauseThread(t)
  BY <1>10, WaitPauseHandshake
<1>11. CASE LeaveCond(t)
  BY <1>11, LeaveCondHandshake
<1>12. CASE BeforeRelock(t)
  BY <1>12, BeforeRelockHandshake
<1>13. CASE signalThreadReady(t)
  BY <1>13, SignalThreadReadyHandshake
<1>14. CASE TimedwaitEnd(t)
  BY <1>14, TimedwaitEndHandshake
<1>15. CASE scheduleThreadWaitingOnCond(t)
  BY <1>15, ScheduleWaitingHandshake
<1>16. CASE waitThreadReady(t)
  BY <1>16, WaitThreadReadyHandshake
<1>17. CASE SignalEnd(t)
  <2>1. GivesUp(t, "paused") /\ UNCHANGED cond_map /\ pc[t] # "sigwait"
    BY <1>17 DEF SignalEnd, GivesUp, Goto, threadVars, condVars, ActivePC
  <2> QED
    BY <2>1, GivesUpHandshake DEF PC
<1>18. CASE SimulateSemWait(t)
  <2>1. CASE Halt("assert") \/ Halt("misuse")
    BY <2>1, HandshakeStops DEF Halt
  <2>2. CASE UNCHANGED launchVars
    BY <1>18, <2>2, QuietMove DEF SimulateSemWait, launchVars, condVars, HandshakePC
  <2> QED
    BY <1>18, <2>1, <2>2 DEF SimulateSemWait
<1> QED
  BY <1>1, <1>2, <1>3, <1>4, <1>5, <1>6, <1>7, <1>8, <1>9, <1>10,
     <1>11, <1>12, <1>13, <1>14, <1>15, <1>16, <1>17, <1>18
     DEF LibStep

\* Nobody waits or signals at first.
LEMMA HandshakeInit == Init => HandshakeInv
<1> SUFFICES ASSUME Init PROVE Handshake
  BY SerialInit DEF HandshakeInv
<1>1. \A t \in Tid : pc[t] \in {"app", "none"}
  BY DEF Init
<1>2. \A t \in Tid : cond_map[t] = NULL /\ wait_sem_map[t] = 0 /\ was_signalled_map[t] = TRUE
  BY DEF Init
<1> QED
  BY <1>1, <1>2 DEF Handshake, CondMapExact, WaitSemExact, LeavesForAReason, ReadyExact,
                    TargetWaits, NoneLeft, LeavingPC

\* The strengthened invariant is inductive.
LEMMA HandshakeNext == HandshakeInv /\ [Next]_vars => HandshakeInv'
<1> SUFFICES ASSUME HandshakeInv, [Next]_vars PROVE Handshake'
  BY SerialNext DEF HandshakeInv
<1>1. ASSUME NEW t \in Tid, AppStep(t) PROVE Handshake'
  BY <1>1, AppStepHandshake
<1>2. ASSUME NEW t \in Tid, LibStep(t) PROVE Handshake'
  BY <1>2, LibStepHandshake
<1>3. ASSUME NEW t \in Tid, CleanupLock(t) PROVE Handshake'
  BY <1>3, QuietMove DEF CleanupLock, launchVars, condVars, HandshakePC, LeavingPC
<1>4. CASE MainReturns
  BY <1>4, HandshakeStops DEF MainReturns, Halt
<1>5. CASE UNCHANGED vars
  BY <1>5, UntouchedHandshake DEF vars, launchVars, condVars, controlVars
<1> QED
  BY <1>1, <1>2, <1>3, <1>4, <1>5 DEF Next, Ended

\* Whenever a signaller posts the wait semaphore of the thread it read from
\* cond_map, that thread still waits there and nobody else has posted it.
THEOREM SignalTargetWaitsAlways == Spec => []SignalTargetWaits
<1>1. HandshakeInv => SignalTargetWaits
  <2> SUFFICES ASSUME HandshakeInv, status = "running", NEW t \in Tid
               PROVE  /\ wait_sem_map[t] <= 1
                      /\ pc[t] = "sigwake" =>
                           LET u == newchoice[t] IN
                           pc[u] = "cwait" /\ cond_map[u] = arg[t] /\ wait_sem_map[u] = 0
    BY DEF SignalTargetWaits
  <2>1. wait_sem_map[t] <= 1
    BY DEF HandshakeInv, Handshake, WaitSemExact
  <2>2. ASSUME pc[t] = "sigwake"
        PROVE  pc[newchoice[t]] = "cwait" /\ cond_map[newchoice[t]] = arg[t]
    BY <2>2 DEF HandshakeInv, Handshake, TargetWaits
  <2>3. ASSUME pc[t] = "sigwake"
        PROVE  wait_sem_map[newchoice[t]] = 0
    <3>1. newchoice[t] \in Tid /\ HasBaton(t)
      BY <2>3 DEF HandshakeInv, SerialInv, TypeOK, ArgOK, HasBaton, ActivePC
    <3> QED
      BY <2>3, <3>1, RunnerFindsSettled DEF ActivePC, LeavingPC
  <2> QED
    BY <2>1, <2>2, <2>3
<1> QED
  BY <1>1, HandshakeInit, HandshakeNext, PTL DEF Spec

\* A broadcast comes back to the program only when no thread is filed under
\* its condition variable.
THEOREM BroadcastWakesAllAlways == Spec => []BroadcastWakesAll
<1>1. HandshakeInv => BroadcastWakesAll
  BY DEF HandshakeInv, Handshake, NoneLeft, BroadcastWakesAll
<1> QED
  BY <1>1, HandshakeInit, HandshakeNext, PTL DEF Spec

-----------------------------------------------------------------------------
(***************************************************************************)
(* enable_map is exact, for any number of threads and objects: the         *)
(* deadlocks that deadlockCheck reports are real, and no assertion about   *)
(* the tracker's own state can fail.                                       *)
(*                                                                         *)
(* The argument: the tracker's maps say of every thread inside a call what *)
(* the call waits for, the real object agrees, and a thread is enabled     *)
(* unless some map says it is blocked.  A step of one thread disturbs this *)
(* only for itself and for the threads filed under its object.             *)
(***************************************************************************)

\* What a finished thread locks on its way out is not the application's: such
\* a lock passes through the tracker unseen (BeforeMutexLock and
\* AfterMutexUnlock return at once for a finished thread).
PrivateCleanup == CleanupMutex \cap (Mutex \cup Sem \cup Tid) = {}

DonePC == {"finishing", "cleanup", "dead"}

\* The thread t has been filed under the mutex it wants.
InLock(t) ==
  /\ call[t] \in {"lock", "condwait", "timedwait"}
  /\ pc[t] \in {"paused", "launched", "ready", "timed"}

\* The real mutex m is free, the tracker has not been told.
BeingReleased(m) == \E u \in Tid : pc[u] = "unlocking" /\ arg[u] = m

\* The calls in which a thread can be at a control point.
CallExact(t) ==
  /\ pc[t] \in {"none", "starting", "app", "creating", "unlocking"} \cup DonePC => call[t] = "none"
  /\ pc[t] = "paused" => call[t] \in {"point", "lock", "trylock", "semwait", "join", "condwait", "timedwait"}
  /\ pc[t] = "launched" => call[t] \in {"lock", "trylock", "semwait", "condwait", "timedwait"}
  /\ pc[t] = "joining" => call[t] = "join"
  /\ pc[t] = "sigend" => call[t] \in {"signal", "broadcast"}
  /\ call[t] = "point" => arg[t] = NULL

\* A thread in a lock is filed as waiting or as ready, as the mutex says.
LockExact(t) ==
  /\ IF InLock(t)
     THEN \/ /\ lock_wait_map[t] = arg[t] /\ lock_ready_map[t] = NULL
             /\ mutex[arg[t]] # FREE \/ BeingReleased(arg[t])
          \/ /\ lock_wait_map[t] = NULL /\ lock_ready_map[t] = arg[t]
             /\ mutex[arg[t]] \notin Tid
     ELSE lock_wait_map[t] = NULL /\ lock_ready_map[t] = NULL
  /\ pc[t] = "unlocking" => mutex[arg[t]] \notin Tid

\* The same for semaphores.
SemExact(t) ==
  IF call[t] = "semwait"
  THEN \/ sem_wait_map[t] = arg[t] /\ sem_ready_map[t] = NULL /\ semval[arg[t]] = 0
       \/ sem_wait_map[t] = NULL /\ sem_ready_map[t] = arg[t] /\ semval[arg[t]] > 0
  ELSE sem_wait_map[t] = NULL /\ sem_ready_map[t] = NULL

\* Only a paused thread waits on a barrier ...
BarrierExact(t) == thread_map[t] # NULL => pc[t] = "paused" /\ call[t] = "point"

\* ... and fewer threads wait than it takes to open it.
BarrierRoom(b) ==
  IF barrier_count[b] = 0 THEN OnBarrier(b) = {}
  ELSE Cardinality(OnBarrier(b)) < barrier_count[b]

\* Threads that exist, have finished, are joined; the joiner of an unfinished
\* thread is in join_map.
JoinExact(t) ==
  /\ finish_map[t] <=> pc[t] \in DonePC
  /\ pc[t] = "none" <=> t > curr_id
  /\ t \in joined => t <= curr_id
  /\ join_map[t] # UNJOINED =>
       t \in joined /\ (~finish_map[t] => call[join_map[t]] = "join" /\ arg[join_map[t]] = t)
  /\ call[t] = "join" =>
       arg[t] \in joined /\ (finish_map[arg[t]] \/ join_map[arg[t]] = t)

\* What the maps of the tracker hold against a thread.
Blocked(t) ==
  \/ lock_wait_map[t] # NULL
  \/ sem_wait_map[t] # NULL
  \/ thread_map[t] # NULL
  \/ call[t] = "join" /\ ~finish_map[arg[t]]
  \/ call[t] = "condwait" /\ pc[t] \in {"cwait", "woken", "relock"}

EnableExact(t) ==
  enable_map[t] <=> pc[t] \notin {"none"} \cup DonePC /\ ~Blocked(t)

Tracked(t) ==
  /\ CallExact(t) /\ LockExact(t) /\ SemExact(t)
  /\ BarrierExact(t) /\ JoinExact(t) /\ EnableExact(t)

AllTracked == (\A t \in Tid : Tracked(t)) /\ (\A b \in Barrier : BarrierRoom(b))

\* Whoever runs, or has been launched, is enabled.
RunsEnabled(t) == pc[t] \in ActivePC \/ sem_map[t] > 0 => enable_map[t]

\* When nobody is enabled nobody is half way through anything.
Stuck == \A t \in Tid : ~enable_map[t] /\ pc[t] \notin ActivePC \cup LeavingPC

TrackInv ==
  /\ HandshakeInv
  /\ status \in {"running", "deadlock"} => AllTracked
  /\ status = "running" => \A t \in Tid : RunsEnabled(t)
  /\ status = "deadlock" => Stuck
  /\ NoInternalAssert

-----------------------------------------------------------------------------
(***************************************************************************)
(* What a step leaves alone.                                               *)
(***************************************************************************)

SameControl(u) == pc'[u] = pc[u] /\ call'[u] = call[u] /\ arg'[u] = arg[u]

\* No map of the tracker holds anything against t.
Clean(t) ==
  /\ lock_wait_map[t] = NULL /\ lock_ready_map[t] = NULL
  /\ sem_wait_map[t] = NULL /\ sem_ready_map[t] = NULL
  /\ thread_map[t] = NULL

\* A thread outside the calls that block is filed nowhere.
LEMMA CleanOutside ==
  ASSUME TypeOK, NEW t \in Tid, Tracked(t), pc[t] \notin {"paused", "launched", "ready", "timed"}
  PROVE  Clean(t) /\ call[t] # "semwait" /\ ~InLock(t)
<1>1. ~InLock(t)
  BY DEF InLock
<1>2. call[t] # "semwait"
  BY DEF TypeOK, ArgOK, Tracked, CallExact, PC, DonePC
<1> QED
  BY <1>1, <1>2 DEF Clean, Tracked, LockExact, SemExact, BarrierExact

\* A thread of which neither the control point nor the mutex changes.
LEMMA KeepLock ==
  ASSUME NEW u \in Tid, LockExact(u), SameControl(u),
         lock_wait_map'[u] = lock_wait_map[u], lock_ready_map'[u] = lock_ready_map[u],
         InLock(u) \/ pc[u] = "unlocking" => mutex'[arg[u]] = mutex[arg[u]],
         lock_wait_map[u] = arg[u] /\ BeingReleased(arg[u]) => BeingReleased(arg[u])'
  PROVE  LockExact(u)'
<1>1. InLock(u)' <=> InLock(u)
  BY DEF InLock, SameControl
<1>2. arg'[u] = arg[u] /\ pc'[u] = pc[u]
  BY DEF SameControl
<1>3. CASE InLock(u)
  BY <1>1, <1>2, <1>3 DEF LockExact
<1>4. CASE ~InLock(u)
  BY <1>1, <1>2, <1>4 DEF LockExact
<1> QED
  BY <1>3, <1>4

\* A thread of which neither the control point nor the semaphore changes.
LEMMA KeepSem ==
  ASSUME NEW u \in Tid, SemExact(u), SameControl(u),
         sem_wait_map'[u] = sem_wait_map[u], sem_ready_map'[u] = sem_ready_map[u],
         call[u] = "semwait" => semval'[arg[u]] = semval[arg[u]]
  PROVE  SemExact(u)'
BY DEF SemExact, SameControl

\* A thread that stays where it is in its own call.
LEMMA KeepJoin ==
  ASSUME NEW u \in Tid, JoinExact(u), SameControl(u),
         UNCHANGED <<finish_map, join_map, joined, curr_id>>,
         \A v \in Tid : call[v] = "join" /\ ~finish_map[arg[v]] => call'[v] = "join" /\ arg'[v] = arg[v],
         join_map[u] \in Tid \cup {UNJOINED}
  PROVE  JoinExact(u)'
<1>1. join_map[u] # UNJOINED /\ ~finish_map[u]
        => call'[join_map[u]] = "join" /\ arg'[join_map[u]] = u
  BY DEF JoinExact
<1> QED
  BY <1>1 DEF JoinExact, SameControl

\* A thread against which nothing new is held.
LEMMA KeepEnable ==
  ASSUME NEW u \in Tid, EnableExact(u), SameControl(u),
         lock_wait_map'[u] = lock_wait_map[u], sem_wait_map'[u] = sem_wait_map[u],
         thread_map'[u] = thread_map[u], enable_map'[u] = enable_map[u],
         call[u] = "join" => finish_map'[arg[u]] = finish_map[arg[u]]
  PROVE  EnableExact(u)'
BY DEF EnableExact, Blocked, SameControl

\* The maps that AllTracked relates to the control points.
objectVars == <<lock_ready_map, lock_wait_map, mutex, sem_ready_map, sem_wait_map, semval,
                thread_map, barrier_count, finish_map, join_map, joined, curr_id>>

\* Nothing changes but where t is and whether it is enabled.
Alone(t) ==
  /\ UNCHANGED objectVars
  /\ \A u \in Tid \ {t} : SameControl(u) /\ enable_map'[u] = enable_map[u]

\* Such a step preserves AllTracked if it does for t.
LEMMA AloneTracked ==
  ASSUME TypeOK, AllTracked, NEW t \in Tid, Alone(t), pc[t] # "unlocking", Tracked(t)',
         call[t] = "join" => finish_map[arg[t]] \/ (call'[t] = "join" /\ arg'[t] = arg[t])
  PROVE  AllTracked'
<1>1. ASSUME NEW u \in Tid \ {t}
      PROVE  Tracked(u)'
  <2>1. Tracked(u) /\ SameControl(u)
    BY DEF AllTracked, Alone, objectVars
  <2>2. CallExact(u)' /\ BarrierExact(u)'
    BY <2>1 DEF Tracked, CallExact, BarrierExact, SameControl, Alone, objectVars
  <2>3. BeingReleased(arg[u]) => BeingReleased(arg[u])'
    <3>1. ASSUME NEW v \in Tid, pc[v] = "unlocking", arg[v] = arg[u]
          PROVE  pc'[v] = "unlocking" /\ arg'[v] = arg'[u]
      BY <2>1, <3>1 DEF Alone, SameControl
    <3> QED
      BY <3>1 DEF BeingReleased
  <2>4. LockExact(u)'
    BY <2>1, <2>3, KeepLock DEF Tracked, Alone, objectVars
  <2>5. SemExact(u)'
    BY <2>1, KeepSem DEF Tracked, Alone, objectVars
  <2>6. JoinExact(u)'
    <3>1. \A v \in Tid : call[v] = "join" /\ ~finish_map[arg[v]] => call'[v] = "join" /\ arg'[v] = arg[v]
      BY DEF Alone, SameControl
    <3>2. join_map[u] \in Tid \cup {UNJOINED}
      BY DEF TypeOK
    <3> QED
      BY <2>1, <3>1, <3>2, KeepJoin DEF Tracked, Alone, objectVars
  <2>7. EnableExact(u)'
    BY <2>1, KeepEnable DEF Tracked, Alone, objectVars
  <2> QED
    BY <2>2, <2>4, <2>5, <2>6, <2>7 DEF Tracked
<1>2. \A b \in Barrier : BarrierRoom(b)'
  BY DEF AllTracked, BarrierRoom, OnBarrier, Alone, objectVars
<1> QED
  BY <1>1, <1>2 DEF AllTracked

\* Control points where a thread needs nothing.
FreshPlace(p, c, o) ==
  \/ p = "paused" /\ c = "point" /\ o = NULL
  \/ p = "paused" /\ c = "trylock"
  \/ p = "app" /\ c = "none"
  \/ p \in {"sigwake", "sigend"} /\ c \in {"signal", "broadcast"}

\* t, of which the maps hold nothing, goes on to such a place.
LEMMA FreshMove ==
  ASSUME TypeOK, AllTracked, NEW t \in Tid, NEW p, NEW c, NEW o,
         Goto(t, p, c, o), FreshPlace(p, c, o), Clean(t),
         pc[t] \notin {"none", "unlocking"} \cup DonePC,
         enable_map' = [enable_map EXCEPT ![t] = TRUE],
         UNCHANGED objectVars,
         call[t] = "join" => finish_map[arg[t]]
  PROVE  AllTracked'
<1>1. pc'[t] = p /\ call'[t] = c /\ arg'[t] = o /\ enable_map'[t] = TRUE
  BY DEF Goto, TypeOK
<1>2. \A u \in Tid \ {t} : SameControl(u) /\ enable_map'[u] = enable_map[u]
  BY DEF Goto, TypeOK, SameControl
<1>3. Alone(t)
  BY <1>2 DEF Alone
<1>4. Tracked(t)
  BY DEF AllTracked
<1>5. CallExact(t)'
  BY <1>1 DEF CallExact, FreshPlace, DonePC
<1>6. ~InLock(t)' /\ pc'[t] # "unlocking"
  BY <1>1 DEF InLock, FreshPlace
<1>7. Clean(t)'
  BY DEF Clean, objectVars
<1>8. LockExact(t)'
  BY <1>6, <1>7 DEF LockExact, Clean
<1>9. SemExact(t)' /\ BarrierExact(t)'
  BY <1>1, <1>7 DEF SemExact, BarrierExact, Clean, FreshPlace
<1>10. pc'[t] \notin {"none"} \cup DonePC /\ call'[t] \notin {"join", "condwait"}
  BY <1>1 DEF FreshPlace, DonePC
<1>11. join_map[t] # UNJOINED /\ ~finish_map[t] => call'[join_map[t]] = "join" /\ arg'[join_map[t]] = t
  BY <1>2, <1>4 DEF Tracked, JoinExact, SameControl, TypeOK
<1>12. JoinExact(t)'
  BY <1>4, <1>10, <1>11 DEF Tracked, JoinExact, objectVars
<1>13. EnableExact(t)'
  BY <1>1, <1>7, <1>10 DEF EnableExact, Blocked, Clean
<1>14. Tracked(t)'
  BY <1>5, <1>8, <1>9, <1>12, <1>13 DEF Tracked
<1> QED
  BY <1>3, <1>14, AloneTracked

\* t goes on within its call; what the maps hold against it stays true.
LEMMA CallMove ==
  ASSUME TypeOK, AllTracked, NEW t \in Tid, NEW p, Step(t, p),
         CallExact(t)', InLock(t)' <=> InLock(t), thread_map[t] = NULL,
         pc[t] \notin {"none", "unlocking"} \cup DonePC,
         p \notin {"none", "unlocking"} \cup DonePC,
         call[t] = "condwait" => (pc[t] \in {"cwait", "woken", "relock"} <=> p \in {"cwait", "woken", "relock"}),
         UNCHANGED enable_map, UNCHANGED objectVars
  PROVE  AllTracked'
<1>1. pc'[t] = p /\ call'[t] = call[t] /\ arg'[t] = arg[t]
  BY DEF Step, Goto, TypeOK
<1>2. \A u \in Tid \ {t} : SameControl(u) /\ enable_map'[u] = enable_map[u]
  BY DEF Step, Goto, TypeOK, SameControl
<1>3. Alone(t)
  BY <1>2 DEF Alone
<1>4. Tracked(t)
  BY DEF AllTracked
<1>5. BeingReleased(arg[t]) => BeingReleased(arg[t])'
  <2>1. ASSUME NEW v \in Tid, pc[v] = "unlocking", arg[v] = arg[t]
        PROVE  pc'[v] = "unlocking" /\ arg'[v] = arg'[t]
    BY <1>1, <1>2, <2>1 DEF SameControl
  <2> QED
    BY <2>1 DEF BeingReleased
<1>6. LockExact(t)'
  <2>1. CASE InLock(t)
    BY <1>1, <1>4, <1>5, <2>1 DEF LockExact, Tracked, objectVars
  <2>2. CASE ~InLock(t)
    BY <1>1, <1>4, <2>2 DEF LockExact, Tracked, objectVars
  <2> QED
    BY <2>1, <2>2
<1>7. SemExact(t)' /\ BarrierExact(t)'
  BY <1>1, <1>4 DEF SemExact, BarrierExact, Tracked, objectVars
<1>8. join_map[t] # UNJOINED /\ ~finish_map[t] => call'[join_map[t]] = "join" /\ arg'[join_map[t]] = t
  BY <1>1, <1>2, <1>4 DEF Tracked, JoinExact, SameControl, TypeOK
<1>9. JoinExact(t)'
  BY <1>1, <1>4, <1>8 DEF Tracked, JoinExact, objectVars
<1>10. EnableExact(t)'
  BY <1>1, <1>4 DEF EnableExact, Blocked, Tracked, objectVars
<1>11. Tracked(t)'
  BY <1>6, <1>7, <1>9, <1>10 DEF Tracked
<1> QED
  BY <1>1, <1>3, <1>11, AloneTracked

\* Nothing that AllTracked speaks of changes.
LEMMA UntouchedTracked ==
  ASSUME AllTracked, UNCHANGED <<objectVars, pc, call, arg, enable_map>>
  PROVE  AllTracked'
<1>1. \A m : BeingReleased(m)' <=> BeingReleased(m)
  BY DEF BeingReleased
<1>2. ASSUME NEW u \in Tid
      PROVE  Tracked(u)'
  <2>1. Tracked(u)
    BY DEF AllTracked
  <2>2. CallExact(u)' /\ BarrierExact(u)' /\ SemExact(u)'
    BY <2>1 DEF Tracked, CallExact, BarrierExact, SemExact, objectVars
  <2>3. LockExact(u)'
    BY <2>1, KeepLock DEF Tracked, SameControl, BeingReleased, objectVars
  <2>4. JoinExact(u)' /\ EnableExact(u)'
    BY <2>1 DEF Tracked, JoinExact, EnableExact, Blocked, objectVars
  <2> QED
    BY <2>2, <2>3, <2>4 DEF Tracked
<1>3. \A b \in Barrier : BarrierRoom(b)'
  BY DEF AllTracked, BarrierRoom, OnBarrier, objectVars
<1> QED
  BY <1>2, <1>3 DEF AllTracked

-----------------------------------------------------------------------------
(***************************************************************************)
(* Who runs is enabled.                                                    *)
(***************************************************************************)

\* What TrackInv says of the right to run and of a process that has ended.
Runs ==
  /\ status = "running" => \A t \in Tid : RunsEnabled(t)
  /\ status = "deadlock" => Stuck
  /\ NoInternalAssert

\* schedule launches an enabled thread, or finds nobody in the middle of
\* anything.
LEMMA ScheduleRuns ==
  ASSUME TypeOK, status = "running", NEW ws, ScheduleWith(ws), enable_map' \in [Tid -> BOOLEAN],
         \A u \in Tid : pc'[u] \notin ActivePC \cup LeavingPC /\ sem_map[u] = 0
  PROVE  Runs'
<1>1. CASE EnabledThreads' = {} /\ Halt("deadlock")
  <2>1. \A u \in Tid : ~enable_map'[u]
    BY <1>1 DEF EnabledThreads
  <2> QED
    BY <1>1, <2>1 DEF Runs, Halt, Stuck, NoInternalAssert
<1>2. ASSUME NEW n \in Tid, enable_map'[n], launchThread(n, cond_map', ws)
      PROVE  Runs'
  <2>1. \A u \in Tid : sem_map'[u] > 0 => u = n
    BY <1>2 DEF launchThread, TypeOK
  <2>2. status' = "running"
    BY <1>2 DEF launchThread
  <2> QED
    BY <1>2, <2>1, <2>2 DEF Runs, RunsEnabled, NoInternalAssert
<1> QED
  BY <1>1, <1>2 DEF ScheduleWith, pickNextSchedulingChoice, EnabledThreads

\* A scheduling point.
LEMMA GivesUpRuns ==
  ASSUME HandshakeInv, NEW t \in Tid, NEW p \in PC, GivesUp(t, p),
         pc[t] # "sigwait", p \notin LeavingPC, enable_map' \in [Tid -> BOOLEAN]
  PROVE  Runs'
<1>1. HasBaton(t) /\ status = "running" /\ pc[t] \notin {"sigwait"} \cup LeavingPC
  BY DEF GivesUp, HasBaton, ActivePC, LeavingPC
<1>2. /\ \A u \in Tid : pc[u] \notin LeavingPC
      /\ \A u \in Tid \ {t} : pc[u] \notin ActivePC
  BY <1>1, RunnerFindsSettled DEF GivesUp
<1>3. \A u \in Tid : sem_map[u] = 0
  BY <1>1, OneForm DEF GivesUp, HandshakeInv
<1>4. \A u \in Tid : pc'[u] \notin ActivePC \cup LeavingPC
  BY <1>2 DEF GivesUp, HandshakeInv, SerialInv, TypeOK
<1> QED
  BY <1>1, <1>3, <1>4, ScheduleRuns DEF GivesUp, Schedule, HandshakeInv, SerialInv

\* The one that runs goes on running, or somebody else moves meanwhile.
LEMMA KeepsRunning ==
  ASSUME status = "running", Runs, status' = "running",
         \A u \in Tid : \/ pc'[u] \in ActivePC => pc[u] \in ActivePC
                        \/ enable_map'[u],
         \A u \in Tid : sem_map'[u] > 0 => sem_map[u] > 0,
         \A u \in Tid : pc[u] \in ActivePC \/ sem_map[u] > 0 => (enable_map[u] => enable_map'[u])
  PROVE  Runs'
BY DEF Runs, RunsEnabled, NoInternalAssert

-----------------------------------------------------------------------------
(***************************************************************************)
(* Steps that file no thread under an object.                              *)
(***************************************************************************)

\* What remains to be shown of a step.
Kept == (status \in {"running", "deadlock"} => AllTracked) /\ Runs

\* The process ends: an error of the program, or its end.
LEMMA Ends ==
  ASSUME status' \in {"misuse", "error", "exited"}
  PROVE  Kept'
BY DEF Kept, Runs, NoInternalAssert

\* The invariant, taken apart, while the process runs.
LEMMA RunningFacts ==
  ASSUME TrackInv, status = "running"
  PROVE  /\ TypeOK /\ HandshakeInv /\ AllTracked /\ Runs
         /\ \A t \in Tid : Tracked(t) /\ RunsEnabled(t)
BY DEF TrackInv, HandshakeInv, SerialInv, AllTracked, Runs

\* Scheduling points that wait for nothing.
LEMMA PointStep ==
  ASSUME TrackInv, status = "running", NEW t \in Tid, pc[t] \in {"app", "creating", "sigend"},
         NEW c, NEW o, Goto(t, "paused", c, o), FreshPlace("paused", c, o),
         enable_map' = [enable_map EXCEPT ![t] = TRUE], UNCHANGED objectVars, Schedule
  PROVE  Kept'
<1>1. TypeOK /\ HandshakeInv /\ AllTracked /\ Tracked(t)
  BY RunningFacts
<1>2. Clean(t)
  BY <1>1, CleanOutside
<1>3. pc[t] \notin {"none", "unlocking"} \cup DonePC /\ call[t] # "join"
  BY <1>1 DEF DonePC, Tracked, CallExact
<1>4. AllTracked'
  BY <1>1, <1>2, <1>3, FreshMove
<1>5. GivesUp(t, "paused")
  BY DEF GivesUp, Goto, ActivePC, objectVars
<1>6. enable_map' \in [Tid -> BOOLEAN]
  BY <1>1 DEF TypeOK
<1>7. Runs'
  BY <1>1, <1>5, <1>6, GivesUpRuns DEF PC, LeavingPC
<1> QED
  BY <1>4, <1>7 DEF Kept

\* A thread in application code is enabled.
LEMMA AppEnabled ==
  ASSUME TrackInv, status = "running", NEW t \in Tid, pc[t] \in ActivePC
  PROVE  enable_map[t] = TRUE /\ enable_map = [enable_map EXCEPT ![t] = TRUE]
BY RunningFacts DEF RunsEnabled, TypeOK

\* Memory accesses, sleeps and the like.
LEMMA SchedPointKept ==
  ASSUME TrackInv, NEW t \in Tid, SchedPoint(t)
  PROVE  Kept'
<1>1. status = "running" /\ pc[t] = "app" /\ Goto(t, "paused", "point", NULL) /\ Schedule
  BY DEF SchedPoint, Running
<1>2. enable_map' = [enable_map EXCEPT ![t] = TRUE]
  BY <1>1, AppEnabled DEF SchedPoint, ActivePC
<1>3. UNCHANGED objectVars
  BY DEF SchedPoint, objectVars, threadVars, lockVars, semVars, barrierVars
<1> QED
  BY <1>1, <1>2, <1>3, PointStep DEF FreshPlace

\* A thread moves on within a call that it does not leave, and nobody runs
\* or is launched because of it.
LEMMA CallStep ==
  ASSUME TrackInv, status = "running", status' = "running", NEW t \in Tid, NEW p, Step(t, p),
         CallExact(t)', InLock(t)' <=> InLock(t), thread_map[t] = NULL,
         pc[t] \notin {"none", "unlocking"} \cup DonePC,
         p \notin {"none", "unlocking"} \cup DonePC,
         call[t] = "condwait" => (pc[t] \in {"cwait", "woken", "relock"} <=> p \in {"cwait", "woken", "relock"}),
         UNCHANGED enable_map, UNCHANGED objectVars,
         \A u \in Tid : sem_map'[u] > 0 => sem_map[u] > 0,
         p \in ActivePC => pc[t] \in ActivePC \/ sem_map[t] > 0
  PROVE  Kept'
<1>1. TypeOK /\ AllTracked /\ Runs /\ RunsEnabled(t)
  BY RunningFacts
<1>2. AllTracked'
  BY <1>1, CallMove
<1>3. \A u \in Tid : pc'[u] = IF u = t THEN p ELSE pc[u]
  BY <1>1 DEF Step, Goto, TypeOK
<1>4. \A u \in Tid : (pc'[u] \in ActivePC => pc[u] \in ActivePC) \/ enable_map'[u]
  BY <1>1, <1>3 DEF RunsEnabled
<1>5. Runs'
  BY <1>1, <1>4, KeepsRunning
<1> QED
  BY <1>2, <1>5 DEF Kept

\* A thread that runs, or is about to, goes on to where it needs nothing.
LEMMA FreshStep ==
  ASSUME TrackInv, status = "running", status' = "running", NEW t \in Tid, NEW p, NEW c, NEW o,
         Goto(t, p, c, o), FreshPlace(p, c, o), Clean(t), enable_map[t] = TRUE,
         pc[t] \notin {"none", "unlocking"} \cup DonePC,
         UNCHANGED enable_map, UNCHANGED objectVars,
         call[t] = "join" => finish_map[arg[t]],
         \A u \in Tid : sem_map'[u] > 0 => sem_map[u] > 0
  PROVE  Kept'
<1>1. TypeOK /\ AllTracked /\ Runs
  BY RunningFacts
<1>2. enable_map' = [enable_map EXCEPT ![t] = TRUE]
  BY <1>1 DEF TypeOK
<1>3. AllTracked'
  BY <1>1, <1>2, FreshMove
<1>4. \A u \in Tid : (pc'[u] \in ActivePC => pc[u] \in ActivePC) \/ enable_map'[u]
  BY <1>1 DEF Goto, TypeOK
<1>5. Runs'
  BY <1>1, <1>4, KeepsRunning
<1> QED
  BY <1>3, <1>5 DEF Kept

\* Only objects nobody is filed under change, and nobody moves.
LEMMA IdleStep ==
  ASSUME TrackInv, status = "running",
         UNCHANGED <<sem_map, status, pc, call, arg, enable_map>>, AllTracked'
  PROVE  Kept'
<1>1. Runs
  BY RunningFacts
<1> QED
  BY <1>1 DEF Kept, Runs, RunsEnabled, NoInternalAssert

\* A launched thread was enabled, so nothing is held against it.
LEMMA PauseThreadKept ==
  ASSUME TrackInv, NEW t \in Tid, pauseThread(t)
  PROVE  Kept'
<1>1. /\ status = "running" /\ status' = "running" /\ pc[t] = "paused" /\ sem_map[t] > 0
      /\ UNCHANGED enable_map /\ UNCHANGED objectVars
  BY DEF pauseThread, objectVars, threadVars, lockVars, semVars, barrierVars
<1>2. TypeOK /\ Tracked(t) /\ RunsEnabled(t)
  BY <1>1, RunningFacts
<1>3. enable_map[t] = TRUE /\ ~Blocked(t)
  BY <1>1, <1>2 DEF RunsEnabled, Tracked, EnableExact, TypeOK
<1>4. thread_map[t] = NULL
  BY <1>3 DEF Blocked
<1>5. \A u \in Tid : sem_map'[u] > 0 => sem_map[u] > 0
  BY <1>1, <1>2 DEF pauseThread, TypeOK
<1>6. pc[t] \notin {"none", "unlocking"} \cup DonePC
  BY <1>1 DEF DonePC
<1>7. CASE call[t] = "point"
  <2>1. Goto(t, "app", "none", NULL)
    BY <1>7 DEF pauseThread
  <2>2. Clean(t)
    BY <1>2, <1>4, <1>7 DEF Clean, Tracked, LockExact, SemExact, InLock
  <2>3. FreshPlace("app", "none", NULL)
    BY DEF FreshPlace
  <2> QED
    BY <1>1, <1>3, <1>5, <1>6, <1>7, <2>1, <2>2, <2>3, FreshStep
<1>8. CASE call[t] = "join"
  <2>1. Step(t, "joining")
    BY <1>8 DEF pauseThread
  <2>2. pc'[t] = "joining" /\ call'[t] = "join"
    BY <1>2, <1>8, <2>1 DEF Step, Goto, TypeOK
  <2>3. CallExact(t)' /\ ~InLock(t) /\ ~InLock(t)'
    BY <1>8, <2>2 DEF CallExact, InLock, DonePC
  <2>4. "joining" \notin {"none", "unlocking"} \cup DonePC
    BY DEF DonePC
  <2> QED
    BY <1>1, <1>4, <1>5, <1>6, <1>8, <2>1, <2>3, <2>4, CallStep
<1>9. CASE call[t] \notin {"point", "join"}
  <2>1. Step(t, "launched")
    BY <1>9 DEF pauseThread
  <2>2. pc'[t] = "launched" /\ call'[t] = call[t]
    BY <1>2, <2>1 DEF Step, Goto, TypeOK
  <2>3. CallExact(t)'
    BY <1>1, <1>2, <1>9, <2>2 DEF Tracked, CallExact, DonePC
  <2>4. InLock(t)' <=> InLock(t)
    BY <1>1, <2>2 DEF InLock
  <2>5. "launched" \notin {"none", "unlocking"} \cup DonePC
    BY DEF DonePC
  <2> QED
    BY <1>1, <1>4, <1>5, <1>6, <2>1, <2>3, <2>4, <2>5, CallStep
<1> QED
  BY <1>7, <1>8, <1>9

\* The new thread reaches the scheduler.
LEMMA ThreadStartKept ==
  ASSUME TrackInv, NEW t \in Tid, ThreadStart(t)
  PROVE  Kept'
<1>1. /\ status = "running" /\ status' = "running" /\ pc[t] = "starting"
      /\ Goto(t, "paused", "point", NULL)
      /\ UNCHANGED enable_map /\ UNCHANGED objectVars /\ UNCHANGED sem_map
  BY DEF ThreadStart, objectVars, threadVars, lockVars, semVars, barrierVars, launchVars
<1>2. TypeOK /\ Tracked(t)
  BY <1>1, RunningFacts
<1>3. Clean(t) /\ call[t] = "none"
  BY <1>1, <1>2, CleanOutside DEF Tracked, CallExact
<1>4. enable_map[t] = TRUE
  BY <1>1, <1>2, <1>3 DEF Tracked, EnableExact, Blocked, Clean, TypeOK, DonePC
<1>5. pc[t] \notin {"none", "unlocking"} \cup DonePC
  BY <1>1 DEF DonePC
<1> QED
  BY <1>1, <1>3, <1>4, <1>5, FreshStep DEF FreshPlace

\* A join returns.
LEMMA JoinReturnsKept ==
  ASSUME TrackInv, NEW t \in Tid, JoinReturns(t)
  PROVE  Kept'
<1>1. /\ status = "running" /\ status' = "running" /\ pc[t] = "joining" /\ pc[arg[t]] = "dead"
      /\ Goto(t, "app", "none", NULL)
      /\ UNCHANGED enable_map /\ UNCHANGED objectVars /\ UNCHANGED sem_map
  BY DEF JoinReturns, objectVars, threadVars, lockVars, semVars, barrierVars, launchVars
<1>2. TypeOK /\ Tracked(t)
  BY <1>1, RunningFacts
<1>3. Clean(t) /\ enable_map[t] = TRUE
  BY <1>1, <1>2, CleanOutside, AppEnabled DEF ActivePC
<1>4. call[t] = "join" /\ arg[t] \in Tid
  BY <1>1, <1>2 DEF Tracked, CallExact, TypeOK, ArgOK
<1>5. finish_map[arg[t]]
  BY <1>1, <1>4, RunningFacts DEF Tracked, JoinExact, DonePC
<1>6. pc[t] \notin {"none", "unlocking"} \cup DonePC
  BY <1>1 DEF DonePC
<1> QED
  BY <1>1, <1>3, <1>5, <1>6, FreshStep DEF FreshPlace

\* A signal or broadcast begins.
LEMMA BeforeCondSignalKept ==
  ASSUME TrackInv, NEW t \in Tid, NEW kind \in {"signal", "broadcast"}, BeforeCondSignal(t, kind)
  PROVE  Kept'
<1>1. CASE Halt("misuse")
  BY <1>1, Ends DEF Halt
<1>2. ASSUME NEW c \in Cond, NextTarget(t, c, kind), UNCHANGED launchVars
      PROVE  Kept'
  <2>1. /\ status = "running" /\ status' = "running" /\ pc[t] = "app"
        /\ UNCHANGED enable_map /\ UNCHANGED objectVars /\ UNCHANGED sem_map
    BY <1>2 DEF BeforeCondSignal, Running, objectVars, threadVars, lockVars, semVars, barrierVars, launchVars
  <2>2. PICK p \in {"sigend", "sigwake"} : Goto(t, p, kind, c)
    BY <1>2 DEF NextTarget
  <2>3. TypeOK /\ Tracked(t)
    BY <2>1, RunningFacts
  <2>4. Clean(t) /\ enable_map[t] = TRUE
    BY <2>1, <2>3, CleanOutside, AppEnabled DEF ActivePC
  <2>5. pc[t] \notin {"none", "unlocking"} \cup DonePC /\ call[t] # "join"
    BY <2>1, <2>3 DEF DonePC, Tracked, CallExact
  <2>6. FreshPlace(p, kind, c)
    BY DEF FreshPlace
  <2> QED
    BY <2>1, <2>2, <2>4, <2>5, <2>6, FreshStep
<1> QED
  BY <1>1, <1>2 DEF BeforeCondSignal

\* The signaller posts its target.
LEMMA ScheduleWaitingKept ==
  ASSUME TrackInv, NEW t \in Tid, scheduleThreadWaitingOnCond(t)
  PROVE  Kept'
<1>1. /\ status = "running" /\ status' = "running" /\ pc[t] = "sigwake" /\ Step(t, "sigwait")
      /\ UNCHANGED enable_map /\ UNCHANGED objectVars /\ UNCHANGED sem_map
  BY DEF scheduleThreadWaitingOnCond, objectVars, threadVars, lockVars, semVars, barrierVars
<1>2. TypeOK /\ Tracked(t)
  BY <1>1, RunningFacts
<1>3. thread_map[t] = NULL /\ call[t] \in {"signal", "broadcast"}
  BY <1>1, <1>2 DEF Tracked, BarrierExact, TypeOK, ArgOK
<1>4. pc'[t] = "sigwait" /\ call'[t] = call[t]
  BY <1>1, <1>2 DEF Step, Goto, TypeOK
<1>5. CallExact(t)' /\ ~InLock(t) /\ ~InLock(t)'
  BY <1>3, <1>4 DEF CallExact, InLock, DonePC
<1>6. pc[t] \notin {"none", "unlocking"} \cup DonePC /\ "sigwait" \notin {"none", "unlocking"} \cup DonePC
  BY <1>1 DEF DonePC
<1>7. pc[t] \in ActivePC
  BY <1>1 DEF ActivePC
<1> QED
  BY <1>1, <1>3, <1>5, <1>6, <1>7, CallStep

\* The signaller goes on to its next target or to its end.
LEMMA WaitThreadReadyKept ==
  ASSUME TrackInv, NEW t \in Tid, waitThreadReady(t)
  PROVE  Kept'
<1>1. /\ status = "running" /\ status' = "running" /\ pc[t] = "sigwait"
      /\ UNCHANGED enable_map /\ UNCHANGED objectVars /\ UNCHANGED sem_map
  BY DEF waitThreadReady, objectVars, threadVars, lockVars, semVars, barrierVars, launchVars
<1>2. TypeOK /\ Tracked(t)
  BY <1>1, RunningFacts
<1>3. Clean(t) /\ enable_map[t] = TRUE
  BY <1>1, <1>2, CleanOutside, AppEnabled DEF ActivePC
<1>4. call[t] \in {"signal", "broadcast"}
  BY <1>1, <1>2 DEF TypeOK, ArgOK
<1>5. PICK p \in {"sigend", "sigwake"} : Goto(t, p, call[t], arg[t])
  BY <1>4 DEF waitThreadReady, NextTarget, Step
<1>6. FreshPlace(p, call[t], arg[t])
  BY <1>4 DEF FreshPlace
<1>7. pc[t] \notin {"none", "unlocking"} \cup DonePC
  BY <1>1 DEF DonePC
<1> QED
  BY <1>1, <1>3, <1>4, <1>5, <1>6, <1>7, FreshStep

\* The steps of a thread on its way out of a wait, but for the probe.
LEMMA LeavingKept ==
  ASSUME TrackInv, NEW t \in Tid, waitPauseThread(t) \/ LeaveCond(t) \/ signalThreadReady(t)
  PROVE  Kept'
<1>1. /\ status = "running" /\ status' = "running"
      /\ UNCHANGED enable_map /\ UNCHANGED objectVars /\ UNCHANGED sem_map
  BY DEF waitPauseThread, LeaveCond, signalThreadReady, objectVars, threadVars, lockVars,
         semVars, barrierVars, launchVars
<1>2. PICK p \in {"woken", "relock", "timed", "paused"} :
        /\ Step(t, p)
        /\ p = "woken" => pc[t] = "cwait"
        /\ p = "relock" => pc[t] = "woken"
        /\ p \in {"timed", "paused"} => pc[t] = "ready"
  BY DEF waitPauseThread, LeaveCond, signalThreadReady
<1>3. TypeOK /\ Tracked(t)
  BY <1>1, RunningFacts
<1>4. call[t] \in {"condwait", "timedwait"} /\ pc[t] \in {"cwait", "woken", "ready"}
  BY <1>2, <1>3 DEF TypeOK, ArgOK
<1>5. thread_map[t] = NULL
  BY <1>3, <1>4 DEF Tracked, BarrierExact
<1>6. pc'[t] = p /\ call'[t] = call[t] /\ arg'[t] = arg[t]
  BY <1>2, <1>3 DEF Step, Goto, TypeOK
<1>7. CallExact(t)'
  BY <1>4, <1>6 DEF CallExact, DonePC
<1>8. InLock(t)' <=> InLock(t)
  BY <1>2, <1>4, <1>6 DEF InLock
<1>9. /\ pc[t] \notin {"none", "unlocking"} \cup DonePC
      /\ p \notin {"none", "unlocking"} \cup DonePC
      /\ p \notin ActivePC
  BY <1>4 DEF DonePC, ActivePC
<1> QED
  BY <1>1, <1>2, <1>5, <1>7, <1>8, <1>9, CallStep

\* The end of a timed wait.
LEMMA TimedwaitEndKept ==
  ASSUME TrackInv, NEW t \in Tid, TimedwaitEnd(t)
  PROVE  Kept'
<1>1. /\ status = "running" /\ pc[t] = "timed" /\ Step(t, "paused")
      /\ UNCHANGED enable_map /\ UNCHANGED objectVars
  BY DEF TimedwaitEnd, objectVars, threadVars, lockVars, semVars, barrierVars
<1>2. TypeOK /\ Tracked(t) /\ HandshakeInv /\ AllTracked
  BY <1>1, RunningFacts
<1>3. thread_map[t] = NULL /\ call[t] \in {"condwait", "timedwait"}
  BY <1>1, <1>2 DEF Tracked, BarrierExact, TypeOK, ArgOK
<1>4. pc'[t] = "paused" /\ call'[t] = call[t] /\ arg'[t] = arg[t]
  BY <1>1, <1>2 DEF Step, Goto, TypeOK
<1>5. CallExact(t)' /\ (InLock(t)' <=> InLock(t))
  BY <1>1, <1>3, <1>4 DEF CallExact, InLock, DonePC
<1>6. /\ pc[t] \notin {"none", "unlocking"} \cup DonePC
      /\ "paused" \notin {"none", "unlocking"} \cup DonePC
      /\ "paused" \notin ActivePC
  BY <1>1 DEF DonePC, ActivePC
<1>7. CASE was_signalled_map[t]
  <2>1. status' = "running" /\ UNCHANGED sem_map
    BY <1>1, <1>7 DEF TimedwaitEnd, launchVars
  <2> QED
    BY <1>1, <1>3, <1>5, <1>6, <2>1, CallStep
<1>8. CASE ~was_signalled_map[t]
  <2>1. AllTracked'
    BY <1>1, <1>2, <1>3, <1>5, <1>6, CallMove
  <2>2. HasBaton(t)
    BY <1>8 DEF HasBaton
  <2>3. /\ \A u \in Tid : pc[u] \notin LeavingPC
        /\ \A u \in Tid \ {t} : pc[u] \notin ActivePC
    BY <1>1, <1>2, <2>2, RunnerFindsSettled DEF LeavingPC
  <2>4. \A u \in Tid : sem_map[u] = 0
    BY <1>1, <1>2, <1>8, <2>2, OneForm DEF HandshakeInv
  <2>5. \A u \in Tid : pc'[u] \notin ActivePC \cup LeavingPC
    BY <1>1, <1>2, <2>3 DEF Step, Goto, TypeOK, ActivePC, LeavingPC
  <2>6. ScheduleWith([was_signalled_map EXCEPT ![t] = TRUE]) /\ enable_map' \in [Tid -> BOOLEAN]
    BY <1>1, <1>2, <1>8 DEF TimedwaitEnd, TypeOK
  <2>7. Runs'
    BY <1>1, <1>2, <2>4, <2>5, <2>6, ScheduleRuns
  <2> QED
    BY <2>1, <2>7 DEF Kept
<1> QED
  BY <1>7, <1>8

-----------------------------------------------------------------------------
(***************************************************************************)
(* Mutexes: the threads filed under the mutex move from one map to the     *)
(* other.                                                                  *)
(***************************************************************************)

\* t moves; of the rest only mutexes, the maps of locks and enable_map change.
OutsideLocks(t) ==
  /\ UNCHANGED <<sem_ready_map, sem_wait_map, semval, thread_map, barrier_count,
                 finish_map, join_map, joined, curr_id>>
  /\ \A u \in Tid \ {t} : SameControl(u)
  /\ call[t] = "join" => finish_map[arg[t]]

\* What is not about locks and enable_map stays true of the other threads.
LEMMA OutsideLocksKept ==
  ASSUME TypeOK, AllTracked, NEW t \in Tid, OutsideLocks(t)
  PROVE  /\ \A u \in Tid \ {t} : CallExact(u)' /\ SemExact(u)' /\ BarrierExact(u)' /\ JoinExact(u)'
         /\ \A b \in Barrier : BarrierRoom(b)'
<1>1. ASSUME NEW u \in Tid \ {t}
      PROVE  CallExact(u)' /\ SemExact(u)' /\ BarrierExact(u)' /\ JoinExact(u)'
  <2>1. Tracked(u) /\ SameControl(u)
    BY DEF AllTracked, OutsideLocks
  <2>2. CallExact(u)' /\ BarrierExact(u)'
    BY <2>1 DEF Tracked, CallExact, BarrierExact, SameControl, OutsideLocks
  <2>3. SemExact(u)'
    BY <2>1, KeepSem DEF Tracked, OutsideLocks
  <2>4. \A v \in Tid : call[v] = "join" /\ ~finish_map[arg[v]] => call'[v] = "join" /\ arg'[v] = arg[v]
    BY DEF OutsideLocks, SameControl
  <2>5. join_map[u] \in Tid \cup {UNJOINED}
    BY DEF TypeOK
  <2>6. JoinExact(u)'
    BY <2>1, <2>4, <2>5, KeepJoin DEF Tracked, OutsideLocks
  <2> QED
    BY <2>2, <2>3, <2>6
<1>2. \A b \in Barrier : BarrierRoom(b)'
  BY DEF AllTracked, BarrierRoom, OnBarrier, OutsideLocks
<1> QED
  BY <1>1, <1>2

\* It stays true of t when t is, and stays, alive and outside joins,
\* semaphores and barriers.
LEMMA OutsideLocksSelf ==
  ASSUME TypeOK, AllTracked, NEW t \in Tid, OutsideLocks(t),
         pc[t] \notin {"none"} \cup DonePC, pc'[t] \notin {"none"} \cup DonePC,
         call'[t] \notin {"semwait", "join"},
         sem_wait_map[t] = NULL, sem_ready_map[t] = NULL, thread_map[t] = NULL
  PROVE  SemExact(t)' /\ BarrierExact(t)' /\ JoinExact(t)'
<1>1. Tracked(t)
  BY DEF AllTracked
<1>2. SemExact(t)' /\ BarrierExact(t)'
  BY DEF SemExact, BarrierExact, OutsideLocks
<1>3. join_map[t] # UNJOINED /\ ~finish_map[t] => call'[join_map[t]] = "join" /\ arg'[join_map[t]] = t
  BY <1>1 DEF Tracked, JoinExact, SameControl, OutsideLocks, TypeOK
<1>4. JoinExact(t)'
  BY <1>1, <1>3 DEF Tracked, JoinExact, OutsideLocks
<1> QED
  BY <1>2, <1>4

\* determineLockStatus files t under m as the real mutex answers.
LEMMA ProbeTracked ==
  ASSUME TypeOK, AllTracked, NEW t \in Tid, NEW m \in Mutex, NEW p, NEW c,
         determineLockStatus(t, m), Goto(t, p, c, m), UNCHANGED mutex, OutsideLocks(t), Clean(t),
         \/ p = "paused" /\ c = "lock"
         \/ p = "ready" /\ c \in {"condwait", "timedwait"},
         pc[t] \notin {"none", "unlocking"} \cup DonePC
  PROVE  AllTracked'
<1>1. pc'[t] = p /\ call'[t] = c /\ arg'[t] = m
  BY DEF Goto, TypeOK
<1>2. m # NULL /\ m \in AllMutex
  BY ConstantsAssumption DEF AllMutex
<1>3. /\ \A u \in Tid \ {t} : CallExact(u)' /\ SemExact(u)' /\ BarrierExact(u)' /\ JoinExact(u)'
      /\ \A b \in Barrier : BarrierRoom(b)'
  BY OutsideLocksKept
<1>4. \A u \in Tid \ {t} : /\ lock_wait_map'[u] = lock_wait_map[u]
                           /\ lock_ready_map'[u] = lock_ready_map[u]
                           /\ enable_map'[u] = enable_map[u]
  BY DEF determineLockStatus, TypeOK
<1>5. \A u \in Tid \ {t} : LockExact(u)' /\ EnableExact(u)'
  <2> SUFFICES ASSUME NEW u \in Tid \ {t} PROVE LockExact(u)' /\ EnableExact(u)'
    OBVIOUS
  <2>1. Tracked(u) /\ SameControl(u)
    BY DEF AllTracked, OutsideLocks
  <2>2. BeingReleased(arg[u]) => BeingReleased(arg[u])'
    BY <2>1 DEF BeingReleased, OutsideLocks, SameControl
  <2>3. LockExact(u)'
    BY <1>4, <2>1, <2>2, KeepLock DEF Tracked
  <2>4. EnableExact(u)'
    BY <1>4, <2>1, KeepEnable DEF Tracked, OutsideLocks
  <2> QED
    BY <2>3, <2>4
<1>6. CallExact(t)' /\ InLock(t)' /\ pc'[t] \notin {"none", "unlocking"} \cup DonePC
  BY <1>1 DEF CallExact, InLock, DonePC
<1>7. SemExact(t)' /\ BarrierExact(t)' /\ JoinExact(t)'
  BY <1>1, <1>6, OutsideLocksSelf DEF Clean
<1>8. CASE mutex[m] \in Tid
  <2>1. lock_wait_map'[t] = m /\ lock_ready_map'[t] = NULL /\ enable_map'[t] = FALSE
    BY <1>8 DEF determineLockStatus, TypeOK, Clean
  <2>2. mutex'[m] # FREE
    BY <1>8 DEF FREE, Tid
  <2>3. LockExact(t)'
    BY <1>1, <1>6, <2>1, <2>2 DEF LockExact
  <2>4. EnableExact(t)'
    BY <1>2, <2>1 DEF EnableExact, Blocked
  <2> QED
    BY <1>3, <1>5, <1>6, <1>7, <2>3, <2>4 DEF AllTracked, Tracked
<1>9. CASE mutex[m] \notin Tid
  <2>1. lock_wait_map'[t] = NULL /\ lock_ready_map'[t] = m /\ enable_map'[t] = TRUE
    BY <1>9 DEF determineLockStatus, TypeOK, Clean
  <2>2. LockExact(t)'
    BY <1>1, <1>6, <1>9, <2>1 DEF LockExact
  <2>3. EnableExact(t)'
    BY <1>1, <1>6, <2>1 DEF EnableExact, Blocked, Clean, OutsideLocks
  <2> QED
    BY <1>3, <1>5, <1>6, <1>7, <2>2, <2>3 DEF AllTracked, Tracked
<1> QED
  BY <1>8, <1>9

\* The mutex m is free and everybody who waits for it is told.
LEMMA ReleaseTracked ==
  ASSUME TypeOK, AllTracked, NEW t \in Tid, NEW m \in Mutex, NEW en \in [Tid -> BOOLEAN],
         threadHasReleasedLock(m, en), mutex'[m] \notin Tid,
         \A x \in AllMutex \ {m} : mutex'[x] = mutex[x],
         \A u \in Tid \ {t} : en[u] = enable_map[u],
         pc[t] = "unlocking" => arg[t] = m,
         OutsideLocks(t), Tracked(t)'
  PROVE  AllTracked'
<1>1. /\ \A u \in Tid \ {t} : CallExact(u)' /\ SemExact(u)' /\ BarrierExact(u)' /\ JoinExact(u)'
      /\ \A b \in Barrier : BarrierRoom(b)'
  BY OutsideLocksKept
<1>2. m # NULL
  BY ConstantsAssumption
<1>3. ASSUME NEW u \in Tid \ {t}
      PROVE  LockExact(u)' /\ EnableExact(u)'
  <2>1. Tracked(u) /\ SameControl(u)
    BY DEF AllTracked, OutsideLocks
  <2>2. InLock(u)' <=> InLock(u)
    BY <2>1 DEF InLock, SameControl
  <2>3. InLock(u) \/ pc[u] = "unlocking" => arg[u] \in Mutex
    BY DEF TypeOK, ArgOK, InLock
  <2>4. pc[u] = "unlocking" => mutex'[arg[u]] \notin Tid
    BY <2>1, <2>3 DEF Tracked, LockExact, AllMutex
  <2>5. CASE lock_wait_map[u] = m
    <3>1. InLock(u) /\ arg[u] = m
      BY <1>2, <2>1, <2>5 DEF Tracked, LockExact
    <3>2. lock_wait_map'[u] = NULL /\ lock_ready_map'[u] = m /\ enable_map'[u] = TRUE
      BY <2>5 DEF threadHasReleasedLock
    <3>3. LockExact(u)'
      BY <2>1, <2>2, <3>1, <3>2 DEF LockExact, SameControl, InLock
    <3>4. sem_wait_map[u] = NULL /\ thread_map[u] = NULL
      BY <2>1, <3>1 DEF Tracked, SemExact, BarrierExact, InLock
    <3>5. EnableExact(u)'
      BY <2>1, <3>1, <3>2, <3>4 DEF EnableExact, Blocked, InLock, DonePC, SameControl, OutsideLocks
    <3> QED
      BY <3>3, <3>5
  <2>6. CASE lock_wait_map[u] # m
    <3>1. /\ lock_wait_map'[u] = lock_wait_map[u] /\ lock_ready_map'[u] = lock_ready_map[u]
          /\ enable_map'[u] = enable_map[u]
      BY <2>6 DEF threadHasReleasedLock, TypeOK
    <3>2. EnableExact(u)'
      BY <2>1, <3>1, KeepEnable DEF Tracked, OutsideLocks
    <3>3. CASE InLock(u) /\ lock_wait_map[u] = arg[u]
      <4>1. mutex'[arg[u]] = mutex[arg[u]]
        BY <2>3, <2>6, <3>3 DEF AllMutex
      <4>2. BeingReleased(arg[u]) => BeingReleased(arg[u])'
        BY <2>1, <2>6, <3>3 DEF BeingReleased, OutsideLocks, SameControl
      <4> QED
        BY <2>1, <3>1, <3>2, <4>1, <4>2, KeepLock DEF Tracked
    <3>4. CASE InLock(u) /\ lock_wait_map[u] # arg[u]
      <4>1. lock_ready_map[u] = arg[u] /\ lock_wait_map[u] = NULL /\ mutex[arg[u]] \notin Tid
        BY <2>1, <3>4 DEF Tracked, LockExact
      <4>2. mutex'[arg[u]] \notin Tid
        BY <2>3, <3>4, <4>1 DEF AllMutex
      <4> QED
        BY <2>1, <2>2, <2>4, <3>1, <3>2, <3>4, <4>1, <4>2 DEF LockExact, SameControl
    <3>5. CASE ~InLock(u)
      BY <2>1, <2>2, <2>4, <3>1, <3>2, <3>5 DEF Tracked, LockExact, SameControl
    <3> QED
      BY <3>2, <3>3, <3>4, <3>5
  <2> QED
    BY <2>5, <2>6
<1> QED
  BY <1>1, <1>3 DEF AllTracked, Tracked

\* The mutex m is taken, or destroyed, and everybody who was ready waits.
LEMMA AcquireTracked ==
  ASSUME TypeOK, AllTracked, NEW t \in Tid, NEW m \in Mutex,
         threadHasAcquiredLock(t, m), TryAcquire(t, m), mutex[m] \notin Tid,
         Goto(t, "app", "none", NULL), pc[t] = "launched", enable_map[t] = TRUE,
         lock_wait_map[t] = NULL, sem_wait_map[t] = NULL, sem_ready_map[t] = NULL,
         thread_map[t] = NULL, OutsideLocks(t),
         \A u \in Tid \ {t} : pc[u] \notin ActivePC
  PROVE  AllTracked'
<1>1. pc'[t] = "app" /\ call'[t] = "none"
  BY DEF Goto, TypeOK
<1>2. m # NULL /\ m \in AllMutex
  BY ConstantsAssumption DEF AllMutex
<1>3. /\ \A u \in Tid \ {t} : CallExact(u)' /\ SemExact(u)' /\ BarrierExact(u)' /\ JoinExact(u)'
      /\ \A b \in Barrier : BarrierRoom(b)'
  BY OutsideLocksKept
<1>4. mutex'[m] # FREE
  <2>1. t # FREE
    BY DEF FREE, Tid
  <2>2. CASE mutex[m] = FREE
    BY <1>2, <2>1, <2>2 DEF TryAcquire, TypeOK
  <2>3. CASE mutex[m] # FREE
    BY <2>3 DEF TryAcquire
  <2> QED
    BY <2>2, <2>3
<1>5. \A x \in AllMutex \ {m} : mutex'[x] = mutex[x]
  BY DEF TryAcquire, TypeOK
<1>6. ASSUME NEW u \in Tid \ {t}
      PROVE  LockExact(u)' /\ EnableExact(u)'
  <2>1. Tracked(u) /\ SameControl(u)
    BY DEF AllTracked, OutsideLocks
  <2>2. InLock(u)' <=> InLock(u)
    BY <2>1 DEF InLock, SameControl
  <2>3. InLock(u) => arg[u] \in Mutex
    BY DEF TypeOK, ArgOK, InLock
  <2>4. pc'[u] # "unlocking"
    BY <2>1 DEF SameControl, ActivePC
  <2>5. CASE lock_ready_map[u] = m
    <3>1. InLock(u) /\ arg[u] = m
      BY <1>2, <2>1, <2>5 DEF Tracked, LockExact
    <3>2. lock_wait_map'[u] = m /\ lock_ready_map'[u] = NULL /\ enable_map'[u] = FALSE
      BY <2>5 DEF threadHasAcquiredLock
    <3>3. LockExact(u)'
      BY <1>4, <2>1, <2>2, <2>4, <3>1, <3>2 DEF LockExact, SameControl
    <3>4. EnableExact(u)'
      BY <1>2, <3>2 DEF EnableExact, Blocked
    <3> QED
      BY <3>3, <3>4
  <2>6. CASE lock_ready_map[u] # m
    <3>1. /\ lock_wait_map'[u] = lock_wait_map[u] /\ lock_ready_map'[u] = lock_ready_map[u]
          /\ enable_map'[u] = enable_map[u]
      BY <2>6 DEF threadHasAcquiredLock, TypeOK
    <3>2. EnableExact(u)'
      BY <2>1, <3>1, KeepEnable DEF Tracked, OutsideLocks
    <3>3. CASE InLock(u) /\ arg[u] = m
      <4>1. lock_wait_map[u] = m /\ lock_ready_map[u] = NULL
        BY <2>1, <2>6, <3>3 DEF Tracked, LockExact
      <4> QED
        BY <1>4, <2>1, <2>2, <2>4, <3>1, <3>2, <3>3, <4>1 DEF LockExact, SameControl
    <3>4. CASE InLock(u) /\ arg[u] # m
      <4>1. mutex'[arg[u]] = mutex[arg[u]]
        BY <1>5, <2>3, <3>4 DEF AllMutex
      <4>2. BeingReleased(arg[u]) => BeingReleased(arg[u])'
        <5>1. \A v \in Tid : pc[v] # "unlocking"
          BY DEF ActivePC
        <5> QED
          BY <5>1 DEF BeingReleased
      <4> QED
        BY <2>1, <3>1, <3>2, <4>1, <4>2, KeepLock DEF Tracked
    <3>5. CASE ~InLock(u)
      BY <2>1, <2>2, <2>4, <3>1, <3>2, <3>5 DEF Tracked, LockExact, SameControl
    <3> QED
      BY <3>3, <3>4, <3>5
  <2> QED
    BY <2>5, <2>6
<1>7. CallExact(t)' /\ ~InLock(t)'
  BY <1>1 DEF CallExact, InLock, DonePC
<1>8. SemExact(t)' /\ BarrierExact(t)' /\ JoinExact(t)'
  BY <1>1, OutsideLocksSelf DEF DonePC
<1>9. lock_wait_map'[t] = NULL /\ lock_ready_map'[t] = NULL /\ enable_map'[t] = TRUE
  BY DEF threadHasAcquiredLock
<1>10. LockExact(t)'
  BY <1>1, <1>7, <1>9 DEF LockExact
<1>11. EnableExact(t)'
  BY <1>1, <1>9 DEF EnableExact, Blocked, DonePC, OutsideLocks
<1> QED
  BY <1>3, <1>6, <1>7, <1>8, <1>10, <1>11 DEF AllTracked, Tracked

\* pthread_mutex_lock up to its scheduling point.
LEMMA BeforeMutexLockKept ==
  ASSUME TrackInv, NEW t \in Tid, BeforeMutexLock(t)
  PROVE  Kept'
<1>1. status = "running" /\ pc[t] = "app" /\ Schedule
  BY DEF BeforeMutexLock, Running
<1>2. PICK m \in Mutex : determineLockStatus(t, m) /\ Goto(t, "paused", "lock", m)
  BY DEF BeforeMutexLock
<1>3. TypeOK /\ HandshakeInv /\ AllTracked /\ Tracked(t)
  BY <1>1, RunningFacts
<1>4. Clean(t) /\ call[t] = "none"
  BY <1>1, <1>3, CleanOutside DEF Tracked, CallExact
<1>5. OutsideLocks(t) /\ UNCHANGED mutex
  BY <1>2, <1>3, <1>4 DEF BeforeMutexLock, OutsideLocks, SameControl, Goto, TypeOK,
                          threadVars, semVars, barrierVars
<1>6. pc[t] \notin {"none", "unlocking"} \cup DonePC
  BY <1>1 DEF DonePC
<1>7. AllTracked'
  BY <1>2, <1>3, <1>4, <1>5, <1>6, ProbeTracked
<1>8. GivesUp(t, "paused")
  BY <1>1, <1>2 DEF BeforeMutexLock, GivesUp, Goto, ActivePC, threadVars
<1>9. enable_map' \in [Tid -> BOOLEAN]
  BY <1>2, <1>3 DEF determineLockStatus, TypeOK
<1>10. Runs'
  BY <1>1, <1>3, <1>8, <1>9, GivesUpRuns DEF PC, LeavingPC
<1> QED
  BY <1>7, <1>10 DEF Kept

\* The probe at the end of a wait, while the signaller is blocked.
LEMMA BeforeRelockKept ==
  ASSUME TrackInv, NEW t \in Tid, BeforeRelock(t)
  PROVE  Kept'
<1>1. /\ status = "running" /\ status' = "running" /\ pc[t] = "relock"
      /\ determineLockStatus(t, arg[t]) /\ Goto(t, "ready", call[t], arg[t]) /\ UNCHANGED <<mutex, sem_map>>
  BY DEF BeforeRelock, Step, launchVars
<1>2. TypeOK /\ HandshakeInv /\ AllTracked /\ Tracked(t) /\ Runs
  BY <1>1, RunningFacts
<1>3. Clean(t) /\ call[t] \in {"condwait", "timedwait"} /\ arg[t] \in Mutex
  BY <1>1, <1>2, CleanOutside DEF TypeOK, ArgOK
<1>4. OutsideLocks(t)
  BY <1>1, <1>2, <1>3 DEF BeforeRelock, OutsideLocks, SameControl, Goto, TypeOK,
                          threadVars, semVars, barrierVars
<1>5. pc[t] \notin {"none", "unlocking"} \cup DonePC
  BY <1>1 DEF DonePC
<1>6. AllTracked'
  BY <1>1, <1>2, <1>3, <1>4, <1>5, ProbeTracked
<1>7. sem_map[t] = 0 /\ pc[t] \notin ActivePC
  <2>1. ~was_signalled_map[t] \/ Posted(t)
    BY <1>1, <1>2 DEF HandshakeInv, Handshake, LeavesForAReason, LeavingPC
  <2>2. pc[t] \notin ActivePC
    BY <1>1 DEF ActivePC
  <2>3. CASE ~was_signalled_map[t]
    BY <1>1, <1>2, <2>2, <2>3, OneForm DEF HandshakeInv, HasBaton
  <2>4. CASE Posted(t)
    <3>1. PICK s \in Tid : pc[s] = "sigwait"
      BY <2>4 DEF Posted
    <3>2. HasBaton(s) /\ s # t
      BY <1>1, <3>1 DEF HasBaton, ActivePC
    <3> QED
      BY <1>1, <1>2, <2>2, <3>2, OneForm DEF HandshakeInv
  <2> QED
    BY <2>1, <2>2, <2>3, <2>4
<1>8. \A u \in Tid : /\ pc'[u] \in ActivePC => pc[u] \in ActivePC
                     /\ pc[u] \in ActivePC \/ sem_map[u] > 0 => enable_map'[u] = enable_map[u]
  BY <1>1, <1>2, <1>7 DEF Goto, determineLockStatus, TypeOK, ActivePC
<1>9. Runs'
  BY <1>1, <1>2, <1>8, KeepsRunning
<1> QED
  BY <1>6, <1>9 DEF Kept

\* Only the thread that runs has the right to, and it stays enabled.
LEMMA RunnerStays ==
  ASSUME TrackInv, status = "running", status' = "running", NEW t \in Tid, pc[t] \in ActivePC,
         UNCHANGED sem_map, enable_map'[t] = TRUE, \A u \in Tid \ {t} : pc'[u] \notin ActivePC
  PROVE  Runs'
<1>1. HandshakeInv /\ Runs
  BY RunningFacts
<1>2. \A u \in Tid \ {t} : pc[u] \notin ActivePC /\ sem_map[u] = 0
  BY <1>1, OneForm DEF HandshakeInv, HasBaton
<1> QED
  BY <1>1, <1>2, KeepsRunning

\* What is known of a thread that runs the second half of its call.
LEMMA LaunchedFacts ==
  ASSUME TrackInv, status = "running", NEW t \in Tid, pc[t] = "launched"
  PROVE  /\ enable_map[t] = TRUE /\ ~Blocked(t)
         /\ \A u \in Tid \ {t} : pc[u] \notin ActivePC
<1>1. TypeOK /\ HandshakeInv /\ Tracked(t) /\ pc[t] \in ActivePC
  BY RunningFacts DEF ActivePC
<1>2. enable_map[t] = TRUE
  BY <1>1, AppEnabled
<1>3. ~Blocked(t)
  BY <1>1, <1>2 DEF Tracked, EnableExact
<1> QED
  BY <1>1, <1>2, <1>3, OneForm DEF HandshakeInv, HasBaton

\* pthread_mutex_lock takes the mutex; nobody took it since t was launched.
LEMMA SimulateMutexLockKept ==
  ASSUME TrackInv, NEW t \in Tid, SimulateMutexLock(t)
  PROVE  Kept'
<1>1. /\ status = "running" /\ status' = "running" /\ pc[t] = "launched" /\ UNCHANGED sem_map
      /\ call[t] \in {"lock", "condwait", "timedwait"}
      /\ threadHasAcquiredLock(t, arg[t]) /\ TryAcquire(t, arg[t]) /\ Goto(t, "app", "none", NULL)
  BY DEF SimulateMutexLock, launchVars
<1>2. TypeOK /\ AllTracked /\ Tracked(t)
  BY <1>1, RunningFacts
<1>3. /\ enable_map[t] = TRUE /\ ~Blocked(t)
      /\ \A u \in Tid \ {t} : pc[u] \notin ActivePC
  BY <1>1, LaunchedFacts
<1>4. arg[t] \in Mutex
  BY <1>1, <1>2 DEF TypeOK, ArgOK
<1>5. lock_wait_map[t] = NULL /\ thread_map[t] = NULL
  BY <1>3 DEF Blocked
<1>6. mutex[arg[t]] \notin Tid
  <2>1. InLock(t) /\ arg[t] # NULL
    BY <1>1, <1>4, ConstantsAssumption DEF InLock
  <2> QED
    BY <1>2, <1>5, <2>1 DEF Tracked, LockExact
<1>7. sem_wait_map[t] = NULL /\ sem_ready_map[t] = NULL
  BY <1>1, <1>2 DEF Tracked, SemExact
<1>8. OutsideLocks(t)
  BY <1>1, <1>2 DEF SimulateMutexLock, OutsideLocks, SameControl, Goto, TypeOK,
                    threadVars, semVars, barrierVars
<1>9. AllTracked'
  BY <1>1, <1>2, <1>3, <1>4, <1>5, <1>6, <1>7, <1>8, AcquireTracked
<1>10. enable_map'[t] = TRUE /\ pc[t] \in ActivePC
  BY <1>1, <1>3 DEF threadHasAcquiredLock, ActivePC
<1>11. \A u \in Tid \ {t} : pc'[u] \notin ActivePC
  BY <1>1, <1>2, <1>3 DEF Goto, TypeOK
<1>12. Runs'
  BY <1>1, <1>10, <1>11, RunnerStays
<1> QED
  BY <1>9, <1>12 DEF Kept

\* pthread_mutex_trylock takes the mutex or leaves everything as it is.
LEMMA SimulateMutexTrylockKept ==
  ASSUME TrackInv, NEW t \in Tid, SimulateMutexTrylock(t)
  PROVE  Kept'
<1>1. /\ status = "running" /\ status' = "running" /\ pc[t] = "launched" /\ UNCHANGED sem_map
      /\ call[t] = "trylock" /\ TryAcquire(t, arg[t]) /\ Goto(t, "app", "none", NULL)
  BY DEF SimulateMutexTrylock, launchVars
<1>2. TypeOK /\ AllTracked /\ Tracked(t)
  BY <1>1, RunningFacts
<1>3. /\ enable_map[t] = TRUE /\ ~Blocked(t)
      /\ \A u \in Tid \ {t} : pc[u] \notin ActivePC
  BY <1>1, LaunchedFacts
<1>4. arg[t] \in Mutex
  BY <1>1, <1>2 DEF TypeOK, ArgOK
<1>5. Clean(t)
  BY <1>1, <1>2, <1>3 DEF Clean, Tracked, LockExact, SemExact, InLock, Blocked
<1>6. OutsideLocks(t)
  BY <1>1, <1>2 DEF SimulateMutexTrylock, OutsideLocks, SameControl, Goto, TypeOK,
                    threadVars, semVars, barrierVars
<1>7. CASE mutex[arg[t]] = FREE
  <2>1. mutex[arg[t]] \notin Tid
    BY <1>7 DEF FREE, Tid
  <2>2. threadHasAcquiredLock(t, arg[t])
    BY <1>7 DEF SimulateMutexTrylock
  <2>3. AllTracked'
    BY <1>1, <1>2, <1>3, <1>4, <1>5, <1>6, <2>1, <2>2, AcquireTracked DEF Clean
  <2>4. enable_map'[t] = TRUE /\ pc[t] \in ActivePC
    BY <1>1, <1>3, <2>2 DEF threadHasAcquiredLock, ActivePC
  <2>5. \A u \in Tid \ {t} : pc'[u] \notin ActivePC
    BY <1>1, <1>2, <1>3 DEF Goto, TypeOK
  <2>6. Runs'
    BY <1>1, <2>4, <2>5, RunnerStays
  <2> QED
    BY <2>3, <2>6 DEF Kept
<1>8. CASE mutex[arg[t]] # FREE
  <2>1. UNCHANGED enable_map /\ UNCHANGED objectVars
    BY <1>1, <1>6, <1>8 DEF SimulateMutexTrylock, TryAcquire, OutsideLocks, objectVars
  <2>2. pc[t] \notin {"none", "unlocking"} \cup DonePC
    BY <1>1 DEF DonePC
  <2> QED
    BY <1>1, <1>3, <1>5, <2>1, <2>2, FreshStep DEF FreshPlace
<1> QED
  BY <1>7, <1>8

\* The real mutex is unlocked, the tracker does not know yet.
LEMMA MutexUnlockKept ==
  ASSUME TrackInv, NEW t \in Tid, MutexUnlock(t)
  PROVE  Kept'
<1>1. /\ status = "running" /\ status' = "running" /\ pc[t] = "app" /\ UNCHANGED sem_map
      /\ UNCHANGED <<enable_map, lock_ready_map, lock_wait_map>>
  BY DEF MutexUnlock, Running, launchVars
<1>2. PICK m \in Mutex : /\ mutex[m] = t /\ mutex' = [mutex EXCEPT ![m] = FREE]
                         /\ Goto(t, "unlocking", "none", m)
  BY DEF MutexUnlock
<1>3. TypeOK /\ AllTracked /\ Tracked(t) /\ HandshakeInv
  BY <1>1, RunningFacts
<1>4. Clean(t) /\ call[t] = "none"
  BY <1>1, <1>3, CleanOutside DEF Tracked, CallExact
<1>5. OutsideLocks(t)
  BY <1>2, <1>3, <1>4 DEF MutexUnlock, OutsideLocks, SameControl, Goto, TypeOK,
                          threadVars, semVars, barrierVars
<1>6. pc'[t] = "unlocking" /\ call'[t] = "none" /\ arg'[t] = m
  BY <1>2, <1>3 DEF Goto, TypeOK
<1>7. m \in AllMutex /\ FREE \notin Tid
  BY DEF AllMutex, FREE, Tid
<1>8. \A x \in AllMutex : mutex'[x] = IF x = m THEN FREE ELSE mutex[x]
  BY <1>2, <1>3 DEF TypeOK
<1>9. \A u \in Tid \ {t} : pc[u] \notin ActivePC
  BY <1>1, <1>3, OneForm DEF HandshakeInv, HasBaton, ActivePC
<1>10. ASSUME NEW u \in Tid \ {t}
       PROVE  LockExact(u)' /\ EnableExact(u)'
  <2>1. Tracked(u) /\ SameControl(u)
    BY <1>3, <1>5 DEF AllTracked, OutsideLocks
  <2>2. InLock(u)' <=> InLock(u)
    BY <2>1 DEF InLock, SameControl
  <2>3. InLock(u) => arg[u] \in AllMutex
    BY <1>3 DEF TypeOK, ArgOK, InLock, AllMutex
  <2>4. pc'[u] # "unlocking"
    BY <1>9, <2>1 DEF SameControl, ActivePC
  <2>5. arg[u] = m => BeingReleased(arg[u])'
    BY <1>6, <2>1 DEF BeingReleased, SameControl
  <2>6. BeingReleased(arg[u]) => FALSE
    BY <1>1, <1>9 DEF BeingReleased, ActivePC
  <2>7. LockExact(u)'
    <3>1. CASE InLock(u) /\ arg[u] = m
      BY <1>1, <1>7, <1>8, <2>1, <2>2, <2>3, <2>4, <2>5, <3>1 DEF Tracked, LockExact, SameControl
    <3>2. CASE InLock(u) /\ arg[u] # m
      BY <1>1, <1>8, <2>1, <2>3, <2>6, <3>2, <2>4, KeepLock DEF Tracked, SameControl
    <3>3. CASE ~InLock(u)
      BY <1>1, <2>1, <2>2, <2>4, <3>3 DEF Tracked, LockExact
    <3> QED
      BY <3>1, <3>2, <3>3
  <2>8. EnableExact(u)'
    BY <1>1, <1>5, <2>1, KeepEnable DEF Tracked, OutsideLocks
  <2> QED
    BY <2>7, <2>8
<1>11. CallExact(t)' /\ ~InLock(t)'
  BY <1>6 DEF CallExact, InLock, DonePC
<1>12. SemExact(t)' /\ BarrierExact(t)' /\ JoinExact(t)'
  BY <1>1, <1>3, <1>4, <1>5, <1>6, OutsideLocksSelf DEF DonePC, Clean
<1>13. LockExact(t)'
  BY <1>1, <1>4, <1>6, <1>7, <1>8, <1>11 DEF LockExact, Clean
<1>14. enable_map'[t] = TRUE
  BY <1>1, AppEnabled DEF ActivePC
<1>15. EnableExact(t)'
  BY <1>1, <1>4, <1>5, <1>6, <1>14 DEF EnableExact, Blocked, Clean, DonePC, OutsideLocks
<1>16. AllTracked'
  BY <1>3, <1>5, <1>10, <1>11, <1>12, <1>13, <1>15, OutsideLocksKept DEF AllTracked, Tracked
<1>17. \A u \in Tid \ {t} : pc'[u] \notin ActivePC
  BY <1>5, <1>9 DEF OutsideLocks, SameControl
<1>18. Runs'
  BY <1>1, <1>14, <1>17, RunnerStays DEF ActivePC
<1> QED
  BY <1>16, <1>18 DEF Kept

\* The tracker is told, and lets the scheduler choose.
LEMMA AfterMutexUnlockKept ==
  ASSUME TrackInv, NEW t \in Tid, AfterMutexUnlock(t)
  PROVE  Kept'
<1> DEFINE m == arg[t]
<1>1. /\ status = "running" /\ pc[t] = "unlocking" /\ Schedule /\ UNCHANGED mutex
      /\ threadHasReleasedLock(m, enable_map) /\ Goto(t, "paused", "point", NULL)
  BY DEF AfterMutexUnlock
<1>2. TypeOK /\ AllTracked /\ Tracked(t) /\ HandshakeInv
  BY <1>1, RunningFacts
<1>3. m \in Mutex /\ m # NULL /\ mutex[m] \notin Tid
  BY <1>1, <1>2, ConstantsAssumption DEF TypeOK, ArgOK, Tracked, LockExact
<1>4. Clean(t) /\ call[t] = "none" /\ enable_map[t] = TRUE
  BY <1>1, <1>2, CleanOutside, AppEnabled DEF Tracked, CallExact, ActivePC
<1>5. OutsideLocks(t)
  BY <1>1, <1>2, <1>4 DEF AfterMutexUnlock, OutsideLocks, SameControl, Goto, TypeOK,
                          threadVars, semVars, barrierVars
<1>6. pc'[t] = "paused" /\ call'[t] = "point" /\ arg'[t] = NULL
  BY <1>1, <1>2 DEF Goto, TypeOK
<1>7. lock_wait_map'[t] = NULL /\ lock_ready_map'[t] = NULL /\ enable_map'[t] = TRUE
  BY <1>1, <1>3, <1>4 DEF threadHasReleasedLock, Clean
<1>8. CallExact(t)' /\ ~InLock(t)'
  BY <1>6 DEF CallExact, InLock, DonePC
<1>9. SemExact(t)' /\ BarrierExact(t)' /\ JoinExact(t)'
  BY <1>1, <1>2, <1>4, <1>5, <1>6, OutsideLocksSelf DEF DonePC, Clean
<1>10. LockExact(t)'
  BY <1>6, <1>7, <1>8 DEF LockExact
<1>11. EnableExact(t)'
  BY <1>4, <1>5, <1>6, <1>7 DEF EnableExact, Blocked, Clean, DonePC, OutsideLocks
<1>12. Tracked(t)'
  BY <1>8, <1>9, <1>10, <1>11 DEF Tracked
<1>13. enable_map \in [Tid -> BOOLEAN]
  BY <1>2 DEF TypeOK
<1>14. AllTracked'
  BY <1>1, <1>2, <1>3, <1>5, <1>12, <1>13, ReleaseTracked
<1>15. GivesUp(t, "paused")
  BY <1>1 DEF AfterMutexUnlock, GivesUp, Goto, ActivePC, threadVars
<1>16. enable_map' \in [Tid -> BOOLEAN]
  BY <1>1, <1>13 DEF threadHasReleasedLock
<1>17. Runs'
  BY <1>1, <1>2, <1>15, <1>16, GivesUpRuns DEF PC, LeavingPC
<1> QED
  BY <1>14, <1>17 DEF Kept

\* A wait releases its mutex; only a timed one stays enabled.
LEMMA EnterWaitKept ==
  ASSUME TrackInv, NEW t \in Tid, NEW kind \in {"condwait", "timedwait"}, EnterWait(t, kind)
  PROVE  Kept'
<1> DEFINE en == [enable_map EXCEPT ![t] = (kind = "timedwait")]
<1>1. CASE Halt("misuse")
  BY <1>1, Ends DEF Halt
<1>2. ASSUME NEW m \in Mutex, mutex[m] = t, mutex' = [mutex EXCEPT ![m] = FREE],
             threadHasReleasedLock(m, en), Schedule, Goto(t, "cwait", kind, m)
      PROVE  Kept'
  <2>1. status = "running" /\ pc[t] = "app"
    BY DEF EnterWait, Running
  <2>2. TypeOK /\ AllTracked /\ Tracked(t) /\ HandshakeInv
    BY <2>1, RunningFacts
  <2>3. Clean(t) /\ call[t] = "none"
    BY <2>1, <2>2, CleanOutside DEF Tracked, CallExact
  <2>4. OutsideLocks(t)
    BY <1>2, <2>2, <2>3 DEF EnterWait, OutsideLocks, SameControl, Goto, TypeOK,
                            threadVars, semVars, barrierVars
  <2>5. pc'[t] = "cwait" /\ call'[t] = kind /\ arg'[t] = m
    BY <1>2, <2>2 DEF Goto, TypeOK
  <2>6. m # NULL /\ FREE \notin Tid /\ m \in AllMutex
    BY ConstantsAssumption DEF FREE, Tid, AllMutex
  <2>7. en \in [Tid -> BOOLEAN] /\ en[t] = (kind = "timedwait") /\ \A u \in Tid \ {t} : en[u] = enable_map[u]
    BY <2>2 DEF TypeOK
  <2>8. lock_wait_map'[t] = NULL /\ lock_ready_map'[t] = NULL /\ (enable_map'[t] <=> kind = "timedwait")
    BY <1>2, <2>3, <2>6, <2>7 DEF threadHasReleasedLock, Clean
  <2>9. CallExact(t)' /\ ~InLock(t)'
    BY <2>5 DEF CallExact, InLock, DonePC
  <2>10. SemExact(t)' /\ BarrierExact(t)' /\ JoinExact(t)'
    BY <2>1, <2>2, <2>3, <2>4, <2>5, OutsideLocksSelf DEF DonePC, Clean
  <2>11. LockExact(t)'
    BY <2>5, <2>8, <2>9 DEF LockExact
  <2>12. EnableExact(t)'
    BY <2>3, <2>4, <2>5, <2>8 DEF EnableExact, Blocked, Clean, DonePC, OutsideLocks
  <2>13. Tracked(t)'
    BY <2>9, <2>10, <2>11, <2>12 DEF Tracked
  <2>14. mutex'[m] \notin Tid /\ \A x \in AllMutex \ {m} : mutex'[x] = mutex[x]
    BY <1>2, <2>2, <2>6 DEF TypeOK
  <2>15. AllTracked'
    BY <1>2, <2>1, <2>2, <2>4, <2>7, <2>13, <2>14, ReleaseTracked
  <2>16. GivesUp(t, "cwait")
    BY <1>2, <2>1 DEF EnterWait, GivesUp, Goto, ActivePC, threadVars
  <2>17. enable_map' \in [Tid -> BOOLEAN]
    BY <1>2, <2>7 DEF threadHasReleasedLock
  <2>18. Runs'
    BY <2>1, <2>2, <2>16, <2>17, GivesUpRuns DEF PC, LeavingPC
  <2> QED
    BY <2>15, <2>18 DEF Kept
<1> QED
  BY <1>1, <1>2 DEF EnterWait

\* Only mutexes change: those a thread is filed under keep the answer that
\* a probe of them gives.
LEMMA MutexOnly ==
  ASSUME TypeOK, AllTracked,
         UNCHANGED <<pc, call, arg, enable_map, lock_ready_map, lock_wait_map, sem_ready_map,
                     sem_wait_map, semval, thread_map, barrier_count, finish_map, join_map,
                     joined, curr_id>>,
         \A u \in Tid : InLock(u) \/ pc[u] = "unlocking" =>
           /\ mutex'[arg[u]] \in Tid <=> mutex[arg[u]] \in Tid
           /\ mutex[arg[u]] # FREE => mutex'[arg[u]] # FREE
  PROVE  AllTracked'
<1>1. \A u \in Tid : /\ InLock(u)' <=> InLock(u)
                     /\ BeingReleased(arg[u])' <=> BeingReleased(arg[u])
  BY DEF InLock, BeingReleased
<1>2. \A u \in Tid : LockExact(u)'
  BY <1>1 DEF AllTracked, Tracked, LockExact
<1>3. \A u \in Tid : CallExact(u)' /\ SemExact(u)' /\ BarrierExact(u)'
  BY DEF AllTracked, Tracked, CallExact, SemExact, BarrierExact
<1>4. \A u \in Tid : JoinExact(u)' /\ EnableExact(u)'
  BY DEF AllTracked, Tracked, JoinExact, EnableExact, Blocked
<1>5. \A b \in Barrier : BarrierRoom(b)'
  BY DEF AllTracked, BarrierRoom, OnBarrier
<1> QED
  BY <1>2, <1>3, <1>4, <1>5 DEF AllTracked, Tracked

\* A probe of a destroyed mutex answers as that of a free one.
LEMMA SimulateMutexDestroyKept ==
  ASSUME TrackInv, NEW t \in Tid, SimulateMutexDestroy(t)
  PROVE  Kept'
<1>1. /\ status = "running"
      /\ UNCHANGED <<sem_map, status, pc, call, arg, enable_map>>
      /\ UNCHANGED <<lock_ready_map, lock_wait_map, sem_ready_map, sem_wait_map, semval,
                     thread_map, barrier_count, finish_map, join_map, joined, curr_id>>
  BY DEF SimulateMutexDestroy, Running, launchVars, controlVars, threadVars, semVars, barrierVars
<1>2. TypeOK /\ AllTracked
  BY <1>1, RunningFacts
<1>3. FREE \notin Tid /\ DESTROYED \notin Tid /\ FREE # DESTROYED
  BY DEF FREE, DESTROYED, Tid
<1>4. \A x \in AllMutex : mutex'[x] = mutex[x] \/ (mutex[x] = FREE /\ mutex'[x] = DESTROYED)
  BY <1>2 DEF SimulateMutexDestroy, TypeOK
<1>5. \A u \in Tid : InLock(u) \/ pc[u] = "unlocking" => arg[u] \in AllMutex
  BY <1>2 DEF TypeOK, ArgOK, InLock, AllMutex
<1>6. AllTracked'
  BY <1>1, <1>2, <1>3, <1>4, <1>5, MutexOnly
<1> QED
  BY <1>1, <1>6, IdleStep

\* The program initialises a mutex nobody is about to lock.
LEMMA BeforeMutexInitKept ==
  ASSUME TrackInv, NEW t \in Tid, BeforeMutexInit(t)
  PROVE  Kept'
<1>1. /\ status = "running"
      /\ UNCHANGED <<sem_map, status, pc, call, arg, enable_map>>
      /\ UNCHANGED <<lock_ready_map, lock_wait_map, sem_ready_map, sem_wait_map, semval,
                     thread_map, barrier_count, finish_map, join_map, joined, curr_id>>
  BY DEF BeforeMutexInit, Running, launchVars, controlVars, threadVars, semVars, barrierVars
<1>2. TypeOK /\ AllTracked
  BY <1>1, RunningFacts
<1>3. PICK m \in Mutex : (\A u \in Tid : arg[u] # m) /\ mutex' = [mutex EXCEPT ![m] = FREE]
  BY DEF BeforeMutexInit
<1>4. \A u \in Tid : InLock(u) \/ pc[u] = "unlocking" => arg[u] \in AllMutex
  BY <1>2 DEF TypeOK, ArgOK, InLock, AllMutex
<1>5. \A u \in Tid : InLock(u) \/ pc[u] = "unlocking" => mutex'[arg[u]] = mutex[arg[u]]
  BY <1>2, <1>3, <1>4 DEF TypeOK
<1>6. AllTracked'
  BY <1>1, <1>2, <1>5, MutexOnly
<1> QED
  BY <1>1, <1>6, IdleStep

\* The application's mutexes are not touched by a finished thread.
LEMMA CleanupApart ==
  ASSUME PrivateCleanup, TypeOK, NEW t \in Tid, CleanupLock(t) \/ CleanupUnlock(t) \/ ThreadDies(t)
  PROVE  \A x \in Mutex : mutex'[x] = mutex[x]
<1>1. Mutex \cap CleanupMutex = {}
  BY DEF PrivateCleanup
<1>2. CASE ThreadDies(t)
  BY <1>2 DEF ThreadDies, lockVars
<1>3. CASE CleanupLock(t)
  BY <1>1, <1>3 DEF CleanupLock, TypeOK, AllMutex
<1>4. CASE CleanupUnlock(t)
  <2>1. arg[t] \in CleanupMutex
    BY <1>4 DEF CleanupUnlock, TypeOK, ArgOK
  <2> QED
    BY <1>1, <1>4, <2>1 DEF CleanupUnlock, TypeOK, AllMutex
<1> QED
  BY <1>2, <1>3, <1>4

\* What a finished thread does on its way out concerns nobody.
LEMMA CleanupKept ==
  ASSUME PrivateCleanup, TrackInv, NEW t \in Tid, CleanupLock(t) \/ CleanupUnlock(t) \/ ThreadDies(t)
  PROVE  Kept'
<1>1. /\ status = "running" /\ status' = "running" /\ UNCHANGED <<sem_map, enable_map>>
      /\ UNCHANGED <<lock_ready_map, lock_wait_map>>
      /\ pc[t] \in DonePC
  BY DEF CleanupLock, CleanupUnlock, ThreadDies, launchVars, lockVars, DonePC
<1>2. PICK p \in DonePC, o \in CleanupMutex \cup {NULL} : Goto(t, p, "none", o)
  BY DEF CleanupLock, CleanupUnlock, ThreadDies, DonePC
<1>3. TypeOK /\ AllTracked /\ Tracked(t) /\ Runs
  BY <1>1, RunningFacts
<1>4. Clean(t) /\ call[t] = "none"
  BY <1>1, <1>3, CleanOutside DEF Tracked, CallExact, DonePC
<1>5. OutsideLocks(t)
  BY <1>2, <1>3, <1>4 DEF CleanupLock, CleanupUnlock, ThreadDies, OutsideLocks, SameControl, Goto,
                          TypeOK, threadVars, semVars, barrierVars
<1>6. \A x \in Mutex : mutex'[x] = mutex[x]
  BY <1>3, CleanupApart
<1>7. pc'[t] = p /\ call'[t] = "none"
  BY <1>2, <1>3 DEF Goto, TypeOK
<1>8. ASSUME NEW u \in Tid \ {t}
      PROVE  LockExact(u)' /\ EnableExact(u)'
  <2>1. Tracked(u) /\ SameControl(u)
    BY <1>3, <1>5 DEF AllTracked, OutsideLocks
  <2>2. InLock(u) \/ pc[u] = "unlocking" => mutex'[arg[u]] = mutex[arg[u]]
    BY <1>3, <1>6 DEF TypeOK, ArgOK, InLock
  <2>3. BeingReleased(arg[u]) => BeingReleased(arg[u])'
    <3>1. pc[t] # "unlocking"
      BY <1>1 DEF DonePC
    <3> QED
      BY <1>5, <2>1, <3>1 DEF BeingReleased, OutsideLocks, SameControl
  <2>4. LockExact(u)'
    BY <1>1, <2>1, <2>2, <2>3, KeepLock DEF Tracked
  <2>5. EnableExact(u)'
    BY <1>1, <1>5, <2>1, KeepEnable DEF Tracked, OutsideLocks
  <2> QED
    BY <2>4, <2>5
<1>9. CallExact(t)' /\ ~InLock(t)'
  BY <1>7 DEF CallExact, InLock, DonePC
<1>10. SemExact(t)' /\ BarrierExact(t)'
  BY <1>4, <1>5, <1>7 DEF SemExact, BarrierExact, Clean, OutsideLocks
<1>11. JoinExact(t)'
  <2>1. finish_map[t] /\ finish_map' = finish_map
    BY <1>1, <1>3, <1>5 DEF Tracked, JoinExact, OutsideLocks
  <2> QED
    BY <1>1, <1>3, <1>5, <1>7, <2>1 DEF Tracked, JoinExact, OutsideLocks, DonePC
<1>12. LockExact(t)'
  BY <1>1, <1>4, <1>7, <1>9 DEF LockExact, Clean, DonePC
<1>13. EnableExact(t)'
  BY <1>1, <1>3, <1>7 DEF EnableExact, Tracked
<1>14. AllTracked'
  BY <1>3, <1>5, <1>8, <1>9, <1>10, <1>11, <1>12, <1>13, OutsideLocksKept DEF AllTracked, Tracked
<1>15. \A u \in Tid : pc'[u] \in ActivePC => pc[u] \in ActivePC
  BY <1>5, <1>7 DEF OutsideLocks, SameControl, DonePC, ActivePC
<1>16. Runs'
  BY <1>1, <1>3, <1>15, KeepsRunning
<1> QED
  BY <1>14, <1>16 DEF Kept

-----------------------------------------------------------------------------
(***************************************************************************)
(* Semaphores, along the same lines.                                       *)
(***************************************************************************)

\* t moves; of the rest only semaphores, their maps and enable_map change.
OutsideSems(t) ==
  /\ UNCHANGED <<lock_ready_map, lock_wait_map, mutex, thread_map, barrier_count,
                 finish_map, join_map, joined, curr_id>>
  /\ \A u \in Tid \ {t} : SameControl(u)
  /\ call[t] # "join" /\ pc[t] # "unlocking"

\* What is not about semaphores and enable_map stays true.
LEMMA OutsideSemsKept ==
  ASSUME TypeOK, AllTracked, NEW t \in Tid, OutsideSems(t)
  PROVE  /\ \A u \in Tid \ {t} : CallExact(u)' /\ LockExact(u)' /\ BarrierExact(u)' /\ JoinExact(u)'
         /\ \A b \in Barrier : BarrierRoom(b)'
<1>1. ASSUME NEW u \in Tid \ {t}
      PROVE  CallExact(u)' /\ LockExact(u)' /\ BarrierExact(u)' /\ JoinExact(u)'
  <2>1. Tracked(u) /\ SameControl(u)
    BY DEF AllTracked, OutsideSems
  <2>2. CallExact(u)' /\ BarrierExact(u)'
    BY <2>1 DEF Tracked, CallExact, BarrierExact, SameControl, OutsideSems
  <2>3. BeingReleased(arg[u]) => BeingReleased(arg[u])'
    BY <2>1 DEF BeingReleased, OutsideSems, SameControl
  <2>4. LockExact(u)'
    BY <2>1, <2>3, KeepLock DEF Tracked, OutsideSems
  <2>5. \A v \in Tid : call[v] = "join" /\ ~finish_map[arg[v]] => call'[v] = "join" /\ arg'[v] = arg[v]
    BY DEF OutsideSems, SameControl
  <2>6. join_map[u] \in Tid \cup {UNJOINED}
    BY DEF TypeOK
  <2>7. JoinExact(u)'
    BY <2>1, <2>5, <2>6, KeepJoin DEF Tracked, OutsideSems
  <2> QED
    BY <2>2, <2>4, <2>7
<1>2. \A b \in Barrier : BarrierRoom(b)'
  BY DEF AllTracked, BarrierRoom, OnBarrier, OutsideSems
<1> QED
  BY <1>1, <1>2

\* It stays true of t when t is, and stays, alive and outside joins, locks
\* and barriers.
LEMMA OutsideSemsSelf ==
  ASSUME TypeOK, AllTracked, NEW t \in Tid, OutsideSems(t),
         pc[t] \notin {"none"} \cup DonePC, pc'[t] \notin {"none", "unlocking"} \cup DonePC,
         call'[t] \in {"none", "point", "semwait"},
         lock_wait_map[t] = NULL, lock_ready_map[t] = NULL, thread_map[t] = NULL
  PROVE  LockExact(t)' /\ BarrierExact(t)' /\ JoinExact(t)'
<1>1. Tracked(t)
  BY DEF AllTracked
<1>2. ~InLock(t)'
  BY DEF InLock
<1>3. LockExact(t)' /\ BarrierExact(t)'
  BY <1>2 DEF LockExact, BarrierExact, OutsideSems
<1>4. join_map[t] # UNJOINED /\ ~finish_map[t] => call'[join_map[t]] = "join" /\ arg'[join_map[t]] = t
  BY <1>1 DEF Tracked, JoinExact, SameControl, OutsideSems, TypeOK
<1>5. JoinExact(t)'
  BY <1>1, <1>4 DEF Tracked, JoinExact, OutsideSems
<1> QED
  BY <1>3, <1>5

\* sem_wait up to its scheduling point files t as the value says.
LEMMA BeforeSemWaitKept ==
  ASSUME TrackInv, NEW t \in Tid, BeforeSemWait(t)
  PROVE  Kept'
<1>1. CASE Halt("misuse")
  BY <1>1, Ends DEF Halt
<1>2. ASSUME NEW s \in Sem, determineSemaphoreStatus(t, s), Schedule, Goto(t, "paused", "semwait", s)
      PROVE  Kept'
  <2>1. status = "running" /\ pc[t] = "app" /\ UNCHANGED semval
    BY DEF BeforeSemWait, Running
  <2>2. TypeOK /\ AllTracked /\ Tracked(t) /\ HandshakeInv
    BY <2>1, RunningFacts
  <2>3. Clean(t) /\ call[t] = "none"
    BY <2>1, <2>2, CleanOutside DEF Tracked, CallExact
  <2>4. OutsideSems(t)
    BY <1>2, <2>1, <2>2, <2>3 DEF BeforeSemWait, OutsideSems, SameControl, Goto, TypeOK,
                                  threadVars, lockVars, barrierVars
  <2>5. pc'[t] = "paused" /\ call'[t] = "semwait" /\ arg'[t] = s /\ s # NULL
    BY <1>2, <2>2, ConstantsAssumption DEF Goto, TypeOK
  <2>6. \A u \in Tid \ {t} : /\ sem_wait_map'[u] = sem_wait_map[u]
                             /\ sem_ready_map'[u] = sem_ready_map[u]
                             /\ enable_map'[u] = enable_map[u]
    BY <1>2, <2>2 DEF determineSemaphoreStatus, TypeOK
  <2>7. \A u \in Tid \ {t} : SemExact(u)'
    BY <2>1, <2>2, <2>4, <2>6, KeepSem DEF AllTracked, Tracked, OutsideSems
  <2>8. \A u \in Tid \ {t} : EnableExact(u)'
    BY <2>1, <2>2, <2>4, <2>6, KeepEnable DEF AllTracked, Tracked, OutsideSems
  <2>9. CallExact(t)' /\ pc'[t] \notin {"none", "unlocking"} \cup DonePC
    BY <2>5 DEF CallExact, DonePC
  <2>10. LockExact(t)' /\ BarrierExact(t)' /\ JoinExact(t)'
    BY <2>1, <2>2, <2>3, <2>4, <2>5, <2>9, OutsideSemsSelf DEF DonePC, Clean
  <2>11. semval[s] \in Nat
    BY <2>2, ConstantsAssumption DEF TypeOK
  <2>12. SemExact(t)' /\ EnableExact(t)'
    <3>1. CASE semval[s] > 0
      <4>1. sem_wait_map'[t] = NULL /\ sem_ready_map'[t] = s /\ enable_map'[t] = TRUE
        BY <1>2, <2>2, <2>3, <3>1 DEF determineSemaphoreStatus, TypeOK, Clean
      <4> QED
        BY <2>1, <2>3, <2>4, <2>5, <2>9, <3>1, <4>1 DEF SemExact, EnableExact, Blocked, Clean, OutsideSems
    <3>2. CASE semval[s] = 0
      <4>1. sem_wait_map'[t] = s /\ sem_ready_map'[t] = NULL /\ enable_map'[t] = FALSE
        BY <1>2, <2>2, <2>3, <3>2 DEF determineSemaphoreStatus, TypeOK, Clean
      <4> QED
        BY <2>1, <2>5, <3>2, <4>1 DEF SemExact, EnableExact, Blocked
    <3> QED
      BY <2>11, <3>1, <3>2
  <2>13. AllTracked'
    BY <2>2, <2>4, <2>7, <2>8, <2>9, <2>10, <2>12, OutsideSemsKept DEF AllTracked, Tracked
  <2>14. GivesUp(t, "paused")
    BY <1>2, <2>1 DEF BeforeSemWait, GivesUp, Goto, ActivePC, threadVars
  <2>15. enable_map' \in [Tid -> BOOLEAN]
    BY <1>2, <2>2 DEF determineSemaphoreStatus, TypeOK
  <2>16. Runs'
    BY <2>1, <2>2, <2>14, <2>15, GivesUpRuns DEF PC, LeavingPC
  <2> QED
    BY <2>13, <2>16 DEF Kept
<1> QED
  BY <1>1, <1>2 DEF BeforeSemWait

\* sem_wait takes one unit; its assertions hold, as nobody passed since t was
\* launched.
LEMMA SimulateSemWaitKept ==
  ASSUME TrackInv, NEW t \in Tid, SimulateSemWait(t)
  PROVE  Kept'
<1> DEFINE s == arg[t]
<1>1. status = "running" /\ pc[t] = "launched" /\ call[t] = "semwait" /\ Goto(t, "app", "none", NULL)
  BY DEF SimulateSemWait
<1>2. TypeOK /\ AllTracked /\ Tracked(t)
  BY <1>1, RunningFacts
<1>3. /\ enable_map[t] = TRUE /\ ~Blocked(t)
      /\ \A u \in Tid \ {t} : pc[u] \notin ActivePC
  BY <1>1, LaunchedFacts
<1>4. s \in Sem /\ s # NULL /\ semval \in [Sem -> Nat]
  BY <1>1, <1>2, ConstantsAssumption DEF TypeOK, ArgOK
<1>5. sem_wait_map[t] = NULL /\ sem_ready_map[t] = s /\ semval[s] > 0
  BY <1>1, <1>2, <1>3, <1>4 DEF Blocked, Tracked, SemExact
<1>6. CASE Halt("misuse")
  BY <1>6, Ends DEF Halt
<1>7. CASE /\ semval' = [semval EXCEPT ![s] = semval[s] - 1]
           /\ threadHasPassedSemaphore(t, s) /\ UNCHANGED launchVars
  <2>1. OutsideSems(t)
    BY <1>1, <1>2 DEF SimulateSemWait, OutsideSems, SameControl, Goto, TypeOK,
                      threadVars, lockVars, barrierVars
  <2>2. lock_wait_map[t] = NULL /\ lock_ready_map[t] = NULL /\ thread_map[t] = NULL
    BY <1>1, <1>2, <1>3 DEF Blocked, Tracked, LockExact, InLock
  <2>3. pc'[t] = "app" /\ call'[t] = "none"
    BY <1>1, <1>2 DEF Goto, TypeOK
  <2>4. semval'[s] = semval[s] - 1 /\ \A x \in Sem \ {s} : semval'[x] = semval[x]
    BY <1>4, <1>7
  <2>5. ASSUME NEW u \in Tid \ {t}
        PROVE  SemExact(u)' /\ EnableExact(u)'
    <3>1. Tracked(u) /\ SameControl(u)
      BY <1>2, <2>1 DEF AllTracked, OutsideSems
    <3>2. call[u] = "semwait" => arg[u] \in Sem
      BY <1>2 DEF TypeOK, ArgOK
    <3>3. CASE sem_ready_map[u] = s /\ ~(semval'[s] > 0)
      <4>1. call[u] = "semwait" /\ arg[u] = s
        BY <1>4, <3>1, <3>3 DEF Tracked, SemExact
      <4>2. sem_ready_map'[u] = NULL /\ sem_wait_map'[u] = s /\ enable_map'[u] = FALSE
        BY <1>7, <3>3 DEF threadHasPassedSemaphore
      <4>3. semval'[s] = 0
        BY <1>4, <1>5, <2>4, <3>3
      <4> QED
        BY <1>4, <3>1, <4>1, <4>2, <4>3 DEF SemExact, EnableExact, Blocked, SameControl
    <3>4. CASE ~(sem_ready_map[u] = s /\ ~(semval'[s] > 0))
      <4>1. /\ sem_ready_map'[u] = sem_ready_map[u] /\ sem_wait_map'[u] = sem_wait_map[u]
            /\ enable_map'[u] = enable_map[u]
        BY <1>2, <1>7, <3>4 DEF threadHasPassedSemaphore, TypeOK
      <4>2. EnableExact(u)'
        BY <2>1, <3>1, <4>1, KeepEnable DEF Tracked, OutsideSems
      <4>3. SemExact(u)'
        <5>1. CASE call[u] = "semwait" /\ arg[u] = s
          <6>1. sem_wait_map[u] = NULL /\ sem_ready_map[u] = s
            BY <1>5, <3>1, <5>1 DEF Tracked, SemExact
          <6> QED
            BY <3>1, <3>4, <4>1, <5>1, <6>1 DEF SemExact, SameControl
        <5>2. CASE ~(call[u] = "semwait" /\ arg[u] = s)
          BY <2>4, <3>1, <3>2, <4>1, <5>2, KeepSem DEF Tracked
        <5> QED
          BY <5>1, <5>2
      <4> QED
        BY <4>2, <4>3
    <3> QED
      BY <3>3, <3>4
  <2>6. sem_ready_map'[t] = NULL /\ sem_wait_map'[t] = NULL /\ enable_map'[t] = TRUE
    BY <1>3, <1>5, <1>7 DEF threadHasPassedSemaphore
  <2>7. CallExact(t)' /\ SemExact(t)'
    BY <2>3, <2>6 DEF CallExact, SemExact, DonePC
  <2>8. LockExact(t)' /\ BarrierExact(t)' /\ JoinExact(t)'
    BY <1>1, <1>2, <2>1, <2>2, <2>3, OutsideSemsSelf DEF DonePC
  <2>9. EnableExact(t)'
    BY <2>1, <2>2, <2>3, <2>6 DEF EnableExact, Blocked, DonePC, OutsideSems
  <2>10. AllTracked'
    BY <1>2, <2>1, <2>5, <2>7, <2>8, <2>9, OutsideSemsKept DEF AllTracked, Tracked
  <2>11. \A u \in Tid \ {t} : pc'[u] \notin ActivePC
    BY <1>1, <1>2, <1>3 DEF Goto, TypeOK
  <2>12. status' = "running" /\ UNCHANGED sem_map /\ pc[t] \in ActivePC
    BY <1>1, <1>7 DEF launchVars, ActivePC
  <2>13. Runs'
    BY <1>1, <2>6, <2>11, <2>12, RunnerStays
  <2> QED
    BY <2>10, <2>13 DEF Kept
<1>8. Halt("misuse") \/ (/\ semval' = [semval EXCEPT ![s] = semval[s] - 1]
                         /\ threadHasPassedSemaphore(t, s) /\ UNCHANGED launchVars)
  BY <1>4, <1>5 DEF SimulateSemWait
<1> QED
  BY <1>6, <1>7, <1>8

\* sem_post makes ready whoever waits on the semaphore.
LEMMA SimulateSemPostKept ==
  ASSUME TrackInv, NEW t \in Tid, SimulateSemPost(t)
  PROVE  Kept'
<1>1. CASE Halt("misuse")
  BY <1>1, Ends DEF Halt
<1>2. ASSUME NEW s \in Sem, semval' = [semval EXCEPT ![s] = semval[s] + 1],
             semaphoreIsPosted(s), Schedule, Goto(t, "paused", "point", NULL)
      PROVE  Kept'
  <2>1. status = "running" /\ pc[t] = "app"
    BY DEF SimulateSemPost, Running
  <2>2. TypeOK /\ AllTracked /\ Tracked(t) /\ HandshakeInv
    BY <2>1, RunningFacts
  <2>3. Clean(t) /\ call[t] = "none" /\ enable_map[t] = TRUE
    BY <2>1, <2>2, CleanOutside, AppEnabled DEF Tracked, CallExact, ActivePC
  <2>4. OutsideSems(t)
    BY <1>2, <2>1, <2>2, <2>3 DEF SimulateSemPost, OutsideSems, SameControl, Goto, TypeOK,
                                  threadVars, lockVars, barrierVars
  <2>5. pc'[t] = "paused" /\ call'[t] = "point" /\ arg'[t] = NULL /\ s # NULL
    BY <1>2, <2>2, ConstantsAssumption DEF Goto, TypeOK
  <2>6. semval \in [Sem -> Nat]
    BY <2>2, ConstantsAssumption DEF TypeOK
  <2>7. semval'[s] > 0 /\ \A x \in Sem \ {s} : semval'[x] = semval[x]
    BY <1>2, <2>6
  <2>8. ASSUME NEW u \in Tid \ {t}
        PROVE  SemExact(u)' /\ EnableExact(u)'
    <3>1. Tracked(u) /\ SameControl(u)
      BY <2>2, <2>4 DEF AllTracked, OutsideSems
    <3>2. call[u] = "semwait" => arg[u] \in Sem
      BY <2>2 DEF TypeOK, ArgOK
    <3>3. CASE sem_wait_map[u] = s
      <4>1. call[u] = "semwait" /\ arg[u] = s
        BY <2>5, <3>1, <3>3 DEF Tracked, SemExact
      <4>2. sem_ready_map'[u] = s /\ sem_wait_map'[u] = NULL /\ enable_map'[u] = TRUE
        BY <1>2, <3>3 DEF semaphoreIsPosted
      <4>3. SemExact(u)'
        BY <2>7, <3>1, <4>1, <4>2 DEF SemExact, SameControl
      <4>4. pc[u] \in {"paused", "launched"}
        BY <2>2, <3>1, <4>1, CleanOutside DEF Tracked, TypeOK, ArgOK
      <4>5. lock_wait_map[u] = NULL /\ thread_map[u] = NULL
        BY <3>1, <4>1 DEF Tracked, LockExact, InLock, BarrierExact
      <4>6. EnableExact(u)'
        BY <2>4, <3>1, <4>1, <4>2, <4>4, <4>5 DEF EnableExact, Blocked, SameControl, OutsideSems, DonePC
      <4> QED
        BY <4>3, <4>6
    <3>4. CASE sem_wait_map[u] # s
      <4>1. /\ sem_ready_map'[u] = sem_ready_map[u] /\ sem_wait_map'[u] = sem_wait_map[u]
            /\ enable_map'[u] = enable_map[u]
        BY <1>2, <2>2, <3>4 DEF semaphoreIsPosted, TypeOK
      <4>2. EnableExact(u)'
        BY <2>4, <3>1, <4>1, KeepEnable DEF Tracked, OutsideSems
      <4>3. SemExact(u)'
        <5>1. CASE call[u] = "semwait" /\ arg[u] = s
          <6>1. sem_wait_map[u] = NULL /\ sem_ready_map[u] = s
            BY <3>1, <3>4, <5>1 DEF Tracked, SemExact
          <6> QED
            BY <2>7, <3>1, <4>1, <5>1, <6>1 DEF SemExact, SameControl
        <5>2. CASE ~(call[u] = "semwait" /\ arg[u] = s)
          BY <2>7, <3>1, <3>2, <4>1, <5>2, KeepSem DEF Tracked
        <5> QED
          BY <5>1, <5>2
      <4> QED
        BY <4>2, <4>3
    <3> QED
      BY <3>3, <3>4
  <2>9. sem_wait_map'[t] = NULL /\ sem_ready_map'[t] = NULL /\ enable_map'[t] = TRUE
    BY <1>2, <2>3, <2>5 DEF semaphoreIsPosted, Clean
  <2>10. CallExact(t)' /\ SemExact(t)' /\ pc'[t] \notin {"none", "unlocking"} \cup DonePC
    BY <2>5, <2>9 DEF CallExact, SemExact, DonePC
  <2>11. LockExact(t)' /\ BarrierExact(t)' /\ JoinExact(t)'
    BY <2>1, <2>2, <2>3, <2>4, <2>5, <2>10, OutsideSemsSelf DEF DonePC, Clean
  <2>12. EnableExact(t)'
    BY <2>3, <2>4, <2>5, <2>9, <2>10 DEF EnableExact, Blocked, Clean, OutsideSems
  <2>13. AllTracked'
    BY <2>2, <2>4, <2>8, <2>10, <2>11, <2>12, OutsideSemsKept DEF AllTracked, Tracked
  <2>14. GivesUp(t, "paused")
    BY <1>2, <2>1 DEF SimulateSemPost, GivesUp, Goto, ActivePC, threadVars
  <2>15. enable_map' \in [Tid -> BOOLEAN]
    BY <1>2, <2>2 DEF semaphoreIsPosted, TypeOK
  <2>16. Runs'
    BY <2>1, <2>2, <2>14, <2>15, GivesUpRuns DEF PC, LeavingPC
  <2> QED
    BY <2>13, <2>16 DEF Kept
<1> QED
  BY <1>1, <1>2 DEF SimulateSemPost

\* The program initialises a semaphore nobody waits on.
LEMMA BeforeSemInitKept ==
  ASSUME TrackInv, NEW t \in Tid, BeforeSemInit(t)
  PROVE  Kept'
<1>1. /\ status = "running"
      /\ UNCHANGED <<sem_map, status, pc, call, arg, enable_map>>
      /\ UNCHANGED <<lock_ready_map, lock_wait_map, mutex, sem_ready_map, sem_wait_map,
                     thread_map, barrier_count, finish_map, join_map, joined, curr_id>>
  BY DEF BeforeSemInit, Running, launchVars, controlVars, threadVars, lockVars, barrierVars
<1>2. TypeOK /\ AllTracked
  BY <1>1, RunningFacts
<1>3. PICK s \in Sem, v \in 0..MaxSem :
        /\ \A u \in Tid : call[u] = "semwait" => arg[u] # s
        /\ semval' = [semval EXCEPT ![s] = v]
  BY <1>2 DEF BeforeSemInit, TypeOK
<1>4. \A u \in Tid : call[u] = "semwait" => semval'[arg[u]] = semval[arg[u]]
  BY <1>2, <1>3 DEF TypeOK, ArgOK
<1>5. \A u \in Tid : /\ InLock(u)' <=> InLock(u)
                     /\ BeingReleased(arg[u])' <=> BeingReleased(arg[u])
  BY <1>1 DEF InLock, BeingReleased
<1>6. \A u \in Tid : LockExact(u)' /\ SemExact(u)'
  <2>1. \A u \in Tid : LockExact(u)'
    BY <1>1, <1>2, <1>5 DEF AllTracked, Tracked, LockExact
  <2>2. \A u \in Tid : SemExact(u)'
    BY <1>1, <1>2, <1>4, KeepSem DEF AllTracked, Tracked, SameControl
  <2> QED
    BY <2>1, <2>2
<1>7. \A u \in Tid : CallExact(u)' /\ BarrierExact(u)'
  BY <1>1, <1>2 DEF AllTracked, Tracked, CallExact, BarrierExact
<1>8. \A u \in Tid : JoinExact(u)' /\ EnableExact(u)'
  BY <1>1, <1>2 DEF AllTracked, Tracked, JoinExact, EnableExact, Blocked
<1>9. \A b \in Barrier : BarrierRoom(b)'
  BY <1>1, <1>2 DEF AllTracked, BarrierRoom, OnBarrier
<1>10. AllTracked'
  BY <1>6, <1>7, <1>8, <1>9 DEF AllTracked, Tracked
<1> QED
  BY <1>1, <1>10, IdleStep

-----------------------------------------------------------------------------
(***************************************************************************)
(* Barriers.                                                               *)
(***************************************************************************)

\* The threads on a barrier can be counted.
LEMMA BarrierFinite ==
  ASSUME NEW b
  PROVE  IsFiniteSet(OnBarrier(b)) /\ Cardinality(OnBarrier(b)) \in Nat
<1>1. IsFiniteSet(Tid)
  BY ConstantsAssumption, FS_Interval DEF Tid
<1>2. OnBarrier(b) \subseteq Tid
  BY DEF OnBarrier
<1>3. IsFiniteSet(OnBarrier(b))
  BY <1>1, <1>2, FS_Subset
<1> QED
  BY <1>3, FS_CardinalityType

\* The program initialises a barrier nobody waits on.
LEMMA BeforeBarrierInitKept ==
  ASSUME TrackInv, NEW t \in Tid, BeforeBarrierInit(t)
  PROVE  Kept'
<1>1. /\ status = "running"
      /\ UNCHANGED <<sem_map, status, pc, call, arg, enable_map>>
      /\ UNCHANGED <<lock_ready_map, lock_wait_map, mutex, sem_ready_map, sem_wait_map, semval,
                     thread_map, finish_map, join_map, joined, curr_id>>
  BY DEF BeforeBarrierInit, Running, launchVars, controlVars, threadVars, lockVars, semVars
<1>2. TypeOK /\ AllTracked
  BY <1>1, RunningFacts
<1>3. PICK b \in Barrier, n \in 1..(MaxTid + 1) :
        OnBarrier(b) = {} /\ barrier_count' = [barrier_count EXCEPT ![b] = n]
  BY DEF BeforeBarrierInit
<1>4. \A c : OnBarrier(c)' = OnBarrier(c)
  BY <1>1 DEF OnBarrier
<1>5. n \in Nat /\ n > 0 /\ n # 0
  BY ConstantsAssumption
<1>6. Cardinality(OnBarrier(b)) = 0
  BY <1>3, FS_EmptySet
<1>7. BarrierRoom(b)'
  <2>1. barrier_count'[b] = n
    BY <1>2, <1>3 DEF TypeOK
  <2> QED
    BY <1>4, <1>5, <1>6, <2>1 DEF BarrierRoom
<1>8. \A c \in Barrier \ {b} : BarrierRoom(c)'
  BY <1>2, <1>3, <1>4 DEF AllTracked, BarrierRoom, TypeOK
<1>9. \A u \in Tid : Tracked(u)'
  <2>1. \A u \in Tid : /\ InLock(u)' <=> InLock(u)
                       /\ BeingReleased(arg[u])' <=> BeingReleased(arg[u])
    BY <1>1 DEF InLock, BeingReleased
  <2>2. \A u \in Tid : LockExact(u)'
    BY <1>1, <1>2, <2>1 DEF AllTracked, Tracked, LockExact
  <2>3. \A u \in Tid : CallExact(u)' /\ SemExact(u)' /\ BarrierExact(u)'
    BY <1>1, <1>2 DEF AllTracked, Tracked, CallExact, SemExact, BarrierExact
  <2>4. \A u \in Tid : JoinExact(u)' /\ EnableExact(u)'
    BY <1>1, <1>2 DEF AllTracked, Tracked, JoinExact, EnableExact, Blocked
  <2> QED
    BY <2>2, <2>3, <2>4 DEF Tracked
<1>10. AllTracked'
  BY <1>7, <1>8, <1>9 DEF AllTracked
<1> QED
  BY <1>1, <1>10, IdleStep

\* What a thread that waits on a barrier is not.
LEMMA OnBarrierFacts ==
  ASSUME TypeOK, NEW u \in Tid, Tracked(u), thread_map[u] # NULL
  PROVE  /\ pc[u] = "paused" /\ call[u] = "point" /\ ~enable_map[u]
         /\ lock_wait_map[u] = NULL /\ sem_wait_map[u] = NULL
<1>1. pc[u] = "paused" /\ call[u] = "point"
  BY DEF Tracked, BarrierExact
<1>2. ~InLock(u)
  BY <1>1 DEF InLock
<1> QED
  BY <1>1, <1>2 DEF Tracked, LockExact, SemExact, EnableExact, Blocked

\* t arrives at a barrier: of the rest only thread_map and enable_map change.
Arrives(t) ==
  /\ Goto(t, "paused", "point", NULL)
  /\ pc[t] = "app"
  /\ UNCHANGED <<lock_ready_map, lock_wait_map, mutex, sem_ready_map, sem_wait_map, semval,
                 barrier_count, finish_map, join_map, joined, curr_id>>

\* What is not about barriers and enable_map stays true.
LEMMA ArrivesKept ==
  ASSUME TypeOK, AllTracked, NEW t \in Tid, Arrives(t)
  PROVE  \A u \in Tid : CallExact(u)' /\ LockExact(u)' /\ SemExact(u)' /\ JoinExact(u)'
<1>1. \A u \in Tid \ {t} : SameControl(u)
  BY DEF Arrives, Goto, TypeOK, SameControl
<1>2. pc'[t] = "paused" /\ call'[t] = "point" /\ arg'[t] = NULL /\ pc[t] = "app"
  BY DEF Arrives, Goto, TypeOK
<1>3. Tracked(t) /\ call[t] = "none"
  BY <1>2 DEF AllTracked, Tracked, CallExact
<1>4. Clean(t)
  BY <1>2, <1>3, CleanOutside
<1>5. ASSUME NEW u \in Tid \ {t}
      PROVE  CallExact(u)' /\ LockExact(u)' /\ SemExact(u)' /\ JoinExact(u)'
  <2>1. Tracked(u) /\ SameControl(u)
    BY <1>1 DEF AllTracked
  <2>2. CallExact(u)'
    BY <2>1 DEF Tracked, CallExact, SameControl
  <2>3. BeingReleased(arg[u]) => BeingReleased(arg[u])'
    BY <1>1, <1>2, <2>1 DEF BeingReleased, SameControl
  <2>4. LockExact(u)'
    BY <2>1, <2>3, KeepLock DEF Tracked, Arrives
  <2>5. SemExact(u)'
    BY <2>1, KeepSem DEF Tracked, Arrives
  <2>6. \A v \in Tid : call[v] = "join" /\ ~finish_map[arg[v]] => call'[v] = "join" /\ arg'[v] = arg[v]
    BY <1>1, <1>3 DEF SameControl
  <2>7. join_map[u] \in Tid \cup {UNJOINED}
    BY DEF TypeOK
  <2>8. JoinExact(u)'
    BY <2>1, <2>6, <2>7, KeepJoin DEF Tracked, Arrives
  <2> QED
    BY <2>2, <2>4, <2>5, <2>8
<1>6. CallExact(t)' /\ ~InLock(t)'
  BY <1>2 DEF CallExact, InLock, DonePC
<1>7. LockExact(t)' /\ SemExact(t)'
  BY <1>2, <1>4, <1>6 DEF LockExact, SemExact, Clean, Arrives
<1>8. join_map[t] # UNJOINED /\ ~finish_map[t] => call'[join_map[t]] = "join" /\ arg'[join_map[t]] = t
  BY <1>1, <1>3 DEF Tracked, JoinExact, SameControl, TypeOK
<1>9. JoinExact(t)'
  BY <1>2, <1>3, <1>8 DEF Tracked, JoinExact, Arrives, DonePC
<1> QED
  BY <1>5, <1>6, <1>7, <1>9

\* The last thread to arrive finds the others there and disabled.
LEMMA OpensTracked ==
  ASSUME TypeOK, AllTracked, NEW t \in Tid, Arrives(t), NEW b \in Barrier,
         enable_map' = [u \in Tid |-> u = t \/ u \in OnBarrier(b) \/ enable_map[u]],
         thread_map' = [u \in Tid |-> IF u \in OnBarrier(b) THEN NULL ELSE thread_map[u]]
  PROVE  AllTracked'
<1>1. \A u \in Tid : CallExact(u)' /\ LockExact(u)' /\ SemExact(u)' /\ JoinExact(u)'
  BY ArrivesKept
<1>2. b # NULL
  BY ConstantsAssumption
<1>3. \A u \in Tid : pc'[u] = (IF u = t THEN "paused" ELSE pc[u]) /\ call'[u] = (IF u = t THEN "point" ELSE call[u])
                     /\ (u # t => arg'[u] = arg[u])
  BY DEF Arrives, Goto, TypeOK
<1>4. ASSUME NEW u \in Tid
      PROVE  BarrierExact(u)' /\ EnableExact(u)'
  <2>1. Tracked(u)
    BY DEF AllTracked
  <2>2. CASE u = t
    <3>1. Clean(t)
      BY <2>1, <2>2, CleanOutside DEF Arrives
    <3>2. thread_map'[t] = NULL /\ enable_map'[t] = TRUE
      BY <3>1 DEF Clean
    <3> QED
      BY <1>3, <2>2, <3>1, <3>2 DEF BarrierExact, EnableExact, Blocked, Clean, Arrives, DonePC
  <2>3. CASE u # t /\ u \in OnBarrier(b)
    <3>1. thread_map'[u] = NULL /\ enable_map'[u] = TRUE
      BY <2>3
    <3>2. thread_map[u] # NULL
      BY <1>2, <2>3 DEF OnBarrier
    <3> QED
      BY <1>3, <2>1, <2>3, <3>1, <3>2, OnBarrierFacts DEF BarrierExact, EnableExact, Blocked, Arrives, DonePC
  <2>4. CASE u # t /\ u \notin OnBarrier(b)
    <3>1. thread_map'[u] = thread_map[u] /\ enable_map'[u] = enable_map[u] /\ SameControl(u)
      BY <1>3, <2>4 DEF TypeOK, SameControl
    <3>2. BarrierExact(u)'
      BY <2>1, <3>1 DEF Tracked, BarrierExact, SameControl
    <3>3. EnableExact(u)'
      BY <2>1, <3>1, KeepEnable DEF Tracked, Arrives
    <3> QED
      BY <3>2, <3>3
  <2> QED
    BY <2>2, <2>3, <2>4
<1>5. \A c \in Barrier : BarrierRoom(c)'
  <2>1. ASSUME NEW c \in Barrier, c # b
        PROVE  OnBarrier(c)' = OnBarrier(c)
    BY <2>1, ConstantsAssumption DEF OnBarrier
  <2>2. OnBarrier(b)' = {}
    BY <1>2 DEF OnBarrier
  <2>3. barrier_count'[b] \in Nat /\ UNCHANGED barrier_count
    BY ConstantsAssumption DEF TypeOK, Arrives
  <2>4. BarrierRoom(b)'
    BY <2>2, <2>3, FS_EmptySet DEF BarrierRoom
  <2> QED
    BY <2>1, <2>3, <2>4 DEF AllTracked, BarrierRoom
<1> QED
  BY <1>1, <1>4, <1>5 DEF AllTracked, Tracked

\* A thread that finds the barrier not full joins those that wait there.
LEMMA BlocksTracked ==
  ASSUME TypeOK, AllTracked, NEW t \in Tid, Arrives(t), NEW b \in Barrier,
         barrier_count[b] # 0, ~(Cardinality(OnBarrier(b)) + 1 >= barrier_count[b]),
         thread_map' = [thread_map EXCEPT ![t] = b],
         enable_map' = [enable_map EXCEPT ![t] = FALSE]
  PROVE  AllTracked'
<1>1. \A u \in Tid : CallExact(u)' /\ LockExact(u)' /\ SemExact(u)' /\ JoinExact(u)'
  BY ArrivesKept
<1>2. b # NULL
  BY ConstantsAssumption
<1>3. pc'[t] = "paused" /\ call'[t] = "point" /\ \A u \in Tid \ {t} : SameControl(u)
  BY DEF Arrives, Goto, TypeOK, SameControl
<1>4. /\ thread_map'[t] = b /\ enable_map'[t] = FALSE
      /\ \A u \in Tid \ {t} : thread_map'[u] = thread_map[u] /\ enable_map'[u] = enable_map[u]
  BY DEF TypeOK
<1>5. BarrierExact(t)' /\ EnableExact(t)'
  BY <1>2, <1>3, <1>4 DEF BarrierExact, EnableExact, Blocked
<1>6. ASSUME NEW u \in Tid \ {t}
      PROVE  BarrierExact(u)' /\ EnableExact(u)'
  <2>1. Tracked(u) /\ SameControl(u)
    BY <1>3 DEF AllTracked
  <2>2. BarrierExact(u)'
    BY <1>4, <2>1 DEF Tracked, BarrierExact, SameControl
  <2>3. EnableExact(u)'
    BY <1>4, <2>1, KeepEnable DEF Tracked, Arrives
  <2> QED
    BY <2>2, <2>3
<1>7. Clean(t)
  BY CleanOutside DEF AllTracked, Arrives
<1>8. \A c \in Barrier : BarrierRoom(c)'
  <2>1. ASSUME NEW c \in Barrier, c # b
        PROVE  OnBarrier(c)' = OnBarrier(c)
    <3>1. c # NULL
      BY ConstantsAssumption
    <3> QED
      BY <1>4, <1>7, <2>1, <3>1 DEF OnBarrier, Clean
  <2>2. OnBarrier(b)' = OnBarrier(b) \cup {t} /\ t \notin OnBarrier(b)
    BY <1>2, <1>4, <1>7 DEF OnBarrier, Clean
  <2>3. Cardinality(OnBarrier(b)') = Cardinality(OnBarrier(b)) + 1
    BY <2>2, BarrierFinite, FS_AddElement
  <2>4. UNCHANGED barrier_count /\ barrier_count[b] \in Nat /\ Cardinality(OnBarrier(b)) \in Nat
    BY BarrierFinite, ConstantsAssumption DEF TypeOK, Arrives
  <2>5. BarrierRoom(b)'
    BY <2>3, <2>4 DEF BarrierRoom
  <2> QED
    BY <2>1, <2>4, <2>5 DEF AllTracked, BarrierRoom
<1> QED
  BY <1>1, <1>5, <1>6, <1>8 DEF AllTracked, Tracked

\* pthread_barrier_wait: the assertions of the thread that opens it hold.
LEMMA BeforeBarrierWaitKept ==
  ASSUME TrackInv, NEW t \in Tid, BeforeBarrierWait(t)
  PROVE  Kept'
<1>1. status = "running" /\ pc[t] = "app" /\ Goto(t, "paused", "point", NULL)
  BY DEF BeforeBarrierWait, Running
<1>2. TypeOK /\ AllTracked /\ HandshakeInv
  BY <1>1, RunningFacts
<1>3. Arrives(t)
  BY <1>1 DEF BeforeBarrierWait, Arrives, threadVars, lockVars, semVars
<1>4. CASE Halt("misuse")
  BY <1>4, Ends DEF Halt
<1>5. ASSUME NEW b \in Barrier, barrier_count[b] # 0,
             IF Cardinality(OnBarrier(b)) + 1 >= barrier_count[b]
             THEN BarrierOpens(t, b) ELSE BarrierBlocks(t, b)
      PROVE  Kept'
  <2>1. AllTracked' /\ Schedule
    <3>1. CASE Cardinality(OnBarrier(b)) + 1 >= barrier_count[b]
      <4>1. BarrierRoom(b) /\ b # NULL
        BY <1>2, ConstantsAssumption DEF AllTracked
      <4>2. Cardinality(OnBarrier(b)) \in Nat /\ barrier_count[b] \in Nat
        BY <1>2, BarrierFinite, ConstantsAssumption DEF TypeOK
      <4>3. Cardinality(OnBarrier(b)) + 1 = barrier_count[b]
        BY <1>5, <3>1, <4>1, <4>2 DEF BarrierRoom
      <4>4. \A u \in OnBarrier(b) : ~enable_map[u]
        BY <1>2, <4>1, OnBarrierFacts DEF AllTracked, OnBarrier
      <4>5. BarrierOpens(t, b)
        BY <1>5, <3>1
      <4>6. Schedule
        BY <4>3, <4>4, <4>5 DEF BarrierOpens
      <4>7. AllTracked'
        BY <1>2, <1>3, <4>5, OpensTracked DEF BarrierOpens
      <4> QED
        BY <4>6, <4>7
    <3>2. CASE ~(Cardinality(OnBarrier(b)) + 1 >= barrier_count[b])
      <4>1. BarrierBlocks(t, b)
        BY <1>5, <3>2
      <4> QED
        BY <1>2, <1>3, <1>5, <3>2, <4>1, BlocksTracked DEF BarrierBlocks
    <3> QED
      BY <3>1, <3>2
  <2>2. GivesUp(t, "paused")
    BY <1>1, <2>1 DEF BeforeBarrierWait, GivesUp, Goto, ActivePC, threadVars
  <2>3. enable_map' \in [Tid -> BOOLEAN]
    BY <1>2, <1>5 DEF BarrierOpens, BarrierBlocks, TypeOK
  <2>4. Runs'
    BY <1>1, <1>2, <2>2, <2>3, GivesUpRuns DEF PC, LeavingPC
  <2> QED
    BY <2>1, <2>4 DEF Kept
<1> QED
  BY <1>4, <1>5 DEF BeforeBarrierWait

-----------------------------------------------------------------------------
(***************************************************************************)
(* Threads.                                                                *)
(***************************************************************************)

\* The entries that initializeThreadData resets for the child are as new.
LEMMA BeforeCreateKept ==
  ASSUME TrackInv, NEW t \in Tid, BeforeCreate(t)
  PROVE  Kept'
<1> DEFINE child == curr_id + 1
<1>1. status = "running" /\ status' = "running" /\ pc[t] = "app" /\ curr_id < MaxTid /\ curr_id' = child
  BY DEF BeforeCreate, Running
<1>2. TypeOK /\ AllTracked /\ Tracked(t) /\ Runs
  BY <1>1, RunningFacts
<1>3. child \in Tid /\ child > curr_id /\ curr_id \in Int /\ \A u \in Tid : u \in Int
  BY <1>1, <1>2, ConstantsAssumption DEF TypeOK, Tid
<1>4. Tracked(child) /\ pc[child] = "none" /\ child # t
  <2>1. Tracked(child)
    BY <1>2, <1>3 DEF AllTracked
  <2>2. pc[child] = "none"
    BY <1>3, <2>1 DEF Tracked, JoinExact
  <2> QED
    BY <1>1, <2>1, <2>2
<1>5. Clean(child) /\ call[child] = "none"
  BY <1>2, <1>3, <1>4, CleanOutside DEF Tracked, CallExact
<1>6. finish_map[child] = FALSE /\ join_map[child] = UNJOINED
  BY <1>2, <1>3, <1>4 DEF Tracked, JoinExact, DonePC, TypeOK
<1>7. UNCHANGED <<finish_map, join_map>>
  BY <1>2, <1>3, <1>6 DEF BeforeCreate, TypeOK
<1>8. UNCHANGED <<lock_wait_map, lock_ready_map, sem_wait_map, sem_ready_map>>
  BY <1>2, <1>3, <1>5 DEF BeforeCreate, TypeOK, Clean
<1>9. UNCHANGED <<mutex, semval, thread_map, barrier_count, joined, call, arg>>
  BY DEF BeforeCreate, barrierVars
<1>10. /\ \A u \in Tid : pc'[u] = IF u = t THEN "creating" ELSE IF u = child THEN "starting" ELSE pc[u]
       /\ \A u \in Tid : enable_map'[u] = IF u = child THEN TRUE ELSE enable_map[u]
       /\ \A u \in Tid : sem_map'[u] = IF u = child THEN 0 ELSE sem_map[u]
  BY <1>2, <1>3, <1>4 DEF BeforeCreate, TypeOK
<1>11. call[t] = "none" /\ enable_map[t] = TRUE
  BY <1>1, <1>2, AppEnabled DEF Tracked, CallExact, ActivePC
<1>12. ASSUME NEW u \in Tid
       PROVE  CallExact(u)' /\ SemExact(u)' /\ BarrierExact(u)'
  <2>1. Tracked(u)
    BY <1>2 DEF AllTracked
  <2>2. CallExact(u)'
    BY <1>5, <1>9, <1>10, <1>11, <2>1 DEF Tracked, CallExact, DonePC
  <2>3. SemExact(u)'
    BY <1>8, <1>9, <2>1 DEF Tracked, SemExact
  <2>4. BarrierExact(u)'
    BY <1>1, <1>4, <1>9, <1>10, <2>1 DEF Tracked, BarrierExact
  <2> QED
    BY <2>2, <2>3, <2>4
<1>13. ASSUME NEW u \in Tid
       PROVE  LockExact(u)'
  <2>1. Tracked(u)
    BY <1>2 DEF AllTracked
  <2>2. InLock(u)' <=> InLock(u)
    BY <1>1, <1>4, <1>5, <1>9, <1>10, <1>11 DEF InLock
  <2>3. \A v \in Tid : pc'[v] = "unlocking" <=> pc[v] = "unlocking"
    BY <1>1, <1>4, <1>10
  <2>4. BeingReleased(arg[u])' <=> BeingReleased(arg[u])
    BY <1>9, <2>3 DEF BeingReleased
  <2> QED
    BY <1>8, <1>9, <2>1, <2>2, <2>3, <2>4 DEF Tracked, LockExact
<1>14. ASSUME NEW u \in Tid
       PROVE  JoinExact(u)'
  <2>1. Tracked(u)
    BY <1>2 DEF AllTracked
  <2>2. pc'[u] \in DonePC <=> pc[u] \in DonePC
    BY <1>1, <1>4, <1>10 DEF DonePC
  <2>3. pc'[u] = "none" <=> pc[u] = "none" /\ u # child
    BY <1>1, <1>4, <1>10
  <2>4. u > child <=> u > curr_id /\ u # child
    BY <1>3
  <2>5. u <= curr_id => u <= child
    BY <1>3
  <2> QED
    BY <1>1, <1>7, <1>9, <2>1, <2>2, <2>3, <2>4, <2>5 DEF Tracked, JoinExact
<1>15. ASSUME NEW u \in Tid
       PROVE  EnableExact(u)'
  <2>1. Tracked(u)
    BY <1>2 DEF AllTracked
  <2>2. CASE u = child
    BY <1>4, <1>5, <1>8, <1>9, <1>10, <2>2 DEF EnableExact, Blocked, Clean, DonePC
  <2>3. CASE u = t
    BY <1>1, <1>4, <1>7, <1>8, <1>9, <1>10, <1>11, <2>1, <2>3 DEF Tracked, EnableExact, Blocked, DonePC
  <2>4. CASE u # child /\ u # t
    BY <1>7, <1>8, <1>9, <1>10, <2>1, <2>4 DEF Tracked, EnableExact, Blocked
  <2> QED
    BY <2>2, <2>3, <2>4
<1>16. \A b \in Barrier : BarrierRoom(b)'
  BY <1>2, <1>9 DEF AllTracked, BarrierRoom, OnBarrier
<1>17. AllTracked'
  BY <1>12, <1>13, <1>14, <1>15, <1>16 DEF AllTracked, Tracked
<1>18. Runs'
  <2>1. \A u \in Tid : \/ pc'[u] \in ActivePC => pc[u] \in ActivePC
                       \/ enable_map'[u]
    BY <1>10, <1>11
  <2>2. \A u \in Tid : sem_map'[u] > 0 => sem_map[u] > 0
    BY <1>10
  <2>3. \A u \in Tid : enable_map[u] => enable_map'[u]
    BY <1>10
  <2> QED
    BY <1>1, <1>2, <2>1, <2>2, <2>3, KeepsRunning
<1> QED
  BY <1>17, <1>18 DEF Kept

\* A thread finishes: its joiner, which waited for nothing else, is enabled.
LEMMA FinalizeThreadKept ==
  ASSUME TrackInv, NEW t \in Tid, Running(t), finalizeThread(t)
  PROVE  Kept'
<1>1. status = "running" /\ pc[t] = "app" /\ Goto(t, "finishing", "none", NULL) /\ Schedule
  BY DEF Running, finalizeThread
<1>2. TypeOK /\ AllTracked /\ Tracked(t) /\ HandshakeInv
  BY <1>1, RunningFacts
<1>3. Clean(t) /\ call[t] = "none"
  BY <1>1, <1>2, CleanOutside DEF Tracked, CallExact
<1>4. UNCHANGED <<curr_id, join_map, joined, lock_ready_map, lock_wait_map, mutex, sem_ready_map,
                  sem_wait_map, semval, thread_map, barrier_count>>
  BY DEF finalizeThread, lockVars, semVars, barrierVars
<1>5. /\ pc'[t] = "finishing" /\ call'[t] = "none" /\ arg'[t] = NULL
      /\ \A u \in Tid \ {t} : SameControl(u)
  BY <1>1, <1>2 DEF Goto, TypeOK, SameControl
<1>6. finish_map'[t] = TRUE /\ \A u \in Tid \ {t} : finish_map'[u] = finish_map[u]
  BY <1>2 DEF finalizeThread, TypeOK
<1>7. ~finish_map[t]
  BY <1>1, <1>2 DEF Tracked, JoinExact, DonePC
<1>8. join_map[t] # UNJOINED => join_map[t] \in Tid /\ call[join_map[t]] = "join" /\ arg[join_map[t]] = t
  BY <1>2, <1>7 DEF Tracked, JoinExact, TypeOK
<1>9. join_map[t] # t
  BY <1>3, <1>8 DEF UNJOINED, Tid
<1>10. /\ enable_map' \in [Tid -> BOOLEAN] /\ enable_map'[t] = FALSE
       /\ \A u \in Tid \ {t} : enable_map'[u] = IF u = join_map[t] THEN TRUE ELSE enable_map[u]
  <2>1. CASE join_map[t] = UNJOINED
    <3>1. enable_map' = [enable_map EXCEPT ![t] = FALSE] /\ \A u \in Tid : u # join_map[t]
      BY <2>1 DEF finalizeThread, UNJOINED, Tid
    <3> QED
      BY <1>2, <3>1 DEF TypeOK
  <2>2. CASE join_map[t] # UNJOINED
    <3>1. enable_map' = [[enable_map EXCEPT ![t] = FALSE] EXCEPT ![join_map[t]] = TRUE]
      BY <2>2 DEF finalizeThread
    <3> QED
      BY <1>2, <1>8, <1>9, <2>2, <3>1 DEF TypeOK
  <2> QED
    BY <2>1, <2>2
<1>11. ASSUME NEW u \in Tid \ {t}
       PROVE  Tracked(u)'
  <2>1. Tracked(u) /\ SameControl(u)
    BY <1>2, <1>5 DEF AllTracked
  <2>2. CallExact(u)' /\ BarrierExact(u)'
    BY <1>4, <2>1 DEF Tracked, CallExact, BarrierExact, SameControl
  <2>3. BeingReleased(arg[u]) => BeingReleased(arg[u])'
    BY <1>1, <1>5, <2>1 DEF BeingReleased, SameControl
  <2>4. LockExact(u)' /\ SemExact(u)'
    BY <1>4, <2>1, <2>3, KeepLock, KeepSem DEF Tracked
  <2>5. call[u] = "join" => arg[u] \in Tid
    BY <1>2 DEF TypeOK, ArgOK
  <2>6. JoinExact(u)'
    <3>1. join_map[u] # UNJOINED /\ ~finish_map[u]
            => call'[join_map[u]] = "join" /\ arg'[join_map[u]] = u
      BY <1>2, <1>3, <1>5, <2>1 DEF Tracked, JoinExact, SameControl, TypeOK
    <3>2. call[u] = "join" => finish_map'[arg[u]] \/ join_map[arg[u]] = u
      BY <1>6, <2>1, <2>5 DEF Tracked, JoinExact
    <3>3. pc'[u] = pc[u] /\ call'[u] = call[u] /\ arg'[u] = arg[u]
      BY <2>1 DEF SameControl
    <3> QED
      BY <1>4, <1>6, <2>1, <3>1, <3>2, <3>3 DEF Tracked, JoinExact
  <2>7. EnableExact(u)'
    <3>1. CASE call[u] = "join" /\ arg[u] = t
      <4>1. join_map[t] = u
        BY <1>7, <2>1, <3>1 DEF Tracked, JoinExact
      <4>2. enable_map'[u] = TRUE /\ finish_map'[arg[u]] = TRUE
        BY <1>6, <1>10, <3>1, <4>1
      <4>3. pc[u] \notin {"none"} \cup DonePC /\ ~InLock(u) /\ thread_map[u] = NULL
        BY <2>1, <3>1 DEF Tracked, CallExact, InLock, BarrierExact
      <4>4. lock_wait_map[u] = NULL /\ sem_wait_map[u] = NULL
        BY <2>1, <3>1, <4>3 DEF Tracked, LockExact, SemExact
      <4> QED
        BY <1>4, <2>1, <3>1, <4>2, <4>3, <4>4 DEF EnableExact, Blocked, SameControl
    <3>2. CASE ~(call[u] = "join" /\ arg[u] = t)
      <4>1. u # join_map[t]
        BY <1>8, <3>2 DEF UNJOINED, Tid
      <4>2. enable_map'[u] = enable_map[u] /\ (call[u] = "join" => finish_map'[arg[u]] = finish_map[arg[u]])
        BY <1>6, <1>10, <2>5, <3>2, <4>1
      <4> QED
        BY <1>4, <2>1, <4>2, KeepEnable DEF Tracked
    <3> QED
      BY <3>1, <3>2
  <2> QED
    BY <2>2, <2>4, <2>6, <2>7 DEF Tracked
<1>12. Tracked(t)'
  <2>1. CallExact(t)' /\ ~InLock(t)'
    BY <1>5 DEF CallExact, InLock, DonePC
  <2>2. LockExact(t)' /\ SemExact(t)' /\ BarrierExact(t)'
    BY <1>3, <1>4, <1>5, <2>1 DEF LockExact, SemExact, BarrierExact, Clean
  <2>3. JoinExact(t)'
    BY <1>1, <1>2, <1>4, <1>5, <1>6 DEF Tracked, JoinExact, DonePC
  <2>4. EnableExact(t)'
    BY <1>5, <1>10 DEF EnableExact, DonePC
  <2> QED
    BY <2>1, <2>2, <2>3, <2>4 DEF Tracked
<1>13. \A b \in Barrier : BarrierRoom(b)'
  BY <1>2, <1>4 DEF AllTracked, BarrierRoom, OnBarrier
<1>14. AllTracked'
  BY <1>11, <1>12, <1>13 DEF AllTracked
<1>15. GivesUp(t, "finishing")
  BY <1>1 DEF finalizeThread, GivesUp, Goto, ActivePC
<1>16. Runs'
  BY <1>1, <1>2, <1>10, <1>15, GivesUpRuns DEF PC, LeavingPC
<1> QED
  BY <1>14, <1>16 DEF Kept

\* pthread_join: nobody else waits for the target, so the assertion of
\* registerThreadJoin holds.
LEMMA BeforeJoinKept ==
  ASSUME TrackInv, NEW t \in Tid, BeforeJoin(t)
  PROVE  Kept'
<1>1. status = "running" /\ pc[t] = "app"
  BY DEF BeforeJoin, Running
<1>2. TypeOK /\ AllTracked /\ Tracked(t) /\ HandshakeInv
  BY <1>1, RunningFacts
<1>3. Clean(t) /\ call[t] = "none"
  BY <1>1, <1>2, CleanOutside DEF Tracked, CallExact
<1>4. PICK u \in Tid \ ({t} \cup joined) :
        /\ u <= curr_id /\ joined' = joined \cup {u}
        /\ enable_map' = [enable_map EXCEPT ![t] = finish_map[u]]
        /\ join_map' = IF finish_map[u] THEN join_map ELSE [join_map EXCEPT ![u] = t]
        /\ UNCHANGED <<curr_id, finish_map, lockVars, semVars, condVars, barrierVars>>
        /\ IF finish_map[u] \/ join_map[u] = UNJOINED THEN Schedule ELSE Halt("assert")
        /\ Goto(t, "paused", "join", u)
  BY DEF BeforeJoin
<1>5. join_map[u] = UNJOINED
  BY <1>2 DEF AllTracked, Tracked, JoinExact
<1>6. Schedule
  BY <1>4, <1>5
<1>7. UNCHANGED <<curr_id, finish_map, lock_ready_map, lock_wait_map, mutex, sem_ready_map,
                  sem_wait_map, semval, thread_map, barrier_count>>
  BY <1>4 DEF lockVars, semVars, barrierVars
<1>8. /\ pc'[t] = "paused" /\ call'[t] = "join" /\ arg'[t] = u
      /\ \A v \in Tid \ {t} : SameControl(v)
  BY <1>2, <1>4 DEF Goto, TypeOK, SameControl
<1>9. /\ enable_map'[t] = finish_map[u] /\ enable_map' \in [Tid -> BOOLEAN]
      /\ \A v \in Tid \ {t} : enable_map'[v] = enable_map[v]
  BY <1>2, <1>4 DEF TypeOK
<1>10. /\ join_map'[u] = IF finish_map[u] THEN UNJOINED ELSE t
       /\ \A v \in Tid \ {u} : join_map'[v] = join_map[v]
  BY <1>2, <1>4, <1>5 DEF TypeOK
<1>11. \A v \in Tid : join_map[v] # UNJOINED /\ ~finish_map[v]
                        => call'[join_map[v]] = "join" /\ arg'[join_map[v]] = v
  BY <1>2, <1>3, <1>8 DEF AllTracked, Tracked, JoinExact, SameControl, TypeOK
<1>12. ASSUME NEW v \in Tid
       PROVE  /\ v \in joined' => v <= curr_id'
              /\ join_map'[v] # UNJOINED =>
                   v \in joined' /\ (~finish_map'[v] => call'[join_map'[v]] = "join" /\ arg'[join_map'[v]] = v)
  <2>1. CASE v = u
    BY <1>4, <1>7, <1>8, <1>10, <2>1
  <2>2. CASE v # u
    BY <1>2, <1>4, <1>7, <1>10, <1>11, <2>2 DEF AllTracked, Tracked, JoinExact
  <2> QED
    BY <2>1, <2>2
<1>13. ASSUME NEW v \in Tid \ {t}
       PROVE  Tracked(v)'
  <2>1. Tracked(v) /\ SameControl(v)
    BY <1>2, <1>8 DEF AllTracked
  <2>2. CallExact(v)' /\ BarrierExact(v)'
    BY <1>7, <2>1 DEF Tracked, CallExact, BarrierExact, SameControl
  <2>3. BeingReleased(arg[v]) => BeingReleased(arg[v])'
    BY <1>1, <1>8, <2>1 DEF BeingReleased, SameControl
  <2>4. LockExact(v)' /\ SemExact(v)'
    BY <1>7, <2>1, <2>3, KeepLock, KeepSem DEF Tracked
  <2>5. call[v] = "join" => arg[v] \in Tid /\ arg[v] \in joined /\ (finish_map[arg[v]] \/ join_map[arg[v]] = v)
    BY <1>2, <2>1 DEF TypeOK, ArgOK, Tracked, JoinExact
  <2>6. call[v] = "join" => arg[v] \in joined' /\ (finish_map[arg[v]] \/ join_map'[arg[v]] = v)
    BY <1>4, <1>10, <2>5
  <2>7. JoinExact(v)'
    BY <1>7, <1>12, <2>1, <2>6 DEF Tracked, JoinExact, SameControl
  <2>8. EnableExact(v)'
    BY <1>7, <1>9, <2>1, KeepEnable DEF Tracked
  <2> QED
    BY <2>2, <2>4, <2>7, <2>8 DEF Tracked
<1>14. Tracked(t)'
  <2>1. CallExact(t)' /\ ~InLock(t)'
    BY <1>8 DEF CallExact, InLock, DonePC
  <2>2. LockExact(t)' /\ SemExact(t)' /\ BarrierExact(t)'
    BY <1>3, <1>7, <1>8, <2>1 DEF LockExact, SemExact, BarrierExact, Clean
  <2>3. u \in joined' /\ (finish_map[u] \/ join_map'[u] = t)
    BY <1>4, <1>10
  <2>4. JoinExact(t)'
    BY <1>1, <1>2, <1>7, <1>8, <1>12, <2>3 DEF Tracked, JoinExact, DonePC
  <2>5. EnableExact(t)'
    BY <1>3, <1>7, <1>8, <1>9 DEF EnableExact, Blocked, Clean, DonePC
  <2> QED
    BY <2>1, <2>2, <2>4, <2>5 DEF Tracked
<1>15. \A b \in Barrier : BarrierRoom(b)'
  BY <1>2, <1>7 DEF AllTracked, BarrierRoom, OnBarrier
<1>16. AllTracked'
  BY <1>13, <1>14, <1>15 DEF AllTracked
<1>17. GivesUp(t, "paused")
  BY <1>1, <1>4, <1>6 DEF GivesUp, Goto, ActivePC
<1>18. Runs'
  BY <1>1, <1>2, <1>9, <1>17, GivesUpRuns DEF PC, LeavingPC
<1> QED
  BY <1>16, <1>18 DEF Kept

-----------------------------------------------------------------------------
(***************************************************************************)
(* The invariant is inductive.                                             *)
(***************************************************************************)

\* Steps that mark an object as destroyed, or no longer so.
LEMMA MarkKept ==
  ASSUME TrackInv, status = "running",
         UNCHANGED <<objectVars, sem_map, status, pc, call, arg, enable_map>>
  PROVE  Kept'
<1>1. AllTracked'
  BY RunningFacts, UntouchedTracked
<1> QED
  BY <1>1, IdleStep

\* Every call of the application.
LEMMA AppStepKept ==
  ASSUME TrackInv, NEW t \in Tid, AppStep(t)
  PROVE  Kept'
<1>1. CASE MyMemoryAccess(t) \/ SimulateSleep(t) \/ thrilleCheckpoint(t)
  BY <1>1, SchedPointKept DEF MyMemoryAccess, SimulateSleep, thrilleCheckpoint
<1>2. CASE thrilleSchedPoint(t)
  <2>1. enable_map[t] = TRUE
    BY <1>2, AppEnabled DEF thrilleSchedPoint, Running, ActivePC
  <2> QED
    BY <1>2, <2>1, SchedPointKept DEF thrilleSchedPoint
<1>3. CASE ProgramError(t) \/ InvalidMutexFault(t)
  BY <1>3, Ends DEF ProgramError, InvalidMutexFault, Halt
<1>4. CASE BeforeCreate(t)
  BY <1>4, BeforeCreateKept
<1>5. CASE ThreadFinish(t) \/ SimulateExit(t)
  BY <1>5, FinalizeThreadKept DEF ThreadFinish, SimulateExit
<1>6. CASE BeforeJoin(t)
  BY <1>6, BeforeJoinKept
<1>7. CASE BeforeMutexLock(t)
  BY <1>7, BeforeMutexLockKept
<1>8. CASE BeforeMutexTrylock(t)
  <2>1. status = "running" /\ pc[t] = "app" /\ Schedule
        /\ enable_map' = [enable_map EXCEPT ![t] = TRUE]
    BY <1>8 DEF BeforeMutexTrylock, Running
  <2>2. PICK m \in Mutex : Goto(t, "paused", "trylock", m)
    BY <1>8 DEF BeforeMutexTrylock
  <2>3. UNCHANGED objectVars
    BY <1>8 DEF BeforeMutexTrylock, objectVars, threadVars, lockVars, semVars, barrierVars
  <2> QED
    BY <2>1, <2>2, <2>3, PointStep DEF FreshPlace
<1>9. CASE MutexUnlock(t)
  BY <1>9, MutexUnlockKept
<1>10. CASE SimulateMutexDestroy(t) \/ BeforeMutexInit(t)
  BY <1>10, SimulateMutexDestroyKept, BeforeMutexInitKept
<1>11. CASE SimulateCondWait(t) \/ SimulateCondTimedwait(t)
  BY <1>11, EnterWaitKept DEF SimulateCondWait, SimulateCondTimedwait
<1>12. CASE BeforeCondSignal(t, "signal") \/ BeforeCondSignal(t, "broadcast")
  BY <1>12, BeforeCondSignalKept
<1>13. CASE SimulateCondDestroy(t) \/ BeforeCondInit(t)
  BY <1>13, MarkKept DEF SimulateCondDestroy, BeforeCondInit, Running, objectVars, threadVars,
                         lockVars, semVars, barrierVars, launchVars, controlVars
<1>14. CASE BeforeSemWait(t) \/ SimulateSemPost(t)
  BY <1>14, BeforeSemWaitKept, SimulateSemPostKept
<1>15. CASE SimulateSemDestroy(t)
  BY <1>15, MarkKept DEF SimulateSemDestroy, Running, objectVars, threadVars,
                         lockVars, semVars, barrierVars, launchVars, controlVars
<1>16. CASE BeforeSemInit(t)
  BY <1>16, BeforeSemInitKept
<1>17. CASE BeforeBarrierInit(t) \/ BeforeBarrierWait(t)
  BY <1>17, BeforeBarrierInitKept, BeforeBarrierWaitKept
<1>18. CASE SimulateBarrierDestroy(t)
  BY <1>18, MarkKept DEF SimulateBarrierDestroy, Running, objectVars, threadVars,
                         lockVars, semVars, barrierVars, launchVars, controlVars
<1> QED
  BY <1>1, <1>2, <1>3, <1>4, <1>5, <1>6, <1>7, <1>8, <1>9, <1>10, <1>11, <1>12,
     <1>13, <1>14, <1>15, <1>16, <1>17, <1>18 DEF AppStep

\* The scheduling points at the end of pthread_create and of a signal.
LEMMA LateSchedPointKept ==
  ASSUME TrackInv, NEW t \in Tid, AfterCreate(t) \/ SignalEnd(t)
  PROVE  Kept'
<1>1. /\ status = "running" /\ pc[t] \in {"creating", "sigend"} /\ Schedule
      /\ Goto(t, "paused", "point", NULL)
  BY DEF AfterCreate, SignalEnd
<1>2. UNCHANGED objectVars
  BY DEF AfterCreate, SignalEnd, objectVars, threadVars, lockVars, semVars, barrierVars
<1>3. enable_map' = [enable_map EXCEPT ![t] = TRUE]
  BY <1>1, AppEnabled DEF AfterCreate, SignalEnd, ActivePC
<1> QED
  BY <1>1, <1>2, <1>3, PointStep DEF FreshPlace

\* Every step of the library inside a call.
LEMMA LibStepKept ==
  ASSUME PrivateCleanup, TrackInv, NEW t \in Tid, LibStep(t)
  PROVE  Kept'
<1>1. CASE pauseThread(t)
  BY <1>1, PauseThreadKept
<1>2. CASE AfterCreate(t) \/ SignalEnd(t)
  BY <1>2, LateSchedPointKept
<1>3. CASE ThreadStart(t)
  BY <1>3, ThreadStartKept
<1>4. CASE JoinReturns(t)
  BY <1>4, JoinReturnsKept
<1>5. CASE CleanupUnlock(t) \/ ThreadDies(t)
  BY <1>5, CleanupKept
<1>6. CASE SimulateMutexLock(t)
  BY <1>6, SimulateMutexLockKept
<1>7. CASE SimulateMutexTrylock(t)
  BY <1>7, SimulateMutexTrylockKept
<1>8. CASE AfterMutexUnlock(t)
  BY <1>8, AfterMutexUnlockKept
<1>9. CASE waitPauseThread(t) \/ LeaveCond(t) \/ signalThreadReady(t)
  BY <1>9, LeavingKept
<1>10. CASE BeforeRelock(t)
  BY <1>10, BeforeRelockKept
<1>11. CASE TimedwaitEnd(t)
  BY <1>11, TimedwaitEndKept
<1>12. CASE scheduleThreadWaitingOnCond(t)
  BY <1>12, ScheduleWaitingKept
<1>13. CASE waitThreadReady(t)
  BY <1>13, WaitThreadReadyKept
<1>14. CASE SimulateSemWait(t)
  BY <1>14, SimulateSemWaitKept
<1> QED
  BY <1>1, <1>2, <1>3, <1>4, <1>5, <1>6, <1>7, <1>8, <1>9, <1>10, <1>11, <1>12,
     <1>13, <1>14 DEF LibStep

\* When main returns it is not finished, so checkForDanglingThreads passes.
LEMMA MainReturnsKept ==
  ASSUME TrackInv, MainReturns
  PROVE  Kept'
<1>1. status = "running" /\ pc[0] = "app" /\ 0 \in Tid
  BY ConstantsAssumption DEF MainReturns, Running, Tid
<1>2. ~finish_map[0]
  BY <1>1, RunningFacts DEF Tracked, JoinExact, DonePC
<1> QED
  BY <1>2, Ends DEF MainReturns, Halt

\* Nothing happens any more.
LEMMA StutterKept ==
  ASSUME TrackInv, UNCHANGED vars
  PROVE  Kept'
<1>1. UNCHANGED <<objectVars, pc, call, arg, enable_map, sem_map, status>>
  BY DEF vars, objectVars, threadVars, lockVars, semVars, barrierVars, launchVars, controlVars
<1>2. status \in {"running", "deadlock"} => AllTracked'
  BY <1>1, UntouchedTracked DEF TrackInv
<1> QED
  BY <1>1, <1>2 DEF Kept, Runs, RunsEnabled, Stuck, NoInternalAssert, TrackInv

\* At first the main thread is alone, in application code.
LEMMA TrackInit == Init => TrackInv
<1> SUFFICES ASSUME Init PROVE TrackInv
  OBVIOUS
<1>1. HandshakeInv /\ status = "running" /\ 0 \in Tid
  BY HandshakeInit, ConstantsAssumption DEF Init, Tid
<1>2. \A t \in Tid : /\ pc[t] = (IF t = 0 THEN "app" ELSE "none") /\ call[t] = "none"
                     /\ enable_map[t] = (t = 0) /\ finish_map[t] = FALSE /\ sem_map[t] = 0
                     /\ join_map[t] = UNJOINED /\ thread_map[t] = NULL
                     /\ lock_wait_map[t] = NULL /\ lock_ready_map[t] = NULL
                     /\ sem_wait_map[t] = NULL /\ sem_ready_map[t] = NULL
  BY DEF Init
<1>3. curr_id = 0 /\ joined = {} /\ \A t \in Tid : t > 0 <=> t # 0
  BY ConstantsAssumption DEF Init, Tid
<1>4. ASSUME NEW t \in Tid
      PROVE  Tracked(t)
  <2>1. CallExact(t) /\ ~InLock(t)
    BY <1>2 DEF CallExact, InLock
  <2>2. LockExact(t) /\ SemExact(t) /\ BarrierExact(t)
    BY <1>2, <2>1 DEF LockExact, SemExact, BarrierExact
  <2>3. JoinExact(t)
    BY <1>2, <1>3 DEF JoinExact, DonePC
  <2>4. EnableExact(t)
    BY <1>2 DEF EnableExact, Blocked, DonePC
  <2> QED
    BY <2>1, <2>2, <2>3, <2>4 DEF Tracked
<1>5. \A b \in Barrier : BarrierRoom(b)
  <2>1. \A b \in Barrier : barrier_count[b] = 0 /\ b # NULL
    BY ConstantsAssumption DEF Init
  <2> QED
    BY <1>2, <2>1 DEF BarrierRoom, OnBarrier
<1>6. \A t \in Tid : RunsEnabled(t)
  <2>1. enable_map[0] = TRUE
    BY <1>1, <1>2
  <2>2. \A t \in Tid : sem_map[t] = 0 /\ (pc[t] \in ActivePC => t = 0)
    BY <1>2 DEF ActivePC
  <2> QED
    BY <2>1, <2>2 DEF RunsEnabled
<1>7. AllTracked
  BY <1>4, <1>5 DEF AllTracked
<1>8. status # "deadlock" /\ NoInternalAssert
  BY <1>1 DEF NoInternalAssert
<1> QED
  BY <1>1, <1>6, <1>7, <1>8 DEF TrackInv

\* Every step keeps the maps exact.
LEMMA TrackNext ==
  ASSUME PrivateCleanup
  PROVE  TrackInv /\ [Next]_vars => TrackInv'
<1> SUFFICES ASSUME TrackInv, [Next]_vars PROVE TrackInv'
  OBVIOUS
<1>1. HandshakeInv'
  BY HandshakeNext DEF TrackInv
<1>2. Kept'
  <2>1. ASSUME NEW t \in Tid, AppStep(t) PROVE Kept'
    BY <2>1, AppStepKept
  <2>2. ASSUME NEW t \in Tid, LibStep(t) PROVE Kept'
    BY <2>2, LibStepKept
  <2>3. ASSUME NEW t \in Tid, CleanupLock(t) PROVE Kept'
    BY <2>3, CleanupKept
  <2>4. CASE MainReturns
    BY <2>4, MainReturnsKept
  <2>5. CASE UNCHANGED vars
    BY <2>5, StutterKept
  <2> QED
    BY <2>1, <2>2, <2>3, <2>4, <2>5 DEF Next, Ended
<1> QED
  BY <1>1, <1>2 DEF TrackInv, Kept, Runs

-----------------------------------------------------------------------------
(***************************************************************************)
(* What the tracker promises.                                              *)
(***************************************************************************)

\* Inside a call, a thread is enabled if and only if its call could complete.
LEMMA InCallExact ==
  ASSUME TypeOK, AllTracked, NEW t \in Tid, pc[t] \in InCallPC, ~LocksDestroyed(t)
  PROVE  enable_map[t] = CanProceed(t) \/ (~enable_map[t] /\ BeingReleased(arg[t]))
<1>1. Tracked(t) /\ enable_map[t] \in BOOLEAN
  BY DEF AllTracked, TypeOK
<1>2. pc[t] \notin {"none"} \cup DonePC
  BY DEF InCallPC, DonePC
<1>3. enable_map[t] <=> ~Blocked(t)
  BY <1>1, <1>2 DEF Tracked, EnableExact
<1>4. CASE pc[t] = "cwait"
  <2>1. call[t] \in {"condwait", "timedwait"}
    BY <1>4 DEF TypeOK, ArgOK
  <2>2. Clean(t)
    BY <1>1, <1>4, CleanOutside
  <2> QED
    BY <1>1, <1>3, <1>4, <2>1, <2>2 DEF CanProceed, Blocked, Clean
<1>5. CASE pc[t] # "cwait"
  <2>1. pc[t] \in {"paused", "timed"}
    BY <1>5 DEF InCallPC
  <2>2. call[t] \in {"point", "lock", "trylock", "semwait", "join", "condwait", "timedwait"}
    BY <1>1, <2>1 DEF Tracked, CallExact, TypeOK, ArgOK
  <2>3. Blocked(t) <=> \/ lock_wait_map[t] # NULL \/ sem_wait_map[t] # NULL \/ thread_map[t] # NULL
                       \/ call[t] = "join" /\ ~finish_map[arg[t]]
    BY <2>1 DEF Blocked
  <2>4. CASE call[t] \in {"lock", "condwait", "timedwait"}
    <3>1. InLock(t) /\ arg[t] \in Mutex /\ arg[t] # NULL /\ arg[t] \in AllMutex
      BY <2>1, <2>4, ConstantsAssumption DEF InLock, TypeOK, ArgOK, AllMutex
    <3>2. mutex[arg[t]] \in Tid \cup {FREE} /\ FREE \notin Tid
      BY <2>4, <3>1 DEF LocksDestroyed, TypeOK, FREE, Tid
    <3>3. sem_wait_map[t] = NULL /\ thread_map[t] = NULL
      BY <1>1, <2>4 DEF Tracked, SemExact, BarrierExact
    <3>4. CanProceed(t) = (mutex[arg[t]] \notin Tid)
      BY <1>5, <2>4 DEF CanProceed
    <3>5. CASE lock_wait_map[t] = NULL
      <4>1. mutex[arg[t]] \notin Tid
        BY <1>1, <3>1, <3>5 DEF Tracked, LockExact
      <4> QED
        BY <1>1, <1>3, <2>3, <2>4, <3>3, <3>4, <3>5, <4>1
    <3>6. CASE lock_wait_map[t] # NULL
      <4>1. mutex[arg[t]] # FREE \/ BeingReleased(arg[t])
        BY <1>1, <3>1, <3>6 DEF Tracked, LockExact
      <4> QED
        BY <1>1, <1>3, <2>3, <3>2, <3>4, <3>6, <4>1
    <3> QED
      BY <3>5, <3>6
  <2>5. CASE call[t] \notin {"lock", "condwait", "timedwait"}
    <3>1. lock_wait_map[t] = NULL
      BY <1>1, <2>5 DEF Tracked, LockExact, InLock
    <3>2. CASE call[t] = "semwait"
      <4>1. arg[t] \in Sem /\ arg[t] # NULL /\ thread_map[t] = NULL
        BY <1>1, <3>2, ConstantsAssumption DEF TypeOK, ArgOK, Tracked, BarrierExact
      <4>2. sem_wait_map[t] = NULL <=> semval[arg[t]] > 0
        BY <1>1, <3>2, <4>1 DEF Tracked, SemExact
      <4>3. CanProceed(t) = (semval[arg[t]] > 0)
        BY <1>5, <3>2 DEF CanProceed
      <4> QED
        BY <1>1, <1>3, <2>3, <3>1, <3>2, <4>1, <4>2, <4>3
    <3>3. CASE call[t] # "semwait"
      <4>1. sem_wait_map[t] = NULL
        BY <1>1, <3>3 DEF Tracked, SemExact
      <4>2. CASE call[t] = "point"
        BY <1>1, <1>3, <1>5, <2>3, <3>1, <4>1, <4>2 DEF CanProceed
      <4>3. CASE call[t] = "join"
        <5>1. arg[t] \in Tid /\ thread_map[t] = NULL
          BY <1>1, <4>3 DEF TypeOK, ArgOK, Tracked, BarrierExact
        <5>2. finish_map[arg[t]] <=> pc[arg[t]] \in DonePC
          BY <5>1 DEF AllTracked, Tracked, JoinExact
        <5>3. CanProceed(t) = (pc[arg[t]] \in DonePC)
          BY <1>5, <4>3 DEF CanProceed, DonePC
        <5> QED
          BY <1>1, <1>3, <2>3, <3>1, <4>1, <4>3, <5>1, <5>2, <5>3
      <4>4. CASE call[t] = "trylock"
        <5>1. thread_map[t] = NULL
          BY <1>1, <4>4 DEF Tracked, BarrierExact
        <5>2. CanProceed(t) = TRUE
          BY <1>5, <4>4 DEF CanProceed
        <5> QED
          BY <1>1, <1>3, <2>3, <3>1, <4>1, <4>4, <5>1, <5>2
      <4> QED
        BY <2>2, <2>5, <3>3, <4>2, <4>3, <4>4
    <3> QED
      BY <3>2, <3>3
  <2> QED
    BY <2>4, <2>5
<1> QED
  BY <1>4, <1>5

\* enable_map is exact: while the process runs, a thread inside a call is
\* enabled if and only if the real object would let its call complete (but for
\* the moment between a real unlock and AfterMutexUnlock), application code is
\* enabled and finished threads are not.
THEOREM EnabledTrackingAlways ==
  ASSUME PrivateCleanup
  PROVE  Spec => []EnabledTracking
<1>1. TrackInv => EnabledTracking
  <2> SUFFICES ASSUME TrackInv, status = "running", NEW t \in Tid
               PROVE  /\ pc[t] \in InCallPC /\ ~LocksDestroyed(t) =>
                           \/ enable_map[t] = CanProceed(t)
                           \/ /\ ~enable_map[t]
                              /\ \E u \in Tid : pc[u] = "unlocking" /\ arg[u] = arg[t]
                      /\ pc[t] = "app" => enable_map[t]
                      /\ pc[t] \in {"none", "finishing", "cleanup", "dead"} => ~enable_map[t]
    BY DEF EnabledTracking
  <2>1. TypeOK /\ AllTracked /\ Tracked(t) /\ RunsEnabled(t)
    BY RunningFacts
  <2>2. ASSUME pc[t] \in InCallPC, ~LocksDestroyed(t)
        PROVE  enable_map[t] = CanProceed(t) \/ (~enable_map[t] /\ BeingReleased(arg[t]))
    BY <2>1, <2>2, InCallExact
  <2>3. pc[t] = "app" => enable_map[t]
    BY <2>1 DEF RunsEnabled, ActivePC
  <2>4. pc[t] \in {"none", "finishing", "cleanup", "dead"} => ~enable_map[t]
    BY <2>1 DEF Tracked, EnableExact, DonePC
  <2> QED
    BY <2>2, <2>3, <2>4 DEF BeingReleased
<1> QED
  BY <1>1, TrackInit, TrackNext, PTL DEF Spec

\* A deadlock that deadlockCheck reports is real: every thread has finished or
\* is in a call that cannot complete, and no finished thread still holds what
\* it waits for.
THEOREM DeadlockIsRealAlways ==
  ASSUME PrivateCleanup
  PROVE  Spec => []DeadlockIsReal
<1>1. TrackInv => DeadlockIsReal
  <2> SUFFICES ASSUME TrackInv, status = "deadlock", NEW t \in 0..curr_id, pc[t] \notin DonePC
               PROVE  /\ pc[t] \in InCallPC
                      /\ LocksDestroyed(t) \/ ~CanProceed(t)
                      /\ \A u \in Tid : pc[u] = "cleanup" => arg[u] # arg[t]
    BY DEF DeadlockIsReal, DonePC
  <2>1. TypeOK /\ AllTracked /\ Stuck
    BY DEF TrackInv, HandshakeInv, SerialInv
  <2>2. t \in Tid /\ ~(t > curr_id) /\ Tracked(t)
    BY <2>1, ConstantsAssumption DEF TypeOK, Tid, AllTracked
  <2>3. Blocked(t) /\ pc[t] \notin ActivePC \cup LeavingPC \cup {"none"} /\ ~enable_map[t]
    BY <2>1, <2>2 DEF Stuck, Tracked, EnableExact, JoinExact
  <2>4. pc[t] # "starting"
    <3>1. ASSUME pc[t] = "starting" PROVE FALSE
      <4>1. Clean(t) /\ call[t] = "none"
        BY <2>1, <2>2, <3>1, CleanOutside DEF Tracked, CallExact
      <4> QED
        BY <2>3, <4>1 DEF Blocked, Clean
    <3> QED
      BY <3>1
  <2>5. pc[t] \in InCallPC
    BY <2>1, <2>2, <2>3, <2>4 DEF TypeOK, PC, ActivePC, LeavingPC, DonePC, InCallPC
  <2>6. \A u \in Tid : pc[u] # "unlocking"
    BY <2>1 DEF Stuck, ActivePC
  <2>7. LocksDestroyed(t) \/ ~CanProceed(t)
    BY <2>1, <2>2, <2>3, <2>5, <2>6, InCallExact DEF BeingReleased
  <2>8. arg[t] \notin CleanupMutex
    <3>1. call[t] \in {"point", "lock", "trylock", "semwait", "join", "condwait", "timedwait"}
      BY <2>1, <2>2, <2>5 DEF InCallPC, Tracked, CallExact, TypeOK, ArgOK
    <3>2. arg[t] \in Mutex \cup Sem \cup Tid \cup {NULL}
      BY <2>1, <2>2, <3>1 DEF TypeOK, ArgOK, Tracked, CallExact
    <3> QED
      BY <3>2, ConstantsAssumption DEF PrivateCleanup
  <2>9. \A u \in Tid : pc[u] = "cleanup" => arg[u] # arg[t]
    BY <2>1, <2>8 DEF TypeOK, ArgOK
  <2> QED
    BY <2>5, <2>7, <2>9
<1> QED
  BY <1>1, TrackInit, TrackNext, PTL DEF Spec

\* No safe_assert about the tracker's own state fails, whatever the program
\* does: not in registerThreadJoin, SimulateSemWait, threadHasPassedSemaphore,
\* BeforeBarrierWait, thrilleSchedPoint or checkForDanglingThreads.
THEOREM NoInternalAssertAlways ==
  ASSUME PrivateCleanup
  PROVE  Spec => []NoInternalAssert
<1>1. TrackInv => NoInternalAssert
  BY DEF TrackInv
<1> QED
  BY <1>1, TrackInit, TrackNext, PTL DEF Spec

-----------------------------------------------------------------------------
(***************************************************************************)
(* The serializer implements PthreadMachine, for any number of threads,    *)
(* mutexes and condition variables and either policy.                      *)
(*                                                                         *)
(* Most steps are the library's own business and change nothing that the   *)
(* program can see.  The others rest on the invariants: a lock returns     *)
(* with the mutex because only an enabled thread is launched and enable_map*)
(* is exact (TrackInv); a wait ends for a reason, a signal wakes its       *)
(* target before it returns and a broadcast leaves nobody behind, because  *)
(* of the handshake (HandshakeInv).                                        *)
(***************************************************************************)

\* PthreadMachine has no semaphores, and its mutexes are not destroyed.
PlainProgram == Ops \cap {"semwait", "mutexDestroy"} = {}

\* What such a program never meets.
PlainInv ==
  status = "running" =>
    /\ \A m \in Mutex : mutex[m] # DESTROYED
    /\ \A t \in Tid : call[t] # "semwait"

\* Only a timed wait times out, and the thread that a signaller has posted
\* waited on the condition variable signalled.
TimeoutIsTimed(t) == ~was_signalled_map[t] => call[t] = "timedwait"
PostsItsOwn(t) == pc[t] = "sigwait" => cond_map[newchoice[t]] \in {arg[t], NULL}

WakeInv == status = "running" => \A t \in Tid : TimeoutIsTimed(t) /\ PostsItsOwn(t)

ImplInv == TrackInv /\ PlainInv /\ WakeInv

\* A step of the machine, or none.
MachineStep == [Machine!Next]_(Machine!machineVars)

-----------------------------------------------------------------------------
(***************************************************************************)
(* The refinement mapping.                                                 *)
(***************************************************************************)

\* What a thread does, from its control point alone.
DoingAt(p, c, o) ==
  CASE p \in {"none", "app"} -> [op |-> p, obj |-> NULL]
    [] p \in DonePC -> [op |-> "done", obj |-> NULL]
    [] p \in {"starting", "creating", "unlocking"} -> [op |-> "point", obj |-> NULL]
    [] OTHER -> [op |-> c, obj |-> o]

\* That is what the mapping says, before and after a step.
LEMMA DoingIs ==
  ASSUME NEW t \in Tid
  PROVE  /\ Doing(t) = DoingAt(pc[t], call[t], arg[t])
         /\ Doing(t)' = DoingAt(pc'[t], call'[t], arg'[t])
BY DEF Doing, DoingAt, DonePC

\* The four kinds of control points.
LEMMA DoingValues ==
  ASSUME NEW p, NEW c, NEW o
  PROVE  /\ p \in {"none", "app"} => DoingAt(p, c, o) = [op |-> p, obj |-> NULL]
         /\ p \in DonePC => DoingAt(p, c, o) = [op |-> "done", obj |-> NULL]
         /\ p \in {"starting", "creating", "unlocking"} => DoingAt(p, c, o) = [op |-> "point", obj |-> NULL]
         /\ p \notin {"none", "app", "starting", "creating", "unlocking"} \cup DonePC
              => DoingAt(p, c, o) = [op |-> c, obj |-> o]
<1>1. p \in {"none", "app"} => DoingAt(p, c, o) = [op |-> p, obj |-> NULL]
  BY DEF DoingAt, DonePC
<1>2. p \in DonePC => DoingAt(p, c, o) = [op |-> "done", obj |-> NULL]
  BY DEF DoingAt, DonePC
<1>3. p \in {"starting", "creating", "unlocking"} => DoingAt(p, c, o) = [op |-> "point", obj |-> NULL]
  BY DEF DoingAt, DonePC
<1>4. p \notin {"none", "app", "starting", "creating", "unlocking"} \cup DonePC
        => DoingAt(p, c, o) = [op |-> c, obj |-> o]
  BY DEF DoingAt, DonePC
<1> QED
  BY <1>1, <1>2, <1>3, <1>4

\* The machine says a thread runs where the tracker does.
LEMMA InAppIs ==
  ASSUME TypeOK, NEW t \in Tid
  PROVE  Machine!InApp(t) <=> pc[t] = "app"
<1>1. call[t] \in Calls /\ pc[t] \in PC
  BY DEF TypeOK
<1>2. Doing(t).op = "app" <=> pc[t] = "app"
  <2>1. CASE pc[t] \in {"none", "app"}
    BY <2>1, DoingIs, DoingValues
  <2>2. CASE pc[t] \in DonePC
    <3>1. Doing(t) = [op |-> "done", obj |-> NULL]
      BY <2>2, DoingIs, DoingValues
    <3> QED
      BY <2>2, <3>1 DEF DonePC
  <2>3. CASE pc[t] \in {"starting", "creating", "unlocking"}
    <3>1. Doing(t) = [op |-> "point", obj |-> NULL]
      BY <2>3, DoingIs, DoingValues
    <3> QED
      BY <2>3, <3>1
  <2>4. CASE pc[t] \notin {"none", "app", "starting", "creating", "unlocking"} \cup DonePC
    <3>1. Doing(t) = [op |-> call[t], obj |-> arg[t]]
      BY <2>4, DoingIs, DoingValues
    <3> QED
      BY <1>1, <2>4, <3>1 DEF Calls
  <2> QED
    BY <2>1, <2>2, <2>3, <2>4
<1> QED
  BY <1>2 DEF Machine!InApp

\* When only t moves, only what t does changes.
LEMMA BecomesIs ==
  ASSUME NEW t \in Tid, NEW d, \A u \in Tid \ {t} : SameControl(u), Doing(t)' = d
  PROVE  Machine!Becomes(t, d)
<1>1. \A u \in Tid \ {t} : Doing(u)' = Doing(u)
  BY DoingIs DEF SameControl
<1> QED
  BY <1>1 DEF Machine!Becomes

\* Control points of a signaller that may owe a wake-up.
OwingPC == {"sigwake", "sigwait"}

\* Nobody chooses or wakes a target.
LEMMA OwedSame ==
  ASSUME NEW t \in Tid, \A u \in Tid \ {t} : SameControl(u), pc[t] \notin OwingPC, pc'[t] \notin OwingPC,
         UNCHANGED <<cond_map, newchoice>>
  PROVE  [u \in Tid |-> Owed(u)]' = [u \in Tid |-> Owed(u)]
<1>1. ~Owed(t) /\ ~Owed(t)'
  BY DEF Owed, OwingPC
<1>2. \A u \in Tid \ {t} : Owed(u)' <=> Owed(u)
  BY DEF Owed, SameControl
<1> QED
  BY <1>1, <1>2 DEF Owed

-----------------------------------------------------------------------------
(***************************************************************************)
(* Steps the program does not see.                                         *)
(***************************************************************************)

\* Nothing the mapping speaks of changes.
LEMMA HiddenMark ==
  ASSUME UNCHANGED <<pc, call, arg, cond_map, newchoice>>, \A m \in Mutex : mutex'[m] = mutex[m]
  PROVE  MachineStep
<1>1. \A u \in Tid : Doing(u)' = Doing(u)
  BY DoingIs
<1>2. \A u \in Tid : Owed(u)' <=> Owed(u)
  BY DEF Owed
<1>3. [u \in Tid |-> Owed(u)]' = [u \in Tid |-> Owed(u)]
  BY <1>2 DEF Owed
<1>4. [u \in Tid |-> Doing(u)]' = [u \in Tid |-> Doing(u)]
  BY <1>1
<1>5. [m \in Mutex |-> mutex[m]]' = [m \in Mutex |-> mutex[m]]
  OBVIOUS
<1> QED
  BY <1>3, <1>4, <1>5 DEF MachineStep, Machine!machineVars

\* t moves within its call.
LEMMA HiddenMove ==
  ASSUME TypeOK, NEW t \in Tid, NEW p, NEW c, NEW o, Goto(t, p, c, o),
         DoingAt(p, c, o) = DoingAt(pc[t], call[t], arg[t]),
         UNCHANGED cond_map, \A m \in Mutex : mutex'[m] = mutex[m],
         [u \in Tid |-> Owed(u)]' = [u \in Tid |-> Owed(u)]
  PROVE  MachineStep
<1>1. /\ \A u \in Tid \ {t} : SameControl(u)
      /\ pc'[t] = p /\ call'[t] = c /\ arg'[t] = o
  BY DEF Goto, TypeOK, SameControl
<1>2. \A u \in Tid : Doing(u)' = Doing(u)
  BY <1>1, DoingIs DEF SameControl
<1>3. [u \in Tid |-> Doing(u)]' = [u \in Tid |-> Doing(u)]
  BY <1>2
<1>4. [m \in Mutex |-> mutex[m]]' = [m \in Mutex |-> mutex[m]]
  OBVIOUS
<1> QED
  BY <1>3, <1>4 DEF MachineStep, Machine!machineVars

\* t moves within a call that is not a signal.
LEMMA HiddenStep ==
  ASSUME TypeOK, NEW t \in Tid, NEW p, NEW c, NEW o, Goto(t, p, c, o),
         DoingAt(p, c, o) = DoingAt(pc[t], call[t], arg[t]),
         pc[t] \notin OwingPC, p \notin OwingPC,
         UNCHANGED <<cond_map, newchoice>>, \A m \in Mutex : mutex'[m] = mutex[m]
  PROVE  MachineStep
<1>1. (\A u \in Tid \ {t} : SameControl(u)) /\ pc'[t] = p
  BY DEF Goto, TypeOK, SameControl
<1>2. [u \in Tid |-> Owed(u)]' = [u \in Tid |-> Owed(u)]
  BY <1>1, OwedSame
<1> QED
  BY <1>2, HiddenMove

\* A call that takes effect when it returns.
LEMMA CallBegins ==
  ASSUME TypeOK, NEW t \in Tid, pc[t] = "app", NEW c, NEW o, Goto(t, "paused", c, o),
         \/ c = "point" /\ o = NULL
         \/ c \in {"lock", "trylock"} /\ o \in Mutex
         \/ c = "join" /\ o \in Tid,
         UNCHANGED <<cond_map, newchoice>>, \A m \in Mutex : mutex'[m] = mutex[m]
  PROVE  MachineStep
<1>1. /\ \A u \in Tid \ {t} : SameControl(u)
      /\ pc'[t] = "paused" /\ call'[t] = c /\ arg'[t] = o
  BY DEF Goto, TypeOK, SameControl
<1>2. Doing(t)' = [op |-> c, obj |-> o]
  BY <1>1, DoingIs, DoingValues DEF DonePC
<1>3. Machine!Becomes(t, [op |-> c, obj |-> o])
  BY <1>1, <1>2, BecomesIs
<1>4. [u \in Tid |-> Owed(u)]' = [u \in Tid |-> Owed(u)]
  BY <1>1, OwedSame DEF OwingPC
<1>5. [m \in Mutex |-> mutex[m]]' = [m \in Mutex |-> mutex[m]]
  OBVIOUS
<1>6. Machine!InApp(t)
  BY InAppIs
<1>7. Machine!Call(t)
  BY <1>3, <1>4, <1>5, <1>6 DEF Machine!Call, Machine!In, Machine!Idle
<1> QED
  BY <1>7 DEF MachineStep, Machine!Next

\* A call returns to t, when nobody else runs.
LEMMA CallReturns ==
  ASSUME TypeOK, NEW t \in Tid, NEW c, Doing(t) = [op |-> c, obj |-> arg[t]],
         Goto(t, "app", "none", NULL), \A u \in Tid : pc[u] # "app", pc[t] \notin OwingPC,
         UNCHANGED <<cond_map, newchoice>>,
         \/ /\ c = "point" \/ (c = "trylock" /\ mutex[arg[t]] # FREE)
               \/ (c = "join" /\ arg[t] \in Tid /\ pc[arg[t]] \in DonePC)
            /\ \A m \in Mutex : mutex'[m] = mutex[m]
         \/ /\ c \in {"lock", "trylock", "condwait", "timedwait"} /\ cond_map[t] = NULL
            /\ mutex[arg[t]] = FREE /\ mutex' = [mutex EXCEPT ![arg[t]] = t],
         c \in {"lock", "trylock", "condwait", "timedwait"} => arg[t] \in Mutex
  PROVE  MachineStep
<1> DEFINE own == [m \in Mutex |-> mutex[m]]
<1>1. (\A u \in Tid \ {t} : SameControl(u)) /\ pc'[t] = "app"
  BY DEF Goto, TypeOK, SameControl
<1>2. Doing(t)' = [op |-> "app", obj |-> NULL]
  BY <1>1, DoingIs, DoingValues
<1>3. Machine!Becomes(t, Machine!Idle("app"))
  BY <1>1, <1>2, BecomesIs DEF Machine!Idle, Machine!In
<1>4. [u \in Tid |-> Owed(u)]' = [u \in Tid |-> Owed(u)]
  BY <1>1, OwedSame DEF OwingPC
<1>5. \A u \in Tid : ~Machine!InApp(u)
  BY InAppIs
<1>6. [u \in Tid |-> Doing(u)][t].op = c /\ [u \in Tid |-> Doing(u)][t].obj = arg[t]
  OBVIOUS
<1>7. CASE \A m \in Mutex : mutex'[m] = mutex[m]
  <2>1. own' = own
    BY <1>7
  <2>2. CASE c = "point"
    BY <1>3, <1>4, <1>5, <1>6, <2>1, <2>2 DEF MachineStep, Machine!Next, Machine!Return
  <2>3. CASE c = "trylock" /\ mutex[arg[t]] # FREE
    <3>1. own[arg[t]] # FREE
      BY <2>3
    <3> QED
      BY <1>3, <1>4, <1>5, <1>6, <2>1, <2>3, <3>1 DEF MachineStep, Machine!Next, Machine!Return
  <2>4. CASE c = "join" /\ arg[t] \in Tid /\ pc[arg[t]] \in DonePC
    <3>1. [u \in Tid |-> Doing(u)][arg[t]].op = "done"
      BY <2>4, DoingIs, DoingValues
    <3> QED
      BY <1>3, <1>4, <1>5, <1>6, <2>1, <2>4, <3>1 DEF MachineStep, Machine!Next, Machine!Return
  <2>5. CASE /\ c \in {"lock", "trylock", "condwait", "timedwait"} /\ mutex[arg[t]] = FREE
             /\ mutex' = [mutex EXCEPT ![arg[t]] = t]
    <3>1. arg[t] \in Mutex /\ arg[t] \in AllMutex /\ FREE \notin Tid
      BY <2>5 DEF AllMutex, FREE, Tid
    <3>2. mutex'[arg[t]] = t
      BY <2>5, <3>1 DEF TypeOK
    <3> QED
      BY <1>7, <2>5, <3>1, <3>2
  <2> QED
    BY <2>2, <2>3, <2>4, <2>5
<1>8. CASE /\ c \in {"lock", "trylock", "condwait", "timedwait"} /\ cond_map[t] = NULL
           /\ mutex[arg[t]] = FREE /\ mutex' = [mutex EXCEPT ![arg[t]] = t]
  <2>1. arg[t] \in Mutex /\ own[arg[t]] = FREE
    BY <1>8
  <2>2. own' = [own EXCEPT ![arg[t]] = t]
    BY <1>8, <2>1 DEF TypeOK, AllMutex
  <2> QED
    BY <1>3, <1>4, <1>5, <1>6, <1>8, <2>1, <2>2 DEF MachineStep, Machine!Next, Machine!Return
<1> QED
  BY <1>7, <1>8

-----------------------------------------------------------------------------
(***************************************************************************)
(* The calls that take effect when they are made.                          *)
(***************************************************************************)

\* pthread_create: the id handed out belongs to no thread yet.
LEMMA CreateImplements ==
  ASSUME ImplInv, NEW t \in Tid, BeforeCreate(t)
  PROVE  MachineStep
<1> DEFINE does == [u \in Tid |-> Doing(u)]
<1>1. status = "running" /\ pc[t] = "app" /\ curr_id < MaxTid
  BY DEF BeforeCreate, Running
<1>2. TypeOK /\ HandshakeInv /\ Tracked(t)
  BY <1>1, RunningFacts DEF ImplInv
<1>3. PICK child \in Tid : child = curr_id + 1 /\ child > curr_id
  BY <1>1, <1>2, ConstantsAssumption DEF TypeOK, Tid
<1>4. pc[child] = "none" /\ child # t /\ cond_map[child] = NULL
  <2>1. Tracked(child)
    BY <1>1, <1>3, RunningFacts DEF ImplInv
  <2>2. pc[child] = "none"
    BY <1>3, <2>1 DEF Tracked, JoinExact
  <2> QED
    BY <1>1, <1>2, <1>3, <2>2 DEF HandshakeInv, Handshake, CondMapExact
<1>5. UNCHANGED <<cond_map, newchoice, mutex, call, arg>>
  BY <1>2, <1>3, <1>4 DEF BeforeCreate, TypeOK
<1>6. \A u \in Tid : pc'[u] = IF u = t THEN "creating" ELSE IF u = child THEN "starting" ELSE pc[u]
  BY <1>2, <1>3, <1>4 DEF BeforeCreate, TypeOK
<1>7. Doing(t)' = [op |-> "point", obj |-> NULL] /\ Doing(child)' = [op |-> "point", obj |-> NULL]
  BY <1>3, <1>4, <1>6, DoingIs, DoingValues
<1>8. \A u \in Tid \ {t, child} : Doing(u)' = Doing(u)
  BY <1>5, <1>6, DoingIs
<1>9. does' = [does EXCEPT ![t] = Machine!Idle("point"), ![child] = Machine!Idle("point")]
  <2>1. \A u \in Tid : Doing(u)' = IF u \in {t, child} THEN [op |-> "point", obj |-> NULL] ELSE Doing(u)
    BY <1>7, <1>8
  <2> QED
    BY <1>4, <2>1 DEF Machine!Idle, Machine!In
<1>10. does[child] = Machine!Idle("none")
  BY <1>3, <1>4, DoingIs, DoingValues DEF Machine!Idle, Machine!In
<1>11. \A u \in Tid : Owed(u)' <=> Owed(u)
  <2>1. ~Owed(t) /\ ~Owed(t)' /\ ~Owed(child) /\ ~Owed(child)'
    BY <1>1, <1>4, <1>6 DEF Owed
  <2>2. ASSUME NEW u \in Tid \ {t, child} PROVE Owed(u)' <=> Owed(u)
    BY <1>5, <1>6 DEF Owed
  <2> QED
    BY <2>1, <2>2
<1>12. [u \in Tid |-> Owed(u)]' = [u \in Tid |-> Owed(u)]
  BY <1>11 DEF Owed
<1>13. Machine!InApp(t)
  BY <1>1, <1>2, InAppIs
<1>14. Machine!Create(t)
  BY <1>3, <1>5, <1>9, <1>10, <1>12, <1>13 DEF Machine!Create
<1> QED
  BY <1>14 DEF MachineStep, Machine!Next

\* A thread ends for the program when finalizeThread runs.
LEMMA FinishImplements ==
  ASSUME ImplInv, NEW t \in Tid, Running(t), finalizeThread(t)
  PROVE  MachineStep
<1>1. TypeOK /\ pc[t] = "app"
  BY RunningFacts DEF ImplInv, Running
<1>2. UNCHANGED <<cond_map, newchoice, mutex>> /\ Goto(t, "finishing", "none", NULL)
  BY DEF finalizeThread, condVars, lockVars
<1>3. (\A u \in Tid \ {t} : SameControl(u)) /\ pc'[t] = "finishing"
  BY <1>1, <1>2 DEF Goto, TypeOK, SameControl
<1>4. Doing(t)' = Machine!Idle("done")
  BY <1>3, DoingIs, DoingValues DEF DonePC, Machine!Idle, Machine!In
<1>5. Machine!Becomes(t, Machine!Idle("done"))
  BY <1>3, <1>4, BecomesIs
<1>6. [u \in Tid |-> Owed(u)]' = [u \in Tid |-> Owed(u)]
  BY <1>1, <1>2, <1>3, OwedSame DEF OwingPC
<1>7. Machine!InApp(t)
  BY <1>1, InAppIs
<1>8. Machine!Finish(t)
  BY <1>2, <1>5, <1>6, <1>7 DEF Machine!Finish
<1> QED
  BY <1>8 DEF MachineStep, Machine!Next

\* The wrapper unlocks the real mutex.
LEMMA UnlockImplements ==
  ASSUME ImplInv, NEW t \in Tid, MutexUnlock(t)
  PROVE  MachineStep
<1> DEFINE own == [m \in Mutex |-> mutex[m]]
<1>1. TypeOK /\ pc[t] = "app"
  BY RunningFacts DEF ImplInv, Running, MutexUnlock
<1>2. UNCHANGED <<cond_map, newchoice>>
  BY DEF MutexUnlock, condVars
<1>3. PICK m \in Mutex : /\ mutex[m] = t /\ mutex' = [mutex EXCEPT ![m] = FREE]
                         /\ Goto(t, "unlocking", "none", m)
  BY DEF MutexUnlock
<1>4. (\A u \in Tid \ {t} : SameControl(u)) /\ pc'[t] = "unlocking"
  BY <1>1, <1>3 DEF Goto, TypeOK, SameControl
<1>5. Doing(t)' = Machine!Idle("point")
  BY <1>4, DoingIs, DoingValues DEF Machine!Idle, Machine!In
<1>6. Machine!Becomes(t, Machine!Idle("point"))
  BY <1>4, <1>5, BecomesIs
<1>7. [u \in Tid |-> Owed(u)]' = [u \in Tid |-> Owed(u)]
  BY <1>1, <1>2, <1>4, OwedSame DEF OwingPC
<1>8. Machine!InApp(t)
  BY <1>1, InAppIs
<1>9. own[m] = t /\ own' = [own EXCEPT ![m] = FREE]
  BY <1>1, <1>3 DEF TypeOK, AllMutex
<1>10. Machine!Unlock(t)
  BY <1>2, <1>6, <1>7, <1>8, <1>9 DEF Machine!Unlock
<1> QED
  BY <1>10 DEF MachineStep, Machine!Next

\* The wait gives up its mutex and is filed in one step, so that no signal
\* falls in between.
LEMMA WaitImplements ==
  ASSUME ImplInv, NEW t \in Tid, NEW kind \in {"condwait", "timedwait"}, EnterWait(t, kind)
  PROVE  MachineStep
<1> DEFINE own == [m \in Mutex |-> mutex[m]]
<1>1. status = "running" /\ pc[t] = "app" /\ UNCHANGED newchoice
  BY DEF EnterWait, Running
<1>2. TypeOK /\ HandshakeInv
  BY <1>1, RunningFacts DEF ImplInv
<1>3. CASE UNCHANGED <<mutex, cond_map, controlVars>>
  BY <1>1, <1>3, HiddenMark DEF controlVars
<1>4. ASSUME NEW c \in Cond, NEW m \in Mutex, mutex[m] = t, mutex' = [mutex EXCEPT ![m] = FREE],
             cond_map' = [cond_map EXCEPT ![t] = c], Goto(t, "cwait", kind, m)
      PROVE  MachineStep
  <2>1. (\A u \in Tid \ {t} : SameControl(u)) /\ pc'[t] = "cwait" /\ call'[t] = kind /\ arg'[t] = m
    BY <1>2, <1>4 DEF Goto, TypeOK, SameControl
  <2>2. Doing(t)' = Machine!In(kind, m)
    BY <2>1, DoingIs, DoingValues DEF DonePC, Machine!In
  <2>3. Machine!Becomes(t, Machine!In(kind, m))
    BY <2>1, <2>2, BecomesIs
  <2>4. \A u \in Tid : pc[u] \notin OwingPC /\ pc'[u] \notin OwingPC
    <3>1. \A u \in Tid \ {t} : pc[u] \notin ActivePC
      BY <1>1, <1>2, OneForm DEF HandshakeInv, HasBaton, ActivePC
    <3> QED
      BY <1>1, <2>1, <3>1 DEF OwingPC, ActivePC, SameControl
  <2>5. \A u \in Tid : ~Owed(u) /\ ~Owed(u)'
    BY <2>4 DEF Owed, OwingPC
  <2>6. [u \in Tid |-> Owed(u)]' = [u \in Tid |-> Owed(u)]
    BY <2>5 DEF Owed
  <2>7. Machine!InApp(t)
    BY <1>1, <1>2, InAppIs
  <2>8. own[m] = t /\ own' = [own EXCEPT ![m] = FREE]
    BY <1>2, <1>4 DEF TypeOK, AllMutex
  <2>9. Machine!Wait(t)
    BY <1>4, <2>3, <2>6, <2>7, <2>8 DEF Machine!Wait
  <2> QED
    BY <2>9 DEF MachineStep, Machine!Next
<1> QED
  BY <1>3, <1>4 DEF EnterWait

-----------------------------------------------------------------------------
(***************************************************************************)
(* Signals.                                                                *)
(***************************************************************************)

\* A signal owes a wake-up if and only if somebody waits.
LEMMA SignalImplements ==
  ASSUME ImplInv, NEW t \in Tid, NEW kind \in {"signal", "broadcast"}, BeforeCondSignal(t, kind)
  PROVE  MachineStep
<1> DEFINE owes == [u \in Tid |-> Owed(u)]
<1>1. status = "running" /\ pc[t] = "app" /\ UNCHANGED <<cond_map, mutex>>
  BY DEF BeforeCondSignal, Running, lockVars
<1>2. TypeOK
  BY <1>1, RunningFacts DEF ImplInv
<1>3. CASE UNCHANGED <<newchoice, controlVars>>
  BY <1>1, <1>3, HiddenMark DEF controlVars
<1>4. ASSUME NEW c \in Cond, NextTarget(t, c, kind)
      PROVE  MachineStep
  <2>1. PICK p \in {"sigend", "sigwake"} : Goto(t, p, kind, c)
    BY <1>4 DEF NextTarget
  <2>2. (\A u \in Tid \ {t} : SameControl(u)) /\ pc'[t] = p /\ call'[t] = kind /\ arg'[t] = c
    BY <1>2, <2>1 DEF Goto, TypeOK, SameControl
  <2>3. Doing(t)' = Machine!In(kind, c)
    BY <2>2, DoingIs, DoingValues DEF DonePC, Machine!In
  <2>4. Machine!Becomes(t, Machine!In(kind, c))
    BY <2>2, <2>3, BecomesIs
  <2>5. Machine!InApp(t)
    BY <1>1, <1>2, InAppIs
  <2>6. \A u \in Tid \ {t} : newchoice'[u] = newchoice[u]
    BY <1>2, <1>4 DEF NextTarget, TypeOK
  <2>7. \A u \in Tid \ {t} : Owed(u)' <=> Owed(u)
    BY <1>1, <2>2, <2>6 DEF Owed, SameControl
  <2>8. ~Owed(t)
    BY <1>1 DEF Owed
  <2>9. CASE kind = "broadcast"
    <3>1. ~Owed(t)'
      BY <2>2, <2>9 DEF Owed
    <3>2. owes' = owes
      BY <2>7, <2>8, <3>1 DEF Owed
    <3>3. Machine!Broadcast(t)
      BY <1>1, <2>4, <2>5, <2>9, <3>2 DEF Machine!Broadcast
    <3> QED
      BY <3>3 DEF MachineStep, Machine!Next
  <2>10. CASE kind = "signal"
    <3>1. Machine!WaitersOf(c) = Waiters(c)
      BY DEF Machine!WaitersOf, Waiters
    <3>2. Owed(t)' <=> Waiters(c) # {}
      <4>1. CASE /\ Waiters(c) = {} /\ Goto(t, "sigend", kind, c)
        <5>1. pc'[t] = "sigend"
          BY <1>2, <4>1 DEF Goto, TypeOK
        <5> QED
          BY <4>1, <5>1 DEF Owed
      <4>2. ASSUME NEW u \in Tid, selectThreadWaitingOnCond(c, u),
                   newchoice' = [newchoice EXCEPT ![t] = u], Goto(t, "sigwake", kind, c)
            PROVE  Owed(t)' /\ Waiters(c) # {}
        <5>1. pc'[t] = "sigwake" /\ newchoice'[t] = u
          BY <1>2, <4>2 DEF Goto, TypeOK
        <5>2. u \in Waiters(c) /\ cond_map[u] = c
          BY <4>2 DEF selectThreadWaitingOnCond, Waiters
        <5> QED
          BY <1>1, <2>2, <2>10, <5>1, <5>2 DEF Owed
      <4> QED
        BY <1>4, <4>1, <4>2 DEF NextTarget
    <3>3. owes' = [owes EXCEPT ![t] = (Machine!WaitersOf(c) # {})]
      <4>1. Owed(t)' = (Machine!WaitersOf(c) # {})
        BY <3>1, <3>2 DEF Owed
      <4>2. \A u \in Tid \ {t} : Owed(u)' = Owed(u)
        BY <2>7 DEF Owed
      <4> QED
        BY <4>1, <4>2
    <3>4. Machine!Signal(t)
      BY <1>1, <2>4, <2>5, <2>10, <3>3 DEF Machine!Signal
    <3> QED
      BY <3>4 DEF MachineStep, Machine!Next
  <2> QED
    BY <2>9, <2>10
<1> QED
  BY <1>3, <1>4 DEF BeforeCondSignal

\* A waiter leaves because it was signalled or timed out: the signal pays what
\* it owes, once.
LEMMA WakeImplements ==
  ASSUME ImplInv, NEW t \in Tid, LeaveCond(t)
  PROVE  MachineStep
<1> DEFINE owes == [u \in Tid |-> Owed(u)]
           does == [u \in Tid |-> Doing(u)]
<1>1. status = "running" /\ pc[t] = "woken" /\ UNCHANGED <<newchoice, mutex>> /\ Step(t, "relock")
      /\ cond_map' = [cond_map EXCEPT ![t] = NULL]
  BY DEF LeaveCond, lockVars
<1>2. TypeOK /\ HandshakeInv
  BY <1>1, RunningFacts DEF ImplInv
<1>3. /\ \A u \in Tid \ {t} : SameControl(u)
      /\ pc'[t] = "relock" /\ call'[t] = call[t] /\ arg'[t] = arg[t]
  BY <1>1, <1>2 DEF Step, Goto, TypeOK, SameControl
<1>4. \A u \in Tid : Doing(u)' = Doing(u)
  <2>1. Doing(t)' = [op |-> call[t], obj |-> arg[t]] /\ Doing(t) = [op |-> call[t], obj |-> arg[t]]
    BY <1>1, <1>3, DoingIs, DoingValues DEF DonePC
  <2> QED
    BY <1>3, <2>1, DoingIs DEF SameControl
<1>5. does' = does /\ UNCHANGED mutex
  BY <1>1, <1>4
<1>6. cond_map[t] # NULL /\ call[t] \in {"condwait", "timedwait"}
  BY <1>1, <1>2 DEF HandshakeInv, Handshake, CondMapExact, TypeOK, ArgOK
<1>7. ~was_signalled_map[t] \/ Posted(t)
  BY <1>1, <1>2 DEF HandshakeInv, Handshake, LeavesForAReason, LeavingPC
<1>8. \A u \in Tid : u # t => cond_map'[u] = cond_map[u]
  BY <1>1, <1>2 DEF TypeOK
<1>9. cond_map'[t] = NULL
  BY <1>1, <1>2 DEF TypeOK
<1>10. does[t].op = call[t]
  BY <1>1, DoingIs, DoingValues DEF DonePC
<1>11. CASE ~was_signalled_map[t]
  <2>1. \A u \in Tid : pc[u] \notin OwingPC /\ pc'[u] \notin OwingPC
    <3>1. \A u \in Tid \ {t} : pc[u] \notin ActivePC
      BY <1>1, <1>2, <1>11, OneForm DEF HandshakeInv, HasBaton
    <3> QED
      BY <1>1, <1>3, <3>1 DEF OwingPC, ActivePC, SameControl
  <2>2. \A u \in Tid : ~Owed(u) /\ ~Owed(u)'
    BY <2>1 DEF Owed, OwingPC
  <2>3. owes' = owes
    BY <2>2 DEF Owed
  <2>4. call[t] = "timedwait"
    BY <1>1, <1>11 DEF ImplInv, WakeInv, TimeoutIsTimed
  <2>5. does[t].op = "timedwait"
    BY <1>10, <2>4
  <2>6. Machine!Wake(t)
    BY <1>1, <1>5, <1>6, <2>3, <2>5 DEF Machine!Wake
  <2> QED
    BY <2>6 DEF MachineStep, Machine!Next
<1>12. ASSUME NEW s \in Tid, pc[s] = "sigwait", newchoice[s] = t
       PROVE  MachineStep
  <2>1. s # t /\ call[s] \in {"signal", "broadcast"} /\ cond_map[t] = arg[s]
    <3>1. cond_map[newchoice[s]] \in {arg[s], NULL}
      BY <1>1, <1>12 DEF ImplInv, WakeInv, PostsItsOwn
    <3> QED
      BY <1>1, <1>2, <1>6, <1>12, <3>1 DEF TypeOK, ArgOK
  <2>2. \A u \in Tid \ {s} : pc[u] \notin OwingPC /\ pc'[u] \notin OwingPC
    <3>1. \A u \in Tid \ {s} : pc[u] \notin ActivePC
      BY <1>1, <1>2, <1>12, OneForm DEF HandshakeInv, HasBaton, ActivePC
    <3> QED
      BY <1>1, <1>3, <3>1 DEF OwingPC, ActivePC, SameControl
  <2>3. \A u \in Tid \ {s} : ~Owed(u) /\ ~Owed(u)'
    BY <2>2 DEF Owed, OwingPC
  <2>4. does[s] = Machine!In(call[s], cond_map[t])
    BY <1>12, <2>1, DoingIs, DoingValues DEF DonePC, Machine!In
  <2>5. arg[s] # NULL /\ SameControl(s) /\ newchoice'[s] = t
    BY <1>1, <1>3, <1>6, <1>12, <2>1
  <2>6. ~Owed(s)'
    BY <1>9, <2>1, <2>5 DEF Owed, SameControl
  <2>7. CASE call[s] = "signal"
    <3>1. Owed(s) = TRUE /\ Owed(s)' = FALSE
      BY <1>12, <2>1, <2>6, <2>7 DEF Owed
    <3>2. \A u \in Tid \ {s} : Owed(u)' = Owed(u)
      BY <2>3 DEF Owed
    <3>3. owes' = [owes EXCEPT ![s] = FALSE]
      BY <3>1, <3>2
    <3>4. owes[s]
      BY <3>1
    <3>5. Machine!Wake(t)
      BY <1>1, <1>5, <1>6, <2>4, <2>7, <3>3, <3>4 DEF Machine!Wake
    <3> QED
      BY <3>5 DEF MachineStep, Machine!Next
  <2>8. CASE call[s] = "broadcast"
    <3>1. ~Owed(s)
      BY <2>8 DEF Owed
    <3>2. \A u \in Tid : Owed(u)' = Owed(u)
      BY <2>3, <2>6, <3>1 DEF Owed
    <3>3. owes' = owes
      BY <3>2
    <3>4. Machine!Wake(t)
      BY <1>1, <1>5, <1>6, <2>4, <2>8, <3>3 DEF Machine!Wake
    <3> QED
      BY <3>4 DEF MachineStep, Machine!Next
  <2> QED
    BY <2>1, <2>7, <2>8
<1> QED
  BY <1>7, <1>11, <1>12 DEF Posted

\* The steps of a signaller before its end: what it owes changes with the
\* target's cond_map only.
LEMMA SignallerHidden ==
  ASSUME ImplInv, NEW t \in Tid, scheduleThreadWaitingOnCond(t) \/ waitThreadReady(t)
  PROVE  MachineStep
<1>1. /\ status = "running" /\ pc[t] \in OwingPC /\ UNCHANGED <<cond_map, mutex>>
  BY DEF scheduleThreadWaitingOnCond, waitThreadReady, OwingPC, lockVars
<1>2. TypeOK /\ HandshakeInv
  BY <1>1, RunningFacts DEF ImplInv
<1>3. newchoice[t] \in Tid /\ call[t] \in {"signal", "broadcast"} /\ arg[t] \in Cond
  BY <1>1, <1>2 DEF TypeOK, ArgOK, OwingPC
<1>4. PICK p \in {"sigwake", "sigwait", "sigend"} : Step(t, p)
  <2>1. CASE scheduleThreadWaitingOnCond(t)
    BY <2>1 DEF scheduleThreadWaitingOnCond
  <2>2. CASE waitThreadReady(t)
    BY <2>2 DEF waitThreadReady, NextTarget, Step
  <2> QED
    BY <2>1, <2>2
<1>5. pc'[t] = p /\ call'[t] = call[t] /\ arg'[t] = arg[t] /\ \A u \in Tid \ {t} : SameControl(u)
  BY <1>2, <1>4 DEF Step, Goto, TypeOK, SameControl
<1>6. \A u \in Tid \ {t} : newchoice'[u] = newchoice[u]
  BY <1>2 DEF scheduleThreadWaitingOnCond, waitThreadReady, NextTarget, TypeOK
<1>7. \A u \in Tid \ {t} : Owed(u)' = Owed(u)
  BY <1>1, <1>5, <1>6 DEF Owed, SameControl
<1>8. Owed(t)' = Owed(t)
  <2>1. CASE call[t] = "broadcast"
    BY <1>5, <2>1 DEF Owed
  <2>2. CASE call[t] = "signal" /\ scheduleThreadWaitingOnCond(t)
    <3>1. pc[t] = "sigwake" /\ pc'[t] = "sigwait" /\ newchoice' = newchoice
      BY <1>2, <2>2 DEF scheduleThreadWaitingOnCond, Step, Goto, TypeOK
    <3> QED
      BY <1>1, <1>5, <3>1 DEF Owed
  <2>3. CASE call[t] = "signal" /\ waitThreadReady(t)
    <3>1. pc[t] = "sigwait" /\ pc'[t] = "sigend" /\ wait_ready_map[newchoice[t]]
      BY <1>2, <2>3 DEF waitThreadReady, Step, Goto, TypeOK
    <3>2. cond_map[newchoice[t]] = NULL
      BY <1>1, <1>2, <1>3, <3>1 DEF HandshakeInv, Handshake, ReadyExact, CondMapExact, LeavingPC
    <3> QED
      BY <1>3, <3>1, <3>2, ConstantsAssumption DEF Owed
  <2> QED
    BY <1>3, <2>1, <2>2, <2>3
<1>9. [u \in Tid |-> Owed(u)]' = [u \in Tid |-> Owed(u)]
  BY <1>7, <1>8
<1>10. DoingAt(p, call[t], arg[t]) = DoingAt(pc[t], call[t], arg[t])
  BY <1>1, DoingValues DEF DonePC, OwingPC
<1> QED
  BY <1>1, <1>2, <1>4, <1>9, <1>10, HiddenMove DEF Step

\* The signal returns: it owes nothing, and a broadcast has left no waiter.
LEMMA SignalEndImplements ==
  ASSUME ImplInv, NEW t \in Tid, SignalEnd(t)
  PROVE  MachineStep
<1>1. /\ status = "running" /\ pc[t] = "sigend" /\ UNCHANGED <<cond_map, newchoice, mutex>>
      /\ Goto(t, "paused", "point", NULL)
  BY DEF SignalEnd, lockVars, condVars
<1>2. TypeOK /\ HandshakeInv /\ Tracked(t)
  BY <1>1, RunningFacts DEF ImplInv
<1>3. call[t] \in {"signal", "broadcast"} /\ arg[t] \in Cond
  BY <1>1, <1>2 DEF Tracked, CallExact, TypeOK, ArgOK
<1>4. /\ \A u \in Tid \ {t} : SameControl(u)
      /\ pc'[t] = "paused" /\ call'[t] = "point" /\ arg'[t] = NULL
  BY <1>1, <1>2 DEF Goto, TypeOK, SameControl
<1>5. Doing(t)' = Machine!Idle("point")
  BY <1>4, DoingIs, DoingValues DEF DonePC, Machine!Idle, Machine!In
<1>6. Machine!Becomes(t, Machine!Idle("point"))
  BY <1>4, <1>5, BecomesIs
<1>7. [u \in Tid |-> Owed(u)]' = [u \in Tid |-> Owed(u)]
  BY <1>1, <1>4, OwedSame DEF OwingPC
<1>8. Doing(t) = Machine!In(call[t], arg[t])
  BY <1>1, DoingIs, DoingValues DEF DonePC, Machine!In
<1>9. ~[u \in Tid |-> Owed(u)][t]
  BY <1>1 DEF Owed
<1>10. call[t] = "broadcast" => Machine!WaitersOf(arg[t]) = {}
  BY <1>1, <1>2 DEF HandshakeInv, Handshake, NoneLeft, Machine!WaitersOf, Waiters
<1>11. Machine!Signalled(t)
  BY <1>1, <1>3, <1>6, <1>7, <1>8, <1>9, <1>10 DEF Machine!Signalled
<1> QED
  BY <1>11 DEF MachineStep, Machine!Next

-----------------------------------------------------------------------------
(***************************************************************************)
(* The library within a call.                                              *)
(***************************************************************************)

\* The start of a thread and the second halves of pthread_create and
\* pthread_mutex_unlock: a scheduling point, as before.
LEMMA LatePointHidden ==
  ASSUME ImplInv, NEW t \in Tid, ThreadStart(t) \/ AfterCreate(t) \/ AfterMutexUnlock(t)
  PROVE  MachineStep
<1>1. /\ status = "running" /\ pc[t] \in {"starting", "creating", "unlocking"}
      /\ UNCHANGED <<cond_map, newchoice, mutex>> /\ Goto(t, "paused", "point", NULL)
  BY DEF ThreadStart, AfterCreate, AfterMutexUnlock, lockVars, condVars
<1>2. TypeOK
  BY <1>1, RunningFacts DEF ImplInv
<1>3. DoingAt("paused", "point", NULL) = DoingAt(pc[t], call[t], arg[t])
  BY <1>1, DoingValues DEF DonePC
<1> QED
  BY <1>1, <1>2, <1>3, HiddenStep DEF OwingPC

\* What a finished thread does is not the program's.
LEMMA CleanupHidden ==
  ASSUME PrivateCleanup, ImplInv, NEW t \in Tid, CleanupLock(t) \/ CleanupUnlock(t) \/ ThreadDies(t)
  PROVE  MachineStep
<1>1. /\ status = "running" /\ pc[t] \in DonePC /\ UNCHANGED <<cond_map, newchoice>>
  BY DEF CleanupLock, CleanupUnlock, ThreadDies, condVars, DonePC
<1>2. PICK p \in DonePC, o \in CleanupMutex \cup {NULL} : Goto(t, p, "none", o)
  BY DEF CleanupLock, CleanupUnlock, ThreadDies, DonePC
<1>3. TypeOK
  BY <1>1, RunningFacts DEF ImplInv
<1>4. \A m \in Mutex : mutex'[m] = mutex[m]
  BY <1>3, CleanupApart
<1>5. DoingAt(p, "none", o) = DoingAt(pc[t], call[t], arg[t])
  BY <1>1, DoingValues
<1> QED
  BY <1>1, <1>2, <1>3, <1>4, <1>5, HiddenStep DEF OwingPC, DonePC

\* A woken waiter on its way to its mutex.
LEMMA LeavingHidden ==
  ASSUME ImplInv, NEW t \in Tid,
         waitPauseThread(t) \/ BeforeRelock(t) \/ signalThreadReady(t) \/ TimedwaitEnd(t)
  PROVE  MachineStep
<1> DEFINE Inside == {"cwait", "woken", "relock", "ready", "timed", "paused"}
<1>1. status = "running" /\ pc[t] \in Inside /\ UNCHANGED <<cond_map, newchoice, mutex>>
  BY DEF waitPauseThread, BeforeRelock, signalThreadReady, TimedwaitEnd, lockVars, condVars
<1>2. PICK p \in Inside : Step(t, p)
  BY DEF waitPauseThread, BeforeRelock, signalThreadReady, TimedwaitEnd
<1>3. TypeOK
  BY <1>1, RunningFacts DEF ImplInv
<1>4. DoingAt(p, call[t], arg[t]) = DoingAt(pc[t], call[t], arg[t])
  BY <1>1, DoingValues DEF DonePC
<1>5. Goto(t, p, call[t], arg[t])
  BY <1>2 DEF Step
<1> QED
  BY <1>1, <1>3, <1>4, <1>5, HiddenStep DEF OwingPC

\* pauseThread returns: the scheduling point is over, or the second half of
\* the call begins.
LEMMA PauseImplements ==
  ASSUME ImplInv, NEW t \in Tid, pauseThread(t)
  PROVE  MachineStep
<1>1. status = "running" /\ pc[t] = "paused" /\ sem_map[t] > 0 /\ UNCHANGED <<cond_map, newchoice, mutex>>
  BY DEF pauseThread, lockVars, condVars
<1>2. TypeOK /\ HandshakeInv
  BY <1>1, RunningFacts DEF ImplInv
<1>3. Doing(t) = [op |-> call[t], obj |-> arg[t]]
  BY <1>1, DoingIs, DoingValues DEF DonePC
<1>4. CASE call[t] = "point"
  <2>1. Goto(t, "app", "none", NULL)
    BY <1>4 DEF pauseThread
  <2>2. \A u \in Tid : pc[u] # "app"
    BY <1>1, <1>2, OneForm DEF HandshakeInv, HasBaton, ActivePC
  <2> QED
    BY <1>1, <1>2, <1>3, <1>4, <2>1, <2>2, CallReturns DEF OwingPC
<1>5. CASE call[t] # "point"
  <2>1. PICK p \in {"joining", "launched"} : Step(t, p)
    <3>1. CASE call[t] = "join"
      BY <3>1 DEF pauseThread
    <3>2. CASE call[t] # "join"
      BY <1>5, <3>2 DEF pauseThread
    <3> QED
      BY <3>1, <3>2
  <2>2. DoingAt(p, call[t], arg[t]) = DoingAt(pc[t], call[t], arg[t])
    BY <1>1, DoingValues DEF DonePC
  <2>3. Goto(t, p, call[t], arg[t])
    BY <2>1 DEF Step
  <2> QED
    BY <1>1, <1>2, <2>2, <2>3, HiddenStep DEF OwingPC
<1> QED
  BY <1>4, <1>5

\* A lock, a wait or a trylock returns with the mutex: a launched thread that
\* wants a mutex finds it free.
LEMMA LockImplements ==
  ASSUME ImplInv, NEW t \in Tid, SimulateMutexLock(t) \/ SimulateMutexTrylock(t)
  PROVE  MachineStep
<1>1. /\ status = "running" /\ pc[t] = "launched" /\ UNCHANGED <<cond_map, newchoice>>
      /\ call[t] \in {"lock", "trylock", "condwait", "timedwait"}
      /\ TryAcquire(t, arg[t]) /\ Goto(t, "app", "none", NULL)
  BY DEF SimulateMutexLock, SimulateMutexTrylock, condVars
<1>2. TypeOK /\ HandshakeInv /\ Tracked(t)
  BY <1>1, RunningFacts DEF ImplInv
<1>3. arg[t] \in Mutex /\ cond_map[t] = NULL
  BY <1>1, <1>2 DEF TypeOK, ArgOK, HandshakeInv, Handshake, CondMapExact
<1>4. ~Blocked(t) /\ \A u \in Tid : pc[u] # "app"
  BY <1>1, LaunchedFacts DEF ImplInv, ActivePC
<1>5. Doing(t) = [op |-> call[t], obj |-> arg[t]]
  BY <1>1, DoingIs, DoingValues DEF DonePC
<1>6. CASE mutex[arg[t]] = FREE
  <2>1. mutex' = [mutex EXCEPT ![arg[t]] = t]
    BY <1>1, <1>6 DEF TryAcquire
  <2> QED
    BY <1>1, <1>2, <1>3, <1>4, <1>5, <1>6, <2>1, CallReturns DEF OwingPC
<1>7. CASE mutex[arg[t]] # FREE
  <2>1. mutex' = mutex
    BY <1>1, <1>7 DEF TryAcquire
  <2>2. call[t] = "trylock"
    <3>1. SUFFICES ASSUME call[t] # "trylock" PROVE FALSE
      OBVIOUS
    <3>2. InLock(t) /\ arg[t] # NULL
      BY <1>1, <1>3, <3>1, ConstantsAssumption DEF InLock
    <3>3. mutex[arg[t]] \notin Tid
      BY <1>2, <1>4, <3>2 DEF Tracked, LockExact, Blocked
    <3>4. mutex[arg[t]] \in Tid \cup {FREE, DESTROYED} /\ mutex[arg[t]] # DESTROYED
      BY <1>1, <1>2, <1>3 DEF TypeOK, AllMutex, ImplInv, PlainInv
    <3> QED
      BY <1>7, <3>3, <3>4
  <2> QED
    BY <1>1, <1>2, <1>3, <1>4, <1>5, <1>7, <2>1, <2>2, CallReturns DEF OwingPC
<1> QED
  BY <1>6, <1>7

\* A join returns after its thread has finished.
LEMMA JoinImplements ==
  ASSUME ImplInv, NEW t \in Tid, JoinReturns(t)
  PROVE  MachineStep
<1>1. /\ status = "running" /\ pc[t] = "joining" /\ UNCHANGED <<cond_map, newchoice, mutex>>
      /\ pc[arg[t]] = "dead" /\ Goto(t, "app", "none", NULL)
  BY DEF JoinReturns, condVars, lockVars
<1>2. TypeOK /\ HandshakeInv /\ Tracked(t)
  BY <1>1, RunningFacts DEF ImplInv
<1>3. call[t] = "join" /\ arg[t] \in Tid
  BY <1>1, <1>2 DEF Tracked, CallExact, TypeOK, ArgOK
<1>4. \A u \in Tid : pc[u] # "app"
  BY <1>1, <1>2, OneForm DEF HandshakeInv, HasBaton, ActivePC
<1>5. Doing(t) = [op |-> "join", obj |-> arg[t]]
  BY <1>1, <1>3, DoingIs, DoingValues DEF DonePC
<1> QED
  BY <1>1, <1>2, <1>3, <1>4, <1>5, CallReturns DEF OwingPC, DonePC

-----------------------------------------------------------------------------
(***************************************************************************)
(* Every step implements a step.                                           *)
(***************************************************************************)

\* The calls of the application.
LEMMA AppStepImplements ==
  ASSUME PlainProgram, ImplInv, NEW t \in Tid, AppStep(t)
  PROVE  MachineStep
<1>1. TypeOK
  BY DEF ImplInv, TrackInv, HandshakeInv, SerialInv
<1>2. ASSUME SchedPoint(t) PROVE MachineStep
  BY <1>1, <1>2, CallBegins DEF SchedPoint, Running, condVars, lockVars
<1>3. CASE MyMemoryAccess(t) \/ SimulateSleep(t) \/ thrilleCheckpoint(t)
  BY <1>2, <1>3 DEF MyMemoryAccess, SimulateSleep, thrilleCheckpoint
<1>4. CASE thrilleSchedPoint(t)
  <2>1. CASE enable_map[t]
    BY <1>2, <1>4, <2>1 DEF thrilleSchedPoint
  <2>2. CASE ~enable_map[t]
    BY <1>4, <2>2, HiddenMark DEF thrilleSchedPoint, condVars, lockVars, controlVars
  <2> QED
    BY <2>1, <2>2
<1>5. CASE ProgramError(t) \/ InvalidMutexFault(t)
  BY <1>5, HiddenMark DEF ProgramError, InvalidMutexFault, condVars, lockVars, controlVars
<1>6. CASE BeforeCreate(t)
  BY <1>6, CreateImplements
<1>7. CASE ThreadFinish(t) \/ SimulateExit(t)
  BY <1>7, FinishImplements DEF ThreadFinish, SimulateExit
<1>8. CASE BeforeJoin(t)
  <2>1. PICK u \in Tid : Goto(t, "paused", "join", u) /\ UNCHANGED <<cond_map, newchoice, mutex>>
    BY <1>8 DEF BeforeJoin, condVars, lockVars
  <2> QED
    BY <1>1, <1>8, <2>1, CallBegins DEF BeforeJoin, Running
<1>9. CASE BeforeMutexLock(t)
  <2>1. PICK m \in Mutex : Goto(t, "paused", "lock", m) /\ UNCHANGED <<cond_map, newchoice, mutex>>
    BY <1>9 DEF BeforeMutexLock, condVars
  <2> QED
    BY <1>1, <1>9, <2>1, CallBegins DEF BeforeMutexLock, Running
<1>10. CASE BeforeMutexTrylock(t)
  <2>1. PICK m \in Mutex : Goto(t, "paused", "trylock", m) /\ UNCHANGED <<cond_map, newchoice, mutex>>
    BY <1>10 DEF BeforeMutexTrylock, condVars, lockVars
  <2> QED
    BY <1>1, <1>10, <2>1, CallBegins DEF BeforeMutexTrylock, Running
<1>11. CASE MutexUnlock(t)
  BY <1>11, UnlockImplements
<1>12. ~SimulateMutexDestroy(t) /\ ~BeforeMutexInit(t) /\ ~BeforeSemWait(t)
  BY DEF SimulateMutexDestroy, BeforeMutexInit, BeforeSemWait, PlainProgram
<1>13. CASE SimulateCondWait(t) \/ SimulateCondTimedwait(t)
  BY <1>13, WaitImplements DEF SimulateCondWait, SimulateCondTimedwait
<1>14. CASE BeforeCondSignal(t, "signal") \/ BeforeCondSignal(t, "broadcast")
  BY <1>14, SignalImplements
<1>15. CASE SimulateCondDestroy(t) \/ BeforeCondInit(t)
  BY <1>15, HiddenMark DEF SimulateCondDestroy, BeforeCondInit, lockVars, controlVars
<1>16. CASE SimulateSemPost(t)
  <2>1. pc[t] = "app" /\ UNCHANGED <<cond_map, newchoice, mutex>>
    BY <1>16 DEF SimulateSemPost, Running, condVars, lockVars
  <2>2. UNCHANGED controlVars \/ Goto(t, "paused", "point", NULL)
    BY <1>16 DEF SimulateSemPost
  <2> QED
    BY <1>1, <2>1, <2>2, HiddenMark, CallBegins DEF controlVars
<1>17. CASE SimulateSemDestroy(t) \/ BeforeSemInit(t)
  BY <1>17, HiddenMark DEF SimulateSemDestroy, BeforeSemInit, condVars, lockVars, controlVars
<1>18. CASE BeforeBarrierInit(t) \/ SimulateBarrierDestroy(t)
  BY <1>18, HiddenMark DEF BeforeBarrierInit, SimulateBarrierDestroy, condVars, lockVars, controlVars
<1>19. CASE BeforeBarrierWait(t)
  BY <1>1, <1>19, CallBegins DEF BeforeBarrierWait, Running, condVars, lockVars
<1> QED
  BY <1>3, <1>4, <1>5, <1>6, <1>7, <1>8, <1>9, <1>10, <1>11, <1>12, <1>13, <1>14,
     <1>15, <1>16, <1>17, <1>18, <1>19 DEF AppStep

\* The library.
LEMMA LibStepImplements ==
  ASSUME PrivateCleanup, ImplInv, NEW t \in Tid, LibStep(t) \/ CleanupLock(t)
  PROVE  MachineStep
<1>1. CASE pauseThread(t)
  BY <1>1, PauseImplements
<1>2. CASE AfterCreate(t) \/ ThreadStart(t) \/ AfterMutexUnlock(t)
  BY <1>2, LatePointHidden
<1>3. CASE JoinReturns(t)
  BY <1>3, JoinImplements
<1>4. CASE CleanupLock(t) \/ CleanupUnlock(t) \/ ThreadDies(t)
  BY <1>4, CleanupHidden
<1>5. CASE SimulateMutexLock(t) \/ SimulateMutexTrylock(t)
  BY <1>5, LockImplements
<1>6. CASE waitPauseThread(t) \/ BeforeRelock(t) \/ signalThreadReady(t) \/ TimedwaitEnd(t)
  BY <1>6, LeavingHidden
<1>7. CASE LeaveCond(t)
  BY <1>7, WakeImplements
<1>8. CASE scheduleThreadWaitingOnCond(t) \/ waitThreadReady(t)
  BY <1>8, SignallerHidden
<1>9. CASE SignalEnd(t)
  BY <1>9, SignalEndImplements
<1>10. ~SimulateSemWait(t)
  BY DEF SimulateSemWait, ImplInv, PlainInv
<1> QED
  BY <1>1, <1>2, <1>3, <1>4, <1>5, <1>6, <1>7, <1>8, <1>9, <1>10 DEF LibStep

\* The steps of the tracker are steps of the machine, or none.
LEMMA StepImplements ==
  ASSUME PrivateCleanup, PlainProgram, ImplInv, [Next]_vars
  PROVE  MachineStep
<1>1. CASE MainReturns
  BY <1>1, HiddenMark DEF MainReturns, condVars, lockVars, controlVars
<1>2. CASE UNCHANGED vars
  BY <1>2, HiddenMark DEF vars, condVars, lockVars, controlVars
<1> QED
  BY <1>1, <1>2, AppStepImplements, LibStepImplements DEF Next, Ended

\* Both begin with the main thread alone.
LEMMA InitImplements == Init => Machine!Init
<1> SUFFICES ASSUME Init PROVE Machine!Init
  OBVIOUS
<1>1. \A t \in Tid : Doing(t) = Machine!Idle(IF t = 0 THEN "app" ELSE "none")
  <2>1. \A t \in Tid : pc[t] = IF t = 0 THEN "app" ELSE "none"
    BY DEF Init
  <2> QED
    BY <2>1, DoingIs, DoingValues DEF Machine!Idle, Machine!In
<1>2. \A t \in Tid : Owed(t) = FALSE
  BY DEF Init, Owed
<1>3. \A m \in Mutex : mutex[m] = FREE
  BY DEF Init, AllMutex
<1>4. cond_map = [t \in Tid |-> NULL]
  BY DEF Init
<1> QED
  BY <1>1, <1>2, <1>3, <1>4 DEF Machine!Init

-----------------------------------------------------------------------------
(***************************************************************************)
(* The rest of the invariant.                                              *)
(***************************************************************************)

\* t moves on, and no other thread.
LEMMA OnlyMoves ==
  ASSUME TypeOK, NEW t \in Tid, NEW p, NEW c, NEW o, Goto(t, p, c, o)
  PROVE  /\ \A u \in Tid \ {t} : SameControl(u)
         /\ pc'[t] = p /\ call'[t] = c /\ arg'[t] = o
BY DEF Goto, TypeOK, SameControl

\* launchThread times out only threads that are enabled in their wait.
TimesOutEnabled ==
  status' = "running" =>
    \A u \in Tid : \/ was_signalled_map'[u] \/ ~was_signalled_map[u]
                   \/ enable_map'[u] /\ cond_map'[u] # NULL

\* What a step of t does, apart from pthread_create.
Moves(t) ==
  /\ status = "running"
  /\ \A u \in Tid \ {t} : SameControl(u) /\ newchoice'[u] = newchoice[u]
  /\ call'[t] # "semwait"
  /\ pc[t] \in ActivePC \/ call'[t] = call[t] \/ call[t] # "timedwait"
  /\ pc'[t] = "sigwait" => PostsItsOwn(t)'
  /\ pc[t] = "app" \/ \A u \in Tid : cond_map'[u] \in {cond_map[u], NULL}
  /\ \A m \in Mutex : mutex'[m] \in {mutex[m], FREE} \cup Tid
  /\ TimesOutEnabled

\* A step without a scheduling point times out nobody, ...
LEMMA NoTimeout ==
  ASSUME was_signalled_map' = was_signalled_map
  PROVE  TimesOutEnabled
BY DEF TimesOutEnabled

\* ... and schedule only a thread that may be launched.
LEMMA ScheduleTimesOut ==
  ASSUME TypeOK, NEW t \in Tid, NEW ws, ScheduleWith(ws),
         ws \in {was_signalled_map, [was_signalled_map EXCEPT ![t] = TRUE]}
  PROVE  TimesOutEnabled
<1>1. \A u \in Tid : ws[u] \/ ~was_signalled_map[u]
  BY DEF TypeOK
<1>2. ws \in [Tid -> BOOLEAN]
  BY DEF TypeOK
<1>3. CASE Halt("deadlock")
  BY <1>3 DEF Halt, TimesOutEnabled
<1>4. ASSUME NEW n \in Tid, enable_map'[n], launchThread(n, cond_map', ws)
      PROVE  TimesOutEnabled
  BY <1>1, <1>2, <1>4 DEF launchThread, TimesOutEnabled
<1> QED
  BY <1>3, <1>4 DEF ScheduleWith, pickNextSchedulingChoice, EnabledThreads

\* Such a call that leaves for one place.
LEMMA GoesTo ==
  ASSUME TypeOK, NEW t \in Tid, Running(t), NEW p, NEW c, NEW o, Goto(t, p, c, o),
         p # "sigwait", c # "semwait", \A u \in Tid \ {t} : newchoice'[u] = newchoice[u],
         \A m \in Mutex : mutex'[m] \in {mutex[m], FREE},
         was_signalled_map' = was_signalled_map \/ Schedule
  PROVE  Moves(t)
<1>1. TimesOutEnabled
  BY NoTimeout, ScheduleTimesOut DEF Schedule
<1> QED
  BY <1>1, OnlyMoves DEF Moves, Running, ActivePC

\* Such a call that stays where it is.
LEMMA StaysIn ==
  ASSUME TypeOK, PlainInv, NEW t \in Tid, Running(t),
         UNCHANGED <<pc, call, arg, newchoice, mutex, was_signalled_map>>
  PROVE  Moves(t)
BY NoTimeout DEF Moves, Running, SameControl, PlainInv, ActivePC

\* The calls of the application, one by one.
LEMMA AppStepMoves ==
  ASSUME PlainProgram, ImplInv, NEW t \in Tid, AppStep(t), ~BeforeCreate(t)
  PROVE  Moves(t) \/ status' # "running"
<1>1. TypeOK /\ PlainInv
  BY DEF ImplInv, TrackInv, HandshakeInv, SerialInv
<1>2. ASSUME SchedPoint(t) PROVE Moves(t)
  BY <1>1, <1>2, GoesTo DEF SchedPoint, condVars, lockVars
<1>3. CASE MyMemoryAccess(t) \/ SimulateSleep(t) \/ thrilleCheckpoint(t) \/ thrilleSchedPoint(t)
  BY <1>2, <1>3 DEF MyMemoryAccess, SimulateSleep, thrilleCheckpoint, thrilleSchedPoint, Halt
<1>4. CASE ProgramError(t) \/ InvalidMutexFault(t)
  BY <1>4 DEF ProgramError, InvalidMutexFault, Halt
<1>5. CASE ThreadFinish(t) \/ SimulateExit(t)
  <2>1. Running(t) /\ finalizeThread(t)
    BY <1>5 DEF ThreadFinish, SimulateExit
  <2> QED
    BY <1>1, <2>1, GoesTo DEF finalizeThread, condVars, lockVars
<1>6. CASE BeforeJoin(t)
  <2>1. PICK u \in Tid : /\ Goto(t, "paused", "join", u) /\ UNCHANGED <<newchoice, mutex>>
                         /\ Schedule \/ Halt("assert")
    BY <1>6 DEF BeforeJoin, condVars, lockVars
  <2>2. Running(t)
    BY <1>6 DEF BeforeJoin
  <2> QED
    BY <1>1, <2>1, <2>2, GoesTo DEF Halt
<1>7. CASE BeforeMutexLock(t) \/ BeforeMutexTrylock(t)
  <2>1. PICK m \in Mutex, c \in {"lock", "trylock"} :
          Goto(t, "paused", c, m) /\ UNCHANGED <<newchoice, mutex>> /\ Schedule
    BY <1>7 DEF BeforeMutexLock, BeforeMutexTrylock, condVars, lockVars
  <2>2. Running(t)
    BY <1>7 DEF BeforeMutexLock, BeforeMutexTrylock
  <2> QED
    BY <1>1, <2>1, <2>2, GoesTo
<1>8. CASE MutexUnlock(t)
  <2>1. PICK m \in Mutex : mutex' = [mutex EXCEPT ![m] = FREE] /\ Goto(t, "unlocking", "none", m)
    BY <1>8 DEF MutexUnlock
  <2>2. \A x \in Mutex : mutex'[x] \in {mutex[x], FREE}
    BY <1>1, <2>1 DEF TypeOK, AllMutex
  <2>3. Running(t) /\ UNCHANGED <<newchoice, was_signalled_map>>
    BY <1>8 DEF MutexUnlock, condVars, launchVars
  <2> QED
    BY <1>1, <2>1, <2>2, <2>3, GoesTo
<1>9. ~SimulateMutexDestroy(t) /\ ~BeforeMutexInit(t) /\ ~BeforeSemWait(t)
  BY DEF SimulateMutexDestroy, BeforeMutexInit, BeforeSemWait, PlainProgram
<1>10. CASE SimulateCondWait(t) \/ SimulateCondTimedwait(t)
  <2>1. PICK kind \in {"condwait", "timedwait"} : EnterWait(t, kind)
    BY <1>10 DEF SimulateCondWait, SimulateCondTimedwait
  <2>2. Running(t) /\ UNCHANGED newchoice
    BY <2>1 DEF EnterWait
  <2>3. ASSUME NEW m \in Mutex, mutex' = [mutex EXCEPT ![m] = FREE], Schedule, Goto(t, "cwait", kind, m)
        PROVE  Moves(t)
    <3>1. \A x \in Mutex : mutex'[x] \in {mutex[x], FREE}
      BY <1>1, <2>3 DEF TypeOK, AllMutex
    <3> QED
      BY <1>1, <2>2, <2>3, <3>1, GoesTo
  <2> QED
    BY <2>1, <2>3 DEF EnterWait, Halt
<1>11. CASE BeforeCondSignal(t, "signal") \/ BeforeCondSignal(t, "broadcast")
  <2>1. PICK kind \in {"signal", "broadcast"} : BeforeCondSignal(t, kind)
    BY <1>11
  <2>2. Running(t) /\ UNCHANGED mutex
    BY <2>1 DEF BeforeCondSignal, lockVars
  <2>3. ASSUME NEW c \in Cond, NextTarget(t, c, kind), UNCHANGED launchVars
        PROVE  Moves(t)
    <3>1. PICK p \in {"sigend", "sigwake"} : Goto(t, p, kind, c)
      BY <2>3 DEF NextTarget
    <3>2. \A u \in Tid \ {t} : newchoice'[u] = newchoice[u]
      BY <1>1, <2>3 DEF NextTarget, TypeOK
    <3> QED
      BY <1>1, <2>2, <2>3, <3>1, <3>2, GoesTo DEF launchVars
  <2> QED
    BY <2>1, <2>3 DEF BeforeCondSignal, Halt
<1>12. CASE SimulateCondDestroy(t) \/ BeforeCondInit(t)
  BY <1>1, <1>12, StaysIn DEF SimulateCondDestroy, BeforeCondInit, lockVars, controlVars, launchVars
<1>13. CASE SimulateSemPost(t)
  <2>1. Running(t) /\ UNCHANGED <<newchoice, mutex>>
    BY <1>13 DEF SimulateSemPost, condVars, lockVars
  <2>2. Halt("misuse") \/ (Goto(t, "paused", "point", NULL) /\ Schedule)
    BY <1>13 DEF SimulateSemPost
  <2> QED
    BY <1>1, <2>1, <2>2, GoesTo DEF Halt
<1>14. CASE SimulateSemDestroy(t) \/ BeforeSemInit(t) \/ BeforeBarrierInit(t) \/ SimulateBarrierDestroy(t)
  BY <1>1, <1>14, StaysIn DEF SimulateSemDestroy, BeforeSemInit, BeforeBarrierInit, SimulateBarrierDestroy,
                              condVars, lockVars, controlVars, launchVars
<1>15. CASE BeforeBarrierWait(t)
  <2>1. Running(t) /\ UNCHANGED <<newchoice, mutex>> /\ Goto(t, "paused", "point", NULL)
    BY <1>15 DEF BeforeBarrierWait, condVars, lockVars
  <2>2. Schedule \/ status' # "running"
    BY <1>15 DEF BeforeBarrierWait, BarrierOpens, BarrierBlocks, Halt
  <2> QED
    BY <1>1, <2>1, <2>2, GoesTo
<1> QED
  BY <1>3, <1>4, <1>5, <1>6, <1>7, <1>8, <1>9, <1>10, <1>11, <1>12, <1>13, <1>14, <1>15 DEF AppStep

\* The library, step by step.
LEMMA LibStepMoves ==
  ASSUME PrivateCleanup, ImplInv, NEW t \in Tid, LibStep(t) \/ CleanupLock(t)
  PROVE  Moves(t)
<1>1. status = "running"
  BY DEF LibStep, pauseThread, AfterCreate, ThreadStart, JoinReturns, CleanupLock, CleanupUnlock,
         ThreadDies, SimulateMutexLock, SimulateMutexTrylock, AfterMutexUnlock, waitPauseThread,
         LeaveCond, BeforeRelock, signalThreadReady, TimedwaitEnd, scheduleThreadWaitingOnCond,
         waitThreadReady, SignalEnd, SimulateSemWait
<1>2. TypeOK /\ HandshakeInv /\ Tracked(t)
  BY <1>1, RunningFacts DEF ImplInv
<1>3. call[t] # "semwait"
  BY <1>1 DEF ImplInv, PlainInv
<1>4. ASSUME NEW p, NEW c, NEW o, Goto(t, p, c, o), p # "sigwait", c # "semwait",
             pc[t] \in ActivePC \/ c = call[t] \/ call[t] # "timedwait",
             UNCHANGED <<cond_map, newchoice>>,
             \A m \in Mutex : mutex'[m] \in {mutex[m], FREE} \cup Tid, TimesOutEnabled
      PROVE  Moves(t)
  BY <1>1, <1>2, <1>4, OnlyMoves DEF Moves
<1>5. CASE pauseThread(t)
  <2>1. UNCHANGED <<cond_map, newchoice, mutex, was_signalled_map>>
    BY <1>5 DEF pauseThread, condVars, lockVars
  <2>2. CASE call[t] = "point"
    BY <1>4, <1>5, <2>1, <2>2, NoTimeout DEF pauseThread
  <2>3. CASE call[t] # "point"
    <3>1. PICK p \in {"joining", "launched"} : Goto(t, p, call[t], arg[t])
      <4>1. CASE call[t] = "join"
        BY <1>5, <4>1 DEF pauseThread, Step
      <4>2. CASE call[t] # "join"
        BY <1>5, <2>3, <4>2 DEF pauseThread, Step
      <4> QED
        BY <4>1, <4>2
    <3> QED
      BY <1>3, <1>4, <2>1, <3>1, NoTimeout
  <2> QED
    BY <2>2, <2>3
<1>6. CASE AfterCreate(t) \/ AfterMutexUnlock(t) \/ SignalEnd(t)
  <2>1. /\ pc[t] \in ActivePC /\ UNCHANGED <<cond_map, newchoice, mutex>> /\ Schedule
        /\ Goto(t, "paused", "point", NULL)
    BY <1>6 DEF AfterCreate, AfterMutexUnlock, SignalEnd, condVars, lockVars, ActivePC
  <2>2. TimesOutEnabled
    BY <1>2, <2>1, ScheduleTimesOut DEF Schedule
  <2> QED
    BY <1>4, <2>1, <2>2
<1>7. CASE ThreadStart(t)
  <2>1. call[t] = "none" /\ UNCHANGED <<cond_map, newchoice, mutex, was_signalled_map>>
    BY <1>2, <1>7 DEF ThreadStart, Tracked, CallExact, condVars, lockVars, launchVars
  <2> QED
    BY <1>4, <1>7, <2>1, NoTimeout DEF ThreadStart
<1>8. CASE JoinReturns(t)
  <2>1. pc[t] \in ActivePC /\ UNCHANGED <<cond_map, newchoice, mutex, was_signalled_map>>
    BY <1>8 DEF JoinReturns, condVars, lockVars, launchVars, ActivePC
  <2> QED
    BY <1>4, <1>8, <2>1, NoTimeout DEF JoinReturns
<1>9. CASE CleanupLock(t) \/ CleanupUnlock(t) \/ ThreadDies(t)
  <2>1. call[t] = "none" /\ UNCHANGED <<cond_map, newchoice, was_signalled_map>>
    BY <1>2, <1>9 DEF CleanupLock, CleanupUnlock, ThreadDies, Tracked, CallExact, DonePC, condVars, launchVars
  <2>2. \A m \in Mutex : mutex'[m] = mutex[m]
    BY <1>2, <1>9, CleanupApart
  <2>3. PICK p \in DonePC, o \in CleanupMutex \cup {NULL} : Goto(t, p, "none", o)
    BY <1>9 DEF CleanupLock, CleanupUnlock, ThreadDies, DonePC
  <2> QED
    BY <1>4, <2>1, <2>2, <2>3, NoTimeout DEF DonePC
<1>10. CASE SimulateMutexLock(t) \/ SimulateMutexTrylock(t)
  <2>1. /\ pc[t] \in ActivePC /\ UNCHANGED <<cond_map, newchoice, was_signalled_map>>
        /\ TryAcquire(t, arg[t]) /\ Goto(t, "app", "none", NULL)
    BY <1>10 DEF SimulateMutexLock, SimulateMutexTrylock, condVars, launchVars, ActivePC
  <2>2. \A m \in Mutex : mutex'[m] \in {mutex[m]} \cup Tid
    BY <1>2, <2>1 DEF TryAcquire, TypeOK, AllMutex
  <2> QED
    BY <1>4, <2>1, <2>2, NoTimeout
<1>11. CASE waitPauseThread(t) \/ BeforeRelock(t) \/ signalThreadReady(t)
  <2>1. UNCHANGED <<cond_map, newchoice, mutex, was_signalled_map>>
    BY <1>11 DEF waitPauseThread, BeforeRelock, signalThreadReady, condVars, lockVars, launchVars
  <2>2. PICK p \in {"woken", "ready", "timed", "paused"} : Goto(t, p, call[t], arg[t])
    BY <1>11 DEF waitPauseThread, BeforeRelock, signalThreadReady, Step
  <2> QED
    BY <1>3, <1>4, <2>1, <2>2, NoTimeout
<1>12. CASE TimedwaitEnd(t)
  <2>1. UNCHANGED <<cond_map, newchoice, mutex>> /\ Goto(t, "paused", call[t], arg[t])
    BY <1>12 DEF TimedwaitEnd, condVars, lockVars, Step
  <2>2. TimesOutEnabled
    BY <1>2, <1>12, NoTimeout, ScheduleTimesOut DEF TimedwaitEnd, launchVars
  <2> QED
    BY <1>3, <1>4, <2>1, <2>2
<1>13. CASE LeaveCond(t)
  <2>1. UNCHANGED <<newchoice, mutex, was_signalled_map>> /\ Goto(t, "relock", call[t], arg[t])
    BY <1>13 DEF LeaveCond, lockVars, launchVars, Step
  <2>2. \A u \in Tid : cond_map'[u] \in {cond_map[u], NULL}
    BY <1>2, <1>13 DEF LeaveCond, TypeOK
  <2> QED
    BY <1>1, <1>2, <1>3, <2>1, <2>2, OnlyMoves, NoTimeout DEF Moves
<1>14. CASE scheduleThreadWaitingOnCond(t)
  <2>1. /\ pc[t] = "sigwake" /\ UNCHANGED <<cond_map, newchoice, mutex, was_signalled_map>>
        /\ Goto(t, "sigwait", call[t], arg[t])
    BY <1>14 DEF scheduleThreadWaitingOnCond, lockVars, Step
  <2>2. cond_map[newchoice[t]] = arg[t]
    BY <1>1, <1>2, <2>1 DEF HandshakeInv, Handshake, TargetWaits
  <2>3. PostsItsOwn(t)'
    BY <1>2, <2>1, <2>2, OnlyMoves DEF PostsItsOwn
  <2> QED
    BY <1>1, <1>2, <1>3, <2>1, <2>3, OnlyMoves, NoTimeout DEF Moves
<1>15. CASE waitThreadReady(t)
  <2>1. UNCHANGED <<cond_map, mutex, was_signalled_map>>
    BY <1>15 DEF waitThreadReady, lockVars, launchVars
  <2>2. PICK p \in {"sigwake", "sigend"} : Goto(t, p, call[t], arg[t])
    BY <1>15 DEF waitThreadReady, NextTarget, Step
  <2>3. \A u \in Tid \ {t} : newchoice'[u] = newchoice[u]
    BY <1>2, <1>15 DEF waitThreadReady, NextTarget, TypeOK
  <2> QED
    BY <1>1, <1>2, <1>3, <2>1, <2>2, <2>3, OnlyMoves, NoTimeout DEF Moves
<1>16. ~SimulateSemWait(t)
  BY <1>3 DEF SimulateSemWait
<1> QED
  BY <1>5, <1>6, <1>7, <1>8, <1>9, <1>10, <1>11, <1>12, <1>13, <1>14, <1>15, <1>16 DEF LibStep

\* The invariant survives a step.  A thread that times out is enabled while it
\* waits, so its wait is a timed one; while a signaller waits for its target
\* nobody starts to wait.
LEMMA MovesKept ==
  ASSUME ImplInv, TrackInv', status' = "running", NEW t \in Tid, Moves(t)
  PROVE  PlainInv' /\ WakeInv'
<1>1. TypeOK /\ HandshakeInv /\ status = "running"
  BY RunningFacts DEF ImplInv, Moves
<1>2. TypeOK' /\ HandshakeInv' /\ \A u \in Tid : Tracked(u)'
  BY DEF TrackInv, AllTracked, HandshakeInv, SerialInv
<1>3. PlainInv'
  <2>1. \A m \in Mutex : mutex'[m] # DESTROYED
    BY <1>1, ConstantsAssumption DEF Moves, ImplInv, PlainInv, Tid, FREE, DESTROYED
  <2>2. \A u \in Tid : call'[u] # "semwait"
    BY <1>1 DEF Moves, ImplInv, PlainInv, SameControl
  <2> QED
    BY <2>1, <2>2 DEF PlainInv
<1>4. ASSUME NEW u \in Tid, ~was_signalled_map'[u]
      PROVE  call'[u] = "timedwait"
  <2>1. CASE enable_map'[u] /\ cond_map'[u] # NULL
    <3>1. pc'[u] \in {"cwait", "woken"} /\ call'[u] \in {"condwait", "timedwait"}
      BY <1>2, <2>1 DEF HandshakeInv, Handshake, CondMapExact, TypeOK, ArgOK
    <3>2. EnableExact(u)'
      BY <1>2 DEF Tracked
    <3> QED
      BY <2>1, <3>1, <3>2 DEF EnableExact, Blocked
  <2>2. CASE ~was_signalled_map[u]
    <3>1. call[u] = "timedwait"
      BY <1>1, <2>2 DEF ImplInv, WakeInv, TimeoutIsTimed
    <3>2. pc[u] \notin ActivePC
      BY <1>1, <2>2, OneForm DEF HandshakeInv, HasBaton
    <3> QED
      BY <3>1, <3>2 DEF Moves, SameControl
  <2> QED
    BY <1>4, <2>1, <2>2 DEF Moves, TimesOutEnabled
<1>5. ASSUME NEW u \in Tid, pc'[u] = "sigwait"
      PROVE  PostsItsOwn(u)'
  <2>1. CASE u = t
    BY <1>5, <2>1 DEF Moves
  <2>2. CASE u # t
    <3>1. SameControl(u) /\ newchoice'[u] = newchoice[u]
      BY <2>2 DEF Moves
    <3>2. pc[u] = "sigwait" /\ newchoice[u] \in Tid /\ PostsItsOwn(u)
      BY <1>1, <1>5, <3>1 DEF SameControl, TypeOK, ArgOK, ImplInv, WakeInv
    <3>3. pc[t] # "app"
      BY <1>1, <2>2, <3>2, OneForm DEF HandshakeInv, HasBaton, ActivePC
    <3> QED
      BY <3>1, <3>2, <3>3 DEF Moves, PostsItsOwn, SameControl
  <2> QED
    BY <2>1, <2>2
<1>6. WakeInv'
  BY <1>4, <1>5 DEF WakeInv, TimeoutIsTimed, PostsItsOwn
<1> QED
  BY <1>3, <1>6

\* pthread_create: nobody waits for a target and no timeout is pending.
LEMMA CreateImplKept ==
  ASSUME ImplInv, TrackInv', NEW t \in Tid, BeforeCreate(t)
  PROVE  PlainInv' /\ WakeInv'
<1>1. status = "running" /\ status' = "running" /\ pc[t] = "app" /\ UNCHANGED <<mutex, call>>
  BY DEF BeforeCreate, Running
<1>2. TypeOK /\ HandshakeInv
  BY <1>1, RunningFacts DEF ImplInv
<1>3. PICK child \in Tid : child = curr_id + 1
  BY <1>2, ConstantsAssumption DEF BeforeCreate, TypeOK, Tid
<1>4. \A u \in Tid : was_signalled_map[u] = TRUE
  BY <1>1, <1>2, OneForm DEF HandshakeInv, HasBaton, ActivePC, TypeOK
<1>5. \A u \in Tid : was_signalled_map'[u] = TRUE
  BY <1>2, <1>3, <1>4 DEF BeforeCreate, TypeOK
<1>6. \A u \in Tid : pc'[u] # "sigwait"
  <2>1. \A u \in Tid : pc[u] # "sigwait"
    BY <1>1, <1>2, OneForm DEF HandshakeInv, HasBaton, ActivePC
  <2> QED
    BY <1>2, <1>3, <2>1 DEF BeforeCreate, TypeOK
<1> QED
  BY <1>1, <1>5, <1>6 DEF ImplInv, PlainInv, WakeInv, TimeoutIsTimed, PostsItsOwn

\* Every step preserves the invariant.
LEMMA ImplNext ==
  ASSUME PrivateCleanup, PlainProgram
  PROVE  ImplInv /\ [Next]_vars => ImplInv'
<1> SUFFICES ASSUME ImplInv, [Next]_vars PROVE ImplInv'
  OBVIOUS
<1>1. TrackInv'
  BY TrackNext DEF ImplInv
<1>2. CASE status' # "running"
  BY <1>1, <1>2 DEF ImplInv, PlainInv, WakeInv
<1>3. CASE status' = "running"
  <2>1. ASSUME NEW t \in Tid, BeforeCreate(t) PROVE PlainInv' /\ WakeInv'
    BY <1>1, <2>1, CreateImplKept
  <2>2. ASSUME NEW t \in Tid, AppStep(t), ~BeforeCreate(t) PROVE PlainInv' /\ WakeInv'
    BY <1>1, <1>3, <2>2, AppStepMoves, MovesKept
  <2>3. ASSUME NEW t \in Tid, LibStep(t) \/ CleanupLock(t) PROVE PlainInv' /\ WakeInv'
    BY <1>1, <1>3, <2>3, LibStepMoves, MovesKept
  <2>4. ASSUME MainReturns PROVE PlainInv' /\ WakeInv'
    BY <1>3, <2>4 DEF MainReturns, Halt
  <2>5. ASSUME UNCHANGED vars PROVE PlainInv' /\ WakeInv'
    <3>1. UNCHANGED <<status, mutex, call, arg, pc, cond_map, newchoice, was_signalled_map>>
      BY <2>5 DEF vars, lockVars, condVars, launchVars, controlVars
    <3>2. PlainInv'
      BY <3>1 DEF ImplInv, PlainInv
    <3>3. WakeInv'
      <4>1. SUFFICES ASSUME NEW t \in Tid PROVE TimeoutIsTimed(t)' /\ PostsItsOwn(t)'
        BY DEF WakeInv
      <4>2. TimeoutIsTimed(t) /\ PostsItsOwn(t)
        BY <1>3, <3>1 DEF ImplInv, WakeInv
      <4> QED
        BY <3>1, <4>2 DEF TimeoutIsTimed, PostsItsOwn
    <3> QED
      BY <3>2, <3>3
  <2>6. PlainInv' /\ WakeInv'
    <3>1. ASSUME NEW t \in Tid, AppStep(t) \/ LibStep(t) \/ CleanupLock(t) PROVE PlainInv' /\ WakeInv'
      BY <2>1, <2>2, <2>3, <3>1
    <3> QED
      BY <2>4, <2>5, <3>1 DEF Next, Ended
  <2> QED
    BY <1>1, <2>6 DEF ImplInv
<1> QED
  BY <1>2, <1>3

\* It holds at first.
LEMMA ImplInit == Init => ImplInv
<1> SUFFICES ASSUME Init PROVE ImplInv
  OBVIOUS
<1>1. TrackInv
  BY TrackInit
<1>2. PlainInv
  BY DEF Init, PlainInv, AllMutex, FREE, DESTROYED
<1>3. WakeInv
  <2>1. \A t \in Tid : was_signalled_map[t] /\ pc[t] # "sigwait"
    BY DEF Init
  <2> QED
    BY <2>1 DEF WakeInv, TimeoutIsTimed, PostsItsOwn
<1> QED
  BY <1>1, <1>2, <1>3 DEF ImplInv

\* The serializer is a machine with one processor to a program that uses
\* threads, mutexes, condition variables and barriers: executiontracker.cpp,
\* with its maps, private semaphores and handshakes, implements PthreadMachine.
THEOREM ImplementsAlways ==
  ASSUME PrivateCleanup, PlainProgram
  PROVE  Spec => Implements
<1>1. ImplInv /\ [Next]_vars => MachineStep
  BY StepImplements
<1>2. ImplInv /\ [Next]_vars => ImplInv'
  BY ImplNext
<1>3. Init => ImplInv /\ Machine!Init
  BY ImplInit, InitImplements
<1> QED
  BY <1>1, <1>2, <1>3, PTL DEF Spec, Implements, Machine!Spec, MachineStep

=============================================================================
