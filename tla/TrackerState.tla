---------------------------- MODULE TrackerState ----------------------------
(***************************************************************************)
(* The state of the serializer's ExecutionTracker and the scheduling       *)
(* primitives every intercepted pthread call uses.                         *)
(*                                                                         *)
(* The serializer lets one application thread run at a time.  Each         *)
(* intercepted call updates the tracker's maps, picks the next thread      *)
(* (schedule), posts that thread's private semaphore (launchThread) and    *)
(* then waits on its own (pauseThread).  A section between glock() and     *)
(* gunlock() is one action; the code that runs outside these sections is   *)
(* made of actions of its own.                                             *)
(***************************************************************************)
EXTENDS Integers, FiniteSets

CONSTANTS
  MaxTid,        \* thread ids are 0..MaxTid, 0 is the main thread
  Mutex,         \* the mutexes the application uses ...
  CleanupMutex,  \* ... and those a finishing thread takes on its way out
  Cond, Sem, Barrier,
  NULL,          \* the null pointer of the tracker's maps
  MaxSem,        \* bound: a semaphore is not posted beyond this value
  Ops,           \* the calls the modelled application makes
  Policy         \* "first": ExecutionTracker's choice, the lowest id;
                 \* "any": RandomTracker's, or one read from a schedule file

ASSUME ConstantsAssumption ==
  /\ MaxTid \in Nat
  /\ MaxSem \in Nat
  /\ NULL \notin Mutex \cup CleanupMutex \cup Cond \cup Sem \cup Barrier
  /\ Policy \in {"first", "any"}

VARIABLES
  \* --- maps of ExecutionTracker, indexed by thread id ---
  curr_id,            \* ThreadTracker: the last id handed out
  enable_map, finish_map,
  join_map,           \* the thread that joins, or UNJOINED
  lock_ready_map, lock_wait_map,
  sem_ready_map, sem_wait_map,
  cond_map,           \* the condition variable a thread waits on
  wait_ready_map,     \* handshake between a signaller and its target
  was_signalled_map,  \* FALSE: a timed wait is being resumed by a timeout
  sem_map,            \* value of the semaphore of pauseThread
  wait_sem_map,       \* value of the semaphore of waitPauseThread
  thread_map,         \* BarrierTracker: the barrier a thread waits on
  barrier_count,      \* BarrierTracker: bar_info, 0 when not initialised
  mutex_destroy, cond_destroy, sem_destroy, barrier_destroy,
  \* --- the real objects behind Originals:: ---
  mutex,              \* owner, FREE or DESTROYED
  semval,
  \* --- control ---
  pc, call, arg,      \* where a thread is, in which call, on which object
  newchoice,          \* the thread a signaller is waking
  joined,             \* threads somebody has called pthread_join on
  status              \* how the process is doing

INVALID_THREAD == -1
UNJOINED == -1
FREE == -1
DESTROYED == -2

Tid == 0..MaxTid
AllMutex == Mutex \cup CleanupMutex
Object == AllMutex \cup Cond \cup Sem \cup Barrier

threadVars  == <<curr_id, finish_map, join_map, joined>>
lockVars    == <<lock_ready_map, lock_wait_map, mutex, mutex_destroy>>
semVars     == <<sem_ready_map, sem_wait_map, semval, sem_destroy>>
condVars    == <<cond_map, wait_ready_map, newchoice, cond_destroy>>
barrierVars == <<thread_map, barrier_count, barrier_destroy>>
launchVars  == <<sem_map, wait_sem_map, was_signalled_map, status>>
controlVars == <<pc, call, arg>>
vars == <<threadVars, lockVars, semVars, condVars, barrierVars, launchVars,
          controlVars, enable_map>>

(***************************************************************************)
(* Program counters.  "app" is application code; "paused" is the sem_wait  *)
(* of pauseThread and "cwait" that of waitPauseThread; "launched" is the   *)
(* return from pauseThread, before the Simulate half of a call.            *)
(***************************************************************************)
PC == {"none", "starting", "app", "paused", "launched", "creating",
       "unlocking", "joining", "cwait", "woken", "relock", "ready", "timed",
       "sigwake", "sigwait", "sigend", "finishing", "cleanup", "dead"}

Calls == {"none", "point", "lock", "trylock", "semwait", "join", "condwait",
          "timedwait", "signal", "broadcast"}

\* "assert" is a failed safe_assert about the tracker's own state, "misuse" one
\* about the program's use of an object, "error" a failure of the program.
Status == {"running", "exited", "deadlock", "assert", "misuse", "error"}

Running(t) == status = "running" /\ pc[t] = "app"

\* The thread t leaves for control point p in call c on object o.
Goto(t, p, c, o) ==
  /\ pc' = [pc EXCEPT ![t] = p]
  /\ call' = [call EXCEPT ![t] = c]
  /\ arg' = [arg EXCEPT ![t] = o]

Step(t, p) == Goto(t, p, call[t], arg[t])

\* The process is over: a failed safe_assert, an error or the end of main.
Halt(s) ==
  /\ status' = s
  /\ UNCHANGED <<sem_map, wait_sem_map, was_signalled_map>>

(***************************************************************************)
(* pickNextSchedulingChoice                                                *)
(***************************************************************************)
EnabledThreads == {u \in Tid : enable_map[u]}

pickNextSchedulingChoice(n) ==
  /\ n \in EnabledThreads
  /\ Policy = "any" \/ \A u \in EnabledThreads : n <= u

\* Mutant: every thread is resumed through the semaphore of pauseThread.
launchThread_IgnoreCond(n, cm, ws) ==
  /\ UNCHANGED <<status, wait_sem_map>>
  /\ sem_map' = [sem_map EXCEPT ![n] = @ + 1]
  /\ was_signalled_map' = ws

(***************************************************************************)
(* launchThread: a thread whose cond_map entry is set is resumed through   *)
(* the semaphore of its wait, as a timeout; any other through pauseThread. *)
(* ws is was_signalled_map with what the caller assigns to it.             *)
(***************************************************************************)
launchThread(n, cm, ws) ==
  /\ UNCHANGED status
  /\ IF cm[n] # NULL
     THEN /\ was_signalled_map' = [ws EXCEPT ![n] = FALSE]
          /\ wait_sem_map' = [wait_sem_map EXCEPT ![n] = @ + 1]
          /\ UNCHANGED sem_map
     ELSE /\ sem_map' = [sem_map EXCEPT ![n] = @ + 1]
          /\ was_signalled_map' = ws
          /\ UNCHANGED wait_sem_map

(***************************************************************************)
(* schedule, called after the caller has updated enable_map and cond_map.  *)
(* deadlockCheck ends the process when nobody is enabled.                  *)
(***************************************************************************)
ScheduleWith(ws) ==
  \/ EnabledThreads' = {} /\ Halt("deadlock")
  \/ \E n \in Tid : pickNextSchedulingChoice(n)' /\ launchThread(n, cond_map', ws)

Schedule == ScheduleWith(was_signalled_map)

\* Mutant: the semaphore is taken without waiting for it to be posted.
pauseThread_NoWait(t) ==
  /\ status = "running"
  /\ pc[t] = "paused"
  /\ sem_map' = [sem_map EXCEPT ![t] = @ - 1]
  /\ Step(t, "launched")
  /\ UNCHANGED <<wait_sem_map, was_signalled_map, status, enable_map,
                 threadVars, lockVars, semVars, condVars, barrierVars>>

(***************************************************************************)
(* pauseThread returns: the thread goes on with the call it was paused in. *)
(***************************************************************************)
pauseThread(t) ==
  /\ status = "running"
  /\ pc[t] = "paused"
  /\ sem_map[t] > 0
  /\ sem_map' = [sem_map EXCEPT ![t] = @ - 1]
  /\ CASE call[t] = "point" -> Goto(t, "app", "none", NULL)
       [] call[t] = "join"  -> Step(t, "joining")
       [] OTHER             -> Step(t, "launched")
  /\ UNCHANGED <<wait_sem_map, was_signalled_map, status, enable_map,
                 threadVars, lockVars, semVars, condVars, barrierVars>>

(***************************************************************************)
(* Scheduling points without a synchronization object: memory accesses,    *)
(* sleep and usleep, thrilleCheckpoint; thrilleSchedPoint also asserts     *)
(* that the caller is enabled.                                             *)
(***************************************************************************)
SchedPoint(t) ==
  /\ Running(t)
  /\ UNCHANGED <<enable_map, threadVars, lockVars, semVars, condVars, barrierVars>>
  /\ Schedule
  /\ Goto(t, "paused", "point", NULL)

MyMemoryAccess(t) == "memory" \in Ops /\ SchedPoint(t)

SimulateSleep(t) == "sleep" \in Ops /\ SchedPoint(t)

thrilleCheckpoint(t) == "checkpoint" \in Ops /\ SchedPoint(t)

thrilleSchedPoint(t) ==
  /\ "point" \in Ops
  /\ Running(t)
  /\ IF enable_map[t]
     THEN SchedPoint(t)
     ELSE /\ Halt("assert")
          /\ UNCHANGED <<enable_map, threadVars, lockVars, semVars, condVars,
                         barrierVars, controlVars>>

\* thrilleAssert(false) or a segmentation fault of the application.
ProgramError(t) ==
  /\ Running(t)
  /\ "error" \in Ops
  /\ Halt("error")
  /\ UNCHANGED <<enable_map, threadVars, lockVars, semVars, condVars,
                 barrierVars, controlVars>>

=============================================================================
