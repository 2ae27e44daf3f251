---------------------------- MODULE SerialProgram ----------------------------
(***************************************************************************)
(* A program under a serializing tracker, one scheduling point at a time.  *)
(*                                                                         *)
(* ExecutionTracker lets one thread run at once (SerializedAlways), so     *)
(* what a thread does between two scheduling points is one step here: a    *)
(* state s is the state of program and tracker at a scheduling point, and  *)
(* the operators below are the functions of state to state from which the  *)
(* replaying, the active-testing and the searching trackers are built.     *)
(*                                                                         *)
(* A program gives each thread a sequence of operations [op, obj, at]: at  *)
(* is the return address of the call, the id of its scheduling points.     *)
(***************************************************************************)
EXTENDS Integers, Sequences, FiniteSets

CONSTANTS
  MaxThread,   \* threads are 0..MaxThread, 0 is the main thread
  Mutex, Cond

ASSUME ProgramAssumption == MaxThread \in Nat

Thread == 0..MaxThread
NULL == "NULL"
INVALID_THREAD == -1
Main == 0

\* The scheduling points of a thread's end have an address of their own.
FinishAddr == 0

\* The first scheduling point, after all threads have been created.
Initial(prog) ==
  [prog |-> prog, pc |-> [t \in Thread |-> 0],
   owner |-> [m \in Mutex |-> INVALID_THREAD],
   enabled |-> Thread,
   lock_wait_map |-> [t \in Thread |-> NULL],
   lock_ready_map |-> [t \in Thread |-> NULL],
   cond_map |-> [t \in Thread |-> NULL],
   relock |-> {}]        \* threads past the wait of a condition variable

Finished(s, t) == s.pc[t] > Len(s.prog[t])
Op(s, t) == s.prog[t][s.pc[t]]
InOp(s, t) == s.pc[t] \in DOMAIN s.prog[t]

\* A wait names its condition variable in obj and its mutex in lock.
OnCond(s, c) == {t \in Thread : s.cond_map[t] = c}

-----------------------------------------------------------------------------
enableThread(s, t) == [s EXCEPT !.enabled = @ \cup {t}]
disableThread(s, t) == [s EXCEPT !.enabled = @ \ {t}]

determineLockStatus(s, t, l) ==
  IF s.owner[l] = INVALID_THREAD
    THEN [enableThread(s, t) EXCEPT !.lock_ready_map[t] = l]
    ELSE [disableThread(s, t) EXCEPT !.lock_wait_map[t] = l]

\* threadHasAcquiredLock and the real trylock: the others that were ready for
\* the mutex wait for it.
threadHasAcquiredLock(s, t, l) ==
  LET others == {u \in Thread \ {t} : s.lock_ready_map[u] = l}
  IN  [s EXCEPT !.owner[l] = t,
                !.enabled = @ \ others,
                !.lock_wait_map = [u \in Thread |-> IF u \in others THEN l ELSE @[u]],
                !.lock_ready_map = [u \in Thread |-> IF u \in others \cup {t} THEN NULL ELSE @[u]]]

threadHasReleasedLock(s, l) ==
  LET woken == {u \in Thread : s.lock_wait_map[u] = l}
  IN  [s EXCEPT !.owner[l] = INVALID_THREAD,
                !.enabled = @ \cup woken,
                !.lock_ready_map = [u \in Thread |-> IF u \in woken THEN l ELSE @[u]],
                !.lock_wait_map = [u \in Thread |-> IF u \in woken THEN NULL ELSE @[u]]]

\* Waiters leave their condition variable, and each gets in line for its mutex
\* as by determineLockStatus.
leaveCond(s, waiters) ==
  LET lock(t) == Op(s, t).lock
      ready == {t \in waiters : s.owner[lock(t)] = INVALID_THREAD}
  IN  [s EXCEPT !.cond_map = [t \in Thread |-> IF t \in waiters THEN NULL ELSE @[t]],
                !.relock = @ \cup waiters,
                !.enabled = (@ \ waiters) \cup ready,
                !.lock_ready_map = [t \in Thread |-> IF t \in ready THEN lock(t) ELSE @[t]],
                !.lock_wait_map = [t \in Thread |-> IF t \in waiters \ ready THEN lock(t) ELSE @[t]]]

\* pthread_cond_wait and pthread_cond_timedwait up to their scheduling point.
enterCond(s, t, o) ==
  LET r == threadHasReleasedLock(s, o.lock)
      w == [r EXCEPT !.cond_map[t] = o.obj]
  IN  IF o.op = "wait" THEN disableThread(w, t) ELSE enableThread(w, t)

\* The end of thread t: its joiners may go on.
threadFinish(s, t) ==
  [s EXCEPT !.enabled = (@ \ {t}) \cup
     {u \in Thread : InOp(s, u) /\ Op(s, u).op = "join" /\ Op(s, u).obj = t}]

-----------------------------------------------------------------------------
\* Thread t, which has the baton, ends the operation it was paused in.
Complete(s, t) ==
  IF ~InOp(s, t) THEN s
  ELSE LET o == Op(s, t)
       IN  CASE o.op = "lock" -> threadHasAcquiredLock(s, t, o.obj)
             [] o.op = "trylock" /\ s.owner[o.obj] = INVALID_THREAD ->
                  threadHasAcquiredLock(s, t, o.obj)
             [] t \in s.relock ->
                  [threadHasAcquiredLock(s, t, o.lock) EXCEPT !.relock = @ \ {t}]
             [] OTHER -> s

\* ... and goes on to the scheduling point of its next operation.  sig is the
\* waiter that a pthread_cond_signal wakes.
Arrive(s, t, sig) ==
  LET n == [s EXCEPT !.pc[t] = @ + 1]
  IN  IF Finished(n, t) THEN threadFinish(n, t)
      ELSE LET o == Op(n, t)
           IN  CASE o.op = "lock"    -> determineLockStatus(n, t, o.obj)
                 [] o.op = "trylock" -> enableThread(n, t)
                 [] o.op = "unlock"  -> threadHasReleasedLock(n, o.obj)
                 [] o.op \in {"wait", "timedwait"} -> enterCond(n, t, o)
                 [] o.op = "signal"  -> IF sig = INVALID_THREAD THEN n ELSE leaveCond(n, {sig})
                 [] o.op = "broadcast" -> leaveCond(n, OnCond(n, o.obj))
                 [] o.op = "join" ->
                      IF Finished(n, o.obj) THEN enableThread(n, t) ELSE disableThread(n, t)
                 [] OTHER -> n

\* A thread scheduled while it is still on its condition variable has timed
\* out: it gets in line for the mutex, and schedules again.
TimesOut(s, t) == s.cond_map[t] # NULL

\* A thread that polls comes back to the same scheduling point until the
\* thread it waits for has finished.
Polls(s, t) == InOp(s, t) /\ Op(s, t).op = "poll" /\ ~Finished(s, Op(s, t).obj)

Run(s, t, sig) ==
  IF TimesOut(s, t) THEN leaveCond(s, {t})
  ELSE IF Polls(s, t) THEN s
  ELSE Arrive(Complete(s, t), t, sig)

\* The operation whose scheduling point t reaches next, or is at.
NextOp(s, t) ==
  IF TimesOut(s, t) \/ Polls(s, t) THEN Op(s, t)
  ELSE IF s.pc[t] < Len(s.prog[t]) THEN s.prog[t][s.pc[t] + 1]
  ELSE [op |-> "finish", at |-> FinishAddr]

\* The waiters a signal of t may choose from.
SignalTargets(s, t) ==
  IF ~TimesOut(s, t) /\ NextOp(s, t).op = "signal" THEN OnCond(s, NextOp(s, t).obj) ELSE {}

\* The program asserts false, or its main thread returns.
Fails(s, t) == ~TimesOut(s, t) /\ NextOp(s, t).op = "fail"
Ends(s, t) == t = Main /\ NextOp(s, t).op = "finish"

=============================================================================
