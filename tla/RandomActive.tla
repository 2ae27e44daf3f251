---------------------------- MODULE RandomActive -----------------------------
(***************************************************************************)
(* Active testing of a potential race (randact): RandomLockTester and      *)
(* RandomDataTester pause a thread that reaches one of the two target      *)
(* instructions until another thread reaches a racing one.                 *)
(*                                                                         *)
(* An execution takes its targets from the head of thrille-randomactive    *)
(* and rotates the file.  A scheduling point is three steps here, all      *)
(* under the global lock: the hook of the operation, livelockPrevention,   *)
(* and the choice of pickNextSchedulingChoice.  The mutexes of the         *)
(* programs are valid ones.                                                *)
(***************************************************************************)
EXTENDS SerialProgram, TLC

CONSTANT Inputs   \* programs with a target file: [prog, targetfile]

\* A program calls each operation on an object of its kind, and only a wait
\* names a mutex besides.
IsOperation(o) ==
  /\ o.op \in {"lock", "trylock", "unlock"} => o.obj \in Mutex
  /\ o.op \in {"wait", "timedwait", "signal", "broadcast"} => o.obj \in Cond
  /\ o.op \in {"join", "poll"} => o.obj \in Thread
  /\ o.op \in {"wait", "timedwait"} <=> "lock" \in DOMAIN o
  /\ "lock" \in DOMAIN o => o.lock \in Mutex

IsCode(ops) ==
  /\ ops \in Seq({ops[i] : i \in DOMAIN ops})
  /\ \A i \in DOMAIN ops : IsOperation(ops[i])

ASSUME InputAssumption ==
  /\ NULL \notin Mutex \cup Cond
  /\ \A i \in Inputs : \A t \in Thread : IsCode(i.prog[t])

VARIABLES
  targetfile,     \* sequence of [type, iids]
  targets,        \* the entry under test
  st, cur,        \* the program, the thread with the baton
  active_testing_paused,
  active_testing_info,
  raceFound,
  phase           \* "begin", "run", "prevent", "pick" or "ended"

vars == <<targetfile, targets, st, cur, active_testing_paused, active_testing_info, raceFound, phase>>

NoInfo == [me |-> INVALID_THREAD, addr |-> NULL, iswrite |-> FALSE]

\* What the hooks of a tester change.
Tester == [st |-> st, paused |-> active_testing_paused, info |-> active_testing_info, found |-> raceFound]

Becomes(a) ==
  /\ st' = a.st
  /\ active_testing_paused' = a.paused
  /\ active_testing_info' = a.info
  /\ raceFound' = a.found

isLockRace == targets.type = "LOCK"

-----------------------------------------------------------------------------
\* Mutant: accesses to different addresses race.
racesWith_AnyAddr(i, other) == i.iswrite \/ other.iswrite

racesWith(i, other) == i.addr = other.addr /\ (i.iswrite \/ other.iswrite)

isRacing(a, potentialRace) ==
  {t \in a.paused :
     /\ Assert(a.info[t].me # INVALID_THREAD, "isRacing: paused without info")
     /\ Assert(a.info[t].me # potentialRace.me, "racesWith: a thread races with itself")
     /\ racesWith(a.info[t], potentialRace)}

\* Mutant: the version of the base class, which leaves the thread disabled.
reenableThreadIfLegal_Base(a, t) ==
  [a EXCEPT !.paused = @ \ {t}, !.st = disableThread(@, t)]

reenableThreadIfLegal(a, t) ==
  [a EXCEPT !.paused = @ \ {t},
            !.st = IF isLockRace THEN determineLockStatus(@, t, a.info[t].addr)
                                 ELSE enableThread(@, t)]

\* One after the other; each changes what is filed of its own thread only.
enableSpecificActiveTestingPaused(a, racers) ==
  LET one(t) == reenableThreadIfLegal(a, t).st
  IN  [a EXCEPT !.paused = @ \ racers,
                !.st.enabled = (@ \ racers) \cup {t \in racers : t \in one(t).enabled},
                !.st.lock_ready_map = [t \in Thread |-> IF t \in racers THEN one(t).lock_ready_map[t] ELSE @[t]],
                !.st.lock_wait_map = [t \in Thread |-> IF t \in racers THEN one(t).lock_wait_map[t] ELSE @[t]]]

\* handleBeforeMutexLock, handleMyMemoryRead and handleMyMemoryWrite: thread t
\* is at instruction iid, before an access to addr.
handleAccess(a, t, iid, addr, iswrite) ==
  IF iid \notin targets.iids THEN a
  ELSE LET tmp == [me |-> t, addr |-> addr, iswrite |-> iswrite]
           racers == isRacing(a, tmp)
       IN  IF racers # {}
             THEN [enableSpecificActiveTestingPaused(a, racers) EXCEPT !.found = TRUE]
             ELSE [a EXCEPT !.paused = @ \cup {t}, !.info[t] = tmp, !.st = disableThread(@, t)]

handleBeforeMutexLock(a, t, iid, lock) ==
  IF isLockRace THEN handleAccess(a, t, iid, lock, TRUE) ELSE a

handleMyMemory(a, t, o) ==
  IF isLockRace THEN a ELSE handleAccess(a, t, o.at, o.obj, o.op = "write")

\* Mutant: threadHasReleasedLock has the last word on paused threads.
handleAfterMutexUnlock_None(a) == a

handleAfterMutexUnlock(a) ==
  IF isLockRace THEN [a EXCEPT !.st.enabled = @ \ a.paused] ELSE a

\* The hooks of a waiter that leaves its condition variable: BeforeMutexLock
\* with the address of the wait.
handleRelock(a, t) == handleBeforeMutexLock(a, t, Op(a.st, t).at, Op(a.st, t).lock)

\* The waiters of a broadcast leave it in some order.
handleRelocks(a, order) ==
  LET upTo[n \in 0..Len(order)] ==
        IF n = 0 THEN a ELSE handleRelock(upTo[n - 1], order[n])
  IN  upTo[Len(order)]

\* The orders in which a broadcast may wake its waiters.
Orders(S) == {f \in [1..Cardinality(S) -> S] : \A i, j \in DOMAIN f : i # j => f[i] # f[j]}

-----------------------------------------------------------------------------
(***************************************************************************)
(* An execution.                                                           *)
(***************************************************************************)
\* Only the memory accesses named in the file are scheduling points.
AddressesToSchedule == UNION {targetfile[i].iids : i \in DOMAIN targetfile}

schedulingPoints(ops) ==
  LET upTo[n \in 0..Len(ops)] ==
        IF n = 0 THEN <<>>
        ELSE IF ops[n].op \in {"read", "write"} /\ ops[n].at \notin AddressesToSchedule THEN upTo[n - 1]
        ELSE Append(upTo[n - 1], ops[n])
  IN  upTo[Len(ops)]

Scheduled(prog) == [t \in Thread |-> schedulingPoints(prog[t])]

Init ==
  /\ \E i \in Inputs : targetfile = i.targetfile /\ targets = Head(i.targetfile) /\ st = Initial(i.prog)
  /\ cur = Main
  /\ active_testing_paused = {} /\ active_testing_info = [t \in Thread |-> NoInfo]
  /\ raceFound = FALSE
  /\ phase = "begin"

\* setTestingTargets, for every execution of the program.
setTestingTargets ==
  /\ phase \in {"begin", "ended"} /\ phase' = "run"
  /\ targets' = Head(targetfile)
  /\ targetfile' = Append(Tail(targetfile), Head(targetfile))
  /\ st' = Initial(Scheduled(st.prog)) /\ cur' = Main
  /\ active_testing_paused' = {} /\ active_testing_info' = [t \in Thread |-> NoInfo]
  /\ raceFound' = FALSE

\* What may become of the tester when thread t has reached the scheduling point
\* of operation o (and has waked sig), by the hooks on the way.
Hooks(a, t, o, sig) ==
  CASE TimesOut(st, t) -> {handleRelock(a, t)}
    [] o.op \in {"lock", "trylock"} -> {handleBeforeMutexLock(a, t, o.at, o.obj)}
    [] o.op \in {"unlock", "wait", "timedwait"} /\ ~TimesOut(st, t) -> {handleAfterMutexUnlock(a)}
    [] sig # INVALID_THREAD -> {handleRelock(a, sig)}
    [] o.op = "broadcast" -> {handleRelocks(a, order) : order \in Orders(OnCond(st, o.obj))}
    [] o.op \in {"read", "write"} -> {handleMyMemory(a, t, o)}
    [] OTHER -> {a}

\* The current thread runs to its next scheduling point.
SchedulingPoint ==
  /\ phase = "run" /\ ~Ends(st, cur) /\ ~Fails(st, cur)
  /\ phase' = "prevent"
  /\ \E sig \in IF SignalTargets(st, cur) = {} THEN {INVALID_THREAD} ELSE SignalTargets(st, cur) :
       \E a \in Hooks([Tester EXCEPT !.st = Run(st, cur, sig)], cur, NextOp(st, cur), sig) : Becomes(a)
  /\ UNCHANGED <<targetfile, targets, cur>>

\* Mutant: no thread is let go.
livelockPrevention_Never(t) == FALSE

\* One time in 200 a paused thread is let go.
livelockPrevention(t) ==
  /\ phase = "prevent" /\ t \in active_testing_paused
  /\ phase' = "pick"
  /\ Becomes(reenableThreadIfLegal(Tester, t))
  /\ UNCHANGED <<targetfile, targets, cur>>

noLivelockPrevention ==
  /\ phase = "prevent" /\ phase' = "pick"
  /\ UNCHANGED <<targetfile, targets, st, cur, active_testing_paused, active_testing_info, raceFound>>

\* chanceOfPreempt is 1, so the branch that keeps the caller without a choice
\* (getRandomNumber() % chanceOfPreempt == 1) is never taken.
pickNextSchedulingChoice(t) ==
  /\ phase = "pick" /\ t \in st.enabled
  /\ cur' = t /\ phase' = "run"
  /\ UNCHANGED <<targetfile, targets, st, active_testing_paused, active_testing_info, raceFound>>

\* Nobody is enabled: the paused threads are tried in random order.
EnablePostponed(t) ==
  /\ phase = "pick" /\ st.enabled = {} /\ t \in active_testing_paused
  /\ LET a == reenableThreadIfLegal(Tester, t)
     IN  /\ Becomes(a)
         /\ IF t \in a.st.enabled THEN cur' = t /\ phase' = "run" ELSE UNCHANGED <<cur, phase>>
  /\ UNCHANGED <<targetfile, targets>>

Deadlock == phase = "pick" /\ st.enabled = {} /\ active_testing_paused = {}

\* deadlockCheck, thrilleAssert and the end of the main thread.
EndExecution ==
  /\ Deadlock \/ (phase = "run" /\ (Ends(st, cur) \/ Fails(st, cur)))
  /\ phase' = "ended"
  /\ UNCHANGED <<targetfile, targets, st, cur, active_testing_paused, active_testing_info, raceFound>>

Next ==
  \/ setTestingTargets \/ SchedulingPoint \/ noLivelockPrevention \/ EndExecution
  \/ \E t \in Thread : livelockPrevention(t) \/ pickNextSchedulingChoice(t) \/ EnablePostponed(t)

\* The choices are random: what is possible infinitely often happens.
Fairness ==
  /\ WF_vars(Next)
  /\ \A t \in Thread : SF_vars(livelockPrevention(t)) /\ SF_vars(pickNextSchedulingChoice(t))

Spec == Init /\ [][Next]_vars /\ Fairness

-----------------------------------------------------------------------------
\* PausedStay: a paused thread is neither enabled nor scheduled, whatever is
\* unlocked or signalled meanwhile: only reenableThreadIfLegal lets it go (the
\* last assertions of pickNextSchedulingChoice).
PausedStay ==
  phase \in {"run", "prevent", "pick"} =>
    /\ active_testing_paused \cap st.enabled = {}
    /\ phase = "run" => cur \in st.enabled

\* Thread t cannot go on, by the state of the program.
ReallyBlocked(t) ==
  \/ Finished(st, t)
  \/ /\ InOp(st, t)
     /\ LET o == Op(st, t)
        IN  \/ o.op = "lock" /\ st.owner[o.obj] # INVALID_THREAD
            \/ o.op = "wait" /\ t \notin st.relock
            \/ t \in st.relock /\ st.owner[o.lock] # INVALID_THREAD
            \/ o.op = "join" /\ ~Finished(st, o.obj)

\* A trylock at a target: reenableThreadIfLegal makes it wait for the mutex.
PausedTrylock(t) == InOp(st, t) /\ Op(st, t).op = "trylock" /\ active_testing_info[t].me = t

\* PausedNoDeadlock: active testing reports a deadlock only when every thread of
\* the program is blocked, not when some are merely paused.  (Threads that
\* were paused in a trylock are the exception of the code.)
PausedNoDeadlock == Deadlock => \A t \in Thread : ReallyBlocked(t) \/ PausedTrylock(t)

\* Thread t is at an access to a target.
AtTarget(s, t) == InOp(s, t) /\ Op(s, t).at \in targets.iids

Object(o) == IF "lock" \in DOMAIN o THEN o.lock ELSE o.obj

\* RaceIsReal: when a race is reported, two threads are before accesses to the
\* same object at target instructions, one of them a write.
RaceIsReal ==
  [][~raceFound /\ raceFound' =>
       \E t, u \in Thread :
         /\ t # u /\ AtTarget(st', t) /\ AtTarget(st', u)
         /\ Object(Op(st', t)) = Object(Op(st', u))
         /\ isLockRace \/ "write" \in {Op(st', t).op, Op(st', u).op}]_vars

\* ExecutionEnds: pausing threads does not keep a program from ending, not
\* even when another thread polls for the paused one.
ExecutionEnds == phase = "run" ~> phase = "ended"

=============================================================================
