# A TLA+ development for Thrille

Thrille interposes on pthread calls (`LD_PRELOAD`) so that *thrillers* can watch
or steer a multithreaded program. Its central thriller is the **serializer**: it
lets one thread run at a time, keeps track of which threads could run, picks the
next one at every intercepted call, records the choices and replays them.
Replay, random and active testing, CHESS and the Tinertia trace simplifier are
schedulers on top of it; two race detectors use the same interposition without
serializing. This directory models the serializer; below it the interposed
wrappers and the creation of threads; above it the fair scheduler, the trackers
that follow a log, active testing and the CHESS search; and beside it the race
detectors. TLC checks them on small instances, the serializer against an
abstract pthread machine as well. TLAPS proves the invariants of the serializer,
of the wrappers, of thread creation, of the fair scheduler and of the race
detectors, and the refinement, for every number of threads and objects.

Paths below are relative to the repository; line numbers of
`src/serializer/executiontracker.cpp` are written `et:NNN`.

## 1. Inventory

| Component | State | Operations | What makes it correct |
|---|---|---|---|
| `ExecutionTracker` core (`src/serializer/executiontracker.*`) | `enable_map`, one semaphore per thread (`sem_map`), `global_lock` | `schedule`, `launchThread`, `pauseThread`, `deadlockCheck` | one thread has the right to run; a reported deadlock is one |
| thread life cycle (same file) | `finish_map`, `join_map` | create, start, finish, exit, join | joiners enabled exactly when their target is finished |
| mutexes | `lock_ready_map`, `lock_wait_map`, `mutex_destroy` | lock, trylock, unlock, init, destroy | enabled iff the mutex can be had; the trylock of a launched thread succeeds |
| condition variables | `cond_map`, `wait_sem_map`, `wait_ready_map`, `was_signalled_map`, `cond_destroy` | wait, timed wait, signal, broadcast, init, destroy | a waiter is woken once; the signaller's handshake ends; broadcast reaches all |
| semaphores | `sem_ready_map`, `sem_wait_map`, `sem_destroy` | wait, post, init, destroy | enabled iff the value is positive; no internal assertion fails |
| barriers (`barriertracker.*`) | `thread_map`, `bar_info`, `barrier_destroy` | init, wait, destroy | opens at exactly the count |
| `SerializerHandler` (`libserializer.*`) | | forwards, simulates or refuses each call | the running thread enters no original that blocks unseen |
| `Logger` (`logger.cpp`) | `schedule`, `read_schedule` | record, write, read, follow | replay takes the recorded choices |
| `strictserial`, `relaxedserial`, `relaxedtester`, `addrserial`, `dfailserial` | the interval being followed, position in the log | scheduling policies of subclasses | a faithful log reproduces the execution; a tolerant tracker survives an edited one |
| thrille-core start-up and wrappers (`libpth.*`, `originals.*`) | `pHandler`, `pth_is_initialized`, `_initialized`, originals found | `pth_start`, `pth_end`, 105 wrappers with Before/original/Simulate/After hooks | started once, before any hook |
| thrille-core threads (`libpth.cpp`, `threadtracker.cpp`) | `curr_id`, `pthreadHandleMap`, `thread_start_map` | `thrille_create`, `my_start_routine`, `getNextTID`, `translateHandleToTID` | unique ids; handles translate to the live thread; create returns |
| `FairScheduler` (`addrserial/fairscheduler.cpp`), used by `chessserial`, `addrserial` | `fair_priority`, `fair_enabled`, `fair_disabled`, `fair_scheduled`, `prev_ES` | `nonpreemptiveFairSchedule` | priorities acyclic; nobody starves |
| active testing (`randact`) | `active_testing_paused`, `active_testing_info`, target file | pause, race check, livelock prevention | paused threads are let go; a reported race is one |
| race detectors (`racer`, `lockrace`) | vector clocks, messages, lock sets, events | hooks of sync calls and accesses, `outputRaces` | clocks are happens-before; the report is exact for the kept events |
| CHESS (`scripts/simpl/src/chess`, `chessserial`) | `search_stack`, bound, errors | execute, regenerate, next schedule | every schedule within the bound, once |
| Tinertia (`scripts/simpl/src`) | schedules | make a relaxed schedule, remove intervals, run | the relaxed schedule of a log replays it |
| `irace`, `dpor`, `activetest`, `preemptcount` | event profiles, counters | hooks | written against another version of this core; they do not build with it |

**Interaction.** A wrapper of `libpth.cpp` calls `BeforeX`; if it returns true the
real function runs, else `SimulateX`; then `AfterX`. The serializer's hooks call
the tracker under `global_lock`, end most calls with `schedule(...)`, release the
lock and block in `pauseThread` on the thread's own semaphore until some other
thread's `schedule` posts it. Condition variables add a second semaphore per
thread and a handshake in which signaller and target run at the same time. A
tracker of the replay or testing family overrides `schedule`, a hook or
`pickNextSchedulingChoice`; the Python tools run the program as a process, read
its log and write the schedule of the next process. `racer` and `lockrace` hang
on the same wrappers and let the threads interleave freely.

**What is hard.** The window between launching another thread and pausing; the
handshake of a signal and the target's relock outside `global_lock`; timeouts,
which are just the scheduler launching a thread that still waits, racing
signals; the real unlock happening before the tracker hears of it; threads that
go on inside the real `pthread_exit` after the tracker has let go of them;
objects destroyed under waiting threads; handles and ids of threads under
concurrent creation, and handles that come back between `pthread_join` and its
hook; liveness of the handshake and of the fair scheduler;
wrappers entered again while the library starts; decisions of a log paired with
the wrong point; signals recorded for threads that no longer wait; threads that
are disabled because they are paused, not because they are blocked; clocks
merged from messages that are newer in one entry and older in another.
`PROJECT.json` lists these hazards at their lines with the properties for them.

## 2. Modules

```
TrackerState            state, schedule, launchThread, pauseThread, scheduling points
  ThreadLifecycle       create, start, finish, exit, join, return of main
  MutexTracker          lock, trylock, unlock, init, destroy
    CondTracker         wait, timedwait, signal, broadcast, init, destroy
  SemTracker            wait, post, init, destroy
  BarrierTracker        init, wait, destroy
ExecutionTracker        the composition, its Init, Next, Spec, and its properties
  Refinement            the refinement mapping to PthreadMachine
    ExecutionTracker_proofs   types, serialization, the handshake of signal and wait;
                              enable_map is exact, deadlocks are real; the refinement
PthreadMachine          abstract: threads, mutexes, conditions, joins on one processor
ThreadCreation          pthread_create wrapper and ThreadTracker
  ThreadCreation_proofs     ids and handles with one creator at a time
Interposition           start-up, end, the wrappers and their hooks
  Interposition_proofs      one start, one thread with the right to run
FairScheduler           the fair scheduler in an arbitrary environment
  FairScheduler_proofs      types, acyclicity, somebody is always schedulable
SerialProgram           a serialized program, one scheduling point at a time
  Replay (MCReplay)         Logger and the trackers that follow a log
    Replay_proofs             replay is exact, no tracker fails on a faithful log
  RandomActive (MCActive)   active testing
    RandomActive_proofs       paused threads stay, deadlocks and races are real
  ChessSearch (MCChess)     the CHESS search and its executions
    ChessSearch_proofs        the search is exact, exhaustive and never repeats
RaceDetection (MCRaces) racer and lockrace
  RaceDetection_proofs      threads are identified; clocks, lock sets, report are exact
```

**How state and actions correspond to the code.** Variables have the names of
the maps they model. A map entry that is a pointer to a semaphore is modelled by
the semaphore's value (`sem_map[t]`, `wait_sem_map[t]`). The real objects behind
`Originals::` are `mutex` (owner, `FREE`, `DESTROYED`) and `semval`. Everything
between `glock()` and `gunlock()` is one action; since `global_lock` serializes
those sections this loses no interleaving. Code outside them is made of actions
of its own: the return from `pauseThread` and `waitPauseThread`, the steps of a
woken waiter (`LeaveCond`, `BeforeRelock`, `signalThreadReady`), the steps of a
signaller (`scheduleThreadWaitingOnCond`, `waitThreadReady`), the real unlock
before `AfterMutexUnlock`, the real join, and what a finished thread still does.
Where two sections follow each other and nothing another thread can do in
between touches what they read (`BeforeCondWait` and `SimulateCondWait`,
`BeforeExit` and `SimulateExit`) they are one action. `pc`, `call` and `arg` say
where a thread is, in which call and on which object.

`status` ends the process: `deadlock` (`deadlockCheck`), `assert` (a failed
`safe_assert` about the tracker's own state), `misuse` (one about the program's
use of an object), `error` (the program's own failure) or `exited`.

The application is arbitrary: a thread in application code may make any call in
`Ops` on any object at any time, within the rules of POSIX the code relies on
(it unlocks what it holds, waits with its mutex held, joins a thread once,
initialises only objects nobody uses). `Policy = "first"` is
`ExecutionTracker::pickNextSchedulingChoice`; `Policy = "any"` covers
`RandomTracker`, every choice read from a schedule file, and `"first"` itself.

Abstractions in `ExecutionTracker`: return addresses, log lines and statistics are
left out; so are the schedule files (a replayed choice is an arbitrary enabled thread, which is
what the assertion in `launchThread` enforces) and mutex attributes (the
serializer refuses anything but normal mutexes). Thread ids above `MaxTid` and
semaphore values above `MaxSem` are cut off by guards.

**FairScheduler.** One step is one scheduling point: any set of `EnabledSets` is
enabled, a new thread may have appeared, the running thread yields or not;
`updateDataStructures` runs, then the choice is `nonpreemptiveFairSchedule`'s
own or one from the log, which `ChessTracker::launchThread` asserts to be fair.

**ThreadCreation.** `getNextTID` is two steps because it reads `curr_id` again
after unlocking (`threadtracker.cpp:43`). The real `pthread_create` may fail and
may hand out the handle of a dead thread. `MaxCreators` is how many threads may
be in the wrapper at once: 1 under the serializer, as in the runs, more under
thrillers that do not serialize, where two creators go wrong (section 3).

**PthreadMachine and Refinement.** The abstract machine says what the program
may observe: one thread at a time is outside its calls, a mutex has one owner, a
wait releases its mutex and joins the waiters in one step, a signal owes exactly
one waiter its wakeup, a broadcast returns when nobody waits. `Refinement` maps
the tracker to it: `Doing` reads `pc`, `call` and `arg`, `Owed` is a signal
between the choice of its target and the target's leaving `cond_map`, owners and
waiters are `mutex` and `cond_map`. Every step of the maps and handshakes is a
step of the machine or a stutter.

**Interposition.** A call is a frame `[fn, at]`, `at` being the place in the
wrapper: start, construct, afterInit, before, original, simulate, after. The
stack of a thread is deeper than one when start-up or the routine of
`pthread_once` calls a wrapper. All 105 functions are there with the hook each
thriller gives them. The tracker is reduced to handing over: `parked` threads are
in `pauseThread`, `launched` ones have been posted. `Originals` is the external
library: a symbol may be missing, a blocking function may block.

**RaceDetection.** Hooks are atomic (`_globalLock`), the pthread functions between
them are steps of their own, `pthread_join` and `AfterJoin` among them, and the
threads interleave. `pthread_create` is six steps: the two of `getNextTID`, the hook
`BeforeCreate`, `MarkNotStarted`, `CreateThread` (the real call), and
`ReturnFromCreate`; the new thread files its handle in `my_start_routine`. Every
hook finds its thread through `getThrID` and `AfterJoin` the joined one through
`translateHandleToTID`, the highest id under the handle; handles of joined threads
are used again; if there is no id, or a thread finishes under an id that has
finished, the process ends in `_Exit` (`Exit`). What remains to be waited for in
`ReturnFromCreate` is `thread_start_map`; the wait on `newthread_cond` and its
signal are `ThreadCreation`'s.

A thread is named by the value its creator's increment left in `curr_id`; the id
it is given is `tid`. `past`, `message_past` and `wake_past` are history variables:
the events before the present of a thread, before the last message of a condition,
and before the signal that really woke a thread. They are kept apart from the
clocks, so that the clocks can be compared with them. `held` is, likewise, the
mutexes really held when an event is made. `overlap` records that the threads have
met in one of four orders which the code gets wrong:

1. a `getNextTID` between the increment and the return of another
   (`threadtracker.cpp:43`);
2. a thread starts with a handle that has been a later thread's (its creator was
   overtaken, and the highest match is not it);
3. a thread starts with the handle of a thread whose `pthread_join` has returned,
   before the `AfterJoin` of that call (`libracer.cpp:50`);
4. a wait returns after the message of its signal has been overwritten by another
   (`vctrack.cpp:59`).

The properties hold of executions without these, and so locate what is wrong:
when any one of the four is left out of `overlap`, TLC refutes a property of run
`races`.

**SerialProgram** has the functions from state to state (`determineLockStatus`,
`threadHasAcquiredLock`, `leaveCond`, `Run`...) that the modules above it share.
It rests on the serialization that `SerializedAlways` establishes: what a
thread does between two scheduling points is one step. Programs are given; each
has the operations whose interplay the run is about.

**Replay.** The program is recorded under an arbitrary scheduler; then the log, a
prefix of it, its relaxed schedule (`outputRelaxedSchedule` of Tinertia's
`schedule.py`) or that schedule with one interval removed is followed by the
default, strict, relaxed, tester, address or deadlock-failing tracker. A replay
without a removed part or a cut is compared with the recording.

**ChessSearch.** One behaviour is the whole search of one program with one bound:
executions under `ChessTracker`, `regenerate`, `generateNextSchedule`,
`completeSearch`. `Executions` is the reference: the set of all executions
within the bound, defined without a stack. The options of a decision are the
fair-enabled threads in the code and the enabled ones in the model. A timed wait is
a yield (et:727), and the fair scheduler gives no thread a priority until a thread
yields for the second time: its first yield finds `fair_enabled` empty, and whom it
has disabled has been scheduled since. `YieldAssumption` states that no thread of a
program makes two timed waits; TLC evaluates it for the programs of `chess`.

**RandomActive.** A scheduling point is three steps under the global lock: the
hook of the operation, livelock prevention, the choice. Executions follow each
other and rotate the target file.

## 3. Runs

| Run | Instance | Distinct states | Shows |
|---|---|---|---|
| `mutex` | 3 threads, 2 mutexes, 1 internal mutex | 564,004 | `TypeOK`, `Serialized`, `EnabledTracking`, `DeadlockIsReal` |
| `cond` | 3 threads, 1 mutex, 1 condition, fairness | 50,207 | `Serialized`, `EnabledTracking`, `SignalTargetWaits`, `BroadcastWakesAll`, the refinement `Implements`, the liveness properties `Progress`, `SignalReturns` |
| `sem` | 3 threads, 1 semaphore up to 2, 1 barrier | 61,134 | `EnabledTracking`, `DeadlockIsReal`, `NoInternalAssert`, `DestroyedSemUntouched` |
| `fair` | 3 threads, 4 enabled sets, fairness | 49,877 | `TypeOK`, `PriorityAcyclic`, `AlwaysSchedules`, `NoStarvation` |
| `create` | 4 threads, 3 handles, failures, fairness | 5,724 | `HandleReuseOK`, `ChildIdentifiedOnReturn`, `CreatedReturns` |
| `interpose` | 2 threads, 105 functions, 2 frames, 2 unresolvable symbols | 318,349 | `StartsOnce`, `OneBaton`, `NoUncontrolledBlocking` |
| `races` | 2 threads: 7 calls, 3 events; 3 and, without locks, 4: 5 calls, 2 events; 3 handles, 1 mutex, 1 condition, 1 address, 2 instructions | 1,305,593 | `Identified`, `ClocksExact`, `OwnClockLeads`, `ReportExact` |
| `replay` | 3 programs of 3 threads, 3 preemptions, 6 trackers | 341,824 | `ReplayReproduces`, `ReplayInStep`, `NoInternalError` |
| `chess` | 3 programs of 3 threads, bounds 0 to 2, fairness | 5,156 | `SearchExhaustive`, `NoRepeat`, `FollowsStack`, `SearchEnds` |
| `active` | 3 programs of 3 threads, 9 target pairs, fairness | 16,208 | `PausedStay`, `PausedNoDeadlock`, `RaceIsReal`, `ExecutionEnds` |
| `exit` | 2 threads | violation | `DeadlockHasVictim` |
| `createfail` | 2 threads | violation | `CreateReturns` |

**Bounds.** Three threads give a holder, a loser made to wait and a third that
is launched in between; a signaller, a waiter and a second waiter or timeout; a
barrier with two waiters and a last arrival. Two mutexes give lock-order
deadlocks. A semaphore of value 2 gives two ready threads of which the first
leaves the second ready and the second makes a third wait. Four threads on three
handles force a handle to be used twice. The enabled sets of `fair` let two
threads be disabled together and re-enabled, which is what fills
`fair_disabled`. In `interpose` one thread calls every function and the other,
start-up and the once routine call ten that stand for the kinds of hook; two
frames are a call inside start-up. In `races` (the constraint `Explored` of
`MCRaces`) two threads get as far as seven calls, the seventh only when the kept
events are of one instruction: a wait, its signal and a second signal that overwrites
the message before the waiter returns, with an access on both sides; or two locked
accesses and a join. The profile of an address holds two events, of a mutex two, so
that a full profile occurs with the third event. Three threads with five calls pass a
clock on. Four threads on three handles are needed for a handle to come back while
one thread creates and another joins, which mutexes and conditions have no part in;
five calls are three creations, a join and an access. Instructions and handles are
only compared for equality, so permuting them is sound. The programs of `replay`,
`chess` and `active` are listed in their MC modules; between them they contain two mutexes in both orders (a real deadlock),
a signal with two waiters, a broadcast, a timed wait that races its signal, a
trylock, a failing assertion, an address visited twice by one thread and a
thread that polls. `MaxSwitches` ends preemptions of a recording after three;
`MaxDepth` is above the longest execution of a `chess` program. Each passing
property has a mutant of the code in `PROJECT.json` that breaks it on the same instance.

**Deadlock checking** is on for the serializer, the fair scheduler and active
testing; in `ExecutionTracker` it is a check of its own: while the process runs
some step is always possible. It is off where the system really stops: all ids
used up (`create`, `createfail`), the process over or stuck in a blocking
original (`interpose`), the bound on calls reached or the report written
(`races`), the replay over (`replay`), the search complete (`chess`).

**Fairness.** `FairSpec` of `ExecutionTracker` assumes weak fairness of the steps
of the library and of the real pthread functions in each thread (`LibStep`): a
thread that the operating system can run is run eventually. Nothing is assumed
of the application. `FairSpec` of `ThreadCreation` is the same for the wrapper;
spurious wakeups may happen and are not relied on. `YieldSpec` assumes that
scheduling points keep coming and that a thread scheduled again and again keeps
yielding; this is the premise of the algorithm (a thread that waits for another
in a loop yields), and without it `NoStarvation` fails, as it should: the
scheduler prefers the running thread. `ChessSearch` assumes weak fairness of its
next-state relation: the driver is a sequential loop. `RandomActive` assumes that
and strong fairness of letting each paused thread go and of choosing each thread:
both are independent random draws of the code (one in 200, and uniform among the
enabled), so what is possible again and again happens.

**Findings.** The two violation runs are disagreements between the code and what
its documents, comments or tests say; `PROJECT.json` quotes both sides.

- `exit`: the last thread's `pthread_exit` is reported as a deadlock (et:1038).
- `createfail`: a failed `pthread_create` never returns (`libpth.cpp:114`).

Limits of the code that the properties make room for, or that show up with other
constants:

- an unlock by a finished thread bypasses the tracker and does not wake the
  waiters (et:599): with a mutex of the application in `CleanupMutex`,
  `EnabledTracking` and `DeadlockIsReal` fail;
- `mutex_destroy` is recorded and never consulted (et:489), although
  `doc/error.log:62` says that locking a destroyed mutex is an error;
- two threads that call `pthread_create` at once may be given one id for both
  children (`threadtracker.cpp:43`), and when both wait for their children, the
  signal of one child may wake the wrong creator, after which the other waits for
  ever (`libpth.cpp:48`): with `MaxCreators = 2` in `ThreadCreation`, TLC refutes
  `CreatedReturns`. Under the serializer there is one creator;
- after a `pthread_join` has returned, another thread may be created with the joined
  thread's handle before `AfterJoin` translates it, and `AfterJoin` merges the new
  thread's clock (`libracer.cpp:50`), although `threadtracker.cpp:11-15` calls taking
  the highest match reasonable; run `races` reaches this;
- a scheduling call other than lock and unlock in a destructor of a finished
  thread hands the right to run over a second time (et:114); `OneBaton` holds
  until then;
- `pthread_once` is passed through and may block (`libserializer.h:68`);
  `NoUncontrolledBlocking` excepts it;
- `pthread_create` does not start Thrille (`libpth.cpp:2560`): the model reaches
  status `crash` when it is the first call, or a call after `pth_end`;
- a trylock at a lock target of active testing becomes a blocking lock
  (`randomlock.cpp:66`); `PausedNoDeadlock` excepts it;
- a second signal overwrites the message of the first (`vctrack.cpp:59`), and a
  thread may start with a handle that has been a later thread's; `ClocksExact`,
  `ReportExact` and `Identified` except both, with shared ids and the
  join (`overlap`, section 2);
- CHESS does not record an error of its first execution (`chess.py:147`);
  `SearchExhaustive` excepts it.

## 4. Proofs

The theorems hold for every value of the constants that satisfies the named
assumptions of the modules (`ConstantsAssumption`: ids and the semaphore bound are
natural numbers, `NULL` is no object, the policy is one of the two;
`FairAssumption`: the enabled sets are sets of ids; `CreationAssumption`,
`InterpositionAssumption`, `RaceAssumption`: `Main` is a thread, `NoHandle` is no
handle, bounds are numbers; `ProgramAssumption`, `ChessAssumption`: `MaxThread`,
`MaxDepth` and the preemption bounds are numbers; `YieldAssumption`: no thread of a
program of `ChessSearch` makes two timed waits; `ReplayAssumption`,
`InputAssumption`: the programs are sequences of calls, each on an object of its
kind, those of a recording with addresses, and `NULL` is no mutex and no condition
variable). Some have a further hypothesis, stated in the theorem
and explained here. TLC has checked each inductive invariant below on a small
instance before it was proved.

**Types and serialization** (`ExecutionTracker_proofs`).

- `TypeCorrect` (`Spec => []TypeOK`): besides the shapes of the maps, `TypeOK`
  contains `ArgOK`, which ties each control point to the kind of object its call
  is about; without it the steps that index a map by `arg[t]` or `newchoice[t]`
  do not type-check, so `TypeOK` would not be inductive.
- `DestroyedSemUntouchedAlways`: an action property, from `TypeOK`; each action
  that writes `semval` is shown to do so behind a test of `sem_destroy`.
- `SerializedAlways` (`Spec => []Serialized`): exactly one thread has the right
  to run (it is in application code or the active part of a call, or its
  semaphore is posted, or a timeout has been handed to it), and in one form
  only. The inductive invariant is `SerialInv == TypeOK /\ Serialized /\ Born`.
  `Born` (ids above `curr_id` belong to no thread) is needed for `BeforeCreate`,
  whose `initializeThreadData` overwrites the child's entries: were the child the
  thread that has the right to run, it would be lost. Every action is shown to
  have one of four effects: keep (`KeepsBaton`), hand over (`HandsOverBaton`),
  take up (`PauseSerial`), end the process (`Stops`); creation is a lemma of its
  own.

**The handshake** (`ExecutionTracker_proofs`): `SignalTargetWaitsAlways` and
`BroadcastWakesAllAlways`, from `HandshakeInv`, which adds to `SerialInv` what each
private variable of the handshake means: `cond_map[u]` is set exactly while `u`
waits or has just been woken; the wait semaphore of `u` is up exactly when a
signaller has posted it, or a timeout has been given to it, and it has not
noticed; nobody leaves a wait otherwise; `wait_ready_map` lets the signaller go
exactly when its target is past `signalThreadReady`. The crux is
`RunnerFindsSettled`: a thread with the right to run finds nobody half way out of a
wait, because such a thread has a signaller that waits for it, or the right to
run itself. So the copy of `cond_map` taken without the lock is not stale.

**`enable_map`** (`ExecutionTracker_proofs`): `EnabledTrackingAlways`, `DeadlockIsRealAlways`
and `NoInternalAssertAlways`, from `TrackInv`. `EnabledTracking` compares
`enable_map` with the real objects and is not inductive, since the tracker never
looks at them when it updates `enable_map`: it goes by its own maps. `TrackInv`
therefore states for each map what it holds (`LockExact`, `SemExact`,
`BarrierExact`, `BarrierRoom`, `JoinExact`), that it agrees with the real object
(but for a mutex that is being released), and that a thread is enabled unless
some map blocks it (`EnableExact`); `RunsEnabled` says that only enabled threads
are launched, `Stuck` what is left when the process ends in a deadlock. A step of
one thread disturbs this for itself and for the threads filed under its object,
and the lemmas are split in that way. The hypothesis is `PrivateCleanup`: the
mutexes that finished threads lock in destructors are not those of the
application. Without it the first two statements are false (et:599, section 3):
the unlock of a finished thread does not reach the tracker; the third is proved
through the same invariant.

**Refinement** (`ExecutionTracker_proofs`): `ImplementsAlways` (`Spec => Implements`). The
hypotheses are `PrivateCleanup` and `PlainProgram`: the program waits on no
semaphore and destroys no mutex, neither of which `PthreadMachine` has. Run `cond`
satisfies both. `ImplInv` adds to `TrackInv` that only a timed wait times out and
that a signaller has posted a waiter of its own condition (`WakeInv`). Most steps
are stutters, which is shown once (`Doing` and `Owed` stay as they are); the
others are a step of the machine each: a lock that returns has the mutex because
the thread was launched enabled, a wait ends for a reason because of
`LeavesForAReason`, a signal owes one wakeup because of `SignalTargetWaits`.

**Race detection** (`RaceDetection_proofs`): `IdentifiedAlways`, `ClocksExactAlways`,
`OwnClockLeadsAlways` and `ReportExactAlways`, without hypotheses on the constants;
each says what holds while `overlap` is FALSE. `overlap` never becomes FALSE again
(`OverlapLasts`), so the invariant is `RaceInv == ~overlap => Orderly`, and a step
that sets `overlap` has nothing to show. `Orderly` has three parts.

The identities (`IdInv`): the id a thread is given is its own name (`Given`), since
nobody else is between the increment and the return; one creator at most is about
to make a thread (`Maker`); a thread that runs is filed under its id (`Filed`), two
unjoined threads have different handles (`Apart`), and no id beyond a thread's has
its handle while the thread runs or its `AfterJoin` is to come (`Found`), so the
highest match (`HighestMatch`) is the thread. `Unfinished` excludes the assertion in
`ThreadFinish`; with `Found` no step is an `Exit` (`NoExit`).

The clocks (`OrderExact`): `isRacing` compares whole vector clocks. The invariant
reduces that to one entry: a clock has heard of event `e` exactly when it has
reached, at `e`'s thread, the entry `e` was recorded with (`Knows`), and it is then
past `e` everywhere (`Dominates`). That holds of every thread and every message
(`ClockInv`); merging two clocks keeps it because it is a statement entry by entry.
It also needs that nobody has heard of a thread that does not exist yet
(`Unheard`), else `pthread_create` would reset a clock others know, and
`OwnClockLeads`. The message a waiter merges is that of the signal that woke it
because the fourth order is excluded.

The report (`ReportIsRaces`): `LockSetInv` relates `lockmap` to the real owners but
for the time inside a call.

**Interposition** (`Interposition_proofs`): `StartsOnceAlways`, `OneBatonAlways` and
`NoUncontrolledBlockingAlways`, without hypotheses, from `InterInv`. `StartInv` says
which frames the stacks may hold at each stage of start-up: at most one wrapper
is about to construct, none is at a hook and `Main` is the only thread before
`pth_is_initialized` is set. The last part is what excludes a hook through
`pthread_create`, the wrapper that does not test for start-up. `BatonInv` is
`OneBaton` without cardinalities; `PassInv` looks at all frames of a stack, not
only the topmost, since a frame below may come up again.

**Thread creation** (`ThreadCreation_proofs`): `HandleReuseOKAlways` and
`ChildIdentifiedOnReturnAlways`, under `MaxCreators <= 1`: under the serializer only
the thread that has the right to run gets into `pthread_create` (`SerializedAlways`).
With more creators ids may be shared; what holds then is
`IdentifiedAlways`. The real `pthread_create` may fail and handles of the dead may
come back. `CreateInv` follows the creator: from the increment until the child
exists, the highest id belongs to nobody (`Fresh`), so the second read of `curr_id`
returns the creator's own; and no entry of the table beyond a living thread's id has
its handle (`TableInv`), so the highest match is the thread.

**Fair scheduler** (`FairScheduler_proofs`): `FairAcyclic`, `FairAlwaysSchedules`,
`FairTypeCorrect`: acyclicity is stated as "every non-empty set of threads has a
member that gives way to no member", which is inductive by itself: after an
update nobody gives way to the running thread, so it cannot lie on a cycle, and
all other edges are old. Applied to the set of enabled threads it gives a
fair-enabled thread, so the answer -1 means that nobody is enabled.

**Replay** (`Replay_proofs`): `ReplayIsExact`, `ReplayHasNoInternalError` and
`ReplayStaysInStep`, without hypotheses: any program, any recording, any of the
trackers. A recording leaves a path, the configurations of the program between its
steps, and each step of it is determined by its entry of the log (`LogOK` says
what a log looks like). A replay is at a place of the path (`Poised`), and what
its tracker still has to read agrees with the rest of the log from there
(`Guide`). For the default and the strict tracker that is the rest of the log
itself. For a relaxed schedule it is `GuideRelaxed`: the interval that is being
followed, with the visits counted in it, ends exactly at the next switch of the
log. Such intervals exist because `outputRelaxedSchedule` closes one at every
switch and counts the visits since the last (`Fits`, shown backwards from the end
of the log). `AddrOK` is for `AddrTracker`, which fails on no schedule, not even
on an edited one.

**CHESS** (`ChessSearch_proofs`): `SearchFollowsStack`, `SearchNoRepeat` and
`SearchIsExhaustive`, for programs in which no thread makes two timed waits
(`YieldAssumption`, section 2). An execution is a path of configurations in which the next is
a function of the present one and of the choice made. An execution that has made
the choices of the stack so far is thus where the execution was that the stack
was built from (`Follows`), finds the same options there, and cannot end before
the stack does. No execution is run twice because each earlier one has left the
present stack at some place by a choice that is no longer an alternative there
(`Diverges`, `HistoryOK`). The search is exhaustive because every execution within
the bound has been run or leaves the stack at a place where its choice is still
to be tried (`Covered`); `LeavesForWork` is the step that needs the count of
preemptions: an execution within the bound can only leave at an alternative that
`generateNextSchedule` does not discard. `Sound` is the converse. `ReferenceExact`
relates this to `Executions`, the reference, under the one hypothesis `EndInTime`:
`MaxDepth`, a bound of the model, cuts no execution off. Every program of run
`chess` satisfies it.

**Active testing** (`RandomActive_proofs`): `PausedThreadsStay`,
`PausingMakesNoDeadlock` and `ReportedRaceIsReal`, for any programs, target files and
schedules, from `ActiveInv`. `PausedStay` is not inductive: whether an unlock, a
signal or the end of a thread enables a paused thread depends on what is filed of
it. `Filed` says that a thread is filed under a mutex only while its operation
takes that mutex, as waiting if the mutex is taken and as ready if it is free;
`WaitsDisabled` and `Stuck`, that a thread is disabled because of what is filed of
it, because its operation blocks, or because it is paused; `Described`, that a
paused thread has not moved since its `ActiveRaceInfo` was made, which therefore
names the object and the instruction it is before. The steps of `SerialProgram`
are treated first, one lemma for each function: what they leave of the threads
that do not move is `Unmoved`. Of the paused ones only an unlock can enable any,
and `handleAfterMutexUnlock` disables those again. `TrylockFiled` is the exception
of `PausedNoDeadlock`. The two assertions of `isRacing` hold for the same reasons: a
paused thread has its own info, and the thread that runs is not paused.

**Induction.** The provers have no induction over data. Where the code loops over a
sequence (`outputRelaxedSchedule`, the waiters of a broadcast, the executions of
a program up to a depth) the
model has recursive functions on an interval of natural numbers, and the proofs
take the least number for which the claim fails (`LeastNatural`); that such a
function exists at all is proved in the same way.

**What the proofs found in the model.** The guards of a `CASE` in the relaxed
tracker overlapped, so that `CASE` allowed a branch which the code's `if ... else
if` excludes; TLC takes the first, the prover may not. The branches are `IF ...
ELSE` now. In `RandomActive`, the threads that race were let go by a fold over a
set, in no defined order; since each changes only its own entries, it is now one
simultaneous change.

**Only model-checked.** The liveness properties (`Progress`, `SignalReturns`,
`NoStarvation`, `CreatedReturns`, `SearchEnds`, `ExecutionEnds`) rest on fairness
and are out of the prover's reach. Every invariant and every action property of a
passing run is stated by a theorem.

## 5. Not modelled

- `irace`, `dpor`, `activetest`, `preemptcount`: they do not build against this core
  (`dpor` includes a header that does not exist, `irace` and `preemptcount` are
  written for an older `Handler` and `Logger`, `activetest` is the predecessor of
  `randact`), so there is no behaviour to model.
- Tinertia's order of edits and its statistics: which edit it tries next is a
  heuristic. `NoInternalError` covers one kind of edit, the removal of one interval
  of a relaxed schedule, under `AddrTracker`.
- `ChessCheckpointedSearchStack` (`searchstack.py:275`), which only
  `christos_chess.py` uses.
- The text format of logs and schedules and its parsing, the progress messages,
  `sparsifyMemorySchedulingPoints`.
- `corecodegen.py`, which generates the wrappers: the wrappers it has generated
  are modelled.
- The LoadStore LLVM pass and the pin tool (they insert the calls to the memory
  hooks), third-party code (Mersenne-1.1, cxxtest) and the benchmarks.
- Within the serializer: a trylock by a finishing thread (only in
  `Interposition`) and more than one critical section per finishing thread.
- `AddrTracker` past the end of its schedule goes on with any enabled thread;
  that its fair scheduler narrows the choice is `FairScheduler`'s business.

## 6. Plan

Modelling left: `ChessTracker` with threads that yield more than once, so that the
enabled sets of `FairScheduler` are those a serialized program produces.
