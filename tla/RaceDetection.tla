---------------------------- MODULE RaceDetection ----------------------------
(***************************************************************************)
(* The race detectors racer (HybridRaceTracker) and lockrace               *)
(* (ModifiedRaceTracker): vector clocks for the order that pthread_create, *)
(* pthread_join and condition variables impose, lock sets for the rest.    *)
(*                                                                         *)
(* They do not serialize the program: a hook is atomic (lock/unlock of     *)
(* _globalLock), the pthread function it belongs to is a step of its own,  *)
(* and the threads interleave freely.  A hook knows its thread, and the    *)
(* thread a pthread_join was for, by what ThreadTracker makes of a handle. *)
(*                                                                         *)
(* A thread is named by the value its creator's getNextTID left in         *)
(* curr_id; the id it is given may be another.  past, message_past and     *)
(* wake_past are history variables: the events that happened before the    *)
(* present of a thread, before the last signal of a condition variable,    *)
(* and before the signal that woke a thread.  So are the fields id, past   *)
(* and held of an event, which the trackers do not read, and overlap: it   *)
(* is TRUE once the threads have met in one of the following orders.       *)
(*   - A getNextTID between the increment and the return of another.       *)
(*   - A thread starts with a handle that has been a later thread's.       *)
(*   - A thread starts with the handle of a thread whose pthread_join has  *)
(*     returned, before the AfterJoin of that call.                        *)
(*   - A wait returns after the message of the signal that ended it has    *)
(*     been overwritten by another.                                        *)
(***************************************************************************)
EXTENDS Integers, FiniteSets, FiniteSetsExt, TLC

CONSTANTS
  MaxTid,           \* thread ids are 0..MaxTid, 0 is the main thread
  Handle, NoHandle, \* values of pthread_t; a joined thread's may be used again
  Lock, Cond, Addr, \* the mutexes, condition variables, memory locations
  Iid,              \* instructions: of an access, of a pthread_mutex_lock
  ProfileSize,      \* rd_profile_size: events kept for an address
  LockProfile,      \* lockprofiling: the bound on events kept for a mutex
  MaxOps,           \* bound: calls and accesses of an execution
  MaxEvents         \* bound: accesses and pthread_mutex_locks among them

ASSUME RaceAssumption ==
  /\ {MaxTid, ProfileSize, LockProfile, MaxOps, MaxEvents} \subseteq Nat
  /\ NoHandle \notin Handle

Tid == 0..MaxTid

\* Instructions are interchangeable, and handles.
Symmetry == Permutations(Iid) \cup Permutations(Handle)

VARIABLES
  lockrace,         \* FALSE: the tracker is racer's, TRUE: lockrace's
  vcs,              \* VectorClockTracker: the clock of each thread
  messagemap,       \* ... the clock the last signal of a condition left
  lockmap,          \* LockSetTracker: the mutexes of each thread
  eventset,         \* the accesses kept for each address
  lockeventset,     \* lockrace: the locks kept for each mutex
  foundraces,       \* the dataRaceRecords
  foundlockraces,   \* the lockRaceRecords
  finish_map,       \* the ids whose thread has ended
  curr_id,          \* ThreadTracker
  pthreadHandleMap, \* ThreadTracker: thread id to handle
  thread_start_map, \* Handler: the ids whose thread has started
  tid, handle,      \* the id a thread is given (args_t); its pthread_self
  pc, obj,          \* where a thread is, and the object of its call
  owner, tried,     \* the real owner of a mutex; mutexes taken by trylock
  past, message_past, wake_past, overlap,
  ops, events       \* counters for the bounds

clockVars == <<vcs, past>>
messageVars == <<messagemap, message_past>>
reportVars == <<foundraces, foundlockraces>>
realVars == <<owner, tried>>
idVars == <<curr_id, pthreadHandleMap, thread_start_map, tid, handle>>
vars == <<lockrace, clockVars, messageVars, lockmap, eventset, lockeventset, reportVars,
          finish_map, idVars, pc, obj, realVars, wake_past, overlap, ops, events>>

NoThread == -1
NoObj == "none"

-----------------------------------------------------------------------------
(***************************************************************************)
(* VectorClockTracker.  A missing entry of a std::map is 0.                *)
(***************************************************************************)

incrementMyClock(v, t) == [v EXCEPT ![t][t] = @ + 1]

\* Mutant: the larger entry is not kept.
receiveMessage_Overwrite(v, t, msg) ==
  [v EXCEPT ![t] = [u \in Tid |-> IF msg[u] = 0 THEN @[u] ELSE msg[u]]]

receiveMessage(v, t, msg) ==
  [v EXCEPT ![t] = [u \in Tid |-> IF @[u] > msg[u] THEN @[u] ELSE msg[u]]]

isHappensBefore(before, after) == \A u \in Tid : before[u] <= after[u]

isIntersectionEmpty(l1, l2) == l1 \cap l2 = {}

\* isRacing, of two events on one address: eventset and lockeventset keep the
\* events of an address, or of a mutex, together.
isRacing(e1, e2) ==
  /\ e1.thread # e2.thread
  /\ ~(e1.isread /\ e2.isread)
  /\ ~isHappensBefore(e1.vc, e2.vc)
  /\ ~isHappensBefore(e2.vc, e1.vc)
  /\ isIntersectionEmpty(e1.ls, e2.ls)

\* A dataRaceRecord or lockRaceRecord: two instructions in no order.
raceRecord(e1, e2) == {e1.iid, e2.iid}

\* checkRace and checkLockRace for each event of evs: the records that result,
\* each pushed once.
checkRace(evs) == {raceRecord(p[1], p[2]) : p \in {q \in evs \X evs : isRacing(q[1], q[2])}}

-----------------------------------------------------------------------------
(***************************************************************************)
(* The program: threads that call pthread functions and access memory.     *)
(***************************************************************************)
ZeroClock == [u \in Tid |-> 0]

FirstVcs == [t \in Tid |-> [ZeroClock EXCEPT ![0] = IF t = 0 THEN 1 ELSE 0]]
NoneOf(S) == [x \in S |-> {}]

\* The Handler's constructor registers the main thread with the first id.
Init ==
  /\ lockrace \in BOOLEAN
  /\ vcs = FirstVcs /\ messagemap = [c \in Cond |-> ZeroClock]
  /\ lockmap = NoneOf(Tid)
  /\ eventset = NoneOf(Addr) /\ lockeventset = NoneOf(Lock)
  /\ foundraces = {} /\ foundlockraces = {}
  /\ finish_map = {}
  /\ curr_id = 0 /\ thread_start_map = {} /\ tid = [t \in Tid |-> 0]
  /\ \E h \in Handle :
       /\ handle = [t \in Tid |-> IF t = 0 THEN h ELSE NoHandle]
       /\ pthreadHandleMap = [i \in Tid |-> IF i = 0 THEN h ELSE NoHandle]
  /\ pc = [t \in Tid |-> IF t = 0 THEN "idle" ELSE "unborn"]
  /\ obj = [t \in Tid |-> NoObj]
  /\ owner = [l \in Lock |-> NoThread] /\ tried = {}
  /\ past = NoneOf(Tid) /\ message_past = NoneOf(Cond) /\ wake_past = NoneOf(Tid)
  /\ overlap = FALSE
  /\ ops = 0 /\ events = 0

\* Mutant: the lowest id with this handle.
translateHandleToTID_First(h) ==
  LET ids == {i \in Tid : pthreadHandleMap[i] = h}
  IN  IF ids = {} THEN -1 ELSE Min(ids)

\* translateHandleToTID: the highest id with this handle, -1 if there is none.
translateHandleToTID(h) == Max({-1} \cup {i \in Tid : pthreadHandleMap[i] = h})

getThrID(t) == translateHandleToTID(handle[t])

\* Thread t makes its next call.
Calls(t) == pc[t] = "idle" /\ ops < MaxOps /\ ops' = ops + 1

\* A hook of t runs: the process goes on only if the table knows the handle.
Hook(t) == getThrID(t) # -1

Goes(t, where, what) == pc' = [pc EXCEPT ![t] = where] /\ obj' = [obj EXCEPT ![t] = what]

\* The mutexes t really holds through pthread_mutex_lock.
Held(t) == {l \in Lock : owner[l] = t /\ l \notin tried}

Event(t, i, isread) ==
  [id |-> events, thread |-> getThrID(t), iid |-> i, isread |-> isread,
   vc |-> vcs[getThrID(t)], ls |-> lockmap[getThrID(t)],
   past |-> past[t], held |-> Held(t)]

-----------------------------------------------------------------------------
(***************************************************************************)
(* Threads.  obj of a thread in pthread_create is the thread it creates,   *)
(* in pthread_join the thread it has joined.                               *)
(***************************************************************************)

\* thrille_create: getNextTID increments under its lock ...
getNextTID(t) ==
  /\ Calls(t) /\ curr_id < MaxTid
  /\ curr_id' = curr_id + 1
  /\ Goes(t, "next", curr_id + 1)
  /\ overlap' = (overlap \/ \E u \in Tid : pc[u] = "next")
  /\ UNCHANGED <<lockrace, clockVars, messageVars, lockmap, eventset, lockeventset, reportVars,
                 finish_map, pthreadHandleMap, thread_start_map, tid, handle, realVars,
                 wake_past, events>>

\* ... and reads the counter again for its result after unlocking.
ReturnCurrId(t) ==
  /\ pc[t] = "next"
  /\ tid' = [tid EXCEPT ![obj[t]] = curr_id]
  /\ pc' = [pc EXCEPT ![t] = "before"]
  /\ UNCHANGED <<lockrace, clockVars, messageVars, lockmap, eventset, lockeventset, reportVars,
                 finish_map, curr_id, pthreadHandleMap, thread_start_map, handle, obj, realVars,
                 wake_past, overlap, ops, events>>

\* BeforeCreate: initializeThreadData and beforeCreate, for the child's id.
BeforeCreate(t) ==
  /\ pc[t] = "before" /\ Hook(t)
  /\ LET me == getThrID(t)
         child == tid[obj[t]]
     IN  /\ finish_map' = finish_map \ {child}
         /\ vcs' = incrementMyClock(incrementMyClock([vcs EXCEPT ![child] = vcs[me]], me), child)
  /\ past' = [past EXCEPT ![obj[t]] = past[t]]
  /\ pc' = [pc EXCEPT ![t] = "mark", ![obj[t]] = "fresh"]
  /\ UNCHANGED <<lockrace, messageVars, lockmap, eventset, lockeventset, reportVars,
                 idVars, obj, realVars, wake_past, overlap, ops, events>>

\* The first section under newthread_lock.
MarkNotStarted(t) ==
  /\ pc[t] = "mark"
  /\ thread_start_map' = thread_start_map \ {tid[obj[t]]}
  /\ pc' = [pc EXCEPT ![t] = "create"]
  /\ UNCHANGED <<lockrace, clockVars, messageVars, lockmap, eventset, lockeventset, reportVars,
                 finish_map, curr_id, pthreadHandleMap, tid, handle, obj, realVars,
                 wake_past, overlap, ops, events>>

\* The handles of threads that have not been joined.
HandlesInUse == {handle[u] : u \in {v \in Tid : pc[v] \notin {"unborn", "fresh", "joined"}}}

\* The real pthread_create, in the second section.
CreateThread(t) ==
  /\ pc[t] = "create"
  /\ \E h \in Handle \ HandlesInUse : handle' = [handle EXCEPT ![obj[t]] = h]
  /\ pc' = [pc EXCEPT ![t] = "starting", ![obj[t]] = "born"]
  /\ UNCHANGED <<lockrace, clockVars, messageVars, lockmap, eventset, lockeventset, reportVars,
                 finish_map, curr_id, pthreadHandleMap, thread_start_map, tid, obj, realVars,
                 wake_past, overlap, ops, events>>

\* Threads that have returned from pthread_join but not yet run AfterJoin.
JoinReturned == {t \in Tid : pc[t] = "joining"}

\* Thread u starts with a handle that does not lead to it alone.
HandleMistaken(u) ==
  \/ \E i \in Tid : i > tid[u] /\ pthreadHandleMap[i] = handle[u]
  \/ \E t \in JoinReturned : handle[obj[t]] = handle[u]

\* my_start_routine: setTID, then thread_start_map.
my_start_routine(u) ==
  /\ pc[u] = "born"
  /\ pthreadHandleMap' = [pthreadHandleMap EXCEPT ![tid[u]] = handle[u]]
  /\ thread_start_map' = thread_start_map \cup {tid[u]}
  /\ pc' = [pc EXCEPT ![u] = "idle"]
  /\ overlap' = (overlap \/ HandleMistaken(u))
  /\ UNCHANGED <<lockrace, clockVars, messageVars, lockmap, eventset, lockeventset, reportVars,
                 finish_map, curr_id, tid, handle, obj, realVars, wake_past, ops, events>>

\* The creator sees that the thread with the child's id has started.
ReturnFromCreate(t) ==
  /\ pc[t] = "starting" /\ tid[obj[t]] \in thread_start_map
  /\ Goes(t, "idle", NoObj)
  /\ UNCHANGED <<lockrace, clockVars, messageVars, lockmap, eventset, lockeventset, reportVars,
                 finish_map, idVars, realVars, wake_past, overlap, ops, events>>

\* ThreadFinish, at the end of the thread or in BeforeExit.
ThreadFinish(t) ==
  /\ t # 0 /\ pc[t] = "idle" /\ (\A l \in Lock : owner[l] # t)
  /\ Hook(t) /\ getThrID(t) \notin finish_map
  /\ finish_map' = finish_map \cup {getThrID(t)}
  /\ Goes(t, "finished", NoObj)
  /\ UNCHANGED <<lockrace, clockVars, messageVars, lockmap, eventset, lockeventset,
                 reportVars, idVars, realVars, wake_past, overlap, ops, events>>

\* The real pthread_join returns.
Join(t, joined) ==
  /\ Calls(t)
  /\ pc[joined] = "finished"
  /\ pc' = [pc EXCEPT ![t] = "joining", ![joined] = "joined"]
  /\ obj' = [obj EXCEPT ![t] = joined]
  /\ UNCHANGED <<lockrace, clockVars, messageVars, lockmap, eventset, lockeventset,
                 reportVars, finish_map, idVars, realVars, wake_past, overlap, events>>

\* AfterJoin: the clock is that of the thread the handle is translated to.
AfterJoin(t) ==
  /\ pc[t] = "joining" /\ Hook(t)
  /\ LET join_target == translateHandleToTID(handle[obj[t]])
     IN  /\ join_target # -1
         /\ vcs' = receiveMessage(vcs, getThrID(t), vcs[join_target])
  /\ past' = [past EXCEPT ![t] = @ \cup past[obj[t]]]
  /\ Goes(t, "idle", NoObj)
  /\ UNCHANGED <<lockrace, messageVars, lockmap, eventset, lockeventset, reportVars,
                 finish_map, idVars, realVars, wake_past, overlap, ops, events>>

-----------------------------------------------------------------------------
\* Mutant: the mutex joins the lock set before the event is built.
BeforeMutexLock_LockFirst(t, l, i) ==
  /\ Calls(t) /\ Hook(t) /\ events < MaxEvents
  /\ owner[l] # t
  /\ LET e == [Event(t, i, FALSE) EXCEPT !.ls = @ \cup {l}]
     IN  /\ lockeventset' = IF lockrace /\ Cardinality(lockeventset[l]) <= LockProfile
                              THEN [lockeventset EXCEPT ![l] = @ \cup {e}]
                              ELSE lockeventset
         /\ past' = [past EXCEPT ![t] = @ \cup {e.id}]
  /\ events' = events + 1
  /\ lockmap' = [lockmap EXCEPT ![getThrID(t)] = @ \cup {l}]
  /\ Goes(t, "locking", l)
  /\ UNCHANGED <<lockrace, vcs, messageVars, eventset, reportVars, finish_map, idVars, realVars,
                 wake_past, overlap>>

\* BeforeMutexLock: racer's addLockEvent is empty, lockrace's keeps one event
\* more than lockprofiling.
BeforeMutexLock(t, l, i) ==
  /\ Calls(t) /\ Hook(t) /\ events < MaxEvents
  /\ owner[l] # t
  /\ LET e == Event(t, i, FALSE)
     IN  /\ lockeventset' = IF lockrace /\ Cardinality(lockeventset[l]) <= LockProfile
                              THEN [lockeventset EXCEPT ![l] = @ \cup {e}]
                              ELSE lockeventset
         /\ past' = [past EXCEPT ![t] = @ \cup {e.id}]
  /\ events' = events + 1
  /\ lockmap' = [lockmap EXCEPT ![getThrID(t)] = @ \cup {l}]
  /\ Goes(t, "locking", l)
  /\ UNCHANGED <<lockrace, vcs, messageVars, eventset, reportVars, finish_map, idVars, realVars,
                 wake_past, overlap>>

\* The real pthread_mutex_lock returns.
Acquire(t) ==
  /\ pc[t] = "locking" /\ owner[obj[t]] = NoThread
  /\ owner' = [owner EXCEPT ![obj[t]] = t]
  /\ Goes(t, "idle", NoObj)
  /\ UNCHANGED <<lockrace, clockVars, messageVars, lockmap, eventset, lockeventset,
                 reportVars, finish_map, idVars, tried, wake_past, overlap, ops, events>>

\* pthread_mutex_trylock: the handler overrides no hook of it.
Trylock(t, l) ==
  /\ Calls(t) /\ owner[l] = NoThread
  /\ owner' = [owner EXCEPT ![l] = t]
  /\ tried' = tried \cup {l}
  /\ UNCHANGED <<lockrace, clockVars, messageVars, lockmap, eventset, lockeventset,
                 reportVars, finish_map, idVars, pc, obj, wake_past, overlap, events>>

\* The real pthread_mutex_unlock.
Unlock(t, l) ==
  /\ Calls(t) /\ owner[l] = t
  /\ owner' = [owner EXCEPT ![l] = NoThread]
  /\ tried' = tried \ {l}
  /\ Goes(t, "unlocking", l)
  /\ UNCHANGED <<lockrace, clockVars, messageVars, lockmap, eventset, lockeventset,
                 reportVars, finish_map, idVars, wake_past, overlap, events>>

\* A mutex that is missing from the lock set (one that pthread_mutex_trylock
\* took) is only reported on the terminal.
AfterMutexUnlock(t) ==
  /\ pc[t] = "unlocking" /\ Hook(t)
  /\ lockmap' = [lockmap EXCEPT ![getThrID(t)] = @ \ {obj[t]}]
  /\ Goes(t, "idle", NoObj)
  /\ UNCHANGED <<lockrace, clockVars, messageVars, eventset, lockeventset, reportVars,
                 finish_map, idVars, realVars, wake_past, overlap, ops, events>>

-----------------------------------------------------------------------------
(***************************************************************************)
(* Condition variables.  obj of a thread in a wait is <<condition, mutex>>.*)
(***************************************************************************)
Wait(t, c, l) ==
  /\ Calls(t) /\ owner[l] = t /\ l \notin tried
  /\ owner' = [owner EXCEPT ![l] = NoThread]
  /\ Goes(t, "waiting", <<c, l>>)
  /\ UNCHANGED <<lockrace, clockVars, messageVars, lockmap, eventset, lockeventset,
                 reportVars, finish_map, idVars, tried, wake_past, overlap, events>>

\* The time of a pthread_cond_timedwait runs out.
TimeOut(t) ==
  /\ pc[t] = "waiting"
  /\ pc' = [pc EXCEPT ![t] = "timedout"]
  /\ UNCHANGED <<lockrace, clockVars, messageVars, lockmap, eventset, lockeventset,
                 reportVars, finish_map, idVars, obj, realVars, wake_past, overlap, ops, events>>

\* The real wait has the mutex again and returns.
Reacquire(t) ==
  /\ pc[t] \in {"woken", "timedout"} /\ owner[obj[t][2]] = NoThread
  /\ owner' = [owner EXCEPT ![obj[t][2]] = t]
  /\ pc' = [pc EXCEPT ![t] = IF @ = "woken" THEN "waited" ELSE "expired"]
  /\ UNCHANGED <<lockrace, clockVars, messageVars, lockmap, eventset, lockeventset,
                 reportVars, finish_map, idVars, obj, tried, wake_past, overlap, ops, events>>

\* Mutant: AfterCondTimedwait does not look at the result of the wait.
AfterCondWait_TimedOut(t) ==
  /\ pc[t] \in {"waited", "expired"} /\ (pc[t] = "waited" => Hook(t))
  /\ IF lockrace
       THEN UNCHANGED <<clockVars, overlap>>
       ELSE /\ vcs' = receiveMessage(vcs, getThrID(t), messagemap[obj[t][1]])
            /\ past' = [past EXCEPT ![t] = @ \cup wake_past[t]]
            /\ overlap' = (overlap \/ (pc[t] = "waited" /\ message_past[obj[t][1]] # wake_past[t]))
  /\ wake_past' = [wake_past EXCEPT ![t] = {}]
  /\ Goes(t, "idle", NoObj)
  /\ UNCHANGED <<lockrace, messageVars, lockmap, eventset, lockeventset, reportVars,
                 finish_map, idVars, realVars, ops, events>>

\* AfterCondWait, and AfterCondTimedwait, which does nothing for a wait that
\* timed out: afterWait, empty in lockrace.
AfterCondWait(t) ==
  /\ pc[t] \in {"waited", "expired"} /\ (pc[t] = "waited" => Hook(t))
  /\ IF lockrace \/ pc[t] = "expired"
       THEN UNCHANGED <<clockVars, overlap>>
       ELSE /\ vcs' = receiveMessage(vcs, getThrID(t), messagemap[obj[t][1]])
            /\ past' = [past EXCEPT ![t] = @ \cup wake_past[t]]
            /\ overlap' = (overlap \/ message_past[obj[t][1]] # wake_past[t])
  /\ wake_past' = [wake_past EXCEPT ![t] = {}]
  /\ Goes(t, "idle", NoObj)
  /\ UNCHANGED <<lockrace, messageVars, lockmap, eventset, lockeventset, reportVars,
                 finish_map, idVars, realVars, ops, events>>

\* BeforeCondSignal and BeforeCondBroadcast: beforeSignal, empty in lockrace.
BeforeCondSignal(t, c, how) ==
  /\ Calls(t) /\ Hook(t)
  /\ IF lockrace
       THEN UNCHANGED <<clockVars, messageVars>>
       ELSE /\ messagemap' = [messagemap EXCEPT ![c] = vcs[getThrID(t)]]
            /\ message_past' = [message_past EXCEPT ![c] = past[t]]
            /\ vcs' = incrementMyClock(vcs, getThrID(t))
            /\ UNCHANGED past
  /\ Goes(t, how, c)
  /\ UNCHANGED <<lockrace, lockmap, eventset, lockeventset, reportVars, finish_map,
                 idVars, realVars, wake_past, overlap, events>>

WaitersOf(c) == {u \in Tid : pc[u] = "waiting" /\ obj[u][1] = c}

\* The real pthread_cond_signal or pthread_cond_broadcast wakes set.
Wake(t, set) ==
  /\ pc' = [u \in Tid |-> IF u \in set THEN "woken" ELSE IF u = t THEN "idle" ELSE pc[u]]
  /\ obj' = [obj EXCEPT ![t] = NoObj]
  /\ wake_past' = [u \in Tid |-> IF u \in set THEN past[t] ELSE wake_past[u]]
  /\ UNCHANGED <<lockrace, clockVars, messageVars, lockmap, eventset, lockeventset,
                 reportVars, finish_map, idVars, realVars, overlap, ops, events>>

Signal(t) ==
  /\ pc[t] = "signal"
  /\ \/ WaitersOf(obj[t]) = {} /\ Wake(t, {})
     \/ \E u \in WaitersOf(obj[t]) : Wake(t, {u})

Broadcast(t) == pc[t] = "broadcast" /\ Wake(t, WaitersOf(obj[t]))

-----------------------------------------------------------------------------
\* myMemoryRead and myMemoryWrite; addEvent bounds both kinds by
\* rd_profile_size.
myMemoryAccess(t, a, i, isread) ==
  /\ Calls(t) /\ Hook(t) /\ events < MaxEvents
  /\ LET e == Event(t, i, isread)
     IN  /\ eventset' = IF Cardinality(eventset[a]) < ProfileSize
                          THEN [eventset EXCEPT ![a] = @ \cup {e}]
                          ELSE eventset
         /\ past' = [past EXCEPT ![t] = @ \cup {e.id}]
  /\ events' = events + 1
  /\ UNCHANGED <<lockrace, vcs, messageVars, lockmap, lockeventset, reportVars,
                 finish_map, idVars, pc, obj, realVars, wake_past, overlap>>

\* Of a process that has ended only the report, the events it rests on and
\* overlap remain.
ProcessEnds(how) ==
  /\ pc' = [t \in Tid |-> how]
  /\ obj' = [t \in Tid |-> NoObj]
  /\ vcs' = FirstVcs /\ messagemap' = [c \in Cond |-> ZeroClock]
  /\ lockmap' = NoneOf(Tid) /\ finish_map' = {}
  /\ curr_id' = 0 /\ thread_start_map' = {} /\ tid' = [t \in Tid |-> 0]
  /\ handle' = [t \in Tid |-> NoHandle] /\ pthreadHandleMap' = [i \in Tid |-> NoHandle]
  /\ owner' = [l \in Lock |-> NoThread] /\ tried' = {}
  /\ past' = NoneOf(Tid) /\ message_past' = NoneOf(Cond) /\ wake_past' = NoneOf(Tid)
  /\ ops' = 0 /\ events' = 0
  /\ UNCHANGED <<lockrace, eventset, lockeventset, overlap>>

\* The main thread ends the process: outputRaces, in the handler's destructor.
outputRaces ==
  /\ pc[0] = "idle"
  /\ foundraces' = UNION {checkRace(eventset[a]) : a \in Addr}
  /\ foundlockraces' = UNION {checkRace(lockeventset[l]) : l \in Lock}
  /\ ProcessEnds("ended")

\* Where the next step of a thread is, or may be, a hook.
HookNext == {"idle", "before", "joining", "unlocking", "waited"}

\* The process ends in _Exit, without a report: translateHandleToTID finds no
\* id for a handle, or ThreadFinish finds its id finished.
Exit(t) ==
  /\ \/ pc[t] \in HookNext /\ getThrID(t) = -1
     \/ pc[t] = "joining" /\ translateHandleToTID(handle[obj[t]]) = -1
     \/ t # 0 /\ pc[t] = "idle" /\ getThrID(t) \in finish_map
  /\ UNCHANGED reportVars
  /\ ProcessEnds("exited")

Next ==
  \/ outputRaces
  \/ \E t \in Tid :
       \/ getNextTID(t) \/ ReturnCurrId(t) \/ BeforeCreate(t) \/ MarkNotStarted(t)
       \/ CreateThread(t) \/ my_start_routine(t) \/ ReturnFromCreate(t)
       \/ ThreadFinish(t) \/ AfterJoin(t) \/ Exit(t)
       \/ \E u \in Tid : Join(t, u)
       \/ \E l \in Lock :
            \/ \E i \in Iid : BeforeMutexLock(t, l, i)
            \/ Trylock(t, l) \/ Unlock(t, l)
            \/ \E c \in Cond : Wait(t, c, l)
       \/ Acquire(t) \/ AfterMutexUnlock(t)
       \/ TimeOut(t) \/ Reacquire(t) \/ AfterCondWait(t)
       \/ \E c \in Cond, how \in {"signal", "broadcast"} : BeforeCondSignal(t, c, how)
       \/ Signal(t) \/ Broadcast(t)
       \/ \E a \in Addr, i \in Iid, isread \in BOOLEAN : myMemoryAccess(t, a, i, isread)

Spec == Init /\ [][Next]_vars

-----------------------------------------------------------------------------
AllEvents == UNION ({eventset[a] : a \in Addr} \cup {lockeventset[l] : l \in Lock})

\* ClocksExact: the vector clocks of two kept events of different threads are
\* ordered (isHappensBefore) exactly when pthread_create, pthread_join and, in
\* racer, the signals that ended waits order the events, unless threads have
\* met in one of the orders overlap stands for.  A clock that does not advance,
\* or a merge that forgets, hides races or invents them.
ClocksExact ==
  ~overlap =>
    \A e1, e2 \in AllEvents :
      e1.thread # e2.thread =>
        (isHappensBefore(e1.vc, e2.vc) <=> e1.id \in e2.past)

\* OwnClockLeads: no thread and no condition variable knows a later time of a
\* thread than the thread itself, and while it runs they know an earlier one:
\* what the comparison of clocks in isRacing rests on.
OwnClockLeads ==
  ~overlap =>
    \A t \in Tid : pc[t] \notin {"unborn", "ended", "exited", "joined"} =>
      /\ \A u \in Tid \ {t} : vcs[u][t] < vcs[t][t]
      /\ \A c \in Cond : messagemap[c][t] < vcs[t][t]

\* Two kept events that nothing orders and no mutex separates.
ReallyRacing(e1, e2) ==
  /\ e1.thread # e2.thread
  /\ ~e1.isread \/ ~e2.isread
  /\ e1.id \notin e2.past /\ e2.id \notin e1.past
  /\ e1.held \cap e2.held = {}

\* ReportExact: the records outputRaces writes are the pairs of instructions
\* of kept events that are unordered and under no common mutex, the mutexes
\* really held through pthread_mutex_lock at the access, unless threads have
\* met in one of the orders overlap stands for.
ReportExact ==
  (pc[0] = "ended" /\ ~overlap) =>
    /\ foundraces = {r \in SUBSET Iid : \E a \in Addr : \E e1, e2 \in eventset[a] :
                        ReallyRacing(e1, e2) /\ r = {e1.iid, e2.iid}}
    /\ foundlockraces = {r \in SUBSET Iid : \E l \in Lock : \E e1, e2 \in lockeventset[l] :
                        ReallyRacing(e1, e2) /\ r = {e1.iid, e2.iid}}

\* Identified: however many threads create and join at once, getThrID gives
\* each running thread an id of its own (the one meant for it), AfterJoin finds
\* the thread that was joined and no hook ends the process, unless threads have
\* met in one of the first three orders overlap stands for.
Identified ==
  ~overlap =>
    \A t \in Tid :
      /\ pc[t] \notin {"unborn", "fresh", "born", "finished", "joined", "ended", "exited"}
           => getThrID(t) = t
      /\ pc[t] = "joining" => translateHandleToTID(handle[obj[t]]) = obj[t]
      /\ pc[t] # "exited"

=============================================================================
