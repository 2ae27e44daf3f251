---------------------------- MODULE Interposition ----------------------------
(***************************************************************************)
(* thrille-core: the wrappers that take the place of the pthread           *)
(* functions, their start-up (pth_start) and their end (pth_end), for a    *)
(* thriller that keeps the default hooks where it has none of its own      *)
(* (Handler, safe_mode = false: racer, lockrace) and for the serializer    *)
(* (safe_mode = true).                                                     *)
(*                                                                         *)
(* A call is a frame: the function, and where its wrapper is.  The stack   *)
(* of a thread is deeper than one frame when start-up itself, or the       *)
(* routine of pthread_once, calls a wrapped function.                      *)
(***************************************************************************)
EXTENDS Naturals, Sequences, FiniteSets

CONSTANTS
  Thread, Main,   \* the threads, and the one that starts the process
  Unresolvable,   \* the symbols dlsym may fail to find
  CalledElsewhere,\* bound: what threads other than Main, start-up and the
                  \* pthread_once routine call; Main calls every function
  MaxDepth        \* bound: frames of one thread

VARIABLES
  thriller,            \* "plain" or "serializer"
  pHandler,            \* "null", "live" or "deleted"
  handlers,            \* how many handlers create_handler has made
  pth_is_initialized,  \* of Handler
  _initialized,        \* of Originals
  resolved,            \* the functions whose original dlsym has found
  frames,              \* the stack of each thread
  live, finished,      \* threads that exist; those that ran ThreadFinish
  parked, launched,    \* serializer: threads in pauseThread; those whose
                       \* semaphore has been posted
  once,                \* the thread inside the pthread_once routine,
                       \* "never" before and "done" after it
  destructorCall,      \* a finished thread has called a scheduling hook
  status

vars == <<thriller, pHandler, handlers, pth_is_initialized, _initialized,
          resolved, frames, live, finished, parked, launched, once,
          destructorCall, status>>

(***************************************************************************)
(* The wrapped functions, ten by ten in the order of libpth.cpp (the       *)
(* prefix pthread_ is left out).  Each has the same exported wrapper, see  *)
(* Call; pthread_create has one of its own.                                *)
(***************************************************************************)
Wrapped1 == {"sem_wait", "mutex_lock", "sleep", "condattr_destroy",
   "mutexattr_getpshared", "setconcurrency", "getconcurrency", "sem_destroy",
   "testcancel", "attr_getscope"}
Wrapped2 == {"mutex_init", "sem_init", "mutex_trylock", "rwlockattr_init",
   "mutexattr_setpshared", "rwlockattr_destroy", "barrier_destroy",
   "getschedparam", "attr_getschedparam", "cancel"}
Wrapped3 == {"cond_wait", "condattr_getpshared", "spin_trylock",
   "attr_getinheritsched", "attr_setstack", "cond_signal", "sem_getvalue",
   "mutexattr_init", "barrier_wait", "spin_destroy"}
Wrapped4 == {"key_delete", "setspecific", "attr_setstacksize",
   "setcancelstate", "barrierattr_setpshared", "rwlock_timedrdlock", "detach",
   "usleep", "rwlock_destroy", "exit"}
Wrapped5 == {"attr_setdetachstate", "rwlock_trywrlock", "attr_init",
   "attr_setguardsize", "condattr_setpshared", "mutex_setprioceiling",
   "mutexattr_getprotocol", "attr_getstack", "condattr_init",
   "mutexattr_gettype"}
Wrapped6 == {"sem_post", "attr_getstacksize", "sem_timedwait", "equal",
   "spin_init", "sched_yield", "key_create", "mutexattr_destroy",
   "cond_timedwait", "condattr_getclock"}
Wrapped7 == {"setschedparam", "attr_setinheritsched", "mutex_unlock",
   "attr_setschedparam", "rwlockattr_setpshared", "attr_setstackaddr",
   "mutex_destroy", "attr_getschedpolicy", "setcanceltype", "sigwait"}
Wrapped8 == {"rwlock_init", "rwlock_unlock", "mutexattr_setprotocol",
   "mutex_getprioceiling", "sem_trywait", "attr_getstackaddr",
   "mutexattr_settype", "getcpuclockid", "cond_destroy", "spin_lock"}
Wrapped9 == {"once", "atfork", "attr_setscope", "getspecific", "attr_destroy",
   "mutex_timedlock", "barrier_init", "setschedprio", "condattr_setclock",
   "cond_broadcast"}
Wrapped10 == {"spin_unlock", "rwlock_rdlock", "rwlock_wrlock", "join",
   "cond_init", "attr_getguardsize", "barrierattr_init", "rwlock_tryrdlock",
   "attr_setschedpolicy", "barrierattr_destroy"}
Wrapped11 == {"self", "attr_getdetachstate", "rwlock_timedwrlock",
   "mutexattr_setprioceiling"}

Wrapped == UNION {Wrapped1, Wrapped2, Wrapped3, Wrapped4, Wrapped5, Wrapped6,
                  Wrapped7, Wrapped8, Wrapped9, Wrapped10, Wrapped11}
Function == Wrapped \cup {"create"}

ASSUME InterpositionAssumption ==
  /\ Main \in Thread
  /\ CalledElsewhere \subseteq Function
  /\ MaxDepth \in Nat \ {0}

(***************************************************************************)
(* The hooks SerializerHandler overrides: Before* returns true and the     *)
(* original runs, or false and Simulate* runs.  ArgumentChecked is refused *)
(* (safe_assert) for some arguments.                                       *)
(***************************************************************************)
PassedThrough ==
  {"getschedparam", "key_create", "setspecific", "getspecific", "attr_destroy",
   "equal", "attr_setschedparam", "attr_setstacksize", "attr_setdetachstate",
   "attr_getschedparam", "mutexattr_settype", "once", "mutex_init",
   "cond_init", "mutexattr_init", "self", "attr_init", "attr_setscope",
   "setcanceltype", "create", "barrier_init", "sem_init", "join",
   "mutex_unlock"}

Simulated ==
  {"mutex_trylock", "barrier_destroy", "sem_destroy", "barrier_wait",
   "sem_wait", "sem_post", "mutex_lock", "mutex_destroy", "cond_destroy",
   "cond_wait", "cond_timedwait", "cond_signal", "cond_broadcast", "usleep",
   "sleep", "exit"}

ArgumentChecked == {"attr_setschedparam", "mutexattr_settype", "cond_init"}

\* Whose hooks ask threadIsFinished.
FinishedAware == {"mutex_lock", "mutex_unlock"}

\* Where the tracker's schedule is called in a call of f.
SchedulesIn(f) ==
  CASE f \in {"mutex_lock", "mutex_trylock", "join", "sem_wait",
              "barrier_wait"} -> "before"
    [] f \in {"cond_wait", "cond_timedwait", "cond_signal", "cond_broadcast",
              "sleep", "usleep", "sem_post"} -> "simulate"
    [] f \in {"create", "mutex_unlock"} -> "after"
    [] OTHER -> "never"

\* The originals that may wait for another thread.
MayBlock ==
  {"mutex_lock", "mutex_timedlock", "cond_wait", "cond_timedwait", "sem_wait",
   "sem_timedwait", "barrier_wait", "rwlock_rdlock", "rwlock_wrlock",
   "rwlock_timedrdlock", "rwlock_timedwrlock", "spin_lock", "join", "once",
   "sigwait", "sleep", "usleep"}

-----------------------------------------------------------------------------
Top(t) == frames[t][Len(frames[t])]
At(t, where) == frames[t] # <<>> /\ Top(t).at = where
Below(t) == SubSeq(frames[t], 1, Len(frames[t]) - 1)

Push(t, f, where) ==
  frames' = [frames EXCEPT ![t] = Append(@, [fn |-> f, at |-> where])]
MoveTo(t, where) ==
  frames' = [frames EXCEPT ![t] = Append(Below(t), [fn |-> Top(t).fn, at |-> where])]
Pop(t) == frames' = [frames EXCEPT ![t] = Below(t)]

startVars == <<pHandler, handlers, pth_is_initialized, _initialized, resolved>>
baton == <<parked, launched, destructorCall>>

\* A failed safe_assert or _Exit(UNRECOVERABLE_ERROR).
ExitWith(s) == status' = s /\ UNCHANGED <<frames, baton, once, live, finished>>

Moves(t) == status = "run" /\ t \in live /\ t \notin parked

(***************************************************************************)
(* The tracker launches some thread, and the caller pauses until somebody  *)
(* launches it (schedule, pauseThread).                                    *)
(***************************************************************************)
Handover(t, f) ==
  /\ \E n \in (live \ finished) \cup {t} : launched' = launched \cup {n}
  /\ parked' = parked \cup {t}
  /\ destructorCall' =
       (destructorCall \/ (t \in finished /\ f \notin FinishedAware))

\* Mutant: no hook looks whether the caller is finished.
HandoverIn_Finished(t, f, h) ==
  IF thriller = "serializer" /\ SchedulesIn(f) = h
  THEN Handover(t, f)
  ELSE UNCHANGED baton

\* ... if hook h of f is where a serialized call schedules.  The hooks of
\* FinishedAware leave a finished thread alone.
HandoverIn(t, f, h) ==
  IF /\ thriller = "serializer" /\ SchedulesIn(f) = h
     /\ ~(f \in FinishedAware /\ t \in finished)
  THEN Handover(t, f)
  ELSE UNCHANGED baton

pauseThread(t) ==
  /\ status = "run"
  /\ t \in parked \cap launched
  /\ parked' = parked \ {t}
  /\ launched' = launched \ {t}
  /\ UNCHANGED <<thriller, startVars, frames, live, finished, once,
                 destructorCall, status>>

(***************************************************************************)
(* Where a call may come from: the program, a start-up that is under way   *)
(* (the C++ library; it creates no thread), the routine of pthread_once.   *)
(***************************************************************************)
CallsFrom(t) ==
  CASE frames[t] = <<>> -> (IF t = Main THEN Function ELSE CalledElsewhere)
                             \ (IF Thread = live THEN {"create"} ELSE {})
    [] At(t, "construct") \/ At(t, "afterInit") -> CalledElsewhere \ {"create"}
    [] once = t /\ At(t, "original") /\ Top(t).fn = "once" ->
          CalledElsewhere \ {"create", "once"}
    [] OTHER -> {}

\* Mutant: no wrapper looks at pth_is_initialized.
Call_NoInit(t) ==
  /\ Moves(t)
  /\ Len(frames[t]) < MaxDepth
  /\ \E f \in CallsFrom(t) : Push(t, f, "before")
  /\ UNCHANGED <<thriller, startVars, live, finished, baton, once, status>>

\* An exported function is called: all wrappers but that of pthread_create
\* start Thrille if need be; then pHandler is used.
Call(t) ==
  /\ Moves(t)
  /\ Len(frames[t]) < MaxDepth
  /\ \E f \in CallsFrom(t) :
       IF f # "create" /\ ~pth_is_initialized
       THEN Push(t, f, "start") /\ UNCHANGED <<status, baton, once, live, finished>>
       ELSE IF pHandler = "live"
            THEN Push(t, f, "before") /\ UNCHANGED <<status, baton, once, live, finished>>
            ELSE ExitWith("crash")
  /\ UNCHANGED <<thriller, startVars>>

\* pth_start as the constructor of the library.
Constructor(t) ==
  /\ Moves(t) /\ t = Main
  /\ frames[t] = <<>> /\ ~pth_is_initialized
  /\ Push(t, "pth_start", "start")
  /\ UNCHANGED <<thriller, startVars, live, finished, baton, once, status>>

Originals_initialize(t) ==
  /\ Moves(t) /\ At(t, "start")
  /\ IF _initialized
     THEN ExitWith("exit") /\ UNCHANGED <<_initialized, resolved>>
     ELSE /\ _initialized' = TRUE
          /\ resolved' \in {Function, Function \ Unresolvable}
          /\ MoveTo(t, "construct")
          /\ UNCHANGED <<live, finished, baton, once, status>>
  /\ UNCHANGED <<thriller, pHandler, handlers, pth_is_initialized>>

create_handler(t) ==
  /\ Moves(t) /\ At(t, "construct")
  /\ pHandler' = "live" /\ handlers' = handlers + 1
  /\ MoveTo(t, "afterInit")
  /\ UNCHANGED <<thriller, pth_is_initialized, _initialized, resolved, live,
                 finished, baton, once, status>>

\* AfterInitialize and initializationDone; the wrapper that called pth_start
\* goes on.
initializationDone(t) ==
  /\ Moves(t) /\ At(t, "afterInit")
  /\ IF pth_is_initialized
     THEN ExitWith("exit") /\ UNCHANGED pth_is_initialized
     ELSE /\ pth_is_initialized' = TRUE
          /\ IF Top(t).fn = "pth_start" THEN Pop(t) ELSE MoveTo(t, "before")
          /\ UNCHANGED <<live, finished, baton, once, status>>
  /\ UNCHANGED <<thriller, pHandler, handlers, _initialized, resolved>>

\* Mutant: a default hook lets the call through in safe mode.
Before_NoSafeMode(t) ==
  /\ Moves(t) /\ At(t, "before")
  /\ MoveTo(t, IF thriller = "serializer" /\ Top(t).fn \in Simulated
               THEN "simulate" ELSE "original")
  /\ HandoverIn(t, Top(t).fn, "before")
  /\ UNCHANGED <<thriller, startVars, once, live, finished, status>>

\* Before*: of Handler, of Handler in safe mode, of SerializerHandler.
\* BeforeSigwait, too, ends in a failed assertion, after launching a thread that
\* has no time to run: one step here.
Before(t) ==
  /\ Moves(t) /\ At(t, "before")
  /\ LET f == Top(t).fn
         own == f \in PassedThrough \cup Simulated
     IN  \/ /\ thriller = "plain" \/ own
            /\ MoveTo(t, IF thriller = "serializer" /\ f \in Simulated
                            /\ ~(f = "mutex_lock" /\ t \in finished)
                         THEN "simulate" ELSE "original")
            /\ HandoverIn(t, f, "before")
            /\ UNCHANGED <<once, live, finished, status>>
         \/ /\ thriller = "serializer"
            /\ ~own \/ f \in ArgumentChecked
            /\ ExitWith("exit")
  /\ UNCHANGED <<thriller, startVars>>

\* The original: Originals returns 0 when dlsym has not found it.
Original(t) ==
  /\ Moves(t) /\ At(t, "original")
  /\ Top(t).fn \notin {"once", "exit", "create"} \/ Top(t).fn \notin resolved
  /\ MoveTo(t, "after")
  /\ UNCHANGED <<thriller, startVars, once, live, finished, baton, status>>

\* The original of pthread_create: a thread of the serializer pauses at once.
OriginalCreate(t) ==
  /\ Moves(t) /\ At(t, "original") /\ Top(t).fn = "create"
  /\ \E u \in Thread \ live :
       /\ live' = live \cup {u}
       /\ parked' = IF thriller = "serializer" THEN parked \cup {u} ELSE parked
  /\ MoveTo(t, "after")
  /\ UNCHANGED <<thriller, startVars, once, finished, launched, destructorCall, status>>

\* The original of pthread_once: the first caller runs the routine, the
\* others wait for it to be over.
OriginalOnce(t) ==
  /\ Moves(t) /\ At(t, "original") /\ Top(t).fn = "once" /\ "once" \in resolved
  /\ \/ once = "never" /\ once' = t /\ UNCHANGED frames
     \/ once = t /\ once' = "done" /\ MoveTo(t, "after")
     \/ once = "done" /\ UNCHANGED once /\ MoveTo(t, "after")
  /\ UNCHANGED <<thriller, startVars, live, finished, baton, status>>

Simulate(t) ==
  /\ Moves(t) /\ At(t, "simulate") /\ Top(t).fn # "exit"
  /\ MoveTo(t, "after")
  /\ HandoverIn(t, Top(t).fn, "simulate")
  /\ UNCHANGED <<thriller, startVars, once, live, finished, status>>

\* After*, and the return to the program.
After(t) ==
  /\ Moves(t) /\ At(t, "after")
  /\ IF Top(t).fn = "exit"
     THEN ExitWith("exit")
     ELSE /\ Pop(t)
          /\ HandoverIn(t, Top(t).fn, "after")
          /\ UNCHANGED <<once, live, finished, status>>
  /\ UNCHANGED <<thriller, startVars>>

\* finalizeThread: the next thread is launched, or there is none.
Finalize(t) ==
  /\ finished' = finished \cup {t}
  /\ UNCHANGED <<parked, destructorCall>>
  /\ IF thriller = "plain"
     THEN UNCHANGED <<launched, status>>
     ELSE \/ /\ live \ finished' = {} /\ status' = "exit" /\ UNCHANGED launched
          \/ \E n \in live \ finished' :
               launched' = launched \cup {n} /\ UNCHANGED status

\* The start routine returns (ThreadFinish), or pthread_exit is called: by
\* the serializer through SimulateExit, else by the wrapper itself.
ThreadFinish(t) ==
  /\ Moves(t) /\ t \notin finished
  /\ \/ frames[t] = <<>> /\ t # Main /\ UNCHANGED frames
     \/ /\ frames[t] # <<>> /\ Top(t).fn = "exit" /\ once # t
        /\ Top(t).at = IF thriller = "plain" THEN "original" ELSE "simulate"
        /\ IF "exit" \in resolved
           THEN frames' = [frames EXCEPT ![t] = <<>>]
           ELSE MoveTo(t, "after")
  /\ Finalize(t)
  /\ UNCHANGED <<thriller, startVars, live, once>>

\* The process exits: pth_end, the destructor of the library, deletes the
\* handler; then the other destructors run and the process is gone.
pth_end ==
  /\ Moves(Main) /\ Main \notin finished
  /\ frames[Main] = <<>> /\ pHandler = "live"
  /\ pHandler' = "deleted"
  /\ UNCHANGED <<thriller, handlers, pth_is_initialized, _initialized, resolved,
                 frames, live, finished, baton, once, status>>

ProcessEnds ==
  /\ status = "run" /\ pHandler = "deleted"
  /\ ExitWith("over")
  /\ UNCHANGED <<thriller, startVars>>

Init ==
  /\ thriller \in {"plain", "serializer"}
  /\ pHandler = "null" /\ handlers = 0
  /\ pth_is_initialized = FALSE /\ _initialized = FALSE
  /\ resolved = {}
  /\ frames = [t \in Thread |-> <<>>]
  /\ live = {Main} /\ finished = {} /\ parked = {} /\ launched = {}
  /\ once = "never" /\ destructorCall = FALSE
  /\ status = "run"

Step(t) ==
  \/ Call(t) \/ Constructor(t) \/ Originals_initialize(t) \/ create_handler(t)
  \/ initializationDone(t) \/ Before(t) \/ Original(t) \/ OriginalCreate(t)
  \/ OriginalOnce(t) \/ Simulate(t) \/ After(t) \/ ThreadFinish(t)
  \/ pauseThread(t)

Next == (\E t \in Thread : Step(t)) \/ pth_end \/ ProcessEnds

Spec == Init /\ [][Next]_vars

-----------------------------------------------------------------------------
Hooks == {"before", "original", "simulate", "after"}

\* StartsOnce: no hook runs before start-up is over, however the program, a
\* constructor of another library or start-up itself came to call the wrapper;
\* and a wrapper called while start-up is under way ends the process, it never
\* makes a second handler that would lose what the first one has recorded.
StartsOnce ==
  /\ handlers <= 1
  /\ \A t \in Thread : \A i \in DOMAIN frames[t] :
       frames[t][i].at \in Hooks => pth_is_initialized /\ pHandler # "null"

\* OneBaton: as long as no destructor of a finished thread calls a scheduling
\* hook (BeforeMutexTrylock and the others, unlike BeforeMutexLock, do not ask
\* threadIsFinished), at most one unfinished thread runs or is about to run.
OneBaton ==
  \/ destructorCall \/ thriller = "plain"
  \/ Cardinality(live \ (finished \cup parked)) + Cardinality(launched) <= 1

\* NoUncontrolledBlocking: a thread of the serializer that has the right to run
\* never enters an original that waits for another thread: the functions that
\* may are simulated or refused in safe mode.  pthread_join is tracked by
\* BeforeJoin; pthread_once is passed through although it may block.
NoUncontrolledBlocking ==
  \A t \in live \ finished :
     thriller = "serializer" /\ At(t, "original") /\ Top(t).fn \in MayBlock
        => Top(t).fn \in {"join", "once"}
=============================================================================
