--------------------------- MODULE ThreadCreation ---------------------------
(***************************************************************************)
(* Thread creation in thrille-core: the pthread_create wrapper             *)
(* (thrille_create), the first steps of the new thread (my_start_routine)  *)
(* and the table from pthread handles to thread ids (ThreadTracker).       *)
(*                                                                         *)
(* Under the serializer one thread at a time is in here (MaxCreators = 1), *)
(* and the wrapper is right.  The thrillers that do not serialize, racer   *)
(* for one, let several in: then two threads may get one id, and a creator *)
(* may wait for ever.  RaceDetection has the consequences for racer.       *)
(***************************************************************************)
EXTENDS Integers, FiniteSets, FiniteSetsExt

CONSTANTS
  Thread, Main,  \* real threads, and the one that runs main
  Handle,        \* values of pthread_t; a dead thread's may be used again
  NoHandle,
  MaxTid,        \* bound: ids are 0..MaxTid
  MaxCreators,   \* how many threads may be inside pthread_create at once
  MayFail        \* whether the real pthread_create may return an error

ASSUME CreationAssumption ==
  /\ Main \in Thread
  /\ NoHandle \notin Handle
  /\ MaxTid \in Nat /\ MaxCreators \in Nat
  /\ MayFail \in BOOLEAN

VARIABLES
  curr_id,           \* ThreadTracker
  pthreadHandleMap,  \* ThreadTracker: thread id to handle
  thread_start_map,  \* Handler: thread id to "has started"
  pc,
  child_id,          \* thrille_create: the id meant for the child
  child,             \* thrille_create: the threads it has created, if any
  tid,               \* args_t: the id a thread was given
  handle             \* pthread_self of a thread

vars == <<curr_id, pthreadHandleMap, thread_start_map, pc, child_id, child, tid, handle>>

Ids == 0..MaxTid
InCreate == {"next", "mark", "create", "wait", "check"}
Creators == {t \in Thread : pc[t] \in InCreate}

\* The Handler's constructor registers the main thread with the first id.
Init ==
  /\ curr_id = 0
  /\ thread_start_map = [i \in Ids |-> FALSE]
  /\ pc = [t \in Thread |-> IF t = Main THEN "run" ELSE "unborn"]
  /\ child_id = [t \in Thread |-> 0]
  /\ child = [t \in Thread |-> {}]
  /\ tid = [t \in Thread |-> 0]
  /\ \E h \in Handle :
       /\ handle = [t \in Thread |-> IF t = Main THEN h ELSE NoHandle]
       /\ pthreadHandleMap = [i \in Ids |-> IF i = 0 THEN h ELSE NoHandle]

-----------------------------------------------------------------------------
\* getNextTID increments under its lock ...
getNextTID(t) ==
  /\ pc[t] = "run"
  /\ Cardinality(Creators) < MaxCreators
  /\ curr_id < MaxTid
  /\ curr_id' = curr_id + 1
  /\ pc' = [pc EXCEPT ![t] = "next"]
  /\ UNCHANGED <<pthreadHandleMap, thread_start_map, child_id, child, tid, handle>>

\* ... and reads the counter again for its result after unlocking.
ReturnCurrId(t) ==
  /\ pc[t] = "next"
  /\ child_id' = [child_id EXCEPT ![t] = curr_id]
  /\ pc' = [pc EXCEPT ![t] = "mark"]
  /\ UNCHANGED <<curr_id, pthreadHandleMap, thread_start_map, child, tid, handle>>

\* BeforeCreate is the thriller's; then the first section under newthread_lock.
MarkNotStarted(t) ==
  /\ pc[t] = "mark"
  /\ thread_start_map' = [thread_start_map EXCEPT ![child_id[t]] = FALSE]
  /\ pc' = [pc EXCEPT ![t] = "create"]
  /\ UNCHANGED <<curr_id, pthreadHandleMap, child_id, child, tid, handle>>

\* Mutant: the creator does not wait.
WaitForStart_NoWait(t) == "run"

\* The while loop on newthread_cond, entered with newthread_lock held.
WaitForStart(t) == IF thread_start_map[child_id[t]] THEN "run" ELSE "wait"

\* Handles that cannot be given to a new thread: those of live threads and
\* of children whose creator has not yet seen them start.
HandlesInUse ==
  {handle[u] : u \in {v \in Thread : pc[v] \notin {"unborn", "dead"}}}
    \cup {handle[u] : u \in UNION {child[t] : t \in Creators}}

\* The second section: the real pthread_create and the first test of the loop.
CreateThread(t) ==
  /\ pc[t] = "create"
  /\ \E u \in Thread, h \in Handle \ HandlesInUse :
       /\ pc[u] = "unborn"
       /\ pc' = [pc EXCEPT ![t] = WaitForStart(t), ![u] = "born"]
       /\ child' = [child EXCEPT ![t] = {u}]
       /\ tid' = [tid EXCEPT ![u] = child_id[t]]
       /\ handle' = [handle EXCEPT ![u] = h]
  /\ UNCHANGED <<curr_id, pthreadHandleMap, thread_start_map, child_id>>

\* The real pthread_create fails; its result is not looked at here.
CreateFails(t) ==
  /\ MayFail
  /\ pc[t] = "create"
  /\ pc' = [pc EXCEPT ![t] = WaitForStart(t)]
  /\ child' = [child EXCEPT ![t] = {}]
  /\ UNCHANGED <<curr_id, pthreadHandleMap, thread_start_map, child_id, tid, handle>>

\* Mutant: the creator is not signalled.
my_start_routine_NoSignal(u) ==
  /\ pc[u] = "born"
  /\ pthreadHandleMap' = [pthreadHandleMap EXCEPT ![tid[u]] = handle[u]]
  /\ thread_start_map' = [thread_start_map EXCEPT ![tid[u]] = TRUE]
  /\ pc' = [pc EXCEPT ![u] = "run"]
  /\ UNCHANGED <<curr_id, child_id, child, tid, handle>>

\* my_start_routine: setTID, thread_start_map, pthread_cond_signal.
my_start_routine(u) ==
  /\ pc[u] = "born"
  /\ pthreadHandleMap' = [pthreadHandleMap EXCEPT ![tid[u]] = handle[u]]
  /\ thread_start_map' = [thread_start_map EXCEPT ![tid[u]] = TRUE]
  /\ LET waiting == {t \in Thread : pc[t] = "wait"} IN
     \/ waiting = {} /\ pc' = [pc EXCEPT ![u] = "run"]
     \/ \E w \in waiting : pc' = [pc EXCEPT ![u] = "run", ![w] = "check"]
  /\ UNCHANGED <<curr_id, child_id, child, tid, handle>>

\* pthread_cond_wait may return without a signal.
SpuriousWakeup(t) ==
  /\ pc[t] = "wait"
  /\ pc' = [pc EXCEPT ![t] = "check"]
  /\ UNCHANGED <<curr_id, pthreadHandleMap, thread_start_map, child_id, child, tid, handle>>

CheckStarted(t) ==
  /\ pc[t] = "check"
  /\ pc' = [pc EXCEPT ![t] = WaitForStart(t)]
  /\ UNCHANGED <<curr_id, pthreadHandleMap, thread_start_map, child_id, child, tid, handle>>

ThreadEnds(t) ==
  /\ pc[t] = "run"
  /\ t # Main
  /\ pc' = [pc EXCEPT ![t] = "dead"]
  /\ UNCHANGED <<curr_id, pthreadHandleMap, thread_start_map, child_id, child, tid, handle>>

WrapperStep(t) ==
  \/ ReturnCurrId(t) \/ MarkNotStarted(t) \/ CreateThread(t)
  \/ my_start_routine(t) \/ CheckStarted(t)

Next ==
  \E t \in Thread :
    \/ getNextTID(t) \/ WrapperStep(t) \/ CreateFails(t)
    \/ SpuriousWakeup(t) \/ ThreadEnds(t)

Spec == Init /\ [][Next]_vars

\* Threads inside the wrapper keep running; nothing makes a wait return.
FairSpec == Spec /\ \A t \in Thread : WF_vars(WrapperStep(t))

-----------------------------------------------------------------------------
\* Mutant: the first id with this handle.
translateHandleToTID_First(h) ==
  LET ids == {i \in Ids : pthreadHandleMap[i] = h}
  IN IF ids = {} THEN -1 ELSE Min(ids)

\* translateHandleToTID: the highest id with this handle, -1 if there is none.
translateHandleToTID(h) == Max({-1} \cup {i \in Ids : pthreadHandleMap[i] = h})

\* A thread whose entry in the table is its own is identified by it, although
\* dead threads' handles are used again (threadtracker.cpp: "This is
\* reasonable because the if there is more than one match, it means that
\* another thread must have been spawned with the same handle").
HandleReuseOK ==
  \A t \in Thread :
    (pc[t] \notin {"unborn", "born", "dead"} /\ pthreadHandleMap[tid[t]] = handle[t])
      => translateHandleToTID(handle[t]) = tid[t]

\* When pthread_create returns, the handle it has stored can be translated to
\* the child's id, as BeforeJoin and the race detectors need.
ChildIdentifiedOnReturn ==
  [][\A t \in Thread :
       (pc[t] \in {"create", "check"} /\ pc'[t] = "run") =>
         \A u \in child'[t] : translateHandleToTID(handle[u])' = child_id[t]]_vars

\* If the real pthread_create succeeds, the wrapper returns: the child's signal
\* on newthread_cond is not lost between the test of the loop and the wait.
\* With two creators it may be: pthread_cond_signal wakes the one whose child
\* has not started, and nothing wakes the other.
CreatedReturns ==
  \A t \in Thread :
    pc[t] \in {"wait", "check"} /\ child[t] # {} ~> pc[t] = "run"

\* pthread_create always returns (README: a wrapper by default "does nothing
\* but call the original pthread function").
CreateReturns == \A t \in Thread : pc[t] \in InCreate ~> pc[t] = "run"

=============================================================================
