----------------------------- MODULE Refinement ------------------------------
(***************************************************************************)
(* The serializer implements PthreadMachine, for programs that use threads,*)
(* mutexes and condition variables and destroy no mutex.                   *)
(***************************************************************************)
EXTENDS ExecutionTracker

\* What thread t does, for the program.
Doing(t) ==
  CASE pc[t] \in {"none", "app"} -> [op |-> pc[t], obj |-> NULL]
    [] pc[t] \in {"finishing", "cleanup", "dead"} -> [op |-> "done", obj |-> NULL]
    [] pc[t] \in {"starting", "creating", "unlocking"} -> [op |-> "point", obj |-> NULL]
    [] OTHER -> [op |-> call[t], obj |-> arg[t]]

\* The signal of t has chosen its target, which still waits.
Owed(t) ==
  /\ pc[t] \in {"sigwake", "sigwait"} /\ call[t] = "signal"
  /\ cond_map[newchoice[t]] = arg[t]

Machine ==
  INSTANCE PthreadMachine WITH
    Thread <- Tid, MainThread <- 0, Nobody <- FREE,
    doing <- [t \in Tid |-> Doing(t)],
    owner <- [m \in Mutex |-> mutex[m]],
    waitsOn <- cond_map,
    owed <- [t \in Tid |-> Owed(t)]

\* Implements: whatever the tracker does with its maps, semaphores and
\* handshakes, the program sees the calls of PthreadMachine: one thread at a
\* time, a mutex granted only when it is free, no signal lost and none that
\* wakes two waiters, no wait that ends for no reason.
Implements == Machine!Spec

=============================================================================
