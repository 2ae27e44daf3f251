--------------------------- MODULE BarrierTracker ---------------------------
(***************************************************************************)
(* Barriers: the waiting is done by the tracker alone, the real barrier is *)
(* never waited on (SimulateBarrierWait returns 0).                        *)
(***************************************************************************)
EXTENDS TrackerState

\* getThreadsWaitingOnBarrier
OnBarrier(b) == {u \in Tid : thread_map[u] = b}

BeforeBarrierInit(t) ==
  /\ Running(t)
  /\ "barrier" \in Ops
  /\ \E b \in Barrier, n \in 1..(MaxTid + 1) :
       /\ barrier_count[b] = 0 \/ b \in barrier_destroy
       /\ OnBarrier(b) = {}
       /\ barrier_count' = [barrier_count EXCEPT ![b] = n]
       /\ barrier_destroy' = barrier_destroy \ {b}
  /\ UNCHANGED <<thread_map, enable_map, launchVars, threadVars, lockVars,
                 semVars, condVars, controlVars>>

\* Mutant: the waiting threads are not enabled.
BarrierOpens_NoEnable(t, b) ==
  /\ enable_map' = [enable_map EXCEPT ![t] = TRUE]
  /\ thread_map' = [u \in Tid |-> IF u \in OnBarrier(b) THEN NULL ELSE thread_map[u]]
  /\ Schedule

\* The last thread to arrive enables the others and empties the barrier.
BarrierOpens(t, b) ==
  /\ enable_map' = [u \in Tid |-> u = t \/ u \in OnBarrier(b) \/ enable_map[u]]
  /\ thread_map' = [u \in Tid |-> IF u \in OnBarrier(b) THEN NULL ELSE thread_map[u]]
  /\ IF /\ Cardinality(OnBarrier(b)) + 1 = barrier_count[b]
        /\ \A u \in OnBarrier(b) : ~enable_map[u]
     THEN Schedule ELSE Halt("assert")

BarrierBlocks(t, b) ==
  /\ thread_map' = [thread_map EXCEPT ![t] = b]
  /\ enable_map' = [enable_map EXCEPT ![t] = FALSE]
  /\ Schedule

BeforeBarrierWait(t) ==
  /\ Running(t)
  /\ "barrier" \in Ops
  /\ UNCHANGED <<barrier_count, barrier_destroy, threadVars, lockVars, semVars, condVars>>
  /\ \E b \in Barrier :
       \/ /\ b \in barrier_destroy \/ barrier_count[b] = 0
          /\ Halt("misuse")
          /\ UNCHANGED <<thread_map, enable_map>>
       \/ /\ b \notin barrier_destroy /\ barrier_count[b] # 0
          /\ IF Cardinality(OnBarrier(b)) + 1 >= barrier_count[b]
             THEN BarrierOpens(t, b) ELSE BarrierBlocks(t, b)
  /\ Goto(t, "paused", "point", NULL)

SimulateBarrierDestroy(t) ==
  /\ Running(t)
  /\ "barrierDestroy" \in Ops
  /\ \E b \in Barrier : barrier_destroy' = barrier_destroy \cup {b}
  /\ UNCHANGED <<thread_map, barrier_count, enable_map, launchVars,
                 threadVars, lockVars, semVars, condVars, controlVars>>

=============================================================================
