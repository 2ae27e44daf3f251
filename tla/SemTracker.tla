----------------------------- MODULE SemTracker -----------------------------
(***************************************************************************)
(* POSIX semaphores: wait, post, init and destroy.                         *)
(***************************************************************************)
EXTENDS TrackerState

determineSemaphoreStatus(t, s) ==
  IF semval[s] > 0
  THEN /\ enable_map' = [enable_map EXCEPT ![t] = TRUE]
       /\ sem_ready_map' = [sem_ready_map EXCEPT ![t] = s]
       /\ UNCHANGED sem_wait_map
  ELSE /\ enable_map' = [enable_map EXCEPT ![t] = FALSE]
       /\ sem_wait_map' = [sem_wait_map EXCEPT ![t] = s]
       /\ UNCHANGED sem_ready_map

\* Mutant: the other ready threads stay enabled.
threadHasPassedSemaphore_NoDisable(t, s) ==
  /\ sem_ready_map' = [sem_ready_map EXCEPT ![t] = NULL]
  /\ UNCHANGED <<sem_wait_map, enable_map>>

\* threadHasPassedSemaphore: with no value left, the ready threads wait.
threadHasPassedSemaphore(t, s) ==
  LET losers == IF semval'[s] > 0 THEN {}
                ELSE {u \in Tid \ {t} : sem_ready_map[u] = s} IN
  /\ sem_ready_map' = [u \in Tid |-> IF u = t \/ u \in losers THEN NULL ELSE sem_ready_map[u]]
  /\ sem_wait_map' = [u \in Tid |-> IF u \in losers THEN s ELSE sem_wait_map[u]]
  /\ enable_map' = [u \in Tid |-> u \notin losers /\ enable_map[u]]

\* Mutant: the threads made ready are not enabled.
semaphoreIsPosted_NoEnable(s) ==
  LET freed == {u \in Tid : sem_wait_map[u] = s} IN
  /\ sem_ready_map' = [u \in Tid |-> IF u \in freed THEN s ELSE sem_ready_map[u]]
  /\ sem_wait_map' = [u \in Tid |-> IF u \in freed THEN NULL ELSE sem_wait_map[u]]
  /\ UNCHANGED enable_map

\* semaphoreIsPosted: every thread waiting on s becomes ready.
semaphoreIsPosted(s) ==
  LET freed == {u \in Tid : sem_wait_map[u] = s} IN
  /\ sem_ready_map' = [u \in Tid |-> IF u \in freed THEN s ELSE sem_ready_map[u]]
  /\ sem_wait_map' = [u \in Tid |-> IF u \in freed THEN NULL ELSE sem_wait_map[u]]
  /\ enable_map' = [u \in Tid |-> u \in freed \/ enable_map[u]]

BeforeSemWait(t) ==
  /\ Running(t)
  /\ "semwait" \in Ops
  /\ UNCHANGED <<semval, sem_destroy, threadVars, lockVars, condVars, barrierVars>>
  /\ \E s \in Sem :
       \/ /\ s \in sem_destroy
          /\ Halt("misuse")
          /\ UNCHANGED <<sem_ready_map, sem_wait_map, enable_map, controlVars>>
       \/ /\ s \notin sem_destroy
          /\ determineSemaphoreStatus(t, s)
          /\ Schedule
          /\ Goto(t, "paused", "semwait", s)

\* Mutant: the validity is checked in BeforeSemWait only.
SimulateSemWait_NoCheck(t) ==
  /\ status = "running"
  /\ pc[t] = "launched"
  /\ call[t] = "semwait"
  /\ semval[arg[t]] > 0
  /\ semval' = [semval EXCEPT ![arg[t]] = @ - 1]
  /\ threadHasPassedSemaphore(t, arg[t])
  /\ Goto(t, "app", "none", NULL)
  /\ UNCHANGED <<sem_destroy, launchVars, threadVars, lockVars, condVars, barrierVars>>

SimulateSemWait(t) ==
  /\ status = "running"
  /\ pc[t] = "launched"
  /\ call[t] = "semwait"
  /\ LET s == arg[t] IN
     \/ /\ semval[s] = 0 \/ s \in sem_destroy
        /\ Halt(IF semval[s] = 0 THEN "assert" ELSE "misuse")
        /\ UNCHANGED <<semVars, enable_map>>
     \/ /\ semval[s] > 0 /\ s \notin sem_destroy
        /\ semval' = [semval EXCEPT ![s] = @ - 1]
        /\ threadHasPassedSemaphore(t, s)
        /\ IF sem_ready_map[t] = s THEN UNCHANGED launchVars ELSE Halt("assert")
        /\ UNCHANGED sem_destroy
  /\ Goto(t, "app", "none", NULL)
  /\ UNCHANGED <<threadVars, lockVars, condVars, barrierVars>>

SimulateSemPost(t) ==
  /\ Running(t)
  /\ "sempost" \in Ops
  /\ UNCHANGED <<sem_destroy, threadVars, lockVars, condVars, barrierVars>>
  /\ \E s \in Sem :
       \/ /\ s \in sem_destroy
          /\ Halt("misuse")
          /\ UNCHANGED <<sem_ready_map, sem_wait_map, semval, enable_map, controlVars>>
       \/ /\ s \notin sem_destroy
          /\ semval[s] < MaxSem
          /\ semval' = [semval EXCEPT ![s] = @ + 1]
          /\ semaphoreIsPosted(s)
          /\ Schedule
          /\ Goto(t, "paused", "point", NULL)

SimulateSemDestroy(t) ==
  /\ Running(t)
  /\ "semDestroy" \in Ops
  /\ \E s \in Sem : sem_destroy' = sem_destroy \cup {s}
  /\ UNCHANGED <<sem_ready_map, sem_wait_map, semval, enable_map, launchVars,
                 threadVars, lockVars, condVars, barrierVars, controlVars>>

\* The program initialises a semaphore nobody waits on.
BeforeSemInit(t) ==
  /\ Running(t)
  /\ "semDestroy" \in Ops
  /\ \E s \in sem_destroy, v \in 0..MaxSem :
       /\ \A u \in Tid : call[u] = "semwait" => arg[u] # s
       /\ sem_destroy' = sem_destroy \ {s}
       /\ semval' = [semval EXCEPT ![s] = v]
  /\ UNCHANGED <<sem_ready_map, sem_wait_map, enable_map, launchVars,
                 threadVars, lockVars, condVars, barrierVars, controlVars>>

=============================================================================
