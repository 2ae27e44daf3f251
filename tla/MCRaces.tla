------------------------------- MODULE MCRaces -------------------------------
(***************************************************************************)
(* RaceDetection on one instance that is explored to different depths: to  *)
(* MaxOps calls and MaxEvents events while there are two threads, to fewer *)
(* with a third; a fourth only joins in without mutexes and conditions.    *)
(***************************************************************************)
EXTENDS RaceDetection

\* Nothing is left of a use of mutexes or condition variables.
Lockless ==
  /\ \A l \in Lock : owner[l] = NoThread /\ lockeventset[l] = {}
  /\ \A c \in Cond : messagemap[c] = ZeroClock
  /\ \A t \in Tid : lockmap[t] = {} /\ pc[t] \notin {"locking", "unlocking", "signal", "broadcast"}

OneInstruction == Cardinality({e.iid : e \in AllEvents}) <= 1

\* Bounds: with two threads, the last call only with events of one
\* instruction; with more, 5 calls and 2 events.
Explored ==
  \/ curr_id <= 1 /\ (ops <= 6 \/ OneInstruction)
  \/ ops <= 5 /\ events <= 2 /\ (curr_id <= 2 \/ Lockless)

=============================================================================
