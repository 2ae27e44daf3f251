--------------------------- MODULE FairScheduler ---------------------------
(***************************************************************************)
(* The fair scheduler of chessserial and addrserial: threads that yield    *)
(* lose priority to the threads they have kept from running.               *)
(*                                                                         *)
(* One step is one scheduling point: the running thread reports the        *)
(* enabled threads and whether it yields, the scheduler updates its sets   *)
(* and picks who runs next.  The serializer, and the program it runs, are  *)
(* the environment: any set of EnabledSets may be enabled at any point.    *)
(***************************************************************************)
EXTENDS Integers

CONSTANTS
  MaxTid,       \* thread ids are 0..MaxTid
  EnabledSets   \* the sets of threads that may be enabled at a point

ASSUME FairAssumption ==
  /\ MaxTid \in Nat
  /\ EnabledSets \subseteq SUBSET (0..MaxTid)

Tid == 0..MaxTid
INVALID_THREAD == -1

VARIABLES
  known,           \* the threads in the serializer's enable_map
  fair_priority,   \* fair_priority[h]: the threads that give way to h
  fair_enabled,    \* enabled at every point since the thread's last yield
  fair_disabled,   \* disabled by the thread since its last yield
  fair_scheduled,  \* scheduled since the thread's last yield
  prev_ES,         \* the enabled threads of the last scheduling point
  running          \* the thread scheduled last

vars == <<known, fair_priority, fair_enabled, fair_disabled, fair_scheduled,
          prev_ES, running>>

Init ==
  /\ known = {0}
  /\ fair_priority = [t \in Tid |-> {}]
  /\ fair_enabled = [t \in Tid |-> {}]
  /\ fair_disabled = [t \in Tid |-> {}]
  /\ fair_scheduled = [t \in Tid |-> {}]
  /\ prev_ES = {}
  /\ running = 0

-----------------------------------------------------------------------------
\* Lines 15 to 21 of the algorithm, for the threads in kn.
EnabledSince(es, kn) ==
  [t \in Tid |-> IF t \in kn THEN fair_enabled[t] \cap es ELSE fair_enabled[t]]

DisabledSince(es) ==
  [fair_disabled EXCEPT ![running] = @ \cup (prev_ES \ es)]

ScheduledSince(kn) ==
  [t \in Tid |-> IF t \in kn THEN fair_scheduled[t] \cup {running} ELSE fair_scheduled[t]]

\* Mutant: nobody counts as starved.
Starved_None(es, kn) == {}

\* Line 24: the threads that the yielding thread has starved.
Starved(es, kn) ==
  (EnabledSince(es, kn)[running] \cup DisabledSince(es)[running])
     \ ScheduledSince(kn)[running]

\* Mutant: the running thread keeps its old edges (line 13 is missing).
updateDataStructures_NoErase(es, kn, isYield) ==
  /\ fair_priority' = [h \in Tid |-> IF isYield /\ h \in Starved(es, kn)
                                    THEN fair_priority[h] \cup {running} ELSE fair_priority[h]]
  /\ fair_enabled' = [EnabledSince(es, kn) EXCEPT ![running] = IF isYield THEN es ELSE @]
  /\ fair_disabled' = [DisabledSince(es) EXCEPT ![running] = IF isYield THEN {} ELSE @]
  /\ fair_scheduled' = [ScheduledSince(kn) EXCEPT ![running] = IF isYield THEN {} ELSE @]

updateDataStructures(es, kn, isYield) ==
  LET erased == [fair_priority EXCEPT ![running] = {}]
      H == IF isYield THEN Starved(es, kn) ELSE {}
  IN
  /\ fair_priority' = [h \in Tid |-> IF h \in H THEN erased[h] \cup {running} ELSE erased[h]]
  /\ IF isYield
     THEN /\ fair_enabled' = [EnabledSince(es, kn) EXCEPT ![running] = es]
          /\ fair_disabled' = [fair_disabled EXCEPT ![running] = {}]
          /\ fair_scheduled' = [ScheduledSince(kn) EXCEPT ![running] = {}]
     ELSE /\ fair_enabled' = EnabledSince(es, kn)
          /\ fair_disabled' = DisabledSince(es)
          /\ fair_scheduled' = ScheduledSince(kn)

\* Mutant: the priorities are looked at, enabledness is not.
isFairEnabled_Disabled(t, es) == \A h \in es : t \notin fair_priority[h]

isFairEnabled(t, es) ==
  /\ t \in es
  /\ \A h \in es : t \notin fair_priority[h]

\* getFairEnabledMap, evaluated after the update.
FairEnabled(es) == {t \in Tid : isFairEnabled(t, es)}

\* Mutant: no other thread is looked for.
nonpreemptiveChoice_Self(n, fen) == n = IF running \in fen THEN running ELSE INVALID_THREAD

\* The thread itself while it may run, else the lowest id that may.
nonpreemptiveChoice(n, fen) ==
  IF running \in fen THEN n = running
  ELSE IF fen # {} THEN n \in fen /\ \A u \in fen : n <= u
  ELSE n = INVALID_THREAD

\* A thread may have been created since the last scheduling point; ids are
\* handed out in order.
KnownNow == {known} \cup {known \cup {t} : t \in {u \in Tid \ known : u - 1 \in known}}

Point(es, kn, isYield) ==
  /\ running # INVALID_THREAD
  /\ es \subseteq kn
  /\ known' = kn
  /\ updateDataStructures(es, kn, isYield)
  /\ prev_ES' = es

\* pickNextSchedulingChoice of ChessTracker.
nonpreemptiveFairSchedule(isYield) ==
  \E kn \in KnownNow : \E es \in EnabledSets :
    /\ Point(es, kn, isYield)
    /\ \E n \in Tid \cup {INVALID_THREAD} :
         nonpreemptiveChoice(n, FairEnabled(es)') /\ running' = n

\* followingChoiceFromLog: the choice comes from the schedule file, and
\* launchThread asserts that it is fair.
followingChoiceFromLog(isYield) ==
  \E kn \in KnownNow : \E es \in EnabledSets :
    /\ Point(es, kn, isYield)
    /\ \E n \in Tid : n \in FairEnabled(es)' /\ running' = n

\* Nobody can be scheduled: the process is over.
Stopped == running = INVALID_THREAD /\ UNCHANGED vars

Next ==
  \/ \E y \in BOOLEAN : nonpreemptiveFairSchedule(y) \/ followingChoiceFromLog(y)
  \/ Stopped

Spec == Init /\ [][Next]_vars

-----------------------------------------------------------------------------
\* The shapes of the maps of fairscheduler.h; the thread scheduled last is known,
\* and was enabled at the point that scheduled it.
TypeOK ==
  /\ known \subseteq Tid
  /\ fair_priority \in [Tid -> SUBSET Tid]
  /\ fair_enabled \in [Tid -> SUBSET Tid]
  /\ fair_disabled \in [Tid -> SUBSET Tid]
  /\ fair_scheduled \in [Tid -> SUBSET Tid]
  /\ prev_ES \subseteq Tid
  /\ running \in known \cup {INVALID_THREAD}
  /\ prev_ES # {} => running \in prev_ES \cup {INVALID_THREAD}

\* The priority relation built by updateDataStructures has no cycle: in
\* every set of threads somebody gives way to nobody else of the set.
PriorityAcyclic ==
  \A S \in SUBSET Tid :
    S # {} => \E t \in S : \A h \in S : t \notin fair_priority[h]

\* nonpreemptiveFairSchedule returns -1 only when no thread is enabled: the
\* priorities never block everybody, which would be reported as an internal
\* error (notThrilleInternalError in schedule).
AlwaysSchedules == running = INVALID_THREAD => prev_ES = {}

\* The program goes on, and a thread that keeps running keeps yielding.
Yielding(t) == running = t /\ (nonpreemptiveFairSchedule(TRUE) \/ followingChoiceFromLog(TRUE))

YieldSpec ==
  /\ Spec
  /\ WF_vars(Next)
  /\ \A t \in Tid : SF_vars(Yielding(t))

\* Under YieldSpec, a thread that stays enabled is scheduled again and again,
\* whichever of the fair threads is chosen at each point: the purpose of
\* fair_priority.
NoStarvation ==
  \A t \in Tid : <>[](t \in prev_ES) => []<>(running = t)

=============================================================================
