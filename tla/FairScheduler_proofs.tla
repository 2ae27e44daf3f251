------------------------ MODULE FairScheduler_proofs ------------------------
(***************************************************************************)
(* For any number of threads and any environment, the priorities of the    *)
(* fair scheduler stay acyclic, so it always finds a thread to run.        *)
(***************************************************************************)
EXTENDS FairScheduler, TLAPS

\* The parts of a scheduling point that both kinds of choice share.
LEMMA PointTypes ==
  ASSUME TypeOK,
         NEW kn \in KnownNow, NEW es \in EnabledSets, NEW y \in BOOLEAN,
         Point(es, kn, y)
  PROVE  /\ running \in known /\ running \in kn
         /\ kn \subseteq Tid /\ es \subseteq Tid
         /\ known' \subseteq Tid /\ known' = kn
         /\ prev_ES' = es
         /\ fair_priority' \in [Tid -> SUBSET Tid]
         /\ fair_enabled' \in [Tid -> SUBSET Tid]
         /\ fair_disabled' \in [Tid -> SUBSET Tid]
         /\ fair_scheduled' \in [Tid -> SUBSET Tid]
<1>1. running \in known /\ running \in Tid
  BY DEF TypeOK, Point
<1>2. known \subseteq kn /\ kn \subseteq Tid
  BY DEF TypeOK, KnownNow
<1>3. es \subseteq Tid
  BY FairAssumption DEF Tid
<1>4. known' = kn /\ prev_ES' = es /\ updateDataStructures(es, kn, y)
  BY DEF Point
<1>5. /\ EnabledSince(es, kn) \in [Tid -> SUBSET Tid]
      /\ DisabledSince(es) \in [Tid -> SUBSET Tid]
      /\ ScheduledSince(kn) \in [Tid -> SUBSET Tid]
  BY <1>1, <1>3 DEF TypeOK, EnabledSince, DisabledSince, ScheduledSince
<1>6. fair_priority' \in [Tid -> SUBSET Tid]
  BY <1>1, <1>4 DEF TypeOK, updateDataStructures
<1>7. /\ fair_enabled' \in [Tid -> SUBSET Tid]
      /\ fair_disabled' \in [Tid -> SUBSET Tid]
      /\ fair_scheduled' \in [Tid -> SUBSET Tid]
  BY <1>1, <1>3, <1>4, <1>5 DEF TypeOK, updateDataStructures
<1> QED
  BY <1>1, <1>2, <1>3, <1>4, <1>6, <1>7

\* The constructor establishes the types.
LEMMA TypeInit == Init => TypeOK
  BY FairAssumption DEF Init, TypeOK, Tid

\* Both kinds of choice keep the types.
LEMMA TypeNext == TypeOK /\ [Next]_vars => TypeOK'
<1> SUFFICES ASSUME TypeOK, [Next]_vars PROVE TypeOK'
  OBVIOUS
<1>1. ASSUME NEW y \in BOOLEAN, nonpreemptiveFairSchedule(y) PROVE TypeOK'
  <2>1. PICK kn \in KnownNow, es \in EnabledSets :
           /\ Point(es, kn, y)
           /\ \E n \in Tid \cup {INVALID_THREAD} :
                nonpreemptiveChoice(n, FairEnabled(es)') /\ running' = n
    BY <1>1 DEF nonpreemptiveFairSchedule
  <2>2. running' \in es \cup {INVALID_THREAD}
    BY <2>1 DEF nonpreemptiveChoice, FairEnabled, isFairEnabled
  <2>3. es \subseteq kn
    BY <2>1 DEF Point
  <2> QED
    BY <2>1, <2>2, <2>3, PointTypes DEF TypeOK
<1>2. ASSUME NEW y \in BOOLEAN, followingChoiceFromLog(y) PROVE TypeOK'
  <2>1. PICK kn \in KnownNow, es \in EnabledSets :
           /\ Point(es, kn, y)
           /\ \E n \in Tid : n \in FairEnabled(es)' /\ running' = n
    BY <1>2 DEF followingChoiceFromLog
  <2>2. running' \in es
    BY <2>1 DEF FairEnabled, isFairEnabled
  <2>3. es \subseteq kn
    BY <2>1 DEF Point
  <2> QED
    BY <2>1, <2>2, <2>3, PointTypes DEF TypeOK
<1>3. CASE Stopped
  BY <1>3 DEF Stopped, vars, TypeOK
<1>4. CASE UNCHANGED vars
  BY <1>4 DEF vars, TypeOK
<1> QED
  BY <1>1, <1>2, <1>3, <1>4 DEF Next

\* The maps of fairscheduler.h keep their shapes, and only a thread that the
\* serializer's enable_map has as enabled is ever scheduled.
THEOREM FairTypeCorrect == Spec => []TypeOK
  BY TypeInit, TypeNext, PTL DEF Spec

-----------------------------------------------------------------------------
\* What one call of updateDataStructures does to the priorities: the running
\* thread stops being given way to, and only it starts giving way.
LEMMA PriorityChange ==
  ASSUME TypeOK,
         NEW kn \in KnownNow, NEW es \in EnabledSets, NEW y \in BOOLEAN,
         Point(es, kn, y)
  PROVE  /\ fair_priority'[running] = {}
         /\ \A h \in Tid : fair_priority'[h] \subseteq fair_priority[h] \cup {running}
<1>1. running \in kn /\ running \in Tid
  BY PointTypes
<1>2. running \notin Starved(es, kn)
  BY <1>1 DEF Starved, ScheduledSince, TypeOK
<1>3. updateDataStructures(es, kn, y)
  BY DEF Point
<1> QED
  BY <1>1, <1>2, <1>3 DEF updateDataStructures, TypeOK

\* A cycle after the update would be one before it, or go through the
\* running thread, whose own entry has just been erased.
LEMMA PointKeepsAcyclic ==
  ASSUME TypeOK, PriorityAcyclic,
         NEW kn \in KnownNow, NEW es \in EnabledSets, NEW y \in BOOLEAN,
         Point(es, kn, y)
  PROVE  PriorityAcyclic'
<1> SUFFICES ASSUME NEW S \in SUBSET Tid, S # {}
             PROVE  \E t \in S : \A h \in S : t \notin fair_priority'[h]
  BY DEF PriorityAcyclic
<1>1. fair_priority'[running] = {}
  BY PriorityChange
<1>2. \A h \in Tid : fair_priority'[h] \subseteq fair_priority[h] \cup {running}
  BY PriorityChange
<1>3. CASE S = {running}
  BY <1>1, <1>3
<1>4. CASE S \ {running} # {}
  <2>1. PICK t \in S \ {running} : \A h \in S \ {running} : t \notin fair_priority[h]
    BY <1>4 DEF PriorityAcyclic
  <2>2. \A h \in S \ {running} : t \notin fair_priority'[h]
    BY <1>2, <2>1
  <2> QED
    BY <1>1, <2>1, <2>2
<1> QED
  BY <1>3, <1>4

\* No step closes a cycle of priorities.
LEMMA AcyclicNext == TypeOK /\ PriorityAcyclic /\ [Next]_vars => PriorityAcyclic'
<1> SUFFICES ASSUME TypeOK, PriorityAcyclic, [Next]_vars PROVE PriorityAcyclic'
  OBVIOUS
<1>1. ASSUME NEW y \in BOOLEAN, nonpreemptiveFairSchedule(y) \/ followingChoiceFromLog(y)
      PROVE  PriorityAcyclic'
  <2>1. PICK kn \in KnownNow, es \in EnabledSets : Point(es, kn, y)
    BY <1>1 DEF nonpreemptiveFairSchedule, followingChoiceFromLog
  <2> QED
    BY <2>1, PointKeepsAcyclic
<1>2. CASE UNCHANGED vars
  BY <1>2 DEF vars, PriorityAcyclic
<1> QED
  BY <1>1, <1>2 DEF Next, Stopped

\* updateDataStructures never closes a cycle of threads giving way to each
\* other: the erase of the running thread's entry comes before its insertion
\* into those of the threads it has starved, and it never starves itself.
THEOREM FairAcyclic == Spec => []PriorityAcyclic
<1>1. Init => PriorityAcyclic
  BY DEF Init, PriorityAcyclic
<1> QED
  BY <1>1, AcyclicNext, FairTypeCorrect, PTL DEF Spec

-----------------------------------------------------------------------------
\* With acyclic priorities some enabled thread is fair-enabled.
LEMMA ScheduleNext ==
  TypeOK /\ PriorityAcyclic /\ AlwaysSchedules /\ [Next]_vars => AlwaysSchedules'
<1> SUFFICES ASSUME TypeOK, PriorityAcyclic, AlwaysSchedules, [Next]_vars
             PROVE  AlwaysSchedules'
  OBVIOUS
<1>1. ASSUME NEW y \in BOOLEAN, nonpreemptiveFairSchedule(y) PROVE AlwaysSchedules'
  <2>1. PICK kn \in KnownNow, es \in EnabledSets :
           /\ Point(es, kn, y)
           /\ \E n \in Tid \cup {INVALID_THREAD} :
                nonpreemptiveChoice(n, FairEnabled(es)') /\ running' = n
    BY <1>1 DEF nonpreemptiveFairSchedule
  <2>2. PriorityAcyclic'
    BY AcyclicNext
  <2>3. es \in SUBSET Tid /\ prev_ES' = es
    BY <2>1, PointTypes
  <2>4. es # {} => FairEnabled(es)' # {}
    BY <2>2, <2>3 DEF PriorityAcyclic, FairEnabled, isFairEnabled
  <2>5. INVALID_THREAD \notin FairEnabled(es)'
    BY FairAssumption DEF FairEnabled, Tid, INVALID_THREAD
  <2>6. running' = INVALID_THREAD => FairEnabled(es)' = {}
    BY <2>1, <2>5 DEF nonpreemptiveChoice
  <2> QED
    BY <2>3, <2>4, <2>6 DEF AlwaysSchedules
<1>2. ASSUME NEW y \in BOOLEAN, followingChoiceFromLog(y) PROVE AlwaysSchedules'
  BY <1>2, FairAssumption DEF followingChoiceFromLog, AlwaysSchedules, Tid, INVALID_THREAD
<1>3. CASE UNCHANGED vars
  BY <1>3 DEF vars, AlwaysSchedules
<1> QED
  BY <1>1, <1>2, <1>3 DEF Next, Stopped

\* nonpreemptiveFairSchedule answers -1 only if no thread is enabled at all.
THEOREM FairAlwaysSchedules == Spec => []AlwaysSchedules
<1>1. Init => AlwaysSchedules
  BY FairAssumption DEF Init, AlwaysSchedules, INVALID_THREAD
<1> QED
  BY <1>1, ScheduleNext, FairTypeCorrect, FairAcyclic, PTL DEF Spec

=============================================================================
