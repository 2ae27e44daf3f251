---------------------------- MODULE Replay_proofs ----------------------------
(***************************************************************************)
(* Replay is exact, for any number of threads, any programs and logs of    *)
(* any length: a log, and the relaxed schedule made of it, lead every      *)
(* tracker to the recorded end by the recorded decisions, and no tracker   *)
(* that follows a faithful log fails an assertion of its own.              *)
(*                                                                         *)
(* The argument: a recording leaves a path, the configurations of the      *)
(* program between its steps, in which every step is determined by the     *)
(* log.  A replay is at some configuration of the path, and what its       *)
(* tracker still has to follow agrees with the rest of the log (Guide).    *)
(* For a relaxed schedule this means: the interval being followed, and     *)
(* what has been counted in it, agree with the interval that               *)
(* outputRelaxedSchedule closes at the next switch of the log.             *)
(***************************************************************************)
EXTENDS Replay, FiniteSetTheorems, SequenceTheorems, WellFoundedInduction, TLAPS

-----------------------------------------------------------------------------
(***************************************************************************)
(* Natural numbers and finite sets of them.                                *)
(***************************************************************************)

\* Every non-empty set of natural numbers has a least element.
LEMMA LeastNatural ==
  ASSUME NEW S \in SUBSET Nat, S # {}
  PROVE  \E m \in S : \A k \in S : m <= k
<1> DEFINE R == OpToRel(<, Nat)
<1>1. IsWellFoundedOn(R, Nat)
  BY NatLessThanWellFounded
<1>2. \A k, m \in Nat : <<k, m>> \in R <=> k < m
  BY DEF OpToRel
<1> HIDE DEF R
<1>3. PICK m \in S : \A k \in S : ~(<<k, m>> \in R)
  BY <1>1, WFMin
<1>4. \A k \in S : ~(k < m)
  BY <1>2, <1>3
<1>5. \A k \in S : m <= k
  BY <1>4
<1>6. QED
  BY <1>5

\* Lowest is what it is called.
LEMMA LowestIn ==
  ASSUME NEW S \in SUBSET Nat, S # {}
  PROVE  Lowest(S) \in S /\ \A u \in S : Lowest(S) <= u
<1>1. \E m \in S : \A k \in S : m <= k
  BY LeastNatural
<1>2. QED
  BY <1>1 DEF Lowest

-----------------------------------------------------------------------------
(***************************************************************************)
(* The states of a program that is recorded.                               *)
(***************************************************************************)
Fields == {"prog", "pc", "owner", "enabled", "lock_wait_map", "lock_ready_map",
           "cond_map", "relock"}

\* A record with the fields of a state.
Shaped(s) ==
  /\ s = [f \in Fields |-> s[f]]
  /\ s.pc \in [Thread -> Nat] /\ s.enabled \in SUBSET Thread
  /\ s.cond_map = [t \in Thread |-> s.cond_map[t]]

\* The waiters of r are those of s, and its threads are where they are in s.
SameWaits(s, r) == Shaped(r) /\ r.prog = s.prog /\ r.pc = s.pc /\ r.cond_map = s.cond_map

\* A thread on a condition variable is inside its wait.
InWait(s, t) == InOp(s, t) /\ Op(s, t).op \in {"wait", "timedwait"}
Sane(s) == Shaped(s) /\ \A t \in Thread : s.cond_map[t] # NULL => InWait(s, t)

\* The first state is one, and nobody waits.
LEMMA InitialSane ==
  ASSUME NEW prog
  PROVE  /\ Sane(Initial(prog)) /\ Initial(prog).prog = prog
         /\ Initial(prog).enabled = Thread
         /\ \A t \in Thread : Initial(prog).cond_map[t] = NULL
BY DEF Initial, Sane, Shaped, Fields

\* The mutexes leave the condition variables alone.
LEMMA LockSteps ==
  ASSUME NEW s, Shaped(s), NEW t \in Thread, NEW l
  PROVE  /\ SameWaits(s, enableThread(s, t)) /\ SameWaits(s, disableThread(s, t))
         /\ SameWaits(s, determineLockStatus(s, t, l))
         /\ SameWaits(s, threadHasAcquiredLock(s, t, l))
         /\ SameWaits(s, threadHasReleasedLock(s, l))
<1>1. SameWaits(s, enableThread(s, t))
  BY DEF Shaped, SameWaits, Fields, enableThread
<1>2. SameWaits(s, disableThread(s, t))
  BY DEF Shaped, SameWaits, Fields, disableThread
<1>3. SameWaits(s, determineLockStatus(s, t, l))
  BY <1>1, <1>2 DEF Shaped, SameWaits, Fields, determineLockStatus
<1>4. SameWaits(s, threadHasAcquiredLock(s, t, l))
  BY DEF Shaped, SameWaits, Fields, threadHasAcquiredLock
<1>5. SameWaits(s, threadHasReleasedLock(s, l))
  BY DEF Shaped, SameWaits, Fields, threadHasReleasedLock
<1>6. QED
  BY <1>1, <1>2, <1>3, <1>4, <1>5

\* Threads W leave their condition variables.
LEMMA LeaveSteps ==
  ASSUME NEW s, Shaped(s), NEW W \in SUBSET Thread
  PROVE  /\ Shaped(leaveCond(s, W)) /\ leaveCond(s, W).prog = s.prog
         /\ leaveCond(s, W).pc = s.pc
         /\ leaveCond(s, W).cond_map = [t \in Thread |-> IF t \in W THEN NULL ELSE s.cond_map[t]]
         /\ \A t \in Thread \ W : t \in s.enabled => t \in leaveCond(s, W).enabled
BY DEF Shaped, Fields, leaveCond

\* Thread t enters a wait.
LEMMA EnterSteps ==
  ASSUME NEW s, Shaped(s), NEW t \in Thread, NEW o
  PROVE  /\ Shaped(enterCond(s, t, o)) /\ enterCond(s, t, o).prog = s.prog
         /\ enterCond(s, t, o).pc = s.pc
         /\ \A u \in Thread \ {t} : enterCond(s, t, o).cond_map[u] = s.cond_map[u]
<1> DEFINE r == threadHasReleasedLock(s, o.lock)
           w == [r EXCEPT !.cond_map[t] = o.obj]
<1>1. SameWaits(s, r)
  BY LockSteps
<1>2. /\ Shaped(w) /\ w.prog = s.prog /\ w.pc = s.pc
      /\ \A u \in Thread \ {t} : w.cond_map[u] = s.cond_map[u]
  <2> HIDE DEF r
  <2> QED
    BY <1>1 DEF SameWaits, Shaped, Fields
<1>3. enterCond(s, t, o) = IF o.op = "wait" THEN disableThread(w, t) ELSE enableThread(w, t)
  BY DEF enterCond
<1> HIDE DEF w
<1>4. SameWaits(w, disableThread(w, t)) /\ SameWaits(w, enableThread(w, t))
  BY <1>2, LockSteps
<1>5. QED
  BY <1>2, <1>3, <1>4 DEF SameWaits

\* The end of a thread.
LEMMA FinishSteps ==
  ASSUME NEW s, Shaped(s), NEW t \in Thread
  PROVE  SameWaits(s, threadFinish(s, t))
BY DEF SameWaits, Shaped, Fields, threadFinish

\* The end of the operation a thread was paused in: the thread stays enabled.
LEMMA CompleteSteps ==
  ASSUME NEW s, Shaped(s), NEW t \in Thread
  PROVE  SameWaits(s, Complete(s, t)) /\ (t \in s.enabled => t \in Complete(s, t).enabled)
<1> DEFINE o == Op(s, t)
           r == threadHasAcquiredLock(s, t, o.lock)
           q == [r EXCEPT !.relock = @ \ {t}]
           a == threadHasAcquiredLock(s, t, o.obj)
<1>1. SameWaits(s, r) /\ SameWaits(s, a)
  BY LockSteps
<1>2. t \in s.enabled => t \in r.enabled /\ t \in a.enabled
  BY DEF threadHasAcquiredLock, Shaped, Fields
<1>3. SameWaits(s, q) /\ (t \in s.enabled => t \in q.enabled)
  <2> HIDE DEF r
  <2>1. QED
    BY <1>1, <1>2 DEF SameWaits, Shaped, Fields
<1>4. Complete(s, t) =
        IF ~InOp(s, t) THEN s
        ELSE CASE o.op = "lock" -> a
               [] o.op = "trylock" /\ s.owner[o.obj] = INVALID_THREAD -> a
               [] t \in s.relock -> q
               [] OTHER -> s
  BY DEF Complete
<1> HIDE DEF q, o, a
<1>5. Complete(s, t) = s \/ Complete(s, t) = a \/ Complete(s, t) = q
  BY <1>4, Zenon
<1>6. SameWaits(s, s)
  BY DEF SameWaits
<1>7. QED
  BY <1>1, <1>2, <1>3, <1>5, <1>6

\* The next operation is at the place the state says.
LEMMA NextOpIs ==
  ASSUME NEW s, Sane(s), NEW t \in Thread, s.prog \in Programs
  PROVE  /\ NextOp(s, t).at \in Nat
         /\ NextOp(s, t).op = "signal" => NextOp(s, t).obj \in Cond
<1>1. IsCode(s.prog[t])
  BY ReplayAssumption
<1>2. \A i \in DOMAIN s.prog[t] :
        /\ s.prog[t][i].at \in Nat
        /\ s.prog[t][i].op = "signal" => s.prog[t][i].obj \in Cond
  BY <1>1 DEF IsCode
<1>3. CASE TimesOut(s, t) \/ Polls(s, t)
  <2>1. InOp(s, t)
    BY <1>3 DEF TimesOut, Polls, Sane, InWait
  <2>2. NextOp(s, t) = s.prog[t][s.pc[t]] /\ s.pc[t] \in DOMAIN s.prog[t]
    BY <1>3, <2>1 DEF NextOp, Op, InOp
  <2>3. QED
    BY <1>2, <2>2
<1>4. CASE ~(TimesOut(s, t) \/ Polls(s, t)) /\ s.pc[t] < Len(s.prog[t])
  <2>1. s.pc[t] \in Nat
    BY DEF Sane, Shaped
  <2>2. s.prog[t] \in Seq({s.prog[t][i] : i \in DOMAIN s.prog[t]})
    BY <1>1 DEF IsCode
  <2>3. Len(s.prog[t]) \in Nat /\ DOMAIN s.prog[t] = 1..Len(s.prog[t])
    BY <2>2, LenProperties
  <2>4. s.pc[t] + 1 \in DOMAIN s.prog[t]
    BY <1>4, <2>1, <2>3
  <2>5. NextOp(s, t) = s.prog[t][s.pc[t] + 1]
    BY <1>4 DEF NextOp
  <2>6. QED
    BY <1>2, <2>4, <2>5
<1>5. CASE ~(TimesOut(s, t) \/ Polls(s, t)) /\ ~(s.pc[t] < Len(s.prog[t]))
  <2>1. NextOp(s, t) = [op |-> "finish", at |-> FinishAddr]
    BY <1>5 DEF NextOp
  <2>2. QED
    BY <2>1 DEF FinishAddr
<1>6. QED
  BY <1>3, <1>4, <1>5

\* The arrival of thread t, which waits for nothing, at its next operation.
LEMMA ArriveSane ==
  ASSUME NEW s, Sane(s), NEW t \in Thread, s.prog \in Programs, s.cond_map[t] = NULL,
         NEW sig \in Thread \cup {INVALID_THREAD}
  PROVE  Sane(Arrive(s, t, sig)) /\ Arrive(s, t, sig).prog = s.prog
<1> DEFINE n == [s EXCEPT !.pc[t] = @ + 1]
           o == Op(n, t)
<1>1. /\ Shaped(n) /\ n.prog = s.prog /\ n.cond_map = s.cond_map
      /\ n.pc = [s.pc EXCEPT ![t] = @ + 1]
  BY DEF Sane, Shaped, Fields
<1>2. Sane(n)
  <2>1. ASSUME NEW u \in Thread, n.cond_map[u] # NULL
        PROVE  InWait(n, u)
    <3>1. u # t /\ InWait(s, u)
      BY <1>1, <2>1 DEF Sane
    <3>2. n.pc[u] = s.pc[u]
      BY <1>1, <3>1 DEF Sane, Shaped
    <3>3. QED
      BY <1>1, <3>1, <3>2 DEF InWait, InOp, Op
  <2>2. QED
    BY <1>1, <2>1 DEF Sane
<1>3. \/ Arrive(s, t, sig) = threadFinish(n, t)
      \/ Arrive(s, t, sig) = n
      \/ Arrive(s, t, sig) = determineLockStatus(n, t, o.obj)
      \/ Arrive(s, t, sig) = enableThread(n, t)
      \/ Arrive(s, t, sig) = disableThread(n, t)
      \/ Arrive(s, t, sig) = threadHasReleasedLock(n, o.obj)
      \/ /\ ~Finished(n, t) /\ o.op \in {"wait", "timedwait"}
         /\ Arrive(s, t, sig) = enterCond(n, t, o)
      \/ sig # INVALID_THREAD /\ Arrive(s, t, sig) = leaveCond(n, {sig})
      \/ Arrive(s, t, sig) = leaveCond(n, OnCond(n, o.obj))
  BY Zenon DEF Arrive
<1> HIDE DEF o
<1>4. ~Finished(n, t) => InOp(n, t)
  <2>1. s.prog[t] \in Seq({s.prog[t][i] : i \in DOMAIN s.prog[t]})
    BY ReplayAssumption DEF IsCode
  <2>2. Len(s.prog[t]) \in Nat /\ DOMAIN s.prog[t] = 1..Len(s.prog[t])
    BY <2>1, LenProperties
  <2>3. n.pc[t] = s.pc[t] + 1 /\ s.pc[t] \in Nat
    BY <1>1 DEF Sane, Shaped
  <2>4. QED
    BY <1>1, <2>2, <2>3 DEF Finished, InOp
<1> HIDE DEF n
<1>5. ASSUME NEW r, SameWaits(n, r)
      PROVE  Sane(r) /\ r.prog = s.prog
  BY <1>1, <1>2, <1>5 DEF SameWaits, Sane, InWait, InOp, Op
<1>6. ASSUME NEW W \in SUBSET Thread
      PROVE  Sane(leaveCond(n, W)) /\ leaveCond(n, W).prog = s.prog
  <2>1. /\ Shaped(leaveCond(n, W)) /\ leaveCond(n, W).prog = n.prog
        /\ leaveCond(n, W).pc = n.pc
        /\ leaveCond(n, W).cond_map = [u \in Thread |-> IF u \in W THEN NULL ELSE n.cond_map[u]]
    BY <1>1, LeaveSteps
  <2>2. QED
    BY <1>1, <1>2, <2>1 DEF Sane, InWait, InOp, Op
<1>7. ~Finished(n, t) /\ o.op \in {"wait", "timedwait"} => Sane(enterCond(n, t, o)) /\ enterCond(n, t, o).prog = s.prog
  <2>1. /\ Shaped(enterCond(n, t, o)) /\ enterCond(n, t, o).prog = n.prog
        /\ enterCond(n, t, o).pc = n.pc
        /\ \A u \in Thread \ {t} : enterCond(n, t, o).cond_map[u] = n.cond_map[u]
    BY <1>1, EnterSteps
  <2>2. QED
    BY <1>1, <1>2, <1>4, <2>1 DEF Sane, InWait, InOp, Op, o
<1>8. /\ SameWaits(n, threadFinish(n, t)) /\ SameWaits(n, n)
      /\ SameWaits(n, determineLockStatus(n, t, o.obj)) /\ SameWaits(n, enableThread(n, t))
      /\ SameWaits(n, disableThread(n, t)) /\ SameWaits(n, threadHasReleasedLock(n, o.obj))
  BY <1>1, LockSteps, FinishSteps DEF SameWaits
<1>9. (sig # INVALID_THREAD => {sig} \in SUBSET Thread) /\ OnCond(n, o.obj) \in SUBSET Thread
  BY DEF OnCond
<1>10. QED
  BY <1>3, <1>5, <1>6, <1>7, <1>8, <1>9

\* What a thread does up to its next scheduling point leads to such a state.
LEMMA RunSane ==
  ASSUME NEW s, Sane(s), NEW t \in Thread, s.prog \in Programs,
         NEW sig \in Thread \cup {INVALID_THREAD}
  PROVE  Sane(Run(s, t, sig)) /\ Run(s, t, sig).prog = s.prog
<1>1. CASE TimesOut(s, t)
  <2>1. /\ Shaped(leaveCond(s, {t})) /\ leaveCond(s, {t}).prog = s.prog
        /\ leaveCond(s, {t}).pc = s.pc
        /\ leaveCond(s, {t}).cond_map = [u \in Thread |-> IF u \in {t} THEN NULL ELSE s.cond_map[u]]
    BY LeaveSteps DEF Sane
  <2>2. Sane(leaveCond(s, {t}))
    BY <2>1 DEF Sane, InWait, InOp, Op
  <2>3. QED
    BY <1>1, <2>1, <2>2 DEF Run
<1>2. CASE ~TimesOut(s, t)
  <2>1. SameWaits(s, Complete(s, t))
    BY CompleteSteps DEF Sane
  <2>2. Sane(Complete(s, t)) /\ Complete(s, t).prog = s.prog
    BY <2>1 DEF SameWaits, Sane, InWait, InOp, Op
  <2>3. Complete(s, t).cond_map[t] = NULL
    BY <1>2, <2>1 DEF SameWaits, TimesOut
  <2>4. Sane(Arrive(Complete(s, t), t, sig)) /\ Arrive(Complete(s, t), t, sig).prog = s.prog
    BY <2>2, <2>3, ArriveSane
  <2>5. QED
    BY <1>2, <2>4 DEF Run
<1>3. QED
  BY <1>1, <1>2

\* A thread whose next operation is o, neither a wait it times out of nor a
\* poll, arrives there.
LEMMA ArrivesAt ==
  ASSUME NEW s, Sane(s), NEW t \in Thread, s.prog \in Programs, NEW sig,
         ~TimesOut(s, t), NextOp(s, t).op \in {"signal", "mem"}
  PROVE  LET n == [Complete(s, t) EXCEPT !.pc[t] = @ + 1]
         IN  /\ Run(s, t, sig) = Arrive(Complete(s, t), t, sig)
             /\ Shaped(n) /\ n.cond_map = s.cond_map
             /\ t \in s.enabled => t \in n.enabled
             /\ ~Finished(n, t) /\ Op(n, t) = NextOp(s, t)
<1> DEFINE c == Complete(s, t)
           n == [c EXCEPT !.pc[t] = @ + 1]
<1>1. SameWaits(s, c) /\ (t \in s.enabled => t \in c.enabled)
  BY CompleteSteps DEF Sane
<1>2. ~Polls(s, t)
  BY DEF Polls, NextOp
<1>3. s.pc[t] < Len(s.prog[t]) /\ NextOp(s, t) = s.prog[t][s.pc[t] + 1]
  BY <1>2 DEF NextOp
<1>4. Run(s, t, sig) = Arrive(c, t, sig)
  BY <1>2 DEF Run
<1> HIDE DEF c
<1>5. /\ Shaped(n) /\ n.cond_map = s.cond_map /\ n.prog = s.prog
      /\ n.pc[t] = s.pc[t] + 1 /\ n.enabled = c.enabled
  BY <1>1 DEF SameWaits, Shaped, Fields
<1> HIDE DEF n
<1>6. Len(s.prog[t]) \in Nat /\ s.pc[t] \in Nat
  <2>1. s.prog[t] \in Seq({s.prog[t][i] : i \in DOMAIN s.prog[t]})
    BY ReplayAssumption DEF IsCode
  <2>2. QED
    BY <2>1, LenProperties DEF Sane, Shaped
<1>7. ~Finished(n, t) /\ Op(n, t) = NextOp(s, t)
  BY <1>3, <1>5, <1>6 DEF Finished, Op
<1>8. QED
  BY <1>1, <1>4, <1>5, <1>7 DEF c, n

\* The waiters of a signal are threads.
LEMMA TargetsOf ==
  ASSUME NEW s, NEW t
  PROVE  SignalTargets(s, t) \in SUBSET Thread
BY DEF SignalTargets, OnCond

\* A thread that signals stays enabled: no signal ends in a deadlock.
LEMMA SignalEnabled ==
  ASSUME NEW s, Sane(s), NEW t \in Thread, s.prog \in Programs, t \in s.enabled,
         NEW sig \in SignalTargets(s, t)
  PROVE  t \in Run(s, t, sig).enabled
<1> DEFINE n == [Complete(s, t) EXCEPT !.pc[t] = @ + 1]
           o == NextOp(s, t)
<1>1. ~TimesOut(s, t) /\ o.op = "signal" /\ sig \in Thread /\ s.cond_map[sig] = o.obj
  BY DEF SignalTargets, OnCond
<1>2. o.obj \in Cond
  BY <1>1, NextOpIs
<1>3. sig # t
  BY <1>1, <1>2, ReplayAssumption DEF TimesOut
<1>4. /\ Run(s, t, sig) = Arrive(Complete(s, t), t, sig)
      /\ Shaped(n) /\ t \in n.enabled /\ ~Finished(n, t) /\ Op(n, t) = o
  BY <1>1, ArrivesAt
<1>5. sig # INVALID_THREAD
  BY <1>1, ProgramAssumption DEF Thread, INVALID_THREAD
<1>6. Arrive(Complete(s, t), t, sig) = leaveCond(n, {sig})
  <2> DEFINE c == Complete(s, t)
  <2>1. Arrive(c, t, sig) =
          IF Finished(n, t) THEN threadFinish(n, t)
          ELSE CASE Op(n, t).op = "lock"    -> determineLockStatus(n, t, Op(n, t).obj)
                 [] Op(n, t).op = "trylock" -> enableThread(n, t)
                 [] Op(n, t).op = "unlock"  -> threadHasReleasedLock(n, Op(n, t).obj)
                 [] Op(n, t).op \in {"wait", "timedwait"} -> enterCond(n, t, Op(n, t))
                 [] Op(n, t).op = "signal"  -> IF sig = INVALID_THREAD THEN n ELSE leaveCond(n, {sig})
                 [] Op(n, t).op = "broadcast" -> leaveCond(n, OnCond(n, Op(n, t).obj))
                 [] Op(n, t).op = "join" ->
                      IF Finished(n, Op(n, t).obj) THEN enableThread(n, t) ELSE disableThread(n, t)
                 [] OTHER -> n
    BY Zenon DEF Arrive
  <2>2. Op(n, t).op = "signal"
    BY <1>1, <1>4
  <2> HIDE DEF c, n
  <2>3. Arrive(c, t, sig) = leaveCond(n, {sig})
    BY <1>4, <1>5, <2>1, <2>2
  <2>4. QED
    BY <2>3 DEF c
<1> HIDE DEF n
<1>7. t \in leaveCond(n, {sig}).enabled
  <2>1. {sig} \in SUBSET Thread /\ t \in Thread \ {sig}
    BY <1>1, <1>3
  <2>2. QED
    BY <1>4, <2>1, LeaveSteps
<1>8. QED
  BY <1>4, <1>6, <1>7

Nobody(s) == \A u \in Thread : s.cond_map[u] = NULL

\* Where nobody waits, no signal wakes anyone.
LEMMA NobodySignalled ==
  ASSUME NEW s, Sane(s), NEW t \in Thread, s.prog \in Programs, Nobody(s)
  PROVE  SignalTargets(s, t) = {}
BY NextOpIs, ReplayAssumption DEF SignalTargets, OnCond, Nobody

\* ... and a memory access wakes and stops no one.
LEMMA MemoryKeeps ==
  ASSUME NEW s, Sane(s), NEW t \in Thread, s.prog \in Programs, NextOp(s, t).op = "mem",
         NEW sig
  PROVE  /\ Nobody(s) => Nobody(Run(s, t, sig))
         /\ t \in s.enabled => t \in Run(s, t, sig).enabled
<1> DEFINE c == Complete(s, t)
           n == [c EXCEPT !.pc[t] = @ + 1]
<1>1. ~TimesOut(s, t)
  BY DEF Sane, InWait, TimesOut, NextOp
<1>2. /\ Run(s, t, sig) = Arrive(c, t, sig)
      /\ n.cond_map = s.cond_map /\ (t \in s.enabled => t \in n.enabled)
      /\ ~Finished(n, t) /\ Op(n, t).op = "mem"
  BY <1>1, ArrivesAt
<1>3. Arrive(c, t, sig) =
        IF Finished(n, t) THEN threadFinish(n, t)
        ELSE CASE Op(n, t).op = "lock"    -> determineLockStatus(n, t, Op(n, t).obj)
               [] Op(n, t).op = "trylock" -> enableThread(n, t)
               [] Op(n, t).op = "unlock"  -> threadHasReleasedLock(n, Op(n, t).obj)
               [] Op(n, t).op \in {"wait", "timedwait"} -> enterCond(n, t, Op(n, t))
               [] Op(n, t).op = "signal"  -> IF sig = INVALID_THREAD THEN n ELSE leaveCond(n, {sig})
               [] Op(n, t).op = "broadcast" -> leaveCond(n, OnCond(n, Op(n, t).obj))
               [] Op(n, t).op = "join" ->
                    IF Finished(n, Op(n, t).obj) THEN enableThread(n, t) ELSE disableThread(n, t)
               [] OTHER -> n
  BY Zenon DEF Arrive
<1> HIDE DEF c, n
<1>4. Arrive(c, t, sig) = n
  BY <1>2, <1>3
<1>5. QED
  BY <1>2, <1>4 DEF Nobody

-----------------------------------------------------------------------------
(***************************************************************************)
(* Logs, and what outputRelaxedSchedule makes of one.                      *)
(***************************************************************************)
Info == [kind : {"SCHED", "SIGNAL"}, chosen : Thread, caller : Thread, idaddr : Nat]

IntervalSet ==
  [current : Thread, max : Nat, addr : Nat \cup {NoAddr}, pass : Int,
   signals : Seq(Thread), timesScheduled : Nat]

Seen == [out : Seq(IntervalSet), times : Nat, seen : Seq(Nat), signals : Seq(Thread)]

\* The thread with the baton after n decisions.
Holder(L, n) ==
  IF n = 0 THEN Main ELSE IF L[n].kind = "SCHED" THEN L[n].chosen ELSE L[n].caller

\* A log: decisions by the thread with the baton.  The first scheduling point
\* signals no one, and no process ends between a signal and its schedule choice.
LogOK(L) ==
  /\ L \in Seq(Info)
  /\ L # <<>> => L[1].kind = "SCHED" /\ L[Len(L)].kind = "SCHED"
  /\ \A i \in 1..Len(L) : L[i].caller = Holder(L, i - 1)

IsSummary(f, L, k) ==
  f = [n \in 0..k |-> IF n = 0 THEN NothingSeen ELSE RelaxedStep(f[n - 1], L[n])]

\* The recursion of Summary has a solution up to every length.
LEMMA SummaryExists ==
  ASSUME NEW L, NEW k \in Nat
  PROVE  \E f : IsSummary(f, L, k)
<1> DEFINE S == {n \in Nat : ~\E f : IsSummary(f, L, n)}
<1>1. SUFFICES ASSUME S # {} PROVE FALSE
  OBVIOUS
<1>2. PICK n \in S : \A j \in S : n <= j
  <2>1. S \in SUBSET Nat
    OBVIOUS
  <2>2. QED
    BY <1>1, <2>1, LeastNatural
<1>3. n \in Nat /\ ~\E f : IsSummary(f, L, n)
  BY <1>2
<1>4. CASE n = 0
  <2> DEFINE f == [j \in 0..0 |-> NothingSeen]
  <2>1. f = [j \in 0..0 |-> IF j = 0 THEN NothingSeen ELSE RelaxedStep(f[j - 1], L[j])]
    OBVIOUS
  <2>2. IsSummary(f, L, 0)
    BY <2>1 DEF IsSummary
  <2>3. QED
    BY <1>3, <1>4, <2>2
<1>5. CASE n # 0
  <2>1. n - 1 \in Nat /\ ~(n <= n - 1)
    BY <1>3, <1>5
  <2>2. n - 1 \notin S
    BY <1>2, <2>1
  <2>3. PICK g : IsSummary(g, L, n - 1)
    BY <2>1, <2>2
  <2> DEFINE f == [j \in 0..n |-> IF j < n THEN g[j] ELSE RelaxedStep(g[n - 1], L[n])]
  <2>4. \A j \in 0..(n - 1) : g[j] = IF j = 0 THEN NothingSeen ELSE RelaxedStep(g[j - 1], L[j])
    BY <2>3 DEF IsSummary
  <2>5. ASSUME NEW j \in 0..n
        PROVE  f[j] = IF j = 0 THEN NothingSeen ELSE RelaxedStep(f[j - 1], L[j])
    <3>1. CASE j = 0
      <4>1. 0 \in 0..(n - 1) /\ 0 < n
        BY <1>3, <1>5
      <4>2. QED
        BY <2>4, <3>1, <4>1
    <3>2. CASE j # 0 /\ j < n
      <4>1. j \in 0..(n - 1) /\ j - 1 \in 0..n /\ j - 1 < n
        BY <1>3, <3>2
      <4>2. f[j] = g[j] /\ f[j - 1] = g[j - 1]
        BY <3>2, <4>1
      <4>3. QED
        BY <2>4, <3>2, <4>1, <4>2
    <3>3. CASE j = n
      <4>1. n - 1 \in 0..n /\ n - 1 < n /\ ~(n < n)
        BY <1>3, <1>5
      <4>2. f[n - 1] = g[n - 1] /\ f[n] = RelaxedStep(g[n - 1], L[n])
        BY <1>3, <4>1
      <4>3. QED
        BY <1>5, <3>3, <4>2
    <3>4. QED
      BY <1>3, <3>1, <3>2, <3>3
  <2>6. f = [j \in 0..n |-> f[j]]
    OBVIOUS
  <2> HIDE DEF f
  <2>7. IsSummary(f, L, n)
    BY <2>5, <2>6 DEF IsSummary
  <2>8. QED
    BY <1>3, <2>7
<1>6. QED
  BY <1>4, <1>5

\* ... so Summary is one.
LEMMA SummaryIs ==
  ASSUME NEW L, Len(L) \in Nat
  PROVE  /\ Summary(L)[0] = NothingSeen
         /\ \A n \in 1..Len(L) : Summary(L)[n] = RelaxedStep(Summary(L)[n - 1], L[n])
<1>1. \E f : IsSummary(f, L, Len(L))
  BY SummaryExists
<1>2. Summary(L) = CHOOSE f : IsSummary(f, L, Len(L))
  BY DEF Summary, IsSummary
<1>3. IsSummary(Summary(L), L, Len(L))
  BY <1>1, <1>2
<1> DEFINE f == Summary(L)
<1> HIDE DEF f
<1>4. f = [n \in 0..Len(L) |-> IF n = 0 THEN NothingSeen ELSE RelaxedStep(f[n - 1], L[n])]
  BY <1>3 DEF IsSummary, f
<1>5. f[0] = NothingSeen /\ \A n \in 1..Len(L) : f[n] = RelaxedStep(f[n - 1], L[n])
  BY <1>4
<1>6. QED
  BY <1>5 DEF f

\* Visits are counted.
LEMMA VisitsCount ==
  ASSUME NEW seen \in Seq(Nat), NEW id
  PROVE  /\ Visits(seen, id) \in Nat
         /\ seen = <<>> \/ id \notin Nat => Visits(seen, id) = 0
         /\ \A a \in Nat : Visits(Append(seen, a), id) = Visits(seen, id) + (IF a = id THEN 1 ELSE 0)
<1> DEFINE S == {i \in DOMAIN seen : seen[i] = id}
<1>1. Len(seen) \in Nat /\ DOMAIN seen = 1..Len(seen)
  BY LenProperties
<1>2. IsFiniteSet(S)
  <2>1. IsFiniteSet(1..Len(seen))
    BY <1>1, FS_Interval
  <2>2. QED
    BY <1>1, <2>1, FS_Subset
<1>3. Visits(seen, id) = Cardinality(S) /\ Cardinality(S) \in Nat
  BY <1>2, FS_CardinalityType DEF Visits
<1>4. seen = <<>> \/ id \notin Nat => S = {}
  BY <1>1, ElementOfSeq
<1>5. ASSUME NEW a \in Nat
      PROVE  Visits(Append(seen, a), id) = Visits(seen, id) + (IF a = id THEN 1 ELSE 0)
  <2> DEFINE T == {i \in DOMAIN Append(seen, a) : Append(seen, a)[i] = id}
             k == Len(seen) + 1
  <2>1. /\ Append(seen, a) \in Seq(Nat)
        /\ Len(Append(seen, a)) = k
        /\ \A i \in 1..Len(seen) : Append(seen, a)[i] = seen[i]
        /\ Append(seen, a)[k] = a
    BY AppendProperties
  <2>2. DOMAIN Append(seen, a) = 1..k
    BY <2>1, LenProperties
  <2>3. k \notin S
    BY <1>1
  <2>4. T = IF a = id THEN S \cup {k} ELSE S
    <3>1. ASSUME NEW i PROVE i \in T <=> i \in (IF a = id THEN S \cup {k} ELSE S)
      <4>1. i \in 1..k <=> i \in 1..Len(seen) \/ i = k
        BY <1>1
      <4>2. CASE i \in 1..Len(seen)
        BY <1>1, <2>1, <2>2, <4>1, <4>2
      <4>3. CASE i = k
        BY <1>1, <2>1, <2>2, <4>1, <4>3
      <4>4. CASE i \notin 1..k
        BY <1>1, <2>2, <4>1, <4>4
      <4>5. QED
        BY <4>1, <4>2, <4>3, <4>4
    <3>2. QED
      BY <3>1
  <2>5. Visits(Append(seen, a), id) = Cardinality(T)
    BY DEF Visits
  <2> HIDE DEF S, T, k
  <2>6. CASE a = id
    <3>1. Cardinality(S \cup {k}) = Cardinality(S) + 1
      BY <1>2, <2>3, FS_AddElement
    <3>2. QED
      BY <1>3, <2>4, <2>5, <2>6, <3>1
  <2>7. CASE a # id
    BY <1>3, <2>4, <2>5, <2>7
  <2>8. QED
    BY <2>6, <2>7
<1>6. QED
  BY <1>3, <1>4, <1>5, FS_EmptySet

IsSwitch(d) == d.kind = "SCHED" /\ d.chosen # d.caller
IsStay(d) == d.kind = "SCHED" /\ d.chosen = d.caller

\* The interval that switch d closes.
Closed(a, d) == Interval(d.caller, a.times, d.idaddr, Visits(a.seen, d.idaddr), a.signals)

\* One round of outputRelaxedSchedule.
LEMMA RoundIs ==
  ASSUME NEW a \in Seen, NEW d \in Info
  PROVE  /\ d.kind = "SIGNAL" =>
              RelaxedStep(a, d) = [out |-> a.out, times |-> a.times, seen |-> a.seen,
                                   signals |-> Append(a.signals, d.chosen)]
         /\ IsStay(d) =>
              RelaxedStep(a, d) = [out |-> a.out, times |-> a.times + 1,
                                   seen |-> Append(a.seen, d.idaddr), signals |-> a.signals]
         /\ IsSwitch(d) =>
              RelaxedStep(a, d) = [out |-> Append(a.out, Closed(a, d)), times |-> 1,
                                   seen |-> <<>>, signals |-> <<>>]
         /\ d.kind = "SIGNAL" \/ IsStay(d) \/ IsSwitch(d)
<1>1. a = [out |-> a.out, times |-> a.times, seen |-> a.seen, signals |-> a.signals]
  BY DEF Seen
<1>2. d.kind = "SIGNAL" =>
        RelaxedStep(a, d) = [out |-> a.out, times |-> a.times, seen |-> a.seen,
                             signals |-> Append(a.signals, d.chosen)]
  BY <1>1 DEF RelaxedStep
<1>3. IsStay(d) =>
        RelaxedStep(a, d) = [out |-> a.out, times |-> a.times + 1,
                             seen |-> Append(a.seen, d.idaddr), signals |-> a.signals]
  BY <1>1 DEF RelaxedStep, IsStay
<1>4. IsSwitch(d) =>
        RelaxedStep(a, d) = [out |-> Append(a.out, Closed(a, d)), times |-> 1,
                             seen |-> <<>>, signals |-> <<>>]
  BY DEF RelaxedStep, IsSwitch, NothingSeen, Closed
<1>5. QED
  BY <1>2, <1>3, <1>4 DEF Info, IsStay, IsSwitch

\* The interval a switch closes is one.
LEMMA ClosedType ==
  ASSUME NEW a \in Seen, NEW d \in Info
  PROVE  /\ Closed(a, d) \in IntervalSet
         /\ Closed(a, d).current = d.caller /\ Closed(a, d).max = a.times
         /\ Closed(a, d).addr = d.idaddr /\ Closed(a, d).pass = Visits(a.seen, d.idaddr)
         /\ Closed(a, d).signals = a.signals /\ Closed(a, d).timesScheduled = 0
<1>1. a.seen \in Seq(Nat) /\ a.signals \in Seq(Thread) /\ a.times \in Nat
  BY DEF Seen
<1>2. Visits(a.seen, d.idaddr) \in Nat
  BY <1>1, VisitsCount
<1>3. d.caller \in Thread /\ d.idaddr \in Nat
  BY DEF Info
<1> DEFINE v == Visits(a.seen, d.idaddr)
<1> HIDE DEF v
<1>4. Closed(a, d) = [current |-> d.caller, max |-> a.times, addr |-> d.idaddr, pass |-> v,
                      signals |-> a.signals, timesScheduled |-> 0]
  BY DEF Closed, Interval, v
<1>5. v \in Nat /\ v \in Int
  BY <1>2 DEF v
<1>6. QED
  BY <1>1, <1>3, <1>4, <1>5 DEF IntervalSet, v

\* What has been seen keeps its type.
LEMMA RoundType ==
  ASSUME NEW a \in Seen, NEW d \in Info
  PROVE  RelaxedStep(a, d) \in Seen
<1>1. a.out \in Seq(IntervalSet) /\ a.seen \in Seq(Nat) /\ a.signals \in Seq(Thread) /\ a.times \in Nat
  BY DEF Seen
<1>2. d.chosen \in Thread /\ d.idaddr \in Nat
  BY DEF Info
<1>3. /\ Append(a.out, Closed(a, d)) \in Seq(IntervalSet)
      /\ Append(a.seen, d.idaddr) \in Seq(Nat) /\ Append(a.signals, d.chosen) \in Seq(Thread)
  BY <1>1, <1>2, ClosedType, AppendProperties
<1>4. <<>> \in Seq(Nat) /\ <<>> \in Seq(Thread)
  BY EmptySeq
<1>5. ASSUME NEW o \in Seq(IntervalSet), NEW n \in Nat, NEW s \in Seq(Nat), NEW g \in Seq(Thread)
      PROVE  [out |-> o, times |-> n, seen |-> s, signals |-> g] \in Seen
  BY DEF Seen
<1>6. CASE d.kind = "SIGNAL"
  <2>1. RelaxedStep(a, d) = [out |-> a.out, times |-> a.times, seen |-> a.seen,
                             signals |-> Append(a.signals, d.chosen)]
    BY <1>6, RoundIs
  <2>2. QED
    BY <1>1, <1>3, <1>5, <2>1
<1>7. CASE IsStay(d)
  <2>1. RelaxedStep(a, d) = [out |-> a.out, times |-> a.times + 1,
                             seen |-> Append(a.seen, d.idaddr), signals |-> a.signals]
    BY <1>7, RoundIs
  <2>2. a.times + 1 \in Nat
    BY <1>1
  <2>3. QED
    BY <1>1, <1>3, <1>5, <2>1, <2>2
<1>8. CASE IsSwitch(d)
  <2>1. RelaxedStep(a, d) = [out |-> Append(a.out, Closed(a, d)), times |-> 1,
                             seen |-> <<>>, signals |-> <<>>]
    BY <1>8, RoundIs
  <2>2. QED
    BY <1>3, <1>4, <1>5, <2>1
<1>9. QED
  BY <1>6, <1>7, <1>8, RoundIs

\* The types of Summary.
LEMMA SummaryType ==
  ASSUME NEW L \in Seq(Info)
  PROVE  \A n \in 0..Len(L) : Summary(L)[n] \in Seen
<1> DEFINE A == Summary(L)
           S == {n \in 0..Len(L) : A[n] \notin Seen}
<1>1. Len(L) \in Nat
  BY LenProperties
<1>2. A[0] = NothingSeen /\ \A n \in 1..Len(L) : A[n] = RelaxedStep(A[n - 1], L[n])
  BY <1>1, SummaryIs
<1> HIDE DEF A
<1>3. NothingSeen \in Seen
  BY EmptySeq DEF NothingSeen, Seen
<1>4. SUFFICES ASSUME S # {} PROVE FALSE
  BY DEF A
<1>5. PICK n \in S : \A j \in S : n <= j
  <2>1. S \in SUBSET Nat
    OBVIOUS
  <2>2. QED
    BY <1>4, <2>1, LeastNatural
<1>6. n # 0
  BY <1>2, <1>3, <1>5
<1>7. n \in 1..Len(L) /\ n - 1 \in 0..Len(L) /\ ~(n <= n - 1)
  BY <1>1, <1>5, <1>6
<1>8. A[n - 1] \in Seen
  BY <1>5, <1>7
<1>9. L[n] \in Info
  BY <1>7, ElementOfSeq
<1>10. RelaxedStep(A[n - 1], L[n]) \in Seen
  BY <1>8, <1>9, RoundType
<1>11. QED
  BY <1>2, <1>5, <1>7, <1>10

-----------------------------------------------------------------------------
(***************************************************************************)
(* The interval that the log is in after n decisions, and how what has     *)
(* been seen of it fits the interval as it is put out in the end.          *)
(***************************************************************************)
Place(L, n) == Len(Summary(L)[n].out) + 1
Current(L, n) == outputRelaxedSchedule(L)[Place(L, n)]

Fits(L, n) ==
  LET a == Summary(L)[n]
      full == outputRelaxedSchedule(L)
      I == Current(L, n)
  IN  /\ Place(L, n) <= Len(full)
      /\ \A q \in 1..Len(a.out) : full[q] = a.out[q]
      /\ I.current = Holder(L, n) /\ I.timesScheduled = 0
      /\ a.times <= I.max
      /\ Visits(a.seen, I.addr) <= I.pass
      /\ Len(a.signals) <= Len(I.signals)
      /\ \A q \in 1..Len(a.signals) : I.signals[q] = a.signals[q]

\* The relaxed schedule is a sequence of intervals; the last one is not left
\* at any address.
LEMMA FullType ==
  ASSUME NEW L \in Seq(Info), L # <<>>
  PROVE  LET a == Summary(L)[Len(L)]
             full == outputRelaxedSchedule(L)
             I == full[Len(full)]
         IN  /\ full \in Seq(IntervalSet)
             /\ Len(full) = Len(a.out) + 1 /\ Len(a.out) \in Nat
             /\ \A q \in 1..Len(a.out) : full[q] = a.out[q]
             /\ I = Interval(L[Len(L)].chosen, a.times, NoAddr, 0, a.signals)
<1> DEFINE a == Summary(L)[Len(L)]
           full == outputRelaxedSchedule(L)
           I == Interval(L[Len(L)].chosen, a.times, NoAddr, 0, a.signals)
<1>1. Len(L) \in Nat /\ Len(L) \in 1..Len(L) /\ Len(L) \in 0..Len(L)
  BY LenProperties, EmptySeq
<1>2. a \in Seen /\ L[Len(L)] \in Info
  BY <1>1, SummaryType, ElementOfSeq
<1>3. full = Append(a.out, I)
  BY DEF outputRelaxedSchedule, Last
<1>4. I \in IntervalSet
  BY <1>2 DEF Interval, Seen, Info, IntervalSet
<1>5. a.out \in Seq(IntervalSet)
  BY <1>2 DEF Seen
<1> HIDE DEF a, full, I
<1>6. /\ full \in Seq(IntervalSet) /\ Len(full) = Len(a.out) + 1
      /\ \A q \in 1..Len(a.out) : full[q] = a.out[q]
      /\ full[Len(a.out) + 1] = I
  BY <1>3, <1>4, <1>5, AppendProperties
<1>7. Len(a.out) \in Nat
  BY <1>5, LenProperties
<1>8. QED
  BY <1>6, <1>7 DEF a, full, I

\* The interval where the log stops is the last one.
LEMMA FitsLast ==
  ASSUME NEW L, LogOK(L), L # <<>>
  PROVE  /\ Fits(L, Len(L)) /\ Place(L, Len(L)) = Len(outputRelaxedSchedule(L))
         /\ LET a == Summary(L)[Len(L)]
                I == Current(L, Len(L))
            IN  /\ I.max = a.times /\ I.addr = NoAddr /\ I.pass = 0 /\ I.signals = a.signals
                /\ Visits(a.seen, NoAddr) = 0
<1> DEFINE m == Len(L)
           a == Summary(L)[m]
           full == outputRelaxedSchedule(L)
           I == full[Len(full)]
<1>1. L \in Seq(Info) /\ m \in Nat /\ m \in 0..m /\ m # 0
  BY LenProperties, EmptySeq DEF LogOK
<1>2. /\ full \in Seq(IntervalSet)
      /\ Len(full) = Len(a.out) + 1 /\ Len(a.out) \in Nat
      /\ \A q \in 1..Len(a.out) : full[q] = a.out[q]
      /\ I = Interval(L[m].chosen, a.times, NoAddr, 0, a.signals)
  BY <1>1, FullType
<1>3. Place(L, m) = Len(full) /\ Current(L, m) = I
  BY <1>2 DEF Place, Current
<1>4. Holder(L, m) = L[m].chosen
  BY <1>1 DEF Holder, LogOK
<1>5. a \in Seen
  BY <1>1, SummaryType
<1>6. a.times \in Nat /\ Len(a.signals) \in Nat /\ a.seen \in Seq(Nat) /\ Len(full) \in Nat
  BY <1>2, <1>5, LenProperties DEF Seen
<1>7. Visits(a.seen, NoAddr) = 0
  <2>1. NoAddr \notin Nat
    BY DEF NoAddr
  <2>2. QED
    BY <1>6, <2>1, VisitsCount
<1> HIDE DEF a, full, I, m
<1>8. /\ I.current = L[m].chosen /\ I.max = a.times /\ I.addr = NoAddr /\ I.pass = 0
      /\ I.signals = a.signals /\ I.timesScheduled = 0
  BY <1>2 DEF Interval
<1>9. Fits(L, m)
  BY <1>2, <1>3, <1>4, <1>6, <1>7, <1>8 DEF Fits, a, full
<1>10. QED
  BY <1>3, <1>7, <1>8, <1>9 DEF a, m, full

\* The next decision of the log, where the rest of the log fits: a signal and a
\* stay belong to the interval, a switch closes it and opens the next one.
LEMMA FitsBefore ==
  ASSUME NEW L, LogOK(L), NEW n \in 0..(Len(L) - 1), Fits(L, n + 1)
  PROVE  LET a == Summary(L)[n]
             b == Summary(L)[n + 1]
             d == L[n + 1]
             I == Current(L, n)
         IN  /\ Fits(L, n)
             /\ d.kind = "SIGNAL" =>
                  /\ Place(L, n + 1) = Place(L, n)
                  /\ b = [out |-> a.out, times |-> a.times, seen |-> a.seen,
                          signals |-> Append(a.signals, d.chosen)]
                  /\ Len(a.signals) + 1 <= Len(I.signals)
                  /\ I.signals[Len(a.signals) + 1] = d.chosen
             /\ IsStay(d) =>
                  /\ Place(L, n + 1) = Place(L, n)
                  /\ b = [out |-> a.out, times |-> a.times + 1,
                          seen |-> Append(a.seen, d.idaddr), signals |-> a.signals]
                  /\ a.times + 1 <= I.max
                  /\ Visits(a.seen, I.addr) + (IF d.idaddr = I.addr THEN 1 ELSE 0) <= I.pass
             /\ IsSwitch(d) =>
                  /\ Place(L, n + 1) = Place(L, n) + 1
                  /\ b.times = 1 /\ b.seen = <<>> /\ b.signals = <<>>
                  /\ I = Closed(a, d)
<1> DEFINE a == Summary(L)[n]
           b == Summary(L)[n + 1]
           d == L[n + 1]
           full == outputRelaxedSchedule(L)
           I == Current(L, n)
           J == Current(L, n + 1)
<1>1. L \in Seq(Info) /\ Len(L) \in Nat /\ n \in Nat
  BY LenProperties DEF LogOK
<1>2. n \in 0..Len(L) /\ n + 1 \in 0..Len(L) /\ n + 1 \in 1..Len(L) /\ (n + 1) - 1 = n
  BY <1>1
<1>3. L # <<>>
  BY <1>1, <1>2, EmptySeq
<1>4. a \in Seen /\ b \in Seen /\ d \in Info
  BY <1>1, <1>2, SummaryType, ElementOfSeq
<1>5. b = RelaxedStep(a, d)
  BY <1>1, <1>2, SummaryIs
<1>6. /\ a.out \in Seq(IntervalSet) /\ a.seen \in Seq(Nat) /\ a.signals \in Seq(Thread)
      /\ a.times \in Nat /\ Len(a.out) \in Nat /\ Len(a.signals) \in Nat
  BY <1>4, LenProperties DEF Seen
<1>7. d.caller = Holder(L, n) /\ Holder(L, n + 1) = IF d.kind = "SCHED" THEN d.chosen ELSE d.caller
  BY <1>1, <1>2 DEF LogOK, Holder
<1>8. d.chosen \in Thread /\ d.idaddr \in Nat
  BY <1>4 DEF Info
<1>9. full \in Seq(IntervalSet) /\ Len(full) \in Nat
  BY <1>1, <1>3, FullType, LenProperties
<1>10. /\ Place(L, n + 1) <= Len(full)
       /\ \A q \in 1..Len(b.out) : full[q] = b.out[q]
       /\ J.current = Holder(L, n + 1) /\ J.timesScheduled = 0
       /\ b.times <= J.max
       /\ Visits(b.seen, J.addr) <= J.pass
       /\ Len(b.signals) <= Len(J.signals)
       /\ \A q \in 1..Len(b.signals) : J.signals[q] = b.signals[q]
  BY DEF Fits
<1>11. Place(L, n) = Len(a.out) + 1 /\ Place(L, n + 1) = Len(b.out) + 1
  BY DEF Place
<1>12. I = full[Place(L, n)] /\ J = full[Place(L, n + 1)]
  BY DEF Current
<1> HIDE DEF a, b, d, full, I, J
<1>13. ASSUME b.out = a.out
       PROVE  Place(L, n + 1) = Place(L, n) /\ J = I /\ I \in IntervalSet
  <2>1. Place(L, n + 1) = Place(L, n) /\ J = I
    BY <1>11, <1>12, <1>13
  <2>2. Place(L, n) \in 1..Len(full)
    BY <1>6, <1>9, <1>10, <1>11, <2>1
  <2>3. QED
    BY <1>9, <1>12, <2>1, <2>2, ElementOfSeq
<1>14. CASE d.kind = "SIGNAL"
  <2>1. b = [out |-> a.out, times |-> a.times, seen |-> a.seen, signals |-> Append(a.signals, d.chosen)]
    BY <1>4, <1>5, <1>14, RoundIs
  <2>2. Place(L, n + 1) = Place(L, n) /\ J = I /\ I \in IntervalSet
    BY <1>13, <2>1
  <2>3. /\ Len(b.signals) = Len(a.signals) + 1
        /\ \A q \in 1..Len(a.signals) : b.signals[q] = a.signals[q]
        /\ b.signals[Len(a.signals) + 1] = d.chosen
    BY <1>6, <1>8, <2>1, AppendProperties
  <2>4. Len(I.signals) \in Nat
    BY <2>2, LenProperties DEF IntervalSet
  <2>5. /\ Len(a.signals) + 1 <= Len(I.signals) /\ Len(a.signals) <= Len(I.signals)
        /\ I.signals[Len(a.signals) + 1] = d.chosen
        /\ \A q \in 1..Len(a.signals) : I.signals[q] = a.signals[q]
    <3> DEFINE k == Len(a.signals)
    <3>1. k \in Nat /\ Len(b.signals) = k + 1 /\ k + 1 <= Len(I.signals)
      BY <1>6, <1>10, <2>2, <2>3
    <3>2. /\ \A q \in 1..(k + 1) : I.signals[q] = b.signals[q]
          /\ \A q \in 1..k : b.signals[q] = a.signals[q]
          /\ b.signals[k + 1] = d.chosen
      BY <1>10, <2>2, <2>3, <3>1
    <3> HIDE DEF k
    <3>3. k + 1 \in 1..(k + 1) /\ \A q \in 1..k : q \in 1..(k + 1)
      BY <3>1
    <3>4. k <= Len(I.signals)
      BY <2>4, <3>1
    <3>5. QED
      BY <3>1, <3>2, <3>3, <3>4 DEF k
  <2>6. I.current = Holder(L, n)
    BY <1>7, <1>10, <1>14, <2>2
  <2>7. Fits(L, n)
    BY <1>10, <2>1, <2>2, <2>5, <2>6 DEF Fits, a, full, I
  <2>8. ~IsStay(d) /\ ~IsSwitch(d)
    BY <1>14 DEF IsStay, IsSwitch
  <2>9. QED
    BY <2>1, <2>2, <2>5, <2>7, <2>8 DEF a, b, d, I
<1>15. CASE IsStay(d)
  <2>1. b = [out |-> a.out, times |-> a.times + 1, seen |-> Append(a.seen, d.idaddr), signals |-> a.signals]
    BY <1>4, <1>5, <1>15, RoundIs
  <2>2. Place(L, n + 1) = Place(L, n) /\ J = I /\ I \in IntervalSet
    BY <1>13, <2>1
  <2>3. I.pass \in Int /\ I.max \in Nat
    BY <2>2 DEF IntervalSet
  <2>4. /\ Visits(a.seen, I.addr) \in Nat
        /\ Visits(b.seen, I.addr) = Visits(a.seen, I.addr) + (IF d.idaddr = I.addr THEN 1 ELSE 0)
    BY <1>6, <1>8, <2>1, VisitsCount
  <2>5. /\ Visits(a.seen, I.addr) + (IF d.idaddr = I.addr THEN 1 ELSE 0) <= I.pass
        /\ Visits(a.seen, I.addr) <= I.pass
    BY <1>10, <2>2, <2>3, <2>4
  <2>6. a.times + 1 <= I.max /\ a.times <= I.max
    BY <1>6, <1>10, <2>1, <2>2, <2>3
  <2>7. I.current = Holder(L, n)
    BY <1>7, <1>10, <1>15, <2>2 DEF IsStay
  <2>8. Fits(L, n)
    BY <1>10, <2>1, <2>2, <2>5, <2>6, <2>7 DEF Fits, a, full, I
  <2>9. d.kind # "SIGNAL" /\ ~IsSwitch(d)
    BY <1>15 DEF IsStay, IsSwitch
  <2>10. QED
    BY <2>1, <2>2, <2>5, <2>6, <2>8, <2>9 DEF a, b, d, I
<1>16. CASE IsSwitch(d)
  <2>1. b = [out |-> Append(a.out, Closed(a, d)), times |-> 1, seen |-> <<>>, signals |-> <<>>]
    BY <1>4, <1>5, <1>16, RoundIs
  <2>2. /\ Closed(a, d) \in IntervalSet
        /\ Closed(a, d).current = d.caller /\ Closed(a, d).max = a.times
        /\ Closed(a, d).addr = d.idaddr /\ Closed(a, d).pass = Visits(a.seen, d.idaddr)
        /\ Closed(a, d).signals = a.signals /\ Closed(a, d).timesScheduled = 0
    BY <1>4, ClosedType
  <2>3. /\ Len(b.out) = Len(a.out) + 1
        /\ \A q \in 1..Len(a.out) : b.out[q] = a.out[q]
        /\ b.out[Len(a.out) + 1] = Closed(a, d)
    BY <1>6, <2>1, <2>2, AppendProperties
  <2>4. Place(L, n + 1) = Place(L, n) + 1 /\ Place(L, n) <= Len(full)
    BY <1>6, <1>9, <1>10, <1>11, <2>3
  <2>5. I = Closed(a, d) /\ \A q \in 1..Len(a.out) : full[q] = a.out[q]
    <3> DEFINE k == Len(a.out)
    <3>1. k \in Nat /\ Len(b.out) = k + 1 /\ I = full[k + 1]
      BY <1>6, <1>11, <1>12, <2>3
    <3>2. /\ \A q \in 1..(k + 1) : full[q] = b.out[q]
          /\ \A q \in 1..k : b.out[q] = a.out[q]
          /\ b.out[k + 1] = Closed(a, d)
      BY <1>10, <2>3, <3>1
    <3> HIDE DEF k
    <3>3. k + 1 \in 1..(k + 1) /\ \A q \in 1..k : q \in 1..(k + 1)
      BY <3>1
    <3>4. QED
      BY <3>1, <3>2, <3>3 DEF k
  <2>6. Visits(a.seen, d.idaddr) \in Nat
    BY <1>6, VisitsCount
  <2>7. Fits(L, n)
    BY <1>6, <1>7, <2>2, <2>4, <2>5, <2>6 DEF Fits, a, full, I
  <2>8. d.kind # "SIGNAL" /\ ~IsStay(d)
    BY <1>16 DEF IsStay, IsSwitch
  <2>9. QED
    BY <2>1, <2>4, <2>5, <2>7, <2>8 DEF a, b, d, I
<1>17. QED
  BY <1>4, <1>14, <1>15, <1>16, RoundIs

\* What has been seen fits at every point of the log.
LEMMA FitsAlways ==
  ASSUME NEW L, LogOK(L), L # <<>>
  PROVE  \A n \in 0..Len(L) : Fits(L, n)
<1> DEFINE m == Len(L)
           S == {k \in 0..m : ~Fits(L, m - k)}
<1>1. m \in Nat
  BY LenProperties DEF LogOK
<1>2. S = {}
  <2>1. SUFFICES ASSUME S # {} PROVE FALSE
    OBVIOUS
  <2>2. PICK k \in S : \A j \in S : k <= j
    <3>1. S \in SUBSET Nat
      BY <1>1
    <3>2. QED
      BY <2>1, <3>1, LeastNatural
  <2>3. k # 0
    <3>1. Fits(L, m - 0)
      BY <1>1, FitsLast
    <3>2. QED
      BY <2>2, <3>1
  <2>4. k - 1 \in 0..m /\ ~(k <= k - 1) /\ m - (k - 1) = (m - k) + 1 /\ m - k \in 0..(m - 1)
    BY <1>1, <2>2, <2>3
  <2>5. Fits(L, (m - k) + 1)
    BY <2>2, <2>4
  <2>6. Fits(L, m - k)
    BY <2>4, <2>5, FitsBefore
  <2>7. QED
    BY <2>2, <2>6
<1>3. ASSUME NEW n \in 0..m PROVE Fits(L, n)
  <2>1. m - n \in 0..m /\ m - (m - n) = n
    BY <1>1
  <2>2. QED
    BY <1>2, <2>1
<1>4. QED
  BY <1>3

-----------------------------------------------------------------------------
(***************************************************************************)
(* RelaxedTracker in step with the log: after n decisions the interval r   *)
(* being followed, with the signals sigs and the intervals that remain, is *)
(* what the relaxed schedule has for the rest of the log.                  *)
(***************************************************************************)
GuideRelaxed(L, n, intervals, r, sigs) ==
  LET a == Summary(L)[n]
      full == outputRelaxedSchedule(L)
      I == Current(L, n)
  IN  /\ r \in IntervalSet
      /\ r.current = I.current /\ r.max = I.max /\ r.addr = I.addr
      /\ r.timesScheduled = a.times
      /\ r.pass = I.pass - Visits(a.seen, I.addr)
      /\ sigs \in Seq(Thread) /\ Len(sigs) = Len(I.signals) - Len(a.signals)
      /\ \A q \in 1..Len(sigs) : sigs[q] = I.signals[Len(a.signals) + q]
      /\ intervals \in Seq(IntervalSet) /\ Len(intervals) = Len(full) - Place(L, n)
      /\ \A q \in 1..Len(intervals) : intervals[q] = full[Place(L, n) + q]

\* relaxedSchedule with interval r0, from its first line on.
Counted(r0, id) == [r0 EXCEPT !.pass = IF id = r0.addr THEN @ - 1 ELSE @]

Leaves(s, r) ==
  \/ r.pass < 0
  \/ checkTimesScheduled(r)
  \/ tracker \in {"relaxed", "addr"} /\ r.current \notin s.enabled

FollowFrom(s, id, r0, rest) ==
  LET r == Counted(r0, id)
  IN  IF Leaves(s, r) THEN regenerate(s, rest, r.signals)
      ELSE IF s.enabled = {} /\ tracker # "tester" THEN Stops("deadlock")
      ELSE IF r.current \notin s.enabled THEN Stops("internal")
      ELSE {Follow(r, rest)}

\* The first decision takes the first interval.
LEMMA RelaxedScheduleIs ==
  ASSUME NEW s, NEW id, NEW signals
  PROVE  /\ rel.current = UNKNOWN_THREAD =>
              relaxedSchedule(s, id, signals) =
                FollowFrom(s, id, Head(relaxed_schedule), Tail(relaxed_schedule))
         /\ rel.current # UNKNOWN_THREAD =>
              relaxedSchedule(s, id, signals) =
                FollowFrom(s, id, [rel EXCEPT !.signals = signals], relaxed_schedule)
<1> DEFINE first == rel.current = UNKNOWN_THREAD
           r0 == IF first THEN Head(relaxed_schedule) ELSE [rel EXCEPT !.signals = signals]
           rest == IF first THEN Tail(relaxed_schedule) ELSE relaxed_schedule
<1>1. relaxedSchedule(s, id, signals) = FollowFrom(s, id, r0, rest)
  BY DEF relaxedSchedule, FollowFrom, Counted, Leaves
<1>2. first => r0 = Head(relaxed_schedule) /\ rest = Tail(relaxed_schedule)
  OBVIOUS
<1>3. ~first => r0 = [rel EXCEPT !.signals = signals] /\ rest = relaxed_schedule
  OBVIOUS
<1> HIDE DEF r0, rest
<1>4. QED
  BY <1>1, <1>2, <1>3

\* The interval with the visit counted.
LEMMA CountedType ==
  ASSUME NEW r \in IntervalSet, NEW id
  PROVE  /\ Counted(r, id) \in IntervalSet
         /\ Counted(r, id).current = r.current /\ Counted(r, id).max = r.max
         /\ Counted(r, id).addr = r.addr /\ Counted(r, id).signals = r.signals
         /\ Counted(r, id).timesScheduled = r.timesScheduled
         /\ Counted(r, id).pass = IF id = r.addr THEN r.pass - 1 ELSE r.pass
BY DEF Counted, IntervalSet

\* ... and with one more decision.
LEMMA FollowIs ==
  ASSUME NEW r \in IntervalSet, NEW rest
  PROVE  LET d == Follow(r, rest)
         IN  /\ d.chosen = r.current /\ d.out = "running" /\ d.read = read_schedule
             /\ d.synchro = startSynchro /\ d.intervals = rest
             /\ d.rel \in IntervalSet
             /\ d.rel.current = r.current /\ d.rel.max = r.max
             /\ d.rel.addr = r.addr /\ d.rel.signals = r.signals /\ d.rel.pass = r.pass
             /\ d.rel.timesScheduled = r.timesScheduled + 1
BY DEF Follow, IntervalSet

\* The interval of the log after n decisions is one of the schedule.
LEMMA CurrentType ==
  ASSUME NEW L, LogOK(L), L # <<>>, NEW n \in 0..Len(L)
  PROVE  /\ Place(L, n) \in 1..Len(outputRelaxedSchedule(L))
         /\ Current(L, n) \in IntervalSet
         /\ Summary(L)[n] \in Seen
         /\ Len(outputRelaxedSchedule(L)) \in Nat
<1>1. L \in Seq(Info)
  BY DEF LogOK
<1>2. Summary(L)[n] \in Seen
  BY <1>1, SummaryType
<1>3. Len(Summary(L)[n].out) \in Nat
  BY <1>2, LenProperties DEF Seen
<1>4. outputRelaxedSchedule(L) \in Seq(IntervalSet)
  BY <1>1, FullType
<1>5. Len(outputRelaxedSchedule(L)) \in Nat
  BY <1>4, LenProperties
<1>6. Place(L, n) <= Len(outputRelaxedSchedule(L))
  BY FitsAlways DEF Fits
<1>7. Place(L, n) \in 1..Len(outputRelaxedSchedule(L))
  BY <1>3, <1>5, <1>6 DEF Place
<1>8. QED
  BY <1>2, <1>4, <1>5, <1>7, ElementOfSeq DEF Current

\* The next decision of the log is to schedule a thread at address id.
ChoiceAt(L, n, s, id) ==
  L[n + 1].kind = "SCHED" /\ L[n + 1].chosen \in s.enabled /\ L[n + 1].idaddr = id

\* A stay of the log: the thread goes on in its interval.
LEMMA StayInStep ==
  ASSUME NEW L, LogOK(L), NEW n \in 0..(Len(L) - 1), tracker \in RelaxedTrackers,
         NEW s, NEW r0, NEW rest, GuideRelaxed(L, n, rest, r0, r0.signals),
         NEW id, ChoiceAt(L, n, s, id), IsStay(L[n + 1]), NEW d \in FollowFrom(s, id, r0, rest)
  PROVE  /\ d.chosen = L[n + 1].chosen /\ d.out = "running" /\ d.read = read_schedule
         /\ d.synchro = startSynchro
         /\ GuideRelaxed(L, n + 1, d.intervals, d.rel, d.rel.signals)
<1> DEFINE a == Summary(L)[n]
           b == Summary(L)[n + 1]
           I == Current(L, n)
           r == Counted(r0, id)
<1>0. L[n + 1].chosen \in s.enabled /\ L[n + 1].idaddr = id
  BY DEF ChoiceAt
<1>1. L \in Seq(Info) /\ Len(L) \in Nat /\ n \in Nat /\ L # <<>>
  BY LenProperties, EmptySeq DEF LogOK
<1>2. n \in 0..Len(L) /\ n + 1 \in 0..Len(L) /\ n + 1 \in 1..Len(L) /\ (n + 1) - 1 = n
  BY <1>1
<1>3. Fits(L, n) /\ Fits(L, n + 1)
  BY <1>1, <1>2, FitsAlways
<1>4. /\ Place(L, n + 1) = Place(L, n)
      /\ b = [out |-> a.out, times |-> a.times + 1, seen |-> Append(a.seen, id), signals |-> a.signals]
      /\ a.times + 1 <= I.max
      /\ Visits(a.seen, I.addr) + (IF id = I.addr THEN 1 ELSE 0) <= I.pass
  BY <1>0, <1>3, FitsBefore
<1>5. Current(L, n + 1) = I
  BY <1>4 DEF Current
<1>6. I \in IntervalSet /\ a \in Seen
  BY <1>1, <1>2, CurrentType
<1>7. a.seen \in Seq(Nat) /\ a.times \in Nat /\ I.max \in Nat /\ I.pass \in Int /\ id \in Nat
  <2>1. L[n + 1] \in Info
    BY <1>1, <1>2, ElementOfSeq
  <2>2. QED
    BY <1>0, <1>6, <2>1 DEF Seen, IntervalSet, Info
<1>8. /\ Visits(a.seen, I.addr) \in Nat
      /\ Visits(b.seen, I.addr) = Visits(a.seen, I.addr) + (IF id = I.addr THEN 1 ELSE 0)
  BY <1>4, <1>7, VisitsCount
<1>9. /\ r0 \in IntervalSet
      /\ r0.current = I.current /\ r0.max = I.max /\ r0.addr = I.addr
      /\ r0.timesScheduled = a.times /\ r0.pass = I.pass - Visits(a.seen, I.addr)
  BY DEF GuideRelaxed
<1>10. I.current = L[n + 1].chosen
  BY <1>1, <1>2, <1>3 DEF Fits, LogOK, IsStay
<1>11. /\ r \in IntervalSet /\ r.current = I.current /\ r.max = I.max /\ r.addr = I.addr
       /\ r.signals = r0.signals /\ r.timesScheduled = a.times
       /\ r.pass = IF id = r0.addr THEN r0.pass - 1 ELSE r0.pass
  BY <1>9, CountedType
<1> DEFINE v == Visits(a.seen, I.addr)
           w == Visits(b.seen, I.addr)
<1> HIDE DEF a, b, I, r, v, w
<1>12. r.pass = I.pass - w /\ ~(r.pass < 0)
  BY <1>0, <1>4, <1>7, <1>8, <1>9, <1>11 DEF v, w
<1>13. ~checkTimesScheduled(r)
  BY <1>4, <1>7, <1>11 DEF checkTimesScheduled
<1>14. ~Leaves(s, r) /\ r.current \in s.enabled
  BY <1>0, <1>10, <1>11, <1>12, <1>13 DEF Leaves
<1>15. s.enabled # {}
  BY <1>14
<1>16. FollowFrom(s, id, r0, rest) = {Follow(r, rest)}
  BY <1>14, <1>15, Zenon DEF FollowFrom, r
<1>17. d = Follow(r, rest)
  BY <1>16
<1>18. /\ d.chosen = r.current /\ d.out = "running" /\ d.read = read_schedule
       /\ d.synchro = startSynchro /\ d.intervals = rest
       /\ d.rel \in IntervalSet
       /\ d.rel.current = r.current /\ d.rel.max = r.max
       /\ d.rel.addr = r.addr /\ d.rel.signals = r.signals /\ d.rel.pass = r.pass
       /\ d.rel.timesScheduled = r.timesScheduled + 1
  BY <1>11, <1>17, FollowIs
<1>19. b.times = a.times + 1 /\ b.signals = a.signals
  BY <1>4
<1>20. GuideRelaxed(L, n + 1, d.intervals, d.rel, d.rel.signals)
  <2>1. /\ r0.signals \in Seq(Thread) /\ Len(r0.signals) = Len(I.signals) - Len(a.signals)
        /\ \A q \in 1..Len(r0.signals) : r0.signals[q] = I.signals[Len(a.signals) + q]
        /\ rest \in Seq(IntervalSet) /\ Len(rest) = Len(outputRelaxedSchedule(L)) - Place(L, n)
        /\ \A q \in 1..Len(rest) : rest[q] = outputRelaxedSchedule(L)[Place(L, n) + q]
    BY DEF GuideRelaxed, a, I
  <2>2. d.rel.signals = r0.signals /\ d.intervals = rest
    BY <1>11, <1>18
  <2>3. /\ d.rel.current = I.current /\ d.rel.max = I.max /\ d.rel.addr = I.addr
        /\ d.rel.timesScheduled = b.times /\ d.rel.pass = I.pass - Visits(b.seen, I.addr)
    BY <1>11, <1>12, <1>18, <1>19 DEF w
  <2>4. QED
    BY <1>4, <1>5, <1>18, <1>19, <2>1, <2>2, <2>3 DEF GuideRelaxed, b
<1>21. QED
  BY <1>10, <1>11, <1>18, <1>20

\* What remains of a sequence after its first element.
LEMMA AfterFirst ==
  ASSUME NEW S, NEW s \in Seq(S), s # <<>>
  PROVE  /\ SubSeq(s, 2, Len(s)) \in Seq(S) /\ Len(SubSeq(s, 2, Len(s))) = Len(s) - 1
         /\ \A q \in 1..(Len(s) - 1) : SubSeq(s, 2, Len(s))[q] = s[q + 1]
<1> DEFINE tail == SubSeq(s, 2, Len(s))
<1>1. Len(s) \in Nat /\ Len(s) >= 1
  BY LenProperties, EmptySeq
<1>2. 2 \in 1..(Len(s) + 1) /\ Len(s) \in 1..Len(s)
  BY <1>1
<1>3. /\ tail \in Seq(S)
      /\ Len(tail) = IF 2 <= Len(s) THEN Len(s) - 2 + 1 ELSE 0
      /\ \A q \in 1..(Len(s) - 2 + 1) : tail[q] = s[2 + q - 1]
  BY <1>2, SubSeqProperties
<1> HIDE DEF tail
<1>4. Len(tail) = Len(s) - 1
  <2> DEFINE n == Len(s)
  <2> HIDE DEF n
  <2>1. n \in Nat /\ n >= 1 /\ Len(tail) = IF 2 <= n THEN n - 2 + 1 ELSE 0
    BY <1>1, <1>3 DEF n
  <2>2. Len(tail) = n - 1
    BY <2>1
  <2>3. QED
    BY <2>2 DEF n
<1>5. ASSUME NEW q \in 1..(Len(s) - 1)
      PROVE  tail[q] = s[q + 1]
  <2>1. q \in 1..(Len(s) - 2 + 1) /\ 2 + q - 1 = q + 1
    BY <1>1
  <2>2. QED
    BY <1>3, <2>1
<1>6. QED
  BY <1>3, <1>4, <1>5 DEF tail

\* A switch of the log: the interval is left at this visit, not at an earlier
\* one, and the next interval is of the thread switched to.
LEMMA SwitchInStep ==
  ASSUME NEW L, LogOK(L), NEW n \in 0..(Len(L) - 1), tracker \in RelaxedTrackers,
         NEW s, NEW r0, NEW rest, GuideRelaxed(L, n, rest, r0, r0.signals),
         NEW id, ChoiceAt(L, n, s, id), IsSwitch(L[n + 1]), NEW d \in FollowFrom(s, id, r0, rest)
  PROVE  /\ d.chosen = L[n + 1].chosen /\ d.out = "running" /\ d.read = read_schedule
         /\ d.synchro = startSynchro
         /\ GuideRelaxed(L, n + 1, d.intervals, d.rel, d.rel.signals)
<1> DEFINE a == Summary(L)[n]
           b == Summary(L)[n + 1]
           full == outputRelaxedSchedule(L)
           I == Current(L, n)
           J == Current(L, n + 1)
           r == Counted(r0, id)
<1>0. L[n + 1].chosen \in s.enabled /\ L[n + 1].idaddr = id
  BY DEF ChoiceAt
<1>1. L \in Seq(Info) /\ Len(L) \in Nat /\ n \in Nat /\ L # <<>>
  BY LenProperties, EmptySeq DEF LogOK
<1>2. n \in 0..Len(L) /\ n + 1 \in 0..Len(L) /\ n + 1 \in 1..Len(L) /\ (n + 1) - 1 = n
  BY <1>1
<1>3. Fits(L, n + 1)
  BY <1>1, <1>2, FitsAlways
<1>4. /\ Place(L, n + 1) = Place(L, n) + 1
      /\ b.times = 1 /\ b.seen = <<>> /\ b.signals = <<>>
      /\ I = Closed(a, L[n + 1])
  BY <1>3, FitsBefore
<1>5. /\ J \in IntervalSet /\ a \in Seen /\ L[n + 1] \in Info
      /\ Place(L, n + 1) \in 1..Len(full) /\ Place(L, n) \in 1..Len(full) /\ Len(full) \in Nat
  BY <1>1, <1>2, CurrentType, ElementOfSeq
<1>6. I.addr = id /\ I.pass = Visits(a.seen, id)
  BY <1>0, <1>4, <1>5, ClosedType
<1>7. J.current = L[n + 1].chosen /\ J.timesScheduled = 0 /\ b.times <= J.max
  BY <1>1, <1>2, <1>3 DEF Fits, Holder, IsSwitch
<1>8. /\ r0 \in IntervalSet /\ r0.addr = I.addr /\ r0.pass = I.pass - Visits(a.seen, I.addr)
      /\ rest \in Seq(IntervalSet) /\ Len(rest) = Len(full) - Place(L, n)
      /\ \A q \in 1..Len(rest) : rest[q] = full[Place(L, n) + q]
  BY DEF GuideRelaxed
<1>9. a.seen \in Seq(Nat)
  BY <1>5 DEF Seen
<1>10. Visits(a.seen, id) \in Nat
  BY <1>9, VisitsCount
<1>11. r.pass = IF id = r0.addr THEN r0.pass - 1 ELSE r0.pass
  BY <1>8, CountedType
<1> DEFINE v == Visits(a.seen, id)
<1> HIDE DEF v, r, a
<1>12. r.pass < 0
  BY <1>6, <1>8, <1>10, <1>11 DEF v
<1>13. FollowFrom(s, id, r0, rest) = regenerate(s, rest, r.signals)
  <2>1. Leaves(s, r)
    BY <1>12 DEF Leaves
  <2>2. QED
    BY <2>1, Zenon DEF FollowFrom, r
<1> HIDE DEF I, full
<1>14. Len(rest) \in Nat /\ 1 \in 1..Len(rest) /\ rest[1] = J /\ DOMAIN rest = 1..Len(rest)
  <2>1. DOMAIN rest = 1..Len(rest) /\ Len(rest) \in Nat
    BY <1>8, LenProperties
  <2>2. 1 \in 1..Len(rest)
    BY <1>4, <1>5, <1>8
  <2>3. J = full[Place(L, n) + 1]
    BY <1>4 DEF Current, full
  <2>4. QED
    BY <1>8, <2>1, <2>2, <2>3
<1> DEFINE on == {i \in DOMAIN rest : rest[i].current \in s.enabled}
           k == IF on = {} THEN Len(rest) + 1 ELSE Lowest(on)
<1>15. 1 \in on
  BY <1>0, <1>7, <1>14
<1>16. k = 1 /\ on # {}
  <2>1. on \in SUBSET Nat /\ on # {}
    BY <1>14, <1>15
  <2>2. Lowest(on) \in on /\ \A u \in on : Lowest(on) <= u
    BY <2>1, LowestIn
  <2>3. Lowest(on) <= 1 /\ Lowest(on) >= 1 /\ Lowest(on) \in Nat
    BY <1>14, <1>15, <2>2
  <2>4. Lowest(on) = 1
    BY <2>3
  <2>5. QED
    BY <2>1, <2>4
<1>17. J.max # 0 /\ s.enabled # {}
  BY <1>0, <1>4, <1>5, <1>7 DEF IntervalSet
<1> HIDE DEF J
<1>18. regenerate(s, rest, r.signals) = {Follow(J, SubSeq(rest, 2, Len(rest)))}
  <2>1. regenerate(s, rest, r.signals) =
          IF s.enabled = {} THEN Stops("deadlock")
          ELSE IF tracker = "tester" /\ k # 1 THEN Stops("internal")
          ELSE IF on = {}
            THEN noScheduleToFollow(s, IF rest = <<>> THEN r.signals ELSE Last(rest).signals)
          ELSE IF tracker \notin AddrTrackers /\ rest[k].max = 0 THEN Stops("internal")
          ELSE {Follow(rest[k], SubSeq(rest, k + 1, Len(rest)))}
    BY Zenon DEF regenerate
  <2> HIDE DEF on, k
  <2>2. regenerate(s, rest, r.signals) =
          IF tracker \notin AddrTrackers /\ rest[k].max = 0 THEN Stops("internal")
          ELSE {Follow(rest[k], SubSeq(rest, k + 1, Len(rest)))}
    BY <1>16, <1>17, <2>1
  <2>3. k + 1 = 2 /\ rest[k] = J
    BY <1>14, <1>16
  <2>4. QED
    BY <1>17, <2>2, <2>3
<1>19. d = Follow(J, SubSeq(rest, 2, Len(rest)))
  BY <1>13, <1>18
<1>20. J \in IntervalSet
  BY <1>5 DEF J
<1> DEFINE tail == SubSeq(rest, 2, Len(rest))
<1>21. /\ d.chosen = J.current /\ d.out = "running" /\ d.read = read_schedule
       /\ d.synchro = startSynchro /\ d.intervals = tail
       /\ d.rel \in IntervalSet
       /\ d.rel.current = J.current /\ d.rel.max = J.max
       /\ d.rel.addr = J.addr /\ d.rel.signals = J.signals /\ d.rel.pass = J.pass
       /\ d.rel.timesScheduled = J.timesScheduled + 1
  BY <1>19, <1>20, FollowIs
<1>22. /\ tail \in Seq(IntervalSet) /\ Len(tail) = Len(rest) - 1
       /\ \A q \in 1..Len(tail) : tail[q] = rest[q + 1]
  <2>1. rest # <<>>
    BY <1>14
  <2>2. QED
    BY <1>8, <2>1, AfterFirst
<1> HIDE DEF tail
<1>23. /\ Len(tail) = Len(full) - Place(L, n + 1)
       /\ \A q \in 1..Len(tail) : tail[q] = full[Place(L, n + 1) + q]
  <2>1. Len(tail) = Len(full) - Place(L, n + 1)
    BY <1>4, <1>5, <1>8, <1>22
  <2>2. ASSUME NEW q \in 1..Len(tail)
        PROVE  tail[q] = full[Place(L, n + 1) + q]
    <3>1. q + 1 \in 1..Len(rest) /\ Place(L, n) + (q + 1) = Place(L, n + 1) + q
      BY <1>4, <1>5, <1>14, <1>22
    <3>2. QED
      BY <1>8, <1>22, <3>1
  <2>3. QED
    BY <2>1, <2>2
<1>24. /\ J.signals \in Seq(Thread) /\ Len(J.signals) = Len(J.signals) - Len(b.signals)
       /\ \A q \in 1..Len(J.signals) : J.signals[q] = J.signals[Len(b.signals) + q]
  <2>1. J.signals \in Seq(Thread) /\ Len(b.signals) = 0
    BY <1>4, <1>20 DEF IntervalSet
  <2>2. Len(J.signals) \in Nat
    BY <2>1, LenProperties
  <2>3. QED
    BY <2>1, <2>2
<1>25. J.pass = J.pass - Visits(b.seen, J.addr)
  <2>1. Visits(b.seen, J.addr) = 0
    BY <1>4, VisitsCount, EmptySeq
  <2>2. J.pass \in Int
    BY <1>20 DEF IntervalSet
  <2>3. QED
    BY <2>1, <2>2
<1>26. J.timesScheduled + 1 = b.times
  BY <1>4, <1>7 DEF J
<1>27. GuideRelaxed(L, n + 1, d.intervals, d.rel, d.rel.signals)
  BY <1>21, <1>22, <1>23, <1>24, <1>25, <1>26 DEF GuideRelaxed, full, J
<1>28. QED
  BY <1>7, <1>21, <1>27 DEF J

\* The end of a log that stops in a deadlock: nobody is enabled, and whatever
\* the tracker does with its last interval it reports the deadlock.
LEMMA DeadlockInStep ==
  ASSUME NEW L, LogOK(L), L # <<>>, tracker \in RelaxedTrackers,
         NEW s, s.enabled = {}, NEW id, NEW r0, NEW rest, GuideRelaxed(L, Len(L), rest, r0, r0.signals),
         NEW d \in FollowFrom(s, id, r0, rest)
  PROVE  d.out = "deadlock" /\ d.read = read_schedule
<1> DEFINE a == Summary(L)[Len(L)]
           r == Counted(r0, id)
<1>1. r0 \in IntervalSet /\ r0.max = a.times /\ r0.timesScheduled = a.times
  BY FitsLast DEF GuideRelaxed
<1>2. r.max = r.timesScheduled
  BY <1>1, CountedType
<1>3. CASE Leaves(s, r)
  <2>1. FollowFrom(s, id, r0, rest) = regenerate(s, rest, r.signals)
    BY <1>3, Zenon DEF FollowFrom
  <2>2. regenerate(s, rest, r.signals) = Stops("deadlock")
    BY Zenon DEF regenerate
  <2>3. QED
    BY <2>1, <2>2 DEF Stops
<1>4. CASE ~Leaves(s, r)
  <2>1. tracker # "tester"
    <3>1. tracker = "tester" => checkTimesScheduled(r)
      <4> HIDE DEF r
      <4> QED
        BY <1>2 DEF checkTimesScheduled, AddrTrackers
    <3>2. ~checkTimesScheduled(r)
      BY <1>4, Zenon DEF Leaves
    <3>3. QED
      BY <3>1, <3>2
  <2>2. FollowFrom(s, id, r0, rest) = Stops("deadlock")
    BY <1>4, <2>1, Zenon DEF FollowFrom
  <2>3. QED
    BY <2>2 DEF Stops
<1>5. QED
  BY <1>3, <1>4

\* A signal of the log: the next signal of the interval is its target.
LEMMA RelaxedSignalInStep ==
  ASSUME NEW L, LogOK(L), NEW n \in 0..(Len(L) - 1), tracker \in RelaxedTrackers,
         NEW waiting, GuideRelaxed(L, n, relaxed_schedule, rel, rel.signals),
         L[n + 1].kind = "SIGNAL", L[n + 1].chosen \in waiting,
         NEW c \in signalChoices(waiting)
  PROVE  /\ c.target = L[n + 1].chosen /\ c.read = read_schedule
         /\ GuideRelaxed(L, n + 1, relaxed_schedule, rel, c.signals)
<1> DEFINE a == Summary(L)[n]
           b == Summary(L)[n + 1]
           I == Current(L, n)
           sigs == rel.signals
           usable == {i \in DOMAIN rel.signals : rel.signals[i] \in waiting}
           k == IF tracker \in AddrTrackers THEN Lowest(usable) ELSE 1
<1>1. L \in Seq(Info) /\ Len(L) \in Nat /\ n \in Nat /\ L # <<>>
  BY LenProperties, EmptySeq DEF LogOK
<1>2. n \in 0..Len(L) /\ n + 1 \in 0..Len(L)
  BY <1>1
<1>3. Fits(L, n + 1)
  BY <1>1, <1>2, FitsAlways
<1>4. /\ Place(L, n + 1) = Place(L, n)
      /\ b = [out |-> a.out, times |-> a.times, seen |-> a.seen,
              signals |-> Append(a.signals, L[n + 1].chosen)]
      /\ Len(a.signals) + 1 <= Len(I.signals)
      /\ I.signals[Len(a.signals) + 1] = L[n + 1].chosen
  BY <1>3, FitsBefore
<1>5. Current(L, n + 1) = I
  BY <1>4 DEF Current
<1>6. I \in IntervalSet /\ a \in Seen
  BY <1>1, <1>2, CurrentType
<1>7. /\ a.signals \in Seq(Thread) /\ Len(a.signals) \in Nat /\ Len(I.signals) \in Nat
      /\ L[n + 1] \in Info
  BY <1>1, <1>6, LenProperties, ElementOfSeq DEF Seen, IntervalSet
<1>8. Len(b.signals) = Len(a.signals) + 1 /\ b.times = a.times /\ b.seen = a.seen
  <2>1. L[n + 1].chosen \in Thread
    BY <1>7 DEF Info
  <2>2. QED
    BY <1>4, <1>7, <2>1, AppendProperties
<1>9. /\ sigs \in Seq(Thread) /\ Len(sigs) = Len(I.signals) - Len(a.signals)
      /\ \A q \in 1..Len(sigs) : sigs[q] = I.signals[Len(a.signals) + q]
  BY DEF GuideRelaxed
<1> HIDE DEF a, b, I, sigs
<1>10. Len(sigs) \in Nat /\ 1 \in 1..Len(sigs) /\ DOMAIN sigs = 1..Len(sigs) /\ sigs # <<>>
  <2>1. Len(sigs) \in Nat /\ DOMAIN sigs = 1..Len(sigs)
    BY <1>9, LenProperties
  <2>2. Len(sigs) >= 1
    BY <1>4, <1>7, <1>9
  <2>3. QED
    BY <1>9, <2>1, <2>2, EmptySeq
<1>11. sigs[1] = L[n + 1].chosen
  BY <1>4, <1>9, <1>10
<1>12. 1 \in usable /\ usable \in SUBSET Nat
  BY <1>10, <1>11 DEF sigs
<1>13. k = 1 /\ usable # {}
  <2>1. Lowest(usable) \in usable /\ \A u \in usable : Lowest(usable) <= u
    BY <1>12, LowestIn
  <2>2. Lowest(usable) \in 1..Len(sigs) /\ Lowest(usable) <= 1
    BY <1>10, <1>12, <2>1 DEF sigs
  <2>3. Lowest(usable) = 1
    BY <1>10, <2>2
  <2>4. QED
    BY <1>12, <2>3
<1>14. signalChoices(waiting) =
         {[target |-> OnCondOrInvalid(sigs[1], waiting), read |-> read_schedule,
           signals |-> SubSeq(sigs, 2, Len(sigs))]}
  <2>1. signalChoices(waiting) =
          IF sigs = <<>> \/ (tracker \in AddrTrackers /\ usable = {})
            THEN {[target |-> t, read |-> read_schedule, signals |-> <<>>] :
                    t \in selectThreadWaitingOnCond(waiting)}
          ELSE {[target |-> OnCondOrInvalid(sigs[k], waiting), read |-> read_schedule,
                 signals |-> SubSeq(sigs, k + 1, Len(sigs))]}
    BY Zenon DEF signalChoices, sigs
  <2> HIDE DEF usable, k
  <2>2. k + 1 = 2
    BY <1>13
  <2>3. QED
    BY <1>10, <1>13, <2>1, <2>2
<1> DEFINE tail == SubSeq(sigs, 2, Len(sigs))
<1>15. /\ c.target = L[n + 1].chosen /\ c.read = read_schedule /\ c.signals = tail
  BY <1>11, <1>14 DEF OnCondOrInvalid
<1>16. /\ tail \in Seq(Thread) /\ Len(tail) = Len(sigs) - 1
       /\ \A q \in 1..Len(tail) : tail[q] = sigs[q + 1]
  BY <1>9, <1>10, AfterFirst
<1> HIDE DEF tail
<1>17. /\ Len(tail) = Len(I.signals) - Len(b.signals)
       /\ \A q \in 1..Len(tail) : tail[q] = I.signals[Len(b.signals) + q]
  <2>1. Len(tail) = Len(I.signals) - Len(b.signals)
    BY <1>7, <1>8, <1>9, <1>16
  <2>2. ASSUME NEW q \in 1..Len(tail)
        PROVE  tail[q] = I.signals[Len(b.signals) + q]
    <3> DEFINE x == Len(a.signals)
               y == Len(b.signals)
               z == Len(sigs)
    <3> HIDE DEF x, y, z
    <3>0. x \in Nat /\ y = x + 1 /\ z \in Nat /\ q \in 1..(z - 1)
      BY <1>7, <1>8, <1>10, <1>16 DEF x, y, z
    <3>1. q + 1 \in 1..z /\ x + (q + 1) = y + q
      BY <3>0
    <3>2. QED
      BY <1>9, <1>16, <3>1 DEF x, y, z
  <2>3. QED
    BY <2>1, <2>2
<1>18. GuideRelaxed(L, n + 1, relaxed_schedule, rel, c.signals)
  <2>1. /\ rel \in IntervalSet
        /\ rel.current = I.current /\ rel.max = I.max /\ rel.addr = I.addr
        /\ rel.timesScheduled = a.times
        /\ rel.pass = I.pass - Visits(a.seen, I.addr)
        /\ relaxed_schedule \in Seq(IntervalSet)
        /\ Len(relaxed_schedule) = Len(outputRelaxedSchedule(L)) - Place(L, n)
        /\ \A q \in 1..Len(relaxed_schedule) :
             relaxed_schedule[q] = outputRelaxedSchedule(L)[Place(L, n) + q]
    BY DEF GuideRelaxed, a, I
  <2>2. QED
    BY <1>4, <1>5, <1>8, <1>15, <1>16, <1>17, <2>1 DEF GuideRelaxed, b
<1>19. QED
  BY <1>15, <1>18

-----------------------------------------------------------------------------
(***************************************************************************)
(* Any tracker in step with the log after n decisions: read, intervals, r  *)
(* and sigs are what it still has to follow.                               *)
(***************************************************************************)
LogTrackers == {"default", "strict"}

\* RelaxedTracker and TesterTracker take their first interval at the first
\* decision.
NotBegun(L, n, intervals, r) ==
  /\ tracker \in {"relaxed", "tester"}
  /\ n = 0 /\ r = NoInterval /\ intervals = outputRelaxedSchedule(L)

Guide(L, n, read, intervals, r, sigs) ==
  \/ /\ tracker \in RelaxedTrackers /\ read = <<>>
     /\ NotBegun(L, n, intervals, r) \/ GuideRelaxed(L, n, intervals, r, sigs)
  \/ /\ tracker \in LogTrackers
     /\ read \in Seq(Info) /\ n + Len(read) <= Len(L)
     /\ \A q \in 1..Len(read) : read[q] = L[n + q]
     /\ ~edited => n + Len(read) = Len(L)

\* The first interval, before any decision.
LEMMA GuideBegins ==
  ASSUME NEW L, LogOK(L), L # <<>>
  PROVE  LET full == outputRelaxedSchedule(L)
         IN  /\ full # <<>> /\ Head(full) \in IntervalSet
             /\ GuideRelaxed(L, 0, Tail(full), Head(full), Head(full).signals)
<1> DEFINE full == outputRelaxedSchedule(L)
           I == Current(L, 0)
           a == Summary(L)[0]
<1>1. L \in Seq(Info) /\ Len(L) \in Nat /\ 0 \in 0..Len(L)
  BY LenProperties DEF LogOK
<1>2. a = NothingSeen
  BY <1>1, SummaryIs
<1>3. full \in Seq(IntervalSet)
  BY <1>1, FullType
<1>4. Place(L, 0) \in 1..Len(full) /\ I \in IntervalSet /\ Len(full) \in Nat
  BY <1>1, CurrentType
<1>5. Place(L, 0) = 1 /\ I = full[1]
  BY <1>2 DEF Place, Current, NothingSeen
<1>6. Fits(L, 0)
  BY <1>1, FitsAlways
<1>7. I.timesScheduled = 0
  BY <1>6 DEF Fits
<1>8. a.times = 0 /\ a.seen = <<>> /\ a.signals = <<>>
  BY <1>2 DEF NothingSeen
<1>9. Visits(a.seen, I.addr) = 0
  BY <1>8, VisitsCount, EmptySeq
<1>10. full # <<>> /\ Len(full) >= 1
  BY <1>4, <1>5, EmptySeq
<1>11. /\ Head(full) = full[1] /\ Tail(full) \in Seq(IntervalSet)
       /\ Len(Tail(full)) = Len(full) - 1
       /\ \A q \in 1..Len(Tail(full)) : Tail(full)[q] = full[q + 1]
  <2>1. /\ Head(full) \in IntervalSet /\ Tail(full) \in Seq(IntervalSet)
        /\ Len(Tail(full)) = Len(full) - 1
        /\ \A q \in 1..Len(Tail(full)) : Tail(full)[q] = full[q + 1]
    BY <1>3, <1>10, HeadTailProperties
  <2>2. Head(full) = full[1]
    OBVIOUS
  <2>3. QED
    BY <2>1, <2>2
<1>12. I.pass \in Int /\ I.signals \in Seq(Thread)
  BY <1>4 DEF IntervalSet
<1>13. Len(I.signals) \in Nat
  BY <1>12, LenProperties
<1> HIDE DEF full, I, a
<1>14. I.pass = I.pass - Visits(a.seen, I.addr)
  BY <1>9, <1>12
<1>15. /\ Len(I.signals) = Len(I.signals) - Len(a.signals)
       /\ \A q \in 1..Len(I.signals) : I.signals[q] = I.signals[Len(a.signals) + q]
  BY <1>8, <1>13
<1>16. \A q \in 1..Len(Tail(full)) : Tail(full)[q] = full[Place(L, 0) + q]
  BY <1>4, <1>5, <1>11
<1>17. GuideRelaxed(L, 0, Tail(full), I, I.signals)
  BY <1>4, <1>5, <1>7, <1>8, <1>11, <1>12, <1>14, <1>15, <1>16 DEF GuideRelaxed, full, I, a
<1>18. QED
  BY <1>4, <1>5, <1>10, <1>11, <1>17 DEF full

\* What a relaxed tracker does at a scheduling point, in step.
LEMMA RelaxedFollows ==
  ASSUME NEW L, LogOK(L), L # <<>>, NEW n \in 0..Len(L), tracker \in RelaxedTrackers,
         NEW s, NEW id, NEW sigs,
         \/ NotBegun(L, n, relaxed_schedule, rel)
         \/ GuideRelaxed(L, n, relaxed_schedule, rel, sigs)
  PROVE  \E r0, rest :
           /\ relaxedSchedule(s, id, sigs) = FollowFrom(s, id, r0, rest)
           /\ GuideRelaxed(L, n, rest, r0, r0.signals)
<1>1. CASE NotBegun(L, n, relaxed_schedule, rel)
  <2>1. rel.current = UNKNOWN_THREAD
    BY <1>1 DEF NotBegun, NoInterval
  <2>2. relaxedSchedule(s, id, sigs) =
          FollowFrom(s, id, Head(relaxed_schedule), Tail(relaxed_schedule))
    BY <2>1, RelaxedScheduleIs
  <2>3. GuideRelaxed(L, n, Tail(relaxed_schedule), Head(relaxed_schedule), Head(relaxed_schedule).signals)
    BY <1>1, GuideBegins DEF NotBegun
  <2>4. QED
    BY <2>2, <2>3
<1>2. CASE GuideRelaxed(L, n, relaxed_schedule, rel, sigs)
  <2> DEFINE r0 == [rel EXCEPT !.signals = sigs]
  <2>1. rel \in IntervalSet /\ sigs \in Seq(Thread)
    BY <1>2 DEF GuideRelaxed
  <2>2. rel.current # UNKNOWN_THREAD
    BY <2>1, ProgramAssumption DEF IntervalSet, Thread, UNKNOWN_THREAD
  <2>3. relaxedSchedule(s, id, sigs) = FollowFrom(s, id, r0, relaxed_schedule)
    BY <2>2, RelaxedScheduleIs
  <2>4. /\ r0 \in IntervalSet /\ r0.current = rel.current /\ r0.max = rel.max /\ r0.addr = rel.addr
        /\ r0.pass = rel.pass /\ r0.timesScheduled = rel.timesScheduled /\ r0.signals = sigs
    BY <2>1 DEF IntervalSet
  <2> HIDE DEF r0
  <2>5. GuideRelaxed(L, n, relaxed_schedule, r0, r0.signals)
    BY <1>2, <2>4 DEF GuideRelaxed
  <2>6. QED
    BY <2>3, <2>5
<1>3. QED
  BY <1>1, <1>2

\* A schedule choice of the log is the decision of every tracker in step.
LEMMA DecisionInStep ==
  ASSUME NEW L, LogOK(L), NEW n \in 0..(Len(L) - 1), NEW s, NEW read, NEW sigs,
         Guide(L, n, read, relaxed_schedule, rel, sigs),
         tracker \in RelaxedTrackers => read_schedule = read,
         tracker \in RelaxedTrackers \/ read # <<>>,
         NEW id, ChoiceAt(L, n, s, id), NEW d \in DecisionsAt(s, id, read, sigs)
  PROVE  /\ d.chosen = L[n + 1].chosen /\ d.out = "running"
         /\ Guide(L, n + 1, d.read, d.intervals, d.rel, d.rel.signals)
<1>1. L \in Seq(Info) /\ Len(L) \in Nat /\ n \in Nat /\ L # <<>>
  BY LenProperties, EmptySeq DEF LogOK
<1>2. n \in 0..Len(L)
  BY <1>1
<1>3. CASE tracker \in RelaxedTrackers
  <2>1. NotBegun(L, n, relaxed_schedule, rel) \/ GuideRelaxed(L, n, relaxed_schedule, rel, sigs)
    BY <1>3 DEF Guide, RelaxedTrackers, LogTrackers
  <2>2. d \in relaxedSchedule(s, id, sigs)
    BY <1>3 DEF DecisionsAt
  <2>3. PICK r0, rest :
          /\ relaxedSchedule(s, id, sigs) = FollowFrom(s, id, r0, rest)
          /\ GuideRelaxed(L, n, rest, r0, r0.signals)
    BY <1>1, <1>2, <1>3, <2>1, RelaxedFollows
  <2>4. d \in FollowFrom(s, id, r0, rest)
    BY <2>2, <2>3
  <2>5. IsStay(L[n + 1]) \/ IsSwitch(L[n + 1])
    BY DEF IsStay, IsSwitch, ChoiceAt
  <2>6. /\ d.chosen = L[n + 1].chosen /\ d.out = "running" /\ d.read = read_schedule
        /\ GuideRelaxed(L, n + 1, d.intervals, d.rel, d.rel.signals)
    <3>1. CASE IsStay(L[n + 1])
      BY <1>3, <2>3, <2>4, <3>1, StayInStep
    <3>2. CASE IsSwitch(L[n + 1])
      BY <1>3, <2>3, <2>4, <3>2, SwitchInStep
    <3>3. QED
      BY <2>5, <3>1, <3>2
  <2>7. read = <<>>
    BY <1>3 DEF Guide, RelaxedTrackers, LogTrackers
  <2>8. QED
    BY <1>3, <2>6, <2>7 DEF Guide
<1>4. CASE tracker \notin RelaxedTrackers
  <2>1. /\ tracker \in LogTrackers /\ read \in Seq(Info) /\ n + Len(read) <= Len(L)
        /\ \A q \in 1..Len(read) : read[q] = L[n + q]
        /\ ~edited => n + Len(read) = Len(L)
    BY <1>4 DEF Guide
  <2>2. read # <<>>
    BY <1>4
  <2>3. /\ Tail(read) \in Seq(Info) /\ Len(Tail(read)) = Len(read) - 1
        /\ \A q \in 1..Len(Tail(read)) : Tail(read)[q] = read[q + 1]
        /\ Len(read) \in Nat /\ Len(read) >= 1
    BY <2>1, <2>2, HeadTailProperties, LenProperties, EmptySeq
  <2>4. Head(read) = L[n + 1]
    <3>1. Head(read) = read[1]
      OBVIOUS
    <3>2. 1 \in 1..Len(read)
      BY <2>3
    <3>3. QED
      BY <2>1, <3>1, <3>2
  <2>5. d \in schedule_op(s, id, read)
    BY <1>4 DEF DecisionsAt
  <2>6. d.chosen = L[n + 1].chosen /\ d.out = "running" /\ d.read = Tail(read)
    BY <2>2, <2>4, <2>5 DEF schedule_op, Decision, ChoiceAt
  <2>7. /\ (n + 1) + Len(Tail(read)) <= Len(L)
        /\ ~edited => (n + 1) + Len(Tail(read)) = Len(L)
    BY <1>1, <2>1, <2>3
  <2>8. ASSUME NEW q \in 1..Len(Tail(read))
        PROVE  Tail(read)[q] = L[(n + 1) + q]
    <3>1. q + 1 \in 1..Len(read) /\ n + (q + 1) = (n + 1) + q
      BY <1>1, <2>3
    <3>2. QED
      BY <2>1, <2>3, <3>1
  <2>9. QED
    BY <2>1, <2>3, <2>6, <2>7, <2>8 DEF Guide
<1>5. QED
  BY <1>3, <1>4

\* Where the log stops in a deadlock, every tracker in step reports one.
LEMMA EndInStep ==
  ASSUME NEW L, LogOK(L), L # <<>>, NEW s, s.enabled = {}, NEW id, NEW read, NEW sigs,
         Guide(L, Len(L), read, relaxed_schedule, rel, sigs),
         tracker \in RelaxedTrackers => read_schedule = read,
         NEW d \in DecisionsAt(s, id, read, sigs)
  PROVE  d.out = "deadlock" /\ d.read = <<>>
<1>1. Len(L) \in Nat /\ Len(L) \in 0..Len(L)
  BY LenProperties DEF LogOK
<1>2. CASE tracker \in RelaxedTrackers
  <2>1. /\ read = <<>>
        /\ NotBegun(L, Len(L), relaxed_schedule, rel) \/ GuideRelaxed(L, Len(L), relaxed_schedule, rel, sigs)
    BY <1>2 DEF Guide, RelaxedTrackers, LogTrackers
  <2>2. d \in relaxedSchedule(s, id, sigs)
    BY <1>2 DEF DecisionsAt
  <2>3. PICK r0, rest :
          /\ relaxedSchedule(s, id, sigs) = FollowFrom(s, id, r0, rest)
          /\ GuideRelaxed(L, Len(L), rest, r0, r0.signals)
    BY <1>1, <1>2, <2>1, RelaxedFollows
  <2>4. d.out = "deadlock" /\ d.read = read_schedule
    BY <1>2, <2>2, <2>3, DeadlockInStep
  <2>5. QED
    BY <1>2, <2>1, <2>4
<1>3. CASE tracker \notin RelaxedTrackers
  <2>1. read \in Seq(Info) /\ Len(L) + Len(read) <= Len(L)
    BY <1>3 DEF Guide
  <2>2. read = <<>>
    <3>1. Len(read) \in Nat
      BY <2>1, LenProperties
    <3>2. Len(read) = 0
      BY <1>1, <2>1, <3>1
    <3>3. QED
      BY <2>1, <3>2, EmptySeq
  <2>3. d \in pickNextSchedulingChoice(s)
    BY <1>3, <2>2 DEF DecisionsAt, schedule_op
  <2>4. QED
    BY <2>3 DEF pickNextSchedulingChoice, Decision
<1>4. QED
  BY <1>2, <1>3

\* The next decision of the log is whom a signal wakes.
SignalAt(L, n, waiting) == L[n + 1].kind = "SIGNAL" /\ L[n + 1].chosen \in waiting

\* A signal of the log is the choice of every tracker in step.
LEMMA SignalInStep ==
  ASSUME NEW L, LogOK(L), NEW n \in 0..(Len(L) - 1), NEW waiting,
         Guide(L, n, read_schedule, relaxed_schedule, rel, rel.signals),
         tracker \in RelaxedTrackers \/ read_schedule # <<>>,
         SignalAt(L, n, waiting), NEW c \in signalChoices(waiting)
  PROVE  /\ c.target = L[n + 1].chosen
         /\ Guide(L, n + 1, c.read, relaxed_schedule, rel, c.signals)
         /\ tracker \in RelaxedTrackers => read_schedule = c.read
<1>0. L[n + 1].kind = "SIGNAL" /\ L[n + 1].chosen \in waiting
  BY DEF SignalAt
<1>1. L \in Seq(Info) /\ Len(L) \in Nat /\ n \in Nat
  BY LenProperties DEF LogOK
<1>2. CASE tracker \in RelaxedTrackers
  <2>1. /\ read_schedule = <<>>
        /\ \/ NotBegun(L, n, relaxed_schedule, rel)
           \/ GuideRelaxed(L, n, relaxed_schedule, rel, rel.signals)
    BY <1>2 DEF Guide, RelaxedTrackers, LogTrackers
  <2>2. n # 0
    <3>1. L # <<>>
      BY <1>1, EmptySeq
    <3>2. QED
      BY <1>0, <1>1, <3>1 DEF LogOK
  <2>3. GuideRelaxed(L, n, relaxed_schedule, rel, rel.signals)
    BY <2>1, <2>2 DEF NotBegun
  <2>4. /\ c.target = L[n + 1].chosen /\ c.read = read_schedule
        /\ GuideRelaxed(L, n + 1, relaxed_schedule, rel, c.signals)
    BY <1>0, <1>2, <2>3, RelaxedSignalInStep
  <2>5. QED
    BY <1>2, <2>1, <2>4 DEF Guide
<1>3. CASE tracker \notin RelaxedTrackers
  <2> DEFINE read == read_schedule
  <2>1. /\ tracker \in LogTrackers /\ read \in Seq(Info) /\ n + Len(read) <= Len(L)
        /\ \A q \in 1..Len(read) : read[q] = L[n + q]
        /\ ~edited => n + Len(read) = Len(L)
    BY <1>3 DEF Guide
  <2>2. read # <<>>
    BY <1>3
  <2> HIDE DEF read
  <2>3. /\ Tail(read) \in Seq(Info) /\ Len(Tail(read)) = Len(read) - 1
        /\ \A q \in 1..Len(Tail(read)) : Tail(read)[q] = read[q + 1]
        /\ Len(read) \in Nat /\ Len(read) >= 1
    BY <2>1, <2>2, HeadTailProperties, LenProperties, EmptySeq
  <2>4. Head(read) = L[n + 1]
    <3>1. Head(read) = read[1]
      OBVIOUS
    <3>2. 1 \in 1..Len(read)
      BY <2>3
    <3>3. QED
      BY <2>1, <3>1, <3>2
  <2>5. signalChoices(waiting) =
          {[target |-> OnCondOrInvalid(Head(read).chosen, waiting), read |-> Tail(read), signals |-> <<>>]}
    BY <1>3, <2>2 DEF signalChoices, read
  <2>6. c.target = L[n + 1].chosen /\ c.read = Tail(read)
    BY <1>0, <2>4, <2>5 DEF OnCondOrInvalid
  <2>7. /\ (n + 1) + Len(Tail(read)) <= Len(L)
        /\ ~edited => (n + 1) + Len(Tail(read)) = Len(L)
    BY <1>1, <2>1, <2>3
  <2>8. ASSUME NEW q \in 1..Len(Tail(read))
        PROVE  Tail(read)[q] = L[(n + 1) + q]
    <3>1. q + 1 \in 1..Len(read) /\ n + (q + 1) = (n + 1) + q
      BY <1>1, <2>3
    <3>2. QED
      BY <2>1, <2>3, <3>1
  <2>9. QED
    BY <1>3, <2>1, <2>3, <2>6, <2>7, <2>8 DEF Guide
<1>4. QED
  BY <1>2, <1>3

-----------------------------------------------------------------------------
(***************************************************************************)
(* The path of a recording: the configurations of the program between its  *)
(* steps, each with the number of decisions logged before it.              *)
(***************************************************************************)
Config(s, c, n) == [st |-> s, cur |-> c, n |-> n]

\* What thread c, with the baton, does next in state s: it passes a memory
\* access, or comes to a scheduling point that signals no one.  The others are
\* a signal (SignalTargets is not empty), the end and a failed assertion.
PassesHere(s, c, all) == NextOp(s, c).op = "mem" /\ ~all

DecidesHere(s, c, all) ==
  /\ ~Ends(s, c) /\ ~Fails(s, c) /\ (NextOp(s, c).op = "mem" => all)
  /\ SignalTargets(s, c) = {}

\* From x, with n decisions logged, y is scheduled by decision n + 1 of L.
Scheduled(x, y, sig, n, L) ==
  /\ y.st = Run(x.st, x.cur, sig) /\ y.n = n + 1
  /\ y.cur \in y.st.enabled
  /\ L[n + 1] = ScheduleDecisionInfo(y.cur, x.cur, NextOp(x.st, x.cur).at)

StepsTo(x, y, L, all) ==
  \/ /\ PassesHere(x.st, x.cur, all)
     /\ y.st = Run(x.st, x.cur, INVALID_THREAD) /\ y.cur = x.cur /\ y.n = x.n
  \/ DecidesHere(x.st, x.cur, all) /\ Scheduled(x, y, INVALID_THREAD, x.n, L)
  \/ \E t \in SignalTargets(x.st, x.cur) :
       /\ L[x.n + 1] = SignalDecisionInfo(t, x.cur, NextOp(x.st, x.cur).at)
       /\ Scheduled(x, y, t, x.n + 1, L)

IsPath(p, k, L, all, prog) ==
  /\ k \in Nat
  /\ p[0].st = Initial(prog) /\ p[0].cur = Main /\ p[0].n = 0
  /\ \A i \in 0..k : p[i].n \in 0..Len(L)
  /\ \A i \in 0..(k - 1) : StepsTo(p[i], p[i + 1], L, all)

PathTo(s, c, L, all) ==
  \E p, k : /\ IsPath(p, k, L, all, s.prog)
            /\ p[k].st = s /\ p[k].cur = c /\ p[k].n = Len(L)

\* How the recording f stopped at x.
Stopped(x, f) ==
  \/ Ends(x.st, x.cur) /\ f.outcome = "end_log" /\ f.st = x.st
  \/ Fails(x.st, x.cur) /\ f.outcome = "program assert" /\ f.st = x.st
  \/ /\ DecidesHere(x.st, x.cur, f.all) /\ f.outcome = "deadlock"
     /\ f.st = Run(x.st, x.cur, INVALID_THREAD) /\ f.st.enabled = {}

Recording(f, p, k) ==
  /\ LogOK(f.schedule) /\ IsPath(p, k, f.schedule, f.all, f.st.prog)
  /\ p[k].n = Len(f.schedule) /\ Stopped(p[k], f)

\* A thread does one of these things next, and only one.
LEMMA OneKind ==
  ASSUME NEW s, NEW c, NEW all
  PROVE  /\ PassesHere(s, c, all) =>
              ~Ends(s, c) /\ ~Fails(s, c) /\ SignalTargets(s, c) = {} /\ ~DecidesHere(s, c, all)
         /\ SignalTargets(s, c) # {} => ~Ends(s, c) /\ ~Fails(s, c) /\ ~DecidesHere(s, c, all)
         /\ Ends(s, c) => ~Fails(s, c) /\ ~DecidesHere(s, c, all)
         /\ Fails(s, c) => ~DecidesHere(s, c, all)
BY DEF PassesHere, DecidesHere, Ends, Fails, SignalTargets

\* The path of a process that has just started.
LEMMA PathBegins ==
  ASSUME NEW prog, NEW all
  PROVE  PathTo(Initial(prog), Main, <<>>, all)
<1> DEFINE p == [i \in 0..0 |-> Config(Initial(prog), Main, 0)]
<1>1. p[0].st = Initial(prog) /\ p[0].cur = Main /\ p[0].n = 0
  BY DEF Config
<1>2. Initial(prog).prog = prog
  BY InitialSane
<1>3. Len(<<>>) = 0
  BY EmptySeq
<1> HIDE DEF p
<1>4. \A i \in 0..0 : p[i].n \in 0..Len(<<>>)
  <2>1. \A i \in 0..0 : i = 0
    OBVIOUS
  <2>2. 0 \in 0..Len(<<>>)
    BY <1>3
  <2>3. QED
    BY <1>1, <2>1, <2>2
<1>5. \A i \in 0..(0 - 1) : StepsTo(p[i], p[i + 1], <<>>, all)
  OBVIOUS
<1>6. IsPath(p, 0, <<>>, all, prog)
  BY <1>1, <1>4, <1>5 DEF IsPath
<1>7. QED
  BY <1>1, <1>2, <1>3, <1>6 DEF PathTo

\* A longer log determines the same steps.
LEMMA SameSteps ==
  ASSUME NEW L \in Seq(Info), NEW M \in Seq(Info), Len(L) <= Len(M),
         \A q \in 1..Len(L) : M[q] = L[q],
         NEW x, NEW y, NEW all, x.n \in 0..Len(L), y.n \in 0..Len(L), StepsTo(x, y, L, all)
  PROVE  StepsTo(x, y, M, all)
<1>1. Len(L) \in Nat /\ x.n \in Nat
  BY LenProperties
<1>2. CASE /\ PassesHere(x.st, x.cur, all)
           /\ y.st = Run(x.st, x.cur, INVALID_THREAD) /\ y.cur = x.cur /\ y.n = x.n
  BY <1>2 DEF StepsTo
<1>3. CASE DecidesHere(x.st, x.cur, all) /\ Scheduled(x, y, INVALID_THREAD, x.n, L)
  <2>1. x.n + 1 \in 1..Len(L)
    BY <1>1, <1>3 DEF Scheduled
  <2>2. M[x.n + 1] = L[x.n + 1]
    BY <2>1
  <2>3. Scheduled(x, y, INVALID_THREAD, x.n, M)
    BY <1>3, <2>2 DEF Scheduled
  <2>4. QED
    BY <1>3, <2>3 DEF StepsTo
<1>4. ASSUME NEW t \in SignalTargets(x.st, x.cur),
             L[x.n + 1] = SignalDecisionInfo(t, x.cur, NextOp(x.st, x.cur).at),
             Scheduled(x, y, t, x.n + 1, L)
      PROVE  StepsTo(x, y, M, all)
  <2>1. x.n + 1 \in 1..Len(L) /\ (x.n + 1) + 1 \in 1..Len(L)
    BY <1>1, <1>4 DEF Scheduled
  <2>2. M[x.n + 1] = L[x.n + 1] /\ M[(x.n + 1) + 1] = L[(x.n + 1) + 1]
    BY <2>1
  <2>3. Scheduled(x, y, t, x.n + 1, M)
    BY <1>4, <2>2 DEF Scheduled
  <2>4. QED
    BY <1>4, <2>2, <2>3 DEF StepsTo
<1>5. QED
  BY <1>2, <1>3, <1>4 DEF StepsTo

\* One more step of a recording.
LEMMA PathGrows ==
  ASSUME NEW L \in Seq(Info), NEW M \in Seq(Info), Len(L) <= Len(M),
         \A q \in 1..Len(L) : M[q] = L[q],
         NEW s, NEW c, NEW all, PathTo(s, c, L, all),
         NEW r, NEW e, r.prog = s.prog,
         StepsTo(Config(s, c, Len(L)), Config(r, e, Len(M)), M, all)
  PROVE  PathTo(r, e, M, all)
<1> DEFINE y == Config(r, e, Len(M))
<1>1. PICK p, k : /\ IsPath(p, k, L, all, s.prog)
                  /\ p[k].st = s /\ p[k].cur = c /\ p[k].n = Len(L)
  BY DEF PathTo
<1> DEFINE P == [i \in 0..(k + 1) |-> IF i = k + 1 THEN y ELSE p[i]]
<1>2. Len(L) \in Nat /\ Len(M) \in Nat /\ k \in Nat
  BY <1>1, LenProperties DEF IsPath
<1>3. P[k + 1] = y /\ \A i \in 0..k : P[i] = p[i]
  BY <1>2
<1>4. y.st = r /\ y.cur = e /\ y.n = Len(M)
  BY DEF Config
<1> HIDE DEF P, y
<1>5. \A i \in 0..k : p[i].n \in 0..Len(L)
  BY <1>1 DEF IsPath
<1>6. ASSUME NEW i \in 0..(k + 1)
      PROVE  P[i].n \in 0..Len(M)
  <2>1. CASE i = k + 1
    <3>1. Len(M) \in 0..Len(M)
      BY <1>2
    <3>2. QED
      BY <1>3, <1>4, <2>1, <3>1
  <2>2. CASE i # k + 1
    <3>1. i \in 0..k
      BY <1>2, <2>2
    <3>2. p[i].n \in 0..Len(L)
      BY <1>5, <3>1
    <3>3. p[i].n \in 0..Len(M)
      BY <1>2, <3>2
    <3>4. QED
      BY <1>3, <3>1, <3>3
  <2>3. QED
    BY <2>1, <2>2
<1>7. ASSUME NEW i \in 0..((k + 1) - 1)
      PROVE  StepsTo(P[i], P[i + 1], M, all)
  <2>1. CASE i = k
    <3>1. StepsTo(Config(s, c, Len(L)), y, M, all)
      BY DEF y
    <3>2. Config(s, c, Len(L)).st = p[k].st /\ Config(s, c, Len(L)).cur = p[k].cur
          /\ Config(s, c, Len(L)).n = p[k].n
      BY <1>1 DEF Config
    <3>3. StepsTo(p[k], y, M, all)
      BY <3>1, <3>2 DEF StepsTo, Scheduled
    <3>4. P[k] = p[k] /\ P[i + 1] = y
      BY <1>2, <1>3, <2>1
    <3>5. QED
      BY <2>1, <3>3, <3>4
  <2>2. CASE i # k
    <3>1. i \in 0..k /\ i + 1 \in 0..k /\ i \in 0..(k - 1)
      BY <1>2, <2>2
    <3>2. StepsTo(p[i], p[i + 1], L, all) /\ p[i].n \in 0..Len(L) /\ p[i + 1].n \in 0..Len(L)
      BY <1>1, <1>5, <3>1 DEF IsPath
    <3>3. StepsTo(p[i], p[i + 1], M, all)
      BY <3>2, SameSteps
    <3>4. QED
      BY <1>3, <3>1, <3>3
  <2>3. QED
    BY <2>1, <2>2
<1>8. P[0].st = Initial(r.prog) /\ P[0].cur = Main /\ P[0].n = 0
  <2>1. P[0] = p[0]
    BY <1>2, <1>3
  <2>2. QED
    BY <1>1, <2>1 DEF IsPath
<1>9. k + 1 \in Nat
  BY <1>2
<1>10. IsPath(P, k + 1, M, all, r.prog)
  BY <1>6, <1>7, <1>8, <1>9 DEF IsPath
<1>11. QED
  BY <1>3, <1>4, <1>10 DEF PathTo

\* What a replay that is at configuration j of the path does next, the
\* recording did, or it stopped there.  The end of the program:
LEMMA ForcedEnd ==
  ASSUME NEW f, NEW p, NEW k, Recording(f, p, k), NEW j \in 0..k, 
         Ends(p[j].st, p[j].cur) \/ Fails(p[j].st, p[j].cur)
  PROVE  /\ j = k /\ f.st = p[j].st
         /\ Ends(p[j].st, p[j].cur) => f.outcome = "end_log"
         /\ Fails(p[j].st, p[j].cur) => f.outcome = "program assert"
<1>1. k \in Nat
  BY DEF Recording, IsPath
<1>2. CASE j = k
  <2>1. Stopped(p[j], f)
    BY <1>2 DEF Recording
  <2>2. QED
    BY <1>2, <2>1, OneKind DEF Stopped
<1>3. CASE j # k
  <2>1. j \in 0..(k - 1) /\ j + 1 \in 0..k
    BY <1>1, <1>3
  <2>2. StepsTo(p[j], p[j + 1], f.schedule, f.all)
    BY <2>1 DEF Recording, IsPath
  <2>3. QED
    BY <2>1, <2>2, OneKind DEF StepsTo
<1>4. QED
  BY <1>2, <1>3

\* ... a memory access:
LEMMA ForcedPass ==
  ASSUME NEW f, NEW p, NEW k, Recording(f, p, k), NEW j \in 0..k, PassesHere(p[j].st, p[j].cur, f.all)
  PROVE  /\ j + 1 \in 0..k /\ p[j + 1].st = Run(p[j].st, p[j].cur, INVALID_THREAD)
         /\ p[j + 1].cur = p[j].cur /\ p[j + 1].n = p[j].n
<1>1. k \in Nat
  BY DEF Recording, IsPath
<1>2. CASE j = k
  <2>1. Stopped(p[j], f)
    BY <1>2 DEF Recording
  <2>2. QED
    BY <1>2, <2>1, OneKind DEF Stopped
<1>3. CASE j # k
  <2>1. j \in 0..(k - 1) /\ j + 1 \in 0..k
    BY <1>1, <1>3
  <2>2. StepsTo(p[j], p[j + 1], f.schedule, f.all)
    BY <2>1 DEF Recording, IsPath
  <2>3. QED
    BY <2>1, <2>2, OneKind DEF StepsTo
<1>4. QED
  BY <1>2, <1>3

\* ... a scheduling point:
LEMMA ForcedDecision ==
  ASSUME NEW f, NEW p, NEW k, Recording(f, p, k), NEW j \in 0..k, DecidesHere(p[j].st, p[j].cur, f.all)
  PROVE  \/ j + 1 \in 0..k /\ Scheduled(p[j], p[j + 1], INVALID_THREAD, p[j].n, f.schedule)
         \/ /\ j = k /\ f.outcome = "deadlock"
            /\ f.st = Run(p[j].st, p[j].cur, INVALID_THREAD) /\ f.st.enabled = {}
<1>1. k \in Nat
  BY DEF Recording, IsPath
<1>2. CASE j = k
  <2>1. Stopped(p[j], f)
    BY <1>2 DEF Recording
  <2>2. QED
    BY <1>2, <2>1, OneKind DEF Stopped
<1>3. CASE j # k
  <2>1. j \in 0..(k - 1) /\ j + 1 \in 0..k
    BY <1>1, <1>3
  <2>2. StepsTo(p[j], p[j + 1], f.schedule, f.all)
    BY <2>1 DEF Recording, IsPath
  <2>3. QED
    BY <2>1, <2>2, OneKind DEF StepsTo
<1>4. QED
  BY <1>2, <1>3

\* ... a signal:
LEMMA ForcedSignal ==
  ASSUME NEW f, NEW p, NEW k, Recording(f, p, k), NEW j \in 0..k, SignalTargets(p[j].st, p[j].cur) # {}
  PROVE  /\ j + 1 \in 0..k
         /\ \E t \in SignalTargets(p[j].st, p[j].cur) :
              /\ f.schedule[p[j].n + 1] = SignalDecisionInfo(t, p[j].cur, NextOp(p[j].st, p[j].cur).at)
              /\ Scheduled(p[j], p[j + 1], t, p[j].n + 1, f.schedule)
<1>1. k \in Nat
  BY DEF Recording, IsPath
<1>2. CASE j = k
  <2>1. Stopped(p[j], f)
    BY <1>2 DEF Recording
  <2>2. QED
    BY <1>2, <2>1, OneKind DEF Stopped
<1>3. CASE j # k
  <2>1. j \in 0..(k - 1) /\ j + 1 \in 0..k
    BY <1>1, <1>3
  <2>2. StepsTo(p[j], p[j + 1], f.schedule, f.all)
    BY <2>1 DEF Recording, IsPath
  <2>3. QED
    BY <2>1, <2>2, OneKind DEF StepsTo
<1>4. QED
  BY <1>2, <1>3

-----------------------------------------------------------------------------
(***************************************************************************)
(* The log of a recording.                                                 *)
(***************************************************************************)

\* A sequence with one more element.
LEMMA AppendIs ==
  ASSUME NEW S, NEW s \in Seq(S), NEW e \in S
  PROVE  /\ Append(s, e) \in Seq(S) /\ Len(s) \in Nat /\ Len(Append(s, e)) = Len(s) + 1
         /\ Append(s, e)[Len(s) + 1] = e /\ Append(s, e) # <<>>
         /\ \A q \in 1..Len(s) : Append(s, e)[q] = s[q]
<1>1. /\ Append(s, e) \in Seq(S) /\ Len(Append(s, e)) = Len(s) + 1
      /\ Append(s, e)[Len(s) + 1] = e
      /\ \A q \in 1..Len(s) : Append(s, e)[q] = s[q]
  BY AppendProperties
<1>2. Len(s) \in Nat
  BY LenProperties
<1>3. Append(s, e) # <<>>
  <2>1. Len(Append(s, e)) # 0
    BY <1>1, <1>2
  <2>2. QED
    BY <2>1, EmptySeq
<1>4. QED
  BY <1>1, <1>2, <1>3

\* The thread with the baton, up to where two logs agree.
LEMMA HolderSame ==
  ASSUME NEW L, NEW M, NEW n \in Nat, \A q \in 1..n : M[q] = L[q]
  PROVE  Holder(M, n) = Holder(L, n)
<1>1. CASE n = 0
  BY <1>1 DEF Holder
<1>2. CASE n # 0
  <2>1. n \in 1..n
    BY <1>2
  <2>2. QED
    BY <2>1 DEF Holder
<1>3. QED
  BY <1>1, <1>2

\* A schedule choice is logged.
LEMMA LogSchedules ==
  ASSUME NEW L, LogOK(L), NEW d \in Info, d.kind = "SCHED", d.caller = Holder(L, Len(L))
  PROVE  LogOK(Append(L, d)) /\ Holder(Append(L, d), Len(Append(L, d))) = d.chosen
<1> DEFINE M == Append(L, d)
           n == Len(L)
<1>1. L \in Seq(Info)
  BY DEF LogOK
<1>2. /\ M \in Seq(Info) /\ n \in Nat /\ Len(M) = n + 1 /\ M[n + 1] = d /\ M # <<>>
      /\ \A q \in 1..n : M[q] = L[q]
  BY <1>1, AppendIs
<1> HIDE DEF M
<1>3. ASSUME NEW i \in 1..Len(M)
      PROVE  M[i].caller = Holder(M, i - 1)
  <2>1. i - 1 \in Nat /\ (\A q \in 1..(i - 1) : q \in 1..n) /\ (i \in 1..n \/ i = n + 1)
    BY <1>2
  <2>2. Holder(M, i - 1) = Holder(L, i - 1)
    BY <1>2, <2>1, HolderSame
  <2>3. CASE i \in 1..n
    <3>1. L[i].caller = Holder(L, i - 1)
      BY <2>3 DEF LogOK
    <3>2. QED
      BY <1>2, <2>2, <2>3, <3>1
  <2>4. CASE i = n + 1
    <3>1. i - 1 = n
      BY <1>2, <2>4
    <3>2. QED
      BY <1>2, <2>2, <2>4, <3>1
  <2>5. QED
    BY <2>1, <2>3, <2>4
<1>4. M[1].kind = "SCHED"
  <2>1. CASE n = 0
    BY <1>2, <2>1
  <2>2. CASE n # 0
    <3>1. L # <<>> /\ 1 \in 1..n
      BY <1>1, <1>2, <2>2, EmptySeq
    <3>2. QED
      BY <1>2, <3>1 DEF LogOK
  <2>3. QED
    BY <2>1, <2>2
<1>5. M[Len(M)].kind = "SCHED" /\ M[Len(M)].chosen = d.chosen
  BY <1>2
<1>6. Len(M) # 0
  BY <1>2
<1>7. QED
  BY <1>2, <1>3, <1>4, <1>5, <1>6 DEF LogOK, Holder, M

\* A signal and the schedule choice after it are logged.
LEMMA LogSignals ==
  ASSUME NEW L, LogOK(L), L # <<>>,
         NEW g \in Info, g.kind = "SIGNAL", g.caller = Holder(L, Len(L)),
         NEW d \in Info, d.kind = "SCHED", d.caller = g.caller
  PROVE  LET M == Append(Append(L, g), d)
         IN  /\ LogOK(M) /\ Holder(M, Len(M)) = d.chosen
             /\ M \in Seq(Info) /\ Len(M) = (Len(L) + 1) + 1
             /\ M[Len(L) + 1] = g /\ M[(Len(L) + 1) + 1] = d
             /\ \A q \in 1..Len(L) : M[q] = L[q]
<1> DEFINE K == Append(L, g)
           M == Append(K, d)
           n == Len(L)
<1>1. L \in Seq(Info)
  BY DEF LogOK
<1>2. /\ K \in Seq(Info) /\ n \in Nat /\ Len(K) = n + 1 /\ K[n + 1] = g
      /\ \A q \in 1..n : K[q] = L[q]
  BY <1>1, AppendIs
<1> HIDE DEF K
<1>3. /\ M \in Seq(Info) /\ Len(M) = Len(K) + 1 /\ M[Len(K) + 1] = d
      /\ \A q \in 1..Len(K) : M[q] = K[q]
  BY <1>2, AppendIs
<1> HIDE DEF M
<1>4. /\ Len(M) = (n + 1) + 1 /\ M[(n + 1) + 1] = d /\ M[n + 1] = g
      /\ \A q \in 1..n : M[q] = L[q]
  <2>1. n + 1 \in 1..(n + 1) /\ \A q \in 1..n : q \in 1..(n + 1)
    BY <1>2
  <2>2. QED
    BY <1>2, <1>3, <2>1
<1>5. ASSUME NEW i \in 1..Len(M)
      PROVE  M[i].caller = Holder(M, i - 1)
  <2>1. /\ i - 1 \in Nat /\ (i \in 1..n \/ i = n + 1 \/ i = (n + 1) + 1)
        /\ (i # (n + 1) + 1 => \A q \in 1..(i - 1) : q \in 1..n)
    BY <1>2, <1>4
  <2>2. i # (n + 1) + 1 => Holder(M, i - 1) = Holder(L, i - 1)
    BY <1>4, <2>1, HolderSame
  <2>3. CASE i \in 1..n
    <3>1. L[i].caller = Holder(L, i - 1)
      BY <2>3 DEF LogOK
    <3>2. i # (n + 1) + 1
      BY <1>2, <2>3
    <3>3. QED
      BY <1>4, <2>2, <2>3, <3>1, <3>2
  <2>4. CASE i = n + 1
    <3>1. i - 1 = n /\ i # (n + 1) + 1
      BY <1>2, <2>4
    <3>2. QED
      BY <1>4, <2>2, <2>4, <3>1
  <2>5. CASE i = (n + 1) + 1
    <3>1. i - 1 = n + 1 /\ n + 1 # 0
      BY <1>2, <2>5
    <3>2. Holder(M, n + 1) = g.caller
      BY <1>4, <3>1 DEF Holder
    <3>3. QED
      BY <1>4, <2>5, <3>1, <3>2
  <2>6. QED
    BY <2>1, <2>3, <2>4, <2>5
<1>6. M[1].kind = "SCHED" /\ M[Len(M)].kind = "SCHED"
  <2>1. n # 0
    BY <1>1, <1>2, EmptySeq
  <2>2. 1 \in 1..n
    BY <1>2, <2>1
  <2>3. QED
    BY <1>4, <2>2 DEF LogOK
<1>7. Holder(M, Len(M)) = d.chosen
  <2>1. (n + 1) + 1 # 0
    BY <1>2
  <2>2. QED
    BY <1>4, <2>1 DEF Holder
<1>8. LogOK(M)
  BY <1>3, <1>5, <1>6 DEF LogOK
<1>9. QED
  BY <1>3, <1>4, <1>7, <1>8 DEF M, K

-----------------------------------------------------------------------------
(***************************************************************************)
(* A recording, and the log it leaves.                                     *)
(***************************************************************************)
Kept(f) == \E p, k : Recording(f, p, k)

RecordingNow ==
  /\ Sane(st) /\ cur \in st.enabled
  /\ LogOK(schedule) /\ Holder(schedule, Len(schedule)) = cur
  /\ schedule = <<>> => Nobody(st)
  /\ PathTo(st, cur, schedule, scheduleAll)

RecordInv ==
  phase = "record" =>
    /\ tracker = "recorder" /\ read_schedule = <<>>
    /\ st.prog \in Programs /\ outcome # "internal"
    /\ Running => RecordingNow
    /\ ~Running => Kept(file) /\ file.st = st

\* The recorder schedules an enabled thread, or reports a deadlock.
LEMMA RecorderDecides ==
  ASSUME tracker = "recorder", NEW s, NEW id, NEW signals, NEW d \in DecisionsAt(s, id, <<>>, signals)
  PROVE  /\ d.read = <<>>
         /\ \/ d.out = "running" /\ d.chosen \in s.enabled
            \/ d.out = "deadlock" /\ s.enabled = {}
<1>1. d \in pickNextSchedulingChoice(s)
  BY DEF DecisionsAt, schedule_op, RelaxedTrackers
<1>2. CASE s.enabled = {}
  BY <1>1, <1>2 DEF pickNextSchedulingChoice, Decision
<1>3. CASE s.enabled # {}
  <2>1. pickNextSchedulingChoice(s) = {Decision(t, "running", <<>>, startSynchro) : t \in Recordable(s)}
    BY <1>3 DEF pickNextSchedulingChoice
  <2>2. Recordable(s) \subseteq s.enabled
    BY DEF Recordable
  <2>3. QED
    BY <1>1, <2>1, <2>2 DEF Decision
<1>4. QED
  BY <1>2, <1>3

\* ... and lets a signal wake any waiter.
LEMMA RecorderSignals ==
  ASSUME tracker = "recorder", read_schedule = <<>>, NEW waiting, NEW c \in signalChoices(waiting)
  PROVE  c.target \in waiting /\ c.read = <<>>
BY DEF signalChoices, selectThreadWaitingOnCond, RelaxedTrackers, AddrTrackers

\* The log of a recording that stops.
LEMMA RecordStops ==
  ASSUME NEW s, NEW c, NEW L, NEW all, LogOK(L), PathTo(s, c, L, all),
         NEW f, f.all = all, f.schedule = L, f.st.prog = s.prog, Stopped(Config(s, c, Len(L)), f)
  PROVE  Kept(f)
<1>1. PICK p, k : /\ IsPath(p, k, L, all, s.prog)
                  /\ p[k].st = s /\ p[k].cur = c /\ p[k].n = Len(L)
  BY DEF PathTo
<1>2. Config(s, c, Len(L)).st = p[k].st /\ Config(s, c, Len(L)).cur = p[k].cur
  BY <1>1 DEF Config
<1>3. Stopped(p[k], f)
  BY <1>2 DEF Stopped
<1>4. Recording(f, p, k)
  BY <1>1, <1>3 DEF Recording
<1>5. QED
  BY <1>4 DEF Kept

\* The decision d of a recording in state s, after a signal that is logged
\* (log is not schedule) or without one.
LEMMA RecordDecided ==
  ASSUME RecordInv, phase = "record", Running, cur \in Thread,
         NEW s, Sane(s), s.prog = st.prog, NEW d, NEW id, NEW log, Decide(s, d, id, log), d.read = <<>>,
         \/ /\ d.out = "running" /\ d.chosen \in s.enabled
            /\ LET M == Append(log, ScheduleDecisionInfo(d.chosen, cur, id))
               IN  /\ LogOK(M) /\ Holder(M, Len(M)) = d.chosen /\ M # <<>>
                   /\ PathTo(s, d.chosen, M, scheduleAll)
         \/ d.out = "deadlock" /\ Kept([all |-> scheduleAll, schedule |-> log, outcome |-> d.out, st |-> s])
  PROVE  RecordInv'
<1>1. /\ phase' = "record" /\ tracker' = "recorder" /\ read_schedule' = <<>> /\ st' = s
      /\ st'.prog \in Programs /\ outcome' = d.out /\ scheduleAll' = scheduleAll
  BY DEF Decide, RecordInv
<1>2. CASE d.out = "running"
  <2>1. schedule' = Append(log, ScheduleDecisionInfo(d.chosen, cur, id)) /\ cur' = d.chosen
    BY <1>2 DEF Decide
  <2> DEFINE M == Append(log, ScheduleDecisionInfo(d.chosen, cur, id))
  <2>2. /\ LogOK(M) /\ Holder(M, Len(M)) = d.chosen /\ M # <<>> /\ d.chosen \in s.enabled
        /\ PathTo(s, d.chosen, M, scheduleAll)
    BY <1>2
  <2>3. schedule' = M
    BY <2>1
  <2> HIDE DEF M
  <2>4. RecordingNow'
    BY <1>1, <2>1, <2>2, <2>3 DEF RecordingNow
  <2>5. QED
    BY <1>1, <1>2, <2>4 DEF RecordInv, Running
<1>3. CASE d.out = "deadlock"
  <2>1. file' = [all |-> scheduleAll, schedule |-> log, outcome |-> d.out, st |-> s]
    BY <1>3 DEF Decide
  <2>2. Kept(file') /\ file'.st = st'
    BY <1>1, <1>3, <2>1
  <2>3. QED
    BY <1>1, <1>3, <2>2 DEF RecordInv, Running
<1>4. QED
  BY <1>2, <1>3

\* The facts of a recording that runs.
LEMMA RecordFacts ==
  ASSUME RecordInv, phase = "record", Running
  PROVE  /\ tracker = "recorder" /\ read_schedule = <<>> /\ st.prog \in Programs
         /\ Sane(st) /\ cur \in st.enabled /\ cur \in Thread
         /\ LogOK(schedule) /\ Holder(schedule, Len(schedule)) = cur
         /\ schedule = <<>> => Nobody(st)
         /\ PathTo(st, cur, schedule, scheduleAll)
         /\ schedule \in Seq(Info) /\ Len(schedule) \in Nat
<1>1. /\ tracker = "recorder" /\ read_schedule = <<>> /\ st.prog \in Programs
      /\ Sane(st) /\ cur \in st.enabled
      /\ LogOK(schedule) /\ Holder(schedule, Len(schedule)) = cur
      /\ schedule = <<>> => Nobody(st)
      /\ PathTo(st, cur, schedule, scheduleAll)
  BY DEF RecordInv, RecordingNow
<1>2. cur \in Thread
  BY <1>1 DEF Sane, Shaped
<1>3. schedule \in Seq(Info) /\ Len(schedule) \in Nat
  BY <1>1, LenProperties DEF LogOK
<1>4. QED
  BY <1>1, <1>2, <1>3

\* The entries of the log are decisions.
LEMMA InfoIs ==
  ASSUME NEW chosen \in Thread, NEW caller \in Thread, NEW id \in Nat
  PROVE  /\ ScheduleDecisionInfo(chosen, caller, id) \in Info
         /\ ScheduleDecisionInfo(chosen, caller, id).kind = "SCHED"
         /\ ScheduleDecisionInfo(chosen, caller, id).chosen = chosen
         /\ ScheduleDecisionInfo(chosen, caller, id).caller = caller
         /\ ScheduleDecisionInfo(chosen, caller, id).idaddr = id
         /\ SignalDecisionInfo(chosen, caller, id) \in Info
         /\ SignalDecisionInfo(chosen, caller, id).kind = "SIGNAL"
         /\ SignalDecisionInfo(chosen, caller, id).chosen = chosen
         /\ SignalDecisionInfo(chosen, caller, id).caller = caller
BY DEF ScheduleDecisionInfo, SignalDecisionInfo, Info

\* The recording ends.
LEMMA RecordEnds ==
  ASSUME RecordInv, phase = "record", ProgramEnds \/ programAssertFail
  PROVE  RecordInv'
<1>1. Running
  BY DEF ProgramEnds, programAssertFail
<1>2. /\ tracker = "recorder" /\ read_schedule = <<>> /\ st.prog \in Programs
      /\ LogOK(schedule) /\ PathTo(st, cur, schedule, scheduleAll)
  BY <1>1, RecordFacts
<1>3. PICK how : /\ End(how)
                 /\ \/ how = "end_log" /\ Ends(st, cur)
                    \/ how = "program assert" /\ Fails(st, cur)
  BY DEF ProgramEnds, programAssertFail
<1> DEFINE f == [all |-> scheduleAll, schedule |-> schedule, outcome |-> how, st |-> st]
<1>4. /\ file' = f /\ outcome' = how
      /\ phase' = phase /\ tracker' = tracker /\ st' = st /\ read_schedule' = read_schedule
  BY <1>3 DEF End, logVars
<1>5. f.all = scheduleAll /\ f.schedule = schedule /\ f.outcome = how /\ f.st = st
  OBVIOUS
<1> HIDE DEF f
<1>6. Config(st, cur, Len(schedule)).st = st /\ Config(st, cur, Len(schedule)).cur = cur
  BY DEF Config
<1>7. Stopped(Config(st, cur, Len(schedule)), f)
  BY <1>3, <1>5, <1>6 DEF Stopped
<1>8. Kept(f)
  BY <1>2, <1>5, <1>7, RecordStops
<1>9. how # "running" /\ how # "internal"
  BY <1>3
<1>10. QED
  BY <1>2, <1>4, <1>5, <1>8, <1>9 DEF RecordInv, Running

\* A memory access is passed.
LEMMA RecordPasses ==
  ASSUME RecordInv, phase = "record", PassMemory
  PROVE  RecordInv'
<1>1. /\ Running /\ PassesHere(st, cur, scheduleAll) /\ st' = Run(st, cur, INVALID_THREAD)
      /\ phase' = phase /\ tracker' = tracker /\ cur' = cur /\ outcome' = outcome
      /\ schedule' = schedule /\ read_schedule' = read_schedule /\ scheduleAll' = scheduleAll
  BY DEF PassMemory, logVars, SchedulesHere, PassesHere
<1>2. /\ tracker = "recorder" /\ read_schedule = <<>> /\ st.prog \in Programs
      /\ Sane(st) /\ cur \in st.enabled /\ cur \in Thread
      /\ LogOK(schedule) /\ Holder(schedule, Len(schedule)) = cur
      /\ schedule = <<>> => Nobody(st)
      /\ PathTo(st, cur, schedule, scheduleAll)
      /\ schedule \in Seq(Info) /\ Len(schedule) \in Nat
  BY <1>1, RecordFacts
<1>3. Sane(st') /\ st'.prog = st.prog
  BY <1>1, <1>2, RunSane
<1>4. (Nobody(st) => Nobody(st')) /\ cur \in st'.enabled
  BY <1>1, <1>2, MemoryKeeps DEF PassesHere
<1> DEFINE r == Run(st, cur, INVALID_THREAD)
           n == Len(schedule)
<1>5. StepsTo(Config(st, cur, n), Config(r, cur, n), schedule, scheduleAll)
  <2> HIDE DEF n, r
  <2>1. /\ Config(st, cur, n).st = st /\ Config(st, cur, n).cur = cur /\ Config(st, cur, n).n = n
        /\ Config(r, cur, n).st = r /\ Config(r, cur, n).cur = cur /\ Config(r, cur, n).n = n
    BY DEF Config
  <2>2. QED
    BY <1>1, <2>1 DEF StepsTo, r
<1>6. r.prog = st.prog /\ st' = r
  BY <1>1, <1>3
<1> HIDE DEF r
<1>7. PathTo(r, cur, schedule, scheduleAll)
  BY <1>2, <1>5, <1>6, PathGrows
<1>8. RecordingNow'
  BY <1>1, <1>2, <1>3, <1>4, <1>6, <1>7 DEF RecordingNow, Nobody
<1>9. QED
  BY <1>1, <1>2, <1>3, <1>8 DEF RecordInv, Running

\* A scheduling point that signals no one.
LEMMA RecordSchedules ==
  ASSUME RecordInv, phase = "record", SchedulingPoint
  PROVE  RecordInv'
<1> DEFINE s == Run(st, cur, INVALID_THREAD)
           id == NextOp(st, cur).at
           n == Len(schedule)
<1>1. PICK d \in DecisionsAt(s, id, read_schedule, rel.signals) : Decide(s, d, id, schedule)
  BY DEF SchedulingPoint
<1>2. Running /\ DecidesHere(st, cur, scheduleAll)
  BY DEF SchedulingPoint, DecidesHere, SchedulesHere
<1>3. /\ tracker = "recorder" /\ read_schedule = <<>> /\ st.prog \in Programs
      /\ Sane(st) /\ cur \in st.enabled /\ cur \in Thread
      /\ LogOK(schedule) /\ Holder(schedule, Len(schedule)) = cur
      /\ PathTo(st, cur, schedule, scheduleAll)
      /\ schedule \in Seq(Info) /\ n \in Nat
  BY <1>2, RecordFacts
<1>4. Sane(s) /\ s.prog = st.prog
  BY <1>3, RunSane
<1>5. id \in Nat
  BY <1>3, NextOpIs
<1> HIDE DEF s, id, n
<1>6. /\ d.read = <<>>
      /\ \/ d.out = "running" /\ d.chosen \in s.enabled
         \/ d.out = "deadlock" /\ s.enabled = {}
  BY <1>1, <1>3, RecorderDecides
<1>7. /\ Config(st, cur, n).st = st /\ Config(st, cur, n).cur = cur /\ Config(st, cur, n).n = n
  BY DEF Config
<1>8. CASE d.out = "running"
  <2> DEFINE e == ScheduleDecisionInfo(d.chosen, cur, id)
             M == Append(schedule, e)
             y == Config(s, d.chosen, Len(M))
  <2>1. d.chosen \in s.enabled /\ d.chosen \in Thread
    BY <1>4, <1>6, <1>8 DEF Sane, Shaped
  <2>2. e \in Info /\ e.kind = "SCHED" /\ e.chosen = d.chosen /\ e.caller = cur
    BY <1>3, <1>5, <2>1, InfoIs
  <2> HIDE DEF e
  <2>3. /\ M \in Seq(Info) /\ Len(M) = n + 1 /\ M[n + 1] = e /\ M # <<>>
        /\ \A q \in 1..n : M[q] = schedule[q]
    BY <1>3, <2>2, AppendIs DEF n
  <2>4. LogOK(M) /\ Holder(M, Len(M)) = d.chosen
    BY <1>3, <2>2, LogSchedules
  <2> HIDE DEF M
  <2>5. y.st = s /\ y.cur = d.chosen /\ y.n = n + 1
    BY <2>3 DEF Config
  <2> HIDE DEF y
  <2>6. Scheduled(Config(st, cur, n), y, INVALID_THREAD, n, M)
    BY <1>7, <2>1, <2>3, <2>5 DEF Scheduled, s, e, id
  <2>7. StepsTo(Config(st, cur, n), y, M, scheduleAll)
    BY <1>2, <1>7, <2>6 DEF StepsTo
  <2>8. n <= Len(M)
    BY <1>3, <2>3
  <2>9. PathTo(s, d.chosen, M, scheduleAll)
    BY <1>3, <1>4, <2>3, <2>7, <2>8, PathGrows DEF y, n
  <2>10. QED
    BY <1>1, <1>2, <1>3, <1>4, <1>6, <1>8, <2>1, <2>3, <2>4, <2>9, RecordDecided DEF M, e
<1>9. CASE d.out = "deadlock"
  <2> DEFINE f == [all |-> scheduleAll, schedule |-> schedule, outcome |-> d.out, st |-> s]
  <2>1. f.all = scheduleAll /\ f.schedule = schedule /\ f.outcome = "deadlock" /\ f.st = s
    BY <1>9
  <2> HIDE DEF f
  <2>2. s.enabled = {}
    BY <1>6, <1>9
  <2>3. Stopped(Config(st, cur, n), f)
    BY <1>2, <1>7, <2>1, <2>2 DEF Stopped, s
  <2>4. Kept(f)
    BY <1>3, <1>4, <2>1, <2>3, RecordStops DEF n
  <2>5. QED
    BY <1>1, <1>2, <1>3, <1>4, <1>6, <1>9, <2>4, RecordDecided DEF f
<1>10. QED
  BY <1>6, <1>8, <1>9

\* A scheduling point that wakes a waiter: it is not the first one, and it does
\* not end in a deadlock.
LEMMA RecordSignals ==
  ASSUME RecordInv, phase = "record", SignalPoint
  PROVE  RecordInv'
<1> DEFINE W == SignalTargets(st, cur)
           id == NextOp(st, cur).at
           n == Len(schedule)
<1>1. Running /\ W # {}
  BY DEF SignalPoint
<1>2. PICK c \in signalChoices(W) :
        IF c.target = INVALID_THREAD THEN End("internal")
        ELSE \E s \in {Run(st, cur, c.target)} :
             \E d \in DecisionsAt(s, id, c.read, c.signals) :
               Decide(s, d, id, Append(schedule, SignalDecisionInfo(c.target, cur, id)))
  BY DEF SignalPoint
<1>3. /\ tracker = "recorder" /\ read_schedule = <<>> /\ st.prog \in Programs
      /\ Sane(st) /\ cur \in st.enabled /\ cur \in Thread
      /\ LogOK(schedule) /\ Holder(schedule, Len(schedule)) = cur
      /\ schedule = <<>> => Nobody(st)
      /\ PathTo(st, cur, schedule, scheduleAll)
      /\ schedule \in Seq(Info) /\ n \in Nat
  BY <1>1, RecordFacts
<1>4. c.target \in W /\ c.read = <<>>
  BY <1>2, <1>3, RecorderSignals
<1>5. W \in SUBSET Thread
  BY <1>3, TargetsOf
<1>6. c.target \in Thread /\ c.target # INVALID_THREAD
  BY <1>4, <1>5, ProgramAssumption DEF Thread, INVALID_THREAD
<1> DEFINE s == Run(st, cur, c.target)
           g == SignalDecisionInfo(c.target, cur, id)
<1>7. PICK d \in DecisionsAt(s, id, c.read, c.signals) : Decide(s, d, id, Append(schedule, g))
  BY <1>2, <1>6
<1>8. Sane(s) /\ s.prog = st.prog
  BY <1>3, <1>6, RunSane
<1>9. id \in Nat
  BY <1>3, NextOpIs
<1>10. cur \in s.enabled
  BY <1>3, <1>4, SignalEnabled
<1>11. schedule # <<>>
  BY <1>1, <1>3, NobodySignalled
<1>12. g \in Info /\ g.kind = "SIGNAL" /\ g.caller = cur
  BY <1>3, <1>6, <1>9, InfoIs
<1> HIDE DEF s, id, n, W, g
<1>13. d.read = <<>> /\ d.out = "running" /\ d.chosen \in s.enabled
  BY <1>3, <1>4, <1>7, <1>10, RecorderDecides
<1> DEFINE e == ScheduleDecisionInfo(d.chosen, cur, id)
           M == Append(Append(schedule, g), e)
           x == Config(st, cur, n)
           y == Config(s, d.chosen, Len(M))
<1>14. d.chosen \in Thread
  BY <1>8, <1>13 DEF Sane, Shaped
<1>15. e \in Info /\ e.kind = "SCHED" /\ e.chosen = d.chosen /\ e.caller = cur
  BY <1>3, <1>9, <1>14, InfoIs
<1> HIDE DEF e
<1>16. /\ LogOK(M) /\ Holder(M, Len(M)) = e.chosen
       /\ M \in Seq(Info) /\ Len(M) = (n + 1) + 1
       /\ M[n + 1] = g /\ M[(n + 1) + 1] = e
       /\ \A q \in 1..n : M[q] = schedule[q]
  BY <1>3, <1>11, <1>12, <1>15, LogSignals DEF n
<1>17. M # <<>>
  BY <1>3, <1>16, EmptySeq
<1>18. x.st = st /\ x.cur = cur /\ x.n = n /\ y.st = s /\ y.cur = d.chosen /\ y.n = Len(M)
  BY DEF Config
<1> HIDE DEF M, x, y
<1>19. Scheduled(x, y, c.target, n + 1, M)
  BY <1>13, <1>16, <1>18 DEF Scheduled, s, e, id
<1>20. StepsTo(x, y, M, scheduleAll)
  BY <1>4, <1>16, <1>18, <1>19 DEF StepsTo, g, W, id
<1>21. n <= Len(M)
  BY <1>3, <1>16
<1>22. PathTo(s, d.chosen, M, scheduleAll)
  BY <1>3, <1>8, <1>16, <1>20, <1>21, PathGrows DEF x, y, n
<1>23. LogOK(M) /\ Holder(M, Len(M)) = d.chosen
  BY <1>15, <1>16
<1>24. QED
  BY <1>1, <1>3, <1>7, <1>8, <1>13, <1>17, <1>22, <1>23, RecordDecided DEF M, e

-----------------------------------------------------------------------------
(***************************************************************************)
(* A replay.  It follows a log as long as the log lasts, and a relaxed     *)
(* schedule that is not edited to its end.                                 *)
(***************************************************************************)
Copies(s, L, n) == s \in Seq(Info) /\ n \in 0..Len(L) /\ Len(s) = n /\ \A q \in 1..n : s[q] = L[q]

\* The replay is at configuration j of the recording, has logged the first m
\* decisions and has read, sigs and its intervals to follow.
Poised(p, k, j, m, log, read, sigs) ==
  /\ Recording(file, p, k) /\ j \in 0..k /\ st = p[j].st /\ cur = p[j].cur
  /\ Copies(log, file.schedule, m)
  /\ Guide(file.schedule, m, read, relaxed_schedule, rel, sigs)
  /\ tracker \in RelaxedTrackers => read_schedule = read

InStep == \E p, k, j : Poised(p, k, j, p[j].n, schedule, read_schedule, rel.signals)

Follows(read) == ~edited \/ (tracker \in LogTrackers /\ read # <<>>)

Reproduced == outcome = file.outcome /\ st = file.st /\ schedule = file.schedule

\* AddrTracker with any schedule.
AddrOK ==
  /\ Sane(st) /\ st.prog \in Programs /\ cur \in Thread
  /\ rel \in IntervalSet /\ relaxed_schedule \in Seq(IntervalSet)

ReplayInv ==
  phase = "replay" =>
    /\ tracker \in RelaxedTrackers \cup LogTrackers
    /\ tracker = "strict" => ~edited
    /\ tracker \in RelaxedTrackers => read_schedule = <<>>
    /\ scheduleAll = file.all /\ LogOK(file.schedule) /\ file.schedule # <<>>
    /\ Running /\ Follows(read_schedule) => InStep
    /\ ~Running => read_schedule = <<>> /\ (~edited => Reproduced)
    /\ ~edited \/ tracker \in LogTrackers \cup {"addr"} => outcome # "internal"
    /\ tracker = "addr" => AddrOK

\* A copy of the whole log is the log.
LEMMA CopiesAll ==
  ASSUME NEW s, NEW L \in Seq(Info), Copies(s, L, Len(L))
  PROVE  s = L
<1>1. s \in Seq(Info) /\ Len(s) = Len(L) /\ \A q \in 1..Len(s) : s[q] = L[q]
  BY DEF Copies
<1>2. QED
  BY <1>1, SeqEqual

\* One more decision of the log.
LEMMA CopiesGrow ==
  ASSUME NEW s, NEW L, NEW m, Copies(s, L, m), m + 1 \in 0..Len(L), L[m + 1] \in Info
  PROVE  Copies(Append(s, L[m + 1]), L, m + 1)
<1>1. s \in Seq(Info) /\ Len(s) = m /\ \A q \in 1..m : s[q] = L[q]
  BY DEF Copies
<1> DEFINE e == L[m + 1]
           M == Append(s, e)
<1> HIDE DEF e
<1>2. e \in Info
  BY DEF e
<1>3. /\ M \in Seq(Info) /\ m \in Nat /\ Len(M) = m + 1 /\ M[m + 1] = e
      /\ \A q \in 1..m : M[q] = s[q]
  BY <1>1, <1>2, AppendIs
<1> HIDE DEF M
<1>4. ASSUME NEW q \in 1..(m + 1) PROVE M[q] = L[q]
  <2>1. q \in 1..m \/ q = m + 1
    BY <1>3
  <2>2. QED
    BY <1>1, <1>3, <2>1 DEF e
<1>5. Copies(M, L, m + 1)
  BY <1>3, <1>4 DEF Copies
<1>6. QED
  BY <1>5 DEF M, e

\* A relaxed tracker reads no log.
LEMMA RelaxedReads ==
  ASSUME NEW s, NEW id, NEW signals, NEW d \in relaxedSchedule(s, id, signals)
  PROVE  d.read = read_schedule
<1>1. PICK r0, rest : d \in FollowFrom(s, id, r0, rest)
  BY RelaxedScheduleIs
<1> DEFINE r == Counted(r0, id)
<1>2. ASSUME NEW x, NEW y PROVE Follow(x, y).read = read_schedule
  BY DEF Follow
<1>3. ASSUME NEW out, d \in Stops(out) PROVE d.read = read_schedule
  BY <1>3 DEF Stops
<1>4. ASSUME NEW R, NEW g, d \in regenerate(s, R, g) PROVE d.read = read_schedule
  <2>1. \/ \E out : d \in Stops(out)
        \/ \E x, y : d = Follow(x, y)
    BY <1>4 DEF regenerate, noScheduleToFollow
  <2>2. QED
    BY <1>2, <1>3, <2>1
<1>5. \/ d \in regenerate(s, rest, r.signals)
      \/ d \in Stops("deadlock") \/ d \in Stops("internal")
      \/ d = Follow(r, rest)
  BY <1>1, Zenon DEF FollowFrom
<1>6. QED
  BY <1>2, <1>3, <1>4, <1>5

\* The default tracker without a log schedules the lowest enabled thread.
LEMMA DefaultDecides ==
  ASSUME tracker = "default", NEW s, NEW id, NEW signals, NEW d \in DecisionsAt(s, id, <<>>, signals)
  PROVE  d.read = <<>> /\ d.out # "internal"
<1>1. d \in pickNextSchedulingChoice(s)
  BY DEF DecisionsAt, schedule_op, RelaxedTrackers
<1>2. CASE s.enabled = {}
  BY <1>1, <1>2 DEF pickNextSchedulingChoice, Decision
<1>3. CASE s.enabled # {}
  <2>1. pickNextSchedulingChoice(s) = {Decision(Lowest(s.enabled), "running", <<>>, startSynchro)}
    BY <1>3 DEF pickNextSchedulingChoice
  <2>2. QED
    BY <1>1, <2>1 DEF Decision
<1>4. QED
  BY <1>2, <1>3

\* AddrTracker always has a thread to schedule, unless there is a deadlock.
LEMMA AddrDecides ==
  ASSUME tracker = "addr", rel \in IntervalSet, relaxed_schedule \in Seq(IntervalSet),
         NEW s, s.enabled \in SUBSET Thread, NEW id, NEW signals \in Seq(Thread),
         NEW d \in relaxedSchedule(s, id, signals)
  PROVE  /\ d.out # "internal" /\ (d.out = "running" => d.chosen \in Thread)
         /\ d.rel \in IntervalSet /\ d.intervals \in Seq(IntervalSet)
<1> DEFINE r0 == [rel EXCEPT !.signals = signals]
           rest == relaxed_schedule
           r == Counted(r0, id)
<1>1. rel.current # UNKNOWN_THREAD
  BY ProgramAssumption DEF IntervalSet, Thread, UNKNOWN_THREAD
<1>2. d \in FollowFrom(s, id, r0, rest)
  BY <1>1, RelaxedScheduleIs
<1>3. r0 \in IntervalSet
  BY DEF IntervalSet
<1> HIDE DEF r0
<1>4. r \in IntervalSet
  BY <1>3, CountedType
<1> HIDE DEF r
<1>5. r.signals \in Seq(Thread)
  BY <1>4 DEF IntervalSet
<1>6. ASSUME NEW x \in IntervalSet, NEW y \in Seq(IntervalSet), d = Follow(x, y)
      PROVE  /\ d.out # "internal" /\ (d.out = "running" => d.chosen \in Thread)
             /\ d.rel \in IntervalSet /\ d.intervals \in Seq(IntervalSet)
  <2>1. x.current \in Thread
    BY DEF IntervalSet
  <2>2. d.out = "running" /\ d.chosen = x.current /\ d.rel \in IntervalSet /\ d.intervals = y
    BY <1>6, FollowIs
  <2>3. QED
    BY <2>1, <2>2
<1>7. ASSUME d \in Stops("deadlock")
      PROVE  /\ d.out # "internal" /\ (d.out = "running" => d.chosen \in Thread)
             /\ d.rel \in IntervalSet /\ d.intervals \in Seq(IntervalSet)
  BY <1>7 DEF Stops
<1>8. CASE Leaves(s, r)
  <2> DEFINE on == {i \in DOMAIN rest : rest[i].current \in s.enabled}
             k == IF on = {} THEN Len(rest) + 1 ELSE Lowest(on)
             g == IF rest = <<>> THEN r.signals ELSE Last(rest).signals
  <2>1. d \in regenerate(s, rest, r.signals)
    BY <1>2, <1>8, Zenon DEF FollowFrom, r
  <2>2. regenerate(s, rest, r.signals) =
          IF s.enabled = {} THEN Stops("deadlock")
          ELSE IF on = {} THEN noScheduleToFollow(s, g)
          ELSE {Follow(rest[k], SubSeq(rest, k + 1, Len(rest)))}
    BY DEF regenerate, AddrTrackers
  <2>3. Len(rest) \in Nat /\ DOMAIN rest = 1..Len(rest)
    BY LenProperties
  <2>4. CASE s.enabled = {}
    BY <1>7, <2>1, <2>2, <2>4
  <2>5. CASE s.enabled # {} /\ on = {}
    <3>1. g \in Seq(Thread)
      <4>1. CASE rest = <<>>
        BY <1>5, <4>1
      <4>2. CASE rest # <<>>
        <5>1. Len(rest) \in 1..Len(rest)
          BY <2>3, <4>2, EmptySeq
        <5>2. Last(rest) \in IntervalSet
          BY <5>1, ElementOfSeq DEF Last
        <5>3. QED
          BY <4>2, <5>2 DEF IntervalSet
      <4>3. QED
        BY <4>1, <4>2
    <3> HIDE DEF g, on, k
    <3>2. d \in noScheduleToFollow(s, g)
      BY <2>1, <2>2, <2>5
    <3>3. PICK t \in s.enabled : d = Follow([Interval(t, 1, NoAddr, 0, g) EXCEPT !.timesScheduled = 0], <<>>)
      BY <3>2 DEF noScheduleToFollow, AddrTrackers
    <3>4. [Interval(t, 1, NoAddr, 0, g) EXCEPT !.timesScheduled = 0] \in IntervalSet
      <4>1. t \in Thread
        OBVIOUS
      <4>2. [Interval(t, 1, NoAddr, 0, g) EXCEPT !.timesScheduled = 0] =
              [current |-> t, max |-> 1, addr |-> NoAddr, pass |-> 0, signals |-> g, timesScheduled |-> 0]
        BY DEF Interval
      <4>3. 0 \in Nat /\ 1 \in Nat /\ 0 \in Int /\ NoAddr \in Nat \cup {NoAddr}
        OBVIOUS
      <4>4. [current |-> t, max |-> 1, addr |-> NoAddr, pass |-> 0, signals |-> g, timesScheduled |-> 0]
              \in IntervalSet
        BY <3>1, <4>1, <4>3 DEF IntervalSet
      <4>5. QED
        BY <4>2, <4>4
    <3>5. <<>> \in Seq(IntervalSet)
      BY EmptySeq
    <3>6. QED
      BY <1>6, <3>3, <3>4, <3>5
  <2>6. CASE s.enabled # {} /\ on # {}
    <3>1. on \in SUBSET Nat
      BY <2>3
    <3>2. k \in on
      <4>1. k = Lowest(on)
        BY <2>6
      <4> HIDE DEF on, k
      <4>2. Lowest(on) \in on
        BY <2>6, <3>1, LowestIn
      <4>3. QED
        BY <4>1, <4>2
    <3>3. k \in 1..Len(rest)
      BY <2>3, <3>2
    <3>4. d = Follow(rest[k], SubSeq(rest, k + 1, Len(rest)))
      BY <2>1, <2>2, <2>6
    <3> HIDE DEF k, on
    <3>5. rest[k] \in IntervalSet
      BY <3>3, ElementOfSeq
    <3>6. SubSeq(rest, k + 1, Len(rest)) \in Seq(IntervalSet)
      <4>1. k + 1 \in 1..(Len(rest) + 1) /\ Len(rest) \in 1..Len(rest)
        BY <2>3, <3>3
      <4>2. QED
        BY <4>1, SubSeqProperties
    <3>7. QED
      BY <1>6, <3>4, <3>5, <3>6
  <2>7. QED
    BY <2>4, <2>5, <2>6
<1>9. CASE ~Leaves(s, r)
  <2>1. r.current \in s.enabled
    BY <1>9 DEF Leaves
  <2>2. s.enabled # {}
    BY <2>1
  <2>3. FollowFrom(s, id, r0, rest) = {Follow(r, rest)}
    BY <1>9, <2>1, <2>2, Zenon DEF FollowFrom, r
  <2>4. QED
    BY <1>2, <1>4, <1>6, <2>3
<1>10. QED
  BY <1>8, <1>9

\* A decision that the log has: the replay makes it, and is in step after it.
LEMMA FollowsDecision ==
  ASSUME phase = "replay", NEW p, NEW k, NEW j, NEW m, NEW log, NEW read, NEW sigs, NEW sig,
         Poised(p, k, j, m, log, read, sigs), tracker \in RelaxedTrackers \/ read # <<>>,
         j + 1 \in 0..k, Scheduled(p[j], p[j + 1], sig, m, file.schedule),
         NEW d \in DecisionsAt(Run(st, cur, sig), NextOp(st, cur).at, read, sigs),
         Decide(Run(st, cur, sig), d, NextOp(st, cur).at, log)
  PROVE  d.out = "running" /\ InStep' /\ (tracker \in RelaxedTrackers => d.read = <<>>)
<1> DEFINE L == file.schedule
           s == Run(st, cur, sig)
           id == NextOp(st, cur).at
           y == p[j + 1]
<1>1. /\ Recording(file, p, k) /\ j \in 0..k /\ st = p[j].st /\ cur = p[j].cur
      /\ Copies(log, L, m) /\ Guide(L, m, read, relaxed_schedule, rel, sigs)
      /\ tracker \in RelaxedTrackers => read_schedule = read
  BY DEF Poised
<1>2. /\ y.st = s /\ y.n = m + 1 /\ y.cur \in s.enabled
      /\ L[m + 1] = ScheduleDecisionInfo(y.cur, cur, id)
  BY <1>1 DEF Scheduled
<1>3. LogOK(L) /\ L \in Seq(Info) /\ y.n \in 0..Len(L) /\ m \in 0..Len(L) /\ Len(L) \in Nat
  BY <1>1, LenProperties DEF Recording, IsPath, LogOK, Copies
<1>4. d \in DecisionsAt(s, id, read, sigs) /\ Decide(s, d, id, log)
  OBVIOUS
<1> HIDE DEF L, s, id, y
<1>5. m \in 0..(Len(L) - 1) /\ m + 1 \in 1..Len(L) /\ m + 1 \in 0..Len(L)
  BY <1>2, <1>3
<1>6. L[m + 1] \in Info
  BY <1>3, <1>5, ElementOfSeq
<1>7. ChoiceAt(L, m, s, id) /\ L[m + 1].chosen = y.cur
  BY <1>2 DEF ChoiceAt, ScheduleDecisionInfo
<1>8. /\ d.chosen = L[m + 1].chosen /\ d.out = "running"
      /\ Guide(L, m + 1, d.read, d.intervals, d.rel, d.rel.signals)
  BY <1>1, <1>3, <1>4, <1>5, <1>7, DecisionInStep
<1>9. Copies(Append(log, L[m + 1]), L, m + 1)
  BY <1>1, <1>5, <1>6, CopiesGrow
<1>10. /\ schedule' = Append(log, L[m + 1]) /\ cur' = y.cur /\ st' = s
       /\ read_schedule' = d.read /\ relaxed_schedule' = d.intervals /\ rel' = d.rel
       /\ file' = file /\ tracker' = tracker /\ edited' = edited
  BY <1>2, <1>4, <1>7, <1>8 DEF Decide
<1>11. tracker \in RelaxedTrackers => d.read = <<>>
  BY <1>8 DEF Guide, RelaxedTrackers, LogTrackers
<1>12. /\ Recording(file', p, k) /\ st' = y.st /\ cur' = y.cur
       /\ Copies(schedule', file'.schedule, y.n)
  BY <1>1, <1>2, <1>9, <1>10 DEF L
<1>13. Guide(file.schedule, y.n, read_schedule, relaxed_schedule, rel, rel.signals)'
  BY <1>2, <1>8, <1>10 DEF Guide, NotBegun, L
<1>14. Poised(p, k, j + 1, p[j + 1].n, schedule, read_schedule, rel.signals)'
  BY <1>12, <1>13 DEF Poised, y
<1>15. InStep'
  BY <1>14 DEF InStep
<1>16. QED
  BY <1>8, <1>11, <1>15

\* The end of a faithful log in a deadlock: the replay ends in the same state.
LEMMA FollowsDeadlock ==
  ASSUME NEW p, NEW k, NEW j, Poised(p, k, j, p[j].n, schedule, read_schedule, rel.signals), j = k,
         file.schedule # <<>>, NEW id, NEW s, s.enabled = {},
         NEW d \in DecisionsAt(s, id, read_schedule, rel.signals)
  PROVE  d.out = "deadlock" /\ d.read = <<>> /\ schedule = file.schedule
<1> DEFINE L == file.schedule
<1>1. /\ LogOK(L) /\ p[j].n = Len(L) /\ L \in Seq(Info)
  BY DEF Poised, Recording, LogOK
<1>2. /\ Copies(schedule, L, Len(L))
      /\ Guide(L, Len(L), read_schedule, relaxed_schedule, rel, rel.signals)
  BY <1>1 DEF Poised
<1> HIDE DEF L
<1>3. schedule = L
  BY <1>1, <1>2, CopiesAll
<1>4. L # <<>>
  BY DEF L
<1>5. d.out = "deadlock" /\ d.read = <<>>
  BY <1>1, <1>2, <1>4, EndInStep
<1>6. QED
  BY <1>3, <1>5 DEF L

\* A decision d in state s keeps the invariant if it is one of these.
GoodDecision(s, d, log) ==
  /\ tracker \in RelaxedTrackers => d.read = <<>>
  /\ d.out # "running" =>
       d.read = <<>> /\ (~edited => d.out = file.outcome /\ s = file.st /\ log = file.schedule)
  /\ ~edited \/ tracker \in LogTrackers \cup {"addr"} => d.out # "internal"
  /\ tracker = "addr" =>
       /\ Sane(s) /\ s.prog \in Programs /\ (d.out = "running" => d.chosen \in Thread)
       /\ d.rel \in IntervalSet /\ d.intervals \in Seq(IntervalSet)

LEMMA ReplayDecided ==
  ASSUME ReplayInv, phase = "replay", NEW s, NEW d, NEW id, NEW log, Decide(s, d, id, log),
         GoodDecision(s, d, log), d.out = "running" /\ Follows(d.read) => InStep'
  PROVE  ReplayInv'
<1>1. /\ phase' = "replay" /\ tracker' = tracker /\ edited' = edited /\ scheduleAll' = scheduleAll
      /\ file' = file /\ st' = s /\ outcome' = d.out
      /\ read_schedule' = d.read /\ relaxed_schedule' = d.intervals /\ rel' = d.rel
      /\ (d.out # "running" => schedule' = log /\ cur' = cur) /\ (d.out = "running" => cur' = d.chosen)
  BY DEF Decide
<1>2. /\ tracker \in RelaxedTrackers \cup LogTrackers /\ (tracker = "strict" => ~edited)
      /\ scheduleAll = file.all /\ LogOK(file.schedule) /\ file.schedule # <<>>
      /\ tracker = "addr" => cur \in Thread
  BY DEF ReplayInv, AddrOK
<1>3. (Running /\ Follows(read_schedule) => InStep)'
  BY <1>1 DEF Running, Follows
<1>4. (~Running => read_schedule = <<>> /\ (~edited => Reproduced))'
  BY <1>1 DEF Running, GoodDecision, Reproduced
<1>5. (tracker = "addr" => AddrOK)'
  BY <1>1, <1>2 DEF GoodDecision, AddrOK
<1>6. (~edited \/ tracker \in LogTrackers \cup {"addr"} => outcome # "internal")'
  BY <1>1 DEF GoodDecision
<1>7. (tracker \in RelaxedTrackers => read_schedule = <<>>)'
  BY <1>1 DEF GoodDecision
<1>8. QED
  BY <1>1, <1>2, <1>3, <1>4, <1>5, <1>6, <1>7 DEF ReplayInv

\* AddrTracker's part of a decision.
LEMMA AddrPart ==
  ASSUME ReplayInv, phase = "replay", tracker = "addr", NEW sig \in Thread \cup {INVALID_THREAD},
         NEW id, NEW read, NEW sigs \in Seq(Thread), NEW d \in DecisionsAt(Run(st, cur, sig), id, read, sigs)
  PROVE  /\ Sane(Run(st, cur, sig)) /\ Run(st, cur, sig).prog \in Programs
         /\ d.out # "internal" /\ (d.out = "running" => d.chosen \in Thread)
         /\ d.rel \in IntervalSet /\ d.intervals \in Seq(IntervalSet)
<1> DEFINE s == Run(st, cur, sig)
<1>1. AddrOK
  BY DEF ReplayInv
<1>2. Sane(s) /\ s.prog = st.prog /\ st.prog \in Programs
  BY <1>1, RunSane DEF AddrOK
<1>3. d \in relaxedSchedule(s, id, sigs)
  BY DEF DecisionsAt, RelaxedTrackers
<1> HIDE DEF s
<1>4. s.enabled \in SUBSET Thread
  BY <1>2 DEF Sane, Shaped
<1>5. /\ d.out # "internal" /\ (d.out = "running" => d.chosen \in Thread)
      /\ d.rel \in IntervalSet /\ d.intervals \in Seq(IntervalSet)
  BY <1>1, <1>3, <1>4, AddrDecides DEF AddrOK
<1>6. QED
  BY <1>2, <1>5 DEF s

\* A decision of a tracker that has left the log behind, or follows an edited
\* schedule.
LEMMA UnguidedDecision ==
  ASSUME ReplayInv, phase = "replay", NEW s, NEW id, NEW read, NEW sigs, ~Follows(read),
         NEW d \in DecisionsAt(s, id, read, sigs)
  PROVE  /\ edited /\ d.read = <<>> /\ ~Follows(d.read)
         /\ tracker \in LogTrackers => d.out # "internal"
<1>1. edited /\ (tracker \in LogTrackers => read = <<>>)
  BY DEF Follows
<1>2. /\ tracker \in RelaxedTrackers \cup LogTrackers /\ tracker # "strict"
      /\ tracker \in RelaxedTrackers => read_schedule = <<>>
  BY <1>1 DEF ReplayInv
<1>3. CASE tracker \in RelaxedTrackers
  <2>1. d \in relaxedSchedule(s, id, sigs) /\ tracker \notin LogTrackers
    BY <1>3 DEF DecisionsAt, RelaxedTrackers, LogTrackers
  <2>2. d.read = <<>>
    BY <1>2, <1>3, <2>1, RelaxedReads
  <2>3. QED
    BY <1>1, <2>1, <2>2 DEF Follows
<1>4. CASE tracker \notin RelaxedTrackers
  <2>1. tracker = "default" /\ read = <<>>
    BY <1>1, <1>2, <1>4 DEF LogTrackers
  <2>2. d.read = <<>> /\ d.out # "internal"
    BY <2>1, DefaultDecides
  <2>3. QED
    BY <1>1, <2>2 DEF Follows
<1>5. QED
  BY <1>3, <1>4

\* Where the log has a schedule choice, its tracker has something to follow.
LEMMA LogLasts ==
  ASSUME NEW p, NEW k, NEW j, NEW m, NEW log, NEW read, NEW sigs, Poised(p, k, j, m, log, read, sigs),
         Follows(read), NEW n, n \in 0..Len(file.schedule), n > m
  PROVE  tracker \in RelaxedTrackers \/ read # <<>>
<1>1. SUFFICES ASSUME tracker \notin RelaxedTrackers, read = <<>> PROVE FALSE
  OBVIOUS
<1>2. ~edited
  BY <1>1 DEF Follows
<1>3. m + Len(read) = Len(file.schedule)
  BY <1>1, <1>2 DEF Poised, Guide
<1>4. m \in 0..Len(file.schedule) /\ Len(file.schedule) \in Nat
  BY LenProperties DEF Poised, Copies, Recording, LogOK
<1>5. Len(read) = 0
  BY <1>1, EmptySeq
<1>6. QED
  BY <1>3, <1>4, <1>5

\* A log that is followed is used up where the recording stopped.
LEMMA LogUsedUp ==
  ASSUME NEW p, NEW k, NEW j, Poised(p, k, j, p[j].n, schedule, read_schedule, rel.signals), j = k
  PROVE  read_schedule = <<>> /\ schedule = file.schedule
<1> DEFINE L == file.schedule
<1>1. p[j].n = Len(L) /\ L \in Seq(Info) /\ Len(L) \in Nat
  BY LenProperties DEF Poised, Recording, LogOK
<1>2. /\ Copies(schedule, L, Len(L))
      /\ Guide(L, Len(L), read_schedule, relaxed_schedule, rel, rel.signals)
  BY <1>1 DEF Poised
<1> HIDE DEF L
<1>3. schedule = L
  BY <1>1, <1>2, CopiesAll
<1>4. read_schedule = <<>>
  <2>1. CASE read_schedule \in Seq(Info) /\ Len(L) + Len(read_schedule) <= Len(L)
    <3>1. Len(read_schedule) \in Nat
      BY <2>1, LenProperties
    <3>2. Len(read_schedule) = 0
      BY <1>1, <2>1, <3>1
    <3>3. QED
      BY <2>1, <3>2, EmptySeq
  <2>2. QED
    BY <1>2, <2>1 DEF Guide
<1>5. QED
  BY <1>3, <1>4 DEF L

\* The replay ends as the recording did.
LEMMA ReplayEnds ==
  ASSUME ReplayInv, phase = "replay", ProgramEnds \/ programAssertFail
  PROVE  ReplayInv'
<1>1. PICK how : /\ End(how)
                 /\ \/ how = "end_log" /\ Ends(st, cur)
                    \/ how = "program assert" /\ Fails(st, cur)
  BY DEF ProgramEnds, programAssertFail
<1>2. Running
  BY DEF ProgramEnds, programAssertFail
<1>3. /\ outcome' = how /\ file' = file /\ phase' = phase /\ tracker' = tracker /\ st' = st /\ cur' = cur
      /\ schedule' = schedule /\ read_schedule' = read_schedule /\ relaxed_schedule' = relaxed_schedule
      /\ rel' = rel /\ scheduleAll' = scheduleAll /\ edited' = edited
  BY <1>1 DEF End, logVars
<1>4. how # "running" /\ how # "internal"
  BY <1>1
<1>5. Follows(read_schedule) =>
        read_schedule = <<>> /\ how = file.outcome /\ st = file.st /\ schedule = file.schedule
  <2>1. SUFFICES ASSUME Follows(read_schedule)
                 PROVE  read_schedule = <<>> /\ how = file.outcome /\ st = file.st /\ schedule = file.schedule
    OBVIOUS
  <2>2. PICK p, k, j : Poised(p, k, j, p[j].n, schedule, read_schedule, rel.signals)
    BY <1>2, <2>1 DEF ReplayInv, InStep
  <2>3. Recording(file, p, k) /\ j \in 0..k /\ st = p[j].st /\ cur = p[j].cur
    BY <2>2 DEF Poised
  <2>4. j = k /\ how = file.outcome /\ st = file.st
    <3>1. Ends(p[j].st, p[j].cur) \/ Fails(p[j].st, p[j].cur)
      BY <1>1, <2>3
    <3>2. /\ j = k /\ file.st = p[j].st
          /\ Ends(p[j].st, p[j].cur) => file.outcome = "end_log"
          /\ Fails(p[j].st, p[j].cur) => file.outcome = "program assert"
      BY <2>3, <3>1, ForcedEnd
    <3>3. QED
      BY <1>1, <2>3, <3>2
  <2>5. QED
    BY <2>2, <2>4, LogUsedUp
<1>6. read_schedule = <<>>
  BY <1>5 DEF ReplayInv, Follows
<1>7. ~edited => Reproduced'
  BY <1>3, <1>5 DEF Follows, Reproduced
<1>8. QED
  BY <1>3, <1>4, <1>6, <1>7 DEF ReplayInv, Running, Follows, AddrOK

\* A memory access is passed as in the recording.
LEMMA ReplayPasses ==
  ASSUME ReplayInv, phase = "replay", PassMemory
  PROVE  ReplayInv'
<1>1. /\ Running /\ PassesHere(st, cur, scheduleAll) /\ st' = Run(st, cur, INVALID_THREAD)
      /\ phase' = phase /\ tracker' = tracker /\ cur' = cur /\ outcome' = outcome
      /\ schedule' = schedule /\ read_schedule' = read_schedule /\ relaxed_schedule' = relaxed_schedule
      /\ rel' = rel /\ scheduleAll' = scheduleAll /\ file' = file /\ edited' = edited
  BY DEF PassMemory, logVars, SchedulesHere, PassesHere
<1>2. Follows(read_schedule) => InStep'
  <2>1. SUFFICES ASSUME Follows(read_schedule) PROVE InStep'
    OBVIOUS
  <2>2. PICK p, k, j : Poised(p, k, j, p[j].n, schedule, read_schedule, rel.signals)
    BY <1>1, <2>1 DEF ReplayInv, InStep
  <2>3. /\ Recording(file, p, k) /\ j \in 0..k /\ st = p[j].st /\ cur = p[j].cur
        /\ Copies(schedule, file.schedule, p[j].n)
        /\ Guide(file.schedule, p[j].n, read_schedule, relaxed_schedule, rel, rel.signals)
        /\ tracker \in RelaxedTrackers => read_schedule = read_schedule
    BY <2>2 DEF Poised
  <2>4. scheduleAll = file.all
    BY DEF ReplayInv
  <2>5. /\ j + 1 \in 0..k
        /\ p[j + 1].st = Run(st, cur, INVALID_THREAD) /\ p[j + 1].cur = cur /\ p[j + 1].n = p[j].n
    <3>1. PassesHere(p[j].st, p[j].cur, file.all)
      BY <1>1, <2>3, <2>4
    <3>2. /\ j + 1 \in 0..k /\ p[j + 1].st = Run(p[j].st, p[j].cur, INVALID_THREAD)
          /\ p[j + 1].cur = p[j].cur /\ p[j + 1].n = p[j].n
      BY <2>3, <3>1, ForcedPass
    <3>3. QED
      BY <2>3, <3>2
  <2>6. Guide(file.schedule, p[j + 1].n, read_schedule, relaxed_schedule, rel, rel.signals)'
    BY <1>1, <2>3, <2>5 DEF Guide, NotBegun
  <2>7. Poised(p, k, j + 1, p[j + 1].n, schedule, read_schedule, rel.signals)'
    BY <1>1, <2>3, <2>5, <2>6 DEF Poised
  <2>8. QED
    BY <2>7 DEF InStep
<1>3. tracker = "addr" => AddrOK'
  <2>1. SUFFICES ASSUME tracker = "addr" PROVE AddrOK'
    OBVIOUS
  <2>2. AddrOK
    BY <2>1 DEF ReplayInv
  <2>3. Sane(st') /\ st'.prog = st.prog
    BY <1>1, <2>2, RunSane DEF AddrOK
  <2>4. QED
    BY <1>1, <2>2, <2>3 DEF AddrOK
<1>4. QED
  BY <1>1, <1>2, <1>3 DEF ReplayInv, Running, Follows

\* A scheduling point that signals no one.
LEMMA ReplaySchedules ==
  ASSUME ReplayInv, phase = "replay", SchedulingPoint
  PROVE  ReplayInv'
<1> DEFINE s == Run(st, cur, INVALID_THREAD)
           id == NextOp(st, cur).at
<1>1. PICK d \in DecisionsAt(s, id, read_schedule, rel.signals) : Decide(s, d, id, schedule)
  BY DEF SchedulingPoint
<1>2. Running /\ DecidesHere(st, cur, scheduleAll)
  BY DEF SchedulingPoint, DecidesHere, SchedulesHere
<1>3. scheduleAll = file.all /\ file.schedule # <<>>
  BY DEF ReplayInv
<1>4. tracker = "addr" =>
        /\ Sane(s) /\ s.prog \in Programs
        /\ d.out # "internal" /\ (d.out = "running" => d.chosen \in Thread)
        /\ d.rel \in IntervalSet /\ d.intervals \in Seq(IntervalSet)
  <2>1. SUFFICES ASSUME tracker = "addr"
                 PROVE  /\ Sane(s) /\ s.prog \in Programs
                        /\ d.out # "internal" /\ (d.out = "running" => d.chosen \in Thread)
                        /\ d.rel \in IntervalSet /\ d.intervals \in Seq(IntervalSet)
    OBVIOUS
  <2>2. rel.signals \in Seq(Thread)
    BY <2>1 DEF ReplayInv, AddrOK, IntervalSet
  <2>3. QED
    BY <1>1, <2>1, <2>2, AddrPart
<1>5. CASE Follows(read_schedule)
  <2>1. PICK p, k, j : Poised(p, k, j, p[j].n, schedule, read_schedule, rel.signals)
    BY <1>2, <1>5 DEF ReplayInv, InStep
  <2>2. Recording(file, p, k) /\ j \in 0..k /\ st = p[j].st /\ cur = p[j].cur
    BY <2>1 DEF Poised
  <2>3. \/ j + 1 \in 0..k /\ Scheduled(p[j], p[j + 1], INVALID_THREAD, p[j].n, file.schedule)
        \/ j = k /\ file.outcome = "deadlock" /\ file.st = s /\ s.enabled = {}
    <3>1. DecidesHere(p[j].st, p[j].cur, file.all)
      BY <1>2, <1>3, <2>2
    <3>2. \/ j + 1 \in 0..k /\ Scheduled(p[j], p[j + 1], INVALID_THREAD, p[j].n, file.schedule)
          \/ /\ j = k /\ file.outcome = "deadlock"
             /\ file.st = Run(p[j].st, p[j].cur, INVALID_THREAD) /\ file.st.enabled = {}
      BY <2>2, <3>1, ForcedDecision
    <3>3. QED
      BY <2>2, <3>2
  <2>4. CASE j + 1 \in 0..k /\ Scheduled(p[j], p[j + 1], INVALID_THREAD, p[j].n, file.schedule)
    <3>1. p[j + 1].n \in 0..Len(file.schedule) /\ p[j].n \in 0..Len(file.schedule)
      BY <2>2, <2>4 DEF Recording, IsPath
    <3>2. p[j + 1].n > p[j].n
      BY <2>4, <3>1 DEF Scheduled
    <3>3. tracker \in RelaxedTrackers \/ read_schedule # <<>>
      BY <1>5, <2>1, <3>1, <3>2, LogLasts
    <3>4. d.out = "running" /\ InStep' /\ (tracker \in RelaxedTrackers => d.read = <<>>)
      BY <1>1, <2>1, <2>4, <3>3, FollowsDecision
    <3>5. GoodDecision(s, d, schedule)
      BY <1>4, <3>4 DEF GoodDecision
    <3>6. QED
      BY <1>1, <3>4, <3>5, ReplayDecided
  <2>5. CASE j = k /\ file.outcome = "deadlock" /\ file.st = s /\ s.enabled = {}
    <3>1. d.out = "deadlock" /\ d.read = <<>> /\ schedule = file.schedule
      BY <1>1, <1>3, <2>1, <2>5, FollowsDeadlock
    <3>2. GoodDecision(s, d, schedule)
      BY <1>4, <2>5, <3>1 DEF GoodDecision
    <3>3. QED
      BY <1>1, <3>1, <3>2, ReplayDecided
  <2>6. QED
    BY <2>3, <2>4, <2>5
<1>6. CASE ~Follows(read_schedule)
  <2>1. edited /\ d.read = <<>> /\ ~Follows(d.read) /\ (tracker \in LogTrackers => d.out # "internal")
    BY <1>1, <1>6, UnguidedDecision
  <2>2. GoodDecision(s, d, schedule)
    BY <1>4, <2>1 DEF GoodDecision
  <2>3. QED
    BY <1>1, <2>1, <2>2, ReplayDecided
<1>7. QED
  BY <1>5, <1>6

\* AddrTracker wakes a waiter, and keeps signals that it may wake later.
LEMMA AddrSignals ==
  ASSUME tracker = "addr", rel.signals \in Seq(Thread), NEW waiting, NEW c \in signalChoices(waiting)
  PROVE  c.target \in waiting /\ c.signals \in Seq(Thread)
<1> DEFINE sigs == rel.signals
           usable == {i \in DOMAIN sigs : sigs[i] \in waiting}
           k == Lowest(usable)
<1>1. CASE sigs = <<>> \/ usable = {}
  <2>1. signalChoices(waiting) = {[target |-> t, read |-> read_schedule, signals |-> <<>>] :
                                    t \in selectThreadWaitingOnCond(waiting)}
    BY <1>1 DEF signalChoices, RelaxedTrackers, AddrTrackers
  <2>2. selectThreadWaitingOnCond(waiting) = waiting
    BY DEF selectThreadWaitingOnCond, AddrTrackers
  <2>3. c.target \in waiting /\ c.signals = <<>>
    BY <2>1, <2>2
  <2>4. QED
    BY <2>3, EmptySeq
<1>2. CASE sigs # <<>> /\ usable # {}
  <2>1. signalChoices(waiting) =
          {[target |-> OnCondOrInvalid(sigs[k], waiting), read |-> read_schedule,
            signals |-> SubSeq(sigs, k + 1, Len(sigs))]}
    BY <1>2 DEF signalChoices, RelaxedTrackers, AddrTrackers
  <2>2. c.target = OnCondOrInvalid(sigs[k], waiting) /\ c.signals = SubSeq(sigs, k + 1, Len(sigs))
    BY <2>1
  <2>3. Len(sigs) \in Nat /\ DOMAIN sigs = 1..Len(sigs)
    BY LenProperties
  <2>4. usable \in SUBSET Nat
    BY <2>3
  <2>5. k \in usable
    <3> HIDE DEF usable
    <3> QED
      BY <1>2, <2>4, LowestIn
  <2>6. k \in 1..Len(sigs) /\ sigs[k] \in waiting
    BY <2>3, <2>5
  <2> HIDE DEF k, usable, sigs
  <2>7. c.target \in waiting
    BY <2>2, <2>6 DEF OnCondOrInvalid
  <2>8. SubSeq(sigs, k + 1, Len(sigs)) \in Seq(Thread)
    <3>1. k + 1 \in 1..(Len(sigs) + 1) /\ Len(sigs) \in 1..Len(sigs)
      BY <2>3, <2>6
    <3>2. sigs \in Seq(Thread)
      BY DEF sigs
    <3>3. QED
      BY <3>1, <3>2, SubSeqProperties
  <2>9. QED
    BY <2>2, <2>7, <2>8
<1>3. QED
  BY <1>1, <1>2

\* The signal of a tracker that has left the log behind, or follows an edited
\* schedule.
LEMMA UnguidedSignal ==
  ASSUME ReplayInv, phase = "replay", ~Follows(read_schedule),
         NEW waiting \in SUBSET Thread, waiting # {}, NEW c \in signalChoices(waiting)
  PROVE  ~Follows(c.read) /\ (tracker \in LogTrackers => c.target \in waiting)
<1>1. edited /\ (tracker \in LogTrackers => read_schedule = <<>>)
  BY DEF Follows
<1>2. tracker \in RelaxedTrackers \cup LogTrackers
  BY DEF ReplayInv
<1>3. CASE tracker \in LogTrackers
  <2>1. tracker \notin RelaxedTrackers
    BY <1>3 DEF LogTrackers, RelaxedTrackers
  <2>2. signalChoices(waiting) = {[target |-> t, read |-> <<>>, signals |-> <<>>] :
                                    t \in selectThreadWaitingOnCond(waiting)}
    BY <1>1, <1>3, <2>1 DEF signalChoices
  <2>3. selectThreadWaitingOnCond(waiting) = {Lowest(waiting)}
    BY <1>3 DEF selectThreadWaitingOnCond, LogTrackers, AddrTrackers
  <2>4. waiting \in SUBSET Nat
    BY ProgramAssumption DEF Thread
  <2>5. Lowest(waiting) \in waiting
    BY <2>4, LowestIn
  <2>6. c.target \in waiting /\ c.read = <<>>
    BY <2>2, <2>3, <2>5
  <2>7. QED
    BY <1>1, <2>6 DEF Follows
<1>4. CASE tracker \notin LogTrackers
  BY <1>1, <1>4 DEF Follows
<1>5. QED
  BY <1>3, <1>4

\* A signal that the log has: the replay wakes the same waiter.
LEMMA FollowsSignal ==
  ASSUME ReplayInv, phase = "replay", Running, Follows(read_schedule), SignalTargets(st, cur) # {},
         NEW c \in signalChoices(SignalTargets(st, cur))
  PROVE  \E p, k, j, m :
           /\ Poised(p, k, j, m, Append(schedule, SignalDecisionInfo(c.target, cur, NextOp(st, cur).at)),
                     c.read, c.signals)
           /\ j + 1 \in 0..k /\ Scheduled(p[j], p[j + 1], c.target, m, file.schedule)
           /\ c.target \in SignalTargets(st, cur)
<1> DEFINE L == file.schedule
           W == SignalTargets(st, cur)
           id == NextOp(st, cur).at
<1>1. PICK p, k, j : Poised(p, k, j, p[j].n, schedule, read_schedule, rel.signals)
  BY DEF ReplayInv, InStep
<1>2. /\ Recording(file, p, k) /\ j \in 0..k /\ st = p[j].st /\ cur = p[j].cur
      /\ Copies(schedule, L, p[j].n)
      /\ Guide(L, p[j].n, read_schedule, relaxed_schedule, rel, rel.signals)
  BY <1>1 DEF Poised
<1> DEFINE n == p[j].n
<1>3. /\ j + 1 \in 0..k
      /\ \E t \in SignalTargets(p[j].st, p[j].cur) :
           /\ L[n + 1] = SignalDecisionInfo(t, p[j].cur, NextOp(p[j].st, p[j].cur).at)
           /\ Scheduled(p[j], p[j + 1], t, n + 1, L)
  <2>1. SignalTargets(p[j].st, p[j].cur) # {}
    BY <1>2
  <2>2. QED
    BY <1>2, <2>1, ForcedSignal
<1>4. PICK t \in W : /\ L[n + 1] = SignalDecisionInfo(t, cur, id)
                     /\ Scheduled(p[j], p[j + 1], t, n + 1, L)
  BY <1>2, <1>3
<1>5. /\ LogOK(L) /\ L \in Seq(Info) /\ Len(L) \in Nat
      /\ n \in 0..Len(L) /\ p[j + 1].n \in 0..Len(L)
  BY <1>2, <1>3, LenProperties DEF Recording, IsPath, LogOK
<1> HIDE DEF L, W, id, n
<1>6. p[j + 1].n = (n + 1) + 1
  BY <1>4 DEF Scheduled
<1>7. p[j + 1].n > n /\ n \in 0..(Len(L) - 1) /\ n + 1 \in 1..Len(L) /\ n + 1 \in 0..Len(L)
  BY <1>5, <1>6
<1>8. tracker \in RelaxedTrackers \/ read_schedule # <<>>
  BY <1>1, <1>5, <1>7, LogLasts DEF L, n
<1>9. SignalAt(L, n, W) /\ L[n + 1].chosen = t
  BY <1>4 DEF SignalAt, SignalDecisionInfo
<1>10. /\ c.target = L[n + 1].chosen
       /\ Guide(L, n + 1, c.read, relaxed_schedule, rel, c.signals)
       /\ tracker \in RelaxedTrackers => read_schedule = c.read
  <2>1. Guide(L, n, read_schedule, relaxed_schedule, rel, rel.signals) /\ c \in signalChoices(W)
    BY <1>2 DEF n, W
  <2>2. QED
    BY <1>5, <1>7, <1>8, <1>9, <2>1, SignalInStep
<1>11. L[n + 1] \in Info
  BY <1>5, <1>7, ElementOfSeq
<1>12. Copies(Append(schedule, L[n + 1]), L, n + 1)
  BY <1>2, <1>7, <1>11, CopiesGrow DEF n
<1>13. L[n + 1] = SignalDecisionInfo(c.target, cur, id) /\ c.target = t
  BY <1>4, <1>9, <1>10
<1>14. Poised(p, k, j, n + 1, Append(schedule, SignalDecisionInfo(c.target, cur, id)), c.read, c.signals)
  BY <1>2, <1>10, <1>12, <1>13 DEF Poised, L
<1>15. Scheduled(p[j], p[j + 1], c.target, n + 1, file.schedule) /\ c.target \in W
  BY <1>4, <1>13 DEF L
<1>16. QED
  BY <1>3, <1>14, <1>15 DEF W, id

\* A scheduling point that wakes a waiter.
LEMMA ReplaySignals ==
  ASSUME ReplayInv, phase = "replay", SignalPoint
  PROVE  ReplayInv'
<1> DEFINE W == SignalTargets(st, cur)
           id == NextOp(st, cur).at
<1>1. Running /\ W # {}
  BY DEF SignalPoint
<1>2. PICK c \in signalChoices(W) :
        IF c.target = INVALID_THREAD THEN End("internal")
        ELSE \E s \in {Run(st, cur, c.target)} :
             \E d \in DecisionsAt(s, id, c.read, c.signals) :
               Decide(s, d, id, Append(schedule, SignalDecisionInfo(c.target, cur, id)))
  BY DEF SignalPoint
<1>3. W \in SUBSET Thread
  BY TargetsOf
<1>4. INVALID_THREAD \notin W
  BY <1>3, ProgramAssumption DEF Thread, INVALID_THREAD
<1>5. tracker = "addr" => c.target \in W /\ c.signals \in Seq(Thread)
  <2>1. SUFFICES ASSUME tracker = "addr" PROVE c.target \in W /\ c.signals \in Seq(Thread)
    OBVIOUS
  <2>2. rel.signals \in Seq(Thread)
    BY <2>1 DEF ReplayInv, AddrOK, IntervalSet
  <2>3. QED
    BY <1>2, <2>1, <2>2, AddrSignals
<1>6. CASE c.target = INVALID_THREAD
  <2>1. End("internal")
    BY <1>2, <1>6
  <2>2. ~Follows(read_schedule)
    BY <1>1, <1>2, <1>4, <1>6, FollowsSignal
  <2>3. tracker \notin LogTrackers /\ tracker # "addr" /\ edited
    BY <1>1, <1>2, <1>3, <1>4, <1>5, <1>6, <2>2, UnguidedSignal DEF Follows
  <2>4. /\ outcome' = "internal" /\ file' = file /\ phase' = phase /\ tracker' = tracker
        /\ read_schedule' = read_schedule /\ scheduleAll' = scheduleAll /\ edited' = edited
    BY <2>1 DEF End, logVars
  <2>5. read_schedule = <<>>
    BY <2>3 DEF ReplayInv
  <2>6. QED
    BY <2>3, <2>4, <2>5 DEF ReplayInv, Running
<1>7. CASE c.target # INVALID_THREAD
  <2> DEFINE s == Run(st, cur, c.target)
             log == Append(schedule, SignalDecisionInfo(c.target, cur, id))
  <2>1. PICK d \in DecisionsAt(s, id, c.read, c.signals) : Decide(s, d, id, log)
    BY <1>2, <1>7
  <2>2. tracker = "addr" =>
          /\ Sane(s) /\ s.prog \in Programs
          /\ d.out # "internal" /\ (d.out = "running" => d.chosen \in Thread)
          /\ d.rel \in IntervalSet /\ d.intervals \in Seq(IntervalSet)
    <3>1. SUFFICES ASSUME tracker = "addr"
                   PROVE  /\ Sane(s) /\ s.prog \in Programs
                          /\ d.out # "internal" /\ (d.out = "running" => d.chosen \in Thread)
                          /\ d.rel \in IntervalSet /\ d.intervals \in Seq(IntervalSet)
      OBVIOUS
    <3>2. c.signals \in Seq(Thread) /\ c.target \in Thread
      BY <1>3, <1>5, <3>1
    <3>3. QED
      BY <2>1, <3>1, <3>2, AddrPart
  <2>3. CASE Follows(c.read)
    <3>1. Follows(read_schedule)
      BY <1>1, <1>2, <1>3, <2>3, UnguidedSignal
    <3>2. PICK p, k, j, m : /\ Poised(p, k, j, m, log, c.read, c.signals)
                            /\ j + 1 \in 0..k /\ Scheduled(p[j], p[j + 1], c.target, m, file.schedule)
      BY <1>1, <1>2, <3>1, FollowsSignal
    <3> HIDE DEF log
    <3>3. p[j + 1].n \in 0..Len(file.schedule) /\ m \in 0..Len(file.schedule)
      BY <3>2 DEF Poised, Copies, Recording, IsPath
    <3>4. p[j + 1].n > m
      BY <3>2, <3>3 DEF Scheduled
    <3>5. tracker \in RelaxedTrackers \/ c.read # <<>>
      BY <2>3, <3>2, <3>3, <3>4, LogLasts
    <3>6. d.out = "running" /\ InStep' /\ (tracker \in RelaxedTrackers => d.read = <<>>)
      BY <2>1, <3>2, <3>5, FollowsDecision
    <3>7. GoodDecision(s, d, log)
      BY <2>2, <3>6 DEF GoodDecision
    <3>8. QED
      BY <2>1, <3>6, <3>7, ReplayDecided
  <2>4. CASE ~Follows(c.read)
    <3> HIDE DEF log
    <3>1. edited /\ d.read = <<>> /\ ~Follows(d.read) /\ (tracker \in LogTrackers => d.out # "internal")
      BY <2>1, <2>4, UnguidedDecision
    <3>2. GoodDecision(s, d, log)
      BY <2>2, <3>1 DEF GoodDecision
    <3>3. QED
      BY <2>1, <3>1, <3>2, ReplayDecided
  <2>5. QED
    BY <2>3, <2>4
<1>8. QED
  BY <1>6, <1>7

-----------------------------------------------------------------------------
(***************************************************************************)
(* A replay starts.                                                        *)
(***************************************************************************)

\* A sequence without its first or last elements.
LEMMA PartType ==
  ASSUME NEW S, NEW s \in Seq(S), NEW i \in 1..Len(s)
  PROVE  SubSeq(s, 1, i - 1) \in Seq(S) /\ SubSeq(s, i + 1, Len(s)) \in Seq(S)
<1>1. Len(s) \in Nat
  BY LenProperties
<1>2. /\ 1 \in 1..(Len(s) + 1) /\ i - 1 \in 0..Len(s)
      /\ i + 1 \in 1..(Len(s) + 1) /\ Len(s) \in 0..Len(s)
  BY <1>1
<1>3. \A q \in 1..(i - 1) : s[q] \in S
  <2>1. \A q \in 1..(i - 1) : q \in 1..Len(s)
    BY <1>1
  <2>2. QED
    BY <2>1, ElementOfSeq
<1>4. SubSeq(s, 1, i - 1) \in Seq(S)
  BY <1>1, <1>2, <1>3, SubSeqProperties
<1>5. SubSeq(s, i + 1, Len(s)) \in Seq(S)
  <2>1. Len(s) \in 1..Len(s)
    BY <1>1
  <2>2. QED
    BY <1>2, <2>1, SubSeqProperties
<1>6. QED
  BY <1>4, <1>5

\* An edited schedule is one of intervals.
LEMMA EditType ==
  ASSUME NEW full \in Seq(IntervalSet), NEW e \in Edits(full), e # <<>>
  PROVE  e \in Seq(IntervalSet) /\ Head(e) \in IntervalSet /\ Tail(e) \in Seq(IntervalSet)
<1>1. DOMAIN full = 1..Len(full)
  BY LenProperties
<1>2. e \in Seq(IntervalSet)
  <2>1. CASE e = full
    BY <2>1
  <2>2. CASE e # full
    <3>1. PICK i \in 1..Len(full) : e = SubSeq(full, 1, i - 1) \o SubSeq(full, i + 1, Len(full))
      BY <1>1, <2>2 DEF Edits, RemoveAt
    <3>2. SubSeq(full, 1, i - 1) \in Seq(IntervalSet) /\ SubSeq(full, i + 1, Len(full)) \in Seq(IntervalSet)
      BY PartType
    <3>3. QED
      BY <3>1, <3>2, ConcatProperties
  <2>3. QED
    BY <2>1, <2>2
<1>3. QED
  BY <1>2, HeadTailProperties

\* A prefix of the log to follow.
LEMMA PrefixGuides ==
  ASSUME NEW L \in Seq(Info), NEW read \in Prefixes(L)
  PROVE  read \in Seq(Info) /\ 0 + Len(read) <= Len(L) /\ \A q \in 1..Len(read) : read[q] = L[0 + q]
<1>1. PICK l \in 0..Len(L) : read = SubSeq(L, 1, l)
  BY DEF Prefixes
<1>2. Len(L) \in Nat
  BY LenProperties
<1>3. CASE l = 0
  <2>1. read = <<>>
    BY <1>1, <1>3
  <2>2. QED
    BY <1>2, <2>1, EmptySeq
<1>4. CASE l # 0
  <2>1. 1 \in 1..(Len(L) + 1) /\ l \in 1..Len(L) /\ 1 <= l
    BY <1>2, <1>4
  <2>2. /\ read \in Seq(Info) /\ Len(read) = IF 1 <= l THEN l - 1 + 1 ELSE 0
        /\ \A q \in 1..(l - 1 + 1) : read[q] = L[1 + q - 1]
    BY <1>1, <2>1, SubSeqProperties
  <2>3. Len(read) = l /\ l - 1 + 1 = l /\ \A q \in 1..l : 1 + q - 1 = 0 + q
    BY <2>1, <2>2
  <2>4. QED
    BY <1>2, <2>1, <2>2, <2>3
<1>5. QED
  BY <1>3, <1>4

\* The replay is at the start of the path.
LEMMA ReplayStarts ==
  ASSUME RecordInv, StartReplay
  PROVE  ReplayInv'
<1> DEFINE L == file.schedule
           full == outputRelaxedSchedule(L)
<1>1. /\ Kept(file) /\ file.st = st /\ st.prog \in Programs
  BY DEF StartReplay, RecordInv
<1>2. /\ L # <<>> /\ phase' = "replay" /\ tracker' \in RelaxedTrackers \cup LogTrackers
      /\ st' = Initial(st.prog) /\ cur' = Main /\ outcome' = "running"
      /\ schedule' = <<>> /\ scheduleAll' = file.all /\ file' = file
  BY DEF StartReplay, LogTrackers
<1>3. PICK p, k : Recording(file, p, k)
  BY <1>1 DEF Kept
<1>4. /\ LogOK(L) /\ L \in Seq(Info) /\ k \in Nat
      /\ p[0].st = Initial(st.prog) /\ p[0].cur = Main /\ p[0].n = 0
  BY <1>1, <1>3 DEF Recording, IsPath, LogOK
<1>5. 0 \in 0..k /\ 0 \in 0..Len(L)
  BY <1>4, LenProperties
<1>6. Copies(<<>>, L, 0)
  BY <1>5, EmptySeq DEF Copies
<1>7. Sane(st') /\ st'.prog = st.prog
  BY <1>2, InitialSane
<1>8. Main \in Thread
  BY ProgramAssumption DEF Main, Thread
<1>9. ASSUME Guide(file.schedule, 0, read_schedule, relaxed_schedule, rel, rel.signals)'
      PROVE  InStep'
  <2>1. file'.schedule = L /\ Recording(file', p, k) /\ st' = p[0].st /\ cur' = p[0].cur
    BY <1>2, <1>3, <1>4
  <2>2. Guide(file.schedule, p[0].n, read_schedule, relaxed_schedule, rel, rel.signals)'
    BY <1>4, <1>9
  <2>3. Copies(schedule', file'.schedule, p[0].n)
    BY <1>2, <1>4, <1>6, <2>1
  <2>4. Poised(p, k, 0, p[0].n, schedule, read_schedule, rel.signals)'
    BY <1>5, <2>1, <2>2, <2>3 DEF Poised
  <2>5. QED
    BY <2>4 DEF InStep
<1>10. CASE tracker' \in RelaxedTrackers
  <2>1. tracker' \notin LogTrackers /\ tracker' # "strict"
    BY <1>10 DEF RelaxedTrackers, LogTrackers
  <2>2. read_schedule' = <<>>
    BY <1>10 DEF StartReplay
  <2>3. PICK e \in Edits(full) :
          /\ e # <<>> /\ edited' = (e # full)
          /\ IF tracker' \in AddrTrackers
               THEN rel' = Head(e) /\ relaxed_schedule' = Tail(e)
               ELSE rel' = NoInterval /\ relaxed_schedule' = e
    BY <1>10 DEF StartReplay
  <2>4. full \in Seq(IntervalSet)
    BY <1>2, <1>4, FullType
  <2>5. Head(e) \in IntervalSet /\ Tail(e) \in Seq(IntervalSet)
    BY <2>3, <2>4, EditType
  <2>6. tracker' = "addr" => AddrOK'
    BY <1>1, <1>2, <1>7, <1>8, <2>3, <2>5 DEF AddrOK, AddrTrackers
  <2>7. ~edited' => InStep'
    <3>1. SUFFICES ASSUME ~edited' PROVE InStep'
      OBVIOUS
    <3>2. e = full
      BY <2>3, <3>1
    <3>3. GuideRelaxed(L, 0, Tail(full), Head(full), Head(full).signals)
      BY <1>2, <1>4, GuideBegins
    <3> HIDE DEF full, L
    <3>4. file'.schedule = L
      BY <1>2 DEF L
    <3>5. CASE tracker' \in AddrTrackers
      <4>1. rel' = Head(full) /\ relaxed_schedule' = Tail(full)
        BY <2>3, <3>2, <3>5
      <4>2. GuideRelaxed(file'.schedule, 0, relaxed_schedule', rel', rel'.signals)
        BY <3>3, <3>4, <4>1
      <4>3. Guide(file.schedule, 0, read_schedule, relaxed_schedule, rel, rel.signals)'
        BY <1>10, <2>2, <4>2 DEF Guide
      <4>4. QED
        BY <1>9, <4>3
    <3>6. CASE tracker' \notin AddrTrackers
      <4>1. rel' = NoInterval /\ relaxed_schedule' = full
        BY <2>3, <3>2, <3>6
      <4>2. tracker' \in {"relaxed", "tester"}
        BY <1>10, <3>6 DEF RelaxedTrackers, AddrTrackers
      <4>3. full = outputRelaxedSchedule(file'.schedule)
        BY <3>4 DEF full
      <4>4. NotBegun(file.schedule, 0, relaxed_schedule, rel)'
        BY <4>1, <4>2, <4>3 DEF NotBegun
      <4>5. Guide(file.schedule, 0, read_schedule, relaxed_schedule, rel, rel.signals)'
        BY <1>10, <2>2, <4>4 DEF Guide
      <4>6. QED
        BY <1>9, <4>5
    <3>7. QED
      BY <3>5, <3>6
  <2>8. QED
    BY <1>2, <1>4, <2>1, <2>2, <2>6, <2>7 DEF ReplayInv, Running, Follows
<1>11. CASE tracker' \notin RelaxedTrackers
  <2>1. tracker' \in LogTrackers /\ tracker' # "addr"
    BY <1>2, <1>11 DEF RelaxedTrackers
  <2>2. /\ edited' = (read_schedule' # L)
        /\ read_schedule' \in IF tracker' = "strict" THEN {L} ELSE Prefixes(L)
    BY <1>11 DEF StartReplay
  <2>3. /\ read_schedule' \in Seq(Info) /\ 0 + Len(read_schedule') <= Len(L)
        /\ \A q \in 1..Len(read_schedule') : read_schedule'[q] = L[0 + q]
    <3>1. CASE tracker' = "strict"
      <4>1. read_schedule' = L /\ Len(L) \in Nat
        BY <1>4, <2>2, <3>1, LenProperties
      <4> HIDE DEF L
      <4>2. 0 + Len(L) <= Len(L) /\ \A q \in 1..Len(L) : 0 + q = q
        BY <4>1
      <4>3. QED
        BY <1>4, <4>1, <4>2
    <3>2. CASE tracker' # "strict"
      <4>1. read_schedule' \in Prefixes(L)
        BY <2>2, <3>2
      <4> HIDE DEF L
      <4>2. QED
        BY <1>4, <4>1, PrefixGuides
    <3>3. QED
      BY <3>1, <3>2
  <2>4. ~edited' => 0 + Len(read_schedule') = Len(L)
    <3>1. ~edited' => read_schedule' = L
      BY <2>2
    <3>2. Len(L) \in Nat
      BY <1>4, LenProperties
    <3>3. 0 + Len(L) = Len(L)
      BY <3>2
    <3>4. QED
      BY <3>1, <3>3
  <2>5. Guide(file.schedule, 0, read_schedule, relaxed_schedule, rel, rel.signals)'
    <3>1. file'.schedule = L
      BY <1>2
    <3> HIDE DEF L
    <3>2. QED
      BY <2>1, <2>3, <2>4, <3>1 DEF Guide
  <2>6. InStep'
    BY <1>9, <2>5
  <2>7. tracker' = "strict" => ~edited'
    BY <2>2
  <2>8. QED
    BY <1>2, <1>4, <1>11, <2>1, <2>6, <2>7 DEF ReplayInv, Running
<1>12. QED
  BY <1>10, <1>11

-----------------------------------------------------------------------------
(***************************************************************************)
(* The theorems.                                                           *)
(***************************************************************************)
ReplayInvariant == phase \in {"record", "replay"} /\ RecordInv /\ ReplayInv

\* ReplayCorrect: a recording leaves the path of a faithful log, and a replay
\* is at a configuration of the path, with its tracker in step.
THEOREM ReplayCorrect == Spec => []ReplayInvariant
<1>1. Init => ReplayInvariant
  <2>1. SUFFICES ASSUME Init PROVE ReplayInvariant
    OBVIOUS
  <2>2. PICK p \in Programs : Begin(p, "recorder")
    BY <2>1 DEF Init
  <2>3. /\ st = Initial(p) /\ cur = Main /\ outcome = "running" /\ schedule = <<>>
        /\ tracker = "recorder" /\ phase = "record" /\ read_schedule = <<>>
    BY <2>1, <2>2 DEF Init, Begin
  <2>4. /\ Sane(st) /\ st.prog = p /\ st.enabled = Thread /\ Nobody(st)
    BY <2>3, InitialSane DEF Nobody
  <2>5. cur \in st.enabled
    BY <2>3, <2>4, ProgramAssumption DEF Main, Thread
  <2>6. LogOK(schedule) /\ Holder(schedule, Len(schedule)) = cur
    <3>1. schedule \in Seq(Info) /\ Len(schedule) = 0
      BY <2>3, EmptySeq
    <3>2. QED
      BY <2>3, <3>1 DEF LogOK, Holder
  <2>7. PathTo(st, cur, schedule, scheduleAll)
    BY <2>3, PathBegins
  <2>8. RecordingNow
    BY <2>4, <2>5, <2>6, <2>7 DEF RecordingNow
  <2>9. QED
    BY <2>3, <2>4, <2>8 DEF ReplayInvariant, RecordInv, ReplayInv, Running
<1>2. ReplayInvariant /\ [Next]_vars => ReplayInvariant'
  <2>1. SUFFICES ASSUME ReplayInvariant, [Next]_vars PROVE ReplayInvariant'
    OBVIOUS
  <2>2. phase \in {"record", "replay"} /\ RecordInv /\ ReplayInv
    BY <2>1 DEF ReplayInvariant
  <2>3. CASE phase = "record" /\ Next /\ ~StartReplay
    <3>1. RecordInv'
      BY <2>2, <2>3, RecordEnds, RecordPasses, RecordSchedules, RecordSignals DEF Next
    <3>2. phase' = "record"
      BY <2>3 DEF Next, ProgramEnds, programAssertFail, End, PassMemory, SchedulingPoint,
                  SignalPoint, Decide
    <3>3. QED
      BY <3>1, <3>2 DEF ReplayInvariant, ReplayInv
  <2>4. CASE phase = "replay" /\ Next
    <3>1. ~StartReplay
      BY <2>4 DEF StartReplay
    <3>2. ReplayInv'
      BY <2>2, <2>4, <3>1, ReplayEnds, ReplayPasses, ReplaySchedules, ReplaySignals DEF Next
    <3>3. phase' = "replay"
      BY <2>4, <3>1 DEF Next, ProgramEnds, programAssertFail, End, PassMemory, SchedulingPoint,
                        SignalPoint, Decide
    <3>4. QED
      BY <3>2, <3>3 DEF ReplayInvariant, RecordInv
  <2>5. CASE StartReplay
    <3>1. ReplayInv'
      BY <2>2, <2>5, ReplayStarts
    <3>2. phase' = "replay"
      BY <2>5 DEF StartReplay
    <3>3. QED
      BY <3>1, <3>2 DEF ReplayInvariant, RecordInv
  <2>6. CASE UNCHANGED vars
    <3>1. /\ phase' = phase /\ tracker' = tracker /\ st' = st /\ cur' = cur /\ outcome' = outcome
          /\ schedule' = schedule /\ read_schedule' = read_schedule
          /\ relaxed_schedule' = relaxed_schedule /\ rel' = rel
          /\ scheduleAll' = scheduleAll /\ file' = file /\ edited' = edited
      BY <2>6 DEF vars, logVars
    <3>2. RecordInv'
      BY <2>2, <3>1 DEF RecordInv, RecordingNow, Running, Nobody
    <3>3. InStep => InStep'
      <4>1. SUFFICES ASSUME InStep PROVE InStep'
        OBVIOUS
      <4>2. PICK p, k, j : Poised(p, k, j, p[j].n, schedule, read_schedule, rel.signals)
        BY <4>1 DEF InStep
      <4>3. Poised(p, k, j, p[j].n, schedule, read_schedule, rel.signals)'
        BY <3>1, <4>2 DEF Poised, Guide, NotBegun
      <4>4. QED
        BY <4>3 DEF InStep
    <3>4. ReplayInv'
      BY <2>2, <3>1, <3>3 DEF ReplayInv, Running, Follows, Reproduced, AddrOK
    <3>5. QED
      BY <2>2, <3>1, <3>2, <3>4 DEF ReplayInvariant
  <2>7. QED
    BY <2>1, <2>2, <2>3, <2>4, <2>5, <2>6
<1>3. QED
  BY <1>1, <1>2, PTL DEF Spec

\* ReplayReproduces: a faithful log leads every tracker to the recorded end,
\* in the recorded state, by the recorded decisions, whatever the program, the
\* number of threads and the length of the log.
THEOREM ReplayIsExact == Spec => []ReplayReproduces
<1>1. ReplayInvariant => ReplayReproduces
  BY DEF ReplayInvariant, ReplayInv, ReplayReproduces, Running, Reproduced
<1>2. QED
  BY <1>1, ReplayCorrect, PTL

\* NoInternalError: no assertion of a tracker fails in a recording or in the
\* replay of a faithful log, and none of AddrTracker with an edited schedule.
THEOREM ReplayHasNoInternalError == Spec => []NoInternalError
<1>1. ReplayInvariant => NoInternalError
  <2>1. SUFFICES ASSUME ReplayInvariant, outcome = "internal"
                 PROVE  edited /\ tracker \in RelaxedTrackers \ {"addr"}
    BY DEF NoInternalError
  <2>2. phase = "replay"
    BY <2>1 DEF ReplayInvariant, RecordInv
  <2>3. QED
    BY <2>1, <2>2 DEF ReplayInvariant, ReplayInv
<1>2. QED
  BY <1>1, ReplayCorrect, PTL

\* ReplayInStep: what a replay has logged, followed by what it still has to
\* read, is a prefix of the recorded log.
THEOREM ReplayStaysInStep == Spec => []ReplayInStep
<1>1. ReplayInvariant => ReplayInStep
  <2>1. SUFFICES ASSUME ReplayInvariant, phase = "replay", read_schedule # <<>>
                 PROVE  IsPrefix(schedule \o read_schedule, file.schedule)
    BY DEF ReplayInStep
  <2> DEFINE L == file.schedule
             A == schedule
             B == read_schedule
  <2>2. Running /\ tracker \in LogTrackers /\ tracker \notin RelaxedTrackers
    BY <2>1 DEF ReplayInvariant, ReplayInv
  <2>3. InStep
    BY <2>1, <2>2 DEF ReplayInvariant, ReplayInv, Follows
  <2>4. PICK p, k, j : Poised(p, k, j, p[j].n, schedule, read_schedule, rel.signals)
    BY <2>3 DEF InStep
  <2> DEFINE n == p[j].n
  <2>5. /\ A \in Seq(Info) /\ n \in 0..Len(L) /\ Len(A) = n /\ \A q \in 1..n : A[q] = L[q]
        /\ B \in Seq(Info) /\ n + Len(B) <= Len(L) /\ \A q \in 1..Len(B) : B[q] = L[n + q]
        /\ L \in Seq(Info)
    BY <2>2, <2>4 DEF Poised, Copies, Guide, Recording, LogOK
  <2> HIDE DEF L, A, B, n
  <2>6. Len(L) \in Nat /\ Len(B) \in Nat /\ n \in Nat
    BY <2>5, LenProperties
  <2> DEFINE C == A \o B
             m == n + Len(B)
  <2>7. /\ C \in Seq(Info) /\ Len(C) = Len(A) + Len(B)
        /\ \A q \in 1..(Len(A) + Len(B)) : C[q] = IF q <= Len(A) THEN A[q] ELSE B[q - Len(A)]
    BY <2>5, ConcatProperties
  <2> HIDE DEF C
  <2>8. Len(C) = m /\ m \in Nat /\ m <= Len(L)
    BY <2>5, <2>6, <2>7
  <2>9. ASSUME NEW q \in 1..m PROVE C[q] = L[q]
    <3>1. CASE q <= n
      <4>1. q \in 1..n /\ q \in 1..(n + Len(B))
        BY <2>6, <3>1
      <4>2. QED
        BY <2>5, <2>7, <3>1, <4>1
    <3>2. CASE ~(q <= n)
      <4>1. q \in 1..(n + Len(B)) /\ q - n \in 1..Len(B) /\ n + (q - n) = q
        BY <2>6, <3>2
      <4>2. QED
        BY <2>5, <2>7, <3>2, <4>1
    <3>3. QED
      BY <3>1, <3>2
  <2>10. SubSeq(C, 1, m) = SubSeq(L, 1, m)
    <3>1. Len(B) # 0
      BY <2>1, <2>5, EmptySeq DEF B
    <3>2. /\ 1 \in 1..(Len(C) + 1) /\ m \in 1..Len(C) /\ 1 <= m
          /\ 1 \in 1..(Len(L) + 1) /\ m \in 1..Len(L) /\ m - 1 + 1 = m
      BY <2>6, <2>8, <3>1
    <3> DEFINE X == SubSeq(C, 1, m)
               Y == SubSeq(L, 1, m)
    <3>3. /\ X \in Seq(Info) /\ Len(X) = m /\ \A q \in 1..(m - 1 + 1) : X[q] = C[1 + q - 1]
      BY <2>7, <3>2, SubSeqProperties
    <3>4. /\ Y \in Seq(Info) /\ Len(Y) = m /\ \A q \in 1..(m - 1 + 1) : Y[q] = L[1 + q - 1]
      BY <2>5, <3>2, SubSeqProperties
    <3> HIDE DEF X, Y, m
    <3>5. ASSUME NEW q \in 1..m PROVE X[q] = Y[q]
      <4>1. q \in 1..(m - 1 + 1) /\ 1 + q - 1 = q
        BY <2>8, <3>2
      <4>2. QED
        BY <2>9, <3>3, <3>4, <4>1
    <3>6. X = Y
      BY <3>3, <3>4, <3>5, SeqEqual
    <3>7. QED
      BY <3>6 DEF X, Y
  <2>11. QED
    BY <2>8, <2>10 DEF IsPrefix, C, A, B, L
<1>2. QED
  BY <1>1, ReplayCorrect, PTL

=============================================================================
