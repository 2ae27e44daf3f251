------------------------ MODULE RandomActive_proofs ------------------------
(***************************************************************************)
(* Active testing, for any programs and any target files: a paused thread  *)
(* stays paused until it is let go, a reported deadlock is one of the      *)
(* program, and a reported race is a race.                                 *)
(*                                                                         *)
(* The argument: what is filed of a thread under mutexes and condition     *)
(* variables is what its operation waits for, and a thread is disabled     *)
(* because of that, because its operation blocks, or because it is paused. *)
(* A paused thread has not moved since its info was taken.                 *)
(***************************************************************************)
EXTENDS RandomActive, FiniteSetTheorems, SequenceTheorems, WellFoundedInduction, TLAPS

-----------------------------------------------------------------------------
(***************************************************************************)
(* The inductive invariant.                                                *)
(***************************************************************************)
Fields == {"prog", "pc", "owner", "enabled", "lock_wait_map", "lock_ready_map",
           "cond_map", "relock"}

\* A record with the fields of a state.
Shaped(s) ==
  /\ s = [f \in Fields |-> s[f]]
  /\ s.pc \in [Thread -> Nat] /\ s.enabled \in SUBSET Thread /\ s.relock \in SUBSET Thread
  /\ s.owner = [m \in Mutex |-> s.owner[m]]
  /\ s.lock_wait_map = [t \in Thread |-> s.lock_wait_map[t]]
  /\ s.lock_ready_map = [t \in Thread |-> s.lock_ready_map[t]]
  /\ s.cond_map = [t \in Thread |-> s.cond_map[t]]

IsProgram(prog) == \A t \in Thread : IsCode(prog[t])

AtOp(s, t, ops) == InOp(s, t) /\ Op(s, t).op \in ops

Locks == {"lock", "trylock"}
Waits == {"wait", "timedwait"}

\* The operation of thread t is one that takes the mutex l.
Wants(s, t, l) ==
  \/ AtOp(s, t, Locks) /\ l = Op(s, t).obj
  \/ AtOp(s, t, Waits) /\ t \in s.relock /\ l = Op(s, t).lock

\* What is filed of thread t is what its operation waits for.
Filed(s, t) ==
  /\ s.cond_map[t] # NULL => AtOp(s, t, Waits) /\ t \notin s.relock
  /\ t \in s.relock => AtOp(s, t, Waits)
  /\ LET l == s.lock_wait_map[t]
     IN  l # NULL => Wants(s, t, l) /\ s.owner[l] # INVALID_THREAD
  /\ LET l == s.lock_ready_map[t]
     IN  l # NULL => Wants(s, t, l) /\ s.owner[l] = INVALID_THREAD

\* A thread that is filed as waiting for a mutex is not enabled.
WaitsDisabled(s, t) == s.lock_wait_map[t] # NULL => t \notin s.enabled

\* Thread t has a reason of the program to be disabled.
Stuck(s, t) ==
  \/ Finished(s, t)
  \/ s.lock_wait_map[t] # NULL
  \/ AtOp(s, t, {"wait"}) /\ t \notin s.relock
  \/ AtOp(s, t, {"join"}) /\ ~Finished(s, Op(s, t).obj)

Sane(s) == Shaped(s) /\ IsProgram(s.prog) /\ \A t \in Thread : Filed(s, t)

\* Thread t is at the access that i describes, and may be paused there.
Described(s, t, i) ==
  /\ i.me = t /\ AtTarget(s, t) /\ i.addr = Object(Op(s, t))
  /\ IF isLockRace THEN Wants(s, t, i.addr)
                   ELSE AtOp(s, t, {"read", "write"}) /\ (i.iswrite <=> Op(s, t).op = "write")

\* Only a thread that has been paused is filed for the mutex of a trylock.
TrylockFiled(a, t) ==
  AtOp(a.st, t, {"trylock"}) /\ (a.st.lock_wait_map[t] # NULL \/ a.st.lock_ready_map[t] # NULL)
    => a.info[t].me = t

\* A state of the program in which the threads P may be paused.
Good(s, P) ==
  /\ Sane(s)
  /\ \A t \in Thread : WaitsDisabled(s, t) /\ (t \in s.enabled \cup P \/ Stuck(s, t))

TesterFields == {"st", "paused", "info", "found"}

TesterOK(a) ==
  /\ a = [f \in TesterFields |-> a[f]]
  /\ Good(a.st, a.paused) /\ a.paused \in SUBSET Thread
  /\ a.info = [t \in Thread |-> a.info[t]]
  /\ \A t \in Thread :
       /\ TrylockFiled(a, t)
       /\ t \in a.paused => t \notin a.st.enabled /\ Described(a.st, t, a.info[t])

ActiveInv ==
  /\ cur \in Thread /\ phase \in {"begin", "run", "prevent", "pick", "ended"}
  /\ phase = "run" => cur \in st.enabled
  /\ TesterOK(Tester)

-----------------------------------------------------------------------------
(***************************************************************************)
(* The steps of the program.                                               *)
(***************************************************************************)

\* Thread u is filed under a mutex.
Queued(s, u) == s.lock_wait_map[u] # NULL \/ s.lock_ready_map[u] # NULL

\* From s to r another thread has moved, which released a mutex if rel.
Unmoved(s, r, u, rel) ==
  /\ r.pc[u] = s.pc[u] /\ (u \in s.relock => u \in r.relock)
  /\ AtOp(s, u, {"trylock"}) /\ Queued(r, u) => Queued(s, u)
  /\ u \in r.enabled => \/ u \in s.enabled \/ s.cond_map[u] # NULL
                          \/ AtOp(s, u, {"join"}) \/ (rel /\ Queued(s, u))

\* The other threads have not moved from s to r.
Others(s, r, t, rel) == \A u \in Thread \ {t} : Unmoved(s, r, u, rel)

\* The operation of a thread follows from the program and its place in it.
LEMMA SameOp ==
  ASSUME NEW s, NEW r, r.prog = s.prog, NEW u, r.pc[u] = s.pc[u]
  PROVE  /\ \A ops : AtOp(r, u, ops) <=> AtOp(s, u, ops)
         /\ Op(r, u) = Op(s, u) /\ (InOp(r, u) <=> InOp(s, u)) /\ (Finished(r, u) <=> Finished(s, u))
BY DEF AtOp, InOp, Op, Finished

LEMMA SameWants ==
  ASSUME NEW s, NEW r, r.prog = s.prog, NEW u, r.pc[u] = s.pc[u], u \in s.relock => u \in r.relock
  PROVE  \A l : Wants(s, u, l) => Wants(r, u, l)
BY SameOp DEF Wants

\* What an operation names.
LEMMA OpIs ==
  ASSUME NEW s, Shaped(s), IsProgram(s.prog), NEW t \in Thread, InOp(s, t)
  PROVE  IsOperation(Op(s, t))
BY DEF IsProgram, IsCode, InOp, Op

\* A thread wants one mutex at most.
LEMMA WantsOne ==
  ASSUME NEW s, NEW t, NEW l, NEW k, Wants(s, t, l), Wants(s, t, k)
  PROVE  l = k
BY DEF Wants, AtOp, Locks, Waits

\* ... and it is a mutex.
LEMMA WantsMutex ==
  ASSUME NEW s, Sane(s), NEW t \in Thread, NEW l, Wants(s, t, l)
  PROVE  l \in Mutex
<1>1. InOp(s, t) /\ IsOperation(Op(s, t))
  BY OpIs DEF Sane, Wants, AtOp
<1>2. QED
  BY <1>1 DEF IsOperation, Wants, AtOp, Locks, Waits

\* threadHasAcquiredLock: thread t, which is enabled, takes the mutex l.
LEMMA Acquires ==
  ASSUME NEW s, NEW P, Good(s, P), NEW t \in Thread, t \in s.enabled, NEW l \in Mutex
  PROVE  LET r == threadHasAcquiredLock(s, t, l)
         IN  /\ Good(r, P) /\ r.prog = s.prog /\ r.pc = s.pc /\ r.relock = s.relock
             /\ r.cond_map = s.cond_map /\ t \in r.enabled
             /\ r.lock_wait_map[t] = NULL /\ r.lock_ready_map[t] = NULL
             /\ \A u \in Thread \ {t} : Unmoved(s, r, u, FALSE) /\ (Queued(r, u) => Queued(s, u))
<1> DEFINE r == threadHasAcquiredLock(s, t, l)
           others == {u \in Thread \ {t} : s.lock_ready_map[u] = l}
<1>1. /\ r.prog = s.prog /\ r.pc = s.pc /\ r.relock = s.relock /\ r.cond_map = s.cond_map
      /\ r.enabled = s.enabled \ others
      /\ \A m \in Mutex : r.owner[m] = IF m = l THEN t ELSE s.owner[m]
      /\ \A u \in Thread : r.lock_wait_map[u] = IF u \in others THEN l ELSE s.lock_wait_map[u]
      /\ \A u \in Thread : r.lock_ready_map[u] = IF u \in others \cup {t} THEN NULL ELSE s.lock_ready_map[u]
  BY DEF Good, Sane, Shaped, Fields, threadHasAcquiredLock
<1>2. Shaped(r)
  BY DEF Good, Sane, Shaped, Fields, threadHasAcquiredLock
<1>3. \A u \in Thread : u \in others <=> u # t /\ s.lock_ready_map[u] = l
  OBVIOUS
<1>4. t # INVALID_THREAD /\ l # NULL
  BY InputAssumption, ProgramAssumption DEF Thread, INVALID_THREAD
<1> HIDE DEF r, others
<1>5. ASSUME NEW u \in Thread
      PROVE  /\ Filed(r, u) /\ WaitsDisabled(r, u)
             /\ u \in r.enabled \cup P \/ Stuck(r, u)
  <2>1. Filed(s, u) /\ WaitsDisabled(s, u) /\ (u \in s.enabled \cup P \/ Stuck(s, u))
    BY DEF Good, Sane
  <2>2. /\ \A ops : AtOp(r, u, ops) <=> AtOp(s, u, ops)
        /\ Op(r, u) = Op(s, u) /\ (Finished(r, u) <=> Finished(s, u))
        /\ \A k : Wants(s, u, k) => Wants(r, u, k)
    BY <1>1, SameOp, SameWants
  <2>3. Filed(r, u)
    <3>1. \A k : Wants(s, u, k) => k \in Mutex
      BY WantsMutex DEF Good
    <3>2. QED
      BY <1>1, <1>3, <1>4, <2>1, <2>2, <3>1 DEF Filed
  <2>4. WaitsDisabled(r, u)
    BY <1>1, <1>3, <2>1 DEF WaitsDisabled
  <2>5. u \in r.enabled \cup P \/ Stuck(r, u)
    <3>1. CASE u \in others
      BY <1>1, <1>4, <3>1 DEF Stuck
    <3>2. CASE u \notin others
      <4>1. \A k : Finished(r, k) <=> Finished(s, k)
        BY <1>1, SameOp
      <4>2. QED
        BY <1>1, <2>1, <2>2, <3>2, <4>1 DEF Stuck
    <3>3. QED
      BY <3>1, <3>2
  <2>6. QED
    BY <2>3, <2>4, <2>5
<1>6. Good(r, P)
  BY <1>1, <1>2, <1>5 DEF Good, Sane
<1>7. t \in r.enabled /\ r.lock_wait_map[t] = NULL /\ r.lock_ready_map[t] = NULL
  <2>1. WaitsDisabled(s, t)
    BY DEF Good
  <2>2. QED
    BY <1>1, <1>3, <2>1 DEF WaitsDisabled
<1>8. ASSUME NEW u \in Thread \ {t}
      PROVE  Unmoved(s, r, u, FALSE) /\ (Queued(r, u) => Queued(s, u))
  BY <1>1, <1>3, <1>4 DEF Unmoved, Queued
<1>9. QED
  BY <1>1, <1>6, <1>7, <1>8 DEF r

\* threadHasReleasedLock: the mutex l is released.
LEMMA Releases ==
  ASSUME NEW s, NEW P, Good(s, P), NEW l \in Mutex
  PROVE  LET r == threadHasReleasedLock(s, l)
         IN  /\ Good(r, P) /\ r.prog = s.prog /\ r.pc = s.pc /\ r.relock = s.relock
             /\ r.cond_map = s.cond_map
             /\ \A u \in Thread :
                  /\ Unmoved(s, r, u, TRUE) /\ (u \in s.enabled => u \in r.enabled)
                  /\ ~Queued(s, u) => ~Queued(r, u)
<1> DEFINE r == threadHasReleasedLock(s, l)
           woken == {u \in Thread : s.lock_wait_map[u] = l}
<1>1. /\ r.prog = s.prog /\ r.pc = s.pc /\ r.relock = s.relock /\ r.cond_map = s.cond_map
      /\ r.enabled = s.enabled \cup woken
      /\ \A m \in Mutex : r.owner[m] = IF m = l THEN INVALID_THREAD ELSE s.owner[m]
      /\ \A u \in Thread : r.lock_wait_map[u] = IF u \in woken THEN NULL ELSE s.lock_wait_map[u]
      /\ \A u \in Thread : r.lock_ready_map[u] = IF u \in woken THEN l ELSE s.lock_ready_map[u]
  BY DEF Good, Sane, Shaped, Fields, threadHasReleasedLock
<1>2. Shaped(r)
  BY DEF Good, Sane, Shaped, Fields, threadHasReleasedLock
<1>3. \A u \in Thread : u \in woken <=> s.lock_wait_map[u] = l
  OBVIOUS
<1>4. l # NULL
  BY InputAssumption
<1> HIDE DEF r, woken
<1>5. ASSUME NEW u \in Thread
      PROVE  /\ Filed(r, u) /\ WaitsDisabled(r, u)
             /\ u \in r.enabled \cup P \/ Stuck(r, u)
  <2>1. Filed(s, u) /\ WaitsDisabled(s, u) /\ (u \in s.enabled \cup P \/ Stuck(s, u))
    BY DEF Good, Sane
  <2>2. /\ \A ops : AtOp(r, u, ops) <=> AtOp(s, u, ops)
        /\ Op(r, u) = Op(s, u) /\ (Finished(r, u) <=> Finished(s, u))
        /\ \A k : Wants(s, u, k) => Wants(r, u, k)
    BY <1>1, SameOp, SameWants
  <2>3. Filed(r, u)
    <3>1. \A k : Wants(s, u, k) => k \in Mutex
      BY WantsMutex DEF Good
    <3>2. QED
      BY <1>1, <1>3, <1>4, <2>1, <2>2, <3>1 DEF Filed
  <2>4. WaitsDisabled(r, u)
    BY <1>1, <1>3, <2>1 DEF WaitsDisabled
  <2>5. u \in r.enabled \cup P \/ Stuck(r, u)
    <3>1. CASE u \in woken
      BY <1>1, <3>1
    <3>2. CASE u \notin woken
      <4>1. \A k : Finished(r, k) <=> Finished(s, k)
        BY <1>1, SameOp
      <4>2. QED
        BY <1>1, <2>1, <2>2, <3>2, <4>1 DEF Stuck
    <3>3. QED
      BY <3>1, <3>2
  <2>6. QED
    BY <2>3, <2>4, <2>5
<1>6. Good(r, P)
  BY <1>1, <1>2, <1>5 DEF Good, Sane
<1>7. ASSUME NEW u \in Thread
      PROVE  /\ Unmoved(s, r, u, TRUE) /\ (u \in s.enabled => u \in r.enabled)
             /\ ~Queued(s, u) => ~Queued(r, u)
  BY <1>1, <1>3, <1>4 DEF Unmoved, Queued
<1>8. QED
  BY <1>1, <1>6, <1>7 DEF r

\* The same threads are at the same operations, and none has moved on.
Stays(s, r) ==
  /\ r.prog = s.prog /\ r.pc = s.pc /\ r.relock = s.relock
  /\ r.cond_map = s.cond_map /\ r.owner = s.owner

\* What is filed of thread u, and whether it is enabled, is as in s.
Same(s, r, u) ==
  /\ r.lock_wait_map[u] = s.lock_wait_map[u] /\ r.lock_ready_map[u] = s.lock_ready_map[u]
  /\ u \in r.enabled <=> u \in s.enabled

\* The state r after thread t has got in line for the mutex of its operation:
\* it is no longer disabled for being paused.
InLine(s, r, P, t) ==
  /\ Good(r, P) /\ Stays(s, r)
  /\ t \in r.enabled \/ Stuck(r, t)
  /\ \A u \in Thread \ {t} : Same(s, r, u) /\ Unmoved(s, r, u, FALSE)

\* determineLockStatus: thread t gets in line.
LEMMA Determines ==
  ASSUME NEW s, NEW P, Good(s, P), NEW t \in Thread, NEW l, Wants(s, t, l)
  PROVE  InLine(s, determineLockStatus(s, t, l), P, t)
<1> DEFINE r == determineLockStatus(s, t, l)
           free == s.owner[l] = INVALID_THREAD
<1>1. /\ r.prog = s.prog /\ r.pc = s.pc /\ r.relock = s.relock /\ r.cond_map = s.cond_map
      /\ r.owner = s.owner
      /\ r.enabled = IF free THEN s.enabled \cup {t} ELSE s.enabled \ {t}
      /\ \A u \in Thread : r.lock_wait_map[u] = IF u = t /\ ~free THEN l ELSE s.lock_wait_map[u]
      /\ \A u \in Thread : r.lock_ready_map[u] = IF u = t /\ free THEN l ELSE s.lock_ready_map[u]
  BY DEF Good, Sane, Shaped, Fields, determineLockStatus, enableThread, disableThread
<1>2. Shaped(r)
  BY DEF Good, Sane, Shaped, Fields, determineLockStatus, enableThread, disableThread
<1>3. l \in Mutex /\ l # NULL
  BY WantsMutex, InputAssumption DEF Good
<1>4. \A k : Wants(s, t, k) => k = l
  BY WantsOne
<1> HIDE DEF r
<1>5. ASSUME NEW u \in Thread
      PROVE  /\ Filed(r, u) /\ WaitsDisabled(r, u)
             /\ u \in r.enabled \/ (u \in P /\ u # t) \/ Stuck(r, u)
  <2>1. Filed(s, u) /\ WaitsDisabled(s, u) /\ (u \in s.enabled \cup P \/ Stuck(s, u))
    BY DEF Good, Sane
  <2>2. /\ \A ops : AtOp(r, u, ops) <=> AtOp(s, u, ops)
        /\ Op(r, u) = Op(s, u) /\ (Finished(r, u) <=> Finished(s, u))
        /\ \A k : Wants(s, u, k) => Wants(r, u, k)
    BY <1>1, SameOp, SameWants
  <2>3. Filed(r, u) /\ WaitsDisabled(r, u)
    BY <1>1, <1>3, <1>4, <2>1, <2>2 DEF Filed, WaitsDisabled
  <2>4. u \in r.enabled \/ (u \in P /\ u # t) \/ Stuck(r, u)
    <3>1. CASE u = t
      <4>1. free => t \in r.enabled
        BY <1>1
      <4>2. ~free => r.lock_wait_map[t] # NULL
        BY <1>1, <1>3
      <4>3. QED
        BY <3>1, <4>1, <4>2 DEF Stuck
    <3>2. CASE u # t
      <4>1. \A k : Finished(r, k) <=> Finished(s, k)
        BY <1>1, SameOp
      <4>2. QED
        BY <1>1, <2>1, <2>2, <3>2, <4>1 DEF Stuck
    <3>3. QED
      BY <3>1, <3>2
  <2>5. QED
    BY <2>3, <2>4
<1>6. Good(r, P) /\ (t \in r.enabled \/ Stuck(r, t))
  BY <1>1, <1>2, <1>5 DEF Good, Sane
<1>7. ASSUME NEW u \in Thread \ {t}
      PROVE  Same(s, r, u) /\ Unmoved(s, r, u, FALSE)
  BY <1>1 DEF Same, Unmoved, Queued
<1>8. QED
  BY <1>1, <1>6, <1>7 DEF InLine, Stays, r

\* ... when it arrives.
LEMMA LinesUp ==
  ASSUME NEW s, NEW P, Good(s, P), NEW t \in Thread, NEW l, Wants(s, t, l)
  PROVE  LET r == determineLockStatus(s, t, l)
         IN  Good(r, P) /\ r.prog = s.prog /\ r.pc = s.pc /\ Others(s, r, t, FALSE)
<1> DEFINE r == determineLockStatus(s, t, l)
<1>1. InLine(s, r, P, t)
  BY Determines
<1> HIDE DEF r
<1>2. QED
  BY <1>1 DEF InLine, Stays, Others, r

\* leaveCond: the threads W leave their condition variables.
LEMMA Leaving ==
  ASSUME NEW s, NEW P, Good(s, P), NEW W \in SUBSET Thread,
         \A w \in W : s.cond_map[w] # NULL /\ w \notin P
  PROVE  LET r == leaveCond(s, W)
         IN  /\ Good(r, P) /\ r.prog = s.prog /\ r.pc = s.pc
             /\ \A u \in Thread : u \in r.relock <=> u \in s.relock \/ u \in W
             /\ \A u \in Thread : Unmoved(s, r, u, FALSE)
             /\ \A u \in Thread \ W : u \in s.enabled => u \in r.enabled
<1> DEFINE r == leaveCond(s, W)
           lock(t) == Op(s, t).lock
           ready == {t \in W : s.owner[lock(t)] = INVALID_THREAD}
<1>1. /\ r.prog = s.prog /\ r.pc = s.pc /\ r.relock = s.relock \cup W
      /\ \A u \in Thread : r.cond_map[u] = IF u \in W THEN NULL ELSE s.cond_map[u]
      /\ r.owner = s.owner
      /\ r.enabled = (s.enabled \ W) \cup ready
      /\ \A u \in Thread : r.lock_wait_map[u] = IF u \in W \ ready THEN lock(u) ELSE s.lock_wait_map[u]
      /\ \A u \in Thread : r.lock_ready_map[u] = IF u \in ready THEN lock(u) ELSE s.lock_ready_map[u]
  BY DEF Good, Sane, Shaped, Fields, leaveCond
<1>2. Shaped(r)
  BY DEF Good, Sane, Shaped, Fields, leaveCond
<1>3. \A u \in Thread : u \in ready <=> u \in W /\ s.owner[lock(u)] = INVALID_THREAD
  OBVIOUS
<1> HIDE DEF r, ready
<1>4. ASSUME NEW u \in Thread
      PROVE  /\ Filed(r, u) /\ WaitsDisabled(r, u)
             /\ u \in r.enabled \cup P \/ Stuck(r, u)
             /\ u \in W => ~Queued(s, u) /\ AtOp(s, u, Waits)
  <2>1. Filed(s, u) /\ WaitsDisabled(s, u) /\ (u \in s.enabled \cup P \/ Stuck(s, u))
    BY DEF Good, Sane
  <2>2. /\ \A ops : AtOp(r, u, ops) <=> AtOp(s, u, ops)
        /\ Op(r, u) = Op(s, u) /\ (Finished(r, u) <=> Finished(s, u))
        /\ \A k : Wants(s, u, k) => Wants(r, u, k)
        /\ \A k : Finished(r, k) <=> Finished(s, k)
    BY <1>1, SameOp, SameWants
  <2>3. CASE u \notin W
    <3>1. Filed(r, u) /\ WaitsDisabled(r, u)
      BY <1>1, <1>3, <2>1, <2>2, <2>3 DEF Filed, WaitsDisabled
    <3>2. u \in r.enabled \cup P \/ Stuck(r, u)
      BY <1>1, <1>3, <2>1, <2>2, <2>3 DEF Stuck
    <3>3. QED
      BY <2>3, <3>1, <3>2
  <2>4. CASE u \in W
    <3>1. AtOp(s, u, Waits) /\ u \notin s.relock
      BY <2>1, <2>4 DEF Filed
    <3>2. ~Queued(s, u)
      BY <2>1, <3>1 DEF Queued, Filed, Wants, AtOp, Locks, Waits
    <3>3. Wants(r, u, lock(u))
      BY <1>1, <2>2, <2>4, <3>1 DEF Wants
    <3>4. lock(u) # NULL
      <4>1. IsOperation(Op(s, u))
        BY <3>1, OpIs DEF Good, Sane, AtOp
      <4>2. QED
        BY <3>1, <4>1, InputAssumption DEF IsOperation, AtOp, Waits
    <3>5. Filed(r, u)
      BY <1>1, <1>3, <2>2, <2>4, <3>1, <3>2, <3>3 DEF Filed, Queued
    <3>6. WaitsDisabled(r, u) /\ (u \in r.enabled \/ Stuck(r, u))
      BY <1>1, <1>3, <2>4, <3>2, <3>4 DEF WaitsDisabled, Queued, Stuck
    <3>7. QED
      BY <3>1, <3>2, <3>5, <3>6
  <2>5. QED
    BY <2>3, <2>4
<1>5. Good(r, P)
  BY <1>1, <1>2, <1>4 DEF Good, Sane
<1>6. ASSUME NEW u \in Thread PROVE Unmoved(s, r, u, FALSE)
  <2>1. u \in W => ~AtOp(s, u, {"trylock"})
    BY <1>4 DEF AtOp, Waits
  <2>2. u \notin W => (Queued(r, u) <=> Queued(s, u))
    BY <1>1, <1>3 DEF Queued
  <2>3. QED
    BY <1>1, <1>3, <2>1, <2>2 DEF Unmoved
<1>7. QED
  BY <1>1, <1>3, <1>5, <1>6 DEF r

\* Nothing is filed of thread t, which may run.
Clear(s, t) ==
  /\ t \in s.enabled /\ s.cond_map[t] = NULL /\ t \notin s.relock
  /\ ~Queued(s, t)

\* Steps of another thread in a row.
LEMMA UnmovedTwice ==
  ASSUME NEW s, NEW c, NEW r, NEW t, c.prog = s.prog, c.cond_map = s.cond_map,
         Others(s, c, t, FALSE), Others(c, r, t, TRUE),
         \A u \in Thread \ {t} : Queued(c, u) => Queued(s, u)
  PROVE  Others(s, r, t, TRUE) /\ (Others(c, r, t, FALSE) => Others(s, r, t, FALSE))
<1>1. ASSUME NEW u \in Thread \ {t}
      PROVE  Unmoved(s, r, u, TRUE) /\ (Unmoved(c, r, u, FALSE) => Unmoved(s, r, u, FALSE))
  <2>1. Unmoved(s, c, u, FALSE) /\ Unmoved(c, r, u, TRUE)
    BY DEF Others
  <2>2. \A ops : AtOp(c, u, ops) <=> AtOp(s, u, ops)
    BY <2>1, SameOp DEF Unmoved
  <2>3. QED
    BY <2>1, <2>2 DEF Unmoved
<1>2. QED
  BY <1>1 DEF Others

\* A step that releases no mutex is one that may.
LEMMA UnmovedWeaker ==
  ASSUME NEW s, NEW r, NEW t, Others(s, r, t, FALSE)
  PROVE  Others(s, r, t, TRUE)
BY DEF Others, Unmoved

\* Complete: thread t ends its operation, and nothing is filed of it.
LEMMA Completes ==
  ASSUME NEW s, NEW P, Good(s, P), NEW t \in Thread, t \in s.enabled, s.cond_map[t] = NULL
  PROVE  LET c == Complete(s, t)
         IN  /\ Good(c, P) /\ c.prog = s.prog /\ c.pc = s.pc /\ c.cond_map = s.cond_map
             /\ Clear(c, t) /\ Others(s, c, t, FALSE)
             /\ \A u \in Thread \ {t} : Queued(c, u) => Queued(s, u)
<1> DEFINE o == Op(s, t)
           r == threadHasAcquiredLock(s, t, o.lock)
           q == [r EXCEPT !.relock = @ \ {t}]
           a == threadHasAcquiredLock(s, t, o.obj)
           c == Complete(s, t)
           Done(d) == /\ Good(d, P) /\ d.prog = s.prog /\ d.pc = s.pc /\ d.cond_map = s.cond_map
                      /\ Clear(d, t) /\ Others(s, d, t, FALSE)
                      /\ \A u \in Thread \ {t} : Queued(d, u) => Queued(s, u)
<1>1. c = IF ~InOp(s, t) THEN s
          ELSE CASE o.op = "lock" -> a
                 [] o.op = "trylock" /\ s.owner[o.obj] = INVALID_THREAD -> a
                 [] t \in s.relock -> q
                 [] OTHER -> s
  BY DEF Complete
<1>2. Filed(s, t) /\ WaitsDisabled(s, t)
  BY DEF Good, Sane
<1>3. s.lock_wait_map[t] = NULL
  BY <1>2 DEF WaitsDisabled
<1>4. InOp(s, t) => IsOperation(o)
  BY OpIs DEF Good, Sane
<1>5. CASE InOp(s, t) /\ o.op \in Locks /\ (o.op = "lock" \/ s.owner[o.obj] = INVALID_THREAD)
  <2>1. t \notin s.relock
    BY <1>2, <1>5 DEF Filed, AtOp, Locks, Waits
  <2>2. c = a
    BY <1>1, <1>5, <2>1 DEF Locks
  <2>3. o.obj \in Mutex
    BY <1>4, <1>5 DEF IsOperation, Locks
  <2>4. /\ Good(a, P) /\ a.prog = s.prog /\ a.pc = s.pc /\ a.relock = s.relock
        /\ a.cond_map = s.cond_map /\ t \in a.enabled
        /\ a.lock_wait_map[t] = NULL /\ a.lock_ready_map[t] = NULL
        /\ \A u \in Thread \ {t} : Unmoved(s, a, u, FALSE) /\ (Queued(a, u) => Queued(s, u))
    BY <2>3, Acquires
  <2>5. QED
    BY <2>1, <2>2, <2>4 DEF Clear, Queued, Others
<1>6. CASE t \in s.relock
  <2>1. AtOp(s, t, Waits)
    BY <1>2, <1>6 DEF Filed
  <2>2. InOp(s, t) /\ o.op \in Waits
    BY <2>1 DEF AtOp
  <2>3. c = q
    BY <1>1, <1>6, <2>2 DEF Waits
  <2>4. o.lock \in Mutex
    BY <1>4, <2>2 DEF IsOperation, Waits
  <2>5. /\ Good(r, P) /\ r.prog = s.prog /\ r.pc = s.pc /\ r.relock = s.relock
        /\ r.cond_map = s.cond_map /\ t \in r.enabled
        /\ r.lock_wait_map[t] = NULL /\ r.lock_ready_map[t] = NULL
        /\ \A u \in Thread \ {t} : Unmoved(s, r, u, FALSE) /\ (Queued(r, u) => Queued(s, u))
    BY <2>4, Acquires
  <2> HIDE DEF r
  <2>6. /\ Shaped(q) /\ q.relock = r.relock \ {t}
        /\ q.prog = r.prog /\ q.pc = r.pc /\ q.cond_map = r.cond_map /\ q.enabled = r.enabled
        /\ q.owner = r.owner
        /\ q.lock_wait_map = r.lock_wait_map /\ q.lock_ready_map = r.lock_ready_map
    BY <2>5 DEF Good, Sane, Shaped, Fields
  <2> HIDE DEF q
  <2>7. ASSUME NEW u \in Thread
        PROVE  /\ Filed(q, u) /\ WaitsDisabled(q, u)
               /\ u \in q.enabled \cup P \/ Stuck(q, u)
    <3>1. Filed(r, u) /\ WaitsDisabled(r, u) /\ (u \in r.enabled \cup P \/ Stuck(r, u))
      BY <2>5 DEF Good, Sane
    <3>2. /\ \A ops : AtOp(q, u, ops) <=> AtOp(r, u, ops)
          /\ Op(q, u) = Op(r, u) /\ (\A k : Finished(q, k) <=> Finished(r, k))
      BY <2>6, SameOp
    <3>3. u # t => \A k : Wants(r, u, k) => Wants(q, u, k)
      BY <2>6, SameWants
    <3>4. Filed(q, u) /\ WaitsDisabled(q, u)
      BY <2>5, <2>6, <3>1, <3>2, <3>3 DEF Filed, WaitsDisabled
    <3>5. u \in q.enabled \cup P \/ Stuck(q, u)
      BY <2>5, <2>6, <3>1, <3>2 DEF Stuck
    <3>6. QED
      BY <3>4, <3>5
  <2>8. Good(q, P)
    BY <2>5, <2>6, <2>7 DEF Good, Sane
  <2>9. Clear(q, t)
    BY <1>6, <2>5, <2>6, <2>1 DEF Clear, Queued
  <2>10. \A u \in Thread \ {t} : Unmoved(s, q, u, FALSE) /\ (Queued(q, u) => Queued(s, u))
    BY <2>5, <2>6 DEF Unmoved, Queued
  <2>11. QED
    BY <2>3, <2>5, <2>6, <2>8, <2>9, <2>10 DEF Others
<1>7. CASE /\ t \notin s.relock
           /\ ~(InOp(s, t) /\ o.op \in Locks /\ (o.op = "lock" \/ s.owner[o.obj] = INVALID_THREAD))
  <2>1. c = s
    <3> HIDE DEF a, q
    <3>1. QED
      BY <1>1, <1>7 DEF Locks
  <2>2. s.lock_ready_map[t] = NULL
    BY <1>2, <1>7 DEF Filed, Wants, AtOp, Locks
  <2>3. Clear(s, t)
    BY <1>3, <1>7, <2>2 DEF Clear, Queued
  <2>4. Others(s, s, t, FALSE)
    BY DEF Others, Unmoved
  <2>5. QED
    BY <2>1, <2>3, <2>4
<1>8. QED
  BY <1>5, <1>6, <1>7

\* Thread t has gone on to its next operation, or to its end.
LEMMA Moves ==
  ASSUME NEW c, NEW P, Good(c, P), NEW t \in Thread, Clear(c, t)
  PROVE  LET n == [c EXCEPT !.pc[t] = @ + 1]
         IN  /\ Shaped(n) /\ n.prog = c.prog /\ n.enabled = c.enabled /\ n.cond_map = c.cond_map
             /\ n.relock = c.relock /\ n.owner = c.owner
             /\ n.lock_wait_map = c.lock_wait_map /\ n.lock_ready_map = c.lock_ready_map
             /\ n.pc[t] = c.pc[t] + 1 /\ \A u \in Thread \ {t} : n.pc[u] = c.pc[u]
             /\ Clear(n, t) /\ Others(c, n, t, FALSE)
             /\ \A u \in Thread : Filed(n, u) /\ WaitsDisabled(n, u)
             /\ ~Finished(n, t) => Good(n, P) /\ InOp(n, t)
<1> DEFINE n == [c EXCEPT !.pc[t] = @ + 1]
<1>1. /\ Shaped(n) /\ n.prog = c.prog /\ n.enabled = c.enabled /\ n.cond_map = c.cond_map
      /\ n.relock = c.relock /\ n.owner = c.owner
      /\ n.lock_wait_map = c.lock_wait_map /\ n.lock_ready_map = c.lock_ready_map
      /\ n.pc[t] = c.pc[t] + 1 /\ \A u \in Thread \ {t} : n.pc[u] = c.pc[u]
  BY DEF Good, Sane, Shaped, Fields
<1> HIDE DEF n
<1>2. Clear(n, t)
  BY <1>1 DEF Clear, Queued
<1>3. Others(c, n, t, FALSE)
  BY <1>1 DEF Others, Unmoved, Queued
<1>4. ASSUME NEW u \in Thread PROVE Filed(n, u) /\ WaitsDisabled(n, u)
  <2>1. Filed(c, u) /\ WaitsDisabled(c, u)
    BY DEF Good, Sane
  <2>2. CASE u = t
    BY <1>2, <2>2 DEF Clear, Queued, Filed, WaitsDisabled
  <2>3. CASE u # t
    <3>1. /\ \A ops : AtOp(n, u, ops) <=> AtOp(c, u, ops)
          /\ \A k : Wants(c, u, k) => Wants(n, u, k)
      BY <1>1, <2>3, SameOp, SameWants
    <3>2. QED
      BY <1>1, <2>1, <3>1 DEF Filed, WaitsDisabled
  <2>4. QED
    BY <2>2, <2>3
<1>5. ASSUME ~Finished(n, t) PROVE Good(n, P) /\ InOp(n, t)
  <2>1. InOp(n, t)
    <3>1. IsCode(c.prog[t])
      BY DEF Good, Sane, IsProgram
    <3>2. Len(c.prog[t]) \in Nat /\ DOMAIN c.prog[t] = 1..Len(c.prog[t])
      BY <3>1, LenProperties DEF IsCode
    <3>3. c.pc[t] \in Nat
      BY DEF Good, Sane, Shaped
    <3>4. QED
      BY <1>1, <1>5, <3>2, <3>3 DEF Finished, InOp
  <2>2. ASSUME NEW u \in Thread
        PROVE  u \in n.enabled \cup P \/ Stuck(n, u)
    <3>1. CASE u = t
      BY <1>2, <3>1 DEF Clear
    <3>2. CASE u # t
      <4>1. u \in c.enabled \cup P \/ Stuck(c, u)
        BY DEF Good
      <4>2. /\ \A ops : AtOp(n, u, ops) <=> AtOp(c, u, ops)
            /\ Op(n, u) = Op(c, u) /\ (Finished(n, u) <=> Finished(c, u))
        BY <1>1, <3>2, SameOp
      <4>3. AtOp(c, u, {"join"}) => Op(c, u).obj \in Thread
        BY OpIs DEF Good, Sane, AtOp, IsOperation
      <4>4. \A k \in Thread : ~Finished(c, k) => ~Finished(n, k)
        BY <1>1, <1>5, SameOp
      <4>5. QED
        BY <1>1, <4>1, <4>2, <4>3, <4>4 DEF Stuck
    <3>3. QED
      BY <3>1, <3>2
  <2>3. QED
    BY <1>1, <1>4, <2>1, <2>2 DEF Good, Sane
<1>6. QED
  BY <1>1, <1>2, <1>3, <1>4, <1>5 DEF n

\* threadFinish: the end of thread t.
LEMMA Finishes ==
  ASSUME NEW c, NEW P, Good(c, P), NEW t \in Thread, Clear(c, t),
         Finished([c EXCEPT !.pc[t] = @ + 1], t)
  PROVE  LET r == threadFinish([c EXCEPT !.pc[t] = @ + 1], t)
         IN  Good(r, P) /\ r.prog = c.prog /\ Others(c, r, t, FALSE) /\ Finished(r, t)
<1> DEFINE n == [c EXCEPT !.pc[t] = @ + 1]
           r == threadFinish(n, t)
           joiners == {u \in Thread : InOp(n, u) /\ Op(n, u).op = "join" /\ Op(n, u).obj = t}
<1>1. /\ Shaped(n) /\ n.prog = c.prog /\ n.enabled = c.enabled /\ n.cond_map = c.cond_map
      /\ n.relock = c.relock /\ n.owner = c.owner
      /\ n.lock_wait_map = c.lock_wait_map /\ n.lock_ready_map = c.lock_ready_map
      /\ n.pc[t] = c.pc[t] + 1 /\ \A u \in Thread \ {t} : n.pc[u] = c.pc[u]
      /\ Clear(n, t) /\ Others(c, n, t, FALSE)
      /\ \A u \in Thread : Filed(n, u) /\ WaitsDisabled(n, u)
  BY Moves
<1>2. Finished(n, t)
  OBVIOUS
<1> HIDE DEF n
<1>3. /\ Shaped(r) /\ r.prog = n.prog /\ r.pc = n.pc /\ r.enabled = (n.enabled \ {t}) \cup joiners
      /\ r.cond_map = n.cond_map
      /\ r.relock = n.relock /\ r.owner = n.owner
      /\ r.lock_wait_map = n.lock_wait_map /\ r.lock_ready_map = n.lock_ready_map
  BY <1>1 DEF Shaped, Fields, threadFinish
<1>4. \A u \in Thread : u \in joiners <=> AtOp(n, u, {"join"}) /\ Op(n, u).obj = t
  BY DEF AtOp
<1>5. ~InOp(n, t)
  <2>1. IsCode(c.prog[t])
    BY DEF Good, Sane, IsProgram
  <2>2. Len(c.prog[t]) \in Nat /\ DOMAIN c.prog[t] = 1..Len(c.prog[t])
    BY <2>1, LenProperties DEF IsCode
  <2>3. c.pc[t] \in Nat
    BY DEF Good, Sane, Shaped
  <2>4. QED
    BY <1>1, <1>2, <2>2, <2>3 DEF Finished, InOp
<1> HIDE DEF r, joiners
<1>6. ASSUME NEW u \in Thread
      PROVE  /\ Filed(r, u) /\ WaitsDisabled(r, u)
             /\ u \in r.enabled \cup P \/ Stuck(r, u)
  <2>1. Filed(n, u) /\ WaitsDisabled(n, u)
    BY <1>1
  <2>2. /\ \A ops : AtOp(r, u, ops) <=> AtOp(n, u, ops)
        /\ Op(r, u) = Op(n, u) /\ (\A k : Finished(r, k) <=> Finished(n, k))
        /\ \A k : Wants(n, u, k) => Wants(r, u, k)
    BY <1>3, SameOp, SameWants
  <2>3. Filed(r, u)
    BY <1>3, <2>1, <2>2 DEF Filed
  <2>4. WaitsDisabled(r, u)
    <3>1. u \in joiners => n.lock_wait_map[u] = NULL
      BY <1>4, <2>1 DEF Filed, Wants, AtOp, Locks, Waits
    <3>2. QED
      BY <1>3, <2>1, <3>1 DEF WaitsDisabled
  <2>5. u \in r.enabled \cup P \/ Stuck(r, u)
    <3>1. CASE u = t
      BY <1>2, <2>2, <3>1 DEF Stuck
    <3>2. CASE u # t
      <4>1. u \in c.enabled \cup P \/ Stuck(c, u)
        BY DEF Good
      <4>2. /\ \A ops : AtOp(n, u, ops) <=> AtOp(c, u, ops)
            /\ Op(n, u) = Op(c, u) /\ (Finished(n, u) <=> Finished(c, u))
        BY <1>1, <3>2, SameOp
      <4>3. AtOp(c, u, {"join"}) => Op(c, u).obj \in Thread
        BY OpIs DEF Good, Sane, AtOp, IsOperation
      <4>4. \A k \in Thread \ {t} : ~Finished(c, k) => ~Finished(n, k)
        BY <1>1, SameOp
      <4>5. CASE u \in joiners
        BY <1>3, <4>5
      <4>6. CASE u \notin joiners
        BY <1>1, <1>3, <1>4, <2>2, <3>2, <4>1, <4>2, <4>3, <4>4, <4>6 DEF Stuck
      <4>7. QED
        BY <4>5, <4>6
    <3>3. QED
      BY <3>1, <3>2
  <2>6. QED
    BY <2>3, <2>4, <2>5
<1>7. Good(r, P)
  BY <1>1, <1>3, <1>6 DEF Good, Sane
<1>8. ASSUME NEW u \in Thread \ {t} PROVE Unmoved(c, r, u, FALSE)
  <2>1. \A ops : AtOp(n, u, ops) <=> AtOp(c, u, ops)
    BY <1>1, SameOp
  <2>2. QED
    BY <1>1, <1>3, <1>4, <2>1 DEF Unmoved, Queued
<1>9. QED
  BY <1>1, <1>2, <1>3, <1>7, <1>8, SameOp DEF Others, n, r

\* enterCond: thread t enters a wait.
LEMMA Enters ==
  ASSUME NEW s, NEW P, Good(s, P), NEW t \in Thread, Clear(s, t), AtOp(s, t, Waits)
  PROVE  LET r == enterCond(s, t, Op(s, t))
         IN  Good(r, P) /\ r.prog = s.prog /\ r.pc = s.pc /\ Others(s, r, t, TRUE)
<1> DEFINE o == Op(s, t)
           f == threadHasReleasedLock(s, o.lock)
           w == [f EXCEPT !.cond_map[t] = o.obj]
           r == enterCond(s, t, o)
<1>1. IsOperation(o) /\ o.op \in Waits
  BY OpIs DEF Good, Sane, AtOp
<1>2. o.lock \in Mutex
  BY <1>1 DEF IsOperation, Waits
<1>3. /\ Good(f, P) /\ f.prog = s.prog /\ f.pc = s.pc /\ f.relock = s.relock
      /\ f.cond_map = s.cond_map
      /\ \A u \in Thread : Unmoved(s, f, u, TRUE) /\ (u \in s.enabled => u \in f.enabled)
      /\ ~Queued(f, t)
  BY <1>2, Releases DEF Clear
<1>4. r = IF o.op = "wait" THEN disableThread(w, t) ELSE enableThread(w, t)
  BY DEF enterCond
<1> HIDE DEF o, f
<1>5. /\ Shaped(r) /\ r.prog = f.prog /\ r.pc = f.pc /\ r.relock = f.relock /\ r.owner = f.owner
      /\ r.lock_wait_map = f.lock_wait_map /\ r.lock_ready_map = f.lock_ready_map
      /\ \A u \in Thread \ {t} : r.cond_map[u] = f.cond_map[u] /\ (u \in r.enabled <=> u \in f.enabled)
      /\ t \in r.enabled <=> o.op # "wait"
  <2>1. /\ Shaped(w) /\ w.prog = f.prog /\ w.pc = f.pc /\ w.relock = f.relock /\ w.owner = f.owner
        /\ w.lock_wait_map = f.lock_wait_map /\ w.lock_ready_map = f.lock_ready_map
        /\ \A u \in Thread \ {t} : w.cond_map[u] = f.cond_map[u]
        /\ w.enabled = f.enabled
    BY <1>3 DEF Good, Sane, Shaped, Fields
  <2> HIDE DEF w
  <2>2. CASE o.op = "wait"
    <3>1. r = [w EXCEPT !.enabled = @ \ {t}]
      BY <1>4, <2>2 DEF disableThread
    <3> HIDE DEF r
    <3>2. QED
      BY <2>1, <2>2, <3>1 DEF Shaped, Fields
  <2>3. CASE o.op # "wait"
    <3>1. r = [w EXCEPT !.enabled = @ \cup {t}]
      BY <1>4, <2>3 DEF enableThread
    <3> HIDE DEF r
    <3>2. QED
      BY <2>1, <2>3, <3>1 DEF Shaped, Fields
  <2>4. QED
    BY <2>2, <2>3
<1> HIDE DEF r, w
<1>6. ASSUME NEW u \in Thread
      PROVE  /\ Filed(r, u) /\ WaitsDisabled(r, u)
             /\ u \in r.enabled \cup P \/ Stuck(r, u)
  <2>1. Filed(f, u) /\ WaitsDisabled(f, u) /\ (u \in f.enabled \cup P \/ Stuck(f, u))
    BY <1>3 DEF Good, Sane
  <2>2. /\ \A ops : AtOp(r, u, ops) <=> AtOp(f, u, ops)
        /\ Op(r, u) = Op(f, u) /\ (\A k : Finished(r, k) <=> Finished(f, k))
        /\ \A k : Wants(f, u, k) => Wants(r, u, k)
    BY <1>5, SameOp, SameWants
  <2>3. CASE u = t
    <3>1. AtOp(r, t, Waits) /\ Op(r, t) = o /\ t \notin r.relock
      BY <1>3, <1>5, SameOp DEF Clear, o
    <3>2. Filed(r, t) /\ WaitsDisabled(r, t)
      BY <1>3, <1>5, <3>1 DEF Queued, Filed, WaitsDisabled
    <3>3. t \in r.enabled \/ Stuck(r, t)
      BY <1>5, <3>1 DEF Stuck, AtOp
    <3>4. QED
      BY <2>3, <3>2, <3>3
  <2>4. CASE u # t
    BY <1>5, <2>1, <2>2, <2>4 DEF Filed, WaitsDisabled, Stuck
  <2>5. QED
    BY <2>3, <2>4
<1>7. Good(r, P)
  BY <1>3, <1>5, <1>6 DEF Good, Sane
<1>8. Others(s, r, t, TRUE)
  BY <1>3, <1>5 DEF Others, Unmoved, Queued
<1>9. QED
  BY <1>3, <1>5, <1>7, <1>8 DEF r, o

\* The state r after thread t has arrived at its next operation o.
Arrived(s, r, P, t, o) ==
  /\ Good(r, P) /\ r.prog = s.prog
  /\ Others(s, r, t, TRUE)
  /\ o.op \notin {"unlock", "wait", "timedwait"} => Others(s, r, t, FALSE)
  /\ AtOp(r, t, {"trylock"}) => ~Queued(r, t)

\* Thread t arrives at its next operation.
LEMMA Arrives ==
  ASSUME NEW c, NEW P, Good(c, P), NEW t \in Thread, Clear(c, t),
         c.pc[t] < Len(c.prog[t]), NEW o, o = c.prog[t][c.pc[t] + 1],
         NEW sig, sig # INVALID_THREAD => sig \in Thread /\ c.cond_map[sig] # NULL,
         \A u \in P : c.cond_map[u] = NULL
  PROVE  LET r == Arrive(c, t, sig)
         IN  /\ Arrived(c, r, P, t, o) /\ InOp(r, t) /\ Op(r, t) = o
             /\ o.op = "signal" /\ sig # INVALID_THREAD => sig \in r.relock
             /\ o.op = "broadcast" => OnCond(c, o.obj) \subseteq r.relock
<1> DEFINE n == [c EXCEPT !.pc[t] = @ + 1]
           r == Arrive(c, t, sig)
           Goal(d) == /\ Good(d, P) /\ d.prog = n.prog /\ d.pc = n.pc
                      /\ Others(n, d, t, TRUE)
                      /\ o.op \notin {"unlock", "wait", "timedwait"} => Others(n, d, t, FALSE)
                      /\ o.op = "trylock" => ~Queued(d, t)
                      /\ o.op = "signal" /\ sig # INVALID_THREAD => sig \in d.relock
                      /\ o.op = "broadcast" => OnCond(c, o.obj) \subseteq d.relock
<1>1. /\ Shaped(n) /\ n.prog = c.prog /\ n.enabled = c.enabled /\ n.cond_map = c.cond_map
      /\ n.relock = c.relock /\ n.owner = c.owner
      /\ n.lock_wait_map = c.lock_wait_map /\ n.lock_ready_map = c.lock_ready_map
      /\ n.pc[t] = c.pc[t] + 1 /\ \A u \in Thread \ {t} : n.pc[u] = c.pc[u]
      /\ Clear(n, t) /\ Others(c, n, t, FALSE)
      /\ ~Finished(n, t) => Good(n, P) /\ InOp(n, t)
  BY Moves
<1>2. ~Finished(n, t) /\ Op(n, t) = o
  <2> HIDE DEF n
  <2>1. IsCode(c.prog[t])
    BY DEF Good, Sane, IsProgram
  <2>2. Len(c.prog[t]) \in Nat /\ c.pc[t] \in Nat
    BY <2>1, LenProperties DEF IsCode, Good, Sane, Shaped
  <2>3. QED
    BY <1>1, <2>2 DEF Finished, Op
<1>3. r = IF Finished(n, t) THEN threadFinish(n, t)
          ELSE CASE Op(n, t).op = "lock"    -> determineLockStatus(n, t, Op(n, t).obj)
                 [] Op(n, t).op = "trylock" -> enableThread(n, t)
                 [] Op(n, t).op = "unlock"  -> threadHasReleasedLock(n, Op(n, t).obj)
                 [] Op(n, t).op \in {"wait", "timedwait"} -> enterCond(n, t, Op(n, t))
                 [] Op(n, t).op = "signal"  -> IF sig = INVALID_THREAD THEN n ELSE leaveCond(n, {sig})
                 [] Op(n, t).op = "broadcast" -> leaveCond(n, OnCond(n, Op(n, t).obj))
                 [] Op(n, t).op = "join" ->
                      IF Finished(n, Op(n, t).obj) THEN enableThread(n, t) ELSE disableThread(n, t)
                 [] OTHER -> n
  BY Zenon DEF Arrive
<1>4. OnCond(n, o.obj) = OnCond(c, o.obj)
  BY <1>1 DEF OnCond
<1> HIDE DEF n, r
<1>5. Good(n, P) /\ InOp(n, t) /\ IsOperation(o)
  BY <1>1, <1>2, OpIs DEF Good, Sane
<1>6. r = CASE o.op = "lock"    -> determineLockStatus(n, t, o.obj)
            [] o.op = "trylock" -> enableThread(n, t)
            [] o.op = "unlock"  -> threadHasReleasedLock(n, o.obj)
            [] o.op \in {"wait", "timedwait"} -> enterCond(n, t, o)
            [] o.op = "signal"  -> IF sig = INVALID_THREAD THEN n ELSE leaveCond(n, {sig})
            [] o.op = "broadcast" -> leaveCond(n, OnCond(n, o.obj))
            [] o.op = "join" ->
                 IF Finished(n, o.obj) THEN enableThread(n, t) ELSE disableThread(n, t)
            [] OTHER -> n
  BY <1>2, <1>3
<1>7. Others(n, n, t, FALSE) /\ \A d : Others(n, d, t, FALSE) => Others(n, d, t, TRUE)
  BY UnmovedWeaker DEF Others, Unmoved
<1>8. ~Queued(n, t)
  BY <1>1 DEF Clear
<1>9. enableThread(n, t) = n
  <2>1. n.enabled \cup {t} = n.enabled
    BY <1>1 DEF Clear
  <2>2. QED
    BY <1>1, <2>1 DEF enableThread, Shaped, Fields
<1>10. o.op \notin {"signal", "broadcast"} => Goal(n)
  BY <1>5, <1>7, <1>8
<1>18. SUFFICES Goal(r)
  <2>1. SUFFICES ASSUME Goal(r)
                 PROVE  /\ Arrived(c, r, P, t, o) /\ InOp(r, t) /\ Op(r, t) = o
                        /\ o.op = "signal" /\ sig # INVALID_THREAD => sig \in r.relock
                        /\ o.op = "broadcast" => OnCond(c, o.obj) \subseteq r.relock
    BY DEF r
  <2>2. InOp(r, t) /\ Op(r, t) = o
    BY <1>2, <1>5, <2>1, SameOp
  <2>3. \A u \in Thread \ {t} : Queued(n, u) => Queued(c, u)
    BY <1>1 DEF Queued
  <2>4. Others(c, r, t, TRUE) /\ (Others(n, r, t, FALSE) => Others(c, r, t, FALSE))
    BY <1>1, <2>1, <2>3, UnmovedTwice
  <2>5. AtOp(r, t, {"trylock"}) => ~Queued(r, t)
    BY <2>1, <2>2 DEF AtOp
  <2>6. QED
    BY <1>1, <2>1, <2>2, <2>4, <2>5 DEF Arrived
<1>11. CASE o.op = "lock"
  <2> DEFINE d == determineLockStatus(n, t, o.obj)
  <2>1. Wants(n, t, o.obj)
    BY <1>2, <1>5, <1>11 DEF Wants, AtOp, Locks
  <2>2. r = d
    BY <1>6, <1>11
  <2>3. Good(d, P) /\ d.prog = n.prog /\ d.pc = n.pc /\ Others(n, d, t, FALSE)
    BY <1>5, <2>1, LinesUp
  <2> HIDE DEF d
  <2>4. QED
    BY <1>7, <1>11, <2>2, <2>3
<1>12. CASE o.op \in {"trylock"}
  BY <1>6, <1>9, <1>10, <1>12
<1>13. CASE o.op = "unlock"
  <2>1. r = threadHasReleasedLock(n, o.obj) /\ o.obj \in Mutex
    BY <1>5, <1>6, <1>13 DEF IsOperation
  <2> DEFINE d == threadHasReleasedLock(n, o.obj)
  <2>2. /\ Good(d, P) /\ d.prog = n.prog /\ d.pc = n.pc
        /\ \A u \in Thread : Unmoved(n, d, u, TRUE)
    BY <1>5, <2>1, Releases
  <2> HIDE DEF d
  <2>3. Others(n, d, t, TRUE)
    BY <2>2 DEF Others
  <2>4. QED
    BY <1>13, <2>1, <2>2, <2>3 DEF d
<1>14. CASE o.op \in {"wait", "timedwait"}
  <2>1. r = enterCond(n, t, o) /\ AtOp(n, t, Waits)
    BY <1>2, <1>5, <1>6, <1>14 DEF AtOp, Waits
  <2>2. Good(r, P) /\ r.prog = n.prog /\ r.pc = n.pc /\ Others(n, r, t, TRUE)
    BY <1>1, <1>2, <1>5, <2>1, Enters
  <2>3. QED
    BY <1>14, <2>2
<1>15. CASE o.op \in {"signal", "broadcast"}
  <2>1. ASSUME NEW W \in SUBSET Thread, \A w \in W : n.cond_map[w] # NULL
        PROVE  LET d == leaveCond(n, W)
               IN  /\ Good(d, P) /\ d.prog = n.prog /\ d.pc = n.pc /\ W \subseteq d.relock
                   /\ Others(n, d, t, FALSE)
    <3>1. \A w \in W : n.cond_map[w] # NULL /\ w \notin P
      BY <1>1, <2>1
    <3> DEFINE d == leaveCond(n, W)
    <3>2. /\ Good(d, P) /\ d.prog = n.prog /\ d.pc = n.pc
          /\ \A u \in Thread : u \in d.relock <=> u \in n.relock \/ u \in W
          /\ \A u \in Thread : Unmoved(n, d, u, FALSE)
      BY <1>5, <3>1, Leaving
    <3> HIDE DEF d
    <3>3. Others(n, d, t, FALSE)
      BY <3>2 DEF Others
    <3>4. QED
      BY <3>2, <3>3 DEF d
  <2>2. CASE o.op = "signal" /\ sig = INVALID_THREAD
    BY <1>5, <1>6, <1>7, <2>2
  <2>3. CASE o.op = "signal" /\ sig # INVALID_THREAD
    <3>1. r = leaveCond(n, {sig})
      BY <1>6, <2>3
    <3>2. {sig} \in SUBSET Thread /\ \A w \in {sig} : n.cond_map[w] # NULL
      BY <1>1, <2>3
    <3>3. QED
      BY <1>7, <2>1, <2>3, <3>1, <3>2
  <2>4. CASE o.op = "broadcast"
    <3>1. r = leaveCond(n, OnCond(n, o.obj))
      BY <1>6, <2>4
    <3>2. o.obj \in Cond /\ o.obj # NULL
      BY <1>5, <2>4, InputAssumption DEF IsOperation
    <3>3. OnCond(n, o.obj) \in SUBSET Thread /\ \A w \in OnCond(n, o.obj) : n.cond_map[w] # NULL
      BY <3>2 DEF OnCond
    <3>4. QED
      BY <1>4, <1>7, <2>1, <2>4, <3>1, <3>3
  <2>5. QED
    BY <1>15, <2>2, <2>3, <2>4
<1>16. CASE o.op = "join"
  <2>1. CASE Finished(n, o.obj)
    BY <1>6, <1>9, <1>10, <1>16, <2>1
  <2>2. CASE ~Finished(n, o.obj)
    <3>1. r = disableThread(n, t)
      BY <1>6, <1>16, <2>2
    <3>2. /\ Shaped(r) /\ r.prog = n.prog /\ r.pc = n.pc /\ r.enabled = n.enabled \ {t}
          /\ r.cond_map = n.cond_map /\ r.relock = n.relock /\ r.owner = n.owner
          /\ r.lock_wait_map = n.lock_wait_map /\ r.lock_ready_map = n.lock_ready_map
      BY <1>1, <3>1 DEF Shaped, Fields, disableThread
    <3>3. ASSUME NEW u \in Thread
          PROVE  /\ Filed(r, u) /\ WaitsDisabled(r, u)
                 /\ u \in r.enabled \cup P \/ Stuck(r, u)
      <4>1. Filed(n, u) /\ WaitsDisabled(n, u) /\ (u \in n.enabled \cup P \/ Stuck(n, u))
        BY <1>5 DEF Good, Sane
      <4>2. /\ \A ops : AtOp(r, u, ops) <=> AtOp(n, u, ops)
            /\ Op(r, u) = Op(n, u) /\ (\A k : Finished(r, k) <=> Finished(n, k))
            /\ \A k : Wants(n, u, k) => Wants(r, u, k)
        BY <3>2, SameOp, SameWants
      <4>3. u = t => AtOp(n, u, {"join"}) /\ ~Finished(n, Op(n, u).obj)
        BY <1>2, <1>5, <1>16, <2>2 DEF AtOp
      <4>4. Filed(r, u) /\ WaitsDisabled(r, u)
        BY <3>2, <4>1, <4>2 DEF Filed, WaitsDisabled
      <4>5. u \in r.enabled \cup P \/ Stuck(r, u)
        BY <3>2, <4>1, <4>2, <4>3 DEF Stuck
      <4>6. QED
        BY <4>4, <4>5
    <3>4. Good(r, P)
      BY <1>5, <3>2, <3>3 DEF Good, Sane
    <3>5. Others(n, r, t, FALSE)
      BY <3>2 DEF Others, Unmoved, Queued
    <3>6. QED
      BY <1>7, <1>16, <3>2, <3>4, <3>5
  <2>3. QED
    BY <2>1, <2>2
<1>17. CASE o.op \notin {"lock", "trylock", "unlock", "wait", "timedwait", "signal", "broadcast", "join"}
  <2>1. r = n
    BY <1>6, <1>17
  <2>2. QED
    BY <1>10, <1>17, <2>1
<1>19. QED
  BY <1>11, <1>12, <1>13, <1>14, <1>15, <1>16, <1>17

\* The hooks after a release are on the way to this scheduling point.
Releasing(s, t) == ~TimesOut(s, t) /\ NextOp(s, t).op \in {"unlock", "wait", "timedwait"}

\* The state r after thread t has run to its next scheduling point.
Ran(s, r, P, t, sig) ==
  LET o == NextOp(s, t)
  IN  /\ Good(r, P) /\ r.prog = s.prog
      /\ Others(s, r, t, TRUE) /\ (~Releasing(s, t) => Others(s, r, t, FALSE))
      /\ AtOp(r, t, {"trylock"}) => ~Queued(r, t)
      /\ TimesOut(s, t) => t \in r.relock
      /\ ~TimesOut(s, t) /\ o.op \in Locks \cup {"read", "write"} => InOp(r, t) /\ Op(r, t) = o
      /\ sig # INVALID_THREAD => sig \in r.relock /\ sig # t /\ ~TimesOut(s, t) /\ o.op = "signal"
      /\ ~TimesOut(s, t) /\ o.op = "broadcast" =>
           \A u \in OnCond(s, o.obj) : u \in r.relock /\ u # t

\* Run: thread t runs to its next scheduling point.
LEMMA Runs ==
  ASSUME NEW s, NEW P, Good(s, P), NEW t \in Thread, t \in s.enabled, t \notin P,
         \A u \in P : s.cond_map[u] = NULL,
         NEW sig \in IF SignalTargets(s, t) = {} THEN {INVALID_THREAD} ELSE SignalTargets(s, t)
  PROVE  Ran(s, Run(s, t, sig), P, t, sig)
<1> DEFINE r == Run(s, t, sig)
           o == NextOp(s, t)
           c == Complete(s, t)
<1>0. SUFFICES /\ Good(r, P) /\ r.prog = s.prog
               /\ Others(s, r, t, TRUE) /\ (~Releasing(s, t) => Others(s, r, t, FALSE))
               /\ AtOp(r, t, {"trylock"}) => ~Queued(r, t)
               /\ TimesOut(s, t) => t \in r.relock
               /\ ~TimesOut(s, t) /\ o.op \in Locks \cup {"read", "write"} => InOp(r, t) /\ Op(r, t) = o
               /\ sig # INVALID_THREAD => sig \in r.relock /\ sig # t /\ ~TimesOut(s, t) /\ o.op = "signal"
               /\ ~TimesOut(s, t) /\ o.op = "broadcast" =>
                    \A u \in OnCond(s, o.obj) : u \in r.relock /\ u # t
  BY DEF Ran
<1>1. sig # INVALID_THREAD => /\ sig \in Thread /\ ~TimesOut(s, t) /\ o.op = "signal"
                              /\ sig \in OnCond(s, o.obj)
  BY DEF SignalTargets, OnCond
<1>2. CASE TimesOut(s, t)
  <2>1. AtOp(s, t, Waits)
    BY <1>2 DEF TimesOut, Good, Sane, Filed
  <2>2. r = leaveCond(s, {t}) /\ sig = INVALID_THREAD
    BY <1>1, <1>2 DEF Run
  <2>3. /\ Good(r, P) /\ r.prog = s.prog /\ r.pc = s.pc /\ t \in r.relock
        /\ \A u \in Thread : Unmoved(s, r, u, FALSE)
    <3>1. {t} \in SUBSET Thread /\ \A w \in {t} : s.cond_map[w] # NULL /\ w \notin P
      BY <1>2 DEF TimesOut
    <3> DEFINE W == {t}
               d == leaveCond(s, W)
    <3>2. W \in SUBSET Thread /\ (\A w \in W : s.cond_map[w] # NULL /\ w \notin P) /\ t \in W
      BY <3>1
    <3> HIDE DEF W
    <3>3. /\ Good(d, P) /\ d.prog = s.prog /\ d.pc = s.pc
          /\ \A u \in Thread : u \in d.relock <=> u \in s.relock \/ u \in W
          /\ \A u \in Thread : Unmoved(s, d, u, FALSE)
      BY <3>2, Leaving
    <3> HIDE DEF r, d
    <3>4. r = d
      BY <2>2 DEF d, W
    <3>5. QED
      BY <3>2, <3>3, <3>4
  <2>4. ~AtOp(r, t, {"trylock"})
    BY <2>1, <2>3, SameOp DEF AtOp, Waits
  <2>5. Others(s, r, t, FALSE) /\ Others(s, r, t, TRUE)
    BY <2>3, UnmovedWeaker DEF Others
  <2> HIDE DEF r
  <2>6. QED
    BY <1>2, <2>2, <2>3, <2>4, <2>5 DEF r
<1>3. CASE ~TimesOut(s, t) /\ Polls(s, t)
  <2>1. r = s /\ o = Op(s, t) /\ o.op = "poll" /\ InOp(s, t)
    BY <1>3 DEF Run, NextOp, Polls
  <2>2. Others(s, s, t, FALSE) /\ Others(s, s, t, TRUE)
    BY DEF Others, Unmoved
  <2>3. ~AtOp(s, t, {"trylock"}) /\ sig = INVALID_THREAD
    BY <1>1, <2>1 DEF AtOp
  <2> HIDE DEF r, o
  <2>4. QED
    BY <1>3, <2>1, <2>2, <2>3 DEF r, o, Locks
<1>4. CASE ~TimesOut(s, t) /\ ~Polls(s, t)
  <2>1. s.cond_map[t] = NULL
    BY <1>4 DEF TimesOut
  <2>2. /\ Good(c, P) /\ c.prog = s.prog /\ c.pc = s.pc /\ c.cond_map = s.cond_map
        /\ Clear(c, t) /\ Others(s, c, t, FALSE)
        /\ \A u \in Thread \ {t} : Queued(c, u) => Queued(s, u)
    BY <2>1, Completes
  <2>3. r = Arrive(c, t, sig)
    BY <1>4 DEF Run
  <2> HIDE DEF c, r
  <2>4. CASE s.pc[t] < Len(s.prog[t])
    <3>1. o = c.prog[t][c.pc[t] + 1] /\ c.pc[t] < Len(c.prog[t])
      BY <1>4, <2>2, <2>4 DEF NextOp
    <3>2. IsOperation(o)
      <4>1. IsCode(s.prog[t])
        BY DEF Good, Sane, IsProgram
      <4>2. Len(s.prog[t]) \in Nat /\ DOMAIN s.prog[t] = 1..Len(s.prog[t]) /\ s.pc[t] \in Nat
        BY <4>1, LenProperties DEF IsCode, Good, Sane, Shaped
      <4>3. s.pc[t] + 1 \in DOMAIN s.prog[t]
        BY <2>4, <4>2
      <4>4. QED
        BY <2>2, <3>1, <4>1, <4>3 DEF IsCode
    <3> HIDE DEF o
    <3>3. o.op \in {"signal", "broadcast"} => o.obj # NULL
      BY <3>2, InputAssumption DEF IsOperation
    <3>4. sig # INVALID_THREAD => sig \in Thread /\ c.cond_map[sig] # NULL
      BY <1>1, <2>2, <3>3 DEF OnCond
    <3>5. \A u \in P : c.cond_map[u] = NULL
      BY <2>2
    <3>6. /\ Arrived(c, r, P, t, o) /\ InOp(r, t) /\ Op(r, t) = o
          /\ o.op = "signal" /\ sig # INVALID_THREAD => sig \in r.relock
          /\ o.op = "broadcast" => OnCond(c, o.obj) \subseteq r.relock
      BY <2>2, <2>3, <3>1, <3>4, <3>5, Arrives
    <3>7. Others(s, r, t, TRUE) /\ (~Releasing(s, t) => Others(s, r, t, FALSE))
      <4>1. Releasing(s, t) <=> o.op \in {"unlock", "wait", "timedwait"}
        BY <1>4 DEF Releasing, o
      <4>2. Others(s, r, t, TRUE) /\ (Others(c, r, t, FALSE) => Others(s, r, t, FALSE))
        BY <2>2, <3>6, UnmovedTwice DEF Arrived
      <4>3. QED
        BY <3>6, <4>1, <4>2 DEF Arrived
    <3>8. o.op \in {"signal", "broadcast"} => \A u \in OnCond(s, o.obj) : u # t
      BY <2>1, <3>3 DEF OnCond
    <3>9. OnCond(c, o.obj) = OnCond(s, o.obj)
      BY <2>2 DEF OnCond
    <3>10. QED
      BY <1>1, <1>4, <2>2, <3>6, <3>7, <3>8, <3>9 DEF Arrived, r, o
  <2>5. CASE ~(s.pc[t] < Len(s.prog[t]))
    <3> DEFINE n == [c EXCEPT !.pc[t] = @ + 1]
    <3>1. o = [op |-> "finish", at |-> FinishAddr]
      BY <1>4, <2>5 DEF NextOp
    <3>2. o.op = "finish" /\ sig = INVALID_THREAD
      BY <1>1, <3>1
    <3>3. Finished(n, t)
      <4>1. n.prog = c.prog /\ n.pc[t] = c.pc[t] + 1
        BY <2>2, Moves
      <4>2. IsCode(s.prog[t])
        BY DEF Good, Sane, IsProgram
      <4>3. Len(s.prog[t]) \in Nat /\ s.pc[t] \in Nat
        BY <4>2, LenProperties DEF IsCode, Good, Sane, Shaped
      <4> HIDE DEF n
      <4>4. QED
        BY <2>2, <2>5, <4>1, <4>3 DEF Finished
    <3>4. r = threadFinish(n, t)
      BY <2>3, <3>3 DEF Arrive
    <3>5. Good(r, P) /\ r.prog = c.prog /\ Others(c, r, t, FALSE) /\ Finished(r, t)
      BY <2>2, <3>3, <3>4, Finishes
    <3> HIDE DEF n
    <3>6. ~InOp(r, t)
      <4>1. IsCode(r.prog[t])
        BY <3>5 DEF Good, Sane, IsProgram
      <4>2. Len(r.prog[t]) \in Nat /\ DOMAIN r.prog[t] = 1..Len(r.prog[t]) /\ r.pc[t] \in Nat
        BY <3>5, <4>1, LenProperties DEF IsCode, Good, Sane, Shaped
      <4>3. QED
        BY <3>5, <4>2 DEF Finished, InOp
    <3>7. Others(s, r, t, FALSE) /\ Others(s, r, t, TRUE)
      <4>1. Others(c, r, t, TRUE)
        BY <3>5, UnmovedWeaker
      <4>2. QED
        BY <2>2, <3>5, <4>1, UnmovedTwice
    <3> HIDE DEF o
    <3>9. QED
      BY <1>4, <2>2, <3>2, <3>5, <3>6, <3>7 DEF AtOp, r, o, Locks
  <2>6. QED
    BY <2>4, <2>5
<1>5. QED
  BY <1>2, <1>3, <1>4

-----------------------------------------------------------------------------
(***************************************************************************)
(* The steps of the tester.                                                *)
(***************************************************************************)

\* What holds of a thread in such a state.
LEMMA SameState ==
  ASSUME NEW s, NEW r, Stays(s, r), NEW u, Same(s, r, u)
  PROVE  /\ Filed(r, u) <=> Filed(s, u)
         /\ WaitsDisabled(r, u) <=> WaitsDisabled(s, u)
         /\ Stuck(r, u) <=> Stuck(s, u)
         /\ Queued(r, u) <=> Queued(s, u)
<1>1. /\ \A ops : AtOp(r, u, ops) <=> AtOp(s, u, ops)
      /\ Op(r, u) = Op(s, u) /\ (\A k : Finished(r, k) <=> Finished(s, k))
  BY SameOp DEF Stays
<1>2. \A l : Wants(r, u, l) <=> Wants(s, u, l)
  BY <1>1 DEF Wants, Stays
<1>3. QED
  BY <1>1, <1>2 DEF Stays, Same, Filed, WaitsDisabled, Stuck, Queued

\* ... and of what it is paused at.
LEMMA SameDescription ==
  ASSUME NEW s, NEW r, r.prog = s.prog, NEW u, r.pc[u] = s.pc[u], u \in s.relock => u \in r.relock
  PROVE  \A i : Described(s, u, i) => Described(r, u, i)
<1>1. /\ \A ops : AtOp(r, u, ops) <=> AtOp(s, u, ops)
      /\ Op(r, u) = Op(s, u) /\ (InOp(r, u) <=> InOp(s, u))
  BY SameOp
<1>2. \A l : Wants(s, u, l) => Wants(r, u, l)
  BY SameWants
<1>3. QED
  BY <1>1, <1>2 DEF Described, AtTarget

\* The tester after it has let the threads R go, and nothing else.
LetGo(a, b, R) ==
  /\ TesterOK(b) /\ Stays(a.st, b.st) /\ b.info = a.info
  /\ \A u \in Thread : u \in b.paused <=> u \in a.paused /\ u \notin R

\* reenableThreadIfLegal: thread t gets in line for what it was paused at.
LEMMA Reenables ==
  ASSUME NEW a, TesterOK(a), NEW t \in a.paused
  PROVE  LET b == reenableThreadIfLegal(a, t)
         IN  /\ LetGo(a, b, {t}) /\ b.found = a.found
             /\ t \in b.st.enabled \/ Stuck(b.st, t)
             /\ \A u \in Thread \ {t} : Same(a.st, b.st, u)
<1> DEFINE b == reenableThreadIfLegal(a, t)
           Q == a.paused \ {t}
<1>1. /\ t \in Thread /\ Described(a.st, t, a.info[t])
      /\ Good(a.st, a.paused)
      /\ a = [f \in TesterFields |-> a[f]]
  BY DEF TesterOK
<1>2. /\ b.st = IF isLockRace THEN determineLockStatus(a.st, t, a.info[t].addr)
                              ELSE enableThread(a.st, t)
      /\ b.paused = Q /\ b.info = a.info /\ b.found = a.found
      /\ b = [f \in TesterFields |-> b[f]]
  BY <1>1 DEF reenableThreadIfLegal, TesterFields
<1> HIDE DEF b
<1>3. /\ Good(b.st, a.paused) /\ (t \in b.st.enabled \/ Stuck(b.st, t)) /\ Stays(a.st, b.st)
      /\ \A u \in Thread \ {t} : Same(a.st, b.st, u)
  <2>1. CASE isLockRace
    <3>1. Wants(a.st, t, a.info[t].addr)
      BY <1>1, <2>1 DEF Described
    <3> DEFINE r == determineLockStatus(a.st, t, a.info[t].addr)
    <3>2. InLine(a.st, r, a.paused, t)
      BY <1>1, <3>1, Determines
    <3>3. b.st = r
      BY <1>2, <2>1
    <3> HIDE DEF r
    <3>4. QED
      BY <3>2, <3>3 DEF InLine
  <2>2. CASE ~isLockRace
    <3> DEFINE s == a.st
               r == enableThread(a.st, t)
    <3>1. AtOp(s, t, {"read", "write"}) /\ Filed(s, t)
      BY <1>1, <2>2 DEF Described, Good, Sane
    <3>2. s.lock_wait_map[t] = NULL
      BY <3>1 DEF Filed, Wants, AtOp, Locks, Waits
    <3>3. /\ Shaped(r) /\ Stays(s, r) /\ r.enabled = s.enabled \cup {t}
          /\ r.lock_wait_map = s.lock_wait_map /\ r.lock_ready_map = s.lock_ready_map
      BY <1>1 DEF Good, Sane, Shaped, Fields, enableThread, Stays
    <3>4. b.st = r
      BY <1>2, <2>2
    <3> HIDE DEF s, r
    <3>5. ASSUME NEW u \in Thread \ {t}
          PROVE  /\ Same(s, r, u) /\ Filed(r, u) /\ WaitsDisabled(r, u)
                 /\ u \in r.enabled \cup a.paused \/ Stuck(r, u)
      <4>1. Filed(s, u) /\ WaitsDisabled(s, u) /\ (u \in s.enabled \cup a.paused \/ Stuck(s, u))
        BY <1>1 DEF Good, Sane, s
      <4>2. Same(s, r, u)
        BY <3>3 DEF Same
      <4>3. QED
        BY <3>3, <4>1, <4>2, SameState
    <3>6. Filed(r, t) /\ WaitsDisabled(r, t) /\ t \in r.enabled
      <4>1. /\ \A ops : AtOp(r, t, ops) <=> AtOp(s, t, ops)
            /\ \A k : Wants(s, t, k) => Wants(r, t, k)
        BY <3>3, SameOp, SameWants DEF Stays
      <4>2. QED
        BY <3>1, <3>2, <3>3, <4>1 DEF Filed, WaitsDisabled, Stays
    <3>7. Good(r, a.paused)
      BY <1>1, <3>3, <3>5, <3>6 DEF Good, Sane, Stays, s
    <3>8. QED
      BY <3>3, <3>4, <3>5, <3>6, <3>7 DEF s
  <2>3. QED
    BY <2>1, <2>2
<1>4. Good(b.st, Q)
  BY <1>3 DEF Good
<1>5. ASSUME NEW u \in Thread
      PROVE  /\ TrylockFiled(b, u)
             /\ u \in Q => u \notin b.st.enabled /\ Described(b.st, u, b.info[u])
  <2>1. TrylockFiled(a, u) /\ (u \in a.paused => u \notin a.st.enabled /\ Described(a.st, u, a.info[u]))
    BY DEF TesterOK
  <2>2. AtOp(b.st, u, {"trylock"}) <=> AtOp(a.st, u, {"trylock"})
    BY <1>3, SameOp DEF Stays
  <2>3. Described(a.st, u, a.info[u]) => Described(b.st, u, b.info[u])
    BY <1>2, <1>3, SameDescription DEF Stays
  <2>4. TrylockFiled(b, u)
    BY <1>1, <1>2, <1>3, <2>1, <2>2 DEF TrylockFiled, Same, Described
  <2>5. QED
    BY <1>3, <2>1, <2>3, <2>4 DEF Same
<1>6. TesterOK(b)
  BY <1>2, <1>4, <1>5 DEF TesterOK
<1>7. QED
  BY <1>2, <1>3, <1>6 DEF LetGo, b

\* enableSpecificActiveTestingPaused: several threads are let go.
LEMMA EnablesRacers ==
  ASSUME NEW a, TesterOK(a), NEW R \in SUBSET a.paused
  PROVE  LetGo(a, enableSpecificActiveTestingPaused(a, R), R)
<1> DEFINE one(t) == reenableThreadIfLegal(a, t).st
           b == enableSpecificActiveTestingPaused(a, R)
           s == a.st
           r == b.st
<1>1. Good(s, a.paused) /\ Shaped(s) /\ a.paused \in SUBSET Thread /\ a = [f \in TesterFields |-> a[f]]
  BY DEF TesterOK, Good, Sane
<1>2. ASSUME NEW t \in R
      PROVE  /\ Good(one(t), a.paused \ {t}) /\ Stays(s, one(t))
             /\ t \in one(t).enabled \/ Stuck(one(t), t)
             /\ TrylockFiled([a EXCEPT !.st = one(t)], t)
  <2> DEFINE c == reenableThreadIfLegal(a, t)
  <2>1. /\ LetGo(a, c, {t})
        /\ t \in c.st.enabled \/ Stuck(c.st, t)
    BY Reenables
  <2> HIDE DEF c
  <2>2. /\ TesterOK(c) /\ Stays(s, c.st) /\ c.info = a.info /\ t \in Thread
        /\ \A u \in Thread : u \in c.paused => u # t
    BY <1>1, <2>1 DEF LetGo
  <2>3. Good(c.st, c.paused) /\ TrylockFiled(c, t)
    BY <2>2 DEF TesterOK
  <2>4. Good(c.st, a.paused \ {t})
    BY <2>1, <2>3 DEF Good, LetGo
  <2>5. TrylockFiled([a EXCEPT !.st = c.st], t)
    <3>1. [a EXCEPT !.st = c.st].st = c.st /\ [a EXCEPT !.st = c.st].info = a.info
      BY <1>1 DEF TesterFields
    <3>2. QED
      BY <2>2, <2>3, <3>1 DEF TrylockFiled
  <2>6. QED
    BY <2>1, <2>2, <2>4, <2>5 DEF c
<1>3. /\ b = [f \in TesterFields |-> b[f]] /\ b.info = a.info /\ b.paused = a.paused \ R
      /\ Shaped(r) /\ Stays(s, r)
      /\ \A u \in Thread : u \in r.enabled <=> IF u \in R THEN u \in one(u).enabled ELSE u \in s.enabled
      /\ \A u \in Thread : r.lock_wait_map[u] = IF u \in R THEN one(u).lock_wait_map[u] ELSE s.lock_wait_map[u]
      /\ \A u \in Thread : r.lock_ready_map[u] = IF u \in R THEN one(u).lock_ready_map[u] ELSE s.lock_ready_map[u]
  <2> DEFINE en == (s.enabled \ R) \cup {t \in R : t \in one(t).enabled}
             rm == [t \in Thread |-> IF t \in R THEN one(t).lock_ready_map[t] ELSE s.lock_ready_map[t]]
             wm == [t \in Thread |-> IF t \in R THEN one(t).lock_wait_map[t] ELSE s.lock_wait_map[t]]
             q == [s EXCEPT !.enabled = en, !.lock_ready_map = rm, !.lock_wait_map = wm]
  <2>1. /\ b = [f \in TesterFields |-> b[f]] /\ b.info = a.info /\ b.paused = a.paused \ R
        /\ r = q
    <3> HIDE DEF one
    <3>1. b = [a EXCEPT !.paused = @ \ R, !.st.enabled = en, !.st.lock_ready_map = rm, !.st.lock_wait_map = wm]
      BY DEF enableSpecificActiveTestingPaused, one
    <3> HIDE DEF b, en, rm, wm
    <3>2. QED
      BY <1>1, <3>1 DEF TesterFields, Shaped, Fields
  <2> HIDE DEF one, b
  <2>2. \A u \in Thread : u \in en <=> IF u \in R THEN u \in one(u).enabled ELSE u \in s.enabled
    OBVIOUS
  <2>3. en \in SUBSET Thread /\ rm = [t \in Thread |-> rm[t]] /\ wm = [t \in Thread |-> wm[t]]
    BY <1>1 DEF Shaped
  <2>4. /\ \A u \in Thread : rm[u] = IF u \in R THEN one(u).lock_ready_map[u] ELSE s.lock_ready_map[u]
        /\ \A u \in Thread : wm[u] = IF u \in R THEN one(u).lock_wait_map[u] ELSE s.lock_wait_map[u]
    OBVIOUS
  <2> HIDE DEF en, rm, wm
  <2>5. Shaped(q) /\ Stays(s, q) /\ q.enabled = en /\ q.lock_ready_map = rm /\ q.lock_wait_map = wm
    BY <1>1, <2>3 DEF Shaped, Fields, Stays
  <2>6. QED
    BY <2>1, <2>2, <2>4, <2>5
<1> HIDE DEF b
<1>4. ASSUME NEW u \in Thread
      PROVE  /\ Filed(r, u) /\ WaitsDisabled(r, u)
             /\ u \in r.enabled \cup b.paused \/ Stuck(r, u)
             /\ TrylockFiled(b, u)
             /\ u \in b.paused => u \notin r.enabled /\ Described(r, u, b.info[u])
  <2>1. Described(s, u, a.info[u]) => Described(r, u, b.info[u])
    BY <1>3, SameDescription DEF Stays
  <2>2. AtOp(r, u, {"trylock"}) <=> AtOp(s, u, {"trylock"})
    BY <1>3, SameOp DEF Stays
  <2>3. CASE u \in R
    <3> DEFINE q == one(u)
    <3>1. /\ Good(q, a.paused \ {u}) /\ Stays(s, q) /\ (u \in q.enabled \/ Stuck(q, u))
          /\ TrylockFiled([a EXCEPT !.st = q], u)
      BY <1>2, <2>3
    <3> HIDE DEF one
    <3>2. Same(q, r, u) /\ Stays(q, r)
      BY <1>3, <2>3, <3>1 DEF Same, Stays
    <3>3. AtOp(q, u, {"trylock"}) <=> AtOp(s, u, {"trylock"})
      BY <3>1, SameOp DEF Stays
    <3>4. [a EXCEPT !.st = q].st = q /\ [a EXCEPT !.st = q].info = a.info
      BY <1>1 DEF TesterFields
    <3> HIDE DEF q
    <3>5. Filed(q, u) /\ WaitsDisabled(q, u)
      BY <3>1 DEF Good, Sane
    <3>6. Filed(r, u) /\ WaitsDisabled(r, u) /\ (u \in r.enabled \/ Stuck(r, u))
      BY <3>1, <3>2, <3>5, SameState DEF Same
    <3>7. TrylockFiled(b, u)
      BY <1>3, <2>2, <3>1, <3>2, <3>3, <3>4 DEF TrylockFiled, Same
    <3>8. QED
      BY <1>3, <2>3, <3>6, <3>7
  <2>4. CASE u \notin R
    <3>1. Same(s, r, u)
      BY <1>3, <2>4 DEF Same
    <3>2. Filed(s, u) /\ WaitsDisabled(s, u) /\ (u \in s.enabled \cup a.paused \/ Stuck(s, u))
      BY <1>1 DEF Good, Sane
    <3>3. TrylockFiled(a, u) /\ (u \in a.paused => u \notin s.enabled /\ Described(s, u, a.info[u]))
      BY DEF TesterOK
    <3>4. Filed(r, u) /\ WaitsDisabled(r, u) /\ (Stuck(s, u) => Stuck(r, u))
      BY <1>3, <3>1, <3>2, SameState
    <3>5. TrylockFiled(b, u)
      BY <1>3, <2>2, <3>1, <3>3 DEF TrylockFiled, Same
    <3>6. QED
      BY <1>3, <2>1, <2>4, <3>1, <3>2, <3>3, <3>4, <3>5 DEF Same
  <2>5. QED
    BY <2>3, <2>4
<1>5. Good(r, b.paused)
  <2>1. IsProgram(r.prog)
    BY <1>1, <1>3 DEF Good, Sane, Stays
  <2>2. QED
    BY <1>3, <1>4, <2>1 DEF Good, Sane
<1>6. TesterOK(b)
  <2>1. a.info = [t \in Thread |-> a.info[t]]
    BY DEF TesterOK
  <2>2. QED
    BY <1>1, <1>3, <1>4, <1>5, <2>1 DEF TesterOK
<1>7. QED
  BY <1>3, <1>6 DEF LetGo, b

\* Two threads are before accesses that race.
Racing(s) ==
  \E t, u \in Thread :
    /\ t # u /\ AtTarget(s, t) /\ AtTarget(s, u)
    /\ Object(Op(s, t)) = Object(Op(s, u))
    /\ isLockRace \/ "write" \in {Op(s, t).op, Op(s, u).op}

\* The tester after the hook of an access of thread t.
Accessed(a, b, t) ==
  /\ TesterOK(b) /\ Stays(a.st, b.st)
  /\ \A u \in Thread : u \in b.paused => u \in a.paused \/ u = t
  /\ b.found => a.found \/ Racing(a.st)

\* Thread t is paused.
LEMMA Pauses ==
  ASSUME NEW a, TesterOK(a), NEW t \in Thread, NEW i, Described(a.st, t, i)
  PROVE  Accessed(a, [a EXCEPT !.paused = @ \cup {t}, !.info[t] = i, !.st = disableThread(@, t)], t)
<1> DEFINE b == [a EXCEPT !.paused = @ \cup {t}, !.info[t] = i, !.st = disableThread(@, t)]
           s == a.st
           r == b.st
           Q == a.paused \cup {t}
<1>1. /\ Good(s, a.paused) /\ Shaped(s) /\ a.paused \in SUBSET Thread /\ a = [f \in TesterFields |-> a[f]]
      /\ a.info = [u \in Thread |-> a.info[u]]
  BY DEF TesterOK, Good, Sane
<1>2. /\ b = [f \in TesterFields |-> b[f]] /\ b.found = a.found /\ b.paused = Q
      /\ b.info = [u \in Thread |-> b.info[u]]
      /\ \A u \in Thread : b.info[u] = IF u = t THEN i ELSE a.info[u]
      /\ r = disableThread(s, t)
  BY <1>1 DEF TesterFields
<1> HIDE DEF b
<1>3. /\ Shaped(r) /\ Stays(s, r) /\ r.enabled = s.enabled \ {t}
      /\ r.lock_wait_map = s.lock_wait_map /\ r.lock_ready_map = s.lock_ready_map
  BY <1>1, <1>2 DEF Shaped, Fields, Stays, disableThread
<1>4. ASSUME NEW u \in Thread
      PROVE  /\ Filed(r, u) /\ WaitsDisabled(r, u)
             /\ u \in r.enabled \cup Q \/ Stuck(r, u)
             /\ TrylockFiled(b, u)
             /\ u \in Q => u \notin r.enabled /\ Described(r, u, b.info[u])
  <2>1. /\ TrylockFiled(a, u) /\ (u \in a.paused => u \notin s.enabled /\ Described(s, u, a.info[u]))
        /\ Filed(s, u) /\ WaitsDisabled(s, u) /\ (u \in s.enabled \cup a.paused \/ Stuck(s, u))
    BY DEF TesterOK, Good, Sane
  <2>2. \A j : Described(s, u, j) => Described(r, u, j)
    BY <1>3, SameDescription DEF Stays
  <2>3. /\ \A ops : AtOp(r, u, ops) <=> AtOp(s, u, ops)
        /\ Op(r, u) = Op(s, u) /\ (\A k : Finished(r, k) <=> Finished(s, k))
        /\ \A k : Wants(s, u, k) => Wants(r, u, k)
    BY <1>3, SameOp, SameWants DEF Stays
  <2>4. Filed(r, u) /\ WaitsDisabled(r, u)
    BY <1>3, <2>1, <2>3 DEF Filed, WaitsDisabled, Stays
  <2>5. u \in r.enabled \cup Q \/ Stuck(r, u)
    BY <1>3, <2>1, <2>3 DEF Stuck, Stays
  <2>6. i.me = t
    BY DEF Described
  <2>7. TrylockFiled(b, u)
    BY <1>2, <1>3, <2>1, <2>3, <2>6 DEF TrylockFiled
  <2>8. u \in Q => u \notin r.enabled /\ Described(r, u, b.info[u])
    BY <1>2, <1>3, <2>1, <2>2
  <2>9. QED
    BY <2>4, <2>5, <2>7, <2>8
<1>5. Good(r, Q)
  <2>1. IsProgram(r.prog)
    BY <1>1, <1>3 DEF Good, Sane, Stays
  <2>2. QED
    BY <1>3, <1>4, <2>1 DEF Good, Sane
<1>6. TesterOK(b)
  BY <1>1, <1>2, <1>4, <1>5 DEF TesterOK
<1>7. QED
  BY <1>2, <1>3, <1>6 DEF Accessed, b

\* handleAccess: thread t is paused before the access, or lets the threads go
\* that are paused before racing ones.
LEMMA Accesses ==
  ASSUME NEW a, TesterOK(a), NEW t \in Thread, t \notin a.paused,
         NEW iid, NEW addr, NEW iswrite,
         iid \in targets.iids => Described(a.st, t, [me |-> t, addr |-> addr, iswrite |-> iswrite])
  PROVE  Accessed(a, handleAccess(a, t, iid, addr, iswrite), t)
<1> DEFINE tmp == [me |-> t, addr |-> addr, iswrite |-> iswrite]
           racers == isRacing(a, tmp)
           e == enableSpecificActiveTestingPaused(a, racers)
           b == handleAccess(a, t, iid, addr, iswrite)
<1>1. CASE iid \notin targets.iids
  <2>1. b = a
    BY <1>1 DEF handleAccess
  <2>2. QED
    BY <2>1 DEF Accessed, Stays
<1>2. CASE iid \in targets.iids /\ racers # {}
  <2>1. b = [e EXCEPT !.found = TRUE]
    BY <1>2 DEF handleAccess
  <2>2. racers \in SUBSET a.paused /\ \A u \in racers : racesWith(a.info[u], tmp)
    BY DEF isRacing
  <2>3. LetGo(a, e, racers)
    BY <2>2, EnablesRacers
  <2> HIDE DEF e, b
  <2>4. e = [f \in TesterFields |-> e[f]]
    BY <2>3 DEF LetGo, TesterOK
  <2>5. b = [f \in TesterFields |-> b[f]] /\ b.st = e.st /\ b.paused = e.paused /\ b.info = e.info
    BY <2>1, <2>4 DEF TesterFields
  <2>6. TesterOK(b)
    BY <2>3, <2>5 DEF LetGo, TesterOK, TrylockFiled
  <2>7. Racing(a.st)
    <3>1. PICK u \in racers : racesWith(a.info[u], tmp)
      BY <1>2, <2>2
    <3>2. u \in Thread /\ u # t /\ Described(a.st, u, a.info[u])
      BY <2>2 DEF TesterOK
    <3>3. Described(a.st, t, tmp) /\ tmp.addr = addr /\ tmp.iswrite = iswrite
      BY <1>2
    <3> HIDE DEF tmp
    <3>4. Object(Op(a.st, t)) = Object(Op(a.st, u)) /\ AtTarget(a.st, t) /\ AtTarget(a.st, u)
      BY <3>1, <3>2, <3>3 DEF Described, racesWith
    <3>5. isLockRace \/ "write" \in {Op(a.st, t).op, Op(a.st, u).op}
      BY <3>1, <3>2, <3>3 DEF Described, racesWith
    <3>6. QED
      BY <3>2, <3>4, <3>5 DEF Racing
  <2>8. QED
    BY <2>3, <2>5, <2>6, <2>7 DEF Accessed, LetGo, b
<1>3. CASE iid \in targets.iids /\ racers = {}
  <2>1. b = [a EXCEPT !.paused = @ \cup {t}, !.info[t] = tmp, !.st = disableThread(@, t)]
    BY <1>3 DEF handleAccess
  <2>2. Described(a.st, t, tmp)
    BY <1>3
  <2> HIDE DEF tmp, b
  <2>3. QED
    BY <2>1, <2>2, Pauses DEF b
<1>4. QED
  BY <1>1, <1>2, <1>3

\* handleRelock: a waiter that has left its condition variable.
LEMMA Relocks ==
  ASSUME NEW a, TesterOK(a), NEW t \in Thread, t \notin a.paused, t \in a.st.relock
  PROVE  Accessed(a, handleRelock(a, t), t)
<1> DEFINE o == Op(a.st, t)
           tmp == [me |-> t, addr |-> o.lock, iswrite |-> TRUE]
<1>1. CASE ~isLockRace
  <2>1. handleRelock(a, t) = a
    BY <1>1 DEF handleRelock, handleBeforeMutexLock
  <2>2. QED
    BY <2>1 DEF Accessed, Stays
<1>2. CASE isLockRace
  <2>1. handleRelock(a, t) = handleAccess(a, t, o.at, o.lock, TRUE)
    BY <1>2 DEF handleRelock, handleBeforeMutexLock
  <2>2. AtOp(a.st, t, Waits)
    BY DEF TesterOK, Good, Sane, Filed
  <2>3. IsOperation(o) /\ InOp(a.st, t)
    BY <2>2, OpIs DEF TesterOK, Good, Sane, AtOp
  <2>4. Object(o) = o.lock
    BY <2>2, <2>3 DEF Object, IsOperation, AtOp, Waits
  <2>5. Wants(a.st, t, o.lock)
    BY <2>2 DEF Wants
  <2> HIDE DEF o
  <2>6. tmp.me = t /\ tmp.addr = o.lock
    OBVIOUS
  <2>7. o.at \in targets.iids => Described(a.st, t, tmp)
    BY <1>2, <2>3, <2>4, <2>5, <2>6 DEF Described, AtTarget, o
  <2>8. QED
    BY <2>1, <2>7, Accesses
<1>3. QED
  BY <1>1, <1>2

\* Every nonempty set of natural numbers has a least element.
LEMMA LeastNatural ==
  ASSUME NEW S \in SUBSET Nat, S # {}
  PROVE  \E m \in S : \A k \in S : m <= k
<1> DEFINE R == OpToRel(<, Nat)
<1>1. IsWellFoundedOn(R, Nat)
  BY NatLessThanWellFounded
<1>2. \A k, m \in Nat : <<k, m>> \in R <=> k < m
  BY DEF OpToRel
<1> HIDE DEF R
<1>3. PICK m \in S : \A k \in S : ~(<<k, m>> \in R)
  BY <1>1, WFMin
<1>4. \A k \in S : ~(k < m)
  BY <1>2, <1>3
<1>5. \A k \in S : m <= k
  BY <1>4
<1>6. QED
  BY <1>5

\* f is the tester after each of the first k waiters of order.
Relocking(f, a, order, k) ==
  f = [n \in 0..k |-> IF n = 0 THEN a ELSE handleRelock(f[n - 1], order[n])]

\* The recursion of handleRelocks has a solution up to every length.
LEMMA RelockingExists ==
  ASSUME NEW a, NEW order, NEW k \in Nat
  PROVE  \E f : Relocking(f, a, order, k)
<1> DEFINE S == {n \in Nat : ~\E f : Relocking(f, a, order, n)}
<1>1. SUFFICES ASSUME S # {} PROVE FALSE
  OBVIOUS
<1>2. PICK n \in S : \A j \in S : n <= j
  <2>1. S \in SUBSET Nat
    OBVIOUS
  <2>2. QED
    BY <1>1, <2>1, LeastNatural
<1>3. n \in Nat /\ ~\E f : Relocking(f, a, order, n)
  BY <1>2
<1>4. CASE n = 0
  <2> DEFINE f == [j \in 0..0 |-> a]
  <2>1. f = [j \in 0..0 |-> IF j = 0 THEN a ELSE handleRelock(f[j - 1], order[j])]
    OBVIOUS
  <2>2. QED
    BY <1>3, <1>4, <2>1 DEF Relocking
<1>5. CASE n # 0
  <2>1. n - 1 \in Nat /\ ~(n <= n - 1)
    BY <1>3, <1>5
  <2>2. n - 1 \notin S
    BY <1>2, <2>1
  <2>3. PICK g : Relocking(g, a, order, n - 1)
    BY <2>1, <2>2
  <2> DEFINE f == [j \in 0..n |-> IF j < n THEN g[j] ELSE handleRelock(g[n - 1], order[n])]
  <2>4. \A j \in 0..(n - 1) : g[j] = IF j = 0 THEN a ELSE handleRelock(g[j - 1], order[j])
    BY <2>3 DEF Relocking
  <2>5. ASSUME NEW j \in 0..n
        PROVE  f[j] = IF j = 0 THEN a ELSE handleRelock(f[j - 1], order[j])
    <3>1. CASE j = 0
      <4>1. 0 \in 0..(n - 1) /\ 0 < n
        BY <1>3, <1>5
      <4>2. QED
        BY <2>4, <3>1, <4>1
    <3>2. CASE j # 0 /\ j < n
      <4>1. j \in 0..(n - 1) /\ j - 1 \in 0..n /\ j - 1 < n
        BY <1>3, <3>2
      <4>2. f[j] = g[j] /\ f[j - 1] = g[j - 1]
        BY <3>2, <4>1
      <4>3. QED
        BY <2>4, <3>2, <4>1, <4>2
    <3>3. CASE j = n
      <4>1. n - 1 \in 0..n /\ n - 1 < n /\ ~(n < n)
        BY <1>3, <1>5
      <4>2. f[j] = handleRelock(g[n - 1], order[n]) /\ f[n - 1] = g[n - 1]
        BY <3>3, <4>1
      <4>3. QED
        BY <1>5, <3>3, <4>2
    <3>4. QED
      BY <1>3, <3>1, <3>2, <3>3
  <2>6. f = [j \in 0..n |-> f[j]]
    OBVIOUS
  <2> HIDE DEF f
  <2>7. f = [j \in 0..n |-> IF j = 0 THEN a ELSE handleRelock(f[j - 1], order[j])]
    BY <2>5, <2>6
  <2>8. QED
    BY <1>3, <2>7 DEF Relocking
<1>6. QED
  BY <1>4, <1>5

\* The tester after hooks that have paused and let go some threads.
Hooked(a, b) == TesterOK(b) /\ Stays(a.st, b.st) /\ (b.found => a.found \/ Racing(a.st))

\* ... which are where they were.
LEMMA SameRaces ==
  ASSUME NEW s, NEW r, Stays(s, r)
  PROVE  Racing(r) <=> Racing(s)
<1>1. ASSUME NEW u PROVE Op(r, u) = Op(s, u) /\ (InOp(r, u) <=> InOp(s, u))
  BY SameOp DEF Stays
<1>2. QED
  BY <1>1 DEF Racing, AtTarget

\* The waiters of a broadcast, one after the other.
LEMMA RelocksAll ==
  ASSUME NEW a, TesterOK(a), NEW S \in SUBSET Thread,
         \A t \in S : t \in a.st.relock /\ t \notin a.paused,
         NEW order \in Orders(S)
  PROVE  Hooked(a, handleRelocks(a, order))
<1> DEFINE f == CHOOSE f : Relocking(f, a, order, Len(order))
           J(n) == /\ TesterOK(f[n]) /\ Stays(a.st, f[n].st)
                   /\ f[n].found => a.found \/ Racing(a.st)
                   /\ \A u \in Thread : u \in f[n].paused =>
                        u \in a.paused \/ \E i \in 1..n : u = order[i]
<1>1. /\ Len(order) \in Nat /\ \A i \in 1..Len(order) : order[i] \in S
      /\ \A i, j \in 1..Len(order) : i # j => order[i] # order[j]
  <2>1. IsFiniteSet(Thread)
    BY ProgramAssumption, FS_Interval DEF Thread
  <2>2. Cardinality(S) \in Nat
    BY <2>1, FS_Subset, FS_CardinalityType
  <2>3. order \in [1..Cardinality(S) -> S] /\ \A i, j \in DOMAIN order : i # j => order[i] # order[j]
    BY DEF Orders
  <2>4. order \in Seq(S) /\ Len(order) = Cardinality(S)
    BY <2>2, <2>3
  <2>5. QED
    BY <2>2, <2>3, <2>4
<1>2. handleRelocks(a, order) = f[Len(order)]
  BY DEF handleRelocks, Relocking
<1>3. Relocking(f, a, order, Len(order))
  BY <1>1, RelockingExists
<1> HIDE DEF f
<1>4. /\ f[0] = a
      /\ \A n \in 1..Len(order) : f[n] = handleRelock(f[n - 1], order[n])
  BY <1>1, <1>3 DEF Relocking
<1> DEFINE B == {n \in 0..Len(order) : ~J(n)}
<1>5. SUFFICES B = {}
  <2>1. ASSUME B = {} PROVE J(Len(order))
    BY <1>1, <2>1
  <2>2. QED
    BY <1>2, <2>1 DEF Hooked
<1>6. SUFFICES ASSUME B # {} PROVE FALSE
  OBVIOUS
<1>7. PICK n \in B : \A j \in B : n <= j
  <2>1. B \in SUBSET Nat
    BY <1>1
  <2> HIDE DEF B
  <2>2. QED
    BY <1>6, <2>1, LeastNatural
<1>8. n \in 0..Len(order) /\ ~J(n)
  BY <1>7
<1>9. J(0)
  BY <1>4 DEF Stays
<1>10. n # 0
  BY <1>8, <1>9
<1>11. n - 1 \in 0..Len(order) /\ n \in 1..Len(order) /\ n \in Nat /\ ~(n <= n - 1)
  BY <1>1, <1>8, <1>10
<1>12. J(n - 1)
  <2> HIDE DEF J
  <2>1. QED
    BY <1>7, <1>11
<1> DEFINE p == f[n - 1]
           q == f[n]
           t == order[n]
<1>13. q = handleRelock(p, t) /\ t \in S
  BY <1>1, <1>4, <1>11
<1>14. t \notin p.paused
  <2>1. t \in Thread /\ t \notin a.paused
    BY <1>13
  <2>2. \A i \in 1..(n - 1) : t # order[i]
    BY <1>1, <1>11
  <2>3. QED
    BY <1>12, <2>1, <2>2
<1>15. TesterOK(p) /\ t \in Thread /\ t \in p.st.relock
  BY <1>12, <1>13 DEF Stays
<1>16. Accessed(p, q, t)
  BY <1>13, <1>14, <1>15, Relocks
<1>17. Stays(a.st, p.st) /\ (p.found => a.found \/ Racing(a.st))
  BY <1>12
<1>18. TesterOK(q) /\ Stays(a.st, q.st) /\ (q.found => a.found \/ Racing(a.st))
  <2>1. Racing(p.st) <=> Racing(a.st)
    BY <1>17, SameRaces
  <2> HIDE DEF p, q, t
  <2>2. QED
    BY <1>16, <1>17, <2>1 DEF Accessed, Stays
<1>19. ASSUME NEW u \in Thread, u \in q.paused
       PROVE  u \in a.paused \/ \E i \in 1..n : u = order[i]
  <2>1. u \in p.paused \/ u = t
    BY <1>16, <1>19 DEF Accessed
  <2>2. u \in p.paused => u \in a.paused \/ \E i \in 1..(n - 1) : u = order[i]
    BY <1>12
  <2>3. QED
    BY <1>11, <2>1, <2>2
<1>20. QED
  BY <1>8, <1>18, <1>19

\* A paused thread waits neither for a condition variable nor for a thread, and
\* when it is paused before a memory access, not for a mutex.
LEMMA PausedAt ==
  ASSUME NEW a, TesterOK(a), NEW u \in a.paused
  PROVE  /\ u \in Thread /\ u \notin a.st.enabled /\ Described(a.st, u, a.info[u])
         /\ a.st.cond_map[u] = NULL /\ ~AtOp(a.st, u, {"join"})
         /\ ~isLockRace => ~Queued(a.st, u)
<1>1. u \in Thread /\ u \notin a.st.enabled /\ Described(a.st, u, a.info[u]) /\ Filed(a.st, u)
  BY DEF TesterOK, Good, Sane
<1>2. CASE isLockRace
  <2>1. Wants(a.st, u, a.info[u].addr)
    BY <1>1, <1>2 DEF Described
  <2>2. QED
    BY <1>1, <1>2, <2>1 DEF Filed, Wants, AtOp, Locks, Waits
<1>3. CASE ~isLockRace
  <2>1. AtOp(a.st, u, {"read", "write"})
    BY <1>1, <1>3 DEF Described
  <2>2. QED
    BY <1>1, <2>1 DEF Filed, Wants, AtOp, Locks, Waits, Queued
<1>4. QED
  BY <1>2, <1>3

\* The tester b with the state r, which thread t has reached.
Moved(a, b, r, t) ==
  /\ b = [f \in TesterFields |-> b[f]] /\ b.st = r /\ b.paused = a.paused
  /\ b.info = a.info /\ b.found = a.found
  /\ \A u \in Thread : TrylockFiled(b, u)
  /\ \A u \in a.paused : Described(r, u, a.info[u]) /\ (u \in r.enabled => isLockRace)
  /\ Others(a.st, r, t, FALSE) => TesterOK(b)

\* Another thread t has moved, to the state r: the paused ones are where they
\* were, and those that are enabled now were waiting for a released mutex.
LEMMA StillPaused ==
  ASSUME NEW a, TesterOK(a), NEW t \in Thread, t \in a.st.enabled, NEW r, Good(r, a.paused),
         r.prog = a.st.prog, Others(a.st, r, t, TRUE), AtOp(r, t, {"trylock"}) => ~Queued(r, t),
         NEW b, b = [a EXCEPT !.st = r]
  PROVE  Moved(a, b, r, t)
<1>1. a = [f \in TesterFields |-> a[f]] /\ a.info = [u \in Thread |-> a.info[u]] /\ a.paused \in SUBSET Thread
  BY DEF TesterOK
<1>2. /\ b = [f \in TesterFields |-> b[f]] /\ b.st = r /\ b.paused = a.paused
      /\ b.info = a.info /\ b.found = a.found
  BY <1>1 DEF TesterFields
<1>3. ASSUME NEW u \in Thread PROVE TrylockFiled(b, u)
  <2>1. TrylockFiled(a, u)
    BY DEF TesterOK
  <2>2. CASE u = t
    BY <1>2, <2>2 DEF TrylockFiled, Queued
  <2>3. CASE u # t
    <3>1. Unmoved(a.st, r, u, TRUE)
      BY <2>3 DEF Others
    <3>2. AtOp(r, u, {"trylock"}) <=> AtOp(a.st, u, {"trylock"})
      BY <3>1, SameOp DEF Unmoved
    <3>3. QED
      BY <1>2, <2>1, <3>1, <3>2 DEF TrylockFiled, Unmoved, Queued
  <2>4. QED
    BY <2>2, <2>3
<1>4. ASSUME NEW u \in a.paused
      PROVE  /\ Described(r, u, a.info[u]) /\ (u \in r.enabled => isLockRace)
             /\ Others(a.st, r, t, FALSE) => u \notin r.enabled
  <2>1. /\ u \in Thread /\ u \notin a.st.enabled /\ Described(a.st, u, a.info[u])
        /\ a.st.cond_map[u] = NULL /\ ~AtOp(a.st, u, {"join"})
        /\ ~isLockRace => ~Queued(a.st, u)
    BY PausedAt
  <2>2. u # t
    BY <2>1
  <2>3. Unmoved(a.st, r, u, TRUE) /\ (Others(a.st, r, t, FALSE) => Unmoved(a.st, r, u, FALSE))
    BY <2>1, <2>2 DEF Others
  <2>4. Described(r, u, a.info[u])
    BY <2>1, <2>3, SameDescription DEF Unmoved
  <2>5. QED
    BY <2>1, <2>3, <2>4 DEF Unmoved
<1>5. ASSUME Others(a.st, r, t, FALSE) PROVE TesterOK(b)
  BY <1>1, <1>2, <1>3, <1>4, <1>5 DEF TesterOK
<1>6. QED
  BY <1>2, <1>3, <1>4, <1>5 DEF Moved

\* handleAfterMutexUnlock: the paused threads are disabled again.
LEMMA AfterUnlock ==
  ASSUME NEW a, NEW r, Good(r, a.paused), a = [f \in TesterFields |-> a[f]], a.st = r,
         a.info = [u \in Thread |-> a.info[u]], a.paused \in SUBSET Thread,
         \A u \in Thread : TrylockFiled(a, u),
         \A u \in a.paused : Described(r, u, a.info[u]) /\ (u \in r.enabled => isLockRace)
  PROVE  TesterOK(handleAfterMutexUnlock(a)) /\ handleAfterMutexUnlock(a).found = a.found
<1> DEFINE b == handleAfterMutexUnlock(a)
           q == b.st
<1>1. CASE ~isLockRace
  <2>1. b = a
    BY <1>1 DEF handleAfterMutexUnlock
  <2>2. QED
    BY <1>1, <2>1 DEF TesterOK
<1>2. CASE isLockRace
  <2>1. b = [a EXCEPT !.st.enabled = @ \ a.paused]
    BY <1>2 DEF handleAfterMutexUnlock
  <2>2. Shaped(r)
    BY DEF Good, Sane
  <2> HIDE DEF b
  <2>3. /\ b = [f \in TesterFields |-> b[f]] /\ b.paused = a.paused /\ b.info = a.info /\ b.found = a.found
        /\ q = [r EXCEPT !.enabled = @ \ a.paused]
    BY <2>1 DEF TesterFields
  <2>4. /\ Shaped(q) /\ Stays(r, q) /\ q.enabled = r.enabled \ a.paused
        /\ q.lock_wait_map = r.lock_wait_map /\ q.lock_ready_map = r.lock_ready_map
    BY <2>2, <2>3 DEF Shaped, Fields, Stays
  <2>5. ASSUME NEW u \in Thread
        PROVE  /\ Filed(q, u) /\ WaitsDisabled(q, u)
               /\ u \in q.enabled \cup a.paused \/ Stuck(q, u)
               /\ TrylockFiled(b, u)
               /\ u \in a.paused => Described(q, u, b.info[u])
    <3>1. /\ Filed(r, u) /\ WaitsDisabled(r, u) /\ (u \in r.enabled \cup a.paused \/ Stuck(r, u))
      BY DEF Good, Sane
    <3>2. /\ \A ops : AtOp(q, u, ops) <=> AtOp(r, u, ops)
          /\ Op(q, u) = Op(r, u) /\ (\A k : Finished(q, k) <=> Finished(r, k))
          /\ \A k : Wants(r, u, k) => Wants(q, u, k)
      BY <2>4, SameOp, SameWants DEF Stays
    <3>3. \A j : Described(r, u, j) => Described(q, u, j)
      BY <2>4, SameDescription DEF Stays
    <3>4. Filed(q, u) /\ WaitsDisabled(q, u)
      BY <2>4, <3>1, <3>2 DEF Filed, WaitsDisabled, Stays
    <3>5. u \in q.enabled \cup a.paused \/ Stuck(q, u)
      BY <2>4, <3>1, <3>2 DEF Stuck, Stays
    <3>6. TrylockFiled(a, u)
      OBVIOUS
    <3>7. TrylockFiled(b, u)
      BY <2>3, <2>4, <3>2, <3>6 DEF TrylockFiled
    <3>8. QED
      BY <2>3, <3>3, <3>4, <3>5, <3>7
  <2>6. Good(q, a.paused)
    <3>1. IsProgram(q.prog)
      BY <2>4 DEF Good, Sane, Stays
    <3>2. QED
      BY <2>4, <2>5, <3>1 DEF Good, Sane
  <2>7. TesterOK(b)
    BY <2>3, <2>4, <2>5, <2>6 DEF TesterOK
  <2>8. QED
    BY <2>3, <2>7 DEF b
<1>3. QED
  BY <1>1, <1>2

\* What the hooks of a scheduling point come to.
Outcome(b) == TesterOK(b) /\ (b.found => raceFound \/ Racing(b.st))

\* The hooks, when the current thread has reached its next scheduling point.
LEMMA HooksOK ==
  ASSUME ActiveInv, phase = "run",
         NEW sig \in IF SignalTargets(st, cur) = {} THEN {INVALID_THREAD} ELSE SignalTargets(st, cur),
         NEW b \in Hooks([Tester EXCEPT !.st = Run(st, cur, sig)], cur, NextOp(st, cur), sig)
  PROVE  Outcome(b)
<1> DEFINE T == Tester
           r == Run(st, cur, sig)
           a == [T EXCEPT !.st = r]
           t == cur
           o == NextOp(st, cur)
           P == active_testing_paused
<1>1. /\ T.st = st /\ T.paused = P /\ T.info = active_testing_info /\ T.found = raceFound
  BY DEF Tester
<1>2. TesterOK(T) /\ t \in Thread /\ t \in st.enabled
  BY DEF ActiveInv
<1> HIDE DEF T
<1>3. Good(st, P) /\ P \in SUBSET Thread /\ T.info = [u \in Thread |-> T.info[u]]
  BY <1>1, <1>2 DEF TesterOK
<1>4. t \notin P /\ \A u \in P : st.cond_map[u] = NULL
  BY <1>1, <1>2, PausedAt
<1>5. /\ Good(r, P) /\ r.prog = st.prog
      /\ Others(st, r, t, TRUE) /\ (~Releasing(st, t) => Others(st, r, t, FALSE))
      /\ AtOp(r, t, {"trylock"}) => ~Queued(r, t)
      /\ TimesOut(st, t) => t \in r.relock
      /\ ~TimesOut(st, t) /\ o.op \in Locks \cup {"read", "write"} => InOp(r, t) /\ Op(r, t) = o
      /\ sig # INVALID_THREAD => sig \in r.relock /\ sig # t /\ ~TimesOut(st, t) /\ o.op = "signal"
      /\ ~TimesOut(st, t) /\ o.op = "broadcast" =>
           \A u \in OnCond(st, o.obj) : u \in r.relock /\ u # t
  <2>1. Ran(st, r, P, t, sig)
    BY <1>2, <1>3, <1>4, Runs
  <2> HIDE DEF r
  <2>2. QED
    BY <2>1 DEF Ran
<1>6. TimesOut(st, t) => o.op \in Waits
  BY <1>2, <1>3 DEF TimesOut, NextOp, Good, Sane, Filed, AtOp
<1>7. b \in Hooks(a, t, o, sig)
  BY DEF T
<1> HIDE DEF r, o
<1>8. /\ a = [f \in TesterFields |-> a[f]] /\ a.st = r /\ a.paused = P
      /\ a.info = T.info /\ a.found = raceFound
      /\ \A u \in Thread : TrylockFiled(a, u)
      /\ \A u \in P : Described(r, u, T.info[u]) /\ (u \in r.enabled => isLockRace)
      /\ Others(st, r, t, FALSE) => TesterOK(a)
  <2>1. Moved(T, a, r, t)
    BY <1>1, <1>2, <1>5, StillPaused
  <2>2. QED
    BY <1>1, <2>1 DEF Moved
<1> HIDE DEF a
<1>9. ASSUME NEW u, Accessed(a, b, u) PROVE Outcome(b)
  BY <1>8, <1>9, SameRaces DEF Accessed, Outcome
<1>10. Releasing(st, t) <=> ~TimesOut(st, t) /\ o.op \in {"unlock", "wait", "timedwait"}
  BY DEF Releasing, o
<1>11. CASE TimesOut(st, t)
  <2>1. b = handleRelock(a, t)
    BY <1>5, <1>6, <1>7, <1>11 DEF Hooks, Waits
  <2>2. TesterOK(a)
    BY <1>5, <1>8, <1>10, <1>11
  <2>3. QED
    BY <1>2, <1>4, <1>5, <1>8, <1>9, <1>11, <2>1, <2>2, Relocks
<1>12. CASE ~TimesOut(st, t) /\ o.op \in {"unlock", "wait", "timedwait"}
  <2>1. b = handleAfterMutexUnlock(a)
    BY <1>5, <1>7, <1>12 DEF Hooks
  <2>2. TesterOK(b) /\ b.found = a.found
    BY <1>3, <1>5, <1>8, <2>1, AfterUnlock
  <2>3. QED
    BY <1>8, <2>2 DEF Outcome
<1>13. CASE ~TimesOut(st, t) /\ o.op \notin {"unlock", "wait", "timedwait"}
  <2>1. TesterOK(a)
    BY <1>5, <1>8, <1>10, <1>13
  <2>2. CASE o.op \in Locks \cup {"read", "write"}
    <3>1. InOp(r, t) /\ Op(r, t) = o /\ IsOperation(o)
      BY <1>2, <1>5, <1>13, <2>2, OpIs DEF Good, Sane
    <3>2. Object(o) = o.obj
      BY <2>2, <3>1 DEF Object, IsOperation, Locks
    <3>3. CASE o.op \in Locks
      <4>1. b = handleBeforeMutexLock(a, t, o.at, o.obj)
        BY <1>5, <1>7, <1>13, <3>3 DEF Hooks, Locks
      <4>2. CASE isLockRace
        <5> DEFINE i == [me |-> t, addr |-> o.obj, iswrite |-> TRUE]
        <5>1. b = handleAccess(a, t, o.at, o.obj, TRUE)
          BY <4>1, <4>2 DEF handleBeforeMutexLock
        <5>2. Wants(r, t, o.obj)
          BY <3>1, <3>3 DEF Wants, AtOp
        <5>3. o.at \in targets.iids => Described(r, t, i)
          BY <3>1, <3>2, <4>2, <5>2 DEF Described, AtTarget
        <5>4. QED
          BY <1>2, <1>4, <1>8, <1>9, <2>1, <5>1, <5>3, Accesses
      <4>3. CASE ~isLockRace
        <5>1. b = a
          BY <4>1, <4>3 DEF handleBeforeMutexLock
        <5>2. QED
          BY <1>8, <2>1, <5>1 DEF Outcome
      <4>4. QED
        BY <4>2, <4>3
    <3>4. CASE o.op \in {"read", "write"}
      <4>1. b = handleMyMemory(a, t, o)
        BY <1>5, <1>7, <1>13, <3>4 DEF Hooks
      <4>2. CASE ~isLockRace
        <5> DEFINE w == o.op = "write"
                   i == [me |-> t, addr |-> o.obj, iswrite |-> w]
        <5>1. b = handleAccess(a, t, o.at, o.obj, w)
          BY <4>1, <4>2 DEF handleMyMemory
        <5>2. i.me = t /\ i.addr = o.obj /\ i.iswrite = w
          OBVIOUS
        <5>3. w <=> o.op = "write"
          OBVIOUS
        <5> HIDE DEF w
        <5>4. o.at \in targets.iids => Described(r, t, i)
          BY <3>1, <3>2, <3>4, <4>2, <5>2, <5>3 DEF Described, AtTarget, AtOp
        <5>5. Accessed(a, b, t)
          BY <1>2, <1>4, <1>8, <2>1, <5>1, <5>4, Accesses
        <5>6. QED
          BY <1>9, <5>5
      <4>3. CASE isLockRace
        <5>1. b = a
          BY <4>1, <4>3 DEF handleMyMemory
        <5>2. QED
          BY <1>8, <2>1, <5>1 DEF Outcome
      <4>4. QED
        BY <4>2, <4>3
    <3>5. QED
      BY <2>2, <3>3, <3>4
  <2>3. CASE sig # INVALID_THREAD
    <3>1. b = handleRelock(a, sig)
      BY <1>5, <1>7, <1>13, <2>3 DEF Hooks
    <3>2. IsOperation(o) /\ sig \in OnCond(st, o.obj)
      <4>1. sig \in SignalTargets(st, t)
        BY <2>3
      <4>2. sig \in OnCond(st, o.obj)
        BY <4>1 DEF SignalTargets, o
      <4>3. IsOperation(o)
        <5>1. IsCode(st.prog[t]) /\ st.pc[t] \in Nat
          BY <1>2, <1>3 DEF Good, Sane, IsProgram, Shaped
        <5>2. Len(st.prog[t]) \in Nat /\ DOMAIN st.prog[t] = 1..Len(st.prog[t])
          BY <5>1, LenProperties DEF IsCode
        <5>3. o.op = "signal"
          BY <1>5, <2>3
        <5>4. o = st.prog[t][st.pc[t] + 1] /\ st.pc[t] < Len(st.prog[t])
          <6>1. ~Polls(st, t)
            BY <5>3 DEF Polls, NextOp, o
          <6>2. QED
            BY <1>13, <5>3, <6>1 DEF NextOp, o
        <5>5. st.pc[t] + 1 \in DOMAIN st.prog[t]
          BY <5>1, <5>2, <5>4
        <5>6. QED
          BY <5>1, <5>4, <5>5 DEF IsCode
      <4>4. QED
        BY <4>2, <4>3
    <3>3. sig \in Thread /\ sig \notin P
      <4>1. o.obj # NULL
        BY <1>5, <2>3, <3>2, InputAssumption DEF IsOperation
      <4>2. QED
        BY <1>4, <3>2, <4>1 DEF OnCond
    <3>4. QED
      BY <1>5, <1>8, <1>9, <2>1, <2>3, <3>1, <3>3, Relocks
  <2>4. CASE sig = INVALID_THREAD /\ o.op = "broadcast"
    <3>1. PICK order \in Orders(OnCond(st, o.obj)) : b = handleRelocks(a, order)
      BY <1>5, <1>7, <1>13, <2>4 DEF Hooks
    <3>2. o.obj # NULL
      <4>1. IsCode(st.prog[t]) /\ st.pc[t] \in Nat
        BY <1>2, <1>3 DEF Good, Sane, IsProgram, Shaped
      <4>2. Len(st.prog[t]) \in Nat /\ DOMAIN st.prog[t] = 1..Len(st.prog[t])
        BY <4>1, LenProperties DEF IsCode
      <4>3. o = st.prog[t][st.pc[t] + 1] /\ st.pc[t] < Len(st.prog[t])
        <5>1. ~Polls(st, t)
          BY <2>4 DEF Polls, NextOp, o
        <5>2. QED
          BY <1>13, <2>4, <5>1 DEF NextOp, o
      <4>4. st.pc[t] + 1 \in DOMAIN st.prog[t]
        BY <4>1, <4>2, <4>3
      <4>5. IsOperation(o)
        BY <4>1, <4>3, <4>4 DEF IsCode
      <4>6. QED
        BY <2>4, <4>5, InputAssumption DEF IsOperation
    <3>3. /\ OnCond(st, o.obj) \in SUBSET Thread
          /\ \A u \in OnCond(st, o.obj) : u \in a.st.relock /\ u \notin a.paused
      BY <1>4, <1>5, <1>8, <1>13, <2>4, <3>2 DEF OnCond
    <3>4. Hooked(a, b)
      BY <2>1, <3>1, <3>3, RelocksAll
    <3>5. QED
      BY <1>8, <3>4, SameRaces DEF Hooked, Outcome
  <2>5. CASE sig = INVALID_THREAD /\ o.op \notin Locks \cup {"read", "write", "broadcast"}
    <3>1. b = a
      BY <1>7, <1>13, <2>5 DEF Hooks, Locks
    <3>2. QED
      BY <1>8, <2>1, <3>1 DEF Outcome
  <2>6. QED
    BY <2>2, <2>3, <2>4, <2>5
<1>14. QED
  BY <1>11, <1>12, <1>13

-----------------------------------------------------------------------------
(***************************************************************************)
(* The program of an execution.                                            *)
(***************************************************************************)

\* What schedulingPoints makes of seq when operation o follows.
Kept(seq, o) ==
  IF o.op \in {"read", "write"} /\ o.at \notin AddressesToSchedule THEN seq ELSE Append(seq, o)

\* f is what is left of the first n operations, for every n up to k.
Filtering(f, ops, k) == f = [n \in 0..k |-> IF n = 0 THEN <<>> ELSE Kept(f[n - 1], ops[n])]

\* The recursion of schedulingPoints has a solution up to every length.
LEMMA FilteringExists ==
  ASSUME NEW ops, NEW k \in Nat
  PROVE  \E f : Filtering(f, ops, k)
<1> DEFINE S == {n \in Nat : ~\E f : Filtering(f, ops, n)}
<1>1. SUFFICES ASSUME S # {} PROVE FALSE
  OBVIOUS
<1>2. PICK n \in S : \A j \in S : n <= j
  <2>1. S \in SUBSET Nat
    OBVIOUS
  <2>2. QED
    BY <1>1, <2>1, LeastNatural
<1>3. n \in Nat /\ ~\E f : Filtering(f, ops, n)
  BY <1>2
<1>4. CASE n = 0
  <2> DEFINE f == [j \in 0..0 |-> <<>>]
  <2>1. f = [j \in 0..0 |-> IF j = 0 THEN <<>> ELSE Kept(f[j - 1], ops[j])]
    OBVIOUS
  <2>2. QED
    BY <1>3, <1>4, <2>1 DEF Filtering
<1>5. CASE n # 0
  <2>1. n - 1 \in Nat /\ ~(n <= n - 1)
    BY <1>3, <1>5
  <2>2. n - 1 \notin S
    BY <1>2, <2>1
  <2>3. PICK g : Filtering(g, ops, n - 1)
    BY <2>1, <2>2
  <2> DEFINE f == [j \in 0..n |-> IF j < n THEN g[j] ELSE Kept(g[n - 1], ops[n])]
  <2>4. \A j \in 0..(n - 1) : g[j] = IF j = 0 THEN <<>> ELSE Kept(g[j - 1], ops[j])
    BY <2>3 DEF Filtering
  <2>5. ASSUME NEW j \in 0..n
        PROVE  f[j] = IF j = 0 THEN <<>> ELSE Kept(f[j - 1], ops[j])
    <3>1. CASE j = 0
      <4>1. 0 \in 0..(n - 1) /\ 0 < n
        BY <1>3, <1>5
      <4>2. QED
        BY <2>4, <3>1, <4>1
    <3>2. CASE j # 0 /\ j < n
      <4>1. j \in 0..(n - 1) /\ j - 1 \in 0..n /\ j - 1 < n
        BY <1>3, <3>2
      <4>2. f[j] = g[j] /\ f[j - 1] = g[j - 1]
        BY <3>2, <4>1
      <4>3. QED
        BY <2>4, <3>2, <4>1, <4>2
    <3>3. CASE j = n
      <4>1. n - 1 \in 0..n /\ n - 1 < n /\ ~(n < n)
        BY <1>3, <1>5
      <4>2. f[j] = Kept(g[n - 1], ops[n]) /\ f[n - 1] = g[n - 1]
        BY <3>3, <4>1
      <4>3. QED
        BY <1>5, <3>3, <4>2
    <3>4. QED
      BY <1>3, <3>1, <3>2, <3>3
  <2>6. f = [j \in 0..n |-> f[j]]
    OBVIOUS
  <2> HIDE DEF f
  <2>7. f = [j \in 0..n |-> IF j = 0 THEN <<>> ELSE Kept(f[j - 1], ops[j])]
    BY <2>5, <2>6
  <2>8. QED
    BY <1>3, <2>7 DEF Filtering
<1>6. QED
  BY <1>4, <1>5

\* What is scheduled of a thread's code is code.
LEMMA ScheduledCode ==
  ASSUME NEW ops, IsCode(ops)
  PROVE  IsCode(schedulingPoints(ops))
<1> DEFINE S == {ops[i] : i \in DOMAIN ops}
           f == CHOOSE f : Filtering(f, ops, Len(ops))
           B == {n \in 0..Len(ops) : f[n] \notin Seq(S)}
<1>1. /\ Len(ops) \in Nat /\ DOMAIN ops = 1..Len(ops)
      /\ \A i \in 1..Len(ops) : ops[i] \in S
      /\ \A o \in S : IsOperation(o)
  BY LenProperties DEF IsCode
<1>2. schedulingPoints(ops) = f[Len(ops)]
  BY DEF schedulingPoints, Filtering, Kept
<1>3. Filtering(f, ops, Len(ops))
  BY <1>1, FilteringExists
<1> HIDE DEF f, S
<1>4. f[0] = <<>> /\ \A n \in 1..Len(ops) : f[n] = Kept(f[n - 1], ops[n])
  BY <1>1, <1>3 DEF Filtering
<1>5. B = {}
  <2>1. SUFFICES ASSUME B # {} PROVE FALSE
    OBVIOUS
  <2>2. PICK n \in B : \A j \in B : n <= j
    <3>1. B \in SUBSET Nat
      BY <1>1
    <3> HIDE DEF B
    <3>2. QED
      BY <2>1, <3>1, LeastNatural
  <2>3. n \in 0..Len(ops) /\ f[n] \notin Seq(S)
    BY <2>2
  <2>4. n # 0
    <3>1. <<>> \in Seq(S)
      BY EmptySeq
    <3>2. QED
      BY <1>4, <2>3, <3>1
  <2>5. n - 1 \in 0..Len(ops) /\ n \in 1..Len(ops) /\ ~(n <= n - 1)
    BY <1>1, <2>3, <2>4
  <2>6. f[n - 1] \in Seq(S)
    BY <2>2, <2>5
  <2>7. Kept(f[n - 1], ops[n]) \in Seq(S)
    BY <1>1, <2>5, <2>6, AppendProperties DEF Kept
  <2>8. QED
    BY <1>4, <2>3, <2>5, <2>7
<1>6. f[Len(ops)] \in Seq(S)
  BY <1>1, <1>5
<1> DEFINE x == f[Len(ops)]
<1>7. Len(x) \in Nat /\ DOMAIN x = 1..Len(x) /\ x = [i \in 1..Len(x) |-> x[i]]
  BY <1>6, LenProperties
<1>8. \A i \in DOMAIN x : x[i] \in S
  BY <1>6, <1>7, ElementOfSeq
<1> HIDE DEF x
<1>9. x \in Seq({x[i] : i \in DOMAIN x})
  <2>1. x \in [1..Len(x) -> {x[i] : i \in DOMAIN x}]
    BY <1>7
  <2>2. QED
    BY <1>7, <2>1, SeqDef
<1>10. QED
  BY <1>1, <1>2, <1>8, <1>9 DEF IsCode, x

\* A tester at the start of an execution.
LEMMA Starts ==
  ASSUME NEW prog, IsProgram(prog)
  PROVE  /\ Good(Initial(prog), {}) /\ Main \in Thread /\ Main \in Initial(prog).enabled
         /\ \A t \in Thread : ~Queued(Initial(prog), t)
<1> DEFINE s == Initial(prog)
<1>1. /\ s.prog = prog /\ s.enabled = Thread
      /\ \A t \in Thread : s.lock_wait_map[t] = NULL /\ s.lock_ready_map[t] = NULL /\ s.cond_map[t] = NULL
      /\ s.relock = {}
  BY DEF Initial
<1>2. Shaped(s)
  BY DEF Shaped, Fields, Initial
<1> HIDE DEF s
<1>3. Good(s, {})
  BY <1>1, <1>2 DEF Good, Sane, Filed, WaitsDisabled
<1>4. Main \in Thread
  BY ProgramAssumption DEF Main, Thread
<1>5. QED
  BY <1>1, <1>3, <1>4 DEF Queued, s

-----------------------------------------------------------------------------
(***************************************************************************)
(* The invariant and the theorems.                                         *)
(***************************************************************************)

\* The variables after the hooks are the tester they leave.
LEMMA BecomesTester ==
  ASSUME NEW a, TesterOK(a), Becomes(a), targets' = targets
  PROVE  TesterOK(Tester)'
<1>1. a = [f \in TesterFields |-> a[f]]
  BY DEF TesterOK
<1>2. /\ Tester'.st = a.st /\ Tester'.paused = a.paused /\ Tester'.info = a.info /\ Tester'.found = a.found
      /\ Tester' = [f \in TesterFields |-> Tester'[f]]
  BY DEF Becomes, Tester, TesterFields
<1> DEFINE b == Tester'
<1>3. b = a
  BY <1>1, <1>2 DEF TesterFields
<1>4. ASSUME NEW t \in Thread, t \in a.paused
      PROVE  Described(a.st, t, a.info[t])'
  <2>1. Described(a.st, t, a.info[t])
    BY <1>4 DEF TesterOK
  <2>2. QED
    BY <2>1 DEF Described, AtTarget, isLockRace
<1>5. QED
  BY <1>3, <1>4 DEF TesterOK

\* ActiveInv holds at the start.
LEMMA InvInit == Init => ActiveInv
<1> SUFFICES ASSUME Init PROVE ActiveInv
  OBVIOUS
<1>1. PICK i \in Inputs : st = Initial(i.prog)
  BY DEF Init
<1>2. IsProgram(i.prog)
  BY InputAssumption DEF IsProgram
<1>3. /\ Good(st, {}) /\ Main \in Thread
      /\ \A t \in Thread : ~Queued(st, t)
  BY <1>1, <1>2, Starts
<1> DEFINE a == Tester
<1>4. /\ a.st = st /\ a.paused = {} /\ a.info = [t \in Thread |-> NoInfo]
      /\ a = [f \in TesterFields |-> a[f]]
  BY DEF Tester, Init, TesterFields
<1> HIDE DEF a
<1>5. TesterOK(a)
  BY <1>3, <1>4 DEF TesterOK, TrylockFiled, Queued
<1>6. QED
  BY <1>3, <1>5 DEF Init, ActiveInv, a

\* A step reports a race only when there is one.
RaceStep == ~raceFound /\ raceFound' => Racing(st')

\* ActiveInv is preserved by every step, and a race that is reported is one.
LEMMA InvNext ==
  ASSUME ActiveInv, Next
  PROVE  ActiveInv' /\ RaceStep
<1> DEFINE T == Tester
<1>1. TesterOK(T) /\ T.st = st /\ T.paused = active_testing_paused /\ T.found = raceFound
  BY DEF ActiveInv, Tester
<1>2. CASE setTestingTargets
  <2> DEFINE prog == Scheduled(st.prog)
  <2>1. IsProgram(prog)
    <3>1. IsProgram(st.prog)
      BY <1>1 DEF TesterOK, Good, Sane
    <3>2. \A t \in Thread : prog[t] = schedulingPoints(st.prog[t])
      BY DEF Scheduled
    <3> HIDE DEF prog
    <3>3. QED
      BY <3>1, <3>2, ScheduledCode DEF IsProgram
  <2>2. /\ st' = Initial(prog) /\ cur' = Main /\ active_testing_paused' = {} /\ raceFound' = FALSE
        /\ active_testing_info' = [t \in Thread |-> NoInfo] /\ phase' = "run"
    BY <1>2 DEF setTestingTargets
  <2> HIDE DEF prog
  <2>3. /\ Good(st', {}) /\ Main \in Thread /\ Main \in st'.enabled
        /\ \A t \in Thread : ~Queued(st', t)
    BY <2>1, <2>2, Starts
  <2>4. /\ Tester'.st = st' /\ Tester'.paused = {} /\ Tester'.info = [t \in Thread |-> NoInfo]
        /\ Tester' = [f \in TesterFields |-> Tester'[f]]
    BY <2>2 DEF Tester, TesterFields
  <2>5. TesterOK(Tester)'
    BY <2>3, <2>4 DEF TesterOK, TrylockFiled, Queued
  <2>6. QED
    BY <2>2, <2>3, <2>5 DEF ActiveInv, RaceStep
<1>3. CASE SchedulingPoint
  <2>1. PICK sig \in IF SignalTargets(st, cur) = {} THEN {INVALID_THREAD} ELSE SignalTargets(st, cur) :
          \E b \in Hooks([Tester EXCEPT !.st = Run(st, cur, sig)], cur, NextOp(st, cur), sig) : Becomes(b)
    BY <1>3 DEF SchedulingPoint
  <2>2. PICK b \in Hooks([Tester EXCEPT !.st = Run(st, cur, sig)], cur, NextOp(st, cur), sig) : Becomes(b)
    BY <2>1
  <2>3. phase = "run" /\ phase' = "prevent" /\ targets' = targets /\ cur' = cur
    BY <1>3 DEF SchedulingPoint
  <2>4. Outcome(b)
    BY <2>2, <2>3, HooksOK
  <2>5. TesterOK(Tester)'
    BY <2>2, <2>3, <2>4, BecomesTester DEF Outcome
  <2>6. RaceStep
    BY <2>2, <2>4 DEF Outcome, Becomes, RaceStep
  <2>7. QED
    BY <2>3, <2>5, <2>6 DEF ActiveInv
<1>4. CASE noLivelockPrevention \/ EndExecution \/ \E t \in Thread : pickNextSchedulingChoice(t)
  <2>1. /\ Becomes(T) /\ targets' = targets /\ cur' \in Thread
        /\ phase' \in {"run", "pick", "ended"} /\ (phase' = "run" => cur' \in st'.enabled)
    BY <1>4 DEF noLivelockPrevention, EndExecution, pickNextSchedulingChoice, Becomes, Tester, ActiveInv
  <2>2. TesterOK(Tester)'
    BY <1>1, <2>1, BecomesTester
  <2>3. RaceStep
    BY <1>1, <2>1 DEF Becomes, RaceStep
  <2>4. QED
    BY <2>1, <2>2, <2>3 DEF ActiveInv
<1>5. ASSUME NEW t \in Thread, livelockPrevention(t) \/ EnablePostponed(t)
      PROVE  ActiveInv' /\ RaceStep
  <2> DEFINE a == reenableThreadIfLegal(T, t)
  <2>1. /\ Becomes(a) /\ targets' = targets /\ t \in T.paused
        /\ phase' \in {"pick", "run"} /\ cur' \in Thread
        /\ phase' = "run" => cur' \in a.st.enabled
    BY <1>1, <1>5 DEF livelockPrevention, EnablePostponed, ActiveInv
  <2>2. LetGo(T, a, {t}) /\ a.found = T.found
    BY <1>1, <2>1, Reenables
  <2> HIDE DEF a
  <2>3. TesterOK(Tester)'
    BY <2>1, <2>2, BecomesTester DEF LetGo
  <2>4. RaceStep
    BY <1>1, <2>1, <2>2 DEF Becomes, RaceStep
  <2>5. QED
    BY <2>1, <2>3, <2>4 DEF ActiveInv, Becomes
<1>6. QED
  BY <1>2, <1>3, <1>4, <1>5 DEF Next

\* ... and by steps that change nothing.
LEMMA InvStutter ==
  ASSUME ActiveInv, UNCHANGED vars
  PROVE  ActiveInv'
<1>1. Becomes(Tester) /\ targets' = targets /\ cur' = cur /\ phase' = phase /\ st' = st
  BY DEF Becomes, Tester, vars
<1>2. TesterOK(Tester)'
  BY <1>1, BecomesTester DEF ActiveInv
<1>3. QED
  BY <1>1, <1>2 DEF ActiveInv

\* The inductive invariant.
LEMMA Invariance == Spec => []ActiveInv
<1>1. ActiveInv /\ [Next]_vars => ActiveInv'
  BY InvNext, InvStutter
<1>2. QED
  BY InvInit, <1>1, PTL DEF Spec

\* A paused thread is neither enabled nor scheduled, whatever the other threads
\* unlock, signal or broadcast: only reenableThreadIfLegal lets it go (the
\* last assertions of pickNextSchedulingChoice).
THEOREM PausedThreadsStay == Spec => []PausedStay
<1>1. ASSUME ActiveInv PROVE PausedStay
  <2>1. /\ TesterOK(Tester) /\ Tester.st = st /\ Tester.paused = active_testing_paused
        /\ phase = "run" => cur \in st.enabled
    BY <1>1 DEF ActiveInv, Tester
  <2>2. \A t \in active_testing_paused : t \notin st.enabled
    BY <2>1 DEF TesterOK
  <2>3. QED
    BY <2>1, <2>2 DEF PausedStay
<1>2. QED
  BY <1>1, Invariance, PTL

\* deadlockCheck after EnablePostponed: a deadlock is reported only when every
\* thread of the program is blocked, or is filed for the mutex of a trylock at
\* which it was paused.
THEOREM PausingMakesNoDeadlock == Spec => []PausedNoDeadlock
<1>1. ASSUME ActiveInv PROVE PausedNoDeadlock
  <2> SUFFICES ASSUME Deadlock, NEW t \in Thread PROVE ReallyBlocked(t) \/ PausedTrylock(t)
    BY DEF PausedNoDeadlock
  <2>1. /\ TesterOK(Tester) /\ Tester.st = st /\ Tester.paused = active_testing_paused
        /\ Tester.info = active_testing_info
    BY <1>1 DEF ActiveInv, Tester
  <2>2. Filed(st, t) /\ TrylockFiled(Tester, t) /\ Stuck(st, t)
    BY <2>1 DEF TesterOK, Good, Sane, Deadlock
  <2>3. CASE st.lock_wait_map[t] # NULL
    <3> DEFINE l == st.lock_wait_map[t]
    <3>1. Wants(st, t, l) /\ st.owner[l] # INVALID_THREAD
      BY <2>2, <2>3 DEF Filed
    <3>2. CASE AtOp(st, t, Waits) /\ t \in st.relock /\ l = Op(st, t).lock
      BY <3>1, <3>2 DEF ReallyBlocked, AtOp
    <3>3. CASE AtOp(st, t, Locks) /\ l = Op(st, t).obj
      <4>1. CASE Op(st, t).op = "lock"
        BY <3>1, <3>3, <4>1 DEF ReallyBlocked, AtOp
      <4>2. CASE Op(st, t).op = "trylock"
        <5>1. AtOp(st, t, {"trylock"})
          BY <3>3, <4>2 DEF AtOp
        <5>2. active_testing_info[t].me = t
          BY <2>1, <2>2, <2>3, <5>1 DEF TrylockFiled
        <5>3. QED
          BY <4>2, <5>1, <5>2 DEF PausedTrylock, AtOp
      <4>3. QED
        BY <3>3, <4>1, <4>2 DEF AtOp, Locks
    <3>4. QED
      BY <3>1, <3>2, <3>3 DEF Wants
  <2>4. CASE st.lock_wait_map[t] = NULL
    BY <2>2, <2>4 DEF Stuck, ReallyBlocked, AtOp
  <2>5. QED
    BY <2>3, <2>4
<1>2. QED
  BY <1>1, Invariance, PTL

\* isRacing: when a race is reported, two threads are before accesses to the
\* same object at the target instructions, and one of them writes it.
THEOREM ReportedRaceIsReal == Spec => RaceIsReal
<1>1. ASSUME ActiveInv, [Next]_vars
      PROVE  [RaceStep]_vars
  BY <1>1, InvNext
<1>2. Spec => [][RaceStep]_vars
  BY <1>1, Invariance, PTL DEF Spec
<1>3. QED
  BY <1>2 DEF RaceIsReal, RaceStep, Racing

=============================================================================
