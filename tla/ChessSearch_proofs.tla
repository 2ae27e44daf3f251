------------------------- MODULE ChessSearch_proofs -------------------------
(***************************************************************************)
(* The CHESS search, for any bound and any program in which no thread      *)
(* makes two timed waits (YieldAssumption).                                *)
(*                                                                         *)
(* An execution is a path of configurations, one decision apart.  The next *)
(* configuration is a function of the present one and of the choice made,  *)
(* so an execution that makes the choices of the stack is, decision by     *)
(* decision, the one the stack was built from.                             *)
(***************************************************************************)
EXTENDS ChessSearch, FiniteSetTheorems, SequenceTheorems, WellFoundedInduction, TLAPS

-----------------------------------------------------------------------------
(***************************************************************************)
(* Least and greatest elements.                                            *)
(***************************************************************************)

\* Every non-empty set of natural numbers has a least element.
LEMMA LeastNatural ==
  ASSUME NEW S \in SUBSET Nat, S # {}
  PROVE  \E m \in S : \A k \in S : m <= k
<1> DEFINE R == OpToRel(<, Nat)
<1>1. IsWellFoundedOn(R, Nat)
  BY NatLessThanWellFounded
<1>2. \A k, m \in Nat : <<k, m>> \in R <=> k < m
  BY DEF OpToRel
<1> HIDE DEF R
<1>3. PICK m \in S : \A k \in S : ~(<<k, m>> \in R)
  BY <1>1, WFMin
<1>4. \A k \in S : ~(k < m)
  BY <1>2, <1>3
<1>5. \A k \in S : m <= k
  BY <1>4
<1>6. QED
  BY <1>5

\* A non-empty set of natural numbers below a bound has a greatest element.
LEMMA GreatestNatural ==
  ASSUME NEW n \in Nat, NEW S \in SUBSET (0..n), S # {}
  PROVE  \E m \in S : \A k \in S : m >= k
<1> DEFINE T == {n - k : k \in S}
<1>1. T \in SUBSET Nat /\ T # {}
  <2>1. \A k \in S : n - k \in Nat
    OBVIOUS
  <2>2. T # {}
    OBVIOUS
  <2>3. \A x \in T : x \in Nat
    BY <2>1
  <2>4. QED
    BY <2>2, <2>3
<1>2. PICK m \in T : \A k \in T : m <= k
  BY <1>1, LeastNatural
<1>3. PICK x \in S : m = n - x
  OBVIOUS
<1>4. \A k \in S : x >= k
  BY <1>2, <1>3
<1>5. QED
  BY <1>4

\* Lowest and Highest are what they are called.
LEMMA LowestIn ==
  ASSUME NEW S \in SUBSET Nat, S # {}
  PROVE  Lowest(S) \in S
BY LeastNatural DEF Lowest

\* The same for the greatest element, below a bound.
LEMMA HighestIn ==
  ASSUME NEW n \in Nat, NEW S \in SUBSET (0..n), S # {}
  PROVE  Highest(S) \in S /\ \A k \in S : Highest(S) >= k
BY GreatestNatural DEF Highest

-----------------------------------------------------------------------------
(***************************************************************************)
(* The states of a program.                                                *)
(***************************************************************************)
Fields == {"prog", "pc", "owner", "enabled", "lock_wait_map", "lock_ready_map",
           "cond_map", "relock"}

\* A record with the fields of a state, of program prog.
StateOf(s, prog) ==
  s = [f \in Fields |-> s[f]] /\ s.prog = prog /\ s.enabled \subseteq Thread

\* The first state is one.
LEMMA InitialState ==
  ASSUME NEW prog
  PROVE  StateOf(Initial(prog), prog)
BY DEF Initial, StateOf, Fields

\* The mutexes and the waiters.
LEMMA LockSteps ==
  ASSUME NEW s, NEW prog, StateOf(s, prog), NEW t \in Thread, NEW l
  PROVE  /\ StateOf(enableThread(s, t), prog) /\ StateOf(disableThread(s, t), prog)
         /\ StateOf(determineLockStatus(s, t, l), prog)
         /\ StateOf(threadHasAcquiredLock(s, t, l), prog)
         /\ StateOf(threadHasReleasedLock(s, l), prog)
<1>1. StateOf(enableThread(s, t), prog)
  BY DEF StateOf, Fields, enableThread
<1>2. StateOf(disableThread(s, t), prog)
  BY DEF StateOf, Fields, disableThread
<1>3. StateOf(determineLockStatus(s, t, l), prog)
  BY <1>1, <1>2 DEF StateOf, Fields, determineLockStatus
<1>4. StateOf(threadHasAcquiredLock(s, t, l), prog)
  BY DEF StateOf, Fields, threadHasAcquiredLock
<1>5. StateOf(threadHasReleasedLock(s, l), prog)
  BY DEF StateOf, Fields, threadHasReleasedLock
<1>6. QED
  BY <1>1, <1>2, <1>3, <1>4, <1>5

\* The condition variables and the end of a thread.
LEMMA CondSteps ==
  ASSUME NEW s, NEW prog, StateOf(s, prog), NEW t \in Thread, NEW o, NEW W \in SUBSET Thread
  PROVE  /\ StateOf(leaveCond(s, W), prog)
         /\ StateOf(enterCond(s, t, o), prog)
         /\ StateOf(threadFinish(s, t), prog)
<1>1. StateOf(leaveCond(s, W), prog)
  BY DEF StateOf, Fields, leaveCond
<1>2. StateOf(enterCond(s, t, o), prog)
  <2> DEFINE r == threadHasReleasedLock(s, o.lock)
             w == [r EXCEPT !.cond_map[t] = o.obj]
  <2>1. StateOf(r, prog)
    BY LockSteps
  <2>2. StateOf(w, prog)
    <3> HIDE DEF r
    <3> QED
      BY <2>1 DEF StateOf, Fields
  <2>3. enterCond(s, t, o) = IF o.op = "wait" THEN disableThread(w, t) ELSE enableThread(w, t)
    BY DEF enterCond
  <2> HIDE DEF w
  <2>4. StateOf(disableThread(w, t), prog) /\ StateOf(enableThread(w, t), prog)
    BY <2>2, LockSteps
  <2>5. QED
    BY <2>3, <2>4
<1>3. StateOf(threadFinish(s, t), prog)
  BY DEF StateOf, Fields, threadFinish
<1>4. QED
  BY <1>1, <1>2, <1>3

\* The end of the operation a thread was paused in.
LEMMA CompleteState ==
  ASSUME NEW s, NEW prog, StateOf(s, prog), NEW t \in Thread
  PROVE  StateOf(Complete(s, t), prog)
<1> DEFINE o == Op(s, t)
           r == threadHasAcquiredLock(s, t, o.lock)
           q == [r EXCEPT !.relock = @ \ {t}]
<1>1. StateOf(q, prog)
  <2>1. StateOf(r, prog)
    BY LockSteps
  <2> HIDE DEF r
  <2>2. QED
    BY <2>1 DEF StateOf, Fields
<1>2. Complete(s, t) =
        IF ~InOp(s, t) THEN s
        ELSE CASE o.op = "lock" -> threadHasAcquiredLock(s, t, o.obj)
               [] o.op = "trylock" /\ s.owner[o.obj] = INVALID_THREAD ->
                    threadHasAcquiredLock(s, t, o.obj)
               [] t \in s.relock -> q
               [] OTHER -> s
  BY DEF Complete
<1>3. StateOf(threadHasAcquiredLock(s, t, o.obj), prog)
  BY LockSteps
<1> HIDE DEF q, o
<1>4. \/ Complete(s, t) = s
      \/ Complete(s, t) = threadHasAcquiredLock(s, t, o.obj)
      \/ Complete(s, t) = q
  BY <1>2, Zenon
<1>5. QED
  BY <1>1, <1>3, <1>4

\* The arrival at the next operation.
LEMMA ArriveState ==
  ASSUME NEW s, NEW prog, StateOf(s, prog), NEW t \in Thread, NEW sig \in Thread \cup {INVALID_THREAD}
  PROVE  StateOf(Arrive(s, t, sig), prog)
<1> DEFINE n == [s EXCEPT !.pc[t] = @ + 1]
           o == Op(n, t)
<1>1. StateOf(n, prog)
  BY DEF StateOf, Fields
<1>2. OnCond(n, o.obj) \in SUBSET Thread
  BY DEF OnCond
<1>3. \/ Arrive(s, t, sig) = threadFinish(n, t)
      \/ Arrive(s, t, sig) = n
      \/ Arrive(s, t, sig) = determineLockStatus(n, t, o.obj)
      \/ Arrive(s, t, sig) = enableThread(n, t)
      \/ Arrive(s, t, sig) = disableThread(n, t)
      \/ Arrive(s, t, sig) = threadHasReleasedLock(n, o.obj)
      \/ Arrive(s, t, sig) = enterCond(n, t, o)
      \/ sig # INVALID_THREAD /\ Arrive(s, t, sig) = leaveCond(n, {sig})
      \/ Arrive(s, t, sig) = leaveCond(n, OnCond(n, o.obj))
  BY Zenon DEF Arrive
<1> HIDE DEF n, o
<1>4. sig # INVALID_THREAD => {sig} \in SUBSET Thread
  OBVIOUS
<1>5. /\ StateOf(determineLockStatus(n, t, o.obj), prog)
      /\ StateOf(enableThread(n, t), prog) /\ StateOf(disableThread(n, t), prog)
      /\ StateOf(threadHasReleasedLock(n, o.obj), prog)
  BY <1>1, LockSteps
<1>6. /\ StateOf(threadFinish(n, t), prog) /\ StateOf(enterCond(n, t, o), prog)
      /\ StateOf(leaveCond(n, OnCond(n, o.obj)), prog)
  BY <1>1, <1>2, CondSteps
<1>7. sig # INVALID_THREAD => StateOf(leaveCond(n, {sig}), prog)
  BY <1>1, <1>4, CondSteps
<1>8. QED
  BY <1>1, <1>3, <1>5, <1>6, <1>7

\* What a thread does up to its next scheduling point leads to a state.
LEMMA RunState ==
  ASSUME NEW s, NEW prog, StateOf(s, prog), NEW t \in Thread, NEW sig \in Thread \cup {INVALID_THREAD}
  PROVE  StateOf(Run(s, t, sig), prog)
<1>1. \/ Run(s, t, sig) = leaveCond(s, {t})
      \/ Run(s, t, sig) = s
      \/ Run(s, t, sig) = Arrive(Complete(s, t), t, sig)
  BY DEF Run
<1>2. {t} \in SUBSET Thread
  OBVIOUS
<1>3. StateOf(leaveCond(s, {t}), prog)
  BY <1>2, CondSteps
<1>4. StateOf(Complete(s, t), prog)
  BY CompleteState
<1>5. StateOf(Arrive(Complete(s, t), t, sig), prog)
  BY <1>4, ArriveState
<1>6. QED
  BY <1>1, <1>3, <1>5

-----------------------------------------------------------------------------
(***************************************************************************)
(* The path of an execution.  A configuration is the state at a scheduling *)
(* point, the thread with the baton, and the waiter it has decided to      *)
(* signal, if it signals and has decided: a scheduling point is one or two *)
(* decisions.                                                              *)
(***************************************************************************)
Configuration(s, c, sig) == [st |-> s, cur |-> c, sig |-> sig]

IsConfiguration(x, prog) ==
  /\ x = Configuration(x.st, x.cur, x.sig)
  /\ StateOf(x.st, prog)
  /\ x.cur \in Thread /\ x.sig \in Thread \cup {INVALID_THREAD}

Start(prog) == Configuration(Initial(prog), Main, INVALID_THREAD)

\* The next decision of x: whom to signal, or whom to schedule.
Signals(x) == x.sig = INVALID_THREAD /\ SignalTargets(x.st, x.cur) # {}
Options(x) == IF Signals(x) THEN SignalTargets(x.st, x.cur) ELSE Run(x.st, x.cur, x.sig).enabled
MadeAt(x, c) ==
  [issignal |-> Signals(x), chosen |-> c, caller |-> x.cur, options |-> Options(x)]
After(x, c) ==
  IF Signals(x) THEN Configuration(x.st, x.cur, c)
  ELSE Configuration(Run(x.st, x.cur, x.sig), c, INVALID_THREAD)
GoesOn(x) == ~Ends(x.st, x.cur) /\ ~Fails(x.st, x.cur)

\* No decision is made at y, where the execution ends with outcome o.
EndsWith(y, o) ==
  /\ GoesOn(y) => Options(y) = {}
  /\ o = IF Fails(y.st, y.cur) THEN "program assert"
         ELSE IF Ends(y.st, y.cur) THEN "end_log" ELSE "program deadlock"

\* d and e are the same decision.
Agree(d, e) ==
  /\ d.issignal = e.issignal /\ d.chosen = e.chosen
  /\ d.caller = e.caller /\ d.options = e.options

\* Decision d, made at x, leads to y.
Leads(x, d, y) ==
  GoesOn(x) /\ Agree(d, MadeAt(x, d.chosen)) /\ d.chosen \in Options(x) /\ y = After(x, d.chosen)

Path(prog, d, p) == p[0] = Start(prog) /\ \A i \in 1..Len(d) : Leads(p[i - 1], d[i], p[i])

Decision == [issignal : BOOLEAN, chosen : Thread, caller : Thread, options : SUBSET Thread]
Element ==
  [issignal : BOOLEAN, caller : Thread, options : SUBSET Thread, chosen : Thread,
   todo : SUBSET Thread]

\* The alternatives left are options, and the choice made is not among them.
StackOK(stack) ==
  /\ stack \in Seq(Element)
  /\ \A i \in 1..Len(stack) :
       stack[i].todo \subseteq stack[i].options \ {stack[i].chosen}

\* The decisions made are those of the stack; past it, they are not preemptions.
Merges(stack, made) ==
  /\ made \in Seq(Decision)
  /\ \A i \in 1..Len(made) :
       IF i <= Len(stack) THEN Agree(made[i], stack[i]) ELSE ~isPreempt(made[i])

\* The execution at x has made the decisions made, and follows the stack.
Follows(prog, stack, made, read, x) ==
  /\ IsConfiguration(x, prog)
  /\ Merges(stack, made)
  /\ read \in Seq(Thread)
  /\ Len(read) = IF Len(made) < Len(stack) THEN Len(stack) - Len(made) ELSE 0
  /\ \A i \in 1..Len(read) : read[i] = stack[Len(made) + i].chosen
  /\ \E p : /\ Path(prog, made, p) /\ p[Len(made)] = x
            /\ Len(made) < Len(stack) => Path(prog, stack, p)

-----------------------------------------------------------------------------
\* The options of a decision are threads.
LEMMA OptionsOf ==
  ASSUME NEW x, NEW prog, IsConfiguration(x, prog)
  PROVE  Options(x) \in SUBSET Thread
<1>1. StateOf(Run(x.st, x.cur, x.sig), prog)
  BY RunState DEF IsConfiguration
<1>2. Run(x.st, x.cur, x.sig).enabled \subseteq Thread
  BY <1>1 DEF StateOf
<1>3. SignalTargets(x.st, x.cur) \subseteq Thread
  BY DEF SignalTargets, OnCond
<1>4. QED
  BY <1>2, <1>3 DEF Options

\* A decision leads to a configuration.
LEMMA AfterOf ==
  ASSUME NEW x, NEW prog, IsConfiguration(x, prog), NEW c \in Thread
  PROVE  IsConfiguration(After(x, c), prog)
<1>1. StateOf(Run(x.st, x.cur, x.sig), prog)
  BY RunState DEF IsConfiguration
<1>2. CASE Signals(x)
  BY <1>2 DEF IsConfiguration, Configuration, After
<1>3. CASE ~Signals(x)
  <2>1. After(x, c) = Configuration(Run(x.st, x.cur, x.sig), c, INVALID_THREAD)
    BY <1>3 DEF After
  <2>2. QED
    BY <1>1, <2>1 DEF IsConfiguration, Configuration
<1>4. QED
  BY <1>2, <1>3

\* The same decision leads to the same configuration.
LEMMA LeadsSame ==
  ASSUME NEW x, NEW d, NEW e, NEW y, Agree(d, e), Leads(x, e, y)
  PROVE  Leads(x, d, y)
BY DEF Agree, Leads, MadeAt

\* An execution that has not made all the decisions of the stack is at a
\* configuration where there is a decision to make.
LEMMA NoDeadEnd ==
  ASSUME NEW prog, NEW stack, NEW made, NEW read, NEW x, stack \in Seq(Element),
         Follows(prog, stack, made, read, x), Len(made) < Len(stack)
  PROVE  /\ GoesOn(x) /\ Options(x) # {}
         /\ \E y : Leads(x, stack[Len(made) + 1], y)
<1>1. PICK p : Path(prog, stack, p) /\ p[Len(made)] = x
  BY DEF Follows
<1>2. Len(made) \in Nat /\ Len(stack) \in Nat
  BY LenProperties DEF Follows, Merges
<1>3. Len(made) + 1 \in 1..Len(stack) /\ (Len(made) + 1) - 1 = Len(made)
  BY <1>2
<1>4. Leads(p[Len(made)], stack[Len(made) + 1], p[Len(made) + 1])
  BY <1>1, <1>3 DEF Path
<1>5. Leads(x, stack[Len(made) + 1], p[Len(made) + 1])
  BY <1>1, <1>4
<1>6. QED
  BY <1>5 DEF Leads

\* A decision is a record of the decision type.
LEMMA MadeAtType ==
  ASSUME NEW x, NEW prog, IsConfiguration(x, prog), NEW c \in Options(x)
  PROVE  MadeAt(x, c) \in Decision /\ c \in Thread
<1>1. Options(x) \in SUBSET Thread
  BY OptionsOf
<1>2. Signals(x) \in BOOLEAN
  BY DEF Signals
<1>3. x.cur \in Thread
  BY DEF IsConfiguration
<1>4. QED
  BY <1>1, <1>2, <1>3 DEF MadeAt, Decision

\* Path p up to n, then y.
GoOn(p, n, y) == [i \in 0..(n + 1) |-> IF i <= n THEN p[i] ELSE y]

\* A path goes on with a decision made at its end.
LEMMA PathGoesOn ==
  ASSUME NEW prog, NEW made \in Seq(Decision), NEW p, NEW d \in Decision, NEW y,
         Path(prog, made, p), Leads(p[Len(made)], d, y)
  PROVE  /\ Path(prog, Append(made, d), GoOn(p, Len(made), y))
         /\ GoOn(p, Len(made), y)[Len(made) + 1] = y
<1> DEFINE n == Len(made)
           q == GoOn(p, n, y)
<1>1. n \in Nat /\ Len(Append(made, d)) = n + 1
  BY LenProperties, AppendProperties
<1>2. /\ \A i \in 1..n : Append(made, d)[i] = made[i]
      /\ Append(made, d)[n + 1] = d
  BY AppendProperties
<1>3. /\ q[n + 1] = y
      /\ \A i \in 0..n : q[i] = p[i]
  BY <1>1 DEF GoOn
<1> HIDE DEF q, n
<1>4. q[0] = Start(prog)
  BY <1>1, <1>3 DEF Path
<1>5. ASSUME NEW i \in 1..(n + 1)
      PROVE  Leads(q[i - 1], Append(made, d)[i], q[i])
  <2>1. CASE i <= n
    <3>1. i \in 1..n /\ i \in 0..n /\ i - 1 \in 0..n
      BY <1>1, <2>1
    <3>2. Leads(p[i - 1], made[i], p[i])
      BY <3>1 DEF Path, n
    <3>3. QED
      BY <1>2, <1>3, <3>1, <3>2
  <2>2. CASE i = n + 1
    <3>1. i - 1 = n /\ n \in 0..n
      BY <1>1, <2>2
    <3>2. QED
      BY <1>2, <1>3, <2>2, <3>1 DEF n
  <2>3. QED
    BY <1>1, <2>1, <2>2
<1>6. Path(prog, Append(made, d), q)
  BY <1>1, <1>4, <1>5 DEF Path
<1>7. QED
  BY <1>3, <1>6 DEF n, q

\* One decision of an execution that follows the stack: the choice read, or
\* the default past the stack, is an option, and the execution goes on
\* following the stack.
LEMMA MicroStep ==
  ASSUME NEW prog, NEW stack, NEW made, NEW read, NEW x, StackOK(stack),
         Follows(prog, stack, made, read, x), GoesOn(x),
         NEW default \in Options(x), ~isPreempt(MadeAt(x, default)),
         NEW c, c = Choose(read, default)
  PROVE  /\ c \in Options(x)
         /\ Follows(prog, stack, Append(made, MadeAt(x, c)), Rest(read), After(x, c))
<1> DEFINE n == Len(made)
           m == Len(stack)
           d == MadeAt(x, c)
           y == After(x, c)
<1>1. /\ stack \in Seq(Element) /\ made \in Seq(Decision) /\ read \in Seq(Thread)
      /\ n \in Nat /\ m \in Nat
  BY LenProperties DEF StackOK, Follows, Merges
<1>2. c \in Options(x) /\ (n < m => Agree(d, stack[n + 1]))
  <2>1. CASE n < m
    <3>1. c = stack[n + 1].chosen
      <4>1. Len(read) = m - n /\ 1 \in 1..Len(read)
        BY <1>1, <2>1 DEF Follows
      <4>2. read # <<>> /\ Head(read) = read[1]
        BY <1>1, <4>1
      <4>3. QED
        BY <4>1, <4>2 DEF Choose, Follows
    <3>2. PICK z : Leads(x, stack[n + 1], z)
      BY <1>1, <2>1, NoDeadEnd
    <3>3. QED
      BY <3>1, <3>2 DEF Leads, Agree, MadeAt
  <2>2. CASE ~(n < m)
    <3>1. Len(read) = 0
      BY <2>2 DEF Follows
    <3>2. read = <<>>
      BY <1>1, <3>1
    <3>3. QED
      BY <2>2, <3>2 DEF Choose
  <2>3. QED
    BY <2>1, <2>2
<1>3. n >= m => ~isPreempt(d)
  <2>1. ASSUME n >= m PROVE c = default
    <3>1. Len(read) = 0
      BY <1>1, <2>1 DEF Follows
    <3>2. QED
      BY <1>1, <3>1 DEF Choose
  <2>2. QED
    BY <2>1
<1>4. IsConfiguration(x, prog)
  BY DEF Follows
<1>5. d \in Decision /\ c \in Thread
  BY <1>2, <1>4, MadeAtType
<1>6. IsConfiguration(y, prog)
  BY <1>4, <1>5, AfterOf
<1>7. /\ Append(made, d) \in Seq(Decision) /\ Len(Append(made, d)) = n + 1
      /\ \A i \in 1..n : Append(made, d)[i] = made[i]
      /\ Append(made, d)[n + 1] = d
  BY <1>1, <1>5, AppendProperties
<1>8. Leads(x, d, y)
  BY <1>2 DEF Leads, Agree, MadeAt
<1> HIDE DEF d, y
<1>9. Merges(stack, Append(made, d))
  <2>1. ASSUME NEW i \in 1..(n + 1)
        PROVE  IF i <= m THEN Agree(Append(made, d)[i], stack[i])
                         ELSE ~isPreempt(Append(made, d)[i])
    <3>1. CASE i \in 1..n
      BY <1>7, <3>1 DEF Follows, Merges
    <3>2. CASE i = n + 1
      BY <1>1, <1>2, <1>3, <1>7, <3>2
    <3>3. QED
      BY <1>1, <3>1, <3>2
  <2>2. QED
    BY <1>7, <2>1 DEF Merges
<1>10. /\ Rest(read) \in Seq(Thread)
       /\ Len(Rest(read)) = IF n + 1 < m THEN m - (n + 1) ELSE 0
       /\ \A i \in 1..Len(Rest(read)) : Rest(read)[i] = stack[(n + 1) + i].chosen
  <2>1. CASE n < m
    <3>1. Len(read) = m - n /\ \A i \in 1..Len(read) : read[i] = stack[n + i].chosen
      BY <2>1 DEF Follows
    <3>2. read # <<>> /\ Rest(read) = Tail(read)
      BY <1>1, <2>1, <3>1 DEF Rest
    <3>3. /\ Tail(read) \in Seq(Thread) /\ Len(Tail(read)) = Len(read) - 1
          /\ \A i \in 1..Len(Tail(read)) : Tail(read)[i] = read[i + 1]
      BY <1>1, <3>2, HeadTailProperties
    <3>4. Len(Tail(read)) = IF n + 1 < m THEN m - (n + 1) ELSE 0
      <4> HIDE DEF n, m
      <4>1. Len(Tail(read)) = (m - n) - 1
        BY <3>1, <3>3
      <4>2. QED
        BY <1>1, <2>1, <4>1
    <3>5. ASSUME NEW i \in 1..Len(Tail(read))
          PROVE  Tail(read)[i] = stack[(n + 1) + i].chosen
      <4>1. i + 1 \in 1..Len(read) /\ n + (i + 1) = (n + 1) + i
        BY <1>1, <2>1, <3>1, <3>3
      <4>2. QED
        BY <3>1, <3>3, <4>1
    <3>6. QED
      BY <3>2, <3>3, <3>4, <3>5
  <2>2. CASE ~(n < m)
    <3>1. Len(read) = 0
      BY <2>2 DEF Follows
    <3>2. read = <<>> /\ Rest(read) = read
      BY <1>1, <3>1 DEF Rest
    <3>3. Len(Rest(read)) = 0 /\ ~(n + 1 < m)
      BY <1>1, <2>2, <3>1, <3>2
    <3>4. \A i \in 1..Len(Rest(read)) : FALSE
      BY <3>3
    <3>5. Rest(read) \in Seq(Thread)
      BY <1>1, <3>2
    <3> HIDE DEF n, m
    <3>6. QED
      BY <3>3, <3>4, <3>5
  <2>3. QED
    BY <2>1, <2>2
<1>11. \E q : /\ Path(prog, Append(made, d), q) /\ q[n + 1] = y
              /\ n + 1 < m => Path(prog, stack, q)
  <2>1. PICK p : /\ Path(prog, made, p) /\ p[n] = x
                 /\ n < m => Path(prog, stack, p)
    BY DEF Follows
  <2>2. CASE n < m
    <3>1. Path(prog, stack, p) /\ n + 1 \in 1..m /\ (n + 1) - 1 = n
      BY <1>1, <2>1, <2>2
    <3>2. Leads(x, stack[n + 1], p[n + 1])
      BY <2>1, <3>1 DEF Path
    <3>3. p[n + 1] = y
      <4>1. d.chosen = stack[n + 1].chosen
        BY <1>2, <2>2 DEF Agree
      <4>2. QED
        BY <1>8, <3>2, <4>1 DEF Leads
    <3>4. ASSUME NEW i \in 1..(n + 1)
          PROVE  Leads(p[i - 1], Append(made, d)[i], p[i])
      <4>1. CASE i \in 1..n
        BY <1>7, <2>1, <4>1 DEF Path
      <4>2. CASE i = n + 1
        BY <1>7, <1>8, <2>1, <3>1, <3>3, <4>2
      <4>3. QED
        BY <1>1, <4>1, <4>2
    <3>5. Path(prog, Append(made, d), p)
      BY <1>7, <2>1, <3>4 DEF Path
    <3>6. QED
      BY <3>1, <3>3, <3>5
  <2>3. CASE ~(n < m)
    <3>1. \E q : Path(prog, Append(made, d), q) /\ q[n + 1] = y
      <4>1. Leads(p[Len(made)], d, y)
        BY <1>8, <2>1
      <4>2. made \in Seq(Decision) /\ d \in Decision /\ Path(prog, made, p)
        BY <1>1, <1>5, <2>1
      <4>3. Path(prog, Append(made, d), GoOn(p, n, y)) /\ GoOn(p, n, y)[n + 1] = y
        BY <4>1, <4>2, PathGoesOn
      <4>4. QED
        BY <4>3
    <3>2. ~(n + 1 < m)
      BY <1>1, <2>3
    <3>3. QED
      BY <3>1, <3>2
  <2>4. QED
    BY <2>2, <2>3
<1>12. Follows(prog, stack, Append(made, d), Rest(read), y)
  <2> HIDE DEF n, m
  <2> DEFINE made1 == Append(made, d)
  <2>1. Len(made1) = n + 1
    BY <1>7
  <2> HIDE DEF made1
  <2>2. QED
    BY <1>6, <1>9, <1>10, <1>11, <2>1 DEF Follows, made1, m
<1>13. QED
  BY <1>2, <1>12 DEF d, y

-----------------------------------------------------------------------------
(***************************************************************************)
(* A scheduling point: the decision on the signal, if there is one, and    *)
(* the decision on the thread to schedule.                                 *)
(***************************************************************************)

\* The waiter signalled at configuration (s, c), what is left to read, and the
\* decisions made.
SigOf(s, c, read) ==
  IF SignalTargets(s, c) = {} THEN INVALID_THREAD ELSE Choose(read, Lowest(SignalTargets(s, c)))
RestOf(s, c, read) == IF SignalTargets(s, c) = {} THEN read ELSE Rest(read)
LogOf(s, c, made, read) ==
  IF SignalTargets(s, c) = {} THEN made
  ELSE Append(made, [issignal |-> TRUE, chosen |-> SigOf(s, c, read), caller |-> c,
                     options |-> SignalTargets(s, c)])

\* The waiter to signal is one of those that wait.
LEMMA SignalPart ==
  ASSUME NEW prog, NEW stack, NEW made, NEW read, NEW s, NEW c, StackOK(stack),
         Follows(prog, stack, made, read, Configuration(s, c, INVALID_THREAD)),
         GoesOn(Configuration(s, c, INVALID_THREAD))
  PROVE  /\ Follows(prog, stack, LogOf(s, c, made, read), RestOf(s, c, read),
                    Configuration(s, c, SigOf(s, c, read)))
         /\ ~Signals(Configuration(s, c, SigOf(s, c, read)))
         /\ GoesOn(Configuration(s, c, SigOf(s, c, read)))
<1> DEFINE targets == SignalTargets(s, c)
           sig == SigOf(s, c, read)
           d == [issignal |-> TRUE, chosen |-> sig, caller |-> c, options |-> targets]
<1>0. /\ sig = IF targets = {} THEN INVALID_THREAD ELSE Choose(read, Lowest(targets))
      /\ RestOf(s, c, read) = IF targets = {} THEN read ELSE Rest(read)
      /\ LogOf(s, c, made, read) =
           IF targets = {} THEN made ELSE Append(made, d)
      /\ targets = SignalTargets(s, c)
  BY DEF SigOf, RestOf, LogOf
<1> HIDE DEF targets, sig, d
<1> DEFINE x == Configuration(s, c, INVALID_THREAD)
<1>1. x.st = s /\ x.cur = c /\ x.sig = INVALID_THREAD
  BY DEF Configuration
<1>2. CASE targets = {}
  BY <1>0, <1>1, <1>2 DEF Signals, sig
<1>3. CASE targets # {}
  <2>1. Signals(x) /\ Options(x) = targets
    BY <1>0, <1>1, <1>3 DEF Signals, Options
  <2>2. IsConfiguration(x, prog)
    BY DEF Follows
  <2>3. targets \in SUBSET Thread /\ targets \in SUBSET Nat
    <3>1. targets \in SUBSET Thread
      BY <2>1, <2>2, OptionsOf
    <3>2. QED
      BY <3>1, ProgramAssumption DEF Thread
  <2>4. Lowest(targets) \in Options(x)
    BY <1>3, <2>1, <2>3, LowestIn
  <2>5. ~isPreempt(MadeAt(x, Lowest(targets)))
    BY <2>1 DEF isPreempt, CallerEnabled, MadeAt
  <2>6. sig = Choose(read, Lowest(targets))
    BY <1>0, <1>3
  <2>7. /\ sig \in Options(x)
        /\ Follows(prog, stack, Append(made, MadeAt(x, sig)), Rest(read), After(x, sig))
    BY <2>4, <2>5, <2>6, MicroStep
  <2>8. MadeAt(x, sig) = d
    BY <1>1, <2>1 DEF MadeAt, d
  <2>9. After(x, sig) = Configuration(s, c, sig)
    BY <1>1, <2>1 DEF After
  <2>10. Configuration(s, c, sig).st = s /\ Configuration(s, c, sig).cur = c
         /\ Configuration(s, c, sig).sig = sig
    BY DEF Configuration
  <2>11. sig # INVALID_THREAD
    <3>1. sig \in Nat
      BY <2>1, <2>3, <2>7
    <3>2. QED
      BY <3>1 DEF INVALID_THREAD
  <2>12. ~Signals(Configuration(s, c, sig)) /\ GoesOn(Configuration(s, c, sig))
    BY <1>1, <2>10, <2>11 DEF Signals, GoesOn
  <2>13. LogOf(s, c, made, read) = Append(made, MadeAt(x, sig)) /\ RestOf(s, c, read) = Rest(read)
    BY <1>0, <1>3, <2>8
  <2>14. Follows(prog, stack, LogOf(s, c, made, read), RestOf(s, c, read), Configuration(s, c, sig))
    BY <2>7, <2>9, <2>13
  <2>15. QED
    BY <2>12, <2>14 DEF sig
<1>4. QED
  BY <1>2, <1>3

\* The thread to schedule is enabled: the assertion of launchThread.
LEMMA SchedulePart ==
  ASSUME NEW prog, NEW stack, NEW made, NEW read, NEW s, NEW c, NEW sig, StackOK(stack),
         Follows(prog, stack, made, read, Configuration(s, c, sig)),
         ~Signals(Configuration(s, c, sig)), GoesOn(Configuration(s, c, sig)),
         NEW s1, s1 = Run(s, c, sig), s1.enabled # {},
         NEW c1, c1 = Choose(read, nonpreemptiveFairSchedule(s1, c))
  PROVE  /\ c1 \in s1.enabled /\ c1 \in Thread
         /\ Follows(prog, stack,
                    Append(made, [issignal |-> FALSE, chosen |-> c1, caller |-> c,
                                  options |-> s1.enabled]),
                    Rest(read), Configuration(s1, c1, INVALID_THREAD))
<1> DEFINE x == Configuration(s, c, sig)
           default == nonpreemptiveFairSchedule(s1, c)
<1>1. x.st = s /\ x.cur = c /\ x.sig = sig
  BY DEF Configuration
<1>2. Options(x) = s1.enabled
  BY <1>1 DEF Options
<1>3. Options(x) \in SUBSET Thread /\ Options(x) \in SUBSET Nat
  <2>1. Options(x) \in SUBSET Thread
    BY OptionsOf DEF Follows
  <2>2. QED
    BY <2>1, ProgramAssumption DEF Thread
<1>4. default \in Options(x) /\ (c \in s1.enabled => default = c)
  BY <1>2, <1>3, LowestIn DEF nonpreemptiveFairSchedule
<1>5. ~isPreempt(MadeAt(x, default))
  BY <1>1, <1>2, <1>4 DEF isPreempt, CallerEnabled, MadeAt
<1>6. /\ c1 \in Options(x)
      /\ Follows(prog, stack, Append(made, MadeAt(x, c1)), Rest(read), After(x, c1))
  BY <1>4, <1>5, MicroStep
<1>7. Signals(x) = FALSE
  BY DEF Signals
<1>8. MadeAt(x, c1) = [issignal |-> FALSE, chosen |-> c1, caller |-> c, options |-> s1.enabled]
  BY <1>1, <1>2, <1>7 DEF MadeAt
<1>9. After(x, c1) = Configuration(s1, c1, INVALID_THREAD)
  BY <1>1, <1>7 DEF After
<1>10. QED
  BY <1>2, <1>3, <1>6, <1>8, <1>9

-----------------------------------------------------------------------------
(***************************************************************************)
(* The inductive invariant of the search.                                  *)
(***************************************************************************)
Here == Configuration(st, cur, INVALID_THREAD)

Followed ==
  /\ Merges(search_stack, schedule)
  /\ Len(schedule) >= Len(search_stack)
  /\ \E p : Path(st.prog, schedule, p) /\ EndsWith(p[Len(schedule)], outcome)

\* The choices leave the stack at an element, for an alternative that has been
\* taken before.
Diverges(choices, stack) ==
  \E i \in 1..Len(stack) :
    /\ \A j \in 1..(i - 1) : choices[j] = stack[j].chosen
    /\ choices[i] \notin stack[i].todo \cup {stack[i].chosen}

HistoryOK ==
  \A h \in history :
    \/ Diverges(h.choices, search_stack)
    \/ phase = "search" /\ h.choices = buildSchedule(search_stack)
    \/ phase = "complete"

SearchInv ==
  /\ preemption_bound \in Nat
  /\ phase \in {"execute", "executed", "search", "complete"}
  /\ StackOK(search_stack)
  /\ calculatePreemptions(search_stack) <= preemption_bound
  /\ StateOf(st, st.prog) /\ cur \in Thread
  /\ phase = "execute" => Follows(st.prog, search_stack, schedule, read_schedule, Here)
  /\ phase = "executed" => Followed
  /\ phase = "search" => \E p : Path(st.prog, search_stack, p)
  /\ HistoryOK

\* It implies that executions follow the stack.
LEMMA InvFollows ==
  ASSUME SearchInv
  PROVE  FollowsStack
<1>1. ASSUME phase \in {"execute", "executed"}
      PROVE  Merges(search_stack, schedule)
  BY <1>1 DEF SearchInv, Follows, Followed
<1>2. search_stack \in Seq(Element) /\ DOMAIN search_stack = 1..Len(search_stack)
  BY LenProperties DEF SearchInv, StackOK
<1>3. ASSUME NEW i \in DOMAIN schedule \cap DOMAIN search_stack, phase \in {"execute", "executed"}
      PROVE  Agree(schedule[i], search_stack[i])
  <2>1. Merges(search_stack, schedule)
    BY <1>1, <1>3
  <2>2. DOMAIN schedule = 1..Len(schedule)
    BY <2>1, LenProperties DEF Merges
  <2>3. i \in 1..Len(schedule) /\ i <= Len(search_stack)
    BY <1>2, <2>2
  <2>4. QED
    BY <2>1, <2>3 DEF Merges
<1>4. phase = "executed" => Len(schedule) >= Len(search_stack)
  BY DEF SearchInv, Followed
<1>5. calculatePreemptions(search_stack) <= preemption_bound
  BY DEF SearchInv
<1>6. QED
  BY <1>3, <1>4, <1>5 DEF FollowsStack, Agree

\* ... and that no schedule is run twice.
LEMMA InvNoRepeat ==
  ASSUME SearchInv
  PROVE  NoRepeat
<1>1. SUFFICES ASSUME phase = "executed", NEW h \in history
               PROVE  h.choices # Done.choices
  BY DEF NoRepeat
<1>2. PICK i \in 1..Len(search_stack) : h.choices[i] # search_stack[i].chosen
  BY <1>1 DEF SearchInv, HistoryOK, Diverges
<1>3. Merges(search_stack, schedule) /\ Len(schedule) >= Len(search_stack)
  BY <1>1 DEF SearchInv, Followed
<1>4. /\ schedule \in Seq(Decision) /\ search_stack \in Seq(Element)
      /\ DOMAIN schedule = 1..Len(schedule)
      /\ Len(schedule) \in Nat /\ Len(search_stack) \in Nat
  BY <1>3, LenProperties DEF SearchInv, StackOK, Merges
<1>5. i \in 1..Len(schedule) /\ i <= Len(search_stack)
  BY <1>3, <1>4
<1>6. schedule[i].chosen = search_stack[i].chosen
  BY <1>3, <1>5 DEF Merges, Agree
<1>7. Done.choices[i] = schedule[i].chosen
  BY <1>4, <1>5 DEF Done
<1>8. QED
  BY <1>2, <1>6, <1>7

\* The start of an execution follows the stack it was started for.
LEMMA StartFollows ==
  ASSUME NEW prog, NEW stack, StackOK(stack), NEW p, Path(prog, stack, p)
  PROVE  Follows(prog, stack, <<>>, buildSchedule(stack), Start(prog))
<1>1. /\ stack \in Seq(Element) /\ Len(stack) \in Nat /\ DOMAIN stack = 1..Len(stack)
      /\ \A i \in 1..Len(stack) : stack[i] \in Element
  BY LenProperties, ElementOfSeq DEF StackOK
<1>2. /\ buildSchedule(stack) \in Seq(Thread) /\ Len(buildSchedule(stack)) = Len(stack)
      /\ \A i \in 1..Len(stack) : buildSchedule(stack)[i] = stack[i].chosen
  BY <1>1, IsASeq DEF buildSchedule, Element
<1>3. <<>> \in Seq(Decision) /\ Len(<<>>) = 0
  OBVIOUS
<1>4. IsConfiguration(Start(prog), prog)
  <2>1. StateOf(Initial(prog), prog)
    BY InitialState
  <2>2. Main \in Thread
    BY ProgramAssumption DEF Main, Thread
  <2>3. QED
    BY <2>1, <2>2 DEF Start, IsConfiguration, Configuration
<1>5. Path(prog, <<>>, p) /\ p[0] = Start(prog)
  BY <1>3 DEF Path
<1>6. Merges(stack, <<>>)
  BY <1>3 DEF Merges
<1>7. /\ Len(buildSchedule(stack)) = IF 0 < Len(stack) THEN Len(stack) - 0 ELSE 0
      /\ \A i \in 1..Len(buildSchedule(stack)) : buildSchedule(stack)[i] = stack[0 + i].chosen
  BY <1>1, <1>2
<1>8. QED
  BY <1>2, <1>3, <1>4, <1>5, <1>6, <1>7 DEF Follows

\* The first execution, with the empty stack.
LEMMA InitInv ==
  ASSUME Init
  PROVE  SearchInv
<1>1. /\ search_stack = <<>> /\ phase = "execute" /\ history = {} /\ cur = Main
      /\ read_schedule = <<>> /\ schedule = <<>> /\ preemption_bound \in Nat
  BY ChessAssumption DEF Init
<1>2. PICK prog : st = Initial(prog)
  BY DEF Init
<1>3. StateOf(st, prog) /\ st.prog = prog
  BY <1>2, InitialState DEF StateOf
<1>4. Main \in Thread
  BY ProgramAssumption DEF Main, Thread
<1>5. StackOK(<<>>)
  BY DEF StackOK
<1>6. Path(prog, <<>>, [i \in {0} |-> Start(prog)])
  BY DEF Path
<1>7. buildSchedule(<<>>) = <<>>
  BY DEF buildSchedule
<1>8. Follows(prog, <<>>, <<>>, <<>>, Start(prog))
  BY <1>5, <1>6, <1>7, StartFollows
<1>9. Here = Start(prog)
  BY <1>1, <1>2 DEF Here, Start
<1>10. calculatePreemptions(<<>>) = 0
  <2>1. {i \in DOMAIN <<>> : isPreempt(<<>>[i])} = {}
    OBVIOUS
  <2>2. QED
    BY <2>1, FS_EmptySet DEF calculatePreemptions
<1>11. calculatePreemptions(search_stack) <= preemption_bound
  BY <1>1, <1>10
<1>12. QED
  BY <1>1, <1>3, <1>4, <1>5, <1>8, <1>9, <1>11 DEF SearchInv, HistoryOK

\* A scheduling point.
LEMMA SchedulingPointInv ==
  ASSUME SearchInv, SchedulingPoint
  PROVE  SearchInv' /\ st'.prog = st.prog
<1>1. /\ phase = "execute" /\ GoesOn(Here)
      /\ Follows(st.prog, search_stack, schedule, read_schedule, Here)
      /\ UNCHANGED <<preemption_bound, search_stack, errors_found, history>>
  BY DEF SchedulingPoint, SearchInv, Here, GoesOn, Configuration
<1> DEFINE targets == SignalTargets(st, cur)
           sig == IF targets = {} THEN INVALID_THREAD ELSE Choose(read_schedule, Lowest(targets))
           read == IF targets = {} THEN read_schedule ELSE Rest(read_schedule)
           log == IF targets = {} THEN schedule ELSE Append(schedule, Made(TRUE, sig, targets))
           s == Run(st, cur, sig)
           c == Choose(read, nonpreemptiveFairSchedule(s, cur))
<1>2. /\ st' = s
      /\ IF s.enabled = {}
           THEN /\ outcome' = "program deadlock" /\ phase' = "executed"
                /\ read_schedule' = read /\ schedule' = log /\ UNCHANGED cur
           ELSE /\ cur' = c
                /\ read_schedule' = Rest(read)
                /\ schedule' = Append(log, Made(FALSE, c, s.enabled))
                /\ UNCHANGED <<outcome, phase>>
  BY DEF SchedulingPoint
<1>3. StackOK(search_stack)
  BY DEF SearchInv
<1> DEFINE x == Configuration(st, cur, sig)
<1>4. /\ Follows(st.prog, search_stack, log, read, x)
      /\ ~Signals(x) /\ GoesOn(x)
  <2>1. /\ sig = SigOf(st, cur, read_schedule) /\ read = RestOf(st, cur, read_schedule)
        /\ log = LogOf(st, cur, schedule, read_schedule)
    BY DEF Made, SigOf, RestOf, LogOf
  <2>2. /\ Follows(st.prog, search_stack, schedule, read_schedule,
                   Configuration(st, cur, INVALID_THREAD))
        /\ GoesOn(Configuration(st, cur, INVALID_THREAD))
    BY <1>1 DEF Here
  <2> HIDE DEF log, sig, read
  <2>3. QED
    BY <1>3, <2>1, <2>2, SignalPart
<1> HIDE DEF sig, read, log
<1>5. StateOf(s, st.prog) /\ s.prog = st.prog
  <2>1. IsConfiguration(x, st.prog) /\ x.st = st /\ x.cur = cur /\ x.sig = sig
    BY <1>4 DEF Follows, Configuration
  <2>2. StateOf(s, st.prog)
    BY <2>1, RunState DEF IsConfiguration
  <2>3. QED
    BY <2>2 DEF StateOf
<1>6. /\ preemption_bound' \in Nat /\ StackOK(search_stack')
      /\ calculatePreemptions(search_stack') <= preemption_bound'
  BY <1>1 DEF SearchInv, calculatePreemptions, isPreempt, CallerEnabled
<1>7. HistoryOK' /\ phase' \in {"execute", "executed"}
  BY <1>1, <1>2 DEF SearchInv, HistoryOK, Diverges
<1>8. StateOf(st', st'.prog) /\ st'.prog = st.prog
  BY <1>2, <1>5
<1>9. CASE s.enabled = {}
  <2>1. phase' = "executed" /\ schedule' = log /\ cur' = cur
    BY <1>2, <1>9
  <2>2. Options(x) = {}
    <3>1. x.st = st /\ x.cur = cur /\ x.sig = sig
      BY DEF Configuration
    <3>2. QED
      BY <1>4, <1>9, <3>1 DEF Options
  <2>3. ~(Len(log) < Len(search_stack))
    BY <1>3, <1>4, <2>2, NoDeadEnd DEF StackOK
  <2>4. Len(log) \in Nat /\ Len(search_stack) \in Nat
    BY <1>3, <1>4, LenProperties DEF StackOK, Follows, Merges
  <2>5. /\ Merges(search_stack, log)
        /\ \E p : Path(st.prog, log, p) /\ EndsWith(p[Len(log)], outcome')
    <3>1. EndsWith(x, "program deadlock")
      BY <1>4, <2>2 DEF EndsWith, GoesOn
    <3>2. QED
      BY <1>2, <1>4, <1>9, <3>1 DEF Follows
  <2>6. Followed'
    BY <1>1, <1>8, <2>1, <2>3, <2>4, <2>5 DEF Followed, Merges, isPreempt, CallerEnabled
  <2>7. QED
    BY <1>6, <1>7, <1>8, <2>1, <2>6 DEF SearchInv
<1>10. CASE s.enabled # {}
  <2>1. /\ phase' = "execute" /\ cur' = c /\ read_schedule' = Rest(read)
        /\ schedule' = Append(log, Made(FALSE, c, s.enabled))
    BY <1>1, <1>2, <1>10
  <2>2. /\ c \in Thread
        /\ Follows(st.prog, search_stack,
                   Append(log, [issignal |-> FALSE, chosen |-> c, caller |-> cur,
                                options |-> s.enabled]),
                   Rest(read), Configuration(s, c, INVALID_THREAD))
    BY <1>3, <1>4, <1>10, SchedulePart
  <2>3. Follows(st'.prog, search_stack', schedule', read_schedule', Here')
    BY <1>1, <1>2, <1>8, <2>1, <2>2 DEF Made, Here, Configuration
  <2>4. QED
    BY <1>6, <1>7, <1>8, <2>1, <2>2, <2>3 DEF SearchInv
<1>11. QED
  BY <1>9, <1>10

\* The end of the program.
LEMMA EndExecutionInv ==
  ASSUME SearchInv, EndExecution
  PROVE  SearchInv'
<1>1. /\ phase = "execute" /\ ~GoesOn(Here) /\ phase' = "executed"
      /\ UNCHANGED <<preemption_bound, search_stack, st, cur, schedule, history>>
  BY DEF EndExecution, Here, GoesOn, Configuration
<1>2. /\ StackOK(search_stack)
      /\ Follows(st.prog, search_stack, schedule, read_schedule, Here)
  BY <1>1 DEF SearchInv
<1>3. ~(Len(schedule) < Len(search_stack))
  BY <1>1, <1>2, NoDeadEnd DEF StackOK
<1>4. Len(schedule) \in Nat /\ Len(search_stack) \in Nat
  BY <1>2, LenProperties DEF StackOK, Follows, Merges
<1>5. /\ Merges(search_stack, schedule)
      /\ \E p : Path(st.prog, schedule, p) /\ EndsWith(p[Len(schedule)], outcome')
  <2>1. EndsWith(Here, outcome')
    BY <1>1 DEF EndExecution, EndsWith, GoesOn, Here, Configuration
  <2>2. QED
    BY <1>2, <2>1 DEF Follows
<1>6. Followed'
  BY <1>1, <1>3, <1>4, <1>5 DEF Followed
<1>7. HistoryOK'
  BY <1>1 DEF SearchInv, HistoryOK
<1>8. QED
  BY <1>1, <1>6, <1>7 DEF SearchInv

\* The log of an execution is merged into the stack.
LEMMA RegenerateInv ==
  ASSUME SearchInv, regenerate
  PROVE  /\ SearchInv'
         /\ Len(search_stack') = Len(schedule)
         /\ \A i \in 1..Len(schedule) : Agree(search_stack'[i], schedule[i])
         /\ \A i \in 1..Len(search_stack) : search_stack'[i] = search_stack[i]
         /\ \A i \in (Len(search_stack) + 1)..Len(schedule) :
              search_stack'[i].todo = schedule[i].options \ {schedule[i].chosen}
<1> DEFINE m == Len(search_stack)
           n == Len(schedule)
           tail == [i \in 1..(n - m) |-> SearchStackElement(schedule[m + i])]
<1>1. /\ phase = "executed" /\ phase' = "search"
      /\ search_stack' = search_stack \o tail
      /\ history' = history \cup {Done}
      /\ UNCHANGED <<preemption_bound, st, cur, schedule>>
  BY DEF regenerate, execVars
<1>2. /\ StackOK(search_stack) /\ Merges(search_stack, schedule) /\ n >= m
      /\ search_stack \in Seq(Element) /\ schedule \in Seq(Decision)
      /\ m \in Nat /\ n \in Nat
      /\ DOMAIN search_stack = 1..m /\ DOMAIN schedule = 1..n
      /\ \A i \in 1..n : schedule[i] \in Decision
  BY <1>1, LenProperties, ElementOfSeq DEF SearchInv, Followed, StackOK, Merges
<1>3. tail \in Seq(Element) /\ Len(tail) = n - m
  <2>1. \A i \in 1..(n - m) : m + i \in 1..n
    BY <1>2
  <2>2. \A d \in Decision : SearchStackElement(d) \in Element
    BY DEF SearchStackElement, Decision, Element
  <2>3. \A i \in 1..(n - m) : SearchStackElement(schedule[m + i]) \in Element
    BY <1>2, <2>1, <2>2
  <2>4. n - m \in Nat
    BY <1>2
  <2> HIDE DEF n, m
  <2>5. QED
    BY <2>3, <2>4, IsASeq
<1>4. /\ search_stack' \in Seq(Element) /\ Len(search_stack') = n
      /\ \A i \in 1..m : search_stack'[i] = search_stack[i]
      /\ \A i \in (m + 1)..n : search_stack'[i] = SearchStackElement(schedule[i])
  <2>1. /\ search_stack \o tail \in Seq(Element)
        /\ Len(search_stack \o tail) = m + (n - m)
        /\ \A i \in 1..(m + (n - m)) : (search_stack \o tail)[i] =
             IF i <= m THEN search_stack[i] ELSE tail[i - m]
    <3> HIDE DEF tail
    <3>1. /\ search_stack \o tail \in Seq(Element)
          /\ Len(search_stack \o tail) = Len(search_stack) + Len(tail)
          /\ \A i \in 1..(Len(search_stack) + Len(tail)) : (search_stack \o tail)[i] =
               IF i <= Len(search_stack) THEN search_stack[i] ELSE tail[i - Len(search_stack)]
      BY <1>2, <1>3, ConcatProperties
    <3>2. QED
      BY <1>3, <3>1
  <2>2. m + (n - m) = n
    BY <1>2
  <2>3. ASSUME NEW i \in (m + 1)..n PROVE tail[i - m] = SearchStackElement(schedule[i])
    <3>1. i - m \in 1..(n - m) /\ m + (i - m) = i
      BY <1>2
    <3>2. QED
      BY <3>1
  <2> HIDE DEF tail
  <2>4. \A i \in 1..n : (search_stack \o tail)[i] =
             IF i <= m THEN search_stack[i] ELSE tail[i - m]
    BY <2>1, <2>2
  <2>5. \A i \in 1..m : i \in 1..n /\ i <= m
    BY <1>2
  <2>6. \A i \in (m + 1)..n : i \in 1..n /\ ~(i <= m)
    BY <1>2
  <2>7. QED
    BY <1>1, <2>1, <2>2, <2>3, <2>4, <2>5, <2>6
<1> HIDE DEF tail
<1>5. ASSUME NEW i \in 1..n
      PROVE  /\ Agree(search_stack'[i], schedule[i])
             /\ search_stack'[i].todo \subseteq
                  search_stack'[i].options \ {search_stack'[i].chosen}
             /\ i > m => ~isPreempt(search_stack'[i])
  <2>1. CASE i <= m
    <3>1. i \in 1..m
      BY <1>2, <2>1
    <3>2. search_stack'[i] = search_stack[i]
      BY <1>4, <3>1
    <3>3. Agree(schedule[i], search_stack[i])
      BY <1>2, <2>1 DEF Merges
    <3>4. QED
      BY <1>2, <2>1, <3>1, <3>2, <3>3 DEF Agree, StackOK
  <2>2. CASE i > m
    <3>1. i \in (m + 1)..n /\ ~(i <= m)
      BY <1>2, <2>2
    <3>2. search_stack'[i] = SearchStackElement(schedule[i])
      BY <1>4, <3>1
    <3>3. ~isPreempt(schedule[i])
      BY <1>2, <3>1 DEF Merges
    <3>4. QED
      BY <3>2, <3>3 DEF Agree, SearchStackElement, isPreempt, CallerEnabled
  <2>3. QED
    BY <1>2, <2>1, <2>2
<1>6. StackOK(search_stack')
  BY <1>4, <1>5 DEF StackOK
<1>7. calculatePreemptions(search_stack') = calculatePreemptions(search_stack)
  <2>1. DOMAIN search_stack' = 1..n
    BY <1>4, LenProperties
  <2>2. ASSUME NEW i
        PROVE  i \in DOMAIN search_stack' /\ isPreempt(search_stack'[i])
                 <=> i \in DOMAIN search_stack /\ isPreempt(search_stack[i])
    <3>1. CASE i \in 1..m
      <4>1. search_stack'[i] = search_stack[i] /\ i \in 1..n
        BY <1>2, <1>4, <3>1
      <4>2. QED
        BY <1>2, <2>1, <3>1, <4>1
    <3>2. CASE i \notin 1..m
      BY <1>2, <1>5, <2>1, <3>2
    <3>3. QED
      BY <3>1, <3>2
  <2>3. {i \in DOMAIN search_stack' : isPreempt(search_stack'[i])}
        = {i \in DOMAIN search_stack : isPreempt(search_stack[i])}
    BY <2>2
  <2>4. QED
    BY <2>3 DEF calculatePreemptions
<1>8. \E p : Path(st'.prog, search_stack', p)
  <2>1. PICK p : Path(st.prog, schedule, p)
    BY <1>1 DEF SearchInv, Followed
  <2>2. ASSUME NEW i \in 1..n
        PROVE  Leads(p[i - 1], search_stack'[i], p[i])
    BY <1>5, <2>1, LeadsSame DEF Path
  <2>3. Path(st.prog, search_stack', p)
    BY <1>4, <2>1, <2>2 DEF Path
  <2>4. QED
    BY <1>1, <2>3
<1>9. HistoryOK'
  <2>1. Done.choices = buildSchedule(search_stack')
    <3>1. DOMAIN search_stack' = 1..n
      BY <1>4, LenProperties
    <3>2. \A i \in 1..n : schedule[i].chosen = search_stack'[i].chosen
      BY <1>5 DEF Agree
    <3>3. Done.choices = [i \in DOMAIN schedule |-> schedule[i].chosen]
      BY DEF Done
    <3>4. QED
      BY <1>2, <3>1, <3>2, <3>3 DEF buildSchedule
  <2>2. ASSUME NEW h \in history PROVE Diverges(h.choices, search_stack')
    <3>1. Diverges(h.choices, search_stack)
      BY <1>1 DEF SearchInv, HistoryOK
    <3>2. PICK i \in 1..m :
            /\ \A j \in 1..(i - 1) : h.choices[j] = search_stack[j].chosen
            /\ h.choices[i] \notin search_stack[i].todo \cup {search_stack[i].chosen}
      BY <3>1 DEF Diverges
    <3>3. i \in 1..n /\ \A j \in 1..(i - 1) : j \in 1..m
      BY <1>2
    <3>4. QED
      BY <1>4, <3>2, <3>3 DEF Diverges
  <2>3. ASSUME NEW h \in history'
        PROVE  \/ Diverges(h.choices, search_stack')
               \/ phase' = "search" /\ h.choices = buildSchedule(search_stack')
    BY <1>1, <2>1, <2>2
  <2>4. QED
    BY <2>3 DEF HistoryOK, Diverges, buildSchedule
<1>10. SearchInv'
  BY <1>1, <1>6, <1>7, <1>8, <1>9 DEF SearchInv
<1>11. ASSUME NEW i \in (m + 1)..n
       PROVE  search_stack'[i].todo = schedule[i].options \ {schedule[i].chosen}
  <2>1. search_stack'[i] = SearchStackElement(schedule[i])
    BY <1>4
  <2>2. QED
    BY <2>1 DEF SearchStackElement
<1>12. QED
  BY <1>4, <1>5, <1>10, <1>11

Alternative(stack, i) == Append(SubSeq(stack, 1, i - 1), doWork(stack[i]))

\* The next schedule: the elements below i, and the next alternative of i.
LEMMA NextStack ==
  ASSUME NEW stack, StackOK(stack), NEW i \in 1..Len(stack), stack[i].todo # {}
  PROVE  /\ StackOK(Alternative(stack, i)) /\ Len(Alternative(stack, i)) = i
         /\ \A j \in 1..(i - 1) : /\ Alternative(stack, i)[j] = stack[j]
                                /\ SubSeq(stack, 1, i - 1)[j] = stack[j]
         /\ Alternative(stack, i)[i].chosen \in stack[i].todo
         /\ Alternative(stack, i)[i].todo \subseteq stack[i].todo
         /\ Alternative(stack, i)[i].issignal = stack[i].issignal
         /\ Alternative(stack, i)[i].caller = stack[i].caller
         /\ Alternative(stack, i)[i].options = stack[i].options
         /\ DOMAIN SubSeq(stack, 1, i - 1) = 1..(i - 1)
<1> DEFINE below == SubSeq(stack, 1, i - 1)
           e == stack[i]
           e1 == doWork(e)
           next == Alternative(stack, i)
<1>1. /\ stack \in Seq(Element) /\ Len(stack) \in Nat /\ e \in Element
      /\ e.todo \subseteq e.options \ {e.chosen}
  BY LenProperties, ElementOfSeq DEF StackOK
<1>2. /\ below \in Seq(Element) /\ Len(below) = i - 1
      /\ \A j \in 1..(i - 1) : below[j] = stack[j]
  <2>1. \A j \in 1..(i - 1) : j \in 1..Len(stack)
    BY <1>1
  <2>2. below = [j \in 1..(i - 1) |-> stack[j]]
    BY <1>1
  <2>3. \A j \in 1..(i - 1) : stack[j] \in Element
    BY <1>1, <2>1, ElementOfSeq
  <2>4. QED
    BY <1>1, <2>2, <2>3, IsASeq
<1>3. Highest(e.todo) \in e.todo
  <2>1. e.todo \in SUBSET (0..MaxThread)
    BY <1>1 DEF Element, Thread
  <2>2. QED
    BY <2>1, HighestIn, ProgramAssumption
<1>4. /\ e1 \in Element /\ e1.chosen \in e.todo
      /\ e1.todo \subseteq e.todo /\ e1.todo \subseteq e1.options \ {e1.chosen}
      /\ e1.issignal = e.issignal /\ e1.caller = e.caller /\ e1.options = e.options
  BY <1>1, <1>3 DEF doWork, Element
<1> HIDE DEF e, e1, below, next
<1>5. next = Append(below, e1)
  BY DEF e, e1, below, next, Alternative
<1>6. /\ next \in Seq(Element) /\ Len(next) = (i - 1) + 1
      /\ \A j \in 1..(i - 1) : next[j] = below[j]
      /\ next[(i - 1) + 1] = e1
  BY <1>2, <1>4, <1>5, AppendProperties
<1>7. (i - 1) + 1 = i /\ \A j \in 1..i : j = i \/ j \in 1..(i - 1)
  BY <1>1
<1>8. next[i] = e1 /\ Len(next) = i
  BY <1>6, <1>7
<1>9. ASSUME NEW j \in 1..i
      PROVE  next[j].todo \subseteq next[j].options \ {next[j].chosen}
  <2>1. CASE j = i
    BY <1>4, <1>8, <2>1
  <2>2. CASE j \in 1..(i - 1)
    <3>1. next[j] = stack[j] /\ j \in 1..Len(stack)
      BY <1>1, <1>2, <1>6, <2>2
    <3>2. QED
      BY <3>1 DEF StackOK
  <2>3. QED
    BY <1>7, <2>1, <2>2
<1>10. StackOK(next)
  BY <1>6, <1>8, <1>9 DEF StackOK
<1>11. DOMAIN below = 1..(i - 1)
  BY <1>2, LenProperties
<1>12. QED
  BY <1>2, <1>4, <1>6, <1>8, <1>10, <1>11 DEF e, e1, below, next

\* It stays within the bound: a preemption is only added below it.
LEMMA NextBound ==
  ASSUME NEW stack, StackOK(stack), NEW i \in 1..Len(stack), NEW bound \in Nat,
         calculatePreemptions(stack) <= bound,
         stack[i].todo # {},
         \/ calculatePreemptions(SubSeq(stack, 1, i - 1)) < bound
         \/ ~needPreemptsToExplore(stack[i])
  PROVE  calculatePreemptions(Alternative(stack, i)) <= bound
<1> DEFINE below == SubSeq(stack, 1, i - 1)
           next == Alternative(stack, i)
           P(q) == {j \in DOMAIN q : isPreempt(q[j])}
<1>1. /\ StackOK(next) /\ Len(next) = i
      /\ \A j \in 1..(i - 1) : next[j] = stack[j] /\ below[j] = stack[j]
      /\ next[i].issignal = stack[i].issignal /\ next[i].caller = stack[i].caller
      /\ next[i].options = stack[i].options
      /\ DOMAIN below = 1..(i - 1)
  BY NextStack
<1>2. /\ DOMAIN next = 1..i /\ DOMAIN stack = 1..Len(stack) /\ Len(stack) \in Nat
  BY <1>1, LenProperties DEF StackOK
<1>3. /\ \A j \in 1..(i - 1) : j \in 1..i /\ j \in 1..Len(stack)
      /\ \A j \in 1..i : j = i \/ j \in 1..(i - 1)
  BY <1>2
<1> HIDE DEF below, next
<1>4. /\ P(below) \subseteq P(stack) /\ P(next) \subseteq P(below) \cup {i}
      /\ P(below) \subseteq P(next)
  BY <1>1, <1>2, <1>3
<1>5. IsFiniteSet(P(stack)) /\ IsFiniteSet(P(below))
  <2>1. IsFiniteSet(1..Len(stack))
    BY <1>2, FS_Interval
  <2>2. P(stack) \subseteq 1..Len(stack)
    BY <1>2
  <2>3. IsFiniteSet(P(stack))
    BY <2>1, <2>2, FS_Subset
  <2>4. QED
    BY <1>4, <2>3, FS_Subset
<1>6. /\ Cardinality(P(stack)) \in Nat /\ Cardinality(P(below)) \in Nat
      /\ Cardinality(P(below)) <= Cardinality(P(stack))
  BY <1>4, <1>5, FS_Subset, FS_CardinalityType
<1>7. Cardinality(P(stack)) <= bound
  BY DEF calculatePreemptions
<1> DEFINE kn == Cardinality(P(next))
           ks == Cardinality(P(stack))
           kb == Cardinality(P(below))
<1> SUFFICES kn <= bound
  BY DEF calculatePreemptions, next
<1>8. CASE P(next) \subseteq P(stack)
  <2>1. kn <= ks /\ kn \in Nat /\ ks \in Nat /\ ks <= bound
    BY <1>5, <1>6, <1>7, <1>8, FS_Subset, FS_CardinalityType
  <2> HIDE DEF kn, ks
  <2>2. QED
    BY <2>1
<1>9. CASE ~(P(next) \subseteq P(stack))
  <2>1. i \in P(next) /\ i \notin P(stack)
    BY <1>4, <1>9
  <2>2. P(next) = P(below) \cup {i} /\ i \notin P(below)
    BY <1>4, <2>1
  <2>3. needPreemptsToExplore(stack[i])
    BY <1>1, <1>2, <2>1 DEF needPreemptsToExplore, isPreempt, CallerEnabled
  <2>4. Cardinality(P(below)) < bound
    BY <2>3 DEF calculatePreemptions, below
  <2>5. Cardinality(P(below) \cup {i}) = Cardinality(P(below)) + 1
    BY <1>5, <2>2, FS_AddElement
  <2>6. kn = kb + 1 /\ kb < bound /\ kb \in Nat
    BY <1>6, <2>2, <2>4, <2>5
  <2> HIDE DEF kn, kb
  <2>7. QED
    BY <2>6
<1>10. QED
  BY <1>8, <1>9

\* The next execution: what an earlier one chose at i is no longer an
\* alternative there.
LEMMA GenerateInv ==
  ASSUME SearchInv, generateNextSchedule
  PROVE  SearchInv'
<1> DEFINE i == Highest(WorkToDo)
           next == Alternative(search_stack, i)
           m == Len(search_stack)
<1>1. /\ phase = "search" /\ WorkToDo # {} /\ phase' = "execute"
      /\ search_stack' = next /\ cur' = Main
      /\ st' = Initial(st.prog) /\ read_schedule' = buildSchedule(next) /\ schedule' = <<>>
      /\ UNCHANGED <<preemption_bound, errors_found, history>>
  BY DEF generateNextSchedule, BeginExecution, Alternative
<1>2. /\ StackOK(search_stack) /\ search_stack \in Seq(Element) /\ m \in Nat
      /\ DOMAIN search_stack = 1..m
      /\ calculatePreemptions(search_stack) <= preemption_bound /\ preemption_bound \in Nat
  BY LenProperties DEF SearchInv, StackOK
<1>3. i \in WorkToDo
  <2>1. WorkToDo \in SUBSET (0..m)
    BY <1>2 DEF WorkToDo
  <2>2. QED
    BY <1>1, <1>2, <2>1, HighestIn
<1>4. /\ i \in 1..m /\ search_stack[i].todo # {}
      /\ \/ calculatePreemptions(SubSeq(search_stack, 1, i - 1)) < preemption_bound
         \/ ~needPreemptsToExplore(search_stack[i])
  BY <1>2, <1>3 DEF WorkToDo, isWorkToDo
<1> HIDE DEF i, m
<1>5. /\ StackOK(next) /\ Len(next) = i
      /\ \A j \in 1..(i - 1) : next[j] = search_stack[j]
      /\ next[i].chosen \in search_stack[i].todo
      /\ next[i].todo \subseteq search_stack[i].todo
      /\ next[i].issignal = search_stack[i].issignal
      /\ next[i].caller = search_stack[i].caller
      /\ next[i].options = search_stack[i].options
  BY <1>2, <1>4, NextStack DEF m
<1>6. calculatePreemptions(next) <= preemption_bound
  BY <1>2, <1>4, NextBound DEF m
<1> HIDE DEF next
<1>7. \A j \in 1..i : j = i \/ j \in 1..(i - 1)
  BY <1>2, <1>4
<1>8. search_stack[i].todo \subseteq search_stack[i].options \ {search_stack[i].chosen}
  BY <1>2, <1>4 DEF StackOK, m
<1>9. \E q : Path(st.prog, next, q)
  <2>1. PICK p : Path(st.prog, search_stack, p)
    BY <1>1 DEF SearchInv
  <2> DEFINE y == After(p[i - 1], next[i].chosen)
             q == [j \in 0..i |-> IF j < i THEN p[j] ELSE y]
  <2>2. Leads(p[i - 1], search_stack[i], p[i])
    BY <1>4, <2>1 DEF Path, m
  <2>3. Leads(p[i - 1], next[i], y)
    BY <1>5, <1>8, <2>2 DEF Leads, Agree, MadeAt
  <2>4. q[i] = y /\ \A j \in 0..(i - 1) : q[j] = p[j]
    BY <1>2, <1>4
  <2> HIDE DEF q, y
  <2>5. ASSUME NEW j \in 1..i PROVE Leads(q[j - 1], next[j], q[j])
    <3>1. CASE j = i
      <4>1. i - 1 \in 0..(i - 1)
        BY <1>2, <1>4
      <4>2. QED
        BY <2>3, <2>4, <3>1, <4>1
    <3>2. CASE j \in 1..(i - 1)
      <4>1. j \in 1..m /\ j \in 0..(i - 1) /\ j - 1 \in 0..(i - 1)
        BY <1>2, <1>4, <3>2
      <4>2. Leads(p[j - 1], search_stack[j], p[j])
        BY <2>1, <4>1 DEF Path, m
      <4>3. QED
        BY <1>5, <2>4, <3>2, <4>1, <4>2
    <3>3. QED
      BY <1>7, <3>1, <3>2
  <2>6. q[0] = Start(st.prog)
    <3>1. 0 \in 0..(i - 1)
      BY <1>2, <1>4
    <3>2. QED
      BY <2>1, <2>4, <3>1 DEF Path
  <2>7. Path(st.prog, next, q)
    BY <1>5, <2>5, <2>6 DEF Path
  <2>8. QED
    BY <2>7
<1>10. Follows(st.prog, next, <<>>, buildSchedule(next), Start(st.prog))
  BY <1>5, <1>9, StartFollows
<1>11. StateOf(st', st'.prog) /\ st'.prog = st.prog /\ cur' \in Thread
  <2>1. StateOf(Initial(st.prog), st.prog)
    BY InitialState
  <2>2. QED
    BY <1>1, <2>1, ProgramAssumption DEF StateOf, Main, Thread
<1>12. Here' = Start(st.prog)
  BY <1>1 DEF Here, Start, Configuration
<1>13. Follows(st'.prog, search_stack', schedule', read_schedule', Here')
  BY <1>1, <1>10, <1>11, <1>12
<1>14. ASSUME NEW h \in history
       PROVE  Diverges(h.choices, next)
  <2>1. CASE h.choices = buildSchedule(search_stack)
    <3>1. \A j \in 1..m : h.choices[j] = search_stack[j].chosen
      BY <1>2, <2>1 DEF buildSchedule
    <3>2. \A j \in 1..(i - 1) : j \in 1..m
      BY <1>2, <1>4
    <3>3. /\ \A j \in 1..(i - 1) : h.choices[j] = next[j].chosen
          /\ h.choices[i] \notin next[i].todo \cup {next[i].chosen}
      BY <1>4, <1>5, <1>8, <3>1, <3>2
    <3>4. i \in 1..Len(next)
      BY <1>2, <1>4, <1>5
    <3>5. QED
      BY <3>3, <3>4 DEF Diverges
  <2>2. CASE Diverges(h.choices, search_stack)
    <3>1. PICK k \in 1..m :
            /\ \A j \in 1..(k - 1) : h.choices[j] = search_stack[j].chosen
            /\ h.choices[k] \notin search_stack[k].todo \cup {search_stack[k].chosen}
      BY <2>2 DEF Diverges, m
    <3>2. CASE k < i
      <4>1. k \in 1..(i - 1) /\ k \in 1..Len(next) /\ \A j \in 1..(k - 1) : j \in 1..(i - 1)
        BY <1>2, <1>4, <1>5, <3>2
      <4>2. QED
        BY <1>5, <3>1, <4>1 DEF Diverges
    <3>3. CASE k = i
      <4>1. i \in 1..Len(next)
        BY <1>2, <1>4, <1>5
      <4>2. h.choices[i] \notin next[i].todo \cup {next[i].chosen}
        BY <1>5, <3>1, <3>3
      <4>3. QED
        BY <1>5, <3>1, <3>3, <4>1, <4>2 DEF Diverges
    <3>4. CASE k > i
      <4>1. i \in 1..(k - 1) /\ i \in 1..Len(next) /\ \A j \in 1..(i - 1) : j \in 1..(k - 1)
        BY <1>2, <1>4, <1>5, <3>4
      <4>2. h.choices[i] = search_stack[i].chosen
        BY <3>1, <4>1
      <4>3. h.choices[i] \notin next[i].todo \cup {next[i].chosen}
        BY <1>5, <1>8, <4>2
      <4>4. QED
        BY <1>5, <3>1, <4>1, <4>3 DEF Diverges
    <3>5. QED
      BY <1>2, <1>4, <3>2, <3>3, <3>4
  <2>3. QED
    BY <1>1, <2>1, <2>2 DEF SearchInv, HistoryOK
<1>15. HistoryOK'
  BY <1>1, <1>14 DEF HistoryOK, Diverges
<1>16. calculatePreemptions(search_stack') <= preemption_bound' /\ StackOK(search_stack')
  BY <1>1, <1>5, <1>6
<1>17. QED
  BY <1>1, <1>2, <1>11, <1>13, <1>15, <1>16 DEF SearchInv

\* The search is complete.
LEMMA CompleteInv ==
  ASSUME SearchInv, completeSearch
  PROVE  SearchInv'
<1>1. /\ phase' = "complete" /\ search_stack' = <<>>
      /\ UNCHANGED <<preemption_bound, st, cur, history>>
  BY DEF completeSearch, execVars
<1>2. StackOK(<<>>)
  BY DEF StackOK
<1>3. calculatePreemptions(<<>>) = 0
  <2>1. {i \in DOMAIN <<>> : isPreempt(<<>>[i])} = {}
    OBVIOUS
  <2>2. QED
    BY <2>1, FS_EmptySet DEF calculatePreemptions
<1>4. calculatePreemptions(search_stack') <= preemption_bound' /\ StackOK(search_stack')
  BY <1>1, <1>2, <1>3 DEF SearchInv
<1>5. HistoryOK'
  BY <1>1 DEF HistoryOK
<1>6. QED
  BY <1>1, <1>4, <1>5 DEF SearchInv

\* Every step of the search preserves the invariant.
LEMMA SearchStep ==
  ASSUME SearchInv, [Next]_vars
  PROVE  SearchInv'
<1>1. CASE UNCHANGED vars
  BY <1>1 DEF vars, execVars, SearchInv, Followed, HistoryOK, Here
<1>2. QED
  BY <1>1, SchedulingPointInv, EndExecutionInv, RegenerateInv, GenerateInv, CompleteInv DEF Next

\* The search keeps its invariant.
THEOREM SearchInvariant == Spec => []SearchInv
BY InitInv, SearchStep, PTL DEF Spec

\* FollowsStack, for every number of threads, bound and program in which no
\* thread yields twice (YieldAssumption): an execution makes the decisions of
\* the stack at the points they were taken from, so the assertions of
\* getPostfixAfter, push and checkWithBound hold.
THEOREM SearchFollowsStack == Spec => []FollowsStack
BY SearchInvariant, InvFollows, PTL

\* NoRepeat, for every number of threads, bound and program in which no thread
\* yields twice (YieldAssumption): no schedule is run twice.
THEOREM SearchNoRepeat == Spec => []NoRepeat
BY SearchInvariant, InvNoRepeat, PTL

-----------------------------------------------------------------------------
(***************************************************************************)
(* The search is exhaustive.  An execution within the bound has been run,  *)
(* or its choices leave the stack for an alternative that is still on the  *)
(* list of its element, or it makes all the choices of the stack, and then *)
(* the execution under way decides.                                        *)
(***************************************************************************)

\* d are the decisions of an execution of prog, p its path, o its outcome.
Execution(prog, bound, d, p, o) ==
  /\ d \in Seq(Decision) /\ Path(prog, d, p)
  /\ calculatePreemptions(d) <= bound
  /\ EndsWith(p[Len(d)], o)

Ran(d, o) == \E h \in history : h.choices = buildSchedule(d) /\ h.outcome = o

Leaves(d, stack) ==
  \E i \in 1..Len(stack) :
    /\ i <= Len(d)
    /\ \A j \in 1..(i - 1) : d[j].chosen = stack[j].chosen
    /\ d[i].chosen \in stack[i].todo

Prolongs(d, stack) ==
  Len(d) >= Len(stack) /\ \A j \in 1..Len(stack) : d[j].chosen = stack[j].chosen

Sound ==
  \A h \in history : \E d, p :
    /\ Execution(st.prog, preemption_bound, d, p, h.outcome)
    /\ h.choices = buildSchedule(d)

Covered ==
  \A d, p, o : Execution(st.prog, preemption_bound, d, p, o) =>
    \/ Ran(d, o)
    \/ phase # "complete" /\ Leaves(d, search_stack)
    \/ phase \in {"execute", "executed"} /\ Prolongs(d, search_stack)

ErrorsReported == errors_found = {h.outcome : h \in {g \in history : ~g.first}} \ {"end_log"}

ExhaustInv == SearchInv /\ Sound /\ Covered /\ ErrorsReported

\* The same choices lead along the same path.
LEMMA SamePath ==
  ASSUME NEW prog, NEW d, NEW e, NEW p, NEW q, Path(prog, d, p), Path(prog, e, q),
         Len(d) \in Nat, Len(e) \in Nat, NEW n \in Nat, n <= Len(d), n <= Len(e),
         \A j \in 1..n : d[j].chosen = e[j].chosen
  PROVE  \A j \in 0..n : p[j] = q[j]
<1> DEFINE S == {j \in 0..n : p[j] # q[j]}
<1>1. SUFFICES ASSUME S # {} PROVE FALSE
  OBVIOUS
<1>2. S \in SUBSET Nat
  OBVIOUS
<1>3. PICK k \in S : \A j \in S : k <= j
  BY <1>1, <1>2, LeastNatural
<1>4. k \in 0..n /\ p[k] # q[k]
  BY <1>3
<1>5. k # 0
  BY <1>4 DEF Path
<1>6. k \in 1..Len(d) /\ k \in 1..Len(e) /\ k \in 1..n /\ k - 1 \in 0..n /\ ~(k <= k - 1)
  BY <1>4, <1>5
<1>7. k - 1 \notin S
  BY <1>3, <1>6
<1>8. p[k - 1] = q[k - 1]
  BY <1>6, <1>7
<1>9. Leads(p[k - 1], d[k], p[k]) /\ Leads(q[k - 1], e[k], q[k])
  BY <1>6 DEF Path
<1>10. p[k] = q[k]
  BY <1>6, <1>8, <1>9 DEF Leads
<1>11. QED
  BY <1>4, <1>10

\* At the end of the common choices the decisions are about the same options.
LEMMA SameDecision ==
  ASSUME NEW prog, NEW d, NEW e, NEW p, NEW q, Path(prog, d, p), Path(prog, e, q),
         Len(d) \in Nat, Len(e) \in Nat, NEW i \in 1..Len(d), i <= Len(e),
         \A j \in 1..(i - 1) : d[j].chosen = e[j].chosen
  PROVE  /\ d[i].issignal = e[i].issignal /\ d[i].caller = e[i].caller
         /\ d[i].options = e[i].options /\ d[i].chosen \in e[i].options
         /\ e[i].chosen \in e[i].options
         /\ \A j \in 1..(i - 1) : Agree(d[j], e[j])
<1>1. i - 1 \in Nat /\ i - 1 <= Len(d) /\ i - 1 <= Len(e) /\ i - 1 \in 0..(i - 1) /\ i \in 1..Len(e)
  OBVIOUS
<1>2. \A j \in 0..(i - 1) : p[j] = q[j]
  BY <1>1, SamePath
<1>3. p[i - 1] = q[i - 1]
  BY <1>1, <1>2
<1>4. Leads(p[i - 1], d[i], p[i]) /\ Leads(q[i - 1], e[i], q[i])
  BY <1>1 DEF Path
<1>5. /\ d[i].issignal = e[i].issignal /\ d[i].caller = e[i].caller
      /\ d[i].options = e[i].options /\ d[i].chosen \in e[i].options
      /\ e[i].chosen \in e[i].options
  BY <1>3, <1>4 DEF Leads, Agree, MadeAt
<1>6. ASSUME NEW j \in 1..(i - 1)
      PROVE  Agree(d[j], e[j])
  <2>1. j \in 1..Len(d) /\ j \in 1..Len(e) /\ j - 1 \in 0..(i - 1)
    BY <1>1
  <2>2. Leads(p[j - 1], d[j], p[j]) /\ Leads(q[j - 1], e[j], q[j]) /\ p[j - 1] = q[j - 1]
    BY <1>2, <2>1 DEF Path
  <2>3. QED
    BY <2>2 DEF Leads, Agree, MadeAt
<1>7. QED
  BY <1>5, <1>6

\* An execution within the bound that leaves the stack at an element does so
\* for work that is still to do: the bound does not cut it off.
LEMMA LeavesForWork ==
  ASSUME SearchInv, phase = "search",
         NEW d, NEW p, NEW o, Execution(st.prog, preemption_bound, d, p, o),
         NEW i \in 1..Len(search_stack), i <= Len(d),
         \A j \in 1..(i - 1) : d[j].chosen = search_stack[j].chosen,
         d[i].chosen \in search_stack[i].todo
  PROVE  i \in WorkToDo
<1> DEFINE below == SubSeq(search_stack, 1, i - 1)
           P(s) == {j \in DOMAIN s : isPreempt(s[j])}
<1>1. /\ StackOK(search_stack) /\ search_stack \in Seq(Element) /\ Len(search_stack) \in Nat
      /\ d \in Seq(Decision) /\ Len(d) \in Nat /\ DOMAIN d = 1..Len(d)
      /\ DOMAIN search_stack = 1..Len(search_stack) /\ i \in 1..Len(d)
      /\ preemption_bound \in Nat
  BY LenProperties DEF SearchInv, StackOK, Execution
<1>2. PICK q : Path(st.prog, search_stack, q)
  BY DEF SearchInv
<1>3. /\ d[i].issignal = search_stack[i].issignal /\ d[i].caller = search_stack[i].caller
      /\ d[i].options = search_stack[i].options
      /\ \A j \in 1..(i - 1) : Agree(d[j], search_stack[j])
  <2>1. Path(st.prog, d, p)
    BY DEF Execution
  <2>2. Len(d) \in Nat /\ Len(search_stack) \in Nat /\ i \in 1..Len(d) /\ i <= Len(search_stack)
    BY <1>1
  <2>3. QED
    BY <1>2, <2>1, <2>2, SameDecision
<1>4. /\ \A j \in 1..(i - 1) : below[j] = search_stack[j]
      /\ DOMAIN below = 1..(i - 1)
  <2>1. search_stack[i].todo # {}
    OBVIOUS
  <2>2. QED
    BY <1>1, <2>1, NextStack
<1>5. \A j \in 1..(i - 1) : j \in 1..Len(d)
  BY <1>1
<1> HIDE DEF below
<1>6. P(below) \subseteq P(d) /\ i \notin P(below)
  <2>1. \A j \in 1..(i - 1) : isPreempt(below[j]) => isPreempt(d[j])
    BY <1>3, <1>4 DEF Agree, isPreempt, CallerEnabled
  <2>2. i \notin 1..(i - 1)
    BY <1>1
  <2>3. QED
    BY <1>1, <1>4, <1>5, <2>1, <2>2
<1>7. IsFiniteSet(P(d)) /\ IsFiniteSet(P(below))
  <2>1. IsFiniteSet(1..Len(d)) /\ P(d) \subseteq 1..Len(d)
    BY <1>1, FS_Interval
  <2>2. IsFiniteSet(P(d))
    BY <2>1, FS_Subset
  <2>3. QED
    BY <1>6, <2>2, FS_Subset
<1>8. Cardinality(P(d)) <= preemption_bound
  BY DEF Execution, calculatePreemptions
<1>9. needPreemptsToExplore(search_stack[i]) => Cardinality(P(below)) < preemption_bound
  <2>1. SUFFICES ASSUME needPreemptsToExplore(search_stack[i])
                 PROVE  Cardinality(P(below)) < preemption_bound
    OBVIOUS
  <2>2. d[i].chosen # search_stack[i].chosen
    BY <1>1 DEF StackOK
  <2>3. i \in P(d)
    BY <1>1, <1>3, <2>1, <2>2 DEF needPreemptsToExplore, isPreempt, CallerEnabled
  <2>4. P(below) \cup {i} \subseteq P(d)
    BY <1>6, <2>3
  <2> DEFINE kb == Cardinality(P(below))
             kd == Cardinality(P(d))
  <2>5. Cardinality(P(below) \cup {i}) = kb + 1
    BY <1>6, <1>7, FS_AddElement
  <2>6. Cardinality(P(below) \cup {i}) <= kd
    BY <1>7, <2>4, FS_Subset
  <2>7. kb \in Nat /\ kd \in Nat /\ kb + 1 <= kd /\ kd <= preemption_bound
    BY <1>7, <1>8, <2>5, <2>6, FS_CardinalityType
  <2> HIDE DEF kb, kd
  <2>8. kb < preemption_bound
    BY <1>1, <2>7
  <2>9. QED
    BY <2>8 DEF kb
<1>10. isWorkToDo(below, search_stack[i])
  BY <1>9 DEF isWorkToDo, calculatePreemptions
<1>11. QED
  BY <1>1, <1>10 DEF WorkToDo, below

\* The executions depend on the program and the bound only, and the search
\* changes neither: what the steps that leave stack and history alone keep.
LEMMA ExhaustKept ==
  ASSUME ExhaustInv, SearchInv', st'.prog = st.prog,
         UNCHANGED <<preemption_bound, search_stack, errors_found, history>>,
         phase' = phase \/ (phase = "execute" /\ phase' = "executed")
  PROVE  ExhaustInv'
<1>1. Sound'
  BY DEF ExhaustInv, Sound, Execution, calculatePreemptions, isPreempt, CallerEnabled
<1>2. Covered'
  <2>1. ASSUME NEW d, NEW p, NEW o, Execution(st.prog, preemption_bound, d, p, o)
        PROVE  \/ Ran(d, o)
               \/ phase' # "complete" /\ Leaves(d, search_stack)
               \/ phase' \in {"execute", "executed"} /\ Prolongs(d, search_stack)
    BY <2>1 DEF ExhaustInv, Covered
  <2>2. QED
    BY <2>1 DEF Covered, Ran
<1>3. ErrorsReported'
  BY DEF ExhaustInv, ErrorsReported
<1>4. QED
  BY <1>1, <1>2, <1>3 DEF ExhaustInv

\* At first no execution has been run, and every execution prolongs the empty
\* stack.
LEMMA InitExhaust ==
  ASSUME Init
  PROVE  ExhaustInv
<1>1. search_stack = <<>> /\ phase = "execute" /\ history = {} /\ errors_found = {}
  BY DEF Init
<1>2. SearchInv
  BY InitInv
<1>3. ASSUME NEW d, NEW p, NEW o, Execution(st.prog, preemption_bound, d, p, o)
      PROVE  Prolongs(d, search_stack)
  <2>1. Len(d) \in Nat /\ Len(<<>>) = 0
    BY <1>3, LenProperties DEF Execution
  <2>2. QED
    BY <1>1, <2>1 DEF Prolongs
<1>4. Sound /\ Covered /\ ErrorsReported
  BY <1>1, <1>3 DEF Sound, Covered, ErrorsReported
<1>5. QED
  BY <1>2, <1>4 DEF ExhaustInv

\* Choosing the next schedule: an execution that leaves the stack leaves it at
\* or below the element with the next alternative.
LEMMA GenerateExhaust ==
  ASSUME ExhaustInv, generateNextSchedule
  PROVE  ExhaustInv'
<1> DEFINE i == Highest(WorkToDo)
           next == Alternative(search_stack, i)
           m == Len(search_stack)
<1>1. /\ phase = "search" /\ WorkToDo # {} /\ phase' = "execute"
      /\ search_stack' = next /\ st' = Initial(st.prog)
      /\ UNCHANGED <<preemption_bound, errors_found, history>>
  BY DEF generateNextSchedule, BeginExecution, Alternative
<1>2. SearchInv /\ SearchInv'
  BY GenerateInv DEF ExhaustInv
<1>3. /\ StackOK(search_stack) /\ m \in Nat /\ DOMAIN search_stack = 1..m
  BY <1>2, LenProperties DEF SearchInv, StackOK
<1>4. i \in WorkToDo /\ \A k \in WorkToDo : i >= k
  <2>1. WorkToDo \in SUBSET (0..m)
    BY <1>3 DEF WorkToDo
  <2>2. QED
    BY <1>1, <1>3, <2>1, HighestIn
<1>5. i \in 1..m /\ search_stack[i].todo # {}
  BY <1>3, <1>4 DEF WorkToDo, isWorkToDo
<1>6. next[i] = doWork(search_stack[i])
  <2>1. /\ \A j \in 1..(i - 1) : j \in 1..m
        /\ search_stack \in Seq(Element)
    BY <1>3, <1>5 DEF StackOK
  <2>2. SubSeq(search_stack, 1, i - 1) \in Seq(Element) /\ Len(SubSeq(search_stack, 1, i - 1)) = i - 1
    <3>1. \A j \in 1..(i - 1) : search_stack[j] \in Element
      BY <2>1, ElementOfSeq
    <3>2. QED
      BY <1>3, <1>5, <3>1, SubSeqProperties
  <2>3. (i - 1) + 1 = i
    BY <1>3, <1>5
  <2> HIDE DEF i
  <2>4. Append(SubSeq(search_stack, 1, i - 1), doWork(search_stack[i]))[(i - 1) + 1]
          = doWork(search_stack[i])
    BY <2>2
  <2>5. QED
    BY <2>3, <2>4 DEF Alternative
<1> HIDE DEF i, m
<1>7. /\ Len(next) = i
      /\ \A j \in 1..(i - 1) : next[j] = search_stack[j]
  BY <1>3, <1>5, NextStack DEF m
<1> HIDE DEF next
<1>8. \A x \in search_stack[i].todo : x = next[i].chosen \/ x \in next[i].todo
  <2>1. search_stack[i] \in Element
    BY <1>3, <1>5, ElementOfSeq DEF StackOK, m
  <2>2. QED
    BY <1>6, <2>1 DEF doWork, Element
<1>9. st'.prog = st.prog
  BY <1>1, InitialState DEF StateOf
<1>10. ASSUME NEW d, NEW p, NEW o, Execution(st.prog, preemption_bound, d, p, o)
       PROVE  Ran(d, o) \/ Leaves(d, next) \/ Prolongs(d, next)
  <2>1. SUFFICES ASSUME ~Ran(d, o) PROVE Leaves(d, next) \/ Prolongs(d, next)
    OBVIOUS
  <2>2. Leaves(d, search_stack)
    BY <1>1, <1>10, <2>1 DEF ExhaustInv, Covered
  <2>3. PICK k \in 1..m : /\ k <= Len(d)
                          /\ \A j \in 1..(k - 1) : d[j].chosen = search_stack[j].chosen
                          /\ d[k].chosen \in search_stack[k].todo
    BY <2>2 DEF Leaves, m
  <2>4. k \in WorkToDo
    BY <1>1, <1>2, <1>10, <2>3, LeavesForWork DEF m
  <2>5. k <= i
    BY <1>3, <1>4, <1>5, <2>4
  <2>6. Len(d) \in Nat
    BY <1>10, LenProperties DEF Execution
  <2>7. CASE k < i
    <3>1. k \in 1..(i - 1) /\ k \in 1..Len(next) /\ \A j \in 1..(k - 1) : j \in 1..(i - 1)
      BY <1>3, <1>5, <1>7, <2>7
    <3>2. QED
      BY <1>7, <2>3, <3>1 DEF Leaves
  <2>8. CASE k = i
    <3>1. \A j \in 1..(i - 1) : d[j].chosen = next[j].chosen
      BY <1>7, <2>3, <2>8
    <3>2. CASE d[i].chosen \in next[i].todo
      <4>1. i \in 1..Len(next)
        BY <1>3, <1>5, <1>7
      <4>2. QED
        BY <2>3, <2>8, <3>1, <3>2, <4>1 DEF Leaves
    <3>3. CASE d[i].chosen = next[i].chosen
      <4>1. \A j \in 1..i : j = i \/ j \in 1..(i - 1)
        BY <1>3, <1>5
      <4>2. Len(d) >= Len(next)
        BY <1>3, <1>5, <1>7, <2>3, <2>6, <2>8
      <4>3. QED
        BY <1>7, <3>1, <3>3, <4>1, <4>2 DEF Prolongs
    <3>4. QED
      BY <1>8, <2>3, <2>8, <3>2, <3>3
  <2>9. QED
    BY <1>3, <1>5, <2>5, <2>7, <2>8
<1>11. Covered'
  BY <1>1, <1>9, <1>10 DEF Covered, Execution, Ran, Leaves, Prolongs
<1>12. Sound' /\ ErrorsReported'
  BY <1>1, <1>9 DEF ExhaustInv, Sound, ErrorsReported, Execution
<1>13. QED
  BY <1>2, <1>11, <1>12 DEF ExhaustInv

\* When there is no work to do, no execution within the bound leaves the
\* stack: all have been run.
LEMMA CompleteExhaust ==
  ASSUME ExhaustInv, completeSearch
  PROVE  ExhaustInv'
<1>1. /\ phase = "search" /\ WorkToDo = {} /\ phase' = "complete"
      /\ UNCHANGED <<preemption_bound, st, errors_found, history>>
  BY DEF completeSearch, execVars
<1>2. SearchInv /\ SearchInv'
  BY CompleteInv DEF ExhaustInv
<1>3. ASSUME NEW d, NEW p, NEW o, Execution(st.prog, preemption_bound, d, p, o)
      PROVE  Ran(d, o)
  <2>1. SUFFICES ASSUME Leaves(d, search_stack) PROVE FALSE
    BY <1>1, <1>3 DEF ExhaustInv, Covered
  <2>2. PICK k \in 1..Len(search_stack) :
               /\ k <= Len(d)
               /\ \A j \in 1..(k - 1) : d[j].chosen = search_stack[j].chosen
               /\ d[k].chosen \in search_stack[k].todo
    BY <2>1 DEF Leaves
  <2>3. k \in WorkToDo
    BY <1>1, <1>2, <1>3, <2>2, LeavesForWork
  <2>4. QED
    BY <1>1, <2>3
<1>4. Covered'
  BY <1>1, <1>3 DEF Covered, Execution, Ran
<1>5. Sound' /\ ErrorsReported'
  BY <1>1 DEF ExhaustInv, Sound, ErrorsReported, Execution
<1>6. QED
  BY <1>2, <1>4, <1>5 DEF ExhaustInv

\* An execution that has made all the choices of the stack is the one just
\* run, or leaves it after the stack, at a decision whose alternatives are now
\* on the list.
LEMMA RegenerateExhaust ==
  ASSUME ExhaustInv, regenerate
  PROVE  ExhaustInv'
<1> DEFINE m == Len(search_stack)
           n == Len(schedule)
<1>1. /\ phase = "executed" /\ phase' = "search"
      /\ history' = history \cup {Done} /\ recordAnyErrors
      /\ UNCHANGED <<preemption_bound, st, schedule, outcome>>
  BY DEF regenerate, execVars
<1>2. /\ SearchInv /\ SearchInv' /\ Len(search_stack') = n
      /\ \A i \in 1..n : Agree(search_stack'[i], schedule[i])
      /\ \A i \in 1..m : search_stack'[i] = search_stack[i]
      /\ \A i \in (m + 1)..n :
           search_stack'[i].todo = schedule[i].options \ {schedule[i].chosen}
  BY RegenerateInv DEF ExhaustInv
<1>3. /\ schedule \in Seq(Decision) /\ n \in Nat /\ m \in Nat /\ n >= m
      /\ DOMAIN schedule = 1..n
      /\ \A i \in 1..m : schedule[i].chosen = search_stack[i].chosen
  <2>1. /\ Merges(search_stack, schedule) /\ n >= m
        /\ search_stack \in Seq(Element) /\ schedule \in Seq(Decision)
    BY <1>1, <1>2 DEF SearchInv, Followed, Merges, StackOK
  <2>2. n \in Nat /\ m \in Nat /\ DOMAIN schedule = 1..n
    BY <2>1, LenProperties
  <2>3. ASSUME NEW i \in 1..m PROVE schedule[i].chosen = search_stack[i].chosen
    <3>1. i \in 1..n /\ i <= m
      BY <2>1, <2>2
    <3>2. QED
      BY <2>1, <3>1 DEF Merges, Agree
  <2>4. QED
    BY <2>1, <2>2, <2>3
<1>4. PICK q : Path(st.prog, schedule, q) /\ EndsWith(q[n], outcome)
  BY <1>1, <1>2 DEF SearchInv, Followed
<1>5. Done.choices = buildSchedule(schedule) /\ Done.outcome = outcome /\ Done \in history'
  BY <1>1 DEF Done, buildSchedule
<1>6. Execution(st.prog, preemption_bound, schedule, q, outcome)
  <2>1. DOMAIN search_stack' = 1..n
    BY <1>2, <1>3, LenProperties DEF SearchInv, StackOK
  <2>2. {i \in DOMAIN schedule : isPreempt(schedule[i])}
          = {i \in DOMAIN search_stack' : isPreempt(search_stack'[i])}
    BY <1>2, <1>3, <2>1 DEF Agree, isPreempt, CallerEnabled
  <2>3. calculatePreemptions(schedule) = calculatePreemptions(search_stack')
    BY <2>2 DEF calculatePreemptions
  <2>4. calculatePreemptions(schedule) <= preemption_bound
    BY <1>1, <1>2, <2>3 DEF SearchInv
  <2>5. QED
    BY <1>3, <1>4, <2>4 DEF Execution
<1>7. Sound'
  <2>1. ASSUME NEW h \in history'
        PROVE  \E d, p : /\ Execution(st.prog, preemption_bound, d, p, h.outcome)
                         /\ h.choices = buildSchedule(d)
    <3>1. CASE h \in history
      BY <3>1 DEF ExhaustInv, Sound
    <3>2. CASE h = Done
      BY <1>5, <1>6, <3>2
    <3>3. QED
      BY <1>1, <3>1, <3>2
  <2>2. QED
    BY <1>1, <2>1 DEF Sound
<1>8. ASSUME NEW d, NEW p, NEW o, Execution(st.prog, preemption_bound, d, p, o),
             Leaves(d, search_stack)
      PROVE  Leaves(d, search_stack')
  <2>1. PICK k \in 1..m : /\ k <= Len(d)
                          /\ \A j \in 1..(k - 1) : d[j].chosen = search_stack[j].chosen
                          /\ d[k].chosen \in search_stack[k].todo
    BY <1>8 DEF Leaves
  <2>2. k \in 1..n /\ \A j \in 1..(k - 1) : j \in 1..m
    BY <1>3
  <2>3. QED
    BY <1>2, <2>1, <2>2 DEF Leaves
<1>9. ASSUME NEW d, NEW p, NEW o, Execution(st.prog, preemption_bound, d, p, o),
             Prolongs(d, search_stack)
      PROVE  \/ buildSchedule(d) = buildSchedule(schedule) /\ o = outcome
             \/ Leaves(d, search_stack')
  <2> DEFINE K == {k \in 1..n : k > Len(d) \/ d[k].chosen # schedule[k].chosen}
  <2>1. d \in Seq(Decision) /\ Len(d) \in Nat /\ DOMAIN d = 1..Len(d) /\ Path(st.prog, d, p)
        /\ EndsWith(p[Len(d)], o)
    BY <1>9, LenProperties DEF Execution
  <2>2. CASE K = {}
    <3>1. Len(d) >= n /\ \A k \in 1..n : d[k].chosen = schedule[k].chosen
      <4>1. \A k \in 1..n : ~(k > Len(d)) /\ d[k].chosen = schedule[k].chosen
        BY <2>2
      <4>2. n = 0 \/ n \in 1..n
        BY <1>3
      <4>3. Len(d) >= n
        BY <1>3, <2>1, <4>1, <4>2
      <4>4. QED
        BY <4>1, <4>3
    <3>2. p[n] = q[n]
      <4>1. \A j \in 0..n : p[j] = q[j]
        BY <1>3, <1>4, <2>1, <3>1, SamePath
      <4>2. QED
        BY <1>3, <4>1
    <3>3. Len(d) = n
      <4>0. Len(d) \in Nat /\ n \in Nat /\ Len(d) >= n
        BY <1>3, <2>1, <3>1
      <4> HIDE DEF n
      <4>1. SUFFICES ASSUME Len(d) > n PROVE FALSE
        BY <4>0
      <4>2. n + 1 \in 1..Len(d) /\ (n + 1) - 1 = n
        BY <1>3, <2>1, <4>1
      <4>3. Leads(p[n], d[n + 1], p[n + 1])
        BY <2>1, <4>2 DEF Path
      <4>4. QED
        BY <1>4, <3>2, <4>3 DEF Leads, EndsWith
    <3>4. buildSchedule(d) = buildSchedule(schedule)
      BY <1>3, <2>1, <3>1, <3>3 DEF buildSchedule
    <3>5. o = outcome
      BY <1>4, <2>1, <3>2, <3>3 DEF EndsWith
    <3>6. QED
      BY <3>4, <3>5
  <2>3. CASE K # {}
    <3>1. PICK k \in K : \A j \in K : k <= j
      <4>1. K \in SUBSET Nat
        BY <1>3
      <4>2. QED
        BY <2>3, <4>1, LeastNatural
    <3>2. k \in 1..n /\ (k > Len(d) \/ d[k].chosen # schedule[k].chosen)
      BY <3>1
    <3>3. \A j \in 1..(k - 1) : j <= Len(d) /\ d[j].chosen = schedule[j].chosen
      <4>1. \A j \in 1..(k - 1) : j \in 1..n /\ ~(k <= j)
        BY <1>3, <3>2
      <4>2. \A j \in 1..(k - 1) : j \notin K
        BY <3>1, <4>1
      <4>3. QED
        BY <1>3, <2>1, <4>1, <4>2
    <3> HIDE DEF K
    <3>4. k - 1 \in Nat /\ k - 1 <= Len(d) /\ k - 1 <= n
      <4>1. k - 1 = 0 \/ k - 1 \in 1..(k - 1)
        BY <1>3, <3>2
      <4>2. QED
        BY <1>3, <2>1, <3>2, <3>3, <4>1
    <3>5. k <= Len(d)
      <4>1. SUFFICES ASSUME Len(d) = k - 1 PROVE FALSE
        BY <1>3, <2>1, <3>2, <3>4
      <4>2. \A j \in 1..(k - 1) : d[j].chosen = schedule[j].chosen
        BY <3>3
      <4>3. \A j \in 0..(k - 1) : p[j] = q[j]
        <5>1. Path(st.prog, d, p) /\ Path(st.prog, schedule, q)
          BY <1>4, <2>1
        <5>2. /\ Len(d) \in Nat /\ Len(schedule) \in Nat
              /\ k - 1 \in Nat /\ k - 1 <= Len(d) /\ k - 1 <= Len(schedule)
          BY <1>3, <2>1, <3>4
        <5>3. QED
          BY <4>2, <5>1, <5>2, SamePath
      <4>4. p[k - 1] = q[k - 1]
        BY <3>4, <4>3
      <4>5. Leads(q[k - 1], schedule[k], q[k])
        BY <1>4, <3>2 DEF Path
      <4>6. QED
        BY <2>1, <4>1, <4>4, <4>5 DEF Leads, EndsWith
    <3>6. k \in 1..Len(d) /\ k <= n
      BY <1>3, <2>1, <3>2, <3>5
    <3>7. d[k].chosen \in schedule[k].options
      BY <1>3, <1>4, <2>1, <3>3, <3>6, SameDecision
    <3>8. d[k].chosen # schedule[k].chosen
      BY <2>1, <3>2, <3>6
    <3>9. k \in (m + 1)..n
      <4>1. SUFFICES ASSUME k \in 1..m PROVE FALSE
        BY <1>3, <3>2
      <4>2. d[k].chosen = search_stack[k].chosen /\ schedule[k].chosen = search_stack[k].chosen
        BY <1>3, <1>9, <4>1 DEF Prolongs
      <4>3. QED
        BY <3>8, <4>2
    <3>10. d[k].chosen \in search_stack'[k].todo
      BY <1>2, <3>7, <3>8, <3>9
    <3>11. \A j \in 1..(k - 1) : d[j].chosen = search_stack'[j].chosen
      <4>1. \A j \in 1..(k - 1) : j \in 1..n
        BY <1>3, <3>2
      <4>2. QED
        BY <1>2, <3>3, <4>1 DEF Agree
    <3>12. QED
      BY <1>2, <3>2, <3>5, <3>10, <3>11 DEF Leaves
  <2>4. QED
    BY <2>2, <2>3
<1>10. ASSUME NEW d, NEW p, NEW o, Execution(st.prog, preemption_bound, d, p, o)
       PROVE  Ran(d, o)' \/ Leaves(d, search_stack')
  <2>1. CASE Ran(d, o)
    BY <1>1, <2>1 DEF Ran
  <2>2. CASE Leaves(d, search_stack)
    BY <1>8, <1>10, <2>2
  <2>3. CASE Prolongs(d, search_stack)
    <3>1. CASE buildSchedule(d) = buildSchedule(schedule) /\ o = outcome
      BY <1>5, <3>1 DEF Ran
    <3>2. QED
      BY <1>9, <1>10, <2>3, <3>1
  <2>4. QED
    BY <1>10, <2>1, <2>2, <2>3 DEF ExhaustInv, Covered
<1>11. Covered'
  BY <1>1, <1>10 DEF Covered
<1>12. ErrorsReported'
  <2>1. ErrorsReported
    BY DEF ExhaustInv
  <2>2. Done.first = (history = {})
    BY DEF Done
  <2>3. CASE history = {}
    <3>1. errors_found = {} /\ errors_found' = errors_found
      BY <1>1, <2>1, <2>3 DEF ErrorsReported, recordAnyErrors
    <3>2. \A g \in history' : g.first
      BY <1>1, <2>2, <2>3
    <3>3. QED
      BY <3>1, <3>2 DEF ErrorsReported
  <2>4. CASE history # {}
    <3>1. errors_found' = (errors_found \cup {outcome}) \ {"end_log"}
      <4>1. "end_log" \notin errors_found
        BY <2>1 DEF ErrorsReported
      <4>2. QED
        BY <1>1, <2>4, <4>1 DEF recordAnyErrors, Error
    <3>2. {h.outcome : h \in {g \in history' : ~g.first}}
            = {h.outcome : h \in {g \in history : ~g.first}} \cup {outcome}
      BY <1>1, <1>5, <2>2, <2>4
    <3>3. QED
      BY <2>1, <3>1, <3>2 DEF ErrorsReported
  <2>5. QED
    BY <2>3, <2>4
<1>13. QED
  BY <1>2, <1>7, <1>11, <1>12 DEF ExhaustInv

\* Every step preserves the invariant.
LEMMA ExhaustStep ==
  ASSUME ExhaustInv, [Next]_vars
  PROVE  ExhaustInv'
<1>1. SearchInv
  BY DEF ExhaustInv
<1>2. CASE UNCHANGED vars
  <2>1. SearchInv'
    BY <1>1, <1>2, SearchStep
  <2>2. QED
    BY <1>2, <2>1, ExhaustKept DEF vars, execVars
<1>3. CASE SchedulingPoint
  <2>1. SearchInv' /\ st'.prog = st.prog
    BY <1>1, <1>3, SchedulingPointInv
  <2>2. /\ UNCHANGED <<preemption_bound, search_stack, errors_found, history>>
        /\ phase = "execute" /\ phase' \in {"execute", "executed"}
    BY <1>3 DEF SchedulingPoint
  <2>3. QED
    BY <2>1, <2>2, ExhaustKept
<1>4. CASE EndExecution
  <2>1. SearchInv'
    BY <1>1, <1>4, EndExecutionInv
  <2>2. QED
    BY <1>4, <2>1, ExhaustKept DEF EndExecution
<1>5. QED
  BY <1>2, <1>3, <1>4, RegenerateExhaust, GenerateExhaust, CompleteExhaust DEF Next

\* The search keeps its invariant.
THEOREM ExhaustInvariant == Spec => []ExhaustInv
BY InitExhaust, ExhaustStep, PTL DEF Spec

-----------------------------------------------------------------------------
(***************************************************************************)
(* The reference of SearchExhaustive: the executions computed scheduling   *)
(* point by scheduling point are those with a path.                        *)
(***************************************************************************)
Onward(bound, S) == {x \in UNION {Extend(y) : y \in S} : x.preempts <= bound}

IsReached(f, prog, bound, k) ==
  f = [n \in 0..k |-> IF n = 0 THEN {Begun(prog)} ELSE Onward(bound, f[n - 1])]

\* The recursion has a solution up to every depth.
LEMMA ReachedExists ==
  ASSUME NEW prog, NEW bound, NEW k \in Nat
  PROVE  \E f : IsReached(f, prog, bound, k)
<1> DEFINE S == {n \in Nat : ~\E f : IsReached(f, prog, bound, n)}
<1>1. SUFFICES ASSUME S # {} PROVE FALSE
  OBVIOUS
<1>2. PICK n \in S : \A j \in S : n <= j
  <2>1. S \in SUBSET Nat
    OBVIOUS
  <2>2. QED
    BY <1>1, <2>1, LeastNatural
<1>3. n \in Nat /\ ~\E f : IsReached(f, prog, bound, n)
  BY <1>2
<1>4. CASE n = 0
  <2> DEFINE f == [j \in 0..0 |-> {Begun(prog)}]
  <2>1. f = [j \in 0..0 |-> IF j = 0 THEN {Begun(prog)} ELSE Onward(bound, f[j - 1])]
    OBVIOUS
  <2>2. IsReached(f, prog, bound, 0)
    BY <2>1 DEF IsReached
  <2>3. QED
    BY <1>3, <1>4, <2>2
<1>5. CASE n # 0
  <2>1. n - 1 \in Nat /\ ~(n <= n - 1)
    BY <1>3, <1>5
  <2>2. n - 1 \notin S
    BY <1>2, <2>1
  <2>3. PICK g : IsReached(g, prog, bound, n - 1)
    BY <2>1, <2>2
  <2> DEFINE f == [j \in 0..n |-> IF j < n THEN g[j] ELSE Onward(bound, g[n - 1])]
  <2>4. \A j \in 0..(n - 1) : g[j] = IF j = 0 THEN {Begun(prog)} ELSE Onward(bound, g[j - 1])
    BY <2>3 DEF IsReached
  <2>5. ASSUME NEW j \in 0..n
        PROVE  f[j] = IF j = 0 THEN {Begun(prog)} ELSE Onward(bound, f[j - 1])
    <3>1. CASE j = 0
      <4>1. 0 \in 0..(n - 1) /\ 0 < n
        BY <1>3, <1>5
      <4>2. QED
        BY <2>4, <3>1, <4>1
    <3>2. CASE j # 0 /\ j < n
      <4>1. j \in 0..(n - 1) /\ j - 1 \in 0..n /\ j - 1 < n
        BY <1>3, <3>2
      <4>2. f[j] = g[j] /\ f[j - 1] = g[j - 1]
        BY <3>2, <4>1
      <4>3. QED
        BY <2>4, <3>2, <4>1, <4>2
    <3>3. CASE j = n
      <4>1. n - 1 \in 0..n /\ n - 1 < n /\ ~(n < n)
        BY <1>3, <1>5
      <4>2. f[n - 1] = g[n - 1] /\ f[n] = Onward(bound, g[n - 1])
        BY <1>3, <4>1
      <4>3. QED
        BY <1>5, <3>3, <4>2
    <3>4. QED
      BY <1>3, <3>1, <3>2, <3>3
  <2>6. f = [j \in 0..n |-> f[j]]
    OBVIOUS
  <2> HIDE DEF f
  <2>7. IsReached(f, prog, bound, n)
    BY <2>5, <2>6 DEF IsReached
  <2>8. QED
    BY <1>3, <2>7
<1>6. QED
  BY <1>4, <1>5

\* ... so Reached is one.
LEMMA ReachedIs ==
  ASSUME NEW prog, NEW bound
  PROVE  IsReached(Reached(prog, bound), prog, bound, MaxDepth)
<1>1. \E f : IsReached(f, prog, bound, MaxDepth)
  BY ReachedExists, ChessAssumption
<1>2. Reached(prog, bound) = CHOOSE f : IsReached(f, prog, bound, MaxDepth)
  BY DEF Reached, IsReached, Onward
<1>3. QED
  BY <1>1, <1>2

\* What one more decision adds to the choices and to the preemptions.
LEMMA AppendDecision ==
  ASSUME NEW d \in Seq(Decision), NEW e \in Decision
  PROVE  /\ Append(d, e) \in Seq(Decision) /\ Len(Append(d, e)) = Len(d) + 1
         /\ buildSchedule(Append(d, e)) = Append(buildSchedule(d), e.chosen)
         /\ calculatePreemptions(d) \in Nat
         /\ calculatePreemptions(Append(d, e)) =
              IF isPreempt(e) THEN calculatePreemptions(d) + 1 ELSE calculatePreemptions(d)
<1> DEFINE n == Len(d)
           a == Append(d, e)
           P(s) == {j \in DOMAIN s : isPreempt(s[j])}
<1>1. /\ n \in Nat /\ DOMAIN d = 1..n /\ a \in Seq(Decision) /\ Len(a) = n + 1
      /\ DOMAIN a = 1..(n + 1)
      /\ \A i \in 1..n : a[i] = d[i]
      /\ a[n + 1] = e
      /\ \A i \in 1..n : d[i] \in Decision
  BY LenProperties, AppendProperties, ElementOfSeq
<1>2. n + 1 \notin 1..n /\ \A i \in 1..(n + 1) : i = n + 1 \/ i \in 1..n
  BY <1>1
<1> HIDE DEF n, a
<1>3. buildSchedule(a) = Append(buildSchedule(d), e.chosen)
  <2> DEFINE b == buildSchedule(d)
  <2>1. b = [i \in 1..n |-> d[i].chosen]
    BY <1>1 DEF buildSchedule
  <2>2. b \in Seq(Thread) /\ Len(b) = n
    BY <1>1, <2>1, IsASeq DEF Decision
  <2>3. e.chosen \in Thread
    BY DEF Decision
  <2>4. \A i \in 1..n : b[i] = d[i].chosen
    BY <2>1
  <2> HIDE DEF b
  <2> DEFINE ab == Append(b, e.chosen)
  <2>5. ab \in Seq(Thread) /\ Len(ab) = n + 1 /\ (\A i \in 1..n : ab[i] = b[i])
        /\ ab[n + 1] = e.chosen
    BY <2>2, <2>3, AppendProperties
  <2>6. ab = [i \in 1..(n + 1) |-> ab[i]]
    BY <1>1, <2>2, <2>3
  <2> HIDE DEF ab
  <2>7. \A i \in 1..(n + 1) : a[i].chosen = ab[i]
    BY <1>1, <1>2, <2>4, <2>5
  <2>8. buildSchedule(a) = [i \in 1..(n + 1) |-> a[i].chosen]
    BY <1>1 DEF buildSchedule
  <2>9. QED
    BY <2>6, <2>7, <2>8 DEF ab, b
<1>4. P(a) = IF isPreempt(e) THEN P(d) \cup {n + 1} ELSE P(d)
  BY <1>1, <1>2
<1>5. IsFiniteSet(P(d)) /\ n + 1 \notin P(d)
  <2>1. IsFiniteSet(1..n) /\ P(d) \subseteq 1..n
    BY <1>1, FS_Interval
  <2>2. QED
    BY <1>2, <2>1, FS_Subset
<1>6. /\ Cardinality(P(d)) \in Nat
      /\ Cardinality(P(d) \cup {n + 1}) = Cardinality(P(d)) + 1
  BY <1>5, FS_CardinalityType, FS_AddElement
<1>7. /\ calculatePreemptions(d) \in Nat
      /\ calculatePreemptions(a) =
           IF isPreempt(e) THEN calculatePreemptions(d) + 1 ELSE calculatePreemptions(d)
  BY <1>4, <1>6 DEF calculatePreemptions
<1>8. QED
  BY <1>1, <1>3, <1>7 DEF n, a

\* Path q of decisions e is path p of decisions d and the choice c at its end y.
IsLonger(prog, d, y, c, e, q) ==
  /\ e \in Seq(Decision) /\ Path(prog, e, q) /\ q[Len(e)] = After(y, c)
  /\ IsConfiguration(q[Len(e)], prog)
  /\ buildSchedule(e) = Append(buildSchedule(d), c)
  /\ calculatePreemptions(d) \in Nat
  /\ calculatePreemptions(e) =
       IF isPreempt(MadeAt(y, c)) THEN calculatePreemptions(d) + 1 ELSE calculatePreemptions(d)

\* A path can be made longer.
LEMMA Longer ==
  ASSUME NEW prog, NEW d, d \in Seq(Decision), NEW p, Path(prog, d, p), NEW y, p[Len(d)] = y,
         IsConfiguration(y, prog), GoesOn(y), NEW c, c \in Options(y)
  PROVE  \E e, q : IsLonger(prog, d, y, c, e, q)
<1> DEFINE m == MadeAt(y, c)
           z == After(y, c)
           e == Append(d, m)
           q == GoOn(p, Len(d), z)
<1>1. m \in Decision /\ c \in Thread /\ m.chosen = c
  BY MadeAtType DEF MadeAt
<1>2. IsConfiguration(z, prog)
  BY <1>1, AfterOf
<1>3. Leads(p[Len(d)], m, z)
  BY <1>1 DEF Leads, Agree, MadeAt
<1> HIDE DEF m, z, q, e
<1>4. Path(prog, e, q) /\ q[Len(d) + 1] = z
  BY <1>1, <1>3, PathGoesOn DEF q, e
<1>5. /\ e \in Seq(Decision) /\ Len(e) = Len(d) + 1
      /\ buildSchedule(e) = Append(buildSchedule(d), c)
      /\ calculatePreemptions(d) \in Nat
      /\ calculatePreemptions(e) =
           IF isPreempt(m) THEN calculatePreemptions(d) + 1 ELSE calculatePreemptions(d)
  BY <1>1, AppendDecision DEF e
<1>6. IsLonger(prog, d, y, c, e, q)
  BY <1>2, <1>4, <1>5 DEF m, z, IsLonger
<1>7. QED
  BY <1>6

\* What may become of an execution at a scheduling point, case by case.
Picks(x) ==
  IF SignalTargets(x.st, x.cur) = {} THEN {INVALID_THREAD} ELSE SignalTargets(x.st, x.cur)
ChoicesWith(x, g) == IF SignalTargets(x.st, x.cur) = {} THEN x.choices ELSE Append(x.choices, g)
Dead(x, g) ==
  [x EXCEPT !.st = Run(x.st, x.cur, g), !.choices = ChoicesWith(x, g),
            !.outcome = "program deadlock"]
Moved(x, g, c) ==
  [x EXCEPT !.st = Run(x.st, x.cur, g), !.cur = c, !.choices = Append(ChoicesWith(x, g), c),
            !.preempts = IF x.cur \in Run(x.st, x.cur, g).enabled /\ c # x.cur THEN @ + 1 ELSE @]

\* Extend is made of these cases.
LEMMA ExtendCases ==
  ASSUME NEW x, x.outcome = "running"
  PROVE  /\ Fails(x.st, x.cur) => Extend(x) = {[x EXCEPT !.outcome = "program assert"]}
         /\ ~Fails(x.st, x.cur) /\ Ends(x.st, x.cur) =>
              Extend(x) = {[x EXCEPT !.outcome = "end_log"]}
         /\ ~Fails(x.st, x.cur) /\ ~Ends(x.st, x.cur) =>
              \A z : z \in Extend(x) <=>
                \E g \in Picks(x) :
                  IF Run(x.st, x.cur, g).enabled = {} THEN z = Dead(x, g)
                  ELSE \E c \in Run(x.st, x.cur, g).enabled : z = Moved(x, g, c)
<1>1. /\ Fails(x.st, x.cur) => Extend(x) = {[x EXCEPT !.outcome = "program assert"]}
      /\ ~Fails(x.st, x.cur) /\ Ends(x.st, x.cur) =>
           Extend(x) = {[x EXCEPT !.outcome = "end_log"]}
  BY DEF Extend
<1> DEFINE F(g) == IF Run(x.st, x.cur, g).enabled = {} THEN {Dead(x, g)}
                   ELSE {Moved(x, g, c) : c \in Run(x.st, x.cur, g).enabled}
<1>2. ASSUME ~Fails(x.st, x.cur), ~Ends(x.st, x.cur)
      PROVE  Extend(x) = UNION {F(g) : g \in Picks(x)}
  BY <1>2 DEF Extend, Picks, ChoicesWith, Dead, Moved
<1>3. ASSUME ~Fails(x.st, x.cur), ~Ends(x.st, x.cur), NEW z
      PROVE  z \in Extend(x) <=> \E g \in Picks(x) : z \in F(g)
  <2> HIDE DEF F
  <2>1. QED
    BY <1>2, <1>3
<1>4. \A z, g : z \in F(g) <=> IF Run(x.st, x.cur, g).enabled = {} THEN z = Dead(x, g)
                ELSE \E c \in Run(x.st, x.cur, g).enabled : z = Moved(x, g, c)
  OBVIOUS
<1> HIDE DEF F
<1>5. QED
  BY <1>1, <1>3, <1>4

IsRun(x) ==
  x = [st |-> x.st, cur |-> x.cur, choices |-> x.choices, preempts |-> x.preempts,
       outcome |-> x.outcome]

\* Run x of the reference is the execution with decisions d and path p.
RunOf(x, prog, d, p) ==
  /\ d \in Seq(Decision) /\ Path(prog, d, p)
  /\ x.choices = buildSchedule(d) /\ x.preempts = calculatePreemptions(d)
  /\ IF x.outcome = "running"
       THEN /\ p[Len(d)] = Configuration(x.st, x.cur, INVALID_THREAD)
            /\ IsConfiguration(p[Len(d)], prog)
       ELSE EndsWith(p[Len(d)], x.outcome)

HasPath(x, prog) == IsRun(x) /\ \E d, p : RunOf(x, prog, d, p)

\* Path q of decisions e leads run x past its decision to signal g.
IsPicked(x, prog, g, e, q) ==
  /\ e \in Seq(Decision) /\ Path(prog, e, q)
  /\ ChoicesWith(x, g) = buildSchedule(e) /\ x.preempts = calculatePreemptions(e)
  /\ q[Len(e)] = Configuration(x.st, x.cur, g)
  /\ IsConfiguration(q[Len(e)], prog)
  /\ GoesOn(q[Len(e)]) /\ Signals(q[Len(e)]) = FALSE
  /\ Options(q[Len(e)]) = Run(x.st, x.cur, g).enabled

\* The decision on the signal, on the path of a run that goes on.
LEMMA PickStep ==
  ASSUME NEW x, NEW prog, NEW d, NEW p, x.outcome = "running", RunOf(x, prog, d, p),
         ~Fails(x.st, x.cur), ~Ends(x.st, x.cur), NEW g \in Picks(x)
  PROVE  \E e, q : IsPicked(x, prog, g, e, q)
<1> DEFINE y == Configuration(x.st, x.cur, INVALID_THREAD)
           z == Configuration(x.st, x.cur, g)
           T == SignalTargets(x.st, x.cur)
<1>1. /\ y.st = x.st /\ y.cur = x.cur /\ y.sig = INVALID_THREAD
      /\ z.st = x.st /\ z.cur = x.cur /\ z.sig = g
  BY DEF Configuration
<1>2. /\ d \in Seq(Decision) /\ Path(prog, d, p) /\ p[Len(d)] = y /\ IsConfiguration(y, prog)
      /\ x.choices = buildSchedule(d) /\ x.preempts = calculatePreemptions(d)
  BY DEF RunOf
<1>3. GoesOn(y) /\ GoesOn(z)
  BY <1>1 DEF GoesOn
<1>4. CASE T = {}
  <2>1. g = INVALID_THREAD /\ z = y /\ ChoicesWith(x, g) = x.choices
    BY <1>4 DEF Picks, ChoicesWith
  <2>2. Signals(y) = FALSE
    BY <1>1, <1>4 DEF Signals
  <2>3. Options(y) = Run(x.st, x.cur, g).enabled
    BY <1>1, <2>1, <2>2 DEF Options
  <2> HIDE DEF y, z
  <2>4. QED
    BY <1>2, <1>3, <2>1, <2>2, <2>3 DEF z, IsPicked
<1>5. CASE T # {}
  <2>1. g \in T /\ ChoicesWith(x, g) = Append(x.choices, g)
    BY <1>5 DEF Picks, ChoicesWith
  <2>2. Signals(y) /\ Options(y) = T
    BY <1>1, <1>5 DEF Signals, Options
  <2>3. g # INVALID_THREAD
    <3>1. T \in SUBSET Thread
      BY <1>2, <2>2, OptionsOf
    <3>2. g \in Nat
      BY <2>1, <3>1, ProgramAssumption DEF Thread
    <3>3. QED
      BY <3>2 DEF INVALID_THREAD
  <2>4. Signals(z) = FALSE /\ Options(z) = Run(x.st, x.cur, g).enabled
    BY <1>1, <2>3 DEF Signals, Options
  <2>5. After(y, g) = z
    BY <1>1, <2>2 DEF After
  <2>6. ~isPreempt(MadeAt(y, g))
    BY <2>2 DEF isPreempt, CallerEnabled, MadeAt
  <2> HIDE DEF y, z
  <2>7. PICK e, q : IsLonger(prog, d, y, g, e, q)
    BY <1>2, <1>3, <2>1, <2>2, Longer
  <2>8. /\ q[Len(e)] = z /\ buildSchedule(e) = ChoicesWith(x, g)
        /\ calculatePreemptions(e) = x.preempts
        /\ e \in Seq(Decision) /\ Path(prog, e, q) /\ IsConfiguration(q[Len(e)], prog)
    BY <1>2, <2>1, <2>5, <2>6, <2>7 DEF IsLonger
  <2>9. QED
    BY <1>3, <2>4, <2>8 DEF z, IsPicked
<1>6. QED
  BY <1>4, <1>5

\* A run of the reference has a path, and so has each that extends it.
LEMMA ExtendPath ==
  ASSUME NEW x, NEW prog, HasPath(x, prog), NEW z \in Extend(x)
  PROVE  HasPath(z, prog)
<1>1. PICK d, p : RunOf(x, prog, d, p)
  BY DEF HasPath
<1>2. IsRun(x)
  BY DEF HasPath
<1>3. CASE x.outcome # "running"
  <2>1. z = x
    BY <1>3 DEF Extend
  <2>2. QED
    BY <2>1
<1> DEFINE y == Configuration(x.st, x.cur, INVALID_THREAD)
<1>4. y.st = x.st /\ y.cur = x.cur
  BY DEF Configuration
<1>5. CASE x.outcome = "running" /\ (Fails(x.st, x.cur) \/ Ends(x.st, x.cur))
  <2> DEFINE o == IF Fails(x.st, x.cur) THEN "program assert" ELSE "end_log"
  <2>1. z = [x EXCEPT !.outcome = o]
    <3>1. CASE Fails(x.st, x.cur)
      BY <1>5, <3>1, ExtendCases
    <3>2. CASE ~Fails(x.st, x.cur)
      BY <1>5, <3>2, ExtendCases
    <3>3. QED
      BY <3>1, <3>2
  <2>2. EndsWith(y, o)
    BY <1>4, <1>5 DEF EndsWith, GoesOn
  <2>3. o # "running"
    OBVIOUS
  <2> HIDE DEF o
  <2>4. z = [st |-> x.st, cur |-> x.cur, choices |-> x.choices, preempts |-> x.preempts,
             outcome |-> o]
    BY <1>2, <2>1 DEF IsRun
  <2>5. /\ IsRun(z) /\ z.outcome = o /\ z.choices = x.choices /\ z.preempts = x.preempts
    BY <2>4 DEF IsRun
  <2>6. RunOf(z, prog, d, p)
    BY <1>1, <1>5, <2>2, <2>3, <2>5 DEF RunOf
  <2>7. QED
    BY <2>5, <2>6 DEF HasPath
<1>6. CASE x.outcome = "running" /\ ~Fails(x.st, x.cur) /\ ~Ends(x.st, x.cur)
  <2>1. PICK g \in Picks(x) :
               IF Run(x.st, x.cur, g).enabled = {} THEN z = Dead(x, g)
               ELSE \E c \in Run(x.st, x.cur, g).enabled : z = Moved(x, g, c)
    BY <1>6, ExtendCases
  <2> DEFINE s == Run(x.st, x.cur, g)
             w == Configuration(x.st, x.cur, g)
  <2>2. w.st = x.st /\ w.cur = x.cur /\ w.sig = g
    BY DEF Configuration
  <2>3. PICK e, q : /\ e \in Seq(Decision) /\ Path(prog, e, q)
                    /\ ChoicesWith(x, g) = buildSchedule(e)
                    /\ x.preempts = calculatePreemptions(e)
                    /\ q[Len(e)] = w /\ IsConfiguration(q[Len(e)], prog)
                    /\ GoesOn(q[Len(e)]) /\ Signals(q[Len(e)]) = FALSE
                    /\ Options(q[Len(e)]) = s.enabled
    <3>1. PICK e, q : IsPicked(x, prog, g, e, q)
      BY <1>1, <1>6, PickStep
    <3>2. QED
      BY <3>1 DEF IsPicked
  <2>4. CASE s.enabled = {}
    <3>1. z = Dead(x, g)
      BY <2>1, <2>4
    <3>2. z = [st |-> s, cur |-> x.cur, choices |-> ChoicesWith(x, g),
               preempts |-> x.preempts, outcome |-> "program deadlock"]
      BY <1>2, <3>1 DEF Dead, IsRun
    <3>3. /\ IsRun(z) /\ z.choices = ChoicesWith(x, g) /\ z.preempts = x.preempts
          /\ z.outcome = "program deadlock"
      BY <3>2 DEF IsRun
    <3>4. EndsWith(q[Len(e)], "program deadlock")
      BY <2>3, <2>4 DEF EndsWith, GoesOn
    <3>5. RunOf(z, prog, e, q)
      BY <2>3, <3>3, <3>4 DEF RunOf
    <3>6. QED
      BY <3>3, <3>5 DEF HasPath
  <2>5. CASE s.enabled # {}
    <3>1. PICK c \in s.enabled : z = Moved(x, g, c)
      BY <2>1, <2>5
    <3> DEFINE np == IF x.cur \in s.enabled /\ c # x.cur THEN x.preempts + 1 ELSE x.preempts
    <3>2. z = [st |-> s, cur |-> c, choices |-> Append(ChoicesWith(x, g), c),
               preempts |-> np, outcome |-> x.outcome]
      BY <1>2, <3>1 DEF Moved, IsRun
    <3>3. isPreempt(MadeAt(q[Len(e)], c)) <=> x.cur \in s.enabled /\ c # x.cur
      BY <2>2, <2>3 DEF isPreempt, CallerEnabled, MadeAt
    <3>4. After(q[Len(e)], c) = Configuration(s, c, INVALID_THREAD)
      BY <2>2, <2>3 DEF After
    <3>5. PICK f, r : IsLonger(prog, e, w, c, f, r)
      <4>1. c \in Options(w) /\ IsConfiguration(w, prog) /\ GoesOn(w)
        BY <2>3
      <4>2. QED
        BY <2>3, <4>1, Longer
    <3>6. calculatePreemptions(f) = np
      BY <2>3, <3>3, <3>5 DEF IsLonger
    <3> HIDE DEF np, s
    <3>7. /\ IsRun(z) /\ z.choices = Append(ChoicesWith(x, g), c) /\ z.preempts = np
          /\ z.outcome = "running" /\ z.st = s /\ z.cur = c
      BY <1>6, <3>2 DEF IsRun
    <3>8. RunOf(z, prog, f, r)
      BY <2>3, <3>4, <3>5, <3>6, <3>7 DEF RunOf, IsLonger
    <3>9. QED
      BY <3>7, <3>8 DEF HasPath
  <2>6. QED
    BY <2>4, <2>5
<1>7. QED
  BY <1>3, <1>5, <1>6

\* The choices of decisions.
LEMMA ChoicesOf ==
  ASSUME NEW d, d \in Seq(Decision)
  PROVE  /\ Len(d) \in Nat /\ Len(buildSchedule(d)) = Len(d) /\ buildSchedule(d) \in Seq(Thread)
         /\ \A j \in 1..Len(d) : buildSchedule(d)[j] = d[j].chosen
<1>1. Len(d) \in Nat /\ DOMAIN d = 1..Len(d) /\ \A j \in 1..Len(d) : d[j] \in Decision
  BY LenProperties, ElementOfSeq
<1>2. buildSchedule(d) = [j \in 1..Len(d) |-> d[j].chosen]
  BY <1>1 DEF buildSchedule
<1>3. QED
  BY <1>1, <1>2, IsASeq DEF Decision

\* A path whose choices an execution prolongs is the beginning of its path.
LEMMA Beginning ==
  ASSUME NEW prog, NEW bound \in Nat, NEW d, NEW p, NEW o, Execution(prog, bound, d, p, o),
         NEW e, NEW q, e \in Seq(Decision), Path(prog, e, q), Prolongs(d, e)
  PROVE  /\ calculatePreemptions(e) <= bound
         /\ GoesOn(q[Len(e)]) /\ Options(q[Len(e)]) # {} =>
              Len(e) < Len(d) /\ d[Len(e) + 1].chosen \in Options(q[Len(e)])
         /\ Len(e) < Len(d) => GoesOn(q[Len(e)]) /\ Options(q[Len(e)]) # {}
         /\ Len(e) < Len(d) \/ (Len(e) = Len(d) /\ EndsWith(q[Len(e)], o))
<1>1. /\ d \in Seq(Decision) /\ Path(prog, d, p) /\ EndsWith(p[Len(d)], o)
      /\ calculatePreemptions(d) <= bound
  BY DEF Execution
<1>2. /\ Len(d) \in Nat /\ Len(e) \in Nat /\ Len(e) <= Len(d)
      /\ DOMAIN d = 1..Len(d) /\ DOMAIN e = 1..Len(e)
      /\ \A j \in 1..Len(e) : d[j].chosen = e[j].chosen
  BY <1>1, LenProperties DEF Prolongs
<1>3. \A j \in 0..Len(e) : p[j] = q[j]
  BY <1>1, <1>2, SamePath
<1>4. p[Len(e)] = q[Len(e)]
  BY <1>2, <1>3
<1>5. calculatePreemptions(e) <= bound
  <2> DEFINE P(s) == {j \in DOMAIN s : isPreempt(s[j])}
  <2>1. ASSUME NEW j \in 1..Len(e)
        PROVE  j \in 1..Len(d) /\ (isPreempt(e[j]) => isPreempt(d[j]))
    <3>1. j \in 1..Len(d) /\ j - 1 \in 0..Len(e)
      BY <1>2
    <3>2. Leads(p[j - 1], d[j], p[j]) /\ Leads(q[j - 1], e[j], q[j]) /\ p[j - 1] = q[j - 1]
      BY <1>1, <1>3, <3>1 DEF Path
    <3>3. Agree(d[j], e[j])
      BY <1>2, <3>2 DEF Leads, Agree, MadeAt
    <3>4. QED
      BY <3>1, <3>3 DEF Agree, isPreempt, CallerEnabled
  <2>2. P(e) \subseteq P(d)
    BY <1>2, <2>1
  <2>3. IsFiniteSet(P(d))
    <3>1. IsFiniteSet(1..Len(d)) /\ P(d) \subseteq 1..Len(d)
      BY <1>2, FS_Interval
    <3>2. QED
      BY <3>1, FS_Subset
  <2> DEFINE ke == Cardinality(P(e))
             kd == Cardinality(P(d))
  <2>4. IsFiniteSet(P(e))
    BY <2>2, <2>3, FS_Subset
  <2>5. ke <= kd /\ ke \in Nat /\ kd \in Nat /\ kd <= bound
    BY <1>1, <2>2, <2>3, <2>4, FS_Subset, FS_CardinalityType DEF calculatePreemptions
  <2> HIDE DEF ke, kd
  <2>6. ke <= bound
    BY <2>5
  <2>7. QED
    BY <2>6 DEF ke, calculatePreemptions
<1>6. ASSUME Len(e) < Len(d)
      PROVE  /\ GoesOn(q[Len(e)]) /\ Options(q[Len(e)]) # {}
             /\ d[Len(e) + 1].chosen \in Options(q[Len(e)])
  <2>1. Len(e) + 1 \in 1..Len(d) /\ (Len(e) + 1) - 1 = Len(e)
    BY <1>2, <1>6
  <2>2. Leads(p[Len(e)], d[Len(e) + 1], p[Len(e) + 1])
    BY <1>1, <2>1 DEF Path
  <2>3. QED
    BY <1>4, <2>2 DEF Leads
<1>7. Len(e) < Len(d) \/ Len(e) = Len(d)
  <2>1. \A a, b \in Nat : a <= b => a < b \/ a = b
    OBVIOUS
  <2>2. Len(d) \in Nat /\ Len(e) \in Nat /\ Len(e) <= Len(d)
    BY <1>2
  <2>3. QED
    BY <2>1, <2>2
<1>8. ASSUME Len(e) = Len(d)
      PROVE  EndsWith(q[Len(e)], o)
  <2>1. EndsWith(p[Len(e)], o)
    BY <1>1, <1>8
  <2>2. QED
    BY <1>4, <2>1
<1>9. ASSUME GoesOn(q[Len(e)]), Options(q[Len(e)]) # {}
      PROVE  Len(e) < Len(d) /\ d[Len(e) + 1].chosen \in Options(q[Len(e)])
  BY <1>6, <1>7, <1>8, <1>9 DEF EndsWith
<1>10. QED
  BY <1>5, <1>6, <1>7, <1>8, <1>9

\* The choices of run x are the first ones of d.
Tracks(x, d) ==
  /\ x.choices \in Seq(Thread) /\ Len(x.choices) <= Len(d)
  /\ \A j \in 1..Len(x.choices) : x.choices[j] = d[j].chosen

\* A choice more of those of d.
LEMMA ChoiceMore ==
  ASSUME NEW d, d \in Seq(Decision), NEW c, c \in Seq(Thread), Len(c) < Len(d),
         \A j \in 1..Len(c) : c[j] = d[j].chosen
  PROVE  /\ Append(c, d[Len(c) + 1].chosen) \in Seq(Thread)
         /\ Len(Append(c, d[Len(c) + 1].chosen)) <= Len(d)
         /\ \A j \in 1..Len(Append(c, d[Len(c) + 1].chosen)) :
              Append(c, d[Len(c) + 1].chosen)[j] = d[j].chosen
<1> DEFINE n == Len(c)
           a == Append(c, d[n + 1].chosen)
<1>1. n \in Nat /\ Len(d) \in Nat /\ n + 1 \in 1..Len(d)
  BY LenProperties
<1>2. d[n + 1].chosen \in Thread
  <2>1. d[n + 1] \in Decision
    BY <1>1, ElementOfSeq
  <2>2. QED
    BY <2>1 DEF Decision
<1>3. /\ a \in Seq(Thread) /\ Len(a) = n + 1
      /\ \A j \in 1..n : a[j] = c[j]
      /\ a[n + 1] = d[n + 1].chosen
  BY <1>1, <1>2, AppendProperties
<1>4. \A j \in 1..(n + 1) : j = n + 1 \/ j \in 1..n
  BY <1>1
<1> HIDE DEF a
<1>5. \A j \in 1..(n + 1) : a[j] = d[j].chosen
  BY <1>3, <1>4
<1>6. QED
  BY <1>1, <1>3, <1>5 DEF a

\* A run that has made the first choices of an execution extends to one that
\* has made more of them, or has come to the same end.
LEMMA TrackStep ==
  ASSUME NEW prog, NEW bound \in Nat, NEW d, NEW p, NEW o, Execution(prog, bound, d, p, o),
         NEW x, HasPath(x, prog), Tracks(x, d), x.preempts <= bound
  PROVE  \E z \in Extend(x) : Tracks(z, d) /\ z.preempts <= bound
<1>1. PICK e, q : RunOf(x, prog, e, q)
  BY DEF HasPath
<1>2. IsRun(x) /\ d \in Seq(Decision)
  BY DEF HasPath, Execution
<1>3. CASE x.outcome # "running"
  <2>1. x \in Extend(x)
    BY <1>3 DEF Extend
  <2>2. QED
    BY <2>1
<1>4. CASE x.outcome = "running" /\ (Fails(x.st, x.cur) \/ Ends(x.st, x.cur))
  <2> DEFINE r == IF Fails(x.st, x.cur) THEN "program assert" ELSE "end_log"
             z == [x EXCEPT !.outcome = r]
  <2>1. z \in Extend(x)
    <3>1. CASE Fails(x.st, x.cur)
      BY <1>4, <3>1, ExtendCases
    <3>2. CASE ~Fails(x.st, x.cur)
      BY <1>4, <3>2, ExtendCases
    <3>3. QED
      BY <3>1, <3>2
  <2> HIDE DEF r
  <2>2. z.choices = x.choices /\ z.preempts = x.preempts
    BY <1>2 DEF IsRun
  <2>3. QED
    BY <2>1, <2>2 DEF Tracks
<1>5. CASE x.outcome = "running" /\ ~Fails(x.st, x.cur) /\ ~Ends(x.st, x.cur)
  <2>1. SUFFICES \E z \in Extend(x) : Tracks(z, d)
    <3>1. PICK z \in Extend(x) : Tracks(z, d)
      BY <2>1
    <3>2. HasPath(z, prog)
      BY ExtendPath
    <3>3. PICK f, r : RunOf(z, prog, f, r)
      BY <3>2 DEF HasPath
    <3>4. /\ f \in Seq(Decision) /\ Path(prog, f, r) /\ z.choices = buildSchedule(f)
          /\ z.preempts = calculatePreemptions(f)
      BY <3>3 DEF RunOf
    <3>5. Prolongs(d, f)
      <4>1. /\ Len(f) \in Nat /\ Len(buildSchedule(f)) = Len(f)
            /\ \A j \in 1..Len(f) : buildSchedule(f)[j] = f[j].chosen
        BY <3>4, ChoicesOf
      <4>2. Len(d) \in Nat
        BY <1>2, ChoicesOf
      <4>3. QED
        BY <3>1, <3>4, <4>1, <4>2 DEF Tracks, Prolongs
    <3>6. calculatePreemptions(f) <= bound
      BY <3>4, <3>5, Beginning
    <3>7. QED
      BY <3>1, <3>4, <3>6
  <2> DEFINE T == SignalTargets(x.st, x.cur)
             y == Configuration(x.st, x.cur, INVALID_THREAD)
  <2>2. y.st = x.st /\ y.cur = x.cur /\ y.sig = INVALID_THREAD
    BY DEF Configuration
  <2>3. /\ e \in Seq(Decision) /\ Path(prog, e, q) /\ q[Len(e)] = y
        /\ x.choices = buildSchedule(e) /\ Len(e) \in Nat /\ Len(x.choices) = Len(e)
        /\ Len(d) \in Nat
    BY <1>1, <1>2, <1>5, ChoicesOf DEF RunOf
  <2>4. Prolongs(d, e)
    <3>1. \A j \in 1..Len(e) : buildSchedule(e)[j] = e[j].chosen
      BY <2>3, ChoicesOf
    <3>2. QED
      BY <2>3, <3>1 DEF Tracks, Prolongs
  <2>5. GoesOn(y)
    BY <1>5, <2>2 DEF GoesOn
  <2>6. \E g \in Picks(x) : /\ ChoicesWith(x, g) \in Seq(Thread)
                            /\ Len(ChoicesWith(x, g)) <= Len(d)
                            /\ \A j \in 1..Len(ChoicesWith(x, g)) :
                                 ChoicesWith(x, g)[j] = d[j].chosen
    <3>1. CASE T = {}
      <4>1. INVALID_THREAD \in Picks(x) /\ ChoicesWith(x, INVALID_THREAD) = x.choices
        BY <3>1 DEF Picks, ChoicesWith
      <4>2. QED
        BY <4>1 DEF Tracks
    <3>2. CASE T # {}
      <4> DEFINE g == d[Len(e) + 1].chosen
      <4>1. Signals(y) /\ Options(y) = T
        BY <2>2, <3>2 DEF Signals, Options
      <4>2. Len(e) < Len(d) /\ g \in T
        <5>1. GoesOn(q[Len(e)]) /\ Options(q[Len(e)]) = T /\ Options(q[Len(e)]) # {}
          BY <2>3, <2>5, <3>2, <4>1
        <5>2. Len(e) < Len(d) /\ d[Len(e) + 1].chosen \in Options(q[Len(e)])
          BY <2>3, <2>4, <5>1, Beginning
        <5>3. QED
          BY <5>1, <5>2
      <4>3. g \in Picks(x) /\ ChoicesWith(x, g) = Append(x.choices, d[Len(x.choices) + 1].chosen)
        BY <2>3, <3>2, <4>2 DEF Picks, ChoicesWith
      <4>4. /\ x.choices \in Seq(Thread) /\ Len(x.choices) < Len(d)
            /\ \A j \in 1..Len(x.choices) : x.choices[j] = d[j].chosen
        BY <2>3, <4>2 DEF Tracks
      <4> HIDE DEF g
      <4>5. /\ ChoicesWith(x, g) \in Seq(Thread)
            /\ Len(ChoicesWith(x, g)) <= Len(d)
            /\ \A j \in 1..Len(ChoicesWith(x, g)) : ChoicesWith(x, g)[j] = d[j].chosen
        BY <1>2, <4>3, <4>4, ChoiceMore
      <4>6. QED
        BY <4>3, <4>5
    <3>3. QED
      BY <3>1, <3>2
  <2>7. PICK g \in Picks(x) : /\ ChoicesWith(x, g) \in Seq(Thread)
                              /\ Len(ChoicesWith(x, g)) <= Len(d)
                              /\ \A j \in 1..Len(ChoicesWith(x, g)) :
                                   ChoicesWith(x, g)[j] = d[j].chosen
    BY <2>6
  <2> DEFINE s == Run(x.st, x.cur, g)
             ch == ChoicesWith(x, g)
  <2>8. PICK f, r : IsPicked(x, prog, g, f, r)
    BY <1>1, <1>5, PickStep
  <2>9. /\ f \in Seq(Decision) /\ Path(prog, f, r) /\ ch = buildSchedule(f)
        /\ GoesOn(r[Len(f)]) /\ Options(r[Len(f)]) = s.enabled
        /\ Len(f) \in Nat /\ Len(ch) = Len(f)
        /\ \A j \in 1..Len(f) : buildSchedule(f)[j] = f[j].chosen
    BY <2>8, ChoicesOf DEF IsPicked
  <2>10. Prolongs(d, f)
    BY <2>3, <2>7, <2>9 DEF Prolongs
  <2>11. CASE s.enabled = {}
    <3>1. Dead(x, g) \in Extend(x)
      BY <1>5, <2>11, ExtendCases
    <3>2. Dead(x, g).choices = ch
      BY <1>2 DEF Dead, IsRun
    <3>3. QED
      BY <2>7, <3>1, <3>2 DEF Tracks
  <2>12. CASE s.enabled # {}
    <3> DEFINE c == d[Len(f) + 1].chosen
    <3>1. Len(f) < Len(d) /\ c \in s.enabled
      <4>1. GoesOn(r[Len(f)]) /\ Options(r[Len(f)]) # {}
        BY <2>9, <2>12
      <4>2. Len(f) < Len(d) /\ d[Len(f) + 1].chosen \in Options(r[Len(f)])
        BY <2>9, <2>10, <4>1, Beginning
      <4>3. QED
        BY <2>9, <4>2
    <3>2. Moved(x, g, c) \in Extend(x)
      BY <1>5, <2>12, <3>1, ExtendCases
    <3>3. Moved(x, g, c).choices = Append(ch, c)
      BY <1>2 DEF Moved, IsRun
    <3>4. c = d[Len(ch) + 1].chosen /\ Len(ch) < Len(d)
      BY <2>9, <3>1
    <3> HIDE DEF c, ch
    <3>5. /\ Append(ch, c) \in Seq(Thread)
          /\ Len(Append(ch, c)) <= Len(d)
          /\ \A j \in 1..Len(Append(ch, c)) : Append(ch, c)[j] = d[j].chosen
      <4>1. ch \in Seq(Thread) /\ \A j \in 1..Len(ch) : ch[j] = d[j].chosen
        BY <2>7 DEF ch
      <4>2. QED
        BY <1>2, <3>4, <4>1, ChoiceMore
    <3>6. Tracks(Moved(x, g, c), d)
      BY <3>3, <3>5 DEF Tracks
    <3>7. QED
      BY <3>2, <3>6
  <2>13. QED
    BY <2>11, <2>12
<1>6. QED
  BY <1>3, <1>4, <1>5

\* The runs of the reference at each depth.
LEMMA ReachedSets ==
  ASSUME NEW prog, NEW bound
  PROVE  /\ Reached(prog, bound)[0] = {Begun(prog)}
         /\ \A n \in 1..MaxDepth :
              Reached(prog, bound)[n] = Onward(bound, Reached(prog, bound)[n - 1])
<1> DEFINE f == Reached(prog, bound)
<1>1. f = [n \in 0..MaxDepth |-> IF n = 0 THEN {Begun(prog)} ELSE Onward(bound, f[n - 1])]
  BY ReachedIs DEF IsReached
<1>2. 0 \in 0..MaxDepth /\ \A n \in 1..MaxDepth : n \in 0..MaxDepth /\ n # 0
  BY ChessAssumption
<1> HIDE DEF f
<1>3. f[0] = {Begun(prog)}
  BY <1>1, <1>2
<1>4. ASSUME NEW n \in 1..MaxDepth PROVE f[n] = Onward(bound, f[n - 1])
  BY <1>1, <1>2
<1>5. QED
  BY <1>3, <1>4 DEF f

\* The first run of the reference.
LEMMA BegunRun ==
  ASSUME NEW prog
  PROVE  /\ HasPath(Begun(prog), prog) /\ Begun(prog).preempts = 0
         /\ Begun(prog).choices = <<>>
<1> DEFINE p == [i \in {0} |-> Start(prog)]
           x == Begun(prog)
<1>1. /\ IsRun(x) /\ x.st = Initial(prog) /\ x.cur = Main /\ x.choices = <<>> /\ x.preempts = 0
      /\ x.outcome = "running"
  BY DEF Begun, IsRun
<1>2. Path(prog, <<>>, p) /\ p[0] = Start(prog)
  BY DEF Path
<1>3. IsConfiguration(Start(prog), prog)
  <2>1. StateOf(Initial(prog), prog)
    BY InitialState
  <2>2. Main \in Thread
    BY ProgramAssumption DEF Main, Thread
  <2>3. QED
    BY <2>1, <2>2 DEF Start, IsConfiguration, Configuration
<1>4. buildSchedule(<<>>) = <<>> /\ <<>> \in Seq(Decision) /\ Len(<<>>) = 0
  BY DEF buildSchedule
<1>5. calculatePreemptions(<<>>) = 0
  <2>1. {i \in DOMAIN <<>> : isPreempt(<<>>[i])} = {}
    OBVIOUS
  <2>2. QED
    BY <2>1, FS_EmptySet DEF calculatePreemptions
<1>6. Start(prog) = Configuration(x.st, x.cur, INVALID_THREAD)
  BY <1>1 DEF Start
<1> HIDE DEF p, x
<1>7. RunOf(x, prog, <<>>, p)
  BY <1>1, <1>2, <1>3, <1>4, <1>5, <1>6 DEF RunOf
<1>8. QED
  BY <1>1, <1>7 DEF HasPath, x

\* Every run of the reference has a path and is within the bound.
LEMMA ReachedPaths ==
  ASSUME NEW prog, NEW bound \in Nat, NEW n \in 0..MaxDepth
  PROVE  \A x \in Reached(prog, bound)[n] : HasPath(x, prog) /\ x.preempts <= bound
<1> DEFINE R == Reached(prog, bound)
           Bad(k) == ~\A x \in R[k] : HasPath(x, prog) /\ x.preempts <= bound
           S == {k \in 0..MaxDepth : Bad(k)}
<1>1. SUFFICES ASSUME S # {} PROVE FALSE
  OBVIOUS
<1>2. PICK k \in S : \A j \in S : k <= j
  <2>1. S \in SUBSET Nat
    OBVIOUS
  <2>2. QED
    BY <1>1, <2>1, LeastNatural
<1>3. k \in 0..MaxDepth /\ Bad(k)
  BY <1>2
<1> HIDE DEF R
<1>4. /\ R[0] = {Begun(prog)}
      /\ \A j \in 1..MaxDepth : R[j] = Onward(bound, R[j - 1])
  BY ReachedSets DEF R
<1>5. CASE k = 0
  BY <1>3, <1>4, <1>5, BegunRun
<1>6. CASE k # 0
  <2>1. k \in 1..MaxDepth /\ k - 1 \in 0..MaxDepth /\ ~(k <= k - 1)
    BY <1>3, <1>6, ChessAssumption
  <2>2. k - 1 \notin S
    BY <1>2, <2>1
  <2>3. \A x \in R[k - 1] : HasPath(x, prog)
    BY <2>1, <2>2
  <2>4. ASSUME NEW z \in R[k]
        PROVE  HasPath(z, prog) /\ z.preempts <= bound
    <3>1. z \in Onward(bound, R[k - 1])
      BY <1>4, <2>1
    <3>2. PICK x \in R[k - 1] : z \in Extend(x) /\ z.preempts <= bound
      BY <3>1 DEF Onward
    <3>3. HasPath(x, prog)
      BY <2>3
    <3>4. QED
      BY <3>2, <3>3, ExtendPath
  <2>5. QED
    BY <1>3, <2>4
<1>7. QED
  BY <1>5, <1>6

\* Every execution within the bound is tracked by a run of the reference.
LEMMA ReachedTracks ==
  ASSUME NEW prog, NEW bound \in Nat, NEW d, NEW p, NEW o, Execution(prog, bound, d, p, o),
         NEW n \in 0..MaxDepth
  PROVE  \E x \in Reached(prog, bound)[n] : Tracks(x, d)
<1> DEFINE R == Reached(prog, bound)
           S == {k \in 0..MaxDepth : ~\E x \in R[k] : Tracks(x, d)}
<1>1. SUFFICES ASSUME S # {} PROVE FALSE
  OBVIOUS
<1>2. PICK k \in S : \A j \in S : k <= j
  <2>1. S \in SUBSET Nat
    OBVIOUS
  <2>2. QED
    BY <1>1, <2>1, LeastNatural
<1>3. k \in 0..MaxDepth /\ ~\E x \in R[k] : Tracks(x, d)
  BY <1>2
<1> HIDE DEF R
<1>4. /\ R[0] = {Begun(prog)}
      /\ \A j \in 1..MaxDepth : R[j] = Onward(bound, R[j - 1])
  BY ReachedSets DEF R
<1>5. CASE k = 0
  <2>1. Len(d) \in Nat /\ Begun(prog).choices = <<>>
    BY BegunRun, LenProperties DEF Execution
  <2>2. <<>> \in Seq(Thread) /\ Len(<<>>) = 0
    OBVIOUS
  <2>3. Tracks(Begun(prog), d)
    BY <2>1, <2>2 DEF Tracks
  <2>4. QED
    BY <1>3, <1>4, <1>5, <2>3
<1>6. CASE k # 0
  <2>1. k \in 1..MaxDepth /\ k - 1 \in 0..MaxDepth /\ ~(k <= k - 1)
    BY <1>3, <1>6, ChessAssumption
  <2>2. k - 1 \notin S
    BY <1>2, <2>1
  <2>3. PICK x \in R[k - 1] : Tracks(x, d)
    BY <2>1, <2>2
  <2>4. HasPath(x, prog) /\ x.preempts <= bound
    BY <2>1, ReachedPaths DEF R
  <2>5. PICK z \in Extend(x) : Tracks(z, d) /\ z.preempts <= bound
    BY <2>3, <2>4, TrackStep
  <2>6. z \in R[k]
    BY <1>4, <2>1, <2>5 DEF Onward
  <2>7. QED
    BY <1>3, <2>5, <2>6
<1>7. QED
  BY <1>5, <1>6

\* MaxDepth is not reached: every execution of the program within the bound
\* has ended after MaxDepth scheduling points.
EndInTime == \A x \in Executions(st.prog, preemption_bound) : x.outcome # "running"

\* The reference has the executions within the bound, and no other.
LEMMA ReferenceExact ==
  ASSUME preemption_bound \in Nat, EndInTime, NEW c, NEW o
  PROVE  (\E x \in Executions(st.prog, preemption_bound) : x.choices = c /\ x.outcome = o)
           <=> \E d, p : Execution(st.prog, preemption_bound, d, p, o) /\ c = buildSchedule(d)
<1>1. MaxDepth \in 0..MaxDepth
  BY ChessAssumption
<1>2. ASSUME NEW x \in Executions(st.prog, preemption_bound), x.choices = c, x.outcome = o
      PROVE  \E d, p : Execution(st.prog, preemption_bound, d, p, o) /\ c = buildSchedule(d)
  <2>1. HasPath(x, st.prog) /\ x.preempts <= preemption_bound
    BY <1>1, ReachedPaths DEF Executions
  <2>2. x.outcome # "running"
    BY DEF EndInTime
  <2>3. PICK d, p : RunOf(x, st.prog, d, p)
    BY <2>1 DEF HasPath
  <2>4. Execution(st.prog, preemption_bound, d, p, o) /\ c = buildSchedule(d)
    BY <1>2, <2>1, <2>2, <2>3 DEF RunOf, Execution
  <2>5. QED
    BY <2>4
<1>3. ASSUME NEW d, NEW p, Execution(st.prog, preemption_bound, d, p, o), c = buildSchedule(d)
      PROVE  \E x \in Executions(st.prog, preemption_bound) : x.choices = c /\ x.outcome = o
  <2>1. PICK x \in Executions(st.prog, preemption_bound) : Tracks(x, d)
    BY <1>1, <1>3, ReachedTracks DEF Executions
  <2>2. HasPath(x, st.prog) /\ x.outcome # "running"
    BY <1>1, ReachedPaths DEF Executions, EndInTime
  <2>3. PICK e, q : RunOf(x, st.prog, e, q)
    BY <2>2 DEF HasPath
  <2>4. /\ e \in Seq(Decision) /\ Path(st.prog, e, q) /\ x.choices = buildSchedule(e)
        /\ EndsWith(q[Len(e)], x.outcome)
    BY <2>2, <2>3 DEF RunOf
  <2>5. /\ Len(e) \in Nat /\ Len(buildSchedule(e)) = Len(e)
        /\ \A j \in 1..Len(e) : buildSchedule(e)[j] = e[j].chosen
    BY <2>4, ChoicesOf
  <2>6. d \in Seq(Decision) /\ Len(d) \in Nat /\ DOMAIN d = 1..Len(d) /\ DOMAIN e = 1..Len(e)
    BY <1>3, <2>4, LenProperties DEF Execution
  <2>7. Prolongs(d, e)
    BY <2>1, <2>4, <2>5, <2>6 DEF Tracks, Prolongs
  <2>8. Len(e) = Len(d) /\ x.outcome = o
    <3>1. /\ Execution(st.prog, preemption_bound, d, p, o)
          /\ e \in Seq(Decision) /\ Path(st.prog, e, q) /\ EndsWith(q[Len(e)], x.outcome)
      BY <1>3, <2>4
    <3>2. /\ Len(e) < Len(d) => GoesOn(q[Len(e)]) /\ Options(q[Len(e)]) # {}
          /\ Len(e) < Len(d) \/ (Len(e) = Len(d) /\ EndsWith(q[Len(e)], o))
      BY <2>7, <3>1, Beginning
    <3>3. GoesOn(q[Len(e)]) => Options(q[Len(e)]) = {}
      BY <3>1 DEF EndsWith
    <3>4. Len(e) = Len(d) /\ EndsWith(q[Len(e)], o)
      BY <3>2, <3>3
    <3>5. x.outcome = o
      BY <3>1, <3>4 DEF EndsWith
    <3>6. QED
      BY <3>4, <3>5
  <2>9. buildSchedule(e) = buildSchedule(d)
    <3>1. \A j \in 1..Len(e) : d[j].chosen = e[j].chosen
      BY <2>7 DEF Prolongs
    <3>2. DOMAIN d = 1..Len(e) /\ DOMAIN e = 1..Len(e)
      BY <2>6, <2>8
    <3>3. QED
      BY <3>1, <3>2 DEF buildSchedule
  <2>10. QED
    BY <1>3, <2>4, <2>8, <2>9
<1>4. QED
  BY <1>2, <1>3

\* When the search is complete it has run the executions within the bound, and
\* no other.
LEMMA CompleteExact ==
  ASSUME ExhaustInv, phase = "complete", NEW c, NEW o
  PROVE  (\E h \in history : h.choices = c /\ h.outcome = o)
           <=> \E d, p : Execution(st.prog, preemption_bound, d, p, o) /\ c = buildSchedule(d)
<1>1. ASSUME NEW h \in history, h.choices = c, h.outcome = o
      PROVE  \E d, p : Execution(st.prog, preemption_bound, d, p, o) /\ c = buildSchedule(d)
  BY <1>1 DEF ExhaustInv, Sound
<1>2. ASSUME NEW d, NEW p, Execution(st.prog, preemption_bound, d, p, o), c = buildSchedule(d)
      PROVE  \E h \in history : h.choices = c /\ h.outcome = o
  BY <1>2 DEF ExhaustInv, Covered, Ran
<1>3. QED
  BY <1>1, <1>2

\* The invariant implies that a complete search is exhaustive.
LEMMA InvExhaustive ==
  ASSUME ExhaustInv
  PROVE  EndInTime => SearchExhaustive
<1>1. SUFFICES ASSUME EndInTime, phase = "complete"
               PROVE  /\ {<<h.choices, h.outcome>> : h \in history}
                           = {<<x.choices, x.outcome>> : x \in Executions(st.prog, preemption_bound)}
                      /\ ErrorsReported
  BY DEF SearchExhaustive, ErrorsReported
<1> DEFINE E == Executions(st.prog, preemption_bound)
<1>2. preemption_bound \in Nat
  BY DEF ExhaustInv, SearchInv
<1>3. ASSUME NEW c, NEW o
      PROVE  (\E h \in history : h.choices = c /\ h.outcome = o)
               <=> (\E x \in E : x.choices = c /\ x.outcome = o)
  BY <1>1, <1>2, CompleteExact, ReferenceExact
<1> HIDE DEF E
<1>4. ASSUME NEW h \in history
      PROVE  \E x \in E : <<h.choices, h.outcome>> = <<x.choices, x.outcome>>
  BY <1>3
<1>5. ASSUME NEW x \in E
      PROVE  \E h \in history : <<h.choices, h.outcome>> = <<x.choices, x.outcome>>
  BY <1>3
<1>6. {<<h.choices, h.outcome>> : h \in history} = {<<x.choices, x.outcome>> : x \in E}
  BY <1>4, <1>5
<1>7. QED
  BY <1>6 DEF ExhaustInv, E

\* SearchExhaustive, for every number of threads, bound and program in which no
\* thread yields twice (YieldAssumption): a search that says it is complete has
\* run every schedule with at most preemption_bound preemptions, and no other,
\* provided MaxDepth scheduling points are enough for the reference to compute
\* them.
THEOREM SearchIsExhaustive == Spec => [](EndInTime => SearchExhaustive)
BY ExhaustInvariant, InvExhaustive, PTL

=============================================================================
