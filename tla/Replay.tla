------------------------------- MODULE Replay --------------------------------
(***************************************************************************)
(* Logger and RelaxedLogger with the trackers that follow a log: a program *)
(* runs under a recording tracker, which may schedule any enabled thread,  *)
(* and its log is replayed by one of                                       *)
(*   default   ExecutionTracker: follows the log, or a prefix of it, then  *)
(*             schedules the lowest enabled thread;                        *)
(*   strict    StrictTracker: must not run past the end of the log;        *)
(*   relaxed, tester, addr, dfail                                          *)
(*             the trackers of relaxed schedules, which Tinertia's         *)
(*             Schedule makes of a log (outputRelaxedSchedule) and edits.  *)
(***************************************************************************)
EXTENDS SerialProgram, SequencesExt

CONSTANTS
  Programs,           \* the programs that are recorded and replayed
  MaxSwitches         \* bound: a recording with as many switches preempts no more

\* Calls have addresses, and a signal is of a condition variable.
IsCode(ops) ==
  /\ ops \in Seq({ops[i] : i \in DOMAIN ops})
  /\ \A i \in DOMAIN ops : ops[i].at \in Nat /\ (ops[i].op = "signal" => ops[i].obj \in Cond)

ASSUME ReplayAssumption ==
  /\ MaxSwitches \in Nat /\ NULL \notin Cond
  /\ \A p \in Programs : \A t \in Thread : IsCode(p[t])

VARIABLES
  phase,              \* "record" or "replay"
  tracker,            \* the tracker of the phase
  st, cur,            \* the state of the program, the thread with the baton
  outcome,            \* "running", or how the process ended
  schedule,           \* Logger: the decisions of this process
  read_schedule,      \* Logger: the decisions still to follow
  relaxed_schedule,   \* RelaxedLogger: the intervals still to follow
  rel,                \* RelaxedTracker: the interval being followed
  startSynchro,       \* StrictTracker
  scheduleAll,        \* Logger: memory accesses are scheduling points
  file,               \* the log the recording left
  edited              \* the replay follows a part of the log only

logVars == <<schedule, read_schedule, relaxed_schedule, rel, startSynchro>>
vars == <<phase, tracker, st, cur, outcome, logVars, scheduleAll, file, edited>>

RelaxedTrackers == {"relaxed", "tester", "addr", "dfail"}
AddrTrackers == {"addr", "dfail"}
UNKNOWN_THREAD == -2
NoAddr == -1

NoInterval == [current |-> UNKNOWN_THREAD, max |-> 0, addr |-> NoAddr, pass |-> 0,
               signals |-> <<>>, timesScheduled |-> 0]

-----------------------------------------------------------------------------
(***************************************************************************)
(* DecisionInfo, and outputRelaxedSchedule: one interval per run of        *)
(* decisions for one thread, ended by the pass-th visit to an address.     *)
(***************************************************************************)
ScheduleDecisionInfo(chosen, caller, id) ==
  [kind |-> "SCHED", chosen |-> chosen, caller |-> caller, idaddr |-> id]
SignalDecisionInfo(chosen, caller, id) ==
  [kind |-> "SIGNAL", chosen |-> chosen, caller |-> caller, idaddr |-> id]

Interval(thread, times, addr, pass, signals) ==
  [current |-> thread, max |-> times, addr |-> addr, pass |-> pass,
   signals |-> signals, timesScheduled |-> 0]

Visits(seen, id) == Cardinality({i \in DOMAIN seen : seen[i] = id})

\* What outputRelaxedSchedule has put out, and what it has seen since.
NothingSeen == [out |-> <<>>, times |-> 0, seen |-> <<>>, signals |-> <<>>]

\* Mutant: the interval may be left one visit late.
RelaxedStep_CountsSwitch(a, d) ==
  IF d.kind = "SIGNAL" THEN [a EXCEPT !.signals = Append(@, d.chosen)]
  ELSE IF d.chosen = d.caller THEN [a EXCEPT !.times = @ + 1, !.seen = Append(@, d.idaddr)]
  ELSE [NothingSeen EXCEPT !.times = 1,
          !.out = Append(a.out, Interval(d.caller, a.times + 1, d.idaddr,
                                         Visits(a.seen, d.idaddr) + 1, a.signals))]

\* One round of its loop, for decision d.
RelaxedStep(a, d) ==
  IF d.kind = "SIGNAL" THEN [a EXCEPT !.signals = Append(@, d.chosen)]
  ELSE IF d.chosen = d.caller THEN [a EXCEPT !.times = @ + 1, !.seen = Append(@, d.idaddr)]
  ELSE [NothingSeen EXCEPT !.times = 1,
          !.out = Append(a.out, Interval(d.caller, a.times, d.idaddr,
                                         Visits(a.seen, d.idaddr), a.signals))]

\* What it has after n decisions.
Summary(log) ==
  LET after[n \in 0..Len(log)] ==
        IF n = 0 THEN NothingSeen ELSE RelaxedStep(after[n - 1], log[n])
  IN  after

outputRelaxedSchedule(log) ==
  LET a == Summary(log)[Len(log)]
  IN  Append(a.out, Interval(Last(log).chosen, a.times, NoAddr, 0, a.signals))

-----------------------------------------------------------------------------
(***************************************************************************)
(* Whom a pthread_cond_signal wakes: the choices [target, read, signals],  *)
(* target INVALID_THREAD where an assertion fails.                         *)
(***************************************************************************)
Lowest(S) == CHOOSE t \in S : \A u \in S : t <= u

\* selectThreadWaitingOnCond of the trackers.
selectThreadWaitingOnCond(waiting) ==
  IF tracker \in AddrTrackers \cup {"recorder"} THEN waiting ELSE {Lowest(waiting)}

OnCondOrInvalid(t, waiting) == IF t \in waiting THEN t ELSE INVALID_THREAD

\* Mutant: AddrTracker insists on the choice of the schedule.
signalChoices_AddrStrict(waiting) ==
  IF tracker \in RelaxedTrackers
    THEN IF rel.signals = <<>>
           THEN {[target |-> t, read |-> read_schedule, signals |-> <<>>] : t \in selectThreadWaitingOnCond(waiting)}
           ELSE {[target |-> OnCondOrInvalid(Head(rel.signals), waiting),
                  read |-> read_schedule, signals |-> Tail(rel.signals)]}
    ELSE IF read_schedule = <<>>
           THEN {[target |-> t, read |-> <<>>, signals |-> <<>>] : t \in selectThreadWaitingOnCond(waiting)}
           ELSE {[target |-> OnCondOrInvalid(Head(read_schedule).chosen, waiting),
                  read |-> Tail(read_schedule), signals |-> <<>>]}

\* getNextSignalChoice: the next choice of the log, whatever its kind, or of
\* the interval.  AddrTracker passes over threads that do not wait.
signalChoices(waiting) ==
  IF tracker \in RelaxedTrackers
    THEN LET usable == {i \in DOMAIN rel.signals : rel.signals[i] \in waiting}
         IN  IF rel.signals = <<>> \/ (tracker \in AddrTrackers /\ usable = {})
               THEN {[target |-> t, read |-> read_schedule, signals |-> <<>>] :
                       t \in selectThreadWaitingOnCond(waiting)}
             ELSE LET i == IF tracker \in AddrTrackers THEN Lowest(usable) ELSE 1
                  IN  {[target |-> OnCondOrInvalid(rel.signals[i], waiting),
                        read |-> read_schedule,
                        signals |-> SubSeq(rel.signals, i + 1, Len(rel.signals))]}
    ELSE IF read_schedule = <<>>
           THEN {[target |-> t, read |-> <<>>, signals |-> <<>>] :
                   t \in selectThreadWaitingOnCond(waiting)}
           ELSE {[target |-> OnCondOrInvalid(Head(read_schedule).chosen, waiting),
                  read |-> Tail(read_schedule), signals |-> <<>>]}

-----------------------------------------------------------------------------
(***************************************************************************)
(* ExecutionTracker::schedule and StrictTracker: the decisions possible at *)
(* a scheduling point with id, [chosen, out, read, ...].                   *)
(***************************************************************************)
Decision(chosen, out, read, synchro) ==
  [chosen |-> chosen, out |-> out, read |-> read, synchro |-> synchro,
   intervals |-> relaxed_schedule, rel |-> rel]

\* What the recorder may choose.
Recordable(s) ==
  IF cur \in s.enabled /\ Cardinality({i \in DOMAIN schedule : schedule[i].chosen # schedule[i].caller}) >= MaxSwitches
    THEN {cur} ELSE s.enabled

\* pickNextSchedulingChoice when the log has no choice.
pickNextSchedulingChoice(s) ==
  IF s.enabled = {} THEN {Decision(INVALID_THREAD, "deadlock", <<>>, startSynchro)}
  ELSE CASE tracker = "strict"  -> {Decision(INVALID_THREAD, "internal", <<>>, startSynchro)}
         [] tracker = "default" -> {Decision(Lowest(s.enabled), "running", <<>>, startSynchro)}
         [] OTHER -> {Decision(t, "running", <<>>, startSynchro) : t \in Recordable(s)}

schedule_op(s, id, read) ==
  IF read = <<>> THEN pickNextSchedulingChoice(s)
  ELSE LET d == Head(read)
           synchro == startSynchro \/ d.idaddr = id
           failed == \/ d.chosen \notin s.enabled
                     \/ tracker = "strict" /\ startSynchro /\ d.idaddr # id
       IN  {Decision(d.chosen, IF failed THEN "internal" ELSE "running", Tail(read), synchro)}

-----------------------------------------------------------------------------
(***************************************************************************)
(* RelaxedTracker::schedule.  An interval is left at its address, when its *)
(* times are used up, or when its thread is disabled; the next interval of *)
(* an enabled thread follows.                                              *)
(***************************************************************************)
checkTimesScheduled(r) ==
  IF tracker \in AddrTrackers THEN r.timesScheduled > 2 * r.max ELSE r.timesScheduled = r.max

\* Launch the thread of interval r, rest is what remains of the schedule.
Follow(r, rest) ==
  [chosen |-> r.current, out |-> "running", read |-> read_schedule, synchro |-> startSynchro,
   intervals |-> rest, rel |-> [r EXCEPT !.timesScheduled = @ + 1]]

Stops(out) ==
  {[chosen |-> INVALID_THREAD, out |-> out, read |-> read_schedule, synchro |-> startSynchro,
    intervals |-> relaxed_schedule, rel |-> rel]}

\* noScheduleToFollow: AddrTracker goes on with a thread its fair scheduler
\* allows, here any enabled thread.
noScheduleToFollow(s, signals) ==
  IF tracker \in AddrTrackers
    THEN {Follow([Interval(t, 1, NoAddr, 0, signals) EXCEPT !.timesScheduled = 0], <<>>) : t \in s.enabled}
    ELSE Stops("internal")

\* The intervals after rest, up to the first whose thread is enabled.
\* TesterTracker allows no other.
regenerate(s, rest, signals) ==
  LET on == {i \in DOMAIN rest : rest[i].current \in s.enabled}
      k == IF on = {} THEN Len(rest) + 1 ELSE Lowest(on)
  IN  IF s.enabled = {} THEN Stops("deadlock")
      ELSE IF tracker = "tester" /\ k # 1 THEN Stops("internal")
      ELSE IF on = {} THEN noScheduleToFollow(s, IF rest = <<>> THEN signals ELSE Last(rest).signals)
      ELSE IF tracker \notin AddrTrackers /\ rest[k].max = 0 THEN Stops("internal")
      ELSE {Follow(rest[k], SubSeq(rest, k + 1, Len(rest)))}

relaxedSchedule(s, id, signals) ==
  LET first == rel.current = UNKNOWN_THREAD
      r0 == IF first THEN Head(relaxed_schedule) ELSE [rel EXCEPT !.signals = signals]
      rest == IF first THEN Tail(relaxed_schedule) ELSE relaxed_schedule
      r == [r0 EXCEPT !.pass = IF id = r0.addr THEN @ - 1 ELSE @]
      leave == \/ r.pass < 0
               \/ checkTimesScheduled(r)
               \/ tracker \in {"relaxed", "addr"} /\ r.current \notin s.enabled
  IN  IF leave THEN regenerate(s, rest, r.signals)
      ELSE IF s.enabled = {} /\ tracker # "tester" THEN Stops("deadlock")
      ELSE IF r.current \notin s.enabled THEN Stops("internal")
      ELSE {Follow(r, rest)}

-----------------------------------------------------------------------------
Begin(prog, t) ==
  /\ st = Initial(prog) /\ cur = Main /\ outcome = "running"
  /\ schedule = <<>> /\ rel = NoInterval /\ startSynchro = FALSE
  /\ tracker = t

Init ==
  /\ phase = "record"
  /\ \E p \in Programs : Begin(p, "recorder")
  /\ read_schedule = <<>> /\ relaxed_schedule = <<>>
  /\ scheduleAll \in BOOLEAN
  /\ file = <<>> /\ edited = FALSE

Running == outcome = "running"

\* The process ends: the Logger has written its log.
End(how) ==
  /\ outcome' = how
  /\ file' = IF phase = "record"
               THEN [all |-> scheduleAll, schedule |-> schedule, outcome |-> how, st |-> st]
               ELSE file
  /\ UNCHANGED <<phase, tracker, st, cur, logVars, scheduleAll, edited>>

ProgramEnds == Running /\ Ends(st, cur) /\ End("end_log")
programAssertFail == Running /\ Fails(st, cur) /\ End("program assert")

SchedulesHere(o) == o.op = "mem" => scheduleAll

\* A memory access that is not a scheduling point.
PassMemory ==
  /\ Running /\ ~SchedulesHere(NextOp(st, cur))
  /\ st' = Run(st, cur, INVALID_THREAD)
  /\ UNCHANGED <<phase, tracker, cur, outcome, logVars, scheduleAll, file, edited>>

\* Decision d at the scheduling point id of the current thread, in state s.
Decide(s, d, id, log) ==
  /\ st' = s
  /\ read_schedule' = d.read /\ relaxed_schedule' = d.intervals /\ rel' = d.rel
  /\ startSynchro' = d.synchro
  /\ outcome' = d.out
  /\ schedule' = IF d.out = "running" THEN Append(log, ScheduleDecisionInfo(d.chosen, cur, id)) ELSE log
  /\ cur' = IF d.out = "running" THEN d.chosen ELSE cur
  /\ file' = IF phase = "record" /\ d.out # "running"
               THEN [all |-> scheduleAll, schedule |-> log, outcome |-> d.out, st |-> s]
               ELSE file
  /\ UNCHANGED <<phase, tracker, scheduleAll, edited>>

DecisionsAt(s, id, read, signals) ==
  IF tracker \in RelaxedTrackers THEN relaxedSchedule(s, id, signals) ELSE schedule_op(s, id, read)

\* The current thread runs to its next scheduling point, which signals no one.
SchedulingPoint ==
  /\ Running /\ ~Ends(st, cur) /\ ~Fails(st, cur)
  /\ LET o == NextOp(st, cur)
     IN  /\ SchedulesHere(o) /\ SignalTargets(st, cur) = {}
         /\ \E s \in {Run(st, cur, INVALID_THREAD)} :
              \E d \in DecisionsAt(s, o.at, read_schedule, rel.signals) : Decide(s, d, o.at, schedule)

\* Mutant: a signal with one waiter is not logged.
SignalPoint_OneUnlogged ==
  /\ Running /\ SignalTargets(st, cur) # {}
  /\ LET o == NextOp(st, cur)
     IN  \E c \in signalChoices(SignalTargets(st, cur)) :
           IF c.target = INVALID_THREAD THEN End("internal")
           ELSE \E s \in {Run(st, cur, c.target)} :
                \E d \in DecisionsAt(s, o.at, c.read, c.signals) :
                  Decide(s, d, o.at, IF Cardinality(SignalTargets(st, cur)) = 1 THEN schedule
                                     ELSE Append(schedule, SignalDecisionInfo(c.target, cur, o.at)))

\* ... of a pthread_cond_signal that is not missed.
SignalPoint ==
  /\ Running /\ SignalTargets(st, cur) # {}
  /\ LET o == NextOp(st, cur)
     IN  \E c \in signalChoices(SignalTargets(st, cur)) :
           IF c.target = INVALID_THREAD THEN End("internal")
           ELSE \E s \in {Run(st, cur, c.target)} :
                \E d \in DecisionsAt(s, o.at, c.read, c.signals) :
                  Decide(s, d, o.at, Append(schedule, SignalDecisionInfo(c.target, cur, o.at)))

\* The schedules Tinertia tries: one interval left out.
Edits(intervals) == {intervals} \cup {RemoveAt(intervals, i) : i \in DOMAIN intervals}

\* A new process reads the log, or the relaxed schedule made of it.
StartReplay ==
  /\ phase = "record" /\ ~Running /\ file.schedule # <<>>
  /\ phase' = "replay"
  /\ tracker' \in RelaxedTrackers \cup {"default", "strict"}
  /\ st' = Initial(st.prog) /\ cur' = Main /\ outcome' = "running"
  /\ schedule' = <<>> /\ startSynchro' = FALSE
  /\ scheduleAll' = file.all
  /\ LET full == outputRelaxedSchedule(file.schedule)
     IN  IF tracker' \in RelaxedTrackers
           THEN /\ read_schedule' = <<>>
                /\ \E e \in Edits(full) :
                     /\ e # <<>>
                     /\ edited' = (e # full)
                     /\ IF tracker' \in AddrTrackers   \* regenerates in its constructor
                          THEN rel' = Head(e) /\ relaxed_schedule' = Tail(e)
                          ELSE rel' = NoInterval /\ relaxed_schedule' = e
           ELSE /\ relaxed_schedule' = <<>> /\ rel' = NoInterval
                /\ read_schedule' \in IF tracker' = "strict" THEN {file.schedule} ELSE Prefixes(file.schedule)
                /\ edited' = (read_schedule' # file.schedule)
  /\ UNCHANGED file

Next ==
  \/ ProgramEnds \/ programAssertFail
  \/ PassMemory \/ SchedulingPoint \/ SignalPoint
  \/ StartReplay

Spec == Init /\ [][Next]_vars

-----------------------------------------------------------------------------
\* ReplayReproduces: a log, or the relaxed schedule made of it, leads every
\* tracker that can follow it to the same end: the process ends the same way,
\* in the same state, by the same decisions.  The counts of addresses and
\* times in an interval, the pairing of signals with intervals and what is
\* not logged (broadcasts, missed signals) all have to agree for this.
ReplayReproduces ==
  phase = "replay" /\ ~edited /\ outcome # "running" =>
    outcome = file.outcome /\ st = file.st /\ schedule = file.schedule

\* ReplayInStep: while the log lasts, each decision of the replay is the
\* logged one, of the same kind, made by the same thread at the same address:
\* no schedule choice is taken for a signal or a signal for a schedule choice.
ReplayInStep ==
  phase = "replay" /\ read_schedule # <<>> =>
    IsPrefix(schedule \o read_schedule, file.schedule)

\* NoInternalError: no assertion of a tracker fails while it records or
\* follows a faithful log; AddrTracker gets by with any edit of a relaxed
\* schedule.
NoInternalError ==
  outcome = "internal" => edited /\ tracker \in RelaxedTrackers \ {"addr"}

=============================================================================
