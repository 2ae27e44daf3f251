----------------------------- MODULE ChessSearch -----------------------------
(***************************************************************************)
(* The CHESS search: ChessChecker runs the program again and again under   *)
(* ChessTracker, and ChessSearchStack chooses the next schedule depth      *)
(* first, within a bound on preemptions.                                   *)
(*                                                                         *)
(* A stack element stands for one decision: whom to schedule (options are  *)
(* the enabled threads) or whom to signal (options are the waiters).       *)
(*                                                                         *)
(* In the code only fair-enabled threads are options.  They are all the    *)
(* enabled ones until a thread yields for the second time: its first yield *)
(* finds no thread enabled since its last, and of those it has disabled    *)
(* each has run since all threads exist, so none is given a priority.  A   *)
(* timed wait is a yield; YieldAssumption keeps to programs in which no    *)
(* thread makes two.                                                       *)
(***************************************************************************)
EXTENDS SerialProgram, SequencesExt, TLC

CONSTANTS
  Programs,    \* the programs under test
  Bounds,      \* preemption bounds
  MaxDepth     \* bound: decisions in an execution of a program

ASSUME ChessAssumption == Bounds \subseteq Nat /\ MaxDepth \in Nat

\* Of the operations only pthread_cond_timedwait is a scheduling point that
\* yields; no thread of a program has two of them.
ASSUME YieldAssumption ==
  \A prog \in Programs : \A t \in Thread : \A i, j \in DOMAIN prog[t] :
    (prog[t][i].op = "timedwait" /\ prog[t][j].op = "timedwait") => i = j

VARIABLES
  preemption_bound,
  search_stack,     \* sequence of SearchStackElements
  phase,            \* "execute", "executed", "search" or "complete"
  errors_found,
  st, cur,          \* the execution: state, thread with the baton
  outcome,
  read_schedule,    \* decisions the execution still has to follow
  schedule,         \* the decisions it has made
  history           \* the executions so far: choices and outcome

execVars == <<st, cur, outcome, read_schedule, schedule>>
vars == <<preemption_bound, search_stack, phase, errors_found, execVars, history>>

Lowest(S) == CHOOSE t \in S : \A u \in S : t <= u
Highest(S) == CHOOSE t \in S : \A u \in S : t >= u

-----------------------------------------------------------------------------
(***************************************************************************)
(* SearchStackElement.                                                     *)
(***************************************************************************)
\* Mutant: the choice the execution made stays among the alternatives.
SearchStackElement_KeepsChosen(d) ==
  [issignal |-> d.issignal, caller |-> d.caller, options |-> d.options,
   chosen |-> d.chosen, todo |-> d.options]

SearchStackElement(d) ==
  [issignal |-> d.issignal, caller |-> d.caller, options |-> d.options,
   chosen |-> d.chosen, todo |-> d.options \ {d.chosen}]

CallerEnabled(e) == ~e.issignal /\ e.caller \in e.options

needPreemptsToExplore(e) == CallerEnabled(e) /\ e.caller = e.chosen

isPreempt(e) == CallerEnabled(e) /\ e.caller # e.chosen

\* Mutant: the alternative taken stays on the list.
doWork_KeepsTodo(e) == [e EXCEPT !.chosen = Highest(e.todo)]

\* todo is a list in the order of the thread ids, and pop takes the last.
doWork(e) == [e EXCEPT !.chosen = Highest(e.todo), !.todo = @ \ {Highest(e.todo)}]

calculatePreemptions(stack) == Cardinality({i \in DOMAIN stack : isPreempt(stack[i])})

\* Mutant: at the bound nothing more is explored.
isWorkToDo_BelowBoundOnly(below, e) ==
  e.todo # {} /\ calculatePreemptions(below) < preemption_bound

\* Element e has been popped, below is what is left of the stack.
isWorkToDo(below, e) ==
  /\ e.todo # {}
  /\ \/ calculatePreemptions(below) < preemption_bound
     \/ ~needPreemptsToExplore(e)

\* The choices of the stack, the schedule the next execution has to follow.
buildSchedule(stack) == [i \in DOMAIN stack |-> stack[i].chosen]

-----------------------------------------------------------------------------
(***************************************************************************)
(* An execution under ChessTracker: the decisions of the log, then the     *)
(* nonpreemptive schedule: the caller while it is enabled, else the lowest *)
(* enabled thread (YieldAssumption makes them fair-enabled); the lowest    *)
(* waiter is signalled.                                                    *)
(***************************************************************************)
BeginExecution(read) ==
  /\ st' = Initial(st.prog) /\ cur' = Main /\ outcome' = "running"
  /\ read_schedule' = read /\ schedule' = <<>>
  /\ phase' = "execute"

Choose(read, default) == IF read = <<>> THEN default ELSE Head(read)
Rest(read) == IF read = <<>> THEN read ELSE Tail(read)

\* Mutant: the lowest enabled thread is preferred to the caller.
nonpreemptiveFairSchedule_Lowest(s, caller) == Lowest(s.enabled)

nonpreemptiveFairSchedule(s, caller) ==
  IF caller \in s.enabled THEN caller ELSE Lowest(s.enabled)

Made(issignal, chosen, options) ==
  [issignal |-> issignal, chosen |-> chosen, caller |-> cur, options |-> options]

\* The current thread runs to its next scheduling point.
SchedulingPoint ==
  /\ phase = "execute" /\ ~Ends(st, cur) /\ ~Fails(st, cur)
  /\ LET targets == SignalTargets(st, cur)
         sig == IF targets = {} THEN INVALID_THREAD ELSE Choose(read_schedule, Lowest(targets))
         read == IF targets = {} THEN read_schedule ELSE Rest(read_schedule)
         log == IF targets = {} THEN schedule ELSE Append(schedule, Made(TRUE, sig, targets))
     IN  \E s \in {Run(st, cur, sig)} :
           /\ st' = s
           /\ IF s.enabled = {}
                THEN /\ outcome' = "program deadlock" /\ phase' = "executed"
                     /\ read_schedule' = read /\ schedule' = log /\ UNCHANGED cur
                ELSE LET c == Choose(read, nonpreemptiveFairSchedule(s, cur))
                     IN  /\ Assert(c \in s.enabled, "launchThread: thread is not enabled")
                         /\ cur' = c
                         /\ read_schedule' = Rest(read)
                         /\ schedule' = Append(log, Made(FALSE, c, s.enabled))
                         /\ UNCHANGED <<outcome, phase>>
  /\ UNCHANGED <<preemption_bound, search_stack, errors_found, history>>

\* The program asserts false, or ends.
EndExecution ==
  /\ phase = "execute" /\ (Ends(st, cur) \/ Fails(st, cur))
  /\ outcome' = IF Fails(st, cur) THEN "program assert" ELSE "end_log"
  /\ phase' = "executed"
  /\ UNCHANGED <<preemption_bound, search_stack, errors_found, st, cur,
                 read_schedule, schedule, history>>

-----------------------------------------------------------------------------
Init ==
  /\ preemption_bound \in Bounds
  /\ search_stack = <<>> /\ phase = "execute"
  /\ errors_found = {}
  /\ \E p \in Programs : st = Initial(p)
  /\ cur = Main /\ outcome = "running" /\ read_schedule = <<>> /\ schedule = <<>>
  /\ history = {}

Error == outcome # "end_log"

Done ==
  [choices |-> [i \in DOMAIN schedule |-> schedule[i].chosen], outcome |-> outcome,
   first |-> history = {}]

\* recordAnyErrors.  checkWithBound does not call it for the execution of
\* getInitialSchedule.
recordAnyErrors ==
  errors_found' = IF history # {} /\ Error THEN errors_found \cup {outcome} ELSE errors_found

\* generateSearchStack for the first result, regenerate for the others: the
\* decisions after those of the stack become elements.
regenerate ==
  /\ phase = "executed" /\ phase' = "search"
  /\ search_stack' =
       search_stack \o [i \in 1..(Len(schedule) - Len(search_stack)) |->
                          SearchStackElement(schedule[Len(search_stack) + i])]
  /\ recordAnyErrors
  /\ history' = history \cup {Done}
  /\ UNCHANGED <<preemption_bound, execVars>>

\* generateNextSchedule pops to the deepest element with work to do.
WorkToDo == {i \in DOMAIN search_stack : isWorkToDo(SubSeq(search_stack, 1, i - 1), search_stack[i])}

generateNextSchedule ==
  /\ phase = "search" /\ WorkToDo # {}
  /\ LET i == Highest(WorkToDo)
         stack == Append(SubSeq(search_stack, 1, i - 1), doWork(search_stack[i]))
     IN  /\ search_stack' = stack
         /\ BeginExecution(buildSchedule(stack))
  /\ UNCHANGED <<preemption_bound, errors_found, history>>

completeSearch ==
  /\ phase = "search" /\ WorkToDo = {}
  /\ phase' = "complete" /\ search_stack' = <<>>
  /\ UNCHANGED <<preemption_bound, errors_found, execVars, history>>

Next ==
  \/ SchedulingPoint \/ EndExecution
  \/ regenerate \/ generateNextSchedule \/ completeSearch

\* The driver is a sequential loop: it goes on.
Spec == Init /\ [][Next]_vars /\ WF_vars(Next)

-----------------------------------------------------------------------------
(***************************************************************************)
(* The reference: every execution of a program within the bound.           *)
(***************************************************************************)
Begun(prog) == [st |-> Initial(prog), cur |-> Main, choices |-> <<>>, preempts |-> 0, outcome |-> "running"]

\* What may become of execution x at its next scheduling point.
Extend(x) ==
  IF x.outcome # "running" THEN {x}
  ELSE IF Fails(x.st, x.cur) THEN {[x EXCEPT !.outcome = "program assert"]}
  ELSE IF Ends(x.st, x.cur) THEN {[x EXCEPT !.outcome = "end_log"]}
  ELSE LET targets == SignalTargets(x.st, x.cur)
       IN  UNION {LET s == Run(x.st, x.cur, g)
                      log == IF targets = {} THEN x.choices ELSE Append(x.choices, g)
                  IN  IF s.enabled = {}
                        THEN {[x EXCEPT !.st = s, !.choices = log, !.outcome = "program deadlock"]}
                        ELSE {[x EXCEPT !.st = s, !.cur = c, !.choices = Append(log, c),
                                        !.preempts = IF x.cur \in s.enabled /\ c # x.cur THEN @ + 1 ELSE @] :
                                c \in s.enabled}
                  : g \in IF targets = {} THEN {INVALID_THREAD} ELSE targets}

\* The executions with at most bound preemptions, after each number of
\* scheduling points.
Reached(prog, bound) ==
  LET after[n \in 0..MaxDepth] ==
        IF n = 0 THEN {Begun(prog)}
        ELSE {x \in UNION {Extend(y) : y \in after[n - 1]} : x.preempts <= bound}
  IN  after

Executions(prog, bound) == Reached(prog, bound)[MaxDepth]

\* SearchExhaustive: when the search says it is complete, it has run every
\* schedule of the program with at most preemption_bound preemptions, and no
\* other: each choice of a thread and of a signalled waiter has been tried.
\* It reports the errors of all its executions but the first.
SearchExhaustive ==
  phase = "complete" =>
    /\ {<<h.choices, h.outcome>> : h \in history}
         = {<<x.choices, x.outcome>> : x \in Executions(st.prog, preemption_bound)}
    /\ errors_found = {h.outcome : h \in {g \in history : ~g.first}} \ {"end_log"}

\* NoRepeat: no schedule is run twice.
NoRepeat == phase = "executed" => \A h \in history : h.choices # Done.choices

\* FollowsStack: an execution makes the decisions of the stack at the points
\* they were taken from (same caller, same options), so its log can be merged
\* into the stack, and the stack stays within the bound: the assertions of
\* getPostfixAfter, push and checkWithBound.
FollowsStack ==
  /\ \A i \in DOMAIN schedule \cap DOMAIN search_stack :
       phase \in {"execute", "executed"} =>
         /\ schedule[i].chosen = search_stack[i].chosen
         /\ schedule[i].caller = search_stack[i].caller
         /\ schedule[i].options = search_stack[i].options
  /\ phase = "executed" => Len(schedule) >= Len(search_stack)
  /\ calculatePreemptions(search_stack) <= preemption_bound

\* SearchEnds: the search of a program whose executions end is complete some
\* time.
SearchEnds == <>(phase = "complete")

=============================================================================
