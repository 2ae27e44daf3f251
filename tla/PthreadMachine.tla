--------------------------- MODULE PthreadMachine ----------------------------
(***************************************************************************)
(* What the serializer promises a program: the pthread calls of a machine  *)
(* with one processor.  Threads run one at a time between calls; a mutex   *)
(* has one owner; a wait gives its mutex back and joins the waiters in one *)
(* step and ends with the mutex; a signal wakes exactly one waiter if      *)
(* there is one, a broadcast all; a join ends after its thread.            *)
(***************************************************************************)
CONSTANTS
  Thread, MainThread, Mutex, Cond,
  Nobody,   \* the owner of a free mutex
  NULL

VARIABLES
  doing,    \* per thread: what it does, [op, obj]
  owner,    \* per mutex
  waitsOn,  \* per thread: the condition variable it waits on
  owed      \* per thread: its signal has yet to wake a waiter

machineVars == <<doing, owner, waitsOn, owed>>

In(op, obj) == [op |-> op, obj |-> obj]
Idle(op) == In(op, NULL)

InApp(t) == doing[t].op = "app"

Becomes(t, d) == doing' = [doing EXCEPT ![t] = d]

WaitersOf(c) == {t \in Thread : waitsOn[t] = c}

Init ==
  /\ doing = [t \in Thread |-> Idle(IF t = MainThread THEN "app" ELSE "none")]
  /\ owner = [m \in Mutex |-> Nobody]
  /\ waitsOn = [t \in Thread |-> NULL]
  /\ owed = [t \in Thread |-> FALSE]

-----------------------------------------------------------------------------
\* A call that takes effect when it returns, or has none.
Call(t) ==
  /\ InApp(t)
  /\ \/ Becomes(t, Idle("point"))
     \/ \E m \in Mutex : Becomes(t, In("lock", m)) \/ Becomes(t, In("trylock", m))
     \/ \E u \in Thread : Becomes(t, In("join", u))
  /\ UNCHANGED <<owner, waitsOn, owed>>

Create(t) ==
  /\ InApp(t)
  /\ \E child \in Thread :
       /\ doing[child] = Idle("none")
       /\ doing' = [doing EXCEPT ![t] = Idle("point"), ![child] = Idle("point")]
  /\ UNCHANGED <<owner, waitsOn, owed>>

Finish(t) ==
  /\ InApp(t)
  /\ Becomes(t, Idle("done"))
  /\ UNCHANGED <<owner, waitsOn, owed>>

Unlock(t) ==
  /\ InApp(t)
  /\ \E m \in Mutex : owner[m] = t /\ owner' = [owner EXCEPT ![m] = Nobody]
  /\ Becomes(t, Idle("point"))
  /\ UNCHANGED <<waitsOn, owed>>

Wait(t) ==
  /\ InApp(t)
  /\ \E m \in Mutex, c \in Cond, op \in {"condwait", "timedwait"} :
       /\ owner[m] = t
       /\ owner' = [owner EXCEPT ![m] = Nobody]
       /\ waitsOn' = [waitsOn EXCEPT ![t] = c]
       /\ Becomes(t, In(op, m))
  /\ UNCHANGED owed

Signal(t) ==
  /\ InApp(t)
  /\ \E c \in Cond :
       /\ Becomes(t, In("signal", c))
       /\ owed' = [owed EXCEPT ![t] = WaitersOf(c) # {}]
  /\ UNCHANGED <<owner, waitsOn>>

Broadcast(t) ==
  /\ InApp(t)
  /\ \E c \in Cond : Becomes(t, In("broadcast", c))
  /\ UNCHANGED <<owner, waitsOn, owed>>

\* Waiter t is waked by a signal, a broadcast or, in a timed wait, the clock.
Wake(t) ==
  /\ waitsOn[t] # NULL
  /\ waitsOn' = [waitsOn EXCEPT ![t] = NULL]
  /\ \/ \E u \in Thread :
          /\ doing[u] = In("signal", waitsOn[t]) /\ owed[u]
          /\ owed' = [owed EXCEPT ![u] = FALSE]
     \/ /\ \/ doing[t].op = "timedwait"
           \/ \E u \in Thread : doing[u] = In("broadcast", waitsOn[t])
        /\ UNCHANGED owed
  /\ UNCHANGED <<doing, owner>>

\* A signal or a broadcast has waked whom it had to.
Signalled(t) ==
  /\ \E c \in Cond :
       \/ doing[t] = In("signal", c) /\ ~owed[t]
       \/ doing[t] = In("broadcast", c) /\ WaitersOf(c) = {}
  /\ Becomes(t, Idle("point"))
  /\ UNCHANGED <<owner, waitsOn, owed>>

\* A call returns, when no other thread is outside its calls.
Return(t) ==
  /\ \A u \in Thread : ~InApp(u)
  /\ LET d == doing[t]
     IN  \/ d.op = "point" /\ UNCHANGED owner
         \/ /\ d.op \in {"lock", "trylock", "condwait", "timedwait"}
            /\ waitsOn[t] = NULL
            /\ owner[d.obj] = Nobody
            /\ owner' = [owner EXCEPT ![d.obj] = t]
         \/ d.op = "trylock" /\ owner[d.obj] # Nobody /\ UNCHANGED owner
         \/ d.op = "join" /\ doing[d.obj].op = "done" /\ UNCHANGED owner
  /\ Becomes(t, Idle("app"))
  /\ UNCHANGED <<waitsOn, owed>>

Next ==
  \E t \in Thread :
    \/ Call(t) \/ Create(t) \/ Finish(t) \/ Unlock(t) \/ Wait(t)
    \/ Signal(t) \/ Broadcast(t) \/ Wake(t) \/ Signalled(t) \/ Return(t)

Spec == Init /\ [][Next]_machineVars

=============================================================================
