------------------------------ MODULE MCReplay -------------------------------
(***************************************************************************)
(* Programs for Replay: two mutexes in both orders; a signal with two      *)
(* waiters and a broadcast; a timed wait, a trylock and an assertion.  The *)
(* main thread begins after it has created the others.                     *)
(***************************************************************************)
EXTENDS Replay

Do(op, obj, at) == [op |-> op, obj |-> obj, at |-> at]
WaitOn(op, c, m, at) == [op |-> op, obj |-> c, lock |-> m, at |-> at]
Created == Do("create", NULL, 1)

TwoLocks ==
  <<<<Created, Do("lock", "a", 10), Do("lock", "b", 11), Do("unlock", "b", 12)>>,
    <<Do("lock", "b", 20), Do("mem", NULL, 21), Do("mem", NULL, 21), Do("lock", "a", 22)>>,
    <<>>>>

Signals ==
  <<<<Created, Do("signal", "c", 11), Do("broadcast", "c", 13), Do("join", 1, 14)>>,
    <<Do("lock", "a", 20), WaitOn("wait", "c", "a", 21), Do("unlock", "a", 22)>>,
    <<Do("lock", "a", 20), WaitOn("wait", "c", "a", 21), Do("unlock", "a", 22)>>>>

TimedWait ==
  <<<<Created, Do("signal", "c", 11), Do("trylock", "a", 12), Do("mem", NULL, 12)>>,
    <<Do("lock", "a", 20), WaitOn("timedwait", "c", "a", 21), Do("unlock", "a", 22)>>,
    <<Do("mem", NULL, 23), Do("signal", "c", 23), Do("fail", NULL, 24)>>>>

MCPrograms == {[t \in Thread |-> p[t + 1]] : p \in {TwoLocks, Signals, TimedWait}}

=============================================================================
