------------------------------- MODULE MCChess -------------------------------
(***************************************************************************)
(* Programs for ChessSearch: two mutexes in both orders; a signal with two *)
(* waiters, one of which fails; a timed wait, a trylock and a broadcast.   *)
(***************************************************************************)
EXTENDS ChessSearch

Do(op, obj, at) == [op |-> op, obj |-> obj, at |-> at]
WaitOn(op, c, m, at) == [op |-> op, obj |-> c, lock |-> m, at |-> at]
Created == Do("create", NULL, 1)

TwoLocks ==
  <<<<Created, Do("lock", "a", 10), Do("lock", "b", 11), Do("unlock", "b", 12), Do("unlock", "a", 13),
      Do("join", 1, 14)>>,
    <<Do("lock", "b", 20), Do("lock", "a", 21), Do("unlock", "a", 22), Do("unlock", "b", 23)>>,
    <<Do("mem", NULL, 30)>>>>

Signals ==
  <<<<Created, Do("signal", "c", 10), Do("join", 1, 11)>>,
    <<Do("lock", "a", 20), WaitOn("wait", "c", "a", 21), Do("unlock", "a", 22)>>,
    <<Do("lock", "a", 30), WaitOn("wait", "c", "a", 31), Do("fail", NULL, 32)>>>>

Tries ==
  <<<<Created, Do("join", 2, 10), Do("broadcast", "c", 11), Do("join", 1, 14)>>,
    <<Do("lock", "a", 20), WaitOn("timedwait", "c", "a", 21), Do("unlock", "a", 22)>>,
    <<Do("trylock", "a", 30), Do("mem", NULL, 31)>>>>

MCPrograms == {[t \in Thread |-> p[t + 1]] : p \in {TwoLocks, Signals, Tries}}
MCBounds == 0..2

=============================================================================
