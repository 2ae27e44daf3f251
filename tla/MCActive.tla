------------------------------ MODULE MCActive -------------------------------
(***************************************************************************)
(* Programs and target files for RandomActive: mutexes taken in both       *)
(* orders with a trylock; two waiters of a condition variable; memory      *)
(* accesses with a thread that polls for another.                          *)
(***************************************************************************)
EXTENDS RandomActive

Do(op, obj, at) == [op |-> op, obj |-> obj, at |-> at]
WaitOn(op, c, m, at) == [op |-> op, obj |-> c, lock |-> m, at |-> at]
Created == Do("create", NULL, 1)
Pair(type, one, two) == [type |-> type, iids |-> {one, two}]
Input(p, file) == [prog |-> [t \in Thread |-> p[t + 1]], targetfile |-> file]

Locks ==
  Input(<<<<Created, Do("lock", "a", 10), Do("lock", "b", 11), Do("unlock", "b", 12), Do("unlock", "a", 13),
            Do("poll", 2, 14), Do("join", 1, 15)>>,
          <<Do("lock", "b", 20), Do("lock", "a", 21), Do("unlock", "a", 22), Do("unlock", "b", 23)>>,
          <<Do("trylock", "a", 30), Do("fail", NULL, 31)>>>>,
        <<Pair("LOCK", 10, 21), Pair("LOCK", 11, 20), Pair("LOCK", 10, 30)>>)

Waits ==
  Input(<<<<Created, Do("lock", "a", 10), Do("broadcast", "c", 11), Do("unlock", "a", 12), Do("signal", "c", 11),
            Do("join", 2, 13)>>,
          <<Do("lock", "a", 20), WaitOn("wait", "c", "a", 21), Do("unlock", "a", 22)>>,
          <<Do("lock", "a", 20), WaitOn("timedwait", "c", "a", 21), Do("unlock", "a", 22)>>>>,
        <<Pair("LOCK", 10, 20), Pair("LOCK", 10, 21)>>)

Memory ==
  Input(<<<<Created, Do("write", "x", 10), Do("poll", 2, 11), Do("read", "y", 12), Do("write", "z", 13), Do("join", 1, 14)>>,
          <<Do("read", "x", 20), Do("lock", "a", 21), Do("write", "y", 22), Do("unlock", "a", 23)>>,
          <<Do("lock", "a", 30), Do("read", "y", 31), Do("unlock", "a", 32), Do("write", "z", 20)>>>>,
        <<Pair("DATA", 10, 20), Pair("DATA", 12, 22), Pair("DATA", 22, 31), Pair("LOCK", 21, 30)>>)

MCInputs == {Locks, Waits, Memory}

=============================================================================
