------------------------ MODULE RaceDetection_proofs ------------------------
(***************************************************************************)
(* The race detectors are exact about the events they keep, for any number *)
(* of threads, handles, mutexes, condition variables and addresses and any *)
(* bounds, in an execution in which the threads meet in no order overlap   *)
(* stands for.                                                             *)
(*                                                                         *)
(* isRacing compares whole clocks; what makes that right is a statement    *)
(* about one entry: thread u has heard of an event of thread t if and only *)
(* if u's clock has reached, at t, the entry the event was recorded with.  *)
(* A clock travels with what its owner has heard of (pthread_create,       *)
(* pthread_join, condition variables), and the owner counts on before it   *)
(* does anything the receiver has not heard of.  The hooks find the clocks *)
(* by handle: the first part shows that a handle leads to its thread, its  *)
(* owner's while it runs and a joined thread's until AfterJoin.            *)
(***************************************************************************)
EXTENDS RaceDetection, TLAPS

Clock == [Tid -> Nat]

Events ==
  [id : Nat, thread : Tid, iid : Iid, isread : BOOLEAN, vc : Clock,
   ls : SUBSET Lock, past : SUBSET Nat, held : SUBSET Lock]

\* In a call that is about no other thread.
Plain == {"idle", "locking", "unlocking", "waiting", "timedout", "woken", "waited", "expired",
          "signal", "broadcast"}

\* In pthread_create, the new thread not made yet.
Making == {"next", "before", "mark", "create"}

Places == Plain \cup Making
            \cup {"unborn", "fresh", "born", "starting", "joining", "finished", "joined",
                  "ended", "exited"}

\* In a wait without its mutex.
InWait == {"waiting", "timedout", "woken"}

\* The object of a call.
Fits(where, what) ==
  /\ where \in {"locking", "unlocking"} => what \in Lock
  /\ where \in {"signal", "broadcast"} => what \in Cond
  /\ where \in InWait \cup {"waited", "expired"} => what \in Cond \X Lock
  /\ where \in Making \cup {"starting", "joining"} => what \in Tid

\* The shapes of the trackers' maps.
RaceTypeOK ==
  /\ lockrace \in BOOLEAN
  /\ vcs \in [Tid -> Clock] /\ messagemap \in [Cond -> Clock]
  /\ past \in [Tid -> SUBSET Nat] /\ message_past \in [Cond -> SUBSET Nat]
  /\ lockmap \in [Tid -> SUBSET Lock]
  /\ eventset \in [Addr -> SUBSET Events] /\ lockeventset \in [Lock -> SUBSET Events]
  /\ pc \in [Tid -> Places]
  /\ obj = [t \in Tid |-> obj[t]]
  /\ \A t \in Tid : Fits(pc[t], obj[t])
  /\ owner \in [Lock -> Tid \cup {NoThread}] /\ tried \subseteq Lock
  /\ events \in Nat

\* The process runs, or has ended for all its threads.
Alive == \A t \in Tid : pc[t] \notin {"ended", "exited"}
Over == \A t \in Tid : pc[t] = "ended"

-----------------------------------------------------------------------------
(***************************************************************************)
(* Ids and handles, while no order of steps has been met that overlap      *)
(* stands for.                                                             *)
(***************************************************************************)
IdTypeOK ==
  /\ curr_id \in Tid /\ tid \in [Tid -> Tid]
  /\ handle \in [Tid -> Handle \cup {NoHandle}]
  /\ pthreadHandleMap \in [Tid -> Handle \cup {NoHandle}]

\* A thread is given the id it is named by.
Given(n) == pc[n] # "unborn" => n <= curr_id /\ tid[n] = n

\* A creator makes a thread nobody else makes.
Maker(t) ==
  pc[t] \in Making =>
    /\ obj[t] <= curr_id
    /\ \A u \in Tid \ {t} : pc[u] \in Making => obj[u] # obj[t]
    /\ pc[t] = "next" => obj[t] = curr_id
    /\ pc[t] = "before" => tid[obj[t]] = obj[t]
    /\ pc[obj[t]] = IF pc[t] \in {"next", "before"} THEN "unborn" ELSE "fresh"

\* The table has the handles of the threads that have started.
Filed(n) ==
  /\ pc[n] \notin {"unborn", "fresh"} => handle[n] \in Handle
  /\ pthreadHandleMap[n] = IF pc[n] \in {"unborn", "fresh", "born"} THEN NoHandle ELSE handle[n]

\* A handle has one owner until it is joined.
Owns(n) == pc[n] \notin {"unborn", "fresh", "joined"}
Apart(n) == Owns(n) => \A m \in Tid \ {n} : Owns(m) => handle[m] # handle[n]

\* No later thread's entry in the table has the handle of n.
Latest(n) == \A i \in Tid : i > n => pthreadHandleMap[i] # handle[n]

\* The highest match is the right one.
Found(n) ==
  /\ Owns(n) /\ pc[n] # "born" => Latest(n)
  /\ pc[n] = "joining" => pc[obj[n]] = "joined" /\ Latest(obj[n])

Unfinished(n) == n \in finish_map => pc[n] \in {"finished", "joined"}

IdInv ==
  /\ IdTypeOK
  /\ \A n \in Tid : /\ Given(n) /\ Maker(n) /\ Filed(n)
                    /\ Apart(n) /\ Found(n) /\ Unfinished(n)

\* What IdInv is for: Identified without its condition.
AllIdentified ==
  \A t \in Tid :
    /\ pc[t] \notin {"unborn", "fresh", "born", "finished", "joined"} => getThrID(t) = t
    /\ pc[t] = "joining" => translateHandleToTID(handle[obj[t]]) = obj[t]

-----------------------------------------------------------------------------
\* ClocksExact, OwnClockLeads and ReportExact without their condition.
OrderExact ==
  \A e1, e2 \in AllEvents :
    e1.thread # e2.thread =>
      (isHappensBefore(e1.vc, e2.vc) <=> e1.id \in e2.past)

OwnLeads ==
  \A t \in Tid : pc[t] \notin {"unborn", "ended", "exited", "joined"} =>
    /\ \A u \in Tid \ {t} : vcs[u][t] < vcs[t][t]
    /\ \A c \in Cond : messagemap[c][t] < vcs[t][t]

ReportIsRaces ==
  pc[0] = "ended" =>
    /\ foundraces = {r \in SUBSET Iid : \E a \in Addr : \E e1, e2 \in eventset[a] :
                        ReallyRacing(e1, e2) /\ r = {e1.iid, e2.iid}}
    /\ foundlockraces = {r \in SUBSET Iid : \E l \in Lock : \E e1, e2 \in lockeventset[l] :
                        ReallyRacing(e1, e2) /\ r = {e1.iid, e2.iid}}

(***************************************************************************)
(* Clocks.                                                                 *)
(***************************************************************************)

\* Clock v, which comes with the events in p, tells whether e is one of them,
\* by one entry ...
Knows(v, p, e) == e.id \in p <=> e.vc[e.thread] <= v[e.thread]

\* ... and is then past e's clock in every entry.
Dominates(v, e) == e.vc[e.thread] <= v[e.thread] => isHappensBefore(e.vc, v)

Informed(E, v, p) == \A e \in E : Knows(v, p, e) /\ Dominates(v, e)

\* The thread of an event exists and does not fall behind it.
Recorded(e) == pc[e.thread] # "unborn" /\ isHappensBefore(e.vc, vcs[e.thread])

\* Everything ever heard of has happened.
Happened(p) == \A i \in p : i < events

\* Nobody has heard of a thread that does not exist yet.
Unheard(t) ==
  pc[t] = "unborn" =>
    (\A u \in Tid : vcs[u][t] = 0) /\ (\A c \in Cond : messagemap[c][t] = 0)

ClockInv ==
  /\ \A t \in Tid : Informed(AllEvents, vcs[t], past[t]) /\ Happened(past[t]) /\ Unheard(t)
  /\ \A c \in Cond : /\ Informed(AllEvents, messagemap[c], message_past[c])
                      /\ Happened(message_past[c])
  /\ \A e \in AllEvents : Recorded(e) /\ e.id < events /\ Happened(e.past)
  /\ OwnLeads

-----------------------------------------------------------------------------
(***************************************************************************)
(* Lock sets.                                                              *)
(***************************************************************************)

\* The mutex a thread is about to lock, or will have again when its wait ends.
Wanted(t) ==
  IF pc[t] = "locking" THEN {obj[t]} ELSE IF pc[t] \in InWait THEN {obj[t][2]} ELSE {}

\* lockmap follows the real owner but for the time inside a call.
LockSetExact(t) ==
  IF pc[t] = "unlocking" THEN lockmap[t] \ {obj[t]} = Held(t)
  ELSE lockmap[t] = Held(t) \cup Wanted(t)

LockSetInv ==
  /\ \A t \in Tid : LockSetExact(t)
  /\ \A l \in tried : owner[l] # NoThread

\* An event records the mutexes held.
LocksRecorded == \A e \in AllEvents : e.ls = e.held

\* While the process runs.
Running ==
  /\ Alive
  /\ IdInv
  /\ ClockInv
  /\ LockSetInv
  /\ LocksRecorded

\* Of an execution in which the threads have met in no order overlap stands for.
Orderly ==
  /\ RaceTypeOK
  /\ OrderExact
  /\ ReportIsRaces
  /\ Over \/ Running

RaceInv == ~overlap => Orderly

-----------------------------------------------------------------------------
(***************************************************************************)
(* The operators.                                                          *)
(***************************************************************************)

\* The entries of the clocks after incrementMyClock.
LEMMA IncrementEntries ==
  ASSUME NEW v \in [Tid -> Clock], NEW t \in Tid
  PROVE  /\ incrementMyClock(v, t) \in [Tid -> Clock]
         /\ \A u, w \in Tid : incrementMyClock(v, t)[u][w]
                               = IF u = t /\ w = t THEN v[u][w] + 1 ELSE v[u][w]
BY DEF incrementMyClock, Clock

\* The entries of the clocks after receiveMessage: the larger one.
LEMMA ReceiveEntries ==
  ASSUME NEW v \in [Tid -> Clock], NEW t \in Tid, NEW msg \in Clock
  PROVE  /\ receiveMessage(v, t, msg) \in [Tid -> Clock]
         /\ \A u, w \in Tid : receiveMessage(v, t, msg)[u][w]
                               = IF u = t /\ v[u][w] <= msg[w] THEN msg[w] ELSE v[u][w]
BY DEF receiveMessage, Clock

\* What is recorded is an event.
LEMMA EventTyped ==
  ASSUME RaceTypeOK, NEW t \in Tid, getThrID(t) = t, NEW i \in Iid, NEW isread \in BOOLEAN
  PROVE  /\ Event(t, i, isread) \in Events
         /\ Event(t, i, isread).id = events
<1>1. Held(t) \subseteq Lock
  BY DEF Held
<1>2. /\ vcs[t] \in Clock /\ lockmap[t] \subseteq Lock /\ past[t] \subseteq Nat /\ events \in Nat
  BY DEF RaceTypeOK
<1>3. QED
  BY <1>1, <1>2 DEF Event, Events

\* Where the kept events are.
LEMMA WhereKept ==
  \A e : e \in AllEvents <=> (\E a \in Addr : e \in eventset[a]) \/ (\E l \in Lock : e \in lockeventset[l])
BY DEF AllEvents

\* What is kept is events.
LEMMA KeptTyped == RaceTypeOK => AllEvents \subseteq Events
BY WhereKept DEF RaceTypeOK

\* A step that records nothing keeps the same events ...
LEMMA NothingKept ==
  ASSUME UNCHANGED <<eventset, lockeventset>>
  PROVE  AllEvents' = AllEvents
BY DEF AllEvents

\* ... and one that records an event has at most that one more.
LEMMA OneMoreKept ==
  ASSUME RaceTypeOK,
         NEW e,
         \/ \E a \in Addr : eventset' = [eventset EXCEPT ![a] = @ \cup {e}]
                              /\ lockeventset' = lockeventset
         \/ \E l \in Lock : lockeventset' = [lockeventset EXCEPT ![l] = @ \cup {e}]
                              /\ eventset' = eventset
         \/ UNCHANGED <<eventset, lockeventset>>
  PROVE  AllEvents' \subseteq AllEvents \cup {e}
<1> SUFFICES ASSUME NEW f \in AllEvents', f # e
             PROVE  f \in AllEvents
  OBVIOUS
<1>1. (\E a \in Addr : f \in eventset'[a]) \/ (\E l \in Lock : f \in lockeventset'[l])
  BY DEF AllEvents
<1>2. (\E a \in Addr : f \in eventset[a]) \/ (\E l \in Lock : f \in lockeventset[l])
  BY <1>1 DEF RaceTypeOK
<1>3. QED
  BY <1>2, WhereKept

\* Goes by thread and place.
LEMMA GoesWhere ==
  ASSUME RaceTypeOK, NEW t \in Tid, NEW where, NEW what, Goes(t, where, what)
  PROVE  \A u \in Tid : /\ pc'[u] = IF u = t THEN where ELSE pc[u]
                        /\ obj'[u] = IF u = t THEN what ELSE obj[u]
<1>1. obj = [u \in Tid |-> obj[u]] /\ pc \in [Tid -> Places]
  BY DEF RaceTypeOK
<1>2. pc' = [pc EXCEPT ![t] = where] /\ obj' = [obj EXCEPT ![t] = what]
  BY DEF Goes
<1>3. QED
  BY <1>1, <1>2

-----------------------------------------------------------------------------
(***************************************************************************)
(* Handles lead to their threads.                                          *)
(***************************************************************************)
\* translateHandleToTID takes the highest match.
LEMMA HighestMatch ==
  ASSUME NEW n \in Tid, NEW h, pthreadHandleMap[n] = h,
         \A i \in Tid : i > n => pthreadHandleMap[i] # h
  PROVE  translateHandleToTID(h) = n
<1> DEFINE S == {-1} \cup {i \in Tid : pthreadHandleMap[i] = h}
<1>1. S \subseteq Int /\ n \in Nat
  BY RaceAssumption DEF Tid
<1>2. n \in S /\ \A i \in S : n >= i
  BY <1>1 DEF Tid
<1>3. \A x \in S : (\A i \in S : x >= i) => x = n
  BY <1>1, <1>2
<1>4. Max(S) = n
  BY <1>2, <1>3 DEF Max
<1>5. QED
  BY <1>4 DEF translateHandleToTID

\* Every hook knows its thread, and AfterJoin the thread that was joined.
LEMMA IdsFound ==
  ASSUME RaceTypeOK, IdInv, Alive
  PROVE  AllIdentified
<1>1. ASSUME NEW t \in Tid, pc[t] \notin {"unborn", "fresh", "born", "finished", "joined"}
      PROVE  getThrID(t) = t
  <2>1. pthreadHandleMap[t] = handle[t] /\ \A i \in Tid : i > t => pthreadHandleMap[i] # handle[t]
    BY <1>1 DEF IdInv, Filed, Found, Owns, Latest
  <2>2. QED
    BY <2>1, HighestMatch DEF getThrID
<1>2. ASSUME NEW t \in Tid, pc[t] = "joining"
      PROVE  translateHandleToTID(handle[obj[t]]) = obj[t]
  <2>1. obj[t] \in Tid /\ pc[obj[t]] = "joined"
    BY <1>2 DEF RaceTypeOK, Fits, IdInv, Found
  <2>2. pthreadHandleMap[obj[t]] = handle[obj[t]]
    BY <2>1 DEF IdInv, Filed
  <2>3. \A i \in Tid : i > obj[t] => pthreadHandleMap[i] # handle[obj[t]]
    BY <1>2 DEF IdInv, Found, Latest
  <2>4. QED
    BY <2>1, <2>2, <2>3, HighestMatch
<1>3. QED
  BY <1>1, <1>2 DEF AllIdentified
\* A step that is not about another thread.
Aside ==
  \A u \in Tid : \/ pc'[u] = pc[u] /\ obj'[u] = obj[u]
                 \/ pc[u] \in Plain \cup {"starting", "joining"} /\ pc'[u] \in Plain

\* Such a step keeps what is known of ids and handles.
LEMMA IdQuiet ==
  ASSUME IdInv, Aside, RaceTypeOK,
         UNCHANGED <<curr_id, pthreadHandleMap, tid, handle, finish_map>>
  PROVE  IdInv'
<1>1. IdTypeOK'
  BY DEF IdInv, IdTypeOK
<1>2. \A n \in Tid : \/ pc'[n] = pc[n] /\ obj'[n] = obj[n]
                     \/ pc[n] \in Plain \cup {"starting", "joining"} /\ pc'[n] \in Plain
  BY DEF Aside
<1>3. \A n \in Tid : /\ pc[n] \in {"unborn", "fresh", "born", "joined", "finished"} \/ pc'[n] \in {"unborn", "fresh", "born", "joined", "finished"}
                          => pc'[n] = pc[n]
                     /\ pc[n] \in Making \cup {"joining"} \/ pc'[n] \in Making \cup {"joining"}
                          => pc'[n] = pc[n] \/ pc[n] = "joining"
                     /\ pc'[n] \in Making \cup {"joining"} => pc'[n] = pc[n] /\ obj'[n] = obj[n]
                     /\ pc'[n] = pc[n] \/ pc'[n] \in Plain
  BY <1>2 DEF Plain, Making
<1>4. \A n \in Tid : Owns(n)' <=> Owns(n)
  BY <1>3 DEF Owns
<1>5. ASSUME NEW n \in Tid PROVE Given(n)' /\ Filed(n)' /\ Apart(n)' /\ Unfinished(n)'
  <2>1. Given(n) /\ Filed(n) /\ Apart(n) /\ Unfinished(n)
    BY DEF IdInv
  <2>2. Given(n)' /\ Filed(n)'
    BY <1>3, <2>1 DEF Given, Filed
  <2>3. Apart(n)'
    BY <1>4, <2>1 DEF Apart
  <2>4. Unfinished(n)'
    BY <1>3, <2>1 DEF Unfinished
  <2>5. QED
    BY <2>2, <2>3, <2>4
<1>6. ASSUME NEW n \in Tid PROVE Maker(n)'
  <2>1. SUFFICES ASSUME pc'[n] \in Making PROVE Maker(n)'
    BY DEF Maker
  <2>2. pc[n] = pc'[n] /\ obj'[n] = obj[n] /\ obj[n] \in Tid /\ Maker(n)
    BY <1>3, <2>1 DEF RaceTypeOK, Fits, IdInv
  <2>3. pc'[obj[n]] = pc[obj[n]]
    BY <1>3, <2>1, <2>2 DEF Maker
  <2>4. \A u \in Tid \ {n} : pc'[u] \in Making => obj'[u] # obj'[n]
    BY <1>3, <2>1, <2>2 DEF Maker
  <2>5. QED
    BY <2>1, <2>2, <2>3, <2>4 DEF Maker
<1>7. ASSUME NEW n \in Tid PROVE Found(n)'
  <2>1. Found(n)
    BY DEF IdInv
  <2>2. Owns(n)' /\ pc'[n] # "born" => Latest(n)'
    BY <1>3, <1>4, <2>1 DEF Found, Latest
  <2>3. ASSUME pc'[n] = "joining" PROVE pc'[obj'[n]] = "joined" /\ Latest(obj[n])' /\ obj'[n] = obj[n]
    <3>1. pc[n] = "joining" /\ obj'[n] = obj[n] /\ obj[n] \in Tid
      BY <1>3, <2>3 DEF RaceTypeOK, Fits
    <3>2. pc'[obj[n]] = "joined"
      BY <1>3, <2>1, <3>1 DEF Found
    <3>3. Latest(obj[n])'
      BY <2>1, <3>1 DEF Found, Latest
    <3>4. QED
      BY <3>1, <3>2, <3>3
  <2>4. QED
    BY <2>2, <2>3 DEF Found, Latest
<1>8. QED
  BY <1>1, <1>5, <1>6, <1>7 DEF IdInv

\* getNextTID: the new id is beyond all there are.
LEMMA IdGetNextTID ==
  ASSUME RaceTypeOK, IdInv, NEW t \in Tid, getNextTID(t), ~overlap'
  PROVE  IdInv'
<1>0. /\ pc[t] = "idle" /\ curr_id < MaxTid /\ curr_id' = curr_id + 1
      /\ Goes(t, "next", curr_id + 1) /\ \A u \in Tid : pc[u] # "next"
      /\ UNCHANGED <<pthreadHandleMap, tid, handle, finish_map>>
  BY DEF getNextTID, Calls
<1>1. /\ curr_id \in Tid /\ curr_id + 1 \in Tid /\ MaxTid \in Nat
      /\ \A i \in Tid : i \in Nat
  BY <1>0, RaceAssumption DEF IdInv, IdTypeOK, Tid
<1>2. \A u \in Tid : /\ pc'[u] = IF u = t THEN "next" ELSE pc[u]
                     /\ obj'[u] = IF u = t THEN curr_id + 1 ELSE obj[u]
  BY <1>0, GoesWhere
<1>3. pc[curr_id + 1] = "unborn"
  BY <1>1 DEF IdInv, Given
<1>4. IdTypeOK'
  BY <1>0, <1>1 DEF IdInv, IdTypeOK
<1>5. ASSUME NEW n \in Tid
      PROVE  Given(n)' /\ Filed(n)' /\ Apart(n)' /\ Found(n)' /\ Unfinished(n)'
  <2>1. Given(n) /\ Filed(n) /\ Apart(n) /\ Found(n) /\ Unfinished(n) /\ n \in Nat
    BY <1>1 DEF IdInv
  <2>2. Given(n)' /\ Filed(n)' /\ Unfinished(n)'
    BY <1>0, <1>1, <1>2, <2>1 DEF Given, Filed, Unfinished
  <2>3. Apart(n)'
    BY <1>0, <1>2, <2>1 DEF Apart, Owns
  <2>4. Found(n)'
    <3>1. Owns(n)' /\ pc'[n] # "born" => Latest(n)'
      BY <1>0, <1>2, <2>1 DEF Found, Owns, Latest
    <3>2. ASSUME pc'[n] = "joining" PROVE pc'[obj'[n]] = "joined" /\ Latest(obj[n])' /\ obj'[n] = obj[n]
      BY <1>0, <1>2, <2>1, <3>2 DEF Found, Latest, RaceTypeOK, Fits
    <3>3. QED
      BY <3>1, <3>2 DEF Found, Latest
  <2>5. QED
    BY <2>2, <2>3, <2>4
<1>6. ASSUME NEW n \in Tid PROVE Maker(n)'
  <2>1. \A u \in Tid : pc[u] \in Making => obj[u] \in Tid /\ obj[u] <= curr_id /\ pc[obj[u]] \in {"unborn", "fresh"}
    BY DEF RaceTypeOK, Fits, IdInv, Maker
  <2>2. CASE n = t
    <3>1. pc'[obj'[n]] = "unborn" /\ obj'[n] = curr_id + 1 /\ pc'[n] = "next"
      BY <1>0, <1>1, <1>2, <1>3, <2>2
    <3>2. \A u \in Tid \ {n} : pc'[u] \in Making => obj'[u] # obj'[n]
      BY <1>1, <1>2, <2>1, <2>2
    <3>3. QED
      BY <1>0, <1>1, <3>1, <3>2 DEF Maker
  <2>3. CASE n # t /\ pc[n] \in Making
    <3>1. Maker(n) /\ pc'[n] = pc[n] /\ obj'[n] = obj[n] /\ pc[n] # "next" /\ obj[n] \in Tid
      BY <1>0, <1>2, <2>1, <2>3 DEF IdInv
    <3>2. pc'[obj[n]] = pc[obj[n]]
      BY <1>0, <1>2, <2>1, <2>3
    <3>3. \A u \in Tid \ {n} : pc'[u] \in Making => obj'[u] # obj'[n]
      BY <1>1, <1>2, <2>1, <2>3, <3>1 DEF Maker
    <3>4. obj[n] <= curr_id + 1
      BY <1>1, <2>1, <2>3
    <3>5. QED
      BY <1>0, <2>3, <3>1, <3>2, <3>3, <3>4 DEF Maker
  <2>4. QED
    BY <1>2, <2>2, <2>3 DEF Maker
<1>7. QED
  BY <1>4, <1>5, <1>6 DEF IdInv

\* A step of one creator t, or of the thread it makes, leaves the others'
\* creations alone.
LEMMA OtherMakers ==
  ASSUME RaceTypeOK, IdInv, NEW t \in Tid, NEW n \in Tid, n # t, pc[n] \in Making,
         obj' = obj, curr_id' = curr_id, pc'[n] = pc[n],
         pc[n] = "before" => tid'[obj[n]] = tid[obj[n]],
         pc'[obj[n]] = pc[obj[n]],
         \A u \in Tid \ {t} : pc'[u] \in Making => pc[u] \in Making,
         pc'[t] \in Making => obj[t] # obj[n]
  PROVE  Maker(n)'
<1>1. Maker(n)
  BY DEF IdInv
<1>2. \A u \in Tid \ {n} : pc'[u] \in Making => obj'[u] # obj'[n]
  BY <1>1 DEF Maker
<1>3. QED
  BY <1>1, <1>2 DEF Maker

\* The counter still is what getNextTID made it.
LEMMA IdReturnCurrId ==
  ASSUME RaceTypeOK, IdInv, NEW t \in Tid, ReturnCurrId(t)
  PROVE  IdInv'
<1>0. /\ pc[t] = "next" /\ tid' = [tid EXCEPT ![obj[t]] = curr_id]
      /\ pc' = [pc EXCEPT ![t] = "before"]
      /\ UNCHANGED <<curr_id, pthreadHandleMap, handle, finish_map, obj>>
  BY DEF ReturnCurrId
<1>1. /\ obj[t] \in Tid /\ obj[t] = curr_id /\ pc[obj[t]] = "unborn" /\ curr_id \in Tid
      /\ \A u \in Tid \ {t} : pc[u] \in Making => obj[u] # obj[t]
  BY <1>0 DEF RaceTypeOK, Fits, IdInv, Maker, Making, IdTypeOK
<1>2. \A u \in Tid : pc'[u] = IF u = t THEN "before" ELSE pc[u]
  BY <1>0 DEF RaceTypeOK
<1>3. \A u \in Tid : tid'[u] = IF u = obj[t] THEN curr_id ELSE tid[u]
  BY <1>0, <1>1 DEF IdInv, IdTypeOK
<1>4. IdTypeOK'
  BY <1>0, <1>1 DEF IdInv, IdTypeOK
<1>5. ASSUME NEW n \in Tid
      PROVE  Given(n)' /\ Filed(n)' /\ Apart(n)' /\ Found(n)' /\ Unfinished(n)'
  <2>1. Given(n) /\ Filed(n) /\ Apart(n) /\ Found(n) /\ Unfinished(n)
    BY DEF IdInv
  <2>2. Given(n)' /\ Filed(n)' /\ Unfinished(n)'
    BY <1>0, <1>1, <1>2, <1>3, <2>1 DEF Given, Filed, Unfinished
  <2>3. Apart(n)'
    BY <1>0, <1>2, <2>1 DEF Apart, Owns
  <2>4. Found(n)'
    <3>1. Owns(n)' /\ pc'[n] # "born" => Latest(n)'
      BY <1>0, <1>2, <2>1 DEF Found, Owns, Latest
    <3>2. ASSUME pc'[n] = "joining" PROVE pc'[obj[n]] = "joined" /\ Latest(obj[n])'
      BY <1>0, <1>2, <2>1, <3>2 DEF Found, Latest, RaceTypeOK, Fits
    <3>3. QED
      BY <1>0, <3>1, <3>2 DEF Found, Latest
  <2>5. QED
    BY <2>2, <2>3, <2>4
<1>6. ASSUME NEW n \in Tid, pc'[n] \in Making PROVE Maker(n)'
  <2>1. CASE n = t
    <3>1. pc'[obj[n]] = "unborn" /\ tid'[obj[n]] = obj[n] /\ pc'[n] = "before"
      BY <1>0, <1>1, <1>2, <1>3, <2>1
    <3>2. \A u \in Tid \ {n} : pc'[u] \in Making => obj'[u] # obj'[n]
      BY <1>0, <1>1, <1>2, <2>1
    <3>3. obj[n] <= curr_id
      BY <1>0, <2>1 DEF IdInv, Maker, Making
    <3>4. QED
      BY <1>0, <3>1, <3>2, <3>3 DEF Maker
  <2>2. CASE n # t
    <3>1. /\ pc[n] \in Making /\ obj[n] \in Tid /\ obj[n] # obj[t]
          /\ pc[obj[n]] \in {"unborn", "fresh"}
      BY <1>1, <1>2, <1>6, <2>2 DEF RaceTypeOK, Fits, IdInv, Maker
    <3>2. pc'[obj[n]] = pc[obj[n]] /\ tid'[obj[n]] = tid[obj[n]]
      BY <1>0, <1>2, <1>3, <3>1
    <3>3. pc'[n] = pc[n] /\ \A u \in Tid \ {t} : pc'[u] \in Making => pc[u] \in Making
      BY <1>2, <2>2
    <3>4. QED
      BY <1>0, <2>2, <3>1, <3>2, <3>3, OtherMakers
  <2>3. QED
    BY <2>1, <2>2
<1>7. QED
  BY <1>4, <1>5, <1>6 DEF IdInv, Maker

\* The child is known to the trackers.
LEMMA IdBeforeCreate ==
  ASSUME RaceTypeOK, IdInv, NEW t \in Tid, BeforeCreate(t)
  PROVE  IdInv'
<1>0. /\ pc[t] = "before" /\ pc' = [pc EXCEPT ![t] = "mark", ![obj[t]] = "fresh"]
      /\ finish_map' = finish_map \ {tid[obj[t]]}
      /\ UNCHANGED <<curr_id, pthreadHandleMap, tid, handle, obj>>
  BY DEF BeforeCreate, idVars
<1>1. /\ obj[t] \in Tid /\ obj[t] <= curr_id /\ pc[obj[t]] = "unborn" /\ tid[obj[t]] = obj[t]
      /\ \A u \in Tid \ {t} : pc[u] \in Making => obj[u] # obj[t]
  BY <1>0 DEF RaceTypeOK, Fits, IdInv, Maker, Making
<1>2. \A u \in Tid : pc'[u] = IF u = obj[t] THEN "fresh" ELSE IF u = t THEN "mark" ELSE pc[u]
  BY <1>0, <1>1 DEF RaceTypeOK
<1>3. pc[t] = "before" /\ UNCHANGED <<curr_id, pthreadHandleMap, tid, handle, obj>>
  BY <1>0
<1>4. IdTypeOK'
  BY <1>0 DEF IdInv, IdTypeOK
<1>5. ASSUME NEW n \in Tid
      PROVE  Given(n)' /\ Filed(n)' /\ Apart(n)' /\ Found(n)' /\ Unfinished(n)'
  <2>1. Given(n) /\ Filed(n) /\ Apart(n) /\ Found(n) /\ Unfinished(n)
    BY DEF IdInv
  <2>2. Given(n)' /\ Filed(n)' /\ Unfinished(n)'
    <3>1. Given(n)' /\ Filed(n)'
      BY <1>1, <1>2, <1>3, <2>1 DEF Given, Filed
    <3>2. finish_map' = finish_map \ {obj[t]}
      BY <1>0, <1>1
    <3>3. Unfinished(n)'
      BY <1>1, <1>2, <1>3, <2>1, <3>2 DEF Unfinished
    <3>4. QED
      BY <3>1, <3>3
  <2>3. Apart(n)'
    BY <1>1, <1>2, <1>3, <2>1 DEF Apart, Owns
  <2>4. Found(n)'
    <3>1. Owns(n)' /\ pc'[n] # "born" => Latest(n)'
      BY <1>1, <1>2, <1>3, <2>1 DEF Found, Owns, Latest
    <3>2. ASSUME pc'[n] = "joining" PROVE pc'[obj[n]] = "joined" /\ Latest(obj[n])'
      BY <1>1, <1>2, <1>3, <2>1, <3>2 DEF Found, Latest, RaceTypeOK, Fits
    <3>3. QED
      BY <1>3, <3>1, <3>2 DEF Found, Latest
  <2>5. QED
    BY <2>2, <2>3, <2>4
<1>6. ASSUME NEW n \in Tid, pc'[n] \in Making PROVE Maker(n)'
  <2>1. CASE n = t
    <3>1. pc'[obj[n]] = "fresh" /\ pc'[n] = "mark"
      BY <1>0, <1>1, <1>2, <2>1
    <3>2. \A u \in Tid \ {n} : pc'[u] \in Making => obj'[u] # obj'[n]
      BY <1>0, <1>1, <1>2, <2>1 DEF Making
    <3>3. QED
      BY <1>0, <1>1, <2>1, <3>1, <3>2 DEF Maker
  <2>2. CASE n # t
    <3>1. /\ pc[n] \in Making /\ obj[n] \in Tid /\ obj[n] # obj[t] /\ n # obj[t]
          /\ pc[obj[n]] \in {"unborn", "fresh"}
      BY <1>1, <1>2, <1>6, <2>2 DEF RaceTypeOK, Fits, IdInv, Maker, Making
    <3>2. pc'[obj[n]] = pc[obj[n]]
      BY <1>0, <1>2, <3>1
    <3>3. pc'[n] = pc[n] /\ \A u \in Tid \ {t} : pc'[u] \in Making => pc[u] \in Making
      BY <1>2, <2>2, <3>1 DEF Making
    <3>4. QED
      BY <1>0, <2>2, <3>1, <3>2, <3>3, OtherMakers
  <2>3. QED
    BY <2>1, <2>2
<1>7. QED
  BY <1>4, <1>5, <1>6 DEF IdInv, Maker

\* The first section under newthread_lock.
LEMMA IdMarkNotStarted ==
  ASSUME RaceTypeOK, IdInv, NEW t \in Tid, MarkNotStarted(t)
  PROVE  IdInv'
<1>0. /\ pc[t] = "mark" /\ pc' = [pc EXCEPT ![t] = "create"]
      /\ UNCHANGED <<curr_id, pthreadHandleMap, tid, handle, obj, finish_map>>
  BY DEF MarkNotStarted
<1>1. \A u \in Tid : pc'[u] = IF u = t THEN "create" ELSE pc[u]
  BY <1>0 DEF RaceTypeOK
<1>2. IdTypeOK'
  BY <1>0 DEF IdInv, IdTypeOK
<1>3. ASSUME NEW n \in Tid
      PROVE  Given(n)' /\ Filed(n)' /\ Apart(n)' /\ Found(n)' /\ Unfinished(n)'
  <2>1. Given(n) /\ Filed(n) /\ Apart(n) /\ Found(n) /\ Unfinished(n)
    BY DEF IdInv
  <2>2. Given(n)' /\ Filed(n)' /\ Unfinished(n)'
    BY <1>0, <1>1, <2>1 DEF Given, Filed, Unfinished
  <2>3. Apart(n)'
    BY <1>0, <1>1, <2>1 DEF Apart, Owns
  <2>4. Found(n)'
    <3>1. Owns(n)' /\ pc'[n] # "born" => Latest(n)'
      BY <1>0, <1>1, <2>1 DEF Found, Owns, Latest
    <3>2. ASSUME pc'[n] = "joining" PROVE pc'[obj[n]] = "joined" /\ Latest(obj[n])'
      BY <1>0, <1>1, <2>1, <3>2 DEF Found, Latest, RaceTypeOK, Fits
    <3>3. QED
      BY <1>0, <3>1, <3>2 DEF Found, Latest
  <2>5. QED
    BY <2>2, <2>3, <2>4
<1>4. ASSUME NEW n \in Tid, pc'[n] \in Making PROVE Maker(n)'
  <2>1. pc[n] \in Making /\ obj[n] \in Tid /\ Maker(n) /\ pc[obj[n]] \in {"unborn", "fresh"}
    BY <1>0, <1>1, <1>4 DEF RaceTypeOK, Fits, IdInv, Maker, Making
  <2>2. pc'[obj[n]] = pc[obj[n]] /\ pc'[n] = IF n = t THEN "create" ELSE pc[n]
    BY <1>0, <1>1, <2>1
  <2>3. \A u \in Tid \ {n} : pc'[u] \in Making => obj'[u] # obj'[n]
    BY <1>0, <1>1, <2>1 DEF Maker, Making
  <2>4. QED
    BY <1>0, <2>1, <2>2, <2>3 DEF Maker
<1>5. QED
  BY <1>2, <1>3, <1>4 DEF IdInv, Maker

\* The real pthread_create gives the new thread a free handle.
LEMMA IdCreateThread ==
  ASSUME RaceTypeOK, IdInv, NEW t \in Tid, CreateThread(t)
  PROVE  IdInv'
<1>0. /\ pc[t] = "create" /\ pc' = [pc EXCEPT ![t] = "starting", ![obj[t]] = "born"]
      /\ \E h \in Handle \ HandlesInUse : handle' = [handle EXCEPT ![obj[t]] = h]
      /\ UNCHANGED <<curr_id, pthreadHandleMap, tid, obj, finish_map>>
  BY DEF CreateThread
<1>1. /\ obj[t] \in Tid /\ pc[obj[t]] = "fresh"
      /\ \A u \in Tid \ {t} : pc[u] \in Making => obj[u] # obj[t]
  BY <1>0 DEF RaceTypeOK, Fits, IdInv, Maker, Making
<1>2. \A u \in Tid : pc'[u] = IF u = obj[t] THEN "born" ELSE IF u = t THEN "starting" ELSE pc[u]
  BY <1>0, <1>1 DEF RaceTypeOK
<1>3. pc[t] = "create" /\ UNCHANGED <<curr_id, pthreadHandleMap, tid, obj, finish_map>>
  BY <1>0
<1>4. PICK h \in Handle : /\ \A u \in Tid : Owns(u) => handle[u] # h
                          /\ handle' = [handle EXCEPT ![obj[t]] = h]
  BY <1>0 DEF HandlesInUse, Owns
<1>5. \A u \in Tid : handle'[u] = IF u = obj[t] THEN h ELSE handle[u]
  BY <1>1, <1>4 DEF IdInv, IdTypeOK
<1>6. IdTypeOK'
  BY <1>3, <1>4 DEF IdInv, IdTypeOK
<1>7. ASSUME NEW n \in Tid
      PROVE  Given(n)' /\ Filed(n)' /\ Apart(n)' /\ Found(n)' /\ Unfinished(n)'
  <2>1. Given(n) /\ Filed(n) /\ Apart(n) /\ Found(n) /\ Unfinished(n)
    BY DEF IdInv
  <2>2. Given(n)' /\ Unfinished(n)'
    BY <1>1, <1>2, <1>3, <2>1 DEF Given, Unfinished
  <2>3. Filed(n)'
    BY <1>1, <1>2, <1>3, <1>5, <2>1 DEF Filed
  <2>4. Apart(n)'
    <3>1. \A u \in Tid : Owns(u)' <=> Owns(u) \/ u = obj[t]
      BY <1>1, <1>2, <1>3 DEF Owns
    <3>2. \A m \in Tid \ {n} : Owns(n)' /\ Owns(m)' => handle'[m] # handle'[n]
      BY <1>4, <1>5, <2>1, <3>1 DEF Apart
    <3>3. QED
      BY <3>2 DEF Apart
  <2>5. Found(n)'
    <3>1. ASSUME Owns(n)', pc'[n] # "born" PROVE Latest(n)'
      <4>1. n # obj[t] /\ Owns(n) /\ pc[n] # "born" /\ handle'[n] = handle[n]
        BY <1>1, <1>2, <1>3, <1>5, <3>1 DEF Owns
      <4>2. QED
        BY <1>3, <2>1, <4>1 DEF Found, Latest
    <3>2. ASSUME pc'[n] = "joining" PROVE pc'[obj[n]] = "joined" /\ Latest(obj[n])'
      <4>1. pc[n] = "joining" /\ obj[n] \in Tid
        BY <1>1, <1>2, <1>3, <3>2 DEF RaceTypeOK, Fits
      <4>2. pc[obj[n]] = "joined" /\ Latest(obj[n])
        BY <2>1, <4>1 DEF Found
      <4>3. pc'[obj[n]] = "joined" /\ handle'[obj[n]] = handle[obj[n]]
        BY <1>1, <1>2, <1>3, <1>5, <4>1, <4>2
      <4>4. QED
        BY <1>3, <4>2, <4>3 DEF Latest
    <3>3. QED
      BY <1>3, <3>1, <3>2 DEF Found, Latest
  <2>6. QED
    BY <2>2, <2>3, <2>4, <2>5
<1>8. ASSUME NEW n \in Tid, pc'[n] \in Making PROVE Maker(n)'
  <2>1. n # t /\ n # obj[t] /\ pc'[n] = pc[n] /\ pc[n] \in Making
    BY <1>1, <1>2, <1>8 DEF Making
  <2>2. obj[n] \in Tid /\ obj[n] # obj[t] /\ pc[obj[n]] \in {"unborn", "fresh"}
    BY <1>1, <2>1 DEF RaceTypeOK, Fits, IdInv, Maker
  <2>3. pc'[obj[n]] = pc[obj[n]]
    BY <1>2, <1>3, <2>2
  <2>4. \A u \in Tid \ {t} : pc'[u] \in Making => pc[u] \in Making
    BY <1>2 DEF Making
  <2>5. QED
    BY <1>3, <2>1, <2>2, <2>3, <2>4, OtherMakers
<1>9. QED
  BY <1>6, <1>7, <1>8 DEF IdInv, Maker

\* The new thread files its handle, which nobody later has had and nobody waits
\* to translate.
LEMMA Id_my_start_routine ==
  ASSUME RaceTypeOK, IdInv, NEW n \in Tid, my_start_routine(n), ~overlap'
  PROVE  IdInv'
<1>0. /\ pc[n] = "born" /\ pc' = [pc EXCEPT ![n] = "idle"] /\ ~HandleMistaken(n)
      /\ pthreadHandleMap' = [pthreadHandleMap EXCEPT ![tid[n]] = handle[n]]
      /\ UNCHANGED <<curr_id, tid, handle, obj, finish_map>>
  BY DEF my_start_routine
<1>1. tid[n] = n /\ handle[n] \in Handle /\ Owns(n)
  BY <1>0 DEF IdInv, Given, Filed, Owns
<1>2. /\ \A i \in Tid : i > n => pthreadHandleMap[i] # handle[n]
      /\ \A t \in Tid : pc[t] = "joining" => handle[obj[t]] # handle[n]
  BY <1>0, <1>1 DEF HandleMistaken, JoinReturned
<1>3. \A u \in Tid : pc'[u] = IF u = n THEN "idle" ELSE pc[u]
  BY <1>0 DEF RaceTypeOK
<1>4. \A u \in Tid : pthreadHandleMap'[u] = IF u = n THEN handle[n] ELSE pthreadHandleMap[u]
  BY <1>0, <1>1 DEF IdInv, IdTypeOK
<1>5. pc[n] = "born" /\ UNCHANGED <<curr_id, tid, handle, obj, finish_map>>
  BY <1>0
<1>6. IdTypeOK'
  BY <1>0, <1>1 DEF IdInv, IdTypeOK
<1>7. ASSUME NEW m \in Tid
      PROVE  Given(m)' /\ Filed(m)' /\ Apart(m)' /\ Found(m)' /\ Unfinished(m)'
  <2>1. Given(m) /\ Filed(m) /\ Apart(m) /\ Found(m) /\ Unfinished(m)
    BY DEF IdInv
  <2>2. Given(m)' /\ Unfinished(m)'
    BY <1>3, <1>5, <2>1 DEF Given, Unfinished
  <2>3. Filed(m)'
    BY <1>1, <1>3, <1>4, <1>5, <2>1 DEF Filed
  <2>4. \A u \in Tid : Owns(u)' <=> Owns(u)
    BY <1>3, <1>5 DEF Owns
  <2>5. Apart(m)'
    BY <1>5, <2>1, <2>4 DEF Apart
  <2>6. ASSUME Owns(m)', pc'[m] # "born" PROVE Latest(m)'
    <3>1. CASE m = n
      BY <1>2, <1>4, <1>5, <3>1 DEF Latest, Tid
    <3>2. CASE m # n
      <4>1. Owns(m) /\ pc[m] # "born" /\ handle[m] # handle[n]
        BY <1>1, <1>3, <2>1, <2>4, <2>6, <3>2 DEF Apart
      <4>2. QED
        BY <1>4, <1>5, <2>1, <4>1 DEF Found, Latest
    <3>3. QED
      BY <3>1, <3>2
  <2>7. ASSUME pc'[m] = "joining" PROVE pc'[obj[m]] = "joined" /\ Latest(obj[m])'
    <3>1. /\ pc[m] = "joining" /\ obj[m] \in Tid /\ pc[obj[m]] = "joined" /\ Latest(obj[m])
      BY <1>3, <2>1, <2>7 DEF RaceTypeOK, Fits, Found
    <3>2. QED
      BY <1>2, <1>3, <1>4, <1>5, <3>1 DEF Latest
  <2>8. Found(m)'
    BY <1>5, <2>6, <2>7 DEF Found, Latest
  <2>9. QED
    BY <2>2, <2>3, <2>5, <2>8
<1>8. ASSUME NEW m \in Tid, pc'[m] \in Making PROVE Maker(m)'
  <2>1. m # n /\ pc'[m] = pc[m] /\ pc[m] \in Making
    BY <1>3, <1>8 DEF Making
  <2>2. obj[m] \in Tid /\ pc[obj[m]] \in {"unborn", "fresh"}
    BY <2>1 DEF RaceTypeOK, Fits, IdInv, Maker
  <2>3. pc'[obj[m]] = pc[obj[m]] /\ pc'[n] \notin Making
    BY <1>3, <1>5, <2>2 DEF Making
  <2>4. \A u \in Tid \ {n} : pc'[u] \in Making => pc[u] \in Making
    BY <1>3
  <2>5. QED
    BY <1>5, <2>1, <2>2, <2>3, <2>4, OtherMakers
<1>9. QED
  BY <1>6, <1>7, <1>8 DEF IdInv, Maker

\* A thread that has ended keeps its handle.
LEMMA IdThreadFinish ==
  ASSUME RaceTypeOK, IdInv, NEW t \in Tid, ThreadFinish(t), getThrID(t) = t
  PROVE  IdInv'
<1>0. /\ pc[t] = "idle" /\ Goes(t, "finished", NoObj) /\ finish_map' = finish_map \cup {t}
      /\ UNCHANGED <<curr_id, pthreadHandleMap, tid, handle>>
  BY DEF ThreadFinish, idVars
<1>1. \A u \in Tid : /\ pc'[u] = IF u = t THEN "finished" ELSE pc[u]
                     /\ u # t => obj'[u] = obj[u]
  BY <1>0, GoesWhere
<1>2. IdTypeOK'
  BY <1>0 DEF IdInv, IdTypeOK
<1>3. ASSUME NEW n \in Tid
      PROVE  Given(n)' /\ Filed(n)' /\ Apart(n)' /\ Found(n)' /\ Unfinished(n)'
  <2>1. Given(n) /\ Filed(n) /\ Apart(n) /\ Found(n) /\ Unfinished(n)
    BY DEF IdInv
  <2>2. Given(n)' /\ Filed(n)' /\ Unfinished(n)'
    BY <1>0, <1>1, <2>1 DEF Given, Filed, Unfinished
  <2>3. Apart(n)'
    BY <1>0, <1>1, <2>1 DEF Apart, Owns
  <2>4. Found(n)'
    <3>1. Owns(n)' /\ pc'[n] # "born" => Latest(n)'
      BY <1>0, <1>1, <2>1 DEF Found, Owns, Latest
    <3>2. ASSUME pc'[n] = "joining"
          PROVE  pc'[obj[n]] = "joined" /\ Latest(obj[n])' /\ obj'[n] = obj[n]
      BY <1>0, <1>1, <2>1, <3>2 DEF Found, Latest, RaceTypeOK, Fits
    <3>3. QED
      BY <3>1, <3>2 DEF Found, Latest
  <2>5. QED
    BY <2>2, <2>3, <2>4
<1>4. ASSUME NEW n \in Tid, pc'[n] \in Making PROVE Maker(n)'
  <2>1. n # t /\ pc[n] \in Making /\ pc'[n] = pc[n] /\ obj'[n] = obj[n] /\ obj[n] \in Tid
    BY <1>1, <1>4 DEF Making, RaceTypeOK, Fits
  <2>2. Maker(n) /\ pc'[obj[n]] = pc[obj[n]]
    BY <1>0, <1>1, <2>1 DEF IdInv, Maker
  <2>3. \A u \in Tid \ {n} : pc'[u] \in Making => obj'[u] # obj'[n]
    BY <1>1, <2>1, <2>2 DEF Maker, Making
  <2>4. QED
    BY <1>0, <2>1, <2>2, <2>3 DEF Maker
<1>5. QED
  BY <1>2, <1>3, <1>4 DEF IdInv, Maker

\* A joined thread's entry stays the highest match of its handle.
LEMMA IdJoin ==
  ASSUME RaceTypeOK, IdInv, NEW t \in Tid, NEW joined \in Tid, Join(t, joined)
  PROVE  IdInv'
<1>0. /\ pc[t] = "idle" /\ pc[joined] = "finished" /\ t # joined
      /\ pc' = [pc EXCEPT ![t] = "joining", ![joined] = "joined"]
      /\ obj' = [obj EXCEPT ![t] = joined]
      /\ UNCHANGED <<curr_id, pthreadHandleMap, tid, handle, finish_map>>
  BY DEF Join, Calls, idVars
<1>1. \A u \in Tid : /\ pc'[u] = IF u = joined THEN "joined" ELSE IF u = t THEN "joining" ELSE pc[u]
                     /\ obj'[u] = IF u = t THEN joined ELSE obj[u]
  <2>1. obj = [u \in Tid |-> obj[u]]
    BY DEF RaceTypeOK
  <2>2. QED
    BY <1>0, <2>1 DEF RaceTypeOK
<1>2. /\ pc[t] = "idle" /\ pc[joined] = "finished" /\ t # joined
      /\ UNCHANGED <<curr_id, pthreadHandleMap, tid, handle, finish_map>>
  BY <1>0
<1>3. IdTypeOK'
  BY <1>2 DEF IdInv, IdTypeOK
<1>4. ASSUME NEW n \in Tid
      PROVE  Given(n)' /\ Filed(n)' /\ Apart(n)' /\ Found(n)' /\ Unfinished(n)'
  <2>1. Given(n) /\ Filed(n) /\ Apart(n) /\ Found(n) /\ Unfinished(n)
    BY DEF IdInv
  <2>2. Given(n)' /\ Filed(n)' /\ Unfinished(n)'
    BY <1>1, <1>2, <2>1 DEF Given, Filed, Unfinished
  <2>3. Apart(n)'
    BY <1>1, <1>2, <2>1 DEF Apart, Owns
  <2>4. Found(n)'
    <3>1. Owns(n)' /\ pc'[n] # "born" => Latest(n)'
      BY <1>1, <1>2, <2>1 DEF Found, Owns, Latest
    <3>2. ASSUME pc'[n] = "joining", n # t
          PROVE  pc'[obj'[n]] = "joined" /\ Latest(obj[n])' /\ obj'[n] = obj[n]
      BY <1>1, <1>2, <2>1, <3>2 DEF Found, Latest, RaceTypeOK, Fits
    <3>3. ASSUME n = t PROVE pc'[obj'[n]] = "joined" /\ Latest(joined)' /\ obj'[n] = joined
      BY <1>1, <1>2, <3>3 DEF IdInv, Found, Owns, Latest
    <3>4. QED
      BY <3>1, <3>2, <3>3 DEF Found, Latest
  <2>5. QED
    BY <2>2, <2>3, <2>4
<1>5. ASSUME NEW n \in Tid, pc'[n] \in Making PROVE Maker(n)'
  <2>1. n # t /\ pc[n] \in Making /\ pc'[n] = pc[n] /\ obj'[n] = obj[n] /\ obj[n] \in Tid
    BY <1>1, <1>5 DEF Making, RaceTypeOK, Fits
  <2>2. Maker(n) /\ pc'[obj[n]] = pc[obj[n]]
    BY <1>1, <1>2, <2>1 DEF IdInv, Maker
  <2>3. \A u \in Tid \ {n} : pc'[u] \in Making => obj'[u] # obj'[n]
    BY <1>1, <2>1, <2>2 DEF Maker, Making
  <2>4. QED
    BY <1>2, <2>1, <2>2, <2>3 DEF Maker
<1>6. QED
  BY <1>3, <1>4, <1>5 DEF IdInv, Maker
-----------------------------------------------------------------------------
(***************************************************************************)
(* Types.                                                                  *)
(***************************************************************************)

\* The trackers of a new process have their types.
LEMMA RaceTypeInit == Init => RaceTypeOK
<1> SUFFICES ASSUME Init PROVE RaceTypeOK
  OBVIOUS
<1>1. ZeroClock \in Clock
  BY DEF ZeroClock, Clock
<1>2. vcs \in [Tid -> Clock] /\ messagemap \in [Cond -> Clock]
  BY <1>1 DEF Init, FirstVcs, Clock
<1>3. /\ past \in [Tid -> SUBSET Nat] /\ message_past \in [Cond -> SUBSET Nat]
      /\ lockmap \in [Tid -> SUBSET Lock]
      /\ eventset \in [Addr -> SUBSET Events] /\ lockeventset \in [Lock -> SUBSET Events]
  BY DEF Init, NoneOf
<1>4. /\ pc \in [Tid -> Places]
      /\ \A t \in Tid : pc[t] \in {"idle", "unborn"}
      /\ obj = [t \in Tid |-> obj[t]]
  BY DEF Init, Places, Plain
<1>5. owner \in [Lock -> Tid \cup {NoThread}] /\ tried \subseteq Lock /\ events \in Nat
                /\ lockrace \in BOOLEAN
  BY DEF Init
<1>6. \A t \in Tid : Fits(pc[t], obj[t])
  BY <1>4 DEF Fits, InWait, Making
<1>7. QED
  BY <1>2, <1>3, <1>4, <1>5, <1>6 DEF RaceTypeOK

\* The part of RaceTypeOK about calls, and the rest of it.
CallsOK ==
  /\ pc \in [Tid -> Places]
  /\ obj = [t \in Tid |-> obj[t]]
  /\ \A t \in Tid : Fits(pc[t], obj[t])

MapsOK ==
  /\ lockrace \in BOOLEAN
  /\ vcs \in [Tid -> Clock] /\ messagemap \in [Cond -> Clock]
  /\ past \in [Tid -> SUBSET Nat] /\ message_past \in [Cond -> SUBSET Nat]
  /\ lockmap \in [Tid -> SUBSET Lock]
  /\ eventset \in [Addr -> SUBSET Events] /\ lockeventset \in [Lock -> SUBSET Events]
  /\ owner \in [Lock -> Tid \cup {NoThread}] /\ tried \subseteq Lock
  /\ events \in Nat

\* RaceTypeOK in two parts, before a step ...
LEMMA TwoParts == RaceTypeOK <=> CallsOK /\ MapsOK
BY DEF RaceTypeOK, CallsOK, MapsOK

\* ... and after it.
LEMMA NewParts ==
  ASSUME CallsOK', MapsOK'
  PROVE  RaceTypeOK'
BY DEF RaceTypeOK, CallsOK, MapsOK

\* A step that moves one thread to a place keeps places and objects typed.
LEMMA GoesTyped ==
  ASSUME CallsOK, NEW t \in Tid, NEW where \in Places, NEW what, Goes(t, where, what),
         Fits(where, what)
  PROVE  CallsOK'
<1>1. pc' = [pc EXCEPT ![t] = where] /\ obj' = [obj EXCEPT ![t] = what]
  BY DEF Goes
<1>2. obj = [u \in Tid |-> obj[u]] /\ pc \in [Tid -> Places]
  BY DEF CallsOK
<1>3. obj' = [u \in Tid |-> IF u = t THEN what ELSE obj[u]]
  BY <1>1, <1>2
<1>4. pc' = [u \in Tid |-> IF u = t THEN where ELSE pc[u]]
  BY <1>1, <1>2
<1>5. pc' \in [Tid -> Places] /\ obj' = [u \in Tid |-> obj'[u]]
  BY <1>2, <1>3, <1>4
<1>6. ASSUME NEW u \in Tid PROVE Fits(pc'[u], obj'[u])
  <2>1. CASE u = t
    <3>1. pc'[u] = where /\ obj'[u] = what
      BY <1>3, <1>4, <2>1
    <3>2. QED
      BY <3>1
  <2>2. CASE u # t
    <3>1. pc'[u] = pc[u] /\ obj'[u] = obj[u] /\ Fits(pc[u], obj[u])
      BY <1>3, <1>4, <2>2 DEF CallsOK
    <3>2. QED
      BY <3>1
  <2>3. QED
    BY <2>1, <2>2
<1>7. QED
  BY <1>5, <1>6 DEF CallsOK

\* A place that says nothing about the object.
Open(where) ==
  where \in Places \ (InWait \cup {"waited", "expired", "locking", "unlocking", "signal", "broadcast"}
                        \cup Making \cup {"starting", "joining"})

\* Any object fits such a place.
LEMMA OpenFits == \A where, what : Open(where) => where \in Places /\ Fits(where, what)
BY DEF Open, Fits

\* A step that keeps the objects, and moves threads to places their objects
\* still fit or that say nothing about them.
LEMMA MovesTyped ==
  ASSUME CallsOK, obj' = obj, pc' = [u \in Tid |-> pc'[u]],
         \A u \in Tid : \/ pc'[u] = pc[u]
                        \/ Open(pc'[u])
                        \/ pc[u] \in InWait /\ pc'[u] \in InWait \cup {"waited", "expired"}
                        \/ pc[u] \in Making /\ pc'[u] \in Making \cup {"starting"}
  PROVE  CallsOK'
<1>1. \A u \in Tid : pc'[u] \in Places /\ Fits(pc'[u], obj[u])
  <2> SUFFICES ASSUME NEW u \in Tid PROVE pc'[u] \in Places /\ Fits(pc'[u], obj[u])
    OBVIOUS
  <2>1. pc[u] \in Places /\ Fits(pc[u], obj[u])
    BY DEF CallsOK
  <2>2. CASE pc'[u] = pc[u]
    BY <2>1, <2>2
  <2>3. CASE Open(pc'[u])
    BY <2>3, OpenFits
  <2>4. CASE pc[u] \in InWait /\ pc'[u] \in InWait \cup {"waited", "expired"}
    BY <2>1, <2>4 DEF Fits, InWait, Making, Places, Plain
  <2>5. CASE pc[u] \in Making /\ pc'[u] \in Making \cup {"starting"}
    BY <2>1, <2>5 DEF Fits, InWait, Making, Places
  <2>6. QED
    BY <2>2, <2>3, <2>4, <2>5
<1>2. pc' \in [Tid -> Places]
  BY <1>1
<1>3. QED
  BY <1>1, <1>2 DEF CallsOK

\* Waking threads keeps places and objects typed.
LEMMA WakeTyped ==
  ASSUME CallsOK, NEW t \in Tid, NEW set \in SUBSET Tid, Wake(t, set),
         \A u \in set : pc[u] = "waiting", pc[t] # "waiting"
  PROVE  CallsOK'
<1>1. /\ pc' = [u \in Tid |-> IF u \in set THEN "woken" ELSE IF u = t THEN "idle" ELSE pc[u]]
      /\ obj' = [obj EXCEPT ![t] = NoObj]
  BY DEF Wake
<1>2. obj = [u \in Tid |-> obj[u]] /\ pc \in [Tid -> Places]
  BY DEF CallsOK
<1>3. obj' = [u \in Tid |-> IF u = t THEN NoObj ELSE obj[u]]
  BY <1>1, <1>2
<1>4. pc' \in [Tid -> Places]
  BY <1>1, <1>2 DEF Places, Plain
<1>5. ASSUME NEW u \in Tid PROVE Fits(pc'[u], obj'[u])
  <2>1. CASE u = t
    <3>1. pc'[u] = "idle"
      BY <1>1, <2>1
    <3>2. QED
      BY <3>1 DEF Fits, InWait, Making
  <2>2. CASE u # t /\ u \in set
    <3>1. pc'[u] = "woken" /\ obj'[u] = obj[u] /\ pc[u] = "waiting" /\ Fits(pc[u], obj[u])
      BY <1>1, <1>3, <2>2 DEF CallsOK
    <3>2. QED
      BY <3>1 DEF Fits, InWait, Making
  <2>3. CASE u # t /\ u \notin set
    <3>1. pc'[u] = pc[u] /\ obj'[u] = obj[u] /\ Fits(pc[u], obj[u])
      BY <1>1, <1>3, <2>3 DEF CallsOK
    <3>2. QED
      BY <3>1
  <2>4. QED
    BY <2>1, <2>2, <2>3
<1>6. QED
  BY <1>3, <1>4, <1>5 DEF CallsOK

\* A step that touches no map.
LEMMA MapsQuiet ==
  ASSUME MapsOK,
         UNCHANGED <<lockrace, vcs, messagemap, past, message_past, lockmap, eventset,
                     lockeventset, owner, tried, events>>
  PROVE  MapsOK'
BY DEF MapsOK

\* Every step of a process whose threads are told apart keeps the types.
LEMMA RaceTypeKept ==
  ASSUME RaceTypeOK, Alive, IdInv, Next, ~overlap'
  PROVE  outputRaces \/ (\E t \in Tid : Exit(t)) \/ RaceTypeOK'
<1> USE DEF clockVars, messageVars, reportVars, realVars, idVars
<1>0. /\ CallsOK /\ MapsOK
      /\ pc \in [Tid -> Places] /\ obj = [t \in Tid |-> obj[t]]
      /\ \A t \in Tid : Fits(pc[t], obj[t])
      /\ vcs \in [Tid -> Clock] /\ past \in [Tid -> SUBSET Nat] /\ events \in Nat
      /\ messagemap \in [Cond -> Clock] /\ message_past \in [Cond -> SUBSET Nat]
  BY TwoParts DEF RaceTypeOK
<1>1. \A t \in Tid :
        /\ pc[t] \in {"idle", "before", "joining", "unlocking", "waited", "expired"} => getThrID(t) = t
        /\ pc[t] = "joining" => translateHandleToTID(handle[obj[t]]) = obj[t]
  BY IdsFound DEF AllIdentified
<1>2. ASSUME NEW t \in Tid, getNextTID(t) PROVE RaceTypeOK'
  <2>1. Goes(t, "next", curr_id + 1) /\ "next" \in Places
    BY <1>2 DEF getNextTID, Places, Making
  <2>2. curr_id + 1 \in Tid
    BY <1>2, RaceAssumption DEF getNextTID, Tid, IdInv, IdTypeOK
  <2>3. Fits("next", curr_id + 1)
    BY <2>2 DEF Fits, InWait, Making
  <2>4. CallsOK'
    BY <1>0, <2>1, <2>3, GoesTyped
  <2>5. MapsOK'
    BY <1>0, <1>2, MapsQuiet DEF getNextTID
  <2>6. QED
    BY <2>4, <2>5, NewParts
<1>3. ASSUME NEW t \in Tid, ReturnCurrId(t) \/ MarkNotStarted(t) \/ CreateThread(t) PROVE RaceTypeOK'
  <2>1. /\ pc[t] \in Making /\ obj' = obj
        /\ \E where \in {"before", "create", "starting"} :
             \/ pc' = [pc EXCEPT ![t] = where]
             \/ pc' = [pc EXCEPT ![t] = where, ![obj[t]] = "born"]
    BY <1>3 DEF ReturnCurrId, MarkNotStarted, CreateThread, Making
  <2>2. PICK where \in Making \cup {"starting"} :
          \A u \in Tid : pc'[u] = pc[u] \/ pc'[u] = "born" \/ (u = t /\ pc'[u] = where)
    BY <1>0, <2>1 DEF Making
  <2>3. pc' = [u \in Tid |-> pc'[u]]
    BY <1>0, <2>1
  <2>4. Open("born")
    BY DEF Open, Places, InWait, Making
  <2>5. CallsOK'
    BY <1>0, <2>1, <2>2, <2>3, <2>4, MovesTyped
  <2>6. MapsOK'
    BY <1>0, <1>3, MapsQuiet DEF ReturnCurrId, MarkNotStarted, CreateThread
  <2>7. QED
    BY <2>5, <2>6, NewParts
<1>4. ASSUME NEW t \in Tid, BeforeCreate(t) PROVE RaceTypeOK'
  <2>1. /\ pc[t] = "before" /\ getThrID(t) = t /\ obj[t] \in Tid /\ tid[obj[t]] \in Tid
    BY <1>0, <1>1, <1>4 DEF BeforeCreate, Fits, Making, IdInv, IdTypeOK
  <2>2. vcs' \in [Tid -> Clock]
    <3>1. PICK c \in Tid :
            vcs' = incrementMyClock(incrementMyClock([vcs EXCEPT ![c] = vcs[t]], t), c)
      BY <1>4, <2>1 DEF BeforeCreate
    <3> DEFINE v1 == [vcs EXCEPT ![c] = vcs[t]]
    <3>2. v1 \in [Tid -> Clock]
      BY <1>0, <3>1
    <3>3. incrementMyClock(v1, t) \in [Tid -> Clock]
      BY <3>2, IncrementEntries
    <3>4. QED
      BY <3>1, <3>3, IncrementEntries
  <2>3. past' \in [Tid -> SUBSET Nat]
    BY <1>0, <1>4 DEF BeforeCreate
  <2>4. /\ pc' = [u \in Tid |-> pc'[u]] /\ obj' = obj
        /\ \A u \in Tid : pc'[u] = pc[u] \/ pc'[u] = "fresh" \/ (u = t /\ pc'[u] = "mark")
    BY <1>0, <1>4 DEF BeforeCreate
  <2>5. Open("fresh") /\ pc[t] \in Making /\ "mark" \in Making
    BY <2>1 DEF Open, Places, InWait, Making
  <2>6. CallsOK'
    BY <1>0, <2>4, <2>5, MovesTyped
  <2>7. MapsOK'
    BY <1>0, <1>4, <2>2, <2>3 DEF BeforeCreate, MapsOK
  <2>8. QED
    BY <2>6, <2>7, NewParts
<1>5. ASSUME NEW t \in Tid, my_start_routine(t) PROVE RaceTypeOK'
  <2>1. /\ pc' = [u \in Tid |-> pc'[u]] /\ obj' = obj
        /\ \A u \in Tid : pc'[u] = pc[u] \/ pc'[u] = "idle"
    BY <1>0, <1>5 DEF my_start_routine
  <2>2. Open("idle")
    BY DEF Open, Places, Plain, InWait, Making
  <2>3. CallsOK'
    BY <1>0, <2>1, <2>2, MovesTyped
  <2>4. MapsOK'
    BY <1>0, <1>5, MapsQuiet DEF my_start_routine
  <2>5. QED
    BY <2>3, <2>4, NewParts
<1>6. ASSUME NEW t \in Tid,
             ReturnFromCreate(t) \/ ThreadFinish(t) \/ Acquire(t) \/ AfterMutexUnlock(t)
      PROVE  RaceTypeOK'
  <2>1. PICK where \in {"idle", "finished"} : Goes(t, where, NoObj)
    BY <1>6 DEF ReturnFromCreate, ThreadFinish, Acquire, AfterMutexUnlock
  <2>2. Open(where)
    BY DEF Open, Places, Plain, InWait, Making
  <2>3. CallsOK'
    BY <1>0, <2>1, <2>2, OpenFits, GoesTyped
  <2>4. CASE ReturnFromCreate(t) \/ ThreadFinish(t)
    <3>1. MapsOK'
      BY <1>0, <2>4, MapsQuiet DEF ReturnFromCreate, ThreadFinish
    <3>2. QED
      BY <2>3, <3>1, NewParts
  <2>5. CASE Acquire(t)
    <3>1. obj[t] \in Lock
      BY <1>0, <2>5 DEF Acquire, Fits
    <3>2. MapsOK'
      BY <1>0, <2>5, <3>1 DEF Acquire, MapsOK
    <3>3. QED
      BY <2>3, <3>2, NewParts
  <2>6. CASE AfterMutexUnlock(t)
    <3>1. MapsOK'
      BY <1>0, <2>6 DEF AfterMutexUnlock, MapsOK
    <3>2. QED
      BY <2>3, <3>1, NewParts
  <2>7. QED
    BY <1>6, <2>4, <2>5, <2>6
<1>7. ASSUME NEW t \in Tid, NEW joined \in Tid, Join(t, joined) PROVE RaceTypeOK'
  <2>1. /\ pc' = [pc EXCEPT ![t] = "joining", ![joined] = "joined"]
        /\ obj' = [obj EXCEPT ![t] = joined]
        /\ pc[t] = "idle" /\ pc[joined] = "finished"
    BY <1>7 DEF Join, Calls
  <2>2. /\ obj' = [u \in Tid |-> IF u = t THEN joined ELSE obj[u]]
        /\ pc' = [u \in Tid |-> IF u = t THEN "joining" ELSE IF u = joined THEN "joined" ELSE pc[u]]
    BY <1>0, <2>1
  <2>3. pc' \in [Tid -> Places]
    BY <1>0, <2>2 DEF Places
  <2>4. ASSUME NEW u \in Tid PROVE Fits(pc'[u], obj'[u])
    <3>1. Fits("joining", joined) /\ \A what : Fits("joined", what)
      BY DEF Fits, InWait, Making
    <3>2. CASE u = t
      <4>1. pc'[u] = "joining" /\ obj'[u] = joined
        BY <2>2, <3>2
      <4>2. QED
        BY <3>1, <4>1
    <3>3. CASE u # t /\ u = joined
      <4>1. pc'[u] = "joined"
        BY <2>2, <3>3
      <4>2. QED
        BY <3>1, <4>1
    <3>4. CASE u # t /\ u # joined
      <4>1. pc'[u] = pc[u] /\ obj'[u] = obj[u] /\ Fits(pc[u], obj[u])
        BY <1>0, <2>2, <3>4
      <4>2. QED
        BY <4>1
    <3>5. QED
      BY <3>2, <3>3, <3>4
  <2>5. CallsOK'
    <3>1. obj' = [u \in Tid |-> obj'[u]]
      BY <2>2
    <3>2. QED
      BY <2>3, <2>4, <3>1 DEF CallsOK
  <2>6. MapsOK'
    BY <1>0, <1>7, MapsQuiet DEF Join
  <2>7. QED
    BY <2>5, <2>6, NewParts
<1>8. ASSUME NEW t \in Tid, AfterJoin(t) PROVE RaceTypeOK'
  <2>1. /\ Goes(t, "idle", NoObj) /\ Open("idle")
        /\ getThrID(t) = t /\ obj[t] \in Tid /\ translateHandleToTID(handle[obj[t]]) = obj[t]
    BY <1>0, <1>1, <1>8 DEF AfterJoin, Open, Places, Plain, InWait, Making, Fits
  <2>2. CallsOK'
    BY <1>0, <2>1, OpenFits, GoesTyped
  <2>3. vcs' \in [Tid -> Clock]
    <3>1. vcs[obj[t]] \in Clock /\ vcs' = receiveMessage(vcs, t, vcs[obj[t]])
      BY <1>0, <1>8, <2>1 DEF AfterJoin
    <3>2. QED
      BY <1>0, <3>1, ReceiveEntries
  <2>4. past' \in [Tid -> SUBSET Nat]
    BY <1>0, <1>8, <2>1 DEF AfterJoin
  <2>5. MapsOK'
    BY <1>0, <1>8, <2>3, <2>4 DEF AfterJoin, MapsOK
  <2>6. QED
    BY <2>2, <2>5, NewParts
<1>9. ASSUME NEW t \in Tid, NEW l \in Lock, NEW i \in Iid, BeforeMutexLock(t, l, i)
      PROVE  RaceTypeOK'
  <2>1. Goes(t, "locking", l) /\ "locking" \in Places /\ Fits("locking", l) /\ getThrID(t) = t
    BY <1>1, <1>9 DEF BeforeMutexLock, Calls, Places, Plain, Fits, InWait, Making
  <2>2. CallsOK'
    BY <1>0, <2>1, GoesTyped
  <2>3. PICK e : e = Event(t, i, FALSE)
    OBVIOUS
  <2>4. e \in Events /\ e.id = events
    BY <2>1, <2>3, EventTyped
  <2>5. /\ \/ lockeventset' = [lockeventset EXCEPT ![l] = @ \cup {e}]
           \/ lockeventset' = lockeventset
        /\ past' = [past EXCEPT ![t] = @ \cup {e.id}]
    BY <1>9, <2>3 DEF BeforeMutexLock
  <2>6. lockeventset' \in [Lock -> SUBSET Events] /\ past' \in [Tid -> SUBSET Nat]
    BY <1>0, <2>4, <2>5 DEF MapsOK
  <2>7. lockmap' \in [Tid -> SUBSET Lock] /\ events' \in Nat
    BY <1>0, <1>9, <2>1 DEF BeforeMutexLock, MapsOK
  <2>8. MapsOK'
    BY <1>0, <1>9, <2>6, <2>7 DEF BeforeMutexLock, MapsOK
  <2>9. QED
    BY <2>2, <2>8, NewParts
<1>10. ASSUME NEW t \in Tid, NEW a \in Addr, NEW i \in Iid, NEW isread \in BOOLEAN,
              myMemoryAccess(t, a, i, isread)
       PROVE  RaceTypeOK'
  <2>1. PICK e : e = Event(t, i, isread)
    OBVIOUS
  <2>2. e \in Events /\ e.id = events
    BY <1>1, <1>10, <2>1, EventTyped DEF myMemoryAccess, Calls
  <2>3. /\ \/ eventset' = [eventset EXCEPT ![a] = @ \cup {e}]
           \/ eventset' = eventset
        /\ past' = [past EXCEPT ![t] = @ \cup {e.id}]
    BY <1>10, <2>1 DEF myMemoryAccess
  <2>4. eventset' \in [Addr -> SUBSET Events] /\ past' \in [Tid -> SUBSET Nat]
    BY <1>0, <2>2, <2>3 DEF MapsOK
  <2>5. MapsOK' /\ UNCHANGED <<pc, obj>>
    BY <1>0, <1>10, <2>4 DEF myMemoryAccess, MapsOK
  <2>6. CallsOK'
    BY <1>0, <2>5 DEF CallsOK
  <2>7. QED
    BY <2>5, <2>6, NewParts
<1>11. ASSUME NEW t \in Tid, NEW l \in Lock, Trylock(t, l) PROVE RaceTypeOK'
  <2>1. CallsOK' /\ MapsOK'
    BY <1>0, <1>11 DEF Trylock, CallsOK, MapsOK
  <2>2. QED
    BY <2>1, NewParts
<1>12. ASSUME NEW t \in Tid, NEW l \in Lock, Unlock(t, l) PROVE RaceTypeOK'
  <2>1. Goes(t, "unlocking", l) /\ "unlocking" \in Places /\ Fits("unlocking", l)
    BY <1>12 DEF Unlock, Places, Plain, Fits, InWait, Making
  <2>2. CallsOK'
    BY <1>0, <2>1, GoesTyped
  <2>3. MapsOK'
    BY <1>0, <1>12 DEF Unlock, MapsOK
  <2>4. QED
    BY <2>2, <2>3, NewParts
<1>13. ASSUME NEW t \in Tid, NEW l \in Lock, NEW c \in Cond, Wait(t, c, l) PROVE RaceTypeOK'
  <2>1. Goes(t, "waiting", <<c, l>>) /\ "waiting" \in Places /\ Fits("waiting", <<c, l>>)
    BY <1>13 DEF Wait, Places, Plain, Fits, InWait, Making
  <2>2. CallsOK'
    BY <1>0, <2>1, GoesTyped
  <2>3. MapsOK'
    BY <1>0, <1>13 DEF Wait, MapsOK
  <2>4. QED
    BY <2>2, <2>3, NewParts
<1>14. ASSUME NEW t \in Tid, TimeOut(t) PROVE RaceTypeOK'
  <2>1. /\ pc' = [u \in Tid |-> pc'[u]] /\ obj' = obj
        /\ \A u \in Tid : pc'[u] = pc[u] \/ (pc'[u] = "timedout" /\ pc[u] = "waiting")
    BY <1>0, <1>14 DEF TimeOut
  <2>2. CallsOK'
    BY <1>0, <2>1, MovesTyped DEF InWait
  <2>3. MapsOK'
    BY <1>0, <1>14, MapsQuiet DEF TimeOut
  <2>4. QED
    BY <2>2, <2>3, NewParts
<1>15. ASSUME NEW t \in Tid, Reacquire(t) PROVE RaceTypeOK'
  <2>1. /\ pc[t] \in {"woken", "timedout"} /\ obj' = obj
        /\ pc' = [pc EXCEPT ![t] = IF pc[t] = "woken" THEN "waited" ELSE "expired"]
    BY <1>15 DEF Reacquire
  <2>2. /\ pc' = [u \in Tid |-> pc'[u]]
        /\ \A u \in Tid : \/ pc'[u] = pc[u]
                          \/ pc'[u] \in {"waited", "expired"} /\ pc[u] \in {"woken", "timedout"}
    BY <1>0, <2>1
  <2>3. CallsOK'
    BY <1>0, <2>1, <2>2, MovesTyped DEF InWait
  <2>4. obj[t][2] \in Lock
    BY <1>0, <2>1 DEF Fits, InWait
  <2>5. MapsOK'
    BY <1>0, <1>15, <2>4 DEF Reacquire, MapsOK
  <2>6. QED
    BY <2>3, <2>5, NewParts
<1>16. ASSUME NEW t \in Tid, AfterCondWait(t) PROVE RaceTypeOK'
  <2>1. /\ Goes(t, "idle", NoObj) /\ Open("idle")
        /\ getThrID(t) = t /\ obj[t][1] \in Cond
    BY <1>0, <1>1, <1>16 DEF AfterCondWait, Open, Places, Plain, InWait, Making, Fits
  <2>2. CallsOK'
    BY <1>0, <2>1, OpenFits, GoesTyped
  <2>3. vcs' \in [Tid -> Clock] /\ past' \in [Tid -> SUBSET Nat]
    <3>1. CASE lockrace \/ pc[t] = "expired"
      BY <1>0, <1>16, <3>1 DEF AfterCondWait
    <3>2. CASE ~(lockrace \/ pc[t] = "expired")
      <4>1. /\ vcs' = receiveMessage(vcs, t, messagemap[obj[t][1]])
            /\ past' = [past EXCEPT ![t] = @ \cup wake_past[t]]
            /\ wake_past[t] = message_past[obj[t][1]]
        BY <1>16, <2>1, <3>2 DEF AfterCondWait
      <4>2. messagemap[obj[t][1]] \in Clock /\ wake_past[t] \in SUBSET Nat
        BY <1>0, <2>1, <4>1
      <4>3. QED
        BY <1>0, <4>1, <4>2, ReceiveEntries
    <3>3. QED
      BY <3>1, <3>2
  <2>4. MapsOK'
    BY <1>0, <1>16, <2>3 DEF AfterCondWait, MapsOK
  <2>5. QED
    BY <2>2, <2>4, NewParts
<1>17. ASSUME NEW t \in Tid, NEW c \in Cond, NEW how \in {"signal", "broadcast"},
              BeforeCondSignal(t, c, how)
       PROVE  RaceTypeOK'
  <2>1. Goes(t, how, c) /\ how \in Places /\ Fits(how, c) /\ getThrID(t) = t
    BY <1>1, <1>17 DEF BeforeCondSignal, Calls, Places, Plain, Fits, InWait, Making
  <2>2. CallsOK'
    BY <1>0, <2>1, GoesTyped
  <2>3. /\ vcs' \in [Tid -> Clock] /\ past' \in [Tid -> SUBSET Nat]
        /\ messagemap' \in [Cond -> Clock] /\ message_past' \in [Cond -> SUBSET Nat]
    <3>1. CASE lockrace
      BY <1>0, <1>17, <3>1 DEF BeforeCondSignal
    <3>2. CASE ~lockrace
      <4>1. vcs[t] \in Clock /\ past[t] \in SUBSET Nat
        BY <1>0
      <4>2. vcs' \in [Tid -> Clock]
        <5>1. vcs' = incrementMyClock(vcs, t)
          BY <1>17, <2>1, <3>2 DEF BeforeCondSignal
        <5>2. QED
          BY <1>0, <5>1, IncrementEntries
      <4>3. QED
        BY <1>0, <1>17, <2>1, <3>2, <4>1, <4>2 DEF BeforeCondSignal
    <3>3. QED
      BY <3>1, <3>2
  <2>4. MapsOK'
    BY <1>0, <1>17, <2>3 DEF BeforeCondSignal, MapsOK
  <2>5. QED
    BY <2>2, <2>4, NewParts
<1>18. ASSUME NEW t \in Tid, Signal(t) \/ Broadcast(t) PROVE RaceTypeOK'
  <2>1. WaitersOf(obj[t]) \subseteq Tid /\ \A u \in WaitersOf(obj[t]) : pc[u] = "waiting"
    BY DEF WaitersOf
  <2>2. pc[t] # "waiting"
    BY <1>18 DEF Signal, Broadcast
  <2>3. PICK set \in SUBSET WaitersOf(obj[t]) : Wake(t, set)
    BY <1>18 DEF Signal, Broadcast
  <2>4. CallsOK'
    BY <1>0, <2>1, <2>2, <2>3, WakeTyped
  <2>5. MapsOK'
    BY <1>0, <2>3, MapsQuiet DEF Wake
  <2>6. QED
    BY <2>4, <2>5, NewParts
<1>19. QED
  BY <1>2, <1>3, <1>4, <1>5, <1>6, <1>7, <1>8, <1>9, <1>10, <1>11, <1>12, <1>13,
     <1>14, <1>15, <1>16, <1>17, <1>18 DEF Next

\* A process that ends leaves typed trackers.
LEMMA TypesAtTheEnd ==
  ASSUME RaceTypeOK, outputRaces
  PROVE  RaceTypeOK'
<1>0. ProcessEnds("ended")
  BY DEF outputRaces
<1>1. ZeroClock \in Clock
  BY DEF ZeroClock, Clock
<1>2. vcs' \in [Tid -> Clock] /\ messagemap' \in [Cond -> Clock]
  BY <1>0, <1>1 DEF ProcessEnds, FirstVcs, Clock
<1>3. /\ past' \in [Tid -> SUBSET Nat] /\ message_past' \in [Cond -> SUBSET Nat]
      /\ lockmap' \in [Tid -> SUBSET Lock]
  BY <1>0 DEF ProcessEnds, NoneOf
<1>4. /\ pc' \in [Tid -> Places] /\ obj' = [u \in Tid |-> obj'[u]]
      /\ \A t \in Tid : pc'[t] = "ended"
  BY <1>0 DEF ProcessEnds, Places
<1>5. /\ owner' \in [Lock -> Tid \cup {NoThread}] /\ tried' \subseteq Lock /\ events' \in Nat
      /\ UNCHANGED <<lockrace, eventset, lockeventset>>
  BY <1>0 DEF ProcessEnds
<1>6. \A t \in Tid : Fits(pc'[t], obj'[t])
  BY <1>4 DEF Fits, InWait, Making
<1>7. CallsOK' /\ MapsOK'
  BY <1>2, <1>3, <1>4, <1>5, <1>6 DEF RaceTypeOK, CallsOK, MapsOK
<1>8. QED
  BY <1>7, NewParts

-----------------------------------------------------------------------------
(***************************************************************************)
(* Clocks and what comes with them, of a set E of events.                  *)
(***************************************************************************)

\* The larger of two clocks goes with what both have heard of.
LEMMA InformedMerge ==
  ASSUME NEW E \in SUBSET Events, NEW v \in Clock, NEW w \in Clock, NEW m \in Clock,
         NEW p, NEW q, Informed(E, v, p), Informed(E, w, q),
         \A x \in Tid : m[x] = IF v[x] <= w[x] THEN w[x] ELSE v[x]
  PROVE  Informed(E, m, p \cup q)
<1> SUFFICES ASSUME NEW e \in E
             PROVE  Knows(m, p \cup q, e) /\ Dominates(m, e)
  BY DEF Informed
<1>1. e.thread \in Tid /\ e.vc \in Clock
  BY DEF Events
<1>2. e.vc[e.thread] \in Nat /\ \A x \in Tid : v[x] \in Nat /\ w[x] \in Nat /\ e.vc[x] \in Nat
  BY <1>1 DEF Clock
<1>3. Knows(v, p, e) /\ Dominates(v, e) /\ Knows(w, q, e) /\ Dominates(w, e)
  BY DEF Informed
<1>4. Knows(m, p \cup q, e)
  BY <1>1, <1>2, <1>3 DEF Knows
<1>5. Dominates(m, e)
  BY <1>1, <1>2, <1>3 DEF Dominates, isHappensBefore
<1>6. QED
  BY <1>4, <1>5

\* A clock may count on at a thread all of whose events it has heard of.
LEMMA InformedAdvance ==
  ASSUME NEW E \in SUBSET Events, NEW v \in Clock, NEW m \in Clock, NEW p, Informed(E, v, p),
         \A x \in Tid : v[x] <= m[x],
         \A e \in E : m[e.thread] = v[e.thread] \/ e.vc[e.thread] <= v[e.thread]
  PROVE  Informed(E, m, p)
<1> SUFFICES ASSUME NEW e \in E
             PROVE  Knows(m, p, e) /\ Dominates(m, e)
  BY DEF Informed
<1>1. e.thread \in Tid /\ e.vc \in Clock
  BY DEF Events
<1>2. e.vc[e.thread] \in Nat /\ \A x \in Tid : v[x] \in Nat /\ m[x] \in Nat /\ e.vc[x] \in Nat
  BY <1>1 DEF Clock
<1>3. Knows(v, p, e) /\ Dominates(v, e)
  BY DEF Informed
<1>4. e.vc[e.thread] <= m[e.thread] <=> e.vc[e.thread] <= v[e.thread]
  BY <1>1, <1>2
<1>5. QED
  BY <1>1, <1>2, <1>3, <1>4 DEF Knows, Dominates, isHappensBefore

\* A new event, of which a clock has not heard.
LEMMA InformedUnheard ==
  ASSUME NEW E \in SUBSET Events, NEW F \in SUBSET Events, NEW v \in Clock, NEW p,
         Informed(E, v, p),
         NEW e \in Events, F \subseteq E \cup {e},
         e.id \notin p, v[e.thread] < e.vc[e.thread]
  PROVE  Informed(F, v, p)
<1>1. e.thread \in Tid /\ e.vc \in Clock
  BY DEF Events
<1>2. e.vc[e.thread] \in Nat /\ v[e.thread] \in Nat
  BY <1>1 DEF Clock
<1>3. Knows(v, p, e) /\ Dominates(v, e)
  BY <1>2 DEF Knows, Dominates
<1>4. QED
  BY <1>3 DEF Informed

\* A new event, recorded with the clock it is to be compared with.
LEMMA InformedOwn ==
  ASSUME NEW E \in SUBSET Events, NEW F \in SUBSET Events, NEW v \in Clock, NEW p,
         Informed(E, v, p),
         NEW e \in Events, F \subseteq E \cup {e},
         e.vc = v, \A f \in E : f.id # e.id
  PROVE  Informed(F, v, p \cup {e.id})
<1>1. e.thread \in Tid /\ \A x \in Tid : v[x] \in Nat
  BY DEF Events, Clock
<1>2. Knows(v, p \cup {e.id}, e) /\ Dominates(v, e)
  BY <1>1 DEF Knows, Dominates, isHappensBefore
<1>3. \A f \in E : Knows(v, p \cup {e.id}, f) /\ Dominates(v, f)
  BY DEF Informed, Knows
<1>4. QED
  BY <1>2, <1>3 DEF Informed

-----------------------------------------------------------------------------
(***************************************************************************)
(* The clocks of a step.                                                   *)
(***************************************************************************)

\* No thread is born, ends or returns from being joined.
MovesOn ==
  \A u \in Tid : /\ pc'[u] = "unborn" <=> pc[u] = "unborn"
                 /\ pc[u] = "joined" => pc'[u] = "joined"
                 /\ pc'[u] \notin {"ended", "exited"}

\* A step that touches no clock and records nothing.
LEMMA ClockQuiet ==
  ASSUME RaceTypeOK, Alive, ClockInv, MovesOn,
         UNCHANGED <<vcs, past, messagemap, message_past, eventset, lockeventset, events>>
  PROVE  ClockInv'
<1>1. AllEvents' = AllEvents
  BY NothingKept
<1>2. \A t \in Tid : Informed(AllEvents', vcs'[t], past'[t]) /\ Happened(past[t])' /\ Unheard(t)'
  BY <1>1 DEF ClockInv, Happened, Unheard, MovesOn
<1>3. \A c \in Cond : /\ Informed(AllEvents', messagemap'[c], message_past'[c])
                      /\ Happened(message_past[c])'
  BY <1>1 DEF ClockInv, Happened
<1>4. \A e \in AllEvents' : Recorded(e)' /\ e.id < events' /\ Happened(e.past)'
  <2>1. \A e \in AllEvents' : e.thread \in Tid
    BY <1>1, KeptTyped DEF Events
  <2>2. QED
    BY <1>1, <2>1 DEF ClockInv, Recorded, Happened, MovesOn
<1>5. OwnLeads'
  BY DEF ClockInv, OwnLeads, MovesOn, Alive
<1>6. QED
  BY <1>2, <1>3, <1>4, <1>5 DEF ClockInv

\* A step that receives a message: clock v with the events in p.
LEMMA ClockReceive ==
  ASSUME RaceTypeOK, Alive, ClockInv, MovesOn,
         UNCHANGED <<messagemap, message_past, eventset, lockeventset, events>>,
         NEW t \in Tid, NEW v \in Clock, NEW p,
         Informed(AllEvents, v, p), Happened(p),
         vcs' = receiveMessage(vcs, t, v), past' = [past EXCEPT ![t] = @ \cup p],
         \A u \in Tid : /\ pc[u] = "unborn" => v[u] = 0
                        /\ pc'[u] \notin {"unborn", "ended", "exited", "joined"} => v[u] < vcs[u][u]
  PROVE  ClockInv'
<1>1. AllEvents' = AllEvents
  BY NothingKept
<1>2. AllEvents \subseteq Events
  BY KeptTyped
<1>3. /\ vcs \in [Tid -> Clock] /\ past \in [Tid -> SUBSET Nat]
      /\ \A x, y \in Tid : vcs[x][y] \in Nat /\ v[y] \in Nat
      /\ \A c \in Cond, y \in Tid : messagemap[c][y] \in Nat
  BY DEF RaceTypeOK, Clock
<1>4. /\ vcs' \in [Tid -> Clock]
      /\ \A u, w \in Tid : vcs'[u][w] = IF u = t /\ vcs[u][w] <= v[w] THEN v[w] ELSE vcs[u][w]
  <2> DEFINE new == receiveMessage(vcs, t, v)
  <2>1. /\ new \in [Tid -> Clock]
        /\ \A u, w \in Tid : new[u][w] = IF u = t /\ vcs[u][w] <= v[w] THEN v[w] ELSE vcs[u][w]
    BY <1>3, ReceiveEntries
  <2>2. vcs' = new
    OBVIOUS
  <2> HIDE DEF new
  <2>3. QED
    BY <2>1, <2>2
<1>5. \A u \in Tid : u # t => vcs'[u] = vcs[u] /\ past'[u] = past[u]
  BY <1>3 DEF receiveMessage
<1>6. past'[t] = past[t] \cup p
  BY <1>3
<1>7. \A u \in Tid : Informed(AllEvents', vcs'[u], past'[u])
  <2>1. Informed(AllEvents, vcs[t], past[t])
    BY DEF ClockInv
  <2>2. /\ vcs[t] \in Clock /\ vcs'[t] \in Clock
        /\ \A x \in Tid : vcs'[t][x] = IF vcs[t][x] <= v[x] THEN v[x] ELSE vcs[t][x]
    BY <1>3, <1>4
  <2>3. Informed(AllEvents, vcs'[t], past[t] \cup p)
    BY <1>2, <2>1, <2>2, InformedMerge
  <2>4. QED
    BY <1>1, <1>5, <1>6, <2>3 DEF ClockInv
<1>8. \A u \in Tid : Happened(past[u])' /\ Unheard(u)'
  <2>1. \A u \in Tid : Happened(past[u])'
    BY <1>5, <1>6 DEF ClockInv, Happened
  <2>2. ASSUME NEW u \in Tid, pc'[u] = "unborn"
        PROVE  (\A w \in Tid : vcs'[w][u] = 0) /\ (\A c \in Cond : messagemap'[c][u] = 0)
    <3>1. v[u] = 0 /\ (\A w \in Tid : vcs[w][u] = 0) /\ (\A c \in Cond : messagemap[c][u] = 0)
      BY <2>2 DEF MovesOn, ClockInv, Unheard
    <3>2. QED
      BY <1>4, <3>1
  <2>3. QED
    BY <2>1, <2>2 DEF Unheard
<1>9. \A c \in Cond : /\ Informed(AllEvents', messagemap'[c], message_past'[c])
                      /\ Happened(message_past[c])'
  BY <1>1 DEF ClockInv, Happened
<1>10. ASSUME NEW e \in AllEvents'
       PROVE  Recorded(e)' /\ e.id < events' /\ Happened(e.past)'
  <2>1. e \in AllEvents /\ e \in Events /\ e.thread \in Tid
    BY <1>1, <1>2 DEF Events
  <2>2. Recorded(e) /\ e.id < events /\ Happened(e.past)
    BY <2>1 DEF ClockInv
  <2>3. \A x \in Tid : e.vc[x] \in Nat /\ e.vc[x] <= vcs[e.thread][x]
    BY <2>1, <2>2 DEF Recorded, isHappensBefore, Events, Clock
  <2>4. \A x \in Tid : e.vc[x] <= vcs'[e.thread][x]
    BY <1>3, <1>4, <2>1, <2>3
  <2>5. QED
    BY <2>1, <2>2, <2>4 DEF Recorded, isHappensBefore, Happened, MovesOn
<1>11. OwnLeads'
  <2> SUFFICES ASSUME NEW s \in Tid, pc'[s] \notin {"unborn", "ended", "exited", "joined"}
               PROVE  /\ \A u \in Tid \ {s} : vcs'[u][s] < vcs'[s][s]
                      /\ \A c \in Cond : messagemap'[c][s] < vcs'[s][s]
    BY DEF OwnLeads
  <2>1. /\ \A u \in Tid \ {s} : vcs[u][s] < vcs[s][s]
        /\ \A c \in Cond : messagemap[c][s] < vcs[s][s]
    BY DEF ClockInv, OwnLeads, MovesOn, Alive
  <2>2. v[s] < vcs[s][s]
    OBVIOUS
  <2>3. vcs'[s][s] = vcs[s][s]
    BY <1>3, <1>4, <2>2
  <2>4. QED
    BY <1>3, <1>4, <2>1, <2>2, <2>3
<1>12. QED
  BY <1>7, <1>8, <1>9, <1>10, <1>11 DEF ClockInv

\* A thread's own clock is never behind its events.
LEMMA OwnEventsHeard ==
  ASSUME RaceTypeOK, ClockInv, NEW e \in AllEvents
  PROVE  /\ e \in Events /\ e.thread \in Tid
         /\ \A x \in Tid : e.vc[x] \in Nat /\ e.vc[x] <= vcs[e.thread][x]
<1>1. e \in Events
  BY KeptTyped
<1>2. e.thread \in Tid /\ e.vc \in Clock
  BY <1>1 DEF Events
<1>3. QED
  BY <1>1, <1>2 DEF ClockInv, Recorded, isHappensBefore, Clock

\* A step that leaves its clock at a condition variable and counts on.
LEMMA ClockSend ==
  ASSUME RaceTypeOK, Alive, ClockInv, MovesOn, NEW t \in Tid, NEW c \in Cond, pc[t] = "idle",
         messagemap' = [messagemap EXCEPT ![c] = vcs[t]],
         message_past' = [message_past EXCEPT ![c] = past[t]],
         vcs' = incrementMyClock(vcs, t),
         UNCHANGED <<past, eventset, lockeventset, events>>
  PROVE  ClockInv'
<1>1. AllEvents' = AllEvents /\ AllEvents \subseteq Events
  BY NothingKept, KeptTyped
<1>2. /\ vcs \in [Tid -> Clock] /\ messagemap \in [Cond -> Clock]
      /\ message_past \in [Cond -> SUBSET Nat]
      /\ \A x, y \in Tid : vcs[x][y] \in Nat
      /\ \A d \in Cond, y \in Tid : messagemap[d][y] \in Nat
  BY DEF RaceTypeOK, Clock
<1>3. /\ vcs' \in [Tid -> Clock]
      /\ \A u, w \in Tid : vcs'[u][w] = IF u = t /\ w = t THEN vcs[u][w] + 1 ELSE vcs[u][w]
  <2> DEFINE new == incrementMyClock(vcs, t)
  <2>1. /\ new \in [Tid -> Clock]
        /\ \A u, w \in Tid : new[u][w] = IF u = t /\ w = t THEN vcs[u][w] + 1 ELSE vcs[u][w]
    BY <1>2, IncrementEntries
  <2>2. vcs' = new
    OBVIOUS
  <2> HIDE DEF new
  <2>3. QED
    BY <2>1, <2>2
<1>4. /\ \A d \in Cond : messagemap'[d] = IF d = c THEN vcs[t] ELSE messagemap[d]
      /\ \A d \in Cond : message_past'[d] = IF d = c THEN past[t] ELSE message_past[d]
  BY <1>2
<1>5. ASSUME NEW u \in Tid PROVE Informed(AllEvents', vcs'[u], past'[u])
  <2>1. /\ vcs[u] \in Clock /\ vcs'[u] \in Clock /\ Informed(AllEvents, vcs[u], past[u])
        /\ \A x \in Tid : vcs[u][x] <= vcs'[u][x]
    BY <1>2, <1>3 DEF ClockInv
  <2>2. ASSUME NEW e \in AllEvents
        PROVE  vcs'[u][e.thread] = vcs[u][e.thread] \/ e.vc[e.thread] <= vcs[u][e.thread]
    BY <1>3, OwnEventsHeard
  <2>3. QED
    BY <1>1, <2>1, <2>2, InformedAdvance
<1>6. \A d \in Cond : /\ Informed(AllEvents', messagemap'[d], message_past'[d])
                      /\ Happened(message_past[d])'
  BY <1>1, <1>4 DEF ClockInv, Happened
<1>7. \A u \in Tid : Happened(past[u])' /\ Unheard(u)'
  <2>1. ASSUME NEW u \in Tid, pc'[u] = "unborn"
        PROVE  (\A w \in Tid : vcs'[w][u] = 0) /\ (\A d \in Cond : messagemap'[d][u] = 0)
    <3>1. (\A w \in Tid : vcs[w][u] = 0) /\ (\A d \in Cond : messagemap[d][u] = 0) /\ u # t
      BY <2>1 DEF MovesOn, ClockInv, Unheard
    <3>2. QED
      BY <1>3, <1>4, <3>1
  <2>2. QED
    BY <2>1 DEF ClockInv, Happened, Unheard
<1>8. ASSUME NEW e \in AllEvents'
      PROVE  Recorded(e)' /\ e.id < events' /\ Happened(e.past)'
  <2>1. /\ e \in AllEvents /\ e.thread \in Tid
        /\ \A x \in Tid : e.vc[x] \in Nat /\ e.vc[x] <= vcs[e.thread][x]
    BY <1>1, OwnEventsHeard
  <2>2. Recorded(e) /\ e.id < events /\ Happened(e.past)
    BY <2>1 DEF ClockInv
  <2>3. \A x \in Tid : e.vc[x] <= vcs'[e.thread][x]
    BY <1>2, <1>3, <2>1
  <2>4. QED
    BY <2>1, <2>2, <2>3 DEF Recorded, isHappensBefore, Happened, MovesOn
<1>9. OwnLeads'
  <2> SUFFICES ASSUME NEW s \in Tid, pc'[s] \notin {"unborn", "ended", "exited", "joined"}
               PROVE  /\ \A u \in Tid \ {s} : vcs'[u][s] < vcs'[s][s]
                      /\ \A d \in Cond : messagemap'[d][s] < vcs'[s][s]
    BY DEF OwnLeads
  <2>1. /\ \A u \in Tid \ {s} : vcs[u][s] < vcs[s][s]
        /\ \A d \in Cond : messagemap[d][s] < vcs[s][s]
    BY DEF ClockInv, OwnLeads, MovesOn, Alive
  <2>2. \A u \in Tid \ {s} : vcs'[u][s] < vcs'[s][s]
    BY <1>2, <1>3, <2>1
  <2>3. ASSUME NEW d \in Cond PROVE messagemap'[d][s] < vcs'[s][s]
    BY <1>2, <1>3, <1>4, <2>1
  <2>4. QED
    BY <2>2, <2>3
<1>10. QED
  BY <1>5, <1>6, <1>7, <1>8, <1>9 DEF ClockInv

\* BeforeCreate: the child starts with the creator's clock, and both count on.
LEMMA ClockCreate ==
  ASSUME RaceTypeOK, Alive, ClockInv, NEW t \in Tid, NEW child \in Tid, BeforeCreate(t),
         getThrID(t) = t, obj[t] = child, tid[child] = child, pc[child] = "unborn"
  PROVE  ClockInv'
<1>0. /\ pc[t] = "before" /\ pc[child] = "unborn" /\ t # child
      /\ UNCHANGED <<messagemap, message_past, eventset, lockeventset, events>>
  BY DEF BeforeCreate, messageVars
<1>1. AllEvents' = AllEvents /\ AllEvents \subseteq Events
  BY <1>0, NothingKept, KeptTyped
<1>2. /\ vcs \in [Tid -> Clock] /\ past \in [Tid -> SUBSET Nat] /\ pc \in [Tid -> Places]
      /\ \A x, y \in Tid : vcs[x][y] \in Nat
      /\ \A d \in Cond, y \in Tid : messagemap[d][y] \in Nat
  BY DEF RaceTypeOK, Clock
<1>3. /\ vcs' \in [Tid -> Clock]
      /\ \A u, x \in Tid : vcs'[u][x] = IF u = child
                                          THEN IF x = child THEN vcs[t][x] + 1 ELSE vcs[t][x]
                                          ELSE IF u = t /\ x = t THEN vcs[u][x] + 1
                                          ELSE vcs[u][x]
  <2>1. PICK v1 : /\ v1 = [vcs EXCEPT ![child] = vcs[t]]
                  /\ vcs' = incrementMyClock(incrementMyClock(v1, t), child)
    BY DEF BeforeCreate
  <2>2. /\ vcs \in [Tid -> Clock] /\ t # child /\ v1 \in [Tid -> Clock]
        /\ \A u \in Tid : v1[u] = IF u = child THEN vcs[t] ELSE vcs[u]
    BY <1>0, <1>2, <2>1
  <2>3. PICK v2 : v2 = incrementMyClock(v1, t)
    OBVIOUS
  <2>4. /\ v2 \in [Tid -> Clock]
        /\ \A u, x \in Tid : v2[u][x] = IF u = t /\ x = t THEN v1[u][x] + 1 ELSE v1[u][x]
    BY <2>2, <2>3, IncrementEntries
  <2>5. vcs' = incrementMyClock(v2, child)
    BY <2>1, <2>3
  <2>6. /\ vcs' \in [Tid -> Clock]
        /\ \A u, x \in Tid : vcs'[u][x]
                              = IF u = child /\ x = child THEN v2[u][x] + 1 ELSE v2[u][x]
    BY <2>4, <2>5, IncrementEntries
  <2>7. QED
    BY <2>2, <2>4, <2>6
<1>4. /\ \A u \in Tid : past'[u] = IF u = child THEN past[t] ELSE past[u]
      /\ \A u \in Tid : pc'[u] = IF u = child THEN "fresh" ELSE IF u = t THEN "mark" ELSE pc[u]
  BY <1>0, <1>2 DEF BeforeCreate
<1>5. \A e \in AllEvents : e.thread # child
  BY <1>0 DEF ClockInv, Recorded
<1>6. \A u \in Tid : vcs[u][child] = 0
  BY <1>0 DEF ClockInv, Unheard
<1>7. ASSUME NEW u \in Tid PROVE Informed(AllEvents', vcs'[u], past'[u])
  <2>1. CASE u = child
    <3>1. /\ vcs[t] \in Clock /\ vcs'[u] \in Clock /\ Informed(AllEvents, vcs[t], past[t])
          /\ \A x \in Tid : vcs[t][x] <= vcs'[u][x]
      BY <1>2, <1>3, <2>1 DEF ClockInv
    <3>2. ASSUME NEW e \in AllEvents
          PROVE  vcs'[u][e.thread] = vcs[t][e.thread]
      BY <1>3, <1>5, <2>1, OwnEventsHeard
    <3>3. past'[u] = past[t]
      BY <1>4, <2>1
    <3>4. Informed(AllEvents, vcs'[u], past[t])
      BY <1>1, <3>1, <3>2, InformedAdvance
    <3>5. QED
      BY <1>1, <3>3, <3>4
  <2>2. CASE u # child
    <3>1. /\ vcs[u] \in Clock /\ vcs'[u] \in Clock /\ Informed(AllEvents, vcs[u], past[u])
          /\ \A x \in Tid : vcs[u][x] <= vcs'[u][x]
      BY <1>2, <1>3, <2>2 DEF ClockInv
    <3>2. ASSUME NEW e \in AllEvents
          PROVE  vcs'[u][e.thread] = vcs[u][e.thread] \/ e.vc[e.thread] <= vcs[u][e.thread]
      BY <1>3, <2>2, OwnEventsHeard
    <3>3. past'[u] = past[u]
      BY <1>4, <2>2
    <3>4. Informed(AllEvents, vcs'[u], past[u])
      BY <1>1, <3>1, <3>2, InformedAdvance
    <3>5. QED
      BY <1>1, <3>3, <3>4
  <2>3. QED
    BY <2>1, <2>2
<1>8. \A d \in Cond : /\ Informed(AllEvents', messagemap'[d], message_past'[d])
                      /\ Happened(message_past[d])'
  BY <1>0, <1>1 DEF ClockInv, Happened
<1>9. \A u \in Tid : Happened(past[u])' /\ Unheard(u)'
  <2>1. \A u \in Tid : Happened(past[u])'
    BY <1>0, <1>4 DEF ClockInv, Happened
  <2>2. ASSUME NEW u \in Tid, pc'[u] = "unborn"
        PROVE  (\A w \in Tid : vcs'[w][u] = 0) /\ (\A d \in Cond : messagemap'[d][u] = 0)
    <3>1. u # child /\ u # t
      BY <1>0, <1>4, <2>2
    <3>2. (\A w \in Tid : vcs[w][u] = 0) /\ (\A d \in Cond : messagemap[d][u] = 0)
      BY <1>4, <2>2, <3>1 DEF ClockInv, Unheard
    <3>3. QED
      BY <1>0, <1>3, <3>1, <3>2
  <2>3. QED
    BY <2>1, <2>2 DEF Unheard
<1>10. ASSUME NEW e \in AllEvents'
       PROVE  Recorded(e)' /\ e.id < events' /\ Happened(e.past)'
  <2>1. /\ e \in AllEvents /\ e.thread \in Tid /\ e.thread # child
        /\ \A x \in Tid : e.vc[x] \in Nat /\ e.vc[x] <= vcs[e.thread][x]
    BY <1>1, <1>5, OwnEventsHeard
  <2>2. Recorded(e) /\ e.id < events /\ Happened(e.past)
    BY <2>1 DEF ClockInv
  <2>3. \A x \in Tid : e.vc[x] <= vcs'[e.thread][x]
    BY <1>2, <1>3, <2>1
  <2>4. QED
    BY <1>0, <1>4, <2>1, <2>2, <2>3 DEF Recorded, isHappensBefore, Happened
<1>11. OwnLeads'
  <2> SUFFICES ASSUME NEW s \in Tid, pc'[s] \notin {"unborn", "ended", "exited", "joined"}
               PROVE  /\ \A u \in Tid \ {s} : vcs'[u][s] < vcs'[s][s]
                      /\ \A d \in Cond : messagemap'[d][s] < vcs'[s][s]
    BY DEF OwnLeads
  <2>1. CASE s = child
    <3>1. vcs'[s][s] = 1 /\ \A u \in Tid \ {s} : vcs'[u][s] = 0
      BY <1>0, <1>2, <1>3, <1>6, <2>1
    <3>2. \A d \in Cond : messagemap'[d][s] = 0
      BY <1>0, <2>1 DEF ClockInv, Unheard
    <3>3. QED
      BY <3>1, <3>2
  <2>2. CASE s # child
    <3>1. /\ \A u \in Tid \ {s} : vcs[u][s] < vcs[s][s]
          /\ \A d \in Cond : messagemap[d][s] < vcs[s][s]
      BY <1>0, <1>4, <2>2 DEF ClockInv, OwnLeads
    <3>2. QED
      BY <1>0, <1>2, <1>3, <2>2, <3>1
  <2>3. QED
    BY <2>1, <2>2
<1>12. QED
  BY <1>7, <1>8, <1>9, <1>10, <1>11 DEF ClockInv

\* A step that records e, or would have but for the bound on kept events.
LEMMA ClockRecord ==
  ASSUME RaceTypeOK, Alive, ClockInv, OrderExact, MovesOn,
         NEW t \in Tid, pc[t] = "idle", NEW e \in Events,
         e.id = events, e.thread = t, e.vc = vcs[t], e.past = past[t],
         AllEvents' \subseteq AllEvents \cup {e},
         past' = [past EXCEPT ![t] = @ \cup {e.id}], events' = events + 1,
         UNCHANGED <<vcs, messagemap, message_past>>
  PROVE  ClockInv' /\ OrderExact'
<1>1. AllEvents' \subseteq Events /\ AllEvents \subseteq Events
  BY KeptTyped
<1>2. /\ vcs \in [Tid -> Clock] /\ past \in [Tid -> SUBSET Nat] /\ messagemap \in [Cond -> Clock]
      /\ message_past \in [Cond -> SUBSET Nat]
      /\ \A x, y \in Tid : vcs[x][y] \in Nat
      /\ \A d \in Cond, y \in Tid : messagemap[d][y] \in Nat
      /\ events \in Nat
  BY DEF RaceTypeOK, Clock
<1>3. /\ \A f \in AllEvents : f.id \in Nat /\ f.id < events
      /\ \A f \in AllEvents : events \notin f.past
  BY <1>1, <1>2 DEF ClockInv, Happened, Events
<1>4. /\ \A u \in Tid : events \notin past[u]
      /\ \A d \in Cond : events \notin message_past[d]
  BY <1>2 DEF ClockInv, Happened
<1>5. /\ \A u \in Tid \ {t} : vcs[u][t] < vcs[t][t]
      /\ \A d \in Cond : messagemap[d][t] < vcs[t][t]
  BY DEF ClockInv, OwnLeads
<1>6. /\ past'[t] = past[t] \cup {e.id}
      /\ \A u \in Tid \ {t} : past'[u] = past[u]
  BY <1>2
<1>7. ASSUME NEW u \in Tid PROVE Informed(AllEvents', vcs'[u], past'[u])
  <2>1. Informed(AllEvents, vcs[u], past[u]) /\ vcs[u] \in Clock
    BY <1>2 DEF ClockInv
  <2>2. CASE u = t
    <3>1. \A f \in AllEvents : f.id # e.id
      BY <1>2, <1>3
    <3>2. e.vc = vcs[u]
      BY <2>2
    <3>3. Informed(AllEvents', vcs[u], past[u] \cup {e.id})
      BY <1>1, <2>1, <3>1, <3>2, InformedOwn
    <3>4. QED
      BY <1>6, <2>2, <3>3
  <2>3. CASE u # t
    <3>1. e.id \notin past[u] /\ vcs[u][e.thread] < e.vc[e.thread]
      BY <1>4, <1>5, <2>3
    <3>2. Informed(AllEvents', vcs[u], past[u])
      BY <1>1, <2>1, <3>1, InformedUnheard
    <3>3. QED
      BY <1>6, <2>3, <3>2
  <2>4. QED
    BY <2>2, <2>3
<1>8. ASSUME NEW d \in Cond PROVE Informed(AllEvents', messagemap'[d], message_past'[d])
  <2>1. Informed(AllEvents, messagemap[d], message_past[d]) /\ messagemap[d] \in Clock
    BY <1>2 DEF ClockInv
  <2>2. e.id \notin message_past[d] /\ messagemap[d][e.thread] < e.vc[e.thread]
    BY <1>4, <1>5
  <2>3. QED
    BY <1>1, <2>1, <2>2, InformedUnheard
<1>9. /\ \A u \in Tid : Happened(past[u])'
      /\ \A d \in Cond : Happened(message_past[d])'
  <2>1. ASSUME NEW p \in SUBSET Nat, Happened(p) PROVE \A i \in p : i < events'
    BY <1>2, <2>1 DEF Happened
  <2>2. \A u \in Tid : \A i \in past[u] : i < events'
    BY <1>2, <2>1 DEF ClockInv
  <2>3. \A d \in Cond : \A i \in message_past[d] : i < events'
    BY <1>2, <2>1 DEF ClockInv
  <2>4. \A u \in Tid : \A i \in past'[u] : i < events'
    BY <1>2, <1>6, <2>2
  <2>5. QED
    BY <2>3, <2>4 DEF Happened
<1>10. \A u \in Tid : Unheard(u)'
  BY DEF ClockInv, Unheard, MovesOn
<1>11. ASSUME NEW f \in AllEvents'
       PROVE  Recorded(f)' /\ f.id < events' /\ Happened(f.past)'
  <2>1. CASE f = e
    <3>1. \A x \in Tid : e.vc[x] <= vcs'[t][x]
      BY <1>2
    <3>2. pc'[t] # "unborn"
      BY DEF MovesOn
    <3>3. \A i \in e.past : i < events'
      BY <1>2 DEF ClockInv, Happened
    <3>4. QED
      BY <1>2, <2>1, <3>1, <3>2, <3>3 DEF Recorded, isHappensBefore, Happened
  <2>2. CASE f # e
    <3>1. f \in AllEvents /\ f.thread \in Tid /\ f.past \in SUBSET Nat
      BY <1>1, <2>2 DEF Events
    <3>2. Recorded(f) /\ Happened(f.past)
      BY <3>1 DEF ClockInv
    <3>3. Recorded(f)'
      BY <3>1, <3>2 DEF Recorded, MovesOn, isHappensBefore
    <3>4. Happened(f.past)'
      BY <1>2, <3>1, <3>2 DEF Happened
    <3>5. QED
      BY <1>2, <1>3, <3>1, <3>3, <3>4
  <2>3. QED
    BY <2>1, <2>2
<1>12. OwnLeads'
  BY DEF ClockInv, OwnLeads, MovesOn, Alive
<1>13. OrderExact'
  <2> SUFFICES ASSUME NEW e1 \in AllEvents', NEW e2 \in AllEvents', e1.thread # e2.thread
               PROVE  isHappensBefore(e1.vc, e2.vc) <=> e1.id \in e2.past
    BY DEF OrderExact
  <2>1. CASE e1 \in AllEvents /\ e2 \in AllEvents
    BY <2>1 DEF OrderExact
  <2>2. ASSUME e1 \in AllEvents, e2 = e
        PROVE  isHappensBefore(e1.vc, vcs[t]) <=> e1.id \in past[t]
    <3>1. Knows(vcs[t], past[t], e1) /\ Dominates(vcs[t], e1)
      BY <2>2 DEF ClockInv, Informed
    <3>2. e1.thread \in Tid
      BY <2>2, OwnEventsHeard
    <3>3. QED
      BY <3>1, <3>2 DEF Knows, Dominates, isHappensBefore
  <2>3. ASSUME e1 = e, e2 \in AllEvents
        PROVE  ~isHappensBefore(vcs[t], e2.vc) /\ events \notin e2.past
    <3>1. /\ e2.thread \in Tid \ {t}
          /\ e2.vc[t] \in Nat /\ e2.vc[t] <= vcs[e2.thread][t]
      BY <2>3, OwnEventsHeard
    <3>2. ~(vcs[t][t] <= e2.vc[t])
      BY <1>2, <1>5, <3>1
    <3>3. QED
      BY <1>3, <2>3, <3>2 DEF isHappensBefore
  <2>4. QED
    BY <2>1, <2>2, <2>3
<1>14. QED
  BY <1>7, <1>8, <1>9, <1>10, <1>11, <1>12, <1>13 DEF ClockInv

-----------------------------------------------------------------------------
(***************************************************************************)
(* The lock sets of a step.                                                *)
(***************************************************************************)

\* A step inside no mutex function leaves the lock sets exact.
LEMMA LockQuiet ==
  ASSUME LockSetInv, UNCHANGED <<lockmap, owner, tried>>,
         \A u \in Tid : \/ pc'[u] = pc[u] /\ obj'[u] = obj[u]
                        \/ pc[u] \in InWait /\ pc'[u] \in InWait /\ obj'[u] = obj[u]
                        \/ /\ pc[u] \notin InWait \cup {"locking", "unlocking"}
                           /\ pc'[u] \notin InWait \cup {"locking", "unlocking"}
  PROVE  LockSetInv'
<1>1. \A u \in Tid : Held(u)' = Held(u)
  BY DEF Held
<1>2. ASSUME NEW u \in Tid PROVE LockSetExact(u)'
  <2>1. LockSetExact(u)
    BY DEF LockSetInv
  <2>2. CASE pc'[u] = pc[u] /\ obj'[u] = obj[u]
    BY <1>1, <2>1, <2>2 DEF LockSetExact, Wanted
  <2>3. CASE pc[u] \in InWait /\ pc'[u] \in InWait /\ obj'[u] = obj[u]
    BY <1>1, <2>1, <2>3 DEF LockSetExact, Wanted, InWait
  <2>4. CASE /\ pc[u] \notin InWait \cup {"locking", "unlocking"}
             /\ pc'[u] \notin InWait \cup {"locking", "unlocking"}
    BY <1>1, <2>1, <2>4 DEF LockSetExact, Wanted
  <2>5. QED
    BY <2>2, <2>3, <2>4
<1>3. QED
  BY <1>2 DEF LockSetInv

\* A step of t in a mutex function does not touch the lock sets of others.
LEMMA LockOthers ==
  ASSUME RaceTypeOK, LockSetInv, NEW t \in Tid, NEW where, NEW what, Goes(t, where, what),
         \A u \in Tid \ {t} : lockmap'[u] = lockmap[u] /\ Held(u)' = Held(u),
         (pc'[t] = where /\ obj'[t] = what) => LockSetExact(t)',
         \A l \in tried' : owner'[l] # NoThread
  PROVE  LockSetInv'
<1>1. \A u \in Tid : /\ pc'[u] = IF u = t THEN where ELSE pc[u]
                     /\ obj'[u] = IF u = t THEN what ELSE obj[u]
  <2>1. obj = [u \in Tid |-> obj[u]] /\ pc \in [Tid -> Places]
    BY DEF RaceTypeOK
  <2>2. pc' = [pc EXCEPT ![t] = where] /\ obj' = [obj EXCEPT ![t] = what]
    BY DEF Goes
  <2>3. QED
    BY <2>1, <2>2
<1>2. ASSUME NEW u \in Tid, u # t PROVE LockSetExact(u)'
  <2>1. LockSetExact(u)
    BY DEF LockSetInv
  <2>2. pc'[u] = pc[u] /\ obj'[u] = obj[u] /\ lockmap'[u] = lockmap[u] /\ Held(u)' = Held(u)
    BY <1>1, <1>2
  <2>3. QED
    BY <2>1, <2>2 DEF LockSetExact, Wanted
<1>3. LockSetExact(t)'
  BY <1>1
<1>4. QED
  BY <1>2, <1>3 DEF LockSetInv

\* pthread_mutex_lock, or a wait, takes a free mutex.
LEMMA LockTaken ==
  ASSUME RaceTypeOK, LockSetInv, NEW t \in Tid, NEW l \in Lock, owner[l] = NoThread,
         owner' = [owner EXCEPT ![l] = t], tried' = tried
  PROVE  /\ Held(t)' = Held(t) \cup {l}
         /\ \A u \in Tid \ {t} : Held(u)' = Held(u)
         /\ \A m \in tried' : owner'[m] # NoThread
<1>1. /\ owner \in [Lock -> Tid \cup {NoThread}] /\ tried \subseteq Lock
      /\ \A u \in Tid : u # NoThread
  BY RaceAssumption DEF RaceTypeOK, Tid, NoThread
<1>2. l \notin tried
  BY DEF LockSetInv
<1>3. \A m \in Lock : owner'[m] = IF m = l THEN t ELSE owner[m]
  BY <1>1
<1>4. QED
  BY <1>1, <1>2, <1>3 DEF Held, LockSetInv

\* pthread_mutex_unlock, or a wait, frees a mutex.
LEMMA LockFreed ==
  ASSUME RaceTypeOK, LockSetInv, NEW t \in Tid, NEW l \in Lock, owner[l] = t,
         owner' = [owner EXCEPT ![l] = NoThread], tried' = tried \ {l}
  PROVE  /\ Held(t)' = Held(t) \ {l}
         /\ \A u \in Tid \ {t} : Held(u)' = Held(u)
         /\ \A m \in tried' : owner'[m] # NoThread
<1>1. /\ owner \in [Lock -> Tid \cup {NoThread}] /\ tried \subseteq Lock
      /\ \A u \in Tid : u # NoThread
  BY RaceAssumption DEF RaceTypeOK, Tid, NoThread
<1>2. \A m \in Lock : owner'[m] = IF m = l THEN NoThread ELSE owner[m]
  BY <1>1
<1>3. QED
  BY <1>1, <1>2 DEF Held, LockSetInv

\* BeforeMutexLock adds the mutex before it is held.
LEMMA LockSetBeforeMutexLock ==
  ASSUME RaceTypeOK, LockSetInv, NEW t \in Tid, NEW l \in Lock, NEW i \in Iid,
         BeforeMutexLock(t, l, i), getThrID(t) = t
  PROVE  LockSetInv'
<1>1. /\ Goes(t, "locking", l) /\ pc[t] = "idle" /\ UNCHANGED <<owner, tried>>
      /\ lockmap' = [lockmap EXCEPT ![t] = @ \cup {l}]
  BY DEF BeforeMutexLock, Calls, realVars
<1>2. \A u \in Tid : Held(u)' = Held(u)
  BY <1>1 DEF Held
<1>3. \A u \in Tid : lockmap'[u] = IF u = t THEN lockmap[u] \cup {l} ELSE lockmap[u]
  BY <1>1 DEF RaceTypeOK
<1>4. lockmap[t] = Held(t)
  BY <1>1 DEF LockSetInv, LockSetExact, Wanted, InWait
<1>5. ASSUME pc'[t] = "locking", obj'[t] = l PROVE LockSetExact(t)'
  BY <1>2, <1>3, <1>4, <1>5 DEF LockSetExact, Wanted
<1>6. \A m \in tried' : owner'[m] # NoThread
  BY <1>1 DEF LockSetInv
<1>7. QED
  BY <1>1, <1>2, <1>3, <1>5, <1>6, LockOthers

\* The real pthread_mutex_lock returns with the mutex.
LEMMA LockSetAcquire ==
  ASSUME RaceTypeOK, LockSetInv, NEW t \in Tid, Acquire(t)
  PROVE  LockSetInv'
<1>1. PICK l \in Lock : l = obj[t]
  BY DEF Acquire, RaceTypeOK, Fits
<1>2. /\ Goes(t, "idle", NoObj) /\ pc[t] = "locking" /\ UNCHANGED <<lockmap, tried>>
      /\ owner[l] = NoThread /\ owner' = [owner EXCEPT ![l] = t]
  BY <1>1 DEF Acquire
<1>3. /\ Held(t)' = Held(t) \cup {l}
      /\ \A u \in Tid \ {t} : Held(u)' = Held(u)
      /\ \A m \in tried' : owner'[m] # NoThread
  BY <1>2, LockTaken
<1>4. lockmap[t] = Held(t) \cup {l}
  BY <1>1, <1>2 DEF LockSetInv, LockSetExact, Wanted
<1>5. ASSUME pc'[t] = "idle" PROVE LockSetExact(t)'
  BY <1>2, <1>3, <1>4, <1>5 DEF LockSetExact, Wanted, InWait
<1>6. QED
  BY <1>2, <1>3, <1>5, LockOthers

\* A wait has its mutex again.
LEMMA LockSetReacquire ==
  ASSUME RaceTypeOK, LockSetInv, NEW t \in Tid, Reacquire(t)
  PROVE  LockSetInv'
<1>1. obj[t][2] \in Lock /\ pc[t] \in InWait
  BY DEF Reacquire, RaceTypeOK, Fits, InWait
<1>2. PICK l \in Lock : l = obj[t][2]
  BY <1>1
<1>3. PICK where \in {"waited", "expired"} : Goes(t, where, obj[t])
  <2>1. obj = [obj EXCEPT ![t] = obj[t]]
    BY DEF RaceTypeOK
  <2>2. QED
    BY <2>1 DEF Reacquire, Goes
<1>4. /\ UNCHANGED <<lockmap, tried>>
      /\ owner[l] = NoThread /\ owner' = [owner EXCEPT ![l] = t]
  BY <1>2 DEF Reacquire
<1>5. /\ Held(t)' = Held(t) \cup {l}
      /\ \A u \in Tid \ {t} : Held(u)' = Held(u)
      /\ \A m \in tried' : owner'[m] # NoThread
  BY <1>4, LockTaken
<1>6. lockmap[t] = Held(t) \cup {l}
  BY <1>1, <1>2 DEF LockSetInv, LockSetExact, Wanted, InWait
<1>7. ASSUME pc'[t] = where PROVE LockSetExact(t)'
  BY <1>3, <1>4, <1>5, <1>6, <1>7 DEF LockSetExact, Wanted, InWait
<1>8. QED
  BY <1>3, <1>4, <1>5, <1>7, LockOthers

\* The real pthread_mutex_unlock frees the mutex before the lock set loses it.
LEMMA LockSetUnlock ==
  ASSUME RaceTypeOK, LockSetInv, NEW t \in Tid, NEW l \in Lock, Unlock(t, l)
  PROVE  LockSetInv'
<1>1. /\ Goes(t, "unlocking", l) /\ pc[t] = "idle" /\ UNCHANGED lockmap
      /\ owner[l] = t /\ owner' = [owner EXCEPT ![l] = NoThread] /\ tried' = tried \ {l}
  BY DEF Unlock, Calls
<1>2. /\ Held(t)' = Held(t) \ {l}
      /\ \A u \in Tid \ {t} : Held(u)' = Held(u)
      /\ \A m \in tried' : owner'[m] # NoThread
  BY <1>1, LockFreed
<1>3. lockmap[t] = Held(t)
  BY <1>1 DEF LockSetInv, LockSetExact, Wanted, InWait
<1>4. ASSUME pc'[t] = "unlocking", obj'[t] = l PROVE LockSetExact(t)'
  BY <1>1, <1>2, <1>3, <1>4 DEF LockSetExact
<1>5. QED
  BY <1>1, <1>2, <1>4, LockOthers

\* AfterMutexUnlock takes the mutex from the lock set.
LEMMA LockSetAfterMutexUnlock ==
  ASSUME RaceTypeOK, LockSetInv, NEW t \in Tid, AfterMutexUnlock(t), getThrID(t) = t
  PROVE  LockSetInv'
<1>1. /\ Goes(t, "idle", NoObj) /\ pc[t] = "unlocking" /\ UNCHANGED <<owner, tried>>
      /\ lockmap' = [lockmap EXCEPT ![t] = @ \ {obj[t]}]
  BY DEF AfterMutexUnlock, realVars
<1>2. \A u \in Tid : Held(u)' = Held(u)
  BY <1>1 DEF Held
<1>3. \A u \in Tid : lockmap'[u] = IF u = t THEN lockmap[u] \ {obj[t]} ELSE lockmap[u]
  BY <1>1 DEF RaceTypeOK
<1>4. lockmap[t] \ {obj[t]} = Held(t)
  BY <1>1 DEF LockSetInv, LockSetExact
<1>5. ASSUME pc'[t] = "idle" PROVE LockSetExact(t)'
  BY <1>2, <1>3, <1>4, <1>5 DEF LockSetExact, Wanted, InWait
<1>6. \A m \in tried' : owner'[m] # NoThread
  BY <1>1 DEF LockSetInv
<1>7. QED
  BY <1>1, <1>2, <1>3, <1>5, <1>6, LockOthers

\* A wait frees its mutex, which stays in the lock set.
LEMMA LockSetWait ==
  ASSUME RaceTypeOK, LockSetInv, NEW t \in Tid, NEW c \in Cond, NEW l \in Lock, Wait(t, c, l)
  PROVE  LockSetInv'
<1>1. /\ Goes(t, "waiting", <<c, l>>) /\ pc[t] = "idle" /\ UNCHANGED <<lockmap, tried>>
      /\ owner[l] = t /\ l \notin tried /\ owner' = [owner EXCEPT ![l] = NoThread]
  BY DEF Wait, Calls
<1>2. /\ Held(t)' = Held(t) \ {l}
      /\ \A u \in Tid \ {t} : Held(u)' = Held(u)
      /\ \A m \in tried' : owner'[m] # NoThread
  <2>1. tried' = tried \ {l}
    BY <1>1
  <2>2. QED
    BY <1>1, <2>1, LockFreed
<1>3. lockmap[t] = Held(t) /\ l \in Held(t)
  BY <1>1 DEF LockSetInv, LockSetExact, Wanted, InWait, Held
<1>4. ASSUME pc'[t] = "waiting", obj'[t] = <<c, l>> PROVE LockSetExact(t)'
  <2>1. Wanted(t)' = {l}
    BY <1>4 DEF Wanted, InWait
  <2>2. QED
    BY <1>1, <1>2, <1>3, <1>4, <2>1 DEF LockSetExact
<1>5. QED
  BY <1>1, <1>2, <1>4, LockOthers

\* pthread_mutex_trylock takes a mutex the lock sets do not follow.
LEMMA LockSetTrylock ==
  ASSUME RaceTypeOK, LockSetInv, NEW t \in Tid, NEW l \in Lock, Trylock(t, l)
  PROVE  LockSetInv'
<1>1. /\ UNCHANGED <<lockmap, pc, obj>> /\ owner[l] = NoThread
      /\ owner' = [owner EXCEPT ![l] = t] /\ tried' = tried \cup {l}
  BY DEF Trylock
<1>2. /\ owner \in [Lock -> Tid \cup {NoThread}] /\ tried \subseteq Lock
      /\ \A u \in Tid : u # NoThread
  BY RaceAssumption DEF RaceTypeOK, Tid, NoThread
<1>3. \A m \in Lock : owner'[m] = IF m = l THEN t ELSE owner[m]
  BY <1>1, <1>2
<1>4. \A u \in Tid : Held(u)' = Held(u)
  BY <1>1, <1>2, <1>3 DEF Held
<1>5. \A u \in Tid : LockSetExact(u)'
  BY <1>1, <1>4 DEF LockSetInv, LockSetExact, Wanted
<1>6. \A m \in tried' : owner'[m] # NoThread
  BY <1>1, <1>2, <1>3 DEF LockSetInv
<1>7. QED
  BY <1>5, <1>6 DEF LockSetInv

-----------------------------------------------------------------------------
(***************************************************************************)
(* The steps of a running process.                                         *)
(***************************************************************************)

\* A step that records nothing leaves what is recorded as it was.
LEMMA RecordsQuiet ==
  ASSUME OrderExact, LocksRecorded, UNCHANGED <<eventset, lockeventset>>
  PROVE  OrderExact' /\ LocksRecorded'
BY NothingKept DEF OrderExact, LocksRecorded

\* An event recorded between two calls.
LEMMA RecordRunning ==
  ASSUME RaceTypeOK, Running, OrderExact, MovesOn, LockSetInv', IdInv',
         NEW t \in Tid, pc[t] = "idle", getThrID(t) = t, NEW i \in Iid, NEW isread \in BOOLEAN, NEW e,
         e = Event(t, i, isread),
         AllEvents' \subseteq AllEvents \cup {e},
         past' = [past EXCEPT ![t] = @ \cup {e.id}], events' = events + 1,
         UNCHANGED <<vcs, messagemap, message_past>>
  PROVE  Running' /\ OrderExact'
<1>1. e \in Events /\ e.id = events
  BY EventTyped
<1>2. /\ e.thread = t /\ e.vc = vcs[t] /\ e.past = past[t]
      /\ e.ls = lockmap[t] /\ e.held = Held(t)
  BY DEF Event
<1>3. lockmap[t] = Held(t)
  BY DEF Running, LockSetInv, LockSetExact, Wanted, InWait
<1>4. Alive /\ ClockInv /\ LocksRecorded
  BY DEF Running
<1>5. ClockInv' /\ OrderExact'
  BY <1>1, <1>2, <1>4, ClockRecord
<1>6. LocksRecorded'
  BY <1>2, <1>3, <1>4 DEF LocksRecorded
<1>7. Alive'
  BY DEF MovesOn, Alive
<1>8. QED
  BY <1>5, <1>6, <1>7 DEF Running

\* A step that touches no clock, no lock set and records nothing, of a thread
\* that is between two calls or in a call that is about no mutex.
LEMMA QuietRunning ==
  ASSUME RaceTypeOK, Running, OrderExact, MovesOn,
         UNCHANGED <<vcs, past, messagemap, message_past, eventset, lockeventset, events>>,
         LockSetInv', IdInv'
  PROVE  Running' /\ OrderExact'
<1>1. ClockInv'
  BY ClockQuiet DEF Running
<1>2. OrderExact' /\ LocksRecorded'
  BY RecordsQuiet DEF Running
<1>3. Alive'
  BY DEF MovesOn, Alive
<1>4. QED
  BY <1>1, <1>2, <1>3 DEF Running

\* A hook finds that its thread is known: the process never has to end in
\* _Exit.
LEMMA NoExit ==
  ASSUME RaceTypeOK, Alive, IdInv, NEW t \in Tid
  PROVE  ~Exit(t)
<1>1. AllIdentified /\ t # -1 /\ (pc[t] = "joining" => obj[t] # -1)
  BY IdsFound, RaceAssumption DEF Tid, RaceTypeOK, Fits
<1>2. pc[t] \in HookNext => getThrID(t) = t
  BY <1>1 DEF AllIdentified, HookNext
<1>3. pc[t] = "idle" => t \notin finish_map
  BY DEF IdInv, Unfinished
<1>4. QED
  BY <1>1, <1>2, <1>3 DEF Exit, AllIdentified, HookNext

\* Every step but the last keeps the invariant of a running process.
LEMMA RunningKept ==
  ASSUME RaceTypeOK, Running, OrderExact, Next, ~overlap'
  PROVE  outputRaces \/ (Running' /\ OrderExact')
<1> USE DEF clockVars, messageVars, realVars, reportVars
<1>0. /\ Alive /\ IdInv /\ ClockInv /\ LockSetInv /\ LocksRecorded
      /\ pc \in [Tid -> Places] /\ obj = [u \in Tid |-> obj[u]]
      /\ \A u \in Tid : pc[u] \notin {"ended", "exited"} /\ Fits(pc[u], obj[u])
  BY DEF Running, Alive, RaceTypeOK
<1>0a. \A t \in Tid :
         /\ pc[t] \notin {"unborn", "fresh", "born", "finished", "joined"} => getThrID(t) = t
         /\ pc[t] = "joining" => translateHandleToTID(handle[obj[t]]) = obj[t]
  BY <1>0, IdsFound DEF AllIdentified
<1>1. ASSUME NEW t \in Tid, getNextTID(t) PROVE Running' /\ OrderExact'
  <2>1. /\ Goes(t, "next", curr_id + 1) /\ pc[t] = "idle"
        /\ UNCHANGED <<vcs, past, messagemap, message_past, eventset, lockeventset, events,
                       lockmap, owner, tried>>
    BY <1>1 DEF getNextTID, Calls
  <2>2. \A u \in Tid : /\ pc'[u] = IF u = t THEN "next" ELSE pc[u]
                       /\ u # t => obj'[u] = obj[u]
    BY <2>1, GoesWhere
  <2>3. MovesOn
    BY <1>0, <2>1, <2>2 DEF MovesOn
  <2>4. LockSetInv'
    BY <1>0, <2>1, <2>2, LockQuiet DEF InWait
  <2>5. IdInv'
    BY <1>0, <1>1, IdGetNextTID
  <2>6. QED
    BY <2>1, <2>3, <2>4, <2>5, QuietRunning
<1>2. ASSUME NEW t \in Tid, ReturnCurrId(t) \/ MarkNotStarted(t) \/ CreateThread(t)
      PROVE  Running' /\ OrderExact'
  <2>1. /\ pc[t] \in Making
        /\ UNCHANGED <<vcs, past, messagemap, message_past, eventset, lockeventset, events,
                       lockmap, owner, tried, obj>>
    BY <1>2 DEF ReturnCurrId, MarkNotStarted, CreateThread, Making
  <2>2. \A u \in Tid : \/ pc'[u] = pc[u]
                       \/ pc[u] \in Making \cup {"fresh"} /\ pc'[u] \in Making \cup {"starting", "born"}
    <3>1. CASE ReturnCurrId(t) \/ MarkNotStarted(t)
      BY <1>0, <2>1, <3>1 DEF ReturnCurrId, MarkNotStarted, Making
    <3>2. CASE CreateThread(t)
      <4>1. pc[t] = "create" /\ obj[t] \in Tid /\ pc[obj[t]] = "fresh"
        BY <1>0, <3>2 DEF CreateThread, Fits, Making, IdInv, Maker
      <4>2. \A u \in Tid : pc'[u] = IF u = obj[t] THEN "born" ELSE IF u = t THEN "starting" ELSE pc[u]
        BY <1>0, <3>2, <4>1 DEF CreateThread
      <4>3. QED
        BY <4>1, <4>2 DEF Making
    <3>3. QED
      BY <1>2, <3>1, <3>2
  <2>3. MovesOn
    BY <1>0, <2>2 DEF MovesOn, Making
  <2>4. LockSetInv'
    <3>1. \A u \in Tid : \/ pc'[u] = pc[u] /\ obj'[u] = obj[u]
                         \/ pc[u] \in InWait /\ pc'[u] \in InWait /\ obj'[u] = obj[u]
                         \/ /\ pc[u] \notin InWait \cup {"locking", "unlocking"}
                            /\ pc'[u] \notin InWait \cup {"locking", "unlocking"}
      BY <2>1, <2>2 DEF InWait, Making
    <3>2. QED
      BY <1>0, <2>1, <3>1, LockQuiet
  <2>5. IdInv'
    BY <1>0, <1>2, IdReturnCurrId, IdMarkNotStarted, IdCreateThread
  <2>6. QED
    BY <2>1, <2>3, <2>4, <2>5, QuietRunning
<1>3. ASSUME NEW t \in Tid, BeforeCreate(t) PROVE Running' /\ OrderExact'
  <2>1. pc[t] = "before" /\ getThrID(t) = t
    BY <1>0a, <1>3 DEF BeforeCreate
  <2>2. PICK child \in Tid : child = obj[t]
    BY <1>0, <2>1 DEF Fits, Making
  <2>3. pc[child] = "unborn" /\ tid[child] = child
    BY <1>0, <2>1, <2>2 DEF IdInv, Maker, Making
  <2>4. \A u \in Tid : pc'[u] = IF u = child THEN "fresh" ELSE IF u = t THEN "mark" ELSE pc[u]
    BY <1>0, <1>3, <2>1, <2>2, <2>3 DEF BeforeCreate
  <2>5. ClockInv'
    BY <1>0, <1>3, <2>1, <2>2, <2>3, ClockCreate
  <2>6. UNCHANGED <<lockmap, owner, tried, obj, eventset, lockeventset>>
    BY <1>3 DEF BeforeCreate
  <2>7. LockSetInv'
    BY <1>0, <2>1, <2>3, <2>4, <2>6, LockQuiet DEF InWait
  <2>8. OrderExact' /\ LocksRecorded'
    BY <1>0, <2>6, RecordsQuiet
  <2>9. Alive'
    BY <1>0, <2>4 DEF Alive
  <2>10. IdInv'
    BY <1>0, <1>3, IdBeforeCreate
  <2>11. QED
    BY <2>5, <2>7, <2>8, <2>9, <2>10 DEF Running
<1>4. ASSUME NEW n \in Tid, my_start_routine(n) PROVE Running' /\ OrderExact'
  <2>1. /\ pc[n] = "born" /\ \A u \in Tid : pc'[u] = IF u = n THEN "idle" ELSE pc[u]
        /\ UNCHANGED <<vcs, past, messagemap, message_past, eventset, lockeventset, events,
                       lockmap, owner, tried, obj>>
    BY <1>0, <1>4 DEF my_start_routine
  <2>2. MovesOn
    BY <1>0, <2>1 DEF MovesOn
  <2>3. LockSetInv'
    BY <1>0, <2>1, LockQuiet DEF InWait
  <2>4. IdInv'
    BY <1>0, <1>4, Id_my_start_routine
  <2>5. QED
    BY <2>1, <2>2, <2>3, <2>4, QuietRunning
<1>5. ASSUME NEW t \in Tid, ReturnFromCreate(t) PROVE Running' /\ OrderExact'
  <2>1. /\ Goes(t, "idle", NoObj) /\ pc[t] = "starting"
        /\ UNCHANGED <<vcs, past, messagemap, message_past, eventset, lockeventset, events,
                       lockmap, owner, tried>>
        /\ UNCHANGED <<curr_id, pthreadHandleMap, tid, handle, finish_map>>
    BY <1>5 DEF ReturnFromCreate, idVars
  <2>2. \A u \in Tid : /\ pc'[u] = IF u = t THEN "idle" ELSE pc[u]
                       /\ u # t => obj'[u] = obj[u]
    BY <2>1, GoesWhere
  <2>3. MovesOn
    BY <1>0, <2>1, <2>2 DEF MovesOn
  <2>4. LockSetInv'
    BY <1>0, <2>1, <2>2, LockQuiet DEF InWait
  <2>5. Aside
    BY <2>1, <2>2 DEF Aside, Plain
  <2>6. IdInv'
    BY <1>0, <2>1, <2>5, IdQuiet
  <2>7. QED
    BY <2>1, <2>3, <2>4, <2>6, QuietRunning
<1>6. ASSUME NEW t \in Tid, ThreadFinish(t) PROVE Running' /\ OrderExact'
  <2>1. /\ Goes(t, "finished", NoObj) /\ pc[t] = "idle" /\ getThrID(t) = t
        /\ UNCHANGED <<vcs, past, messagemap, message_past, eventset, lockeventset, events,
                       lockmap, owner, tried>>
    BY <1>0a, <1>6 DEF ThreadFinish
  <2>2. \A u \in Tid : /\ pc'[u] = IF u = t THEN "finished" ELSE pc[u]
                       /\ u # t => obj'[u] = obj[u]
    BY <2>1, GoesWhere
  <2>3. MovesOn
    BY <1>0, <2>1, <2>2 DEF MovesOn
  <2>4. LockSetInv'
    BY <1>0, <2>1, <2>2, LockQuiet DEF InWait
  <2>5. IdInv'
    BY <1>0, <1>6, <2>1, IdThreadFinish
  <2>6. QED
    BY <2>1, <2>3, <2>4, <2>5, QuietRunning
<1>7. ASSUME NEW t \in Tid, NEW joined \in Tid, Join(t, joined) PROVE Running' /\ OrderExact'
  <2>1. /\ pc[t] = "idle" /\ pc[joined] = "finished" /\ t # joined
        /\ UNCHANGED <<vcs, past, messagemap, message_past, eventset, lockeventset, events,
                       lockmap, owner, tried>>
    BY <1>7 DEF Join, Calls
  <2>2. \A u \in Tid :
          /\ pc'[u] = IF u = joined THEN "joined" ELSE IF u = t THEN "joining" ELSE pc[u]
          /\ u # t => obj'[u] = obj[u]
    BY <1>0, <1>7, <2>1 DEF Join
  <2>3. MovesOn
    BY <1>0, <2>1, <2>2 DEF MovesOn
  <2>4. LockSetInv'
    BY <1>0, <2>1, <2>2, LockQuiet DEF InWait
  <2>5. IdInv'
    BY <1>0, <1>7, IdJoin
  <2>6. QED
    BY <2>1, <2>3, <2>4, <2>5, QuietRunning
<1>8. ASSUME NEW t \in Tid, AfterJoin(t) PROVE Running' /\ OrderExact'
  <2>1. /\ Goes(t, "idle", NoObj) /\ pc[t] = "joining" /\ getThrID(t) = t
        /\ UNCHANGED <<lockmap, owner, tried, eventset, lockeventset,
                       messagemap, message_past, events>>
        /\ UNCHANGED <<curr_id, pthreadHandleMap, tid, handle, finish_map>>
    BY <1>0a, <1>8 DEF AfterJoin, idVars
  <2>2. PICK joined \in Tid : joined = obj[t]
    BY <1>0, <2>1 DEF Fits
  <2>3. pc[joined] = "joined" /\ translateHandleToTID(handle[joined]) = joined
    BY <1>0, <1>0a, <2>1, <2>2 DEF IdInv, Found
  <2>4. /\ vcs' = receiveMessage(vcs, t, vcs[joined])
        /\ past' = [past EXCEPT ![t] = @ \cup past[joined]]
    BY <1>8, <2>1, <2>2, <2>3 DEF AfterJoin
  <2>5. \A u \in Tid : /\ pc'[u] = IF u = t THEN "idle" ELSE pc[u]
                       /\ u # t => obj'[u] = obj[u]
    BY <2>1, GoesWhere
  <2>6. MovesOn /\ Alive'
    BY <1>0, <2>1, <2>5 DEF MovesOn, Alive
  <2>7. vcs[joined] \in Clock
    BY DEF RaceTypeOK
  <2>8. Informed(AllEvents, vcs[joined], past[joined]) /\ Happened(past[joined])
    BY <1>0 DEF ClockInv
  <2>9. \A u \in Tid : /\ pc[u] = "unborn" => vcs[joined][u] = 0
                       /\ pc'[u] \notin {"unborn", "ended", "exited", "joined"}
                            => vcs[joined][u] < vcs[u][u]
    BY <1>0, <2>1, <2>3, <2>5 DEF ClockInv, Unheard, OwnLeads
  <2>10. ClockInv'
    BY <1>0, <2>1, <2>4, <2>6, <2>7, <2>8, <2>9, ClockReceive
  <2>11. LockSetInv'
    BY <1>0, <2>1, <2>5, LockQuiet DEF InWait
  <2>12. OrderExact' /\ LocksRecorded'
    BY <1>0, <2>1, RecordsQuiet
  <2>13. Aside
    BY <2>1, <2>5 DEF Aside, Plain
  <2>14. IdInv'
    BY <1>0, <2>1, <2>13, IdQuiet
  <2>15. QED
    BY <2>6, <2>10, <2>11, <2>12, <2>14 DEF Running
<1>9. ASSUME NEW t \in Tid, NEW l \in Lock, NEW i \in Iid, BeforeMutexLock(t, l, i)
      PROVE  Running' /\ OrderExact'
  <2>1. PICK e : e = Event(t, i, FALSE)
    OBVIOUS
  <2>2. /\ \/ lockeventset' = [lockeventset EXCEPT ![l] = @ \cup {e}]
           \/ lockeventset' = lockeventset
        /\ past' = [past EXCEPT ![t] = @ \cup {e.id}]
    BY <1>9, <2>1 DEF BeforeMutexLock
  <2>3. /\ Goes(t, "locking", l) /\ pc[t] = "idle" /\ events' = events + 1 /\ getThrID(t) = t
        /\ UNCHANGED <<vcs, messagemap, message_past, eventset>>
        /\ UNCHANGED <<curr_id, pthreadHandleMap, tid, handle, finish_map>>
    BY <1>0a, <1>9 DEF BeforeMutexLock, Calls, idVars
  <2>4. AllEvents' \subseteq AllEvents \cup {e}
    BY <2>2, <2>3, OneMoreKept
  <2>5. MovesOn /\ Aside
    BY <1>0, <2>3, GoesWhere DEF MovesOn, Aside, Plain
  <2>6. LockSetInv'
    BY <1>0, <1>9, <2>3, LockSetBeforeMutexLock
  <2>7. IdInv'
    BY <1>0, <2>3, <2>5, IdQuiet
  <2>8. QED
    BY <2>1, <2>2, <2>3, <2>4, <2>5, <2>6, <2>7, RecordRunning
<1>10. ASSUME NEW t \in Tid, NEW a \in Addr, NEW i \in Iid, NEW isread \in BOOLEAN,
              myMemoryAccess(t, a, i, isread)
       PROVE  Running' /\ OrderExact'
  <2>1. PICK e : e = Event(t, i, isread)
    OBVIOUS
  <2>2. /\ \/ eventset' = [eventset EXCEPT ![a] = @ \cup {e}]
           \/ eventset' = eventset
        /\ past' = [past EXCEPT ![t] = @ \cup {e.id}]
    BY <1>10, <2>1 DEF myMemoryAccess
  <2>3. /\ pc[t] = "idle" /\ events' = events + 1 /\ getThrID(t) = t
        /\ UNCHANGED <<vcs, messagemap, message_past, lockeventset, pc, obj, lockmap, owner, tried>>
        /\ UNCHANGED <<curr_id, pthreadHandleMap, tid, handle, finish_map>>
    BY <1>0a, <1>10 DEF myMemoryAccess, Calls, idVars
  <2>4. AllEvents' \subseteq AllEvents \cup {e}
    BY <2>2, <2>3, OneMoreKept
  <2>5. MovesOn /\ Aside
    BY <1>0, <2>3 DEF MovesOn, Aside
  <2>6. LockSetInv'
    BY <1>0, <2>3, LockQuiet
  <2>7. IdInv'
    BY <1>0, <2>3, <2>5, IdQuiet
  <2>8. QED
    BY <2>1, <2>2, <2>3, <2>4, <2>5, <2>6, <2>7, RecordRunning
<1>11. ASSUME NEW t \in Tid, Acquire(t) \/ AfterMutexUnlock(t) PROVE Running' /\ OrderExact'
  <2>1. /\ Goes(t, "idle", NoObj) /\ pc[t] \in {"locking", "unlocking"} /\ getThrID(t) = t
        /\ UNCHANGED <<vcs, past, messagemap, message_past, eventset, lockeventset, events>>
        /\ UNCHANGED <<curr_id, pthreadHandleMap, tid, handle, finish_map>>
    BY <1>0a, <1>11 DEF Acquire, AfterMutexUnlock, idVars
  <2>2. MovesOn /\ Aside
    BY <1>0, <2>1, GoesWhere DEF MovesOn, Aside, Plain
  <2>3. IdInv'
    BY <1>0, <2>1, <2>2, IdQuiet
  <2>4. LockSetInv'
    BY <1>0, <1>11, <2>1, LockSetAcquire, LockSetAfterMutexUnlock
  <2>5. QED
    BY <2>1, <2>2, <2>3, <2>4, QuietRunning
<1>12. ASSUME NEW t \in Tid, NEW l \in Lock, Trylock(t, l) PROVE Running' /\ OrderExact'
  <2>1. /\ UNCHANGED <<vcs, past, messagemap, message_past, eventset, lockeventset, events>>
        /\ UNCHANGED <<pc, obj, curr_id, pthreadHandleMap, tid, handle, finish_map>>
    BY <1>12 DEF Trylock, idVars
  <2>2. MovesOn /\ Aside
    BY <1>0, <2>1 DEF MovesOn, Aside
  <2>3. IdInv'
    BY <1>0, <2>1, <2>2, IdQuiet
  <2>4. QED
    BY <1>0, <1>12, <2>1, <2>2, <2>3, LockSetTrylock, QuietRunning
<1>13. ASSUME NEW t \in Tid, NEW l \in Lock, Unlock(t, l) PROVE Running' /\ OrderExact'
  <2>1. /\ Goes(t, "unlocking", l) /\ pc[t] = "idle"
        /\ UNCHANGED <<vcs, past, messagemap, message_past, eventset, lockeventset, events>>
        /\ UNCHANGED <<curr_id, pthreadHandleMap, tid, handle, finish_map>>
    BY <1>13 DEF Unlock, Calls, idVars
  <2>2. MovesOn /\ Aside
    BY <1>0, <2>1, GoesWhere DEF MovesOn, Aside, Plain
  <2>3. IdInv'
    BY <1>0, <2>1, <2>2, IdQuiet
  <2>4. QED
    BY <1>0, <1>13, <2>1, <2>2, <2>3, LockSetUnlock, QuietRunning
<1>14. ASSUME NEW t \in Tid, NEW c \in Cond, NEW l \in Lock, Wait(t, c, l)
       PROVE  Running' /\ OrderExact'
  <2>1. /\ Goes(t, "waiting", <<c, l>>) /\ pc[t] = "idle"
        /\ UNCHANGED <<vcs, past, messagemap, message_past, eventset, lockeventset, events>>
        /\ UNCHANGED <<curr_id, pthreadHandleMap, tid, handle, finish_map>>
    BY <1>14 DEF Wait, Calls, idVars
  <2>2. MovesOn /\ Aside
    BY <1>0, <2>1, GoesWhere DEF MovesOn, Aside, Plain
  <2>3. IdInv'
    BY <1>0, <2>1, <2>2, IdQuiet
  <2>4. QED
    BY <1>0, <1>14, <2>1, <2>2, <2>3, LockSetWait, QuietRunning
<1>15. ASSUME NEW t \in Tid, TimeOut(t) PROVE Running' /\ OrderExact'
  <2>1. /\ pc[t] = "waiting"
        /\ \A u \in Tid : pc'[u] = IF u = t THEN "timedout" ELSE pc[u]
        /\ UNCHANGED <<vcs, past, messagemap, message_past, eventset, lockeventset, events,
                       lockmap, owner, tried, obj>>
        /\ UNCHANGED <<curr_id, pthreadHandleMap, tid, handle, finish_map>>
    BY <1>0, <1>15 DEF TimeOut, idVars
  <2>2. MovesOn /\ Aside
    BY <1>0, <2>1 DEF MovesOn, Aside, Plain
  <2>3. LockSetInv'
    BY <1>0, <2>1, LockQuiet DEF InWait
  <2>4. IdInv'
    BY <1>0, <2>1, <2>2, IdQuiet
  <2>5. QED
    BY <2>1, <2>2, <2>3, <2>4, QuietRunning
<1>16. ASSUME NEW t \in Tid, Reacquire(t) PROVE Running' /\ OrderExact'
  <2>1. /\ pc[t] \in {"woken", "timedout"}
        /\ \A u \in Tid : pc'[u] = IF u # t THEN pc[u]
                                   ELSE IF pc[u] = "woken" THEN "waited" ELSE "expired"
        /\ UNCHANGED <<vcs, past, messagemap, message_past, eventset, lockeventset, events, obj>>
        /\ UNCHANGED <<curr_id, pthreadHandleMap, tid, handle, finish_map>>
    BY <1>0, <1>16 DEF Reacquire, idVars
  <2>2. MovesOn /\ Aside
    BY <1>0, <2>1 DEF MovesOn, Aside, Plain
  <2>3. LockSetInv'
    BY <1>0, <1>16, LockSetReacquire
  <2>4. IdInv'
    BY <1>0, <2>1, <2>2, IdQuiet
  <2>5. QED
    BY <2>1, <2>2, <2>3, <2>4, QuietRunning
<1>17. ASSUME NEW t \in Tid, AfterCondWait(t) PROVE Running' /\ OrderExact'
  <2>1. /\ Goes(t, "idle", NoObj) /\ pc[t] \in {"waited", "expired"} /\ getThrID(t) = t
        /\ UNCHANGED <<messagemap, message_past, eventset, lockeventset, events,
                       lockmap, owner, tried>>
        /\ UNCHANGED <<curr_id, pthreadHandleMap, tid, handle, finish_map>>
    BY <1>0a, <1>17 DEF AfterCondWait, idVars
  <2>2. \A u \in Tid : /\ pc'[u] = IF u = t THEN "idle" ELSE pc[u]
                       /\ u # t => obj'[u] = obj[u]
    BY <2>1, GoesWhere
  <2>3. MovesOn /\ Aside
    BY <1>0, <2>1, <2>2 DEF MovesOn, Aside, Plain
  <2>4. LockSetInv'
    BY <1>0, <2>1, <2>2, LockQuiet DEF InWait
  <2>5. IdInv'
    BY <1>0, <2>1, <2>3, IdQuiet
  <2>6. CASE lockrace \/ pc[t] = "expired"
    <3>1. UNCHANGED <<vcs, past>>
      BY <1>17, <2>6 DEF AfterCondWait
    <3>2. QED
      BY <2>1, <2>3, <2>4, <2>5, <3>1, QuietRunning
  <2>7. CASE ~(lockrace \/ pc[t] = "expired")
    <3>1. PICK c \in Cond : c = obj[t][1]
      BY <1>0, <2>1 DEF Fits
    <3>2. /\ vcs' = receiveMessage(vcs, t, messagemap[c])
          /\ past' = [past EXCEPT ![t] = @ \cup wake_past[t]]
          /\ wake_past[t] = message_past[c]
      BY <1>17, <2>1, <2>7, <3>1 DEF AfterCondWait
    <3>3. past' = [past EXCEPT ![t] = @ \cup message_past[c]]
      BY <3>2
    <3>4. messagemap[c] \in Clock
      BY DEF RaceTypeOK
    <3>5. Informed(AllEvents, messagemap[c], message_past[c]) /\ Happened(message_past[c])
      BY <1>0 DEF ClockInv
    <3>6. \A u \in Tid : /\ pc[u] = "unborn" => messagemap[c][u] = 0
                         /\ pc'[u] \notin {"unborn", "ended", "exited", "joined"}
                              => messagemap[c][u] < vcs[u][u]
      BY <1>0, <2>3 DEF ClockInv, Unheard, OwnLeads, MovesOn
    <3>7. ClockInv'
      BY <1>0, <2>1, <2>3, <3>2, <3>3, <3>4, <3>5, <3>6, ClockReceive
    <3>8. OrderExact' /\ LocksRecorded'
      BY <1>0, <2>1, RecordsQuiet
    <3>9. QED
      BY <2>3, <2>4, <2>5, <3>7, <3>8 DEF Running, MovesOn, Alive
  <2>8. QED
    BY <2>6, <2>7
<1>18. ASSUME NEW t \in Tid, NEW c \in Cond, NEW how \in {"signal", "broadcast"},
              BeforeCondSignal(t, c, how)
       PROVE  Running' /\ OrderExact'
  <2>1. /\ Goes(t, how, c) /\ pc[t] = "idle" /\ getThrID(t) = t
        /\ UNCHANGED <<eventset, lockeventset, events, lockmap, owner, tried>>
        /\ UNCHANGED <<curr_id, pthreadHandleMap, tid, handle, finish_map>>
    BY <1>0a, <1>18 DEF BeforeCondSignal, Calls, idVars
  <2>2. \A u \in Tid : /\ pc'[u] = IF u = t THEN how ELSE pc[u]
                       /\ obj'[u] = IF u = t THEN c ELSE obj[u]
    BY <2>1, GoesWhere
  <2>3. MovesOn /\ Aside
    BY <1>0, <2>1, <2>2 DEF MovesOn, Aside, Plain
  <2>4. LockSetInv'
    BY <1>0, <2>1, <2>2, LockQuiet DEF InWait
  <2>5. IdInv'
    BY <1>0, <2>1, <2>3, IdQuiet
  <2>6. CASE lockrace
    <3>1. UNCHANGED <<vcs, past, messagemap, message_past>>
      BY <1>18, <2>6 DEF BeforeCondSignal
    <3>2. QED
      BY <2>1, <2>3, <2>4, <2>5, <3>1, QuietRunning
  <2>7. CASE ~lockrace
    <3>1. /\ messagemap' = [messagemap EXCEPT ![c] = vcs[t]]
          /\ message_past' = [message_past EXCEPT ![c] = past[t]]
          /\ vcs' = incrementMyClock(vcs, t)
          /\ UNCHANGED past
      BY <1>18, <2>1, <2>7 DEF BeforeCondSignal
    <3>2. ClockInv'
      BY <1>0, <2>1, <2>3, <3>1, ClockSend
    <3>3. OrderExact' /\ LocksRecorded'
      BY <1>0, <2>1, RecordsQuiet
    <3>4. QED
      BY <2>3, <2>4, <2>5, <3>2, <3>3 DEF Running, MovesOn, Alive
  <2>8. QED
    BY <2>6, <2>7
<1>19. ASSUME NEW t \in Tid, Signal(t) \/ Broadcast(t) PROVE Running' /\ OrderExact'
  <2>1. WaitersOf(obj[t]) \subseteq Tid /\ \A u \in WaitersOf(obj[t]) : pc[u] = "waiting"
    BY DEF WaitersOf
  <2>2. PICK set \in SUBSET WaitersOf(obj[t]) : Wake(t, set)
    BY <1>19 DEF Signal, Broadcast
  <2>3. pc[t] \in {"signal", "broadcast"}
    BY <1>19 DEF Signal, Broadcast
  <2>4. /\ UNCHANGED <<vcs, past, messagemap, message_past, eventset, lockeventset, events,
                       lockmap, owner, tried>>
        /\ UNCHANGED <<curr_id, pthreadHandleMap, tid, handle, finish_map>>
    BY <2>2 DEF Wake, idVars
  <2>5. \A u \in Tid : /\ pc'[u] = IF u \in set THEN "woken" ELSE IF u = t THEN "idle" ELSE pc[u]
                       /\ u # t => obj'[u] = obj[u]
    BY <1>0, <2>2 DEF Wake
  <2>6. t \notin set /\ \A u \in set : u \in Tid /\ pc[u] = "waiting"
    BY <2>1, <2>2, <2>3
  <2>7. MovesOn /\ Aside
    BY <1>0, <2>3, <2>5, <2>6 DEF MovesOn, Aside, Plain
  <2>8. LockSetInv'
    <3>1. \A u \in Tid : \/ pc'[u] = pc[u] /\ obj'[u] = obj[u]
                         \/ pc[u] \in InWait /\ pc'[u] \in InWait /\ obj'[u] = obj[u]
                         \/ /\ pc[u] \notin InWait \cup {"locking", "unlocking"}
                            /\ pc'[u] \notin InWait \cup {"locking", "unlocking"}
      BY <2>3, <2>5, <2>6 DEF InWait
    <3>2. QED
      BY <1>0, <2>4, <3>1, LockQuiet
  <2>9. IdInv'
    BY <1>0, <2>4, <2>7, IdQuiet
  <2>10. QED
    BY <2>4, <2>7, <2>8, <2>9, QuietRunning
<1>20. \A t \in Tid : ~Exit(t)
  BY <1>0, NoExit
<1>21. QED
  BY <1>1, <1>2, <1>3, <1>4, <1>5, <1>6, <1>7, <1>8, <1>9, <1>10, <1>11, <1>12, <1>13,
     <1>14, <1>15, <1>16, <1>17, <1>18, <1>19, <1>20 DEF Next

-----------------------------------------------------------------------------
(***************************************************************************)
(* The report.                                                             *)
(***************************************************************************)

\* isRacing is right about two kept events.
LEMMA RacingExact ==
  ASSUME RaceTypeOK, OrderExact, LocksRecorded, NEW e1 \in AllEvents, NEW e2 \in AllEvents
  PROVE  isRacing(e1, e2) <=> ReallyRacing(e1, e2)
<1>1. e1.ls = e1.held /\ e2.ls = e2.held
  BY DEF LocksRecorded
<1>2. CASE e1.thread = e2.thread
  BY <1>2 DEF isRacing, ReallyRacing
<1>3. CASE e1.thread # e2.thread
  <2>1. /\ isHappensBefore(e1.vc, e2.vc) <=> e1.id \in e2.past
        /\ isHappensBefore(e2.vc, e1.vc) <=> e2.id \in e1.past
    BY <1>3 DEF OrderExact
  <2>2. QED
    BY <1>1, <1>3, <2>1 DEF isRacing, ReallyRacing, isIntersectionEmpty
<1>4. QED
  BY <1>2, <1>3

\* checkRace, over kept events, yields their races.
LEMMA RecordsExact ==
  ASSUME RaceTypeOK, OrderExact, LocksRecorded, NEW evs \in SUBSET AllEvents, NEW r
  PROVE  r \in checkRace(evs)
           <=> r \in SUBSET Iid /\ \E e1, e2 \in evs : ReallyRacing(e1, e2) /\ r = {e1.iid, e2.iid}
<1>1. \A e \in evs : e.iid \in Iid
  BY KeptTyped DEF Events
<1>2. r \in checkRace(evs) <=> \E e1, e2 \in evs : isRacing(e1, e2) /\ r = {e1.iid, e2.iid}
  <2>1. ASSUME r \in checkRace(evs)
        PROVE  \E e1, e2 \in evs : isRacing(e1, e2) /\ r = {e1.iid, e2.iid}
    <3>1. PICK p \in evs \X evs : isRacing(p[1], p[2]) /\ r = raceRecord(p[1], p[2])
      BY <2>1 DEF checkRace
    <3>2. p[1] \in evs /\ p[2] \in evs
      OBVIOUS
    <3>3. QED
      BY <3>1, <3>2 DEF raceRecord
  <2>2. ASSUME NEW e1 \in evs, NEW e2 \in evs, isRacing(e1, e2), r = {e1.iid, e2.iid}
        PROVE  r \in checkRace(evs)
    <3>1. PICK p : p = <<e1, e2>>
      OBVIOUS
    <3>2. p \in evs \X evs /\ p[1] = e1 /\ p[2] = e2
      BY <3>1
    <3>3. p \in {q \in evs \X evs : isRacing(q[1], q[2])} /\ r = raceRecord(p[1], p[2])
      BY <2>2, <3>2 DEF raceRecord
    <3>4. QED
      BY <3>3 DEF checkRace
  <2>3. QED
    BY <2>1, <2>2
<1>3. \A e1, e2 \in evs : isRacing(e1, e2) <=> ReallyRacing(e1, e2)
  BY RacingExact
<1>4. QED
  BY <1>1, <1>2, <1>3

\* outputRaces reports the races of the kept events and ends the process.
LEMMA OutputKept ==
  ASSUME RaceTypeOK, Running, OrderExact, outputRaces
  PROVE  OrderExact' /\ ReportIsRaces' /\ Over'
<1>1. /\ foundraces' = UNION {checkRace(eventset[a]) : a \in Addr}
      /\ foundlockraces' = UNION {checkRace(lockeventset[l]) : l \in Lock}
      /\ UNCHANGED <<eventset, lockeventset>>
      /\ \A t \in Tid : pc'[t] = "ended"
  BY DEF outputRaces, ProcessEnds
<1>2. OrderExact'
  BY <1>1, RecordsQuiet DEF Running
<1>3. /\ \A a \in Addr : eventset[a] \in SUBSET AllEvents
      /\ \A l \in Lock : lockeventset[l] \in SUBSET AllEvents
  BY WhereKept
<1>4. ASSUME NEW r
      PROVE  r \in foundraces' <=>
               r \in SUBSET Iid /\ \E a \in Addr : \E e1, e2 \in eventset[a] :
                                     ReallyRacing(e1, e2) /\ r = {e1.iid, e2.iid}
  <2>1. r \in foundraces' <=> \E a \in Addr : r \in checkRace(eventset[a])
    BY <1>1
  <2>2. \A a \in Addr :
          r \in checkRace(eventset[a])
            <=> r \in SUBSET Iid /\ \E e1, e2 \in eventset[a] :
                                     ReallyRacing(e1, e2) /\ r = {e1.iid, e2.iid}
    BY <1>3, RecordsExact DEF Running
  <2>3. QED
    BY <2>1, <2>2
<1>5. ASSUME NEW r
      PROVE  r \in foundlockraces' <=>
               r \in SUBSET Iid /\ \E l \in Lock : \E e1, e2 \in lockeventset[l] :
                                     ReallyRacing(e1, e2) /\ r = {e1.iid, e2.iid}
  <2>1. r \in foundlockraces' <=> \E l \in Lock : r \in checkRace(lockeventset[l])
    BY <1>1
  <2>2. \A l \in Lock :
          r \in checkRace(lockeventset[l])
            <=> r \in SUBSET Iid /\ \E e1, e2 \in lockeventset[l] :
                                     ReallyRacing(e1, e2) /\ r = {e1.iid, e2.iid}
    BY <1>3, RecordsExact DEF Running
  <2>3. QED
    BY <2>1, <2>2
<1>6. ReportIsRaces'
  <2>1. foundraces' = {r \in SUBSET Iid : \E a \in Addr : \E e1, e2 \in eventset[a] :
                         ReallyRacing(e1, e2) /\ r = {e1.iid, e2.iid}}
    BY <1>4
  <2>2. foundlockraces' = {r \in SUBSET Iid : \E l \in Lock : \E e1, e2 \in lockeventset[l] :
                             ReallyRacing(e1, e2) /\ r = {e1.iid, e2.iid}}
    BY <1>5
  <2>3. QED
    BY <1>1, <2>1, <2>2 DEF ReportIsRaces
<1>7. QED
  BY <1>1, <1>2, <1>6 DEF Over

\* A process that has ended takes no step.
LEMMA NothingAfterTheEnd == Over => ~Next
<1> SUFFICES ASSUME Over, Next PROVE FALSE
  OBVIOUS
<1>1. 0 \in Tid
  BY RaceAssumption DEF Tid
<1>2. \A t \in Tid : pc[t] = "ended"
  BY DEF Over
<1>3. ~outputRaces
  BY <1>1, <1>2 DEF outputRaces
<1>4. PICK t \in Tid :
        \/ getNextTID(t) \/ ReturnCurrId(t) \/ BeforeCreate(t) \/ MarkNotStarted(t)
        \/ CreateThread(t) \/ my_start_routine(t) \/ ReturnFromCreate(t)
        \/ ThreadFinish(t) \/ AfterJoin(t) \/ Exit(t)
        \/ \E u \in Tid : Join(t, u)
        \/ \E l \in Lock :
             \/ \E i \in Iid : BeforeMutexLock(t, l, i)
             \/ Trylock(t, l) \/ Unlock(t, l)
             \/ \E c \in Cond : Wait(t, c, l)
        \/ Acquire(t) \/ AfterMutexUnlock(t)
        \/ TimeOut(t) \/ Reacquire(t) \/ AfterCondWait(t)
        \/ \E c \in Cond, how \in {"signal", "broadcast"} : BeforeCondSignal(t, c, how)
        \/ Signal(t) \/ Broadcast(t)
        \/ \E a \in Addr, i \in Iid, isread \in BOOLEAN : myMemoryAccess(t, a, i, isread)
  BY <1>3 DEF Next
<1>5. pc[t] = "ended" /\ ~Calls(t)
  BY <1>2 DEF Calls
<1>6. /\ ~getNextTID(t) /\ ~ReturnCurrId(t) /\ ~BeforeCreate(t) /\ ~MarkNotStarted(t)
      /\ ~CreateThread(t) /\ ~my_start_routine(t) /\ ~ReturnFromCreate(t)
  BY <1>5 DEF getNextTID, ReturnCurrId, BeforeCreate, MarkNotStarted, CreateThread,
              my_start_routine, ReturnFromCreate
<1>7. /\ ~ThreadFinish(t) /\ ~AfterJoin(t) /\ ~Exit(t)
      /\ \A u : ~Join(t, u)
  BY <1>5 DEF ThreadFinish, AfterJoin, Exit, HookNext, Join
<1>8. \A l : /\ ~Trylock(t, l) /\ ~Unlock(t, l)
            /\ \A i : ~BeforeMutexLock(t, l, i)
            /\ \A c : ~Wait(t, c, l)
  BY <1>5 DEF BeforeMutexLock, Trylock, Unlock, Wait
<1>9. /\ \A c, how : ~BeforeCondSignal(t, c, how)
      /\ \A a, i, isread : ~myMemoryAccess(t, a, i, isread)
  BY <1>5 DEF BeforeCondSignal, myMemoryAccess
<1>10. /\ ~Acquire(t) /\ ~AfterMutexUnlock(t)
       /\ ~TimeOut(t) /\ ~Reacquire(t) /\ ~AfterCondWait(t) /\ ~Signal(t) /\ ~Broadcast(t)
  BY <1>5 DEF Acquire, AfterMutexUnlock, TimeOut, Reacquire, AfterCondWait, Signal, Broadcast
<1>11. QED
  BY <1>4, <1>6, <1>7, <1>8, <1>9, <1>10

\* What threads have met in stays met in.
LEMMA OverlapLasts == [Next]_vars /\ overlap => overlap'
<1> SUFFICES ASSUME [Next]_vars, overlap PROVE overlap'
  OBVIOUS
<1> USE DEF vars
<1>1. CASE UNCHANGED vars
  BY <1>1
<1>2. CASE outputRaces
  BY <1>2 DEF outputRaces, ProcessEnds
<1>3. ASSUME NEW t \in Tid,
             \/ getNextTID(t) \/ ReturnCurrId(t) \/ BeforeCreate(t) \/ MarkNotStarted(t)
             \/ CreateThread(t) \/ my_start_routine(t) \/ ReturnFromCreate(t)
      PROVE  overlap'
  BY <1>3 DEF getNextTID, ReturnCurrId, BeforeCreate, MarkNotStarted, CreateThread,
              my_start_routine, ReturnFromCreate
<1>4. ASSUME NEW t \in Tid, ThreadFinish(t) \/ AfterJoin(t) \/ Exit(t) \/ \E u \in Tid : Join(t, u)
      PROVE  overlap'
  BY <1>4 DEF ThreadFinish, AfterJoin, Exit, ProcessEnds, Join
<1>5. ASSUME NEW t \in Tid, NEW l \in Lock,
             \/ \E i \in Iid : BeforeMutexLock(t, l, i)
             \/ Trylock(t, l) \/ Unlock(t, l)
             \/ \E c \in Cond : Wait(t, c, l)
      PROVE  overlap'
  BY <1>5 DEF BeforeMutexLock, Trylock, Unlock, Wait
<1>6. ASSUME NEW t \in Tid,
             \/ Acquire(t) \/ AfterMutexUnlock(t) \/ TimeOut(t) \/ Reacquire(t) \/ AfterCondWait(t)
             \/ Signal(t) \/ Broadcast(t)
      PROVE  overlap'
  BY <1>6 DEF Acquire, AfterMutexUnlock, TimeOut, Reacquire, AfterCondWait, Signal, Broadcast, Wake
<1>7. ASSUME NEW t \in Tid,
             \/ \E c \in Cond, how \in {"signal", "broadcast"} : BeforeCondSignal(t, c, how)
             \/ \E a \in Addr, i \in Iid, isread \in BOOLEAN : myMemoryAccess(t, a, i, isread)
      PROVE  overlap'
  BY <1>7 DEF BeforeCondSignal, myMemoryAccess
<1>8. QED
  BY <1>1, <1>2, <1>3, <1>4, <1>5, <1>6, <1>7 DEF Next

-----------------------------------------------------------------------------
\* RaceInv holds in a new process.
LEMMA RaceInvInit == Init => RaceInv
<1> SUFFICES ASSUME Init PROVE Orderly
  BY DEF RaceInv
<1>1. RaceTypeOK
  BY RaceTypeInit
<1>2. AllEvents = {}
  BY WhereKept DEF Init, NoneOf
<1>3. 0 \in Tid /\ \A t \in Tid : pc[t] = IF t = 0 THEN "idle" ELSE "unborn"
  BY RaceAssumption DEF Init, Tid
<1>4. OrderExact /\ LocksRecorded
  BY <1>2 DEF OrderExact, LocksRecorded
<1>5. ReportIsRaces
  BY <1>3 DEF ReportIsRaces
<1>6. Alive
  BY <1>3 DEF Alive
<1>7. /\ \A u, x \in Tid : vcs[u][x] = IF u = 0 /\ x = 0 THEN 1 ELSE 0
      /\ \A c \in Cond, x \in Tid : messagemap[c][x] = 0
  BY <1>3 DEF Init, FirstVcs, ZeroClock
<1>8. ClockInv
  <2>1. \A t \in Tid : Informed(AllEvents, vcs[t], past[t]) /\ Happened(past[t]) /\ Unheard(t)
    BY <1>2, <1>3, <1>7 DEF Informed, Happened, Unheard, Init, NoneOf
  <2>2. \A c \in Cond : Informed(AllEvents, messagemap[c], message_past[c])
                          /\ Happened(message_past[c])
    BY <1>2 DEF Informed, Happened, Init, NoneOf
  <2>3. OwnLeads
    BY <1>3, <1>7 DEF OwnLeads
  <2>4. QED
    BY <1>2, <2>1, <2>2, <2>3 DEF ClockInv
<1>9. LockSetInv
  <2>1. \A t \in Tid : Held(t) = {} /\ lockmap[t] = {} /\ Wanted(t) = {}
    BY <1>3, RaceAssumption DEF Held, Init, NoneOf, Wanted, InWait, NoThread, Tid
  <2>2. \A t \in Tid : LockSetExact(t)
    BY <1>3, <2>1 DEF LockSetExact
  <2>3. QED
    BY <2>2 DEF LockSetInv, Init
<1>10. IdInv
  <2>1. PICK h \in Handle : /\ handle = [t \in Tid |-> IF t = 0 THEN h ELSE NoHandle]
                            /\ pthreadHandleMap = [i \in Tid |-> IF i = 0 THEN h ELSE NoHandle]
    BY DEF Init
  <2>2. curr_id = 0 /\ tid = [t \in Tid |-> 0] /\ finish_map = {} /\ NoHandle # h
    BY RaceAssumption DEF Init
  <2>3. IdTypeOK
    BY <1>3, <2>1, <2>2 DEF IdTypeOK
  <2>4. ASSUME NEW n \in Tid PROVE Given(n) /\ Filed(n) /\ Unfinished(n)
    BY <1>3, <2>1, <2>2 DEF Given, Filed, Unfinished
  <2>5. ASSUME NEW n \in Tid PROVE Maker(n) /\ Apart(n)
    BY <1>3 DEF Maker, Making, Apart, Owns
  <2>6. ASSUME NEW n \in Tid PROVE Found(n)
    BY <1>3, <2>1, <2>2 DEF Found, Owns, Latest, Tid
  <2>7. QED
    BY <2>3, <2>4, <2>5, <2>6 DEF IdInv
<1>11. QED
  BY <1>1, <1>4, <1>5, <1>6, <1>8, <1>9, <1>10 DEF Orderly, Running

\* Every step keeps RaceInv.
LEMMA RaceInvNext == RaceInv /\ [Next]_vars => RaceInv'
<1> SUFFICES ASSUME Orderly, [Next]_vars, ~overlap' PROVE Orderly'
  BY OverlapLasts DEF RaceInv
<1>1. RaceTypeOK
  BY DEF Orderly
<1>2. CASE UNCHANGED vars
  <2>1. /\ UNCHANGED <<eventset, lockeventset, vcs, past, messagemap, message_past, events>>
        /\ UNCHANGED <<pc, obj, lockmap, owner, tried, foundraces, foundlockraces, lockrace>>
        /\ UNCHANGED <<curr_id, pthreadHandleMap, tid, handle, finish_map>>
    BY <1>2 DEF vars, clockVars, messageVars, realVars, reportVars, idVars
  <2>2. AllEvents' = AllEvents
    BY <2>1, NothingKept
  <2>3. OrderExact' /\ ReportIsRaces'
    BY <2>1, <2>2 DEF Orderly, OrderExact, ReportIsRaces
  <2>4. RaceTypeOK'
    BY <1>1, <2>1 DEF RaceTypeOK
  <2>5. CASE Over
    BY <2>1, <2>3, <2>4, <2>5 DEF Orderly, Over
  <2>6. CASE Running
    <3>1. MovesOn /\ Aside
      BY <2>1, <2>6 DEF MovesOn, Running, Alive, Aside
    <3>2. LockSetInv'
      BY <2>1, <2>6, LockQuiet DEF Running
    <3>3. IdInv'
      BY <1>1, <2>1, <2>6, <3>1, IdQuiet DEF Running
    <3>4. Running'
      BY <1>1, <2>1, <2>6, <3>1, <3>2, <3>3, QuietRunning DEF Orderly
    <3>5. QED
      BY <2>3, <2>4, <3>4 DEF Orderly
  <2>7. QED
    BY <2>5, <2>6 DEF Orderly
<1>3. CASE Next
  <2>1. Running /\ OrderExact /\ Alive /\ IdInv
    BY <1>3, NothingAfterTheEnd DEF Orderly, Running
  <2>2. CASE outputRaces
    <3>1. OrderExact' /\ ReportIsRaces' /\ Over'
      BY <1>1, <2>1, <2>2, OutputKept
    <3>2. RaceTypeOK'
      BY <1>1, <2>2, TypesAtTheEnd
    <3>3. QED
      BY <3>1, <3>2 DEF Orderly
  <2>3. CASE ~outputRaces
    <3>1. Running' /\ OrderExact'
      BY <1>1, <1>3, <2>1, <2>3, RunningKept
    <3>2. 0 \in Tid /\ \A t \in Tid : ~Exit(t)
      BY <1>1, <2>1, NoExit, RaceAssumption DEF Tid
    <3>3. RaceTypeOK'
      BY <1>1, <1>3, <2>1, <2>3, <3>2, RaceTypeKept
    <3>4. ReportIsRaces'
      BY <3>1, <3>2 DEF ReportIsRaces, Running, Alive
    <3>5. QED
      BY <3>1, <3>3, <3>4 DEF Orderly
  <2>4. QED
    BY <2>2, <2>3
<1>4. QED
  BY <1>2, <1>3

\* RaceInv is an invariant.
LEMMA RaceInvAlways == Spec => []RaceInv
BY RaceInvInit, RaceInvNext, PTL DEF Spec

\* Every hook knows its thread, AfterJoin finds the clock of the thread that
\* was joined and no hook ends the process, for any number of threads that
\* create, end and join at once and any reuse of handles, unless threads have
\* met in the order of a shared counter, or in one of the two orders in which a
\* handle passes to another thread too early (overlap).
THEOREM IdentifiedAlways == Spec => []Identified
<1>1. ASSUME RaceInv PROVE Identified
  <2>1. CASE overlap
    BY <2>1 DEF Identified
  <2>2. CASE ~overlap /\ Over
    BY <2>2 DEF Identified, Over
  <2>3. CASE ~overlap /\ Running
    <3>1. AllIdentified /\ Alive
      BY <1>1, <2>3, IdsFound DEF RaceInv, Orderly, Running
    <3>2. QED
      BY <3>1 DEF AllIdentified, Alive, Identified
  <2>4. QED
    BY <1>1, <2>1, <2>2, <2>3 DEF RaceInv, Orderly
<1>2. QED
  BY <1>1, RaceInvAlways, PTL

\* The vector clocks of kept events are ordered exactly when pthread_create,
\* pthread_join and the condition variables order the events, whatever the
\* program, unless threads have met in one of the orders overlap stands for.
THEOREM ClocksExactAlways == Spec => []ClocksExact
<1>1. RaceInv => ClocksExact
  BY DEF RaceInv, Orderly, OrderExact, ClocksExact
<1>2. QED
  BY <1>1, RaceInvAlways, PTL

\* While a thread runs, no other thread and no condition variable knows as
\* late a time of it as itself, unless threads have met in one of the orders
\* overlap stands for.
THEOREM OwnClockLeadsAlways == Spec => []OwnClockLeads
<1>1. RaceInv => OwnClockLeads
  BY DEF RaceInv, Orderly, Running, ClockInv, Over, OwnLeads, OwnClockLeads
<1>2. QED
  BY <1>1, RaceInvAlways, PTL

\* What outputRaces writes is the races of the kept events, neither more nor
\* fewer, unless threads have met in one of the orders overlap stands for.
THEOREM ReportExactAlways == Spec => []ReportExact
<1>1. RaceInv => ReportExact
  BY DEF RaceInv, Orderly, ReportIsRaces, ReportExact
<1>2. QED
  BY <1>1, RaceInvAlways, PTL

=============================================================================
