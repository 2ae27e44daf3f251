------------------------ MODULE ThreadCreation_proofs ------------------------
(***************************************************************************)
(* With one thread at a time inside pthread_create, as under the           *)
(* serializer, handles are translated to the right thread id, for any      *)
(* number of threads and handles and although handles are used again and   *)
(* the real pthread_create may fail.                                       *)
(*                                                                         *)
(* getNextTID reads curr_id again after it has unlocked: what it returns   *)
(* is its own increment because nobody else is in there, and the id stays  *)
(* the highest until the creator returns.                                  *)
(***************************************************************************)
EXTENDS ThreadCreation, FiniteSetTheorems, TLAPS

Points == {"unborn", "born", "run", "dead"} \cup InCreate

CreateTypeOK ==
  /\ curr_id \in Ids
  /\ pthreadHandleMap \in [Ids -> Handle \cup {NoHandle}]
  /\ thread_start_map \in [Ids -> BOOLEAN]
  /\ pc \in [Thread -> Points]
  /\ child_id \in [Thread -> Ids] /\ tid \in [Thread -> Ids]
  /\ child \in [Thread -> SUBSET Thread]
  /\ handle \in [Thread -> Handle \cup {NoHandle}]

-----------------------------------------------------------------------------
Exists(t) == pc[t] # "unborn"
Lives(t) == pc[t] \notin {"unborn", "dead"}

\* One thread is inside pthread_create.
OneCreator == \A t, u \in Creators : t = u

\* The highest id is taken, for no thread that exists.
Fresh == \A u \in Thread : Exists(u) => tid[u] # curr_id

\* What the creator has so far.
CreatorInv(t) ==
  /\ pc[t] \in {"next", "mark", "create"} => Fresh
  /\ pc[t] \in {"mark", "create", "wait", "check"} => child_id[t] = curr_id
  /\ pc[t] = "create" => ~thread_start_map[child_id[t]]
  /\ pc[t] \in {"wait", "check"} =>
       \/ child[t] = {} /\ Fresh /\ ~thread_start_map[child_id[t]]
       \/ \E u \in Thread :
            /\ child[t] = {u} /\ Exists(u) /\ tid[u] = child_id[t] /\ handle[u] \in Handle
            /\ thread_start_map[child_id[t]] => pthreadHandleMap[child_id[t]] = handle[u]

\* The table: nothing beyond curr_id, and no later entry with the handle of a
\* thread that lives.
TableInv ==
  /\ \A i \in Ids : i > curr_id => pthreadHandleMap[i] = NoHandle
  /\ \A t \in Thread : Lives(t) => handle[t] \in Handle
  /\ \A t \in Thread, i \in Ids : Lives(t) /\ i > tid[t] => pthreadHandleMap[i] # handle[t]
  /\ \A t, u \in Thread : Lives(t) /\ Lives(u) /\ t # u => handle[t] # handle[u]

\* Each thread has an id of its own.
UniqueTIDs == \A t, u \in Thread : (t # u /\ Exists(t) /\ Exists(u)) => tid[t] # tid[u]

IdInv == UniqueTIDs /\ \A t \in Thread : Exists(t) => tid[t] <= curr_id

CreateInv ==
  /\ CreateTypeOK
  /\ OneCreator
  /\ IdInv
  /\ \A t \in Thread : CreatorInv(t)
  /\ TableInv

-----------------------------------------------------------------------------
\* CreateInv holds when the Handler has been constructed.
LEMMA CreateInvInit == Init => CreateInv
<1> SUFFICES ASSUME Init PROVE CreateInv
  OBVIOUS
<1>0. 0 \in Ids /\ MaxTid \in Nat
  BY CreationAssumption DEF Ids
<1>1. PICK h \in Handle :
        /\ handle = [t \in Thread |-> IF t = Main THEN h ELSE NoHandle]
        /\ pthreadHandleMap = [i \in Ids |-> IF i = 0 THEN h ELSE NoHandle]
  BY DEF Init
<1>2. CreateTypeOK
  BY <1>0, <1>1 DEF Init, CreateTypeOK, Points
<1>3. \A t \in Thread : pc[t] = IF t = Main THEN "run" ELSE "unborn"
  BY DEF Init
<1>4. OneCreator
  BY <1>3 DEF OneCreator, Creators, InCreate
<1>5. IdInv
  BY <1>3 DEF Init, IdInv, UniqueTIDs, Exists
<1>6. \A t \in Thread : CreatorInv(t)
  BY <1>3 DEF CreatorInv
<1>7. TableInv
  <2>1. \A i \in Ids : i > 0 => pthreadHandleMap[i] = NoHandle
    BY <1>1
  <2>2. \A t \in Thread : Lives(t) => t = Main /\ handle[t] = h
    BY <1>1, <1>3 DEF Lives
  <2>3. h # NoHandle
    BY CreationAssumption
  <2>4. curr_id = 0 /\ \A t \in Thread : tid[t] = 0
    BY DEF Init
  <2>5. QED
    BY <2>1, <2>2, <2>3, <2>4 DEF TableInv
<1>8. QED
  BY <1>2, <1>4, <1>5, <1>6, <1>7 DEF CreateInv

\* A step that only moves threads, into no earlier part of pthread_create.
LEMMA MoveKept ==
  ASSUME CreateInv,
         UNCHANGED <<curr_id, pthreadHandleMap, thread_start_map, child_id, child, tid, handle>>,
         pc' \in [Thread -> Points],
         \A w \in Thread : /\ pc'[w] = "unborn" <=> pc[w] = "unborn"
                           /\ pc[w] = "dead" => pc'[w] = "dead"
                           /\ pc'[w] \in {"next", "mark", "create"} => pc'[w] = pc[w]
                           /\ pc'[w] \in {"wait", "check"} => pc[w] \in {"wait", "check"}
  PROVE  CreateInv'
<1>1. \A w \in Thread : (Exists(w)' <=> Exists(w)) /\ (Lives(w)' => Lives(w))
  BY DEF Exists, Lives
<1>2. CreateTypeOK'
  BY DEF CreateInv, CreateTypeOK
<1>3. OneCreator'
  <2>1. \A w \in Creators' : w \in Creators
    BY DEF Creators, InCreate
  <2>2. QED
    BY <2>1 DEF CreateInv, OneCreator
<1>4. UniqueTIDs' /\ \A t \in Thread : Exists(t)' => tid'[t] <= curr_id'
  BY <1>1 DEF CreateInv, IdInv, UniqueTIDs, Exists
<1>5. Fresh => Fresh'
  BY <1>1 DEF Fresh
<1>6. ASSUME NEW t \in Thread PROVE CreatorInv(t)'
  <2>1. CreatorInv(t)
    BY DEF CreateInv
  <2>2. pc'[t] \in {"next", "mark", "create"} => Fresh'
    BY <1>5, <2>1 DEF CreatorInv
  <2>3. pc'[t] \in {"mark", "create", "wait", "check"} => child_id'[t] = curr_id'
    BY <2>1 DEF CreatorInv
  <2>4. pc'[t] = "create" => ~thread_start_map'[child_id'[t]]
    BY <2>1 DEF CreatorInv
  <2>5. ASSUME pc'[t] \in {"wait", "check"}
        PROVE  \/ child'[t] = {} /\ Fresh' /\ ~thread_start_map'[child_id'[t]]
               \/ \E u \in Thread :
                    /\ child'[t] = {u} /\ Exists(u)' /\ tid'[u] = child_id'[t] /\ handle'[u] \in Handle
                    /\ thread_start_map'[child_id'[t]] => pthreadHandleMap'[child_id'[t]] = handle'[u]
    BY <1>1, <1>5, <2>1, <2>5 DEF CreatorInv
  <2>6. QED
    BY <2>2, <2>3, <2>4, <2>5 DEF CreatorInv
<1>7. TableInv'
  BY <1>1 DEF CreateInv, TableInv
<1>8. QED
  BY <1>2, <1>3, <1>4, <1>6, <1>7 DEF CreateInv, IdInv

\* getNextTID, by the only creator.
LEMMA GetNextTIDKept ==
  ASSUME CreateInv, MaxCreators <= 1, NEW t \in Thread, getNextTID(t)
  PROVE  CreateInv'
<1>0. /\ pc[t] = "run" /\ curr_id < MaxTid /\ curr_id' = curr_id + 1
      /\ pc' = [pc EXCEPT ![t] = "next"] /\ Cardinality(Creators) < MaxCreators
      /\ UNCHANGED <<pthreadHandleMap, thread_start_map, child_id, child, tid, handle>>
  BY DEF getNextTID
<1>1. Creators = {}
  <2>1. ASSUME NEW x \in Creators PROVE FALSE
    <3>1. Creators = {x}
      BY <2>1 DEF CreateInv, OneCreator
    <3>2. Cardinality(Creators) = 1
      BY <3>1, FS_Singleton
    <3>3. QED
      BY <1>0, <3>2, CreationAssumption
  <2>2. QED
    BY <2>1
<1>2. /\ curr_id \in Nat /\ MaxTid \in Nat /\ \A i \in Ids : i \in Nat
      /\ \A w \in Thread : tid[w] \in Nat
      /\ pc \in [Thread -> Points]
  BY CreationAssumption DEF CreateInv, CreateTypeOK, Ids
<1>3. \A w \in Thread : pc'[w] = IF w = t THEN "next" ELSE pc[w]
  BY <1>0, <1>2
<1>4. \A w \in Thread : (Exists(w)' <=> Exists(w)) /\ (Lives(w)' <=> Lives(w))
  BY <1>0, <1>3 DEF Exists, Lives
<1>5. CreateTypeOK'
  BY <1>0, <1>2 DEF CreateInv, CreateTypeOK, Points, InCreate, Ids
<1>6. OneCreator'
  BY <1>1, <1>3 DEF OneCreator, Creators
<1>7. IdInv'
  <2>1. UniqueTIDs'
    BY <1>0, <1>4 DEF CreateInv, IdInv, UniqueTIDs, Exists
  <2>2. \A w \in Thread : Exists(w)' => tid'[w] <= curr_id'
    BY <1>0, <1>2, <1>4 DEF CreateInv, IdInv
  <2>3. QED
    BY <2>1, <2>2 DEF IdInv
<1>8. Fresh'
  BY <1>0, <1>2, <1>4 DEF CreateInv, IdInv, Fresh
<1>9. \A w \in Thread : CreatorInv(w)'
  <2>1. CreatorInv(t)'
    BY <1>3, <1>8 DEF CreatorInv
  <2>2. ASSUME NEW w \in Thread, w # t PROVE CreatorInv(w)'
    <3>1. pc'[w] \notin InCreate
      BY <1>1, <1>3, <2>2 DEF Creators
    <3>2. QED
      BY <3>1 DEF CreatorInv, InCreate
  <2>3. QED
    BY <2>1, <2>2
<1>10. TableInv'
  BY <1>0, <1>2, <1>4 DEF CreateInv, TableInv
<1>11. QED
  BY <1>5, <1>6, <1>7, <1>9, <1>10 DEF CreateInv

\* The creator goes on: nobody else is inside pthread_create.
LEMMA Alone ==
  ASSUME CreateInv, NEW t \in Creators
  PROVE  \A w \in Thread \ {t} : pc[w] \notin InCreate
BY DEF CreateInv, OneCreator, Creators

\* A step of the creator that creates nobody.
LEMMA CreatorStepKept ==
  ASSUME CreateInv, NEW t \in Creators, NEW p \in InCreate, pc' = [pc EXCEPT ![t] = p],
         UNCHANGED <<curr_id, pthreadHandleMap, tid, handle>>,
         CreateTypeOK', CreatorInv(t)'
  PROVE  CreateInv'
<1>1. t \in Thread /\ pc[t] \in InCreate /\ pc \in [Thread -> Points]
  BY DEF Creators, CreateInv, CreateTypeOK
<1>2. \A w \in Thread : pc'[w] = IF w = t THEN p ELSE pc[w]
  BY <1>1
<1>3. \A w \in Thread : (Exists(w)' <=> Exists(w)) /\ (Lives(w)' <=> Lives(w))
  BY <1>1, <1>2 DEF Exists, Lives, InCreate
<1>4. OneCreator'
  BY <1>1, <1>2, Alone DEF OneCreator, Creators
<1>5. UniqueTIDs' /\ \A w \in Thread : Exists(w)' => tid'[w] <= curr_id'
  BY <1>3 DEF CreateInv, IdInv, UniqueTIDs, Exists
<1>6. \A w \in Thread \ {t} : CreatorInv(w)'
  <2>1. \A w \in Thread \ {t} : pc'[w] \notin InCreate
    BY <1>2, Alone
  <2>2. QED
    BY <2>1 DEF CreatorInv, InCreate
<1>7. TableInv'
  BY <1>3 DEF CreateInv, TableInv
<1>8. QED
  BY <1>4, <1>5, <1>6, <1>7 DEF CreateInv, IdInv

\* getNextTID returns the creator's own increment.
LEMMA ReturnCurrIdKept ==
  ASSUME CreateInv, NEW t \in Thread, ReturnCurrId(t)
  PROVE  CreateInv'
<1>0. /\ pc[t] = "next" /\ child_id' = [child_id EXCEPT ![t] = curr_id]
      /\ pc' = [pc EXCEPT ![t] = "mark"]
      /\ UNCHANGED <<curr_id, pthreadHandleMap, thread_start_map, child, tid, handle>>
  BY DEF ReturnCurrId
<1>1. t \in Creators /\ "mark" \in InCreate
  BY <1>0 DEF Creators, InCreate
<1>2. CreateTypeOK'
  BY <1>0 DEF CreateInv, CreateTypeOK, Points, InCreate
<1>3. pc'[t] = "mark" /\ child_id'[t] = curr_id' /\ \A w \in Thread : Exists(w)' <=> Exists(w)
  BY <1>0 DEF CreateInv, CreateTypeOK, Exists
<1>4. Fresh'
  BY <1>0, <1>3 DEF CreateInv, CreatorInv, Fresh
<1>5. CreatorInv(t)'
  BY <1>3, <1>4 DEF CreatorInv
<1>6. QED
  BY <1>0, <1>1, <1>2, <1>5, CreatorStepKept

\* The child is marked as not started.
LEMMA MarkNotStartedKept ==
  ASSUME CreateInv, NEW t \in Thread, MarkNotStarted(t)
  PROVE  CreateInv'
<1>0. /\ pc[t] = "mark" /\ thread_start_map' = [thread_start_map EXCEPT ![child_id[t]] = FALSE]
      /\ pc' = [pc EXCEPT ![t] = "create"]
      /\ UNCHANGED <<curr_id, pthreadHandleMap, child_id, child, tid, handle>>
  BY DEF MarkNotStarted
<1>1. t \in Creators /\ "create" \in InCreate
  BY <1>0 DEF Creators, InCreate
<1>2. CreateTypeOK'
  BY <1>0 DEF CreateInv, CreateTypeOK, Points, InCreate
<1>3. /\ pc'[t] = "create" /\ child_id[t] = curr_id
      /\ \A w \in Thread : Exists(w)' <=> Exists(w)
  BY <1>0 DEF CreateInv, CreateTypeOK, CreatorInv, Exists
<1>4. Fresh'
  BY <1>0, <1>3 DEF CreateInv, CreatorInv, Fresh
<1>5. ~thread_start_map'[child_id'[t]]
  BY <1>0 DEF CreateInv, CreateTypeOK
<1>6. CreatorInv(t)'
  BY <1>0, <1>3, <1>4, <1>5 DEF CreatorInv
<1>7. QED
  BY <1>0, <1>1, <1>2, <1>6, CreatorStepKept

\* The real pthread_create fails, and the creator waits.
LEMMA CreateFailsKept ==
  ASSUME CreateInv, NEW t \in Thread, CreateFails(t)
  PROVE  CreateInv'
<1>0. /\ pc[t] = "create" /\ pc' = [pc EXCEPT ![t] = WaitForStart(t)]
      /\ child' = [child EXCEPT ![t] = {}]
      /\ UNCHANGED <<curr_id, pthreadHandleMap, thread_start_map, child_id, tid, handle>>
  BY DEF CreateFails
<1>1. /\ ~thread_start_map[child_id[t]] /\ child_id[t] = curr_id /\ Fresh
      /\ WaitForStart(t) = "wait"
  BY <1>0 DEF CreateInv, CreatorInv, WaitForStart
<1>2. t \in Creators /\ "wait" \in InCreate
  BY <1>0 DEF Creators, InCreate
<1>3. CreateTypeOK'
  BY <1>0, <1>1 DEF CreateInv, CreateTypeOK, Points, InCreate
<1>4. pc'[t] = "wait" /\ child'[t] = {} /\ \A w \in Thread : Exists(w)' <=> Exists(w)
  BY <1>0, <1>1 DEF CreateInv, CreateTypeOK, Exists
<1>5. Fresh'
  BY <1>0, <1>1, <1>4 DEF Fresh
<1>6. CreatorInv(t)'
  BY <1>0, <1>1, <1>4, <1>5 DEF CreatorInv
<1>7. QED
  BY <1>0, <1>1, <1>2, <1>3, <1>6, CreatorStepKept

\* The real pthread_create succeeds: the child has an id and a handle that no
\* living thread has.
LEMMA CreateThreadKept ==
  ASSUME CreateInv, NEW t \in Thread, CreateThread(t)
  PROVE  CreateInv'
<1>0. pc[t] = "create" /\ UNCHANGED <<curr_id, pthreadHandleMap, thread_start_map, child_id>>
  BY DEF CreateThread
<1>1. /\ ~thread_start_map[child_id[t]] /\ child_id[t] = curr_id /\ Fresh
      /\ WaitForStart(t) = "wait"
  BY <1>0 DEF CreateInv, CreatorInv, WaitForStart
<1>2. PICK u \in Thread, h \in Handle \ HandlesInUse :
       /\ pc[u] = "unborn"
       /\ pc' = [pc EXCEPT ![t] = "wait", ![u] = "born"]
       /\ child' = [child EXCEPT ![t] = {u}]
       /\ tid' = [tid EXCEPT ![u] = child_id[t]]
       /\ handle' = [handle EXCEPT ![u] = h]
  BY <1>1 DEF CreateThread
<1>3. /\ t # u
      /\ \A w \in Thread : /\ pc'[w] = IF w = u THEN "born" ELSE IF w = t THEN "wait" ELSE pc[w]
                           /\ tid'[w] = IF w = u THEN curr_id ELSE tid[w]
                           /\ handle'[w] = IF w = u THEN h ELSE handle[w]
      /\ child'[t] = {u}
  BY <1>0, <1>1, <1>2 DEF CreateInv, CreateTypeOK
<1>4. CreateTypeOK'
  BY <1>0, <1>2, <1>1 DEF CreateInv, CreateTypeOK, Points, InCreate
<1>5. \A w \in Thread \ {u} : (Exists(w)' <=> Exists(w)) /\ (Lives(w)' <=> Lives(w))
  BY <1>0, <1>3 DEF Exists, Lives
<1>6. \A w \in Thread \ {u} : Lives(w) => handle[w] # h
  BY <1>2 DEF HandlesInUse, Lives
<1>7. t \in Creators
  BY <1>0 DEF Creators, InCreate
<1>8. \A w \in Thread \ {t} : pc'[w] \notin InCreate
  BY <1>3, <1>7, Alone DEF InCreate
<1>9. OneCreator'
  BY <1>8 DEF OneCreator, Creators
<1>10. IdInv'
  <2>1. curr_id \in Nat /\ \A w \in Thread : tid[w] \in Nat
    BY CreationAssumption DEF CreateInv, CreateTypeOK, Ids
  <2>2. \A w \in Thread \ {u} : Exists(w)' => tid[w] # curr_id /\ tid[w] <= curr_id
    BY <1>1, <1>5 DEF Fresh, CreateInv, IdInv
  <2>3. UniqueTIDs'
    <3> SUFFICES ASSUME NEW x \in Thread, NEW y \in Thread, x # y, Exists(x)', Exists(y)'
                 PROVE  tid'[x] # tid'[y]
      BY DEF UniqueTIDs, Exists
    <3>1. CASE x # u /\ y # u
      BY <1>3, <1>5, <3>1 DEF CreateInv, IdInv, UniqueTIDs, Exists
    <3>2. CASE x = u \/ y = u
      BY <1>3, <2>2, <3>2
    <3>3. QED
      BY <3>1, <3>2
  <2>4. \A w \in Thread : Exists(w)' => tid'[w] <= curr_id'
    BY <1>0, <1>3, <2>1, <2>2
  <2>5. QED
    BY <2>3, <2>4 DEF IdInv
<1>11. \A w \in Thread : CreatorInv(w)'
  <2>1. CreatorInv(t)'
    <3>1. /\ child'[t] = {u} /\ Exists(u)' /\ tid'[u] = child_id'[t] /\ handle'[u] \in Handle
          /\ ~thread_start_map'[child_id'[t]]
      BY <1>0, <1>1, <1>3 DEF Exists
    <3>2. pc'[t] = "wait" /\ child_id'[t] = curr_id'
      BY <1>0, <1>1, <1>3
    <3>3. QED
      BY <3>1, <3>2 DEF CreatorInv
  <2>2. \A w \in Thread \ {t} : CreatorInv(w)'
    BY <1>8 DEF CreatorInv, InCreate
  <2>3. QED
    BY <2>1, <2>2
<1>12. TableInv'
  <2>1. \A i \in Ids : i > curr_id' => pthreadHandleMap'[i] = NoHandle
    BY <1>0 DEF CreateInv, TableInv
  <2>2. \A w \in Thread : Lives(w)' => handle'[w] \in Handle
    BY <1>3, <1>5 DEF CreateInv, TableInv
  <2>3. \A w \in Thread, i \in Ids : Lives(w)' /\ i > tid'[w] => pthreadHandleMap'[i] # handle'[w]
    <3>1. \A i \in Ids : i > curr_id => pthreadHandleMap[i] # h
      BY CreationAssumption DEF CreateInv, TableInv
    <3>2. QED
      BY <1>0, <1>3, <1>5, <3>1 DEF CreateInv, TableInv
  <2>4. \A x, y \in Thread : Lives(x)' /\ Lives(y)' /\ x # y => handle'[x] # handle'[y]
    BY <1>3, <1>5, <1>6 DEF CreateInv, TableInv
  <2>5. QED
    BY <2>1, <2>2, <2>3, <2>4 DEF TableInv
<1>13. QED
  BY <1>4, <1>9, <1>10, <1>11, <1>12 DEF CreateInv

\* The child registers its handle under its own id and wakes the creator: the
\* entry it writes is its own and is the only one with its handle from there on.
LEMMA StartKept ==
  ASSUME CreateInv, NEW u \in Thread, my_start_routine(u)
  PROVE  CreateInv'
<1>0. /\ pc[u] = "born"
      /\ pthreadHandleMap' = [pthreadHandleMap EXCEPT ![tid[u]] = handle[u]]
      /\ thread_start_map' = [thread_start_map EXCEPT ![tid[u]] = TRUE]
      /\ UNCHANGED <<curr_id, child_id, child, tid, handle>>
  BY DEF my_start_routine
<1>1. /\ pc \in [Thread -> Points] /\ tid[u] \in Ids /\ curr_id \in Nat
      /\ handle[u] \in Handle \cup {NoHandle}
      /\ \A i \in Ids : i \in Nat
  BY CreationAssumption DEF CreateInv, CreateTypeOK, Ids
<1>2. /\ pc' \in [Thread -> Points] /\ pc'[u] = "run"
      /\ \A w \in Thread \ {u} : pc'[w] = pc[w] \/ (pc[w] = "wait" /\ pc'[w] = "check")
  <2> DEFINE waiting == {t \in Thread : pc[t] = "wait"}
  <2>1. CASE waiting = {} /\ pc' = [pc EXCEPT ![u] = "run"]
    BY <1>1, <2>1 DEF Points, InCreate
  <2>2. CASE \E w \in waiting : pc' = [pc EXCEPT ![u] = "run", ![w] = "check"]
    <3>1. PICK x \in waiting : pc' = [pc EXCEPT ![u] = "run", ![x] = "check"]
      BY <2>2
    <3>2. x # u /\ pc[x] = "wait" /\ x \in Thread
      BY <1>0, <3>1
    <3>3. QED
      BY <1>1, <3>1, <3>2 DEF Points, InCreate
  <2>3. QED
    BY <2>1, <2>2 DEF my_start_routine
<1>3. \A w \in Thread : (Exists(w)' <=> Exists(w)) /\ (Lives(w)' <=> Lives(w))
  BY <1>0, <1>2 DEF Exists, Lives
<1>4. Exists(u) /\ Lives(u)
  BY <1>0 DEF Exists, Lives
<1>5. \A i \in Ids :
        /\ pthreadHandleMap'[i] = IF i = tid[u] THEN handle[u] ELSE pthreadHandleMap[i]
        /\ thread_start_map'[i] = IF i = tid[u] THEN TRUE ELSE thread_start_map[i]
  BY <1>0 DEF CreateInv, CreateTypeOK
<1>6. CreateTypeOK'
  BY <1>0, <1>1, <1>2 DEF CreateInv, CreateTypeOK
<1>7. OneCreator'
  <2>1. \A w \in Creators' : w \in Creators
    BY <1>2 DEF Creators, InCreate
  <2>2. QED
    BY <2>1 DEF CreateInv, OneCreator
<1>8. UniqueTIDs' /\ \A t \in Thread : Exists(t)' => tid'[t] <= curr_id'
  BY <1>0, <1>3 DEF CreateInv, IdInv, UniqueTIDs, Exists
<1>9. Fresh => Fresh' /\ tid[u] # curr_id
  BY <1>0, <1>3, <1>4 DEF Fresh
<1>10. ASSUME NEW t \in Thread PROVE CreatorInv(t)'
  <2>1. CreatorInv(t) /\ child_id[t] \in Ids
    BY DEF CreateInv, CreateTypeOK
  <2>2. /\ pc'[t] \in {"next", "mark", "create"} => pc'[t] = pc[t]
        /\ pc'[t] \in {"wait", "check"} => pc[t] \in {"wait", "check"}
    BY <1>2
  <2>3. pc'[t] \in {"next", "mark", "create"} => Fresh'
    BY <1>9, <2>1, <2>2 DEF CreatorInv
  <2>4. pc'[t] \in {"mark", "create", "wait", "check"} => child_id'[t] = curr_id'
    BY <1>0, <2>1, <2>2 DEF CreatorInv
  <2>5. ASSUME pc'[t] = "create" PROVE ~thread_start_map'[child_id'[t]]
    <3>1. Fresh /\ child_id[t] = curr_id /\ ~thread_start_map[child_id[t]]
      BY <2>1, <2>2, <2>5 DEF CreatorInv
    <3>2. QED
      BY <1>0, <1>5, <1>9, <2>1, <3>1
  <2>6. ASSUME pc'[t] \in {"wait", "check"}
        PROVE  \/ child'[t] = {} /\ Fresh' /\ ~thread_start_map'[child_id'[t]]
               \/ \E v \in Thread :
                    /\ child'[t] = {v} /\ Exists(v)' /\ tid'[v] = child_id'[t] /\ handle'[v] \in Handle
                    /\ thread_start_map'[child_id'[t]] => pthreadHandleMap'[child_id'[t]] = handle'[v]
    <3>0. child_id[t] = curr_id /\ pc[t] \in {"wait", "check"}
      BY <2>1, <2>2, <2>6 DEF CreatorInv
    <3>1. CASE child[t] = {} /\ Fresh /\ ~thread_start_map[child_id[t]]
      BY <1>0, <1>5, <1>9, <2>1, <3>0, <3>1
    <3>2. ASSUME NEW v \in Thread,
                 child[t] = {v}, Exists(v), tid[v] = child_id[t], handle[v] \in Handle,
                 thread_start_map[child_id[t]] => pthreadHandleMap[child_id[t]] = handle[v]
          PROVE  /\ child'[t] = {v} /\ Exists(v)' /\ tid'[v] = child_id'[t] /\ handle'[v] \in Handle
                 /\ thread_start_map'[child_id'[t]] => pthreadHandleMap'[child_id'[t]] = handle'[v]
      <4>1. tid[u] = child_id[t] => u = v
        BY <1>4, <3>2 DEF CreateInv, IdInv, UniqueTIDs, Exists
      <4>2. QED
        BY <1>0, <1>3, <1>5, <2>1, <3>2, <4>1
    <3>3. QED
      BY <2>1, <3>0, <3>1, <3>2 DEF CreatorInv
  <2>7. QED
    BY <2>3, <2>4, <2>5, <2>6 DEF CreatorInv
<1>11. TableInv'
  <2>1. \A i \in Ids : i > curr_id' => pthreadHandleMap'[i] = NoHandle
    <3>1. tid[u] <= curr_id
      BY <1>4 DEF CreateInv, IdInv
    <3>2. QED
      BY <1>0, <1>1, <1>5, <3>1 DEF CreateInv, TableInv
  <2>2. \A w \in Thread : Lives(w)' => handle'[w] \in Handle
    BY <1>0, <1>3 DEF CreateInv, TableInv
  <2>3. ASSUME NEW w \in Thread, NEW i \in Ids, Lives(w)', i > tid'[w]
        PROVE  pthreadHandleMap'[i] # handle'[w]
    <3>1. Lives(w) /\ i > tid[w]
      BY <1>0, <1>3, <2>3
    <3>2. CASE i = tid[u]
      <4>1. tid[w] \in Nat /\ i \in Nat
        BY <1>1, CreationAssumption DEF CreateInv, CreateTypeOK, Ids
      <4>2. w # u
        BY <3>1, <3>2, <4>1
      <4>3. handle[w] # handle[u]
        BY <1>4, <3>1, <4>2 DEF CreateInv, TableInv
      <4>4. QED
        BY <1>0, <1>5, <3>2, <4>3
    <3>3. CASE i # tid[u]
      BY <1>0, <1>5, <3>1, <3>3 DEF CreateInv, TableInv
    <3>4. QED
      BY <3>2, <3>3
  <2>4. \A x, y \in Thread : Lives(x)' /\ Lives(y)' /\ x # y => handle'[x] # handle'[y]
    BY <1>0, <1>3 DEF CreateInv, TableInv
  <2>5. QED
    BY <2>1, <2>2, <2>3, <2>4 DEF TableInv
<1>12. QED
  BY <1>6, <1>7, <1>8, <1>10, <1>11 DEF CreateInv, IdInv

\* The loop on newthread_cond is left or goes on waiting.
LEMMA WaitForStartType ==
  ASSUME NEW t \in Thread
  PROVE  WaitForStart(t) \in {"run", "wait"}
BY DEF WaitForStart

\* Every step keeps CreateInv.
LEMMA CreateInvNext ==
  ASSUME MaxCreators <= 1, CreateInv, [Next]_vars
  PROVE  CreateInv'
<1>1. CASE UNCHANGED vars
  BY <1>1, MoveKept DEF vars, CreateInv, CreateTypeOK
<1>2. ASSUME NEW t \in Thread, getNextTID(t) PROVE CreateInv'
  BY <1>2, GetNextTIDKept
<1>3. ASSUME NEW t \in Thread, WrapperStep(t) PROVE CreateInv'
  <2>1. CASE CheckStarted(t)
    <3>1. /\ pc[t] = "check" /\ pc' = [pc EXCEPT ![t] = WaitForStart(t)]
          /\ UNCHANGED <<curr_id, pthreadHandleMap, thread_start_map, child_id, child, tid, handle>>
      BY <2>1 DEF CheckStarted
    <3>2. /\ pc' \in [Thread -> Points]
          /\ pc'[t] \in {"run", "wait"} /\ \A w \in Thread \ {t} : pc'[w] = pc[w]
      BY <3>1, WaitForStartType DEF CreateInv, CreateTypeOK, Points, InCreate
    <3>3. QED
      BY <3>1, <3>2, MoveKept
  <2>2. QED
    BY <1>3, <2>1, ReturnCurrIdKept, MarkNotStartedKept, CreateThreadKept, StartKept DEF WrapperStep
<1>4. ASSUME NEW t \in Thread, CreateFails(t) PROVE CreateInv'
  BY <1>4, CreateFailsKept
<1>5. ASSUME NEW t \in Thread, SpuriousWakeup(t) PROVE CreateInv'
  <2>1. /\ pc[t] = "wait" /\ pc' = [pc EXCEPT ![t] = "check"]
        /\ UNCHANGED <<curr_id, pthreadHandleMap, thread_start_map, child_id, child, tid, handle>>
    BY <1>5 DEF SpuriousWakeup
  <2>2. /\ pc' \in [Thread -> Points]
        /\ pc'[t] = "check" /\ \A w \in Thread \ {t} : pc'[w] = pc[w]
    BY <2>1 DEF CreateInv, CreateTypeOK, Points, InCreate
  <2>3. QED
    BY <2>1, <2>2, MoveKept
<1>6. ASSUME NEW t \in Thread, ThreadEnds(t) PROVE CreateInv'
  <2>1. /\ pc[t] = "run" /\ pc' = [pc EXCEPT ![t] = "dead"]
        /\ UNCHANGED <<curr_id, pthreadHandleMap, thread_start_map, child_id, child, tid, handle>>
    BY <1>6 DEF ThreadEnds
  <2>2. /\ pc' \in [Thread -> Points]
        /\ pc'[t] = "dead" /\ \A w \in Thread \ {t} : pc'[w] = pc[w]
    BY <2>1 DEF CreateInv, CreateTypeOK, Points, InCreate
  <2>3. QED
    BY <2>1, <2>2, MoveKept
<1>7. QED
  BY <1>1, <1>2, <1>3, <1>4, <1>5, <1>6 DEF Next

\* CreateInv holds as long as one thread at a time is inside pthread_create.
LEMMA CreateInvAlways ==
  ASSUME MaxCreators <= 1
  PROVE  Spec => []CreateInv
<1>1. CreateInv /\ [Next]_vars => CreateInv'
  BY CreateInvNext
<1>2. QED
  BY <1>1, CreateInvInit, PTL DEF Spec

-----------------------------------------------------------------------------
\* The highest of a set of ids, -1 among them, is the one nothing exceeds.
LEMMA HighestMatch ==
  ASSUME NEW h, NEW i \in Ids, pthreadHandleMap[i] = h,
         \A j \in Ids : pthreadHandleMap[j] = h => j <= i
  PROVE  translateHandleToTID(h) = i
<1> DEFINE S == {-1} \cup {j \in Ids : pthreadHandleMap[j] = h}
<1>1. S \subseteq Int /\ i \in Nat
  BY CreationAssumption DEF Ids
<1>2. i \in S /\ \A j \in S : i >= j
  BY <1>1 DEF Ids
<1>3. \A x \in S : (\A j \in S : x >= j) => x = i
  BY <1>1, <1>2
<1>4. Max(S) = i
  BY <1>2, <1>3 DEF Max
<1>5. QED
  BY <1>4 DEF translateHandleToTID

\* A living thread whose entry in the table is its own is identified by it:
\* translateHandleToTID takes the highest match, and no later thread got a
\* living thread's handle, although the handles of the dead are used again.
THEOREM HandleReuseOKAlways ==
  ASSUME MaxCreators <= 1
  PROVE  Spec => []HandleReuseOK
<1>1. ASSUME CreateInv PROVE HandleReuseOK
  <2> SUFFICES ASSUME NEW t \in Thread, pc[t] \notin {"unborn", "born", "dead"},
                      pthreadHandleMap[tid[t]] = handle[t]
               PROVE  translateHandleToTID(handle[t]) = tid[t]
    BY DEF HandleReuseOK
  <2>1. tid[t] \in Ids /\ Lives(t) /\ \A i \in Ids : i \in Nat
    BY <1>1, CreationAssumption DEF CreateInv, CreateTypeOK, Lives, Ids
  <2>2. \A j \in Ids : pthreadHandleMap[j] = handle[t] => j <= tid[t]
    BY <1>1, <2>1 DEF CreateInv, TableInv
  <2>3. QED
    BY <2>1, <2>2, HighestMatch
<1>2. QED
  BY <1>1, CreateInvAlways, PTL

\* The creator comes back from pthread_create in one way: it has tested the
\* loop's condition and found that its child has started.
LEMMA ReturnsFromLoop ==
  ASSUME CreateInv, Next, NEW t \in Thread, pc[t] \in {"create", "check"}, pc'[t] = "run"
  PROVE  CheckStarted(t) /\ pc[t] = "check" /\ thread_start_map[child_id[t]]
<1>0. pc \in [Thread -> Points] /\ \A x \in Thread : pc[x] = "create" => WaitForStart(x) = "wait"
  BY DEF CreateInv, CreateTypeOK, CreatorInv, WaitForStart
<1>1. PICK x \in Thread : \/ getNextTID(x) \/ WrapperStep(x) \/ CreateFails(x)
                          \/ SpuriousWakeup(x) \/ ThreadEnds(x)
  BY DEF Next
<1>2. CASE getNextTID(x) \/ SpuriousWakeup(x) \/ ThreadEnds(x)
  BY <1>0, <1>2 DEF getNextTID, SpuriousWakeup, ThreadEnds
<1>3. CASE ReturnCurrId(x) \/ MarkNotStarted(x)
  BY <1>0, <1>3 DEF ReturnCurrId, MarkNotStarted
<1>4. CASE CreateFails(x)
  BY <1>0, <1>4 DEF CreateFails
<1>5. CASE CreateThread(x)
  <2>1. PICK u \in Thread : /\ pc[u] = "unborn" /\ pc[x] = "create"
                            /\ pc' = [pc EXCEPT ![x] = "wait", ![u] = "born"]
    BY <1>0, <1>5 DEF CreateThread
  <2>2. QED
    BY <1>0, <2>1
<1>6. CASE my_start_routine(x)
  <2>1. /\ pc[x] = "born"
        /\ \/ pc' = [pc EXCEPT ![x] = "run"]
           \/ \E w \in Thread : pc[w] = "wait" /\ pc' = [pc EXCEPT ![x] = "run", ![w] = "check"]
    BY <1>6 DEF my_start_routine
  <2>2. QED
    BY <1>0, <2>1
<1>7. CASE CheckStarted(x)
  <2>1. pc[x] = "check" /\ pc' = [pc EXCEPT ![x] = WaitForStart(x)]
    BY <1>7 DEF CheckStarted
  <2>2. x = t /\ WaitForStart(t) = "run"
    BY <1>0, <2>1
  <2>3. QED
    BY <1>7, <2>1, <2>2 DEF WaitForStart
<1>8. QED
  BY <1>1, <1>2, <1>3, <1>4, <1>5, <1>6, <1>7 DEF WrapperStep

\* When pthread_create returns, the handle it has stored is translated to the
\* child's id: the child has written its entry, and it is the last one.
THEOREM ChildIdentifiedOnReturnAlways ==
  ASSUME MaxCreators <= 1
  PROVE  Spec => ChildIdentifiedOnReturn
<1> DEFINE Identified ==
      \A t \in Thread :
        (pc[t] \in {"create", "check"} /\ pc'[t] = "run") =>
          \A u \in child'[t] : translateHandleToTID(handle[u])' = child_id[t]
<1>1. ASSUME CreateInv, CreateInv', Next PROVE Identified
  <2> SUFFICES ASSUME NEW t \in Thread, pc[t] \in {"create", "check"}, pc'[t] = "run",
                      NEW u \in child'[t]
               PROVE  translateHandleToTID(handle[u])' = child_id[t]
    OBVIOUS
  <2>1. CheckStarted(t) /\ pc[t] = "check" /\ thread_start_map[child_id[t]]
    BY <1>1, ReturnsFromLoop
  <2>2. UNCHANGED <<curr_id, pthreadHandleMap, child, handle>>
    BY <2>1 DEF CheckStarted
  <2>3. child_id[t] = curr_id /\ child_id[t] \in Ids /\ \A i \in Ids : i \in Nat
    BY <1>1, <2>1, CreationAssumption DEF CreateInv, CreateTypeOK, CreatorInv, Ids
  <2>4. handle[u] \in Handle /\ pthreadHandleMap[child_id[t]] = handle[u]
    BY <1>1, <2>1, <2>2 DEF CreateInv, CreatorInv
  <2>5. \A j \in Ids : pthreadHandleMap[j] = handle[u] => j <= child_id[t]
    BY <1>1, <2>3, <2>4, CreationAssumption DEF CreateInv, TableInv
  <2>6. translateHandleToTID(handle[u]) = child_id[t]
    BY <2>3, <2>4, <2>5, HighestMatch
  <2>7. QED
    BY <2>2, <2>6 DEF translateHandleToTID
<1>2. CreateInv /\ CreateInv' /\ [Next]_vars => [Identified]_vars
  BY <1>1
<1>3. QED
  BY <1>2, CreateInvAlways, PTL DEF Spec, ChildIdentifiedOnReturn

=============================================================================
