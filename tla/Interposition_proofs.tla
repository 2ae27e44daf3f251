------------------------ MODULE Interposition_proofs ------------------------
(***************************************************************************)
(* thrille-core's wrappers start Thrille once and, under the serializer,   *)
(* let one thread run, for any set of threads and any calls of theirs.     *)
(*                                                                         *)
(* Start-up: a thread that is in it has a frame that says so, and until it *)
(* is over Main is the only thread; so nobody can come to create_handler   *)
(* a second time, nor to a hook through pthread_create, the one wrapper    *)
(* that does not look whether Thrille has started.                         *)
(***************************************************************************)
EXTENDS Interposition, FiniteSetTheorems, SequenceTheorems, TLAPS

Where == {"start", "construct", "afterInit", "before", "original", "simulate", "after"}
Frame == [fn : Function \cup {"pth_start"}, at : Where]

InterTypeOK ==
  /\ thriller \in {"plain", "serializer"}
  /\ frames \in [Thread -> Seq(Frame)]
  /\ live \subseteq Thread /\ finished \subseteq Thread
  /\ parked \subseteq Thread /\ launched \subseteq Thread
  /\ Main \in live
  /\ \A t \in Thread \ live : frames[t] = <<>>

-----------------------------------------------------------------------------
\* No wrapper of any thread is at a place of S.
Nobody(S) == \A t \in Thread : \A i \in DOMAIN frames[t] : frames[t][i].at \notin S

\* At most one wrapper is about to make a handler.
OneConstructs ==
  \A t, u \in Thread : \A i \in DOMAIN frames[t], j \in DOMAIN frames[u] :
    frames[t][i].at = "construct" /\ frames[u][j].at = "construct" => t = u /\ i = j

StartInv ==
  /\ handlers \in {0, 1}
  /\ pHandler = "null" <=> handlers = 0
  /\ handlers = 0 => Nobody({"afterInit"})
  /\ handlers = 1 => _initialized /\ Nobody({"construct"})
  /\ ~_initialized => Nobody({"construct"})
  /\ OneConstructs
  /\ pth_is_initialized => handlers = 1
  /\ ~pth_is_initialized => /\ Nobody(Hooks) /\ live = {Main}
                            /\ pHandler # "null" => pHandler = "live" /\ frames[Main] # <<>>

\* The threads that run.
Unpaused == live \ (finished \cup parked)

\* The right to run: one thread has it, or one is about to.
BatonInv ==
  thriller = "serializer" /\ ~destructorCall =>
    /\ \A x, y \in Unpaused : x = y
    /\ \A x, y \in launched : x = y
    /\ Unpaused = {} \/ launched = {}

\* Under the serializer only functions whose own hook lets them through get
\* to their originals, but for threads that have finished.
PassInv ==
  thriller = "serializer" =>
    \A t \in live \ finished : \A i \in DOMAIN frames[t] :
      frames[t][i].at = "original" => frames[t][i].fn \in PassedThrough

InterInv == InterTypeOK /\ StartInv /\ BatonInv /\ PassInv

-----------------------------------------------------------------------------
(***************************************************************************)
(* Stacks of frames.                                                       *)
(***************************************************************************)

\* What is below the topmost frame.
LEMMA BelowFrames ==
  ASSUME InterTypeOK, NEW t \in Thread, frames[t] # <<>>, NEW n, n = Len(frames[t])
  PROVE  /\ n \in Nat \ {0} /\ DOMAIN frames[t] = 1..n
         /\ Top(t) = frames[t][n] /\ Top(t) \in Frame
         /\ Below(t) \in Seq(Frame) /\ Len(Below(t)) = n - 1
         /\ \A i \in 1..(n - 1) : Below(t)[i] = frames[t][i]
<1>1. frames[t] \in Seq(Frame)
  BY DEF InterTypeOK
<1>2. n \in Nat \ {0} /\ DOMAIN frames[t] = 1..n /\ \A i \in 1..n : frames[t][i] \in Frame
  BY <1>1, EmptySeq, LenProperties
<1>3. PICK m \in Int : m = n - 1
  BY <1>2
<1>4. \A i \in 1..m : frames[t][i] \in Frame
  BY <1>2, <1>3
<1>5. /\ SubSeq(frames[t], 1, m) \in Seq(Frame)
      /\ Len(SubSeq(frames[t], 1, m)) = IF 1 <= m THEN m - 1 + 1 ELSE 0
      /\ \A i \in 1..(m - 1 + 1) : SubSeq(frames[t], 1, m)[i] = frames[t][1 + i - 1]
  BY <1>4, SubSeqProperties
<1>6. Below(t) = SubSeq(frames[t], 1, m)
  BY <1>3 DEF Below
<1>7. QED
  BY <1>2, <1>3, <1>5, <1>6 DEF Top

\* Push adds a frame on top of one thread's stack.
LEMMA PushFrames ==
  ASSUME InterTypeOK, NEW t \in Thread, NEW f \in Function \cup {"pth_start"}, NEW where \in Where,
         Push(t, f, where)
  PROVE  /\ frames' \in [Thread -> Seq(Frame)]
         /\ \A u \in Thread \ {t} : frames'[u] = frames[u]
         /\ frames'[t] # <<>>
         /\ \A i \in DOMAIN frames'[t] :
              \/ i \in DOMAIN frames[t] /\ frames'[t][i] = frames[t][i]
              \/ frames'[t][i].fn = f /\ frames'[t][i].at = where
<1>1. frames \in [Thread -> Seq(Frame)] /\ frames[t] \in Seq(Frame)
  BY DEF InterTypeOK
<1>2. PICK r : r = [fn |-> f, at |-> where]
  OBVIOUS
<1>21. r \in Frame /\ r.fn = f /\ r.at = where
  BY <1>2 DEF Frame
<1>3. frames' = [frames EXCEPT ![t] = Append(frames[t], r)]
  BY <1>2 DEF Push
<1>4. frames'[t] = Append(frames[t], r) /\ \A u \in Thread \ {t} : frames'[u] = frames[u]
  BY <1>1, <1>3
<1>5. frames' \in [Thread -> Seq(Frame)]
  BY <1>1, <1>21, <1>3, AppendProperties
<1>6. /\ frames'[t] # <<>>
      /\ \A i \in DOMAIN frames'[t] :
           \/ i \in DOMAIN frames[t] /\ frames'[t][i] = frames[t][i]
           \/ frames'[t][i] = r
  <2>1. /\ frames'[t] # <<>> /\ Len(frames'[t]) = Len(frames[t]) + 1
        /\ \A i \in 1..Len(frames[t]) : frames'[t][i] = frames[t][i]
        /\ frames'[t][Len(frames[t]) + 1] = r
    BY <1>1, <1>21, <1>4, AppendProperties
  <2>2. /\ DOMAIN frames[t] = 1..Len(frames[t]) /\ Len(frames[t]) \in Nat
        /\ DOMAIN frames'[t] = 1..Len(frames'[t])
    BY <1>1, <1>5, LenProperties
  <2>3. QED
    BY <2>1, <2>2
<1>7. QED
  BY <1>21, <1>4, <1>5, <1>6

\* MoveTo changes where the topmost frame is.
LEMMA MoveFrames ==
  ASSUME InterTypeOK, NEW t \in Thread, frames[t] # <<>>, NEW where \in Where, MoveTo(t, where)
  PROVE  /\ frames' \in [Thread -> Seq(Frame)]
         /\ \A u \in Thread \ {t} : frames'[u] = frames[u]
         /\ frames'[t] # <<>>
         /\ DOMAIN frames'[t] = DOMAIN frames[t] /\ Len(frames[t]) \in DOMAIN frames[t]
         /\ \A i \in DOMAIN frames[t] : i # Len(frames[t]) => frames'[t][i] = frames[t][i]
         /\ frames'[t][Len(frames[t])].at = where
         /\ frames'[t][Len(frames[t])].fn = Top(t).fn
<1>1. frames \in [Thread -> Seq(Frame)] /\ frames[t] \in Seq(Frame)
  BY DEF InterTypeOK
<1>2. PICK n : n = Len(frames[t])
  OBVIOUS
<1>3. /\ n \in Nat \ {0} /\ DOMAIN frames[t] = 1..n
      /\ Top(t) \in Frame /\ Below(t) \in Seq(Frame) /\ Len(Below(t)) = n - 1
      /\ \A i \in 1..(n - 1) : Below(t)[i] = frames[t][i]
  BY <1>2, BelowFrames
<1>4. PICK r : r = [fn |-> Top(t).fn, at |-> where]
  OBVIOUS
<1>5. r \in Frame /\ r.fn = Top(t).fn /\ r.at = where
  BY <1>3, <1>4 DEF Frame
<1>6. frames' = [frames EXCEPT ![t] = Append(Below(t), r)]
  BY <1>4 DEF MoveTo
<1>7. frames'[t] = Append(Below(t), r) /\ \A u \in Thread \ {t} : frames'[u] = frames[u]
  BY <1>1, <1>6
<1>8. Append(Below(t), r) \in Seq(Frame) /\ frames' \in [Thread -> Seq(Frame)]
  BY <1>1, <1>3, <1>5, <1>6, AppendProperties
<1>9. /\ Len(frames'[t]) = n /\ frames'[t][n] = r
      /\ \A i \in 1..(n - 1) : frames'[t][i] = frames[t][i]
  <2>1. /\ Len(Append(Below(t), r)) = Len(Below(t)) + 1
        /\ \A i \in 1..Len(Below(t)) : Append(Below(t), r)[i] = Below(t)[i]
        /\ Append(Below(t), r)[Len(Below(t)) + 1] = r
    BY <1>3, <1>5, AppendProperties
  <2>2. Len(Below(t)) + 1 = n
    BY <1>3
  <2>3. QED
    BY <1>3, <1>7, <2>1, <2>2
<1>10. DOMAIN frames'[t] = 1..n /\ frames'[t] # <<>>
  BY <1>3, <1>8, <1>9, LenProperties, EmptySeq
<1>11. QED
  BY <1>2, <1>3, <1>5, <1>7, <1>8, <1>9, <1>10

\* Pop takes the topmost frame away.
LEMMA PopFrames ==
  ASSUME InterTypeOK, NEW t \in Thread, frames[t] # <<>>, Pop(t)
  PROVE  /\ frames' \in [Thread -> Seq(Frame)]
         /\ \A u \in Thread \ {t} : frames'[u] = frames[u]
         /\ \A i \in DOMAIN frames'[t] : /\ i \in DOMAIN frames[t] /\ i # Len(frames[t])
                                         /\ frames'[t][i] = frames[t][i]
<1>1. frames \in [Thread -> Seq(Frame)] /\ frames[t] \in Seq(Frame)
  BY DEF InterTypeOK
<1>2. PICK n : n = Len(frames[t])
  OBVIOUS
<1>3. /\ n \in Nat \ {0} /\ DOMAIN frames[t] = 1..n
      /\ Below(t) \in Seq(Frame) /\ Len(Below(t)) = n - 1
      /\ \A i \in 1..(n - 1) : Below(t)[i] = frames[t][i]
  BY <1>2, BelowFrames
<1>4. frames' = [frames EXCEPT ![t] = Below(t)]
  BY DEF Pop
<1>5. frames'[t] = Below(t) /\ \A u \in Thread \ {t} : frames'[u] = frames[u]
  BY <1>1, <1>4
<1>6. frames' \in [Thread -> Seq(Frame)]
  BY <1>1, <1>3, <1>4
<1>7. DOMAIN Below(t) = 1..(n - 1)
  BY <1>3, LenProperties
<1>8. QED
  BY <1>2, <1>3, <1>5, <1>6, <1>7

\* Only a thread with no call under way creates a thread.
LEMMA CreateFromEmpty ==
  ASSUME NEW t, "create" \in CallsFrom(t)
  PROVE  frames[t] = <<>>
BY DEF CallsFrom

\* What is called is wrapped.
LEMMA CallsWrapped == \A t : CallsFrom(t) \subseteq Function
BY InterpositionAssumption DEF CallsFrom

\* A step that changes the stack of t alone, and where the frames that are not
\* as they were are at places of S, in functions of F.
Restacks(t, S, F) ==
  /\ frames' \in [Thread -> Seq(Frame)]
  /\ \A u \in Thread \ {t} : frames'[u] = frames[u]
  /\ \A i \in DOMAIN frames'[t] :
       \/ i \in DOMAIN frames[t] /\ frames'[t][i] = frames[t][i]
       \/ frames'[t][i].at \in S /\ frames'[t][i].fn \in F

\* Push restacks, with one new frame ...
LEMMA PushRestacks ==
  ASSUME InterTypeOK, NEW t \in Thread, NEW f \in Function \cup {"pth_start"}, NEW where \in Where,
         Push(t, f, where)
  PROVE  Restacks(t, {where}, {f}) /\ frames'[t] # <<>>
BY PushFrames DEF Restacks

\* ... MoveTo, the topmost frame ...
LEMMA MoveRestacks ==
  ASSUME InterTypeOK, NEW t \in Thread, frames[t] # <<>>, NEW where \in Where, MoveTo(t, where)
  PROVE  Restacks(t, {where}, {Top(t).fn}) /\ frames'[t] # <<>>
<1>1. /\ frames' \in [Thread -> Seq(Frame)]
      /\ \A u \in Thread \ {t} : frames'[u] = frames[u]
      /\ frames'[t] # <<>>
      /\ DOMAIN frames'[t] = DOMAIN frames[t]
      /\ \A i \in DOMAIN frames[t] : i # Len(frames[t]) => frames'[t][i] = frames[t][i]
      /\ frames'[t][Len(frames[t])].at = where
      /\ frames'[t][Len(frames[t])].fn = Top(t).fn
  BY MoveFrames
<1>2. QED
  BY <1>1 DEF Restacks

\* ... Pop, none ...
LEMMA PopRestacks ==
  ASSUME InterTypeOK, NEW t \in Thread, frames[t] # <<>>, Pop(t)
  PROVE  Restacks(t, {}, {})
BY PopFrames DEF Restacks

\* ... a step that leaves the stacks alone ...
LEMMA StillRestacks ==
  ASSUME InterTypeOK, NEW t \in Thread, UNCHANGED frames
  PROVE  Restacks(t, {}, {})
BY DEF Restacks, InterTypeOK

\* ... and the end of a thread in pthread_exit.
LEMMA ClearRestacks ==
  ASSUME InterTypeOK, NEW t \in Thread, frames' = [frames EXCEPT ![t] = <<>>]
  PROVE  Restacks(t, {}, {})
<1>1. frames \in [Thread -> Seq(Frame)] /\ <<>> \in Seq(Frame)
  BY EmptySeq DEF InterTypeOK
<1>2. /\ frames' \in [Thread -> Seq(Frame)] /\ frames'[t] = <<>>
      /\ \A u \in Thread \ {t} : frames'[u] = frames[u]
  BY <1>1
<1>3. DOMAIN frames'[t] = {}
  BY <1>2
<1>4. QED
  BY <1>2, <1>3 DEF Restacks

-----------------------------------------------------------------------------
(***************************************************************************)
(* The parts of the invariant, by kind of step.                            *)
(***************************************************************************)

\* A wrapper in a hook has been through start-up.
LEMMA HookStarted ==
  ASSUME InterTypeOK, StartInv, NEW t \in Thread, frames[t] # <<>>, Top(t).at \in Hooks
  PROVE  pth_is_initialized
<1>1. PICK n : n = Len(frames[t])
  OBVIOUS
<1>2. n \in DOMAIN frames[t] /\ Top(t) = frames[t][n]
  BY <1>1, BelowFrames
<1>3. QED
  BY <1>2 DEF StartInv, Nobody

\* A step that is no part of start-up.
LEMMA StartQuiet ==
  ASSUME InterTypeOK, StartInv, NEW t \in Thread, NEW S, NEW F, Restacks(t, S, F),
         UNCHANGED startVars, S \subseteq Hooks \cup {"start"},
         ~pth_is_initialized => /\ S \cap Hooks = {} /\ live' = live
                                /\ frames[Main] # <<>> => frames'[Main] # <<>>
  PROVE  StartInv'
<1>1. UNCHANGED <<pHandler, handlers, pth_is_initialized, _initialized>>
  BY DEF startVars
<1>2. ASSUME NEW u \in Thread, NEW i \in DOMAIN frames'[u]
      PROVE  (i \in DOMAIN frames[u] /\ frames'[u][i] = frames[u][i]) \/ frames'[u][i].at \in S
  BY <1>2 DEF Restacks
<1>3. {"construct", "afterInit"} \cap S = {}
  BY DEF Hooks
<1>4. Nobody({"afterInit"}) => Nobody({"afterInit"})'
  BY <1>2, <1>3 DEF Nobody
<1>5. Nobody({"construct"}) => Nobody({"construct"})'
  BY <1>2, <1>3 DEF Nobody
<1>6. ~pth_is_initialized => (Nobody(Hooks) => Nobody(Hooks)')
  BY <1>2 DEF Nobody
<1>7. OneConstructs'
  <2> SUFFICES ASSUME NEW u \in Thread, NEW w \in Thread,
                      NEW i \in DOMAIN frames'[u], NEW j \in DOMAIN frames'[w],
                      frames'[u][i].at = "construct", frames'[w][j].at = "construct"
               PROVE  u = w /\ i = j
    BY DEF OneConstructs
  <2>1. /\ i \in DOMAIN frames[u] /\ frames[u][i].at = "construct"
        /\ j \in DOMAIN frames[w] /\ frames[w][j].at = "construct"
    BY <1>2, <1>3
  <2>2. QED
    BY <2>1 DEF StartInv, OneConstructs
<1>8. CASE pth_is_initialized
  BY <1>1, <1>4, <1>5, <1>7, <1>8 DEF StartInv
<1>9. CASE ~pth_is_initialized
  BY <1>1, <1>4, <1>5, <1>6, <1>7, <1>9 DEF StartInv
<1>10. QED
  BY <1>8, <1>9

\* A step of t lets through what its hook lets through.
LEMMA PassKept ==
  ASSUME InterTypeOK, PassInv, NEW t \in Thread, NEW S, NEW F, Restacks(t, S, F),
         UNCHANGED thriller, finished \subseteq finished', live' \subseteq Thread,
         \A u \in live' \ live : DOMAIN frames'[u] = {},
         thriller = "serializer" /\ t \notin finished' /\ "original" \in S => F \subseteq PassedThrough
  PROVE  PassInv'
<1> SUFFICES ASSUME thriller' = "serializer", NEW u \in live' \ finished',
                    NEW i \in DOMAIN frames'[u], frames'[u][i].at = "original"
             PROVE  frames'[u][i].fn \in PassedThrough
  BY DEF PassInv
<1>1. u \in live \ finished /\ u \in Thread
  OBVIOUS
<1>2. CASE i \in DOMAIN frames[u] /\ frames'[u][i] = frames[u][i]
  BY <1>1, <1>2 DEF PassInv
<1>3. CASE ~(i \in DOMAIN frames[u] /\ frames'[u][i] = frames[u][i])
  <2>1. u = t /\ frames'[u][i].at \in S /\ frames'[u][i].fn \in F
    BY <1>1, <1>3 DEF Restacks
  <2>2. QED
    BY <2>1
<1>4. QED
  BY <1>2, <1>3

\* A step that hands nothing over.
LEMMA BatonQuiet ==
  ASSUME BatonInv, UNCHANGED <<thriller, baton, live, finished>>
  PROVE  BatonInv'
BY DEF BatonInv, baton, Unpaused

\* A step that may hand over the right to run.
LEMMA BatonHandover ==
  ASSUME InterTypeOK, BatonInv, NEW t \in Thread, NEW f, NEW h, Moves(t), HandoverIn(t, f, h),
         UNCHANGED <<thriller, live, finished>>
  PROVE  BatonInv' /\ parked' \subseteq Thread /\ launched' \subseteq Thread
<1>1. t \in live /\ t \notin parked
  BY DEF Moves
<1>2. CASE UNCHANGED baton
  BY <1>2, BatonQuiet DEF baton, InterTypeOK
<1>3. CASE ~UNCHANGED baton
  <2>1. Handover(t, f) /\ ~(f \in FinishedAware /\ t \in finished)
    BY <1>3 DEF HandoverIn
  <2>2. PICK n \in (live \ finished) \cup {t} : launched' = launched \cup {n}
    BY <2>1 DEF Handover
  <2>3. parked' = parked \cup {t} /\ n \in Thread
    BY <2>1, <2>2 DEF Handover, InterTypeOK
  <2>4. ~destructorCall' => ~destructorCall /\ t \notin finished
    BY <2>1 DEF Handover
  <2>5. ASSUME thriller' = "serializer", ~destructorCall'
        PROVE  /\ \A x, y \in Unpaused' : x = y
               /\ \A x, y \in launched' : x = y
               /\ Unpaused' = {} \/ launched' = {}
    <3>1. t \in Unpaused
      BY <1>1, <2>4, <2>5 DEF Unpaused
    <3>2. launched = {} /\ \A x \in Unpaused : x = t
      BY <2>4, <2>5, <3>1 DEF BatonInv
    <3>3. Unpaused' = {}
      BY <2>3, <3>2 DEF Unpaused
    <3>4. QED
      BY <2>2, <3>2, <3>3
  <2>6. QED
    BY <2>2, <2>3, <2>5 DEF BatonInv, InterTypeOK
<1>4. QED
  BY <1>2, <1>3

\* A step of t keeps the types.
LEMMA InterTypeKept ==
  ASSUME InterTypeOK, NEW t \in live, NEW S, NEW F, Restacks(t, S, F), UNCHANGED thriller,
         live \subseteq live', live' \subseteq Thread, finished' \subseteq Thread,
         parked' \subseteq Thread, launched' \subseteq Thread
  PROVE  InterTypeOK'
BY DEF InterTypeOK, Restacks

\* A step of t that is no part of start-up, creates no thread and ends none.
LEMMA QuietStep ==
  ASSUME InterInv, NEW t \in live, NEW S, NEW F, Restacks(t, S, F),
         UNCHANGED <<thriller, startVars, live, finished>>,
         S \subseteq Hooks \cup {"start"},
         ~pth_is_initialized => S \cap Hooks = {} /\ frames'[t] # <<>>,
         thriller = "serializer" /\ t \notin finished /\ "original" \in S => F \subseteq PassedThrough,
         UNCHANGED baton \/ (Moves(t) /\ \E f, h : HandoverIn(t, f, h))
  PROVE  InterInv'
<1>1. t \in Thread /\ live \subseteq Thread /\ finished \subseteq Thread
  BY DEF InterInv, InterTypeOK
<1>2. BatonInv' /\ parked' \subseteq Thread /\ launched' \subseteq Thread
  <2>1. CASE UNCHANGED baton
    BY <2>1, BatonQuiet DEF baton, InterTypeOK, InterInv
  <2>2. CASE Moves(t) /\ \E f, h : HandoverIn(t, f, h)
    BY <1>1, <2>2, BatonHandover DEF InterInv
  <2>3. QED
    BY <2>1, <2>2
<1>3. InterTypeOK'
  BY <1>1, <1>2, InterTypeKept DEF InterInv
<1>4. ~pth_is_initialized => (frames[Main] # <<>> => frames'[Main] # <<>>)
  BY <1>1, InterpositionAssumption DEF Restacks
<1>5. StartInv'
  BY <1>1, <1>4, StartQuiet DEF InterInv
<1>6. PassInv'
  BY <1>1, PassKept DEF InterInv
<1>7. QED
  BY <1>2, <1>3, <1>5, <1>6 DEF InterInv

\* A step that only ends the process, or runs or ends the pthread_once routine.
LEMMA InterSame ==
  ASSUME InterInv, UNCHANGED <<thriller, pHandler, handlers, pth_is_initialized, _initialized,
                               frames, live, finished, parked, launched, destructorCall>>
  PROVE  InterInv'
<1>1. InterTypeOK' /\ BatonInv' /\ PassInv'
  BY DEF InterInv, InterTypeOK, BatonInv, Unpaused, PassInv
<1>2. Nobody({"afterInit"})' = Nobody({"afterInit"}) /\ Nobody({"construct"})' = Nobody({"construct"})
        /\ Nobody(Hooks)' = Nobody(Hooks) /\ OneConstructs' = OneConstructs
  BY DEF Nobody, OneConstructs
<1>3. StartInv'
  BY <1>2 DEF InterInv, StartInv
<1>4. QED
  BY <1>1, <1>3 DEF InterInv

-----------------------------------------------------------------------------
(***************************************************************************)
(* Start-up.                                                               *)
(***************************************************************************)

\* A function is called.
LEMMA CallKept ==
  ASSUME InterInv, NEW t \in Thread, Call(t)
  PROVE  InterInv'
<1>0. t \in live /\ Moves(t)
  BY DEF Call, Moves
<1>1. PICK f \in CallsFrom(t) :
        IF f # "create" /\ ~pth_is_initialized
        THEN Push(t, f, "start") /\ UNCHANGED <<status, baton, once, live, finished>>
        ELSE IF pHandler = "live"
             THEN Push(t, f, "before") /\ UNCHANGED <<status, baton, once, live, finished>>
             ELSE ExitWith("crash")
  BY DEF Call
<1>2. f \in Function \cup {"pth_start"} /\ UNCHANGED <<thriller, startVars>>
  BY CallsWrapped DEF Call
<1>3. CASE Push(t, f, "start") /\ UNCHANGED <<baton, live, finished>>
  <2>1. Restacks(t, {"start"}, {f}) /\ frames'[t] # <<>>
    BY <1>2, <1>3, PushRestacks DEF InterInv, Where
  <2>2. QED
    BY <1>0, <1>2, <1>3, <2>1, QuietStep DEF Hooks
<1>4. CASE /\ Push(t, f, "before") /\ UNCHANGED <<baton, live, finished>>
           /\ pHandler = "live" /\ ~(f # "create" /\ ~pth_is_initialized)
  <2>1. Restacks(t, {"before"}, {f}) /\ frames'[t] # <<>>
    BY <1>2, <1>4, PushRestacks DEF InterInv, Where
  <2>2. pth_is_initialized
    <3> SUFFICES ASSUME ~pth_is_initialized PROVE FALSE
      OBVIOUS
    <3>1. t = Main /\ frames[Main] # <<>>
      BY <1>0, <1>4 DEF InterInv, StartInv
    <3>2. frames[t] = <<>>
      BY <1>4, CreateFromEmpty
    <3>3. QED
      BY <3>1, <3>2
  <2>3. QED
    BY <1>0, <1>2, <1>4, <2>1, <2>2, QuietStep DEF Hooks
<1>5. CASE ExitWith("crash")
  BY <1>2, <1>5, InterSame DEF ExitWith, startVars, baton
<1>6. QED
  BY <1>1, <1>3, <1>4, <1>5

\* Originals::initialize, whose second call ends the process.
LEMMA OriginalsKept ==
  ASSUME InterInv, NEW t \in Thread, Originals_initialize(t)
  PROVE  InterInv'
<1>1. /\ t \in live /\ frames[t] # <<>>
      /\ UNCHANGED <<thriller, pHandler, handlers, pth_is_initialized>>
  BY DEF Originals_initialize, Moves, At
<1>2. CASE _initialized
  BY <1>1, <1>2, InterSame DEF Originals_initialize, ExitWith, baton
<1>3. CASE ~_initialized
  <2>1. /\ _initialized' = TRUE /\ MoveTo(t, "construct")
        /\ UNCHANGED <<live, finished, baton>>
    BY <1>3 DEF Originals_initialize
  <2>2. Restacks(t, {"construct"}, {Top(t).fn}) /\ frames'[t] # <<>>
    BY <1>1, <2>1, MoveRestacks DEF InterInv, Where
  <2>3. InterTypeOK'
    BY <1>1, <2>1, <2>2, InterTypeKept DEF InterInv, InterTypeOK, baton
  <2>4. BatonInv'
    BY <1>1, <2>1, BatonQuiet DEF InterInv
  <2>5. PassInv'
    BY <1>1, <2>1, <2>2, PassKept DEF InterInv, InterTypeOK
  <2>6. StartInv'
    <3>1. /\ handlers = 0 /\ pHandler = "null" /\ ~pth_is_initialized
          /\ Nobody({"construct"}) /\ Nobody({"afterInit"}) /\ Nobody(Hooks) /\ live = {Main}
      BY <1>3 DEF InterInv, StartInv
    <3>2. /\ DOMAIN frames'[t] = DOMAIN frames[t]
          /\ \A i \in DOMAIN frames[t] : i # Len(frames[t]) => frames'[t][i] = frames[t][i]
          /\ frames'[t][Len(frames[t])].at = "construct"
          /\ \A u \in Thread \ {t} : frames'[u] = frames[u]
      BY <1>1, <2>1, MoveFrames DEF InterInv, Where
    <3>3. Nobody({"afterInit"})' /\ Nobody(Hooks)'
      BY <3>1, <3>2 DEF Nobody, Hooks
    <3>4. \A u \in Thread : \A i \in DOMAIN frames'[u] :
            frames'[u][i].at = "construct" => u = t /\ i = Len(frames[t])
      BY <3>1, <3>2 DEF Nobody
    <3>5. OneConstructs'
      BY <3>4 DEF OneConstructs
    <3>6. QED
      BY <1>1, <2>1, <3>1, <3>3, <3>5 DEF StartInv
  <2>7. QED
    BY <2>3, <2>4, <2>5, <2>6 DEF InterInv
<1>4. QED
  BY <1>2, <1>3

\* create_handler, which is come to once.
LEMMA CreateHandlerKept ==
  ASSUME InterInv, NEW t \in Thread, create_handler(t)
  PROVE  InterInv'
<1>1. /\ t \in live /\ frames[t] # <<>> /\ Top(t).at = "construct" /\ MoveTo(t, "afterInit")
      /\ pHandler' = "live" /\ handlers' = handlers + 1
      /\ UNCHANGED <<thriller, pth_is_initialized, _initialized, live, finished, baton>>
  BY DEF create_handler, Moves, At
<1>2. PICK n : n = Len(frames[t])
  OBVIOUS
<1>3. n \in DOMAIN frames[t] /\ frames[t][n].at = "construct"
  BY <1>1, <1>2, BelowFrames DEF InterInv
<1>4. handlers = 0 /\ _initialized /\ ~pth_is_initialized
  BY <1>3 DEF InterInv, StartInv, Nobody
<1>5. /\ Restacks(t, {"afterInit"}, {Top(t).fn}) /\ frames'[t] # <<>>
      /\ DOMAIN frames'[t] = DOMAIN frames[t]
      /\ \A i \in DOMAIN frames[t] : i # n => frames'[t][i] = frames[t][i]
      /\ frames'[t][n].at = "afterInit"
      /\ \A u \in Thread \ {t} : frames'[u] = frames[u]
  BY <1>1, <1>2, MoveRestacks, MoveFrames DEF InterInv, Where
<1>6. InterTypeOK'
  BY <1>1, <1>5, InterTypeKept DEF InterInv, InterTypeOK, baton
<1>7. BatonInv'
  BY <1>1, BatonQuiet DEF InterInv
<1>8. PassInv'
  BY <1>1, <1>5, PassKept DEF InterInv, InterTypeOK
<1>9. StartInv'
  <2>1. \A u \in Thread : \A i \in DOMAIN frames[u] :
          frames[u][i].at = "construct" => u = t /\ i = n
    BY <1>3 DEF InterInv, StartInv, OneConstructs
  <2>2. Nobody({"construct"})'
    BY <1>5, <2>1 DEF Nobody
  <2>3. OneConstructs'
    BY <2>2 DEF OneConstructs, Nobody
  <2>4. /\ Nobody(Hooks) /\ live = {Main} /\ t = Main
    BY <1>1, <1>4 DEF InterInv, StartInv
  <2>5. Nobody(Hooks)'
    BY <1>5, <2>4 DEF Nobody, Hooks
  <2>6. QED
    BY <1>1, <1>4, <1>5, <2>2, <2>3, <2>4, <2>5 DEF StartInv
<1>10. QED
  BY <1>6, <1>7, <1>8, <1>9 DEF InterInv

\* initializationDone, after which hooks run.
LEMMA InitializationDoneKept ==
  ASSUME InterInv, NEW t \in Thread, initializationDone(t)
  PROVE  InterInv'
<1>1. /\ t \in live /\ frames[t] # <<>> /\ Top(t).at = "afterInit"
      /\ UNCHANGED <<thriller, pHandler, handlers, _initialized>>
  BY DEF initializationDone, Moves, At
<1>2. CASE pth_is_initialized
  BY <1>1, <1>2, InterSame DEF initializationDone, ExitWith, baton
<1>3. CASE ~pth_is_initialized
  <2>1. /\ pth_is_initialized' = TRUE /\ (Pop(t) \/ MoveTo(t, "before"))
        /\ UNCHANGED <<live, finished, baton>>
    BY <1>3 DEF initializationDone
  <2>2. Restacks(t, {"before"}, {Top(t).fn})
    <3>1. CASE Pop(t)
      BY <1>1, <3>1, PopRestacks DEF InterInv, Restacks
    <3>2. CASE MoveTo(t, "before")
      BY <1>1, <3>2, MoveRestacks DEF InterInv, Where
    <3>3. QED
      BY <2>1, <3>1, <3>2
  <2>3. handlers = 1
    <3>1. PICK n : n = Len(frames[t])
      OBVIOUS
    <3>2. n \in DOMAIN frames[t] /\ frames[t][n].at = "afterInit"
      BY <1>1, <3>1, BelowFrames DEF InterInv
    <3>3. QED
      BY <3>2 DEF InterInv, StartInv, Nobody
  <2>4. InterTypeOK'
    BY <1>1, <2>1, <2>2, InterTypeKept DEF InterInv, InterTypeOK, baton
  <2>5. BatonInv'
    BY <1>1, <2>1, BatonQuiet DEF InterInv
  <2>6. PassInv'
    BY <1>1, <2>1, <2>2, PassKept DEF InterInv, InterTypeOK
  <2>7. StartInv'
    <3>1. Nobody({"construct"}) /\ _initialized /\ pHandler # "null"
      BY <2>3 DEF InterInv, StartInv
    <3>2. Nobody({"construct"})'
      BY <2>2, <3>1 DEF Nobody, Restacks
    <3>3. OneConstructs'
      BY <3>2 DEF OneConstructs, Nobody
    <3>4. QED
      BY <1>1, <2>1, <2>3, <3>1, <3>2, <3>3 DEF StartInv
  <2>8. QED
    BY <2>4, <2>5, <2>6, <2>7 DEF InterInv
<1>4. QED
  BY <1>2, <1>3

-----------------------------------------------------------------------------
(***************************************************************************)
(* Hooks and originals.                                                    *)
(***************************************************************************)

\* The hooks before: they let through, simulate or refuse.
LEMMA BeforeKept ==
  ASSUME InterInv, NEW t \in Thread, Before(t)
  PROVE  InterInv'
<1>0. /\ t \in live /\ Moves(t) /\ frames[t] # <<>> /\ Top(t).at \in Hooks
      /\ UNCHANGED <<thriller, startVars>>
  BY DEF Before, Moves, At, Hooks
<1>1. pth_is_initialized
  BY <1>0, HookStarted DEF InterInv
<1>2. PICK f : f = Top(t).fn
  OBVIOUS
<1>3. CASE ExitWith("exit")
  BY <1>0, <1>3, InterSame DEF ExitWith, startVars, baton
<1>4. ASSUME NEW where \in {"simulate", "original"}, MoveTo(t, where), HandoverIn(t, f, "before"),
             UNCHANGED <<once, live, finished, status>>,
             where = "original" /\ thriller = "serializer" /\ t \notin finished
               => f \in PassedThrough
      PROVE  InterInv'
  <2>1. Restacks(t, {where}, {f})
    BY <1>0, <1>2, <1>4, MoveRestacks DEF InterInv, Where
  <2>2. QED
    BY <1>0, <1>1, <1>4, <2>1, QuietStep DEF Hooks
<1>5. CASE ~ExitWith("exit")
  <2>1. /\ thriller = "plain" \/ f \in PassedThrough \cup Simulated
        /\ MoveTo(t, IF thriller = "serializer" /\ f \in Simulated
                        /\ ~(f = "mutex_lock" /\ t \in finished)
                     THEN "simulate" ELSE "original")
        /\ HandoverIn(t, f, "before")
        /\ UNCHANGED <<once, live, finished, status>>
    BY <1>2, <1>5 DEF Before
  <2>2. QED
    BY <1>4, <2>1
<1>6. QED
  BY <1>3, <1>5

\* Steps of an original, a simulation or a hook after the call.
LEMMA HookKept ==
  ASSUME InterInv, NEW t \in Thread, Original(t) \/ OriginalOnce(t) \/ Simulate(t) \/ After(t)
  PROVE  InterInv'
<1>0. /\ t \in live /\ Moves(t) /\ frames[t] # <<>> /\ Top(t).at \in Hooks
      /\ UNCHANGED <<thriller, startVars>>
  BY DEF Original, OriginalOnce, Simulate, After, Moves, At, Hooks
<1>1. pth_is_initialized
  BY <1>0, HookStarted DEF InterInv
<1>2. ASSUME MoveTo(t, "after"), UNCHANGED <<live, finished>>,
             UNCHANGED baton \/ \E f, h : HandoverIn(t, f, h)
      PROVE  InterInv'
  <2>1. Restacks(t, {"after"}, {Top(t).fn})
    BY <1>0, <1>2, MoveRestacks DEF InterInv, Where
  <2>2. QED
    BY <1>0, <1>1, <1>2, <2>1, QuietStep DEF Hooks
<1>3. CASE Original(t)
  BY <1>2, <1>3 DEF Original
<1>4. CASE OriginalOnce(t)
  <2>1. CASE UNCHANGED frames
    BY <1>4, <2>1, InterSame DEF OriginalOnce, startVars, baton
  <2>2. CASE ~UNCHANGED frames
    BY <1>2, <1>4, <2>2 DEF OriginalOnce
  <2>3. QED
    BY <2>1, <2>2
<1>5. CASE Simulate(t)
  BY <1>2, <1>5 DEF Simulate
<1>6. CASE After(t)
  <2>1. CASE Top(t).fn = "exit"
    BY <1>0, <1>6, <2>1, InterSame DEF After, ExitWith, startVars, baton
  <2>2. CASE Top(t).fn # "exit"
    <3>1. Pop(t) /\ HandoverIn(t, Top(t).fn, "after") /\ UNCHANGED <<live, finished>>
      BY <1>6, <2>2 DEF After
    <3>2. Restacks(t, {}, {})
      BY <1>0, <3>1, PopRestacks DEF InterInv
    <3>3. QED
      BY <1>0, <1>1, <3>1, <3>2, QuietStep
  <2>3. QED
    BY <2>1, <2>2
<1>7. QED
  BY <1>3, <1>4, <1>5, <1>6

\* The original of pthread_create: a new thread of the serializer pauses.
LEMMA OriginalCreateKept ==
  ASSUME InterInv, NEW t \in Thread, OriginalCreate(t)
  PROVE  InterInv'
<1>0. /\ t \in live /\ frames[t] # <<>> /\ Top(t).at \in Hooks /\ MoveTo(t, "after")
      /\ UNCHANGED <<thriller, startVars, finished, launched, destructorCall>>
  BY DEF OriginalCreate, Moves, At, Hooks
<1>1. pth_is_initialized
  BY <1>0, HookStarted DEF InterInv
<1>2. PICK u \in Thread \ live :
        /\ live' = live \cup {u}
        /\ parked' = IF thriller = "serializer" THEN parked \cup {u} ELSE parked
  BY DEF OriginalCreate
<1>3. Restacks(t, {"after"}, {Top(t).fn})
  BY <1>0, MoveRestacks DEF InterInv, Where
<1>4. /\ frames[u] = <<>> /\ u # t
      /\ live \subseteq Thread /\ finished \subseteq Thread
      /\ parked \subseteq Thread /\ launched \subseteq Thread
  BY <1>0 DEF InterInv, InterTypeOK
<1>5. InterTypeOK'
  <2>1. live \subseteq live' /\ live' \subseteq Thread /\ finished' \subseteq Thread
          /\ parked' \subseteq Thread /\ launched' \subseteq Thread
    BY <1>0, <1>2, <1>4
  <2>2. QED
    BY <1>0, <1>3, <2>1, InterTypeKept DEF InterInv
<1>6. StartInv'
  BY <1>0, <1>1, <1>3, StartQuiet DEF InterInv, Hooks
<1>7. PassInv'
  <2>1. frames'[u] = <<>>
    BY <1>3, <1>4 DEF Restacks
  <2>2. \A w \in live' \ live : DOMAIN frames'[w] = {}
    BY <1>2, <2>1
  <2>3. live' \subseteq Thread
    BY <1>2, <1>4
  <2>4. QED
    BY <1>0, <1>3, <2>2, <2>3, PassKept DEF InterInv
<1>8. BatonInv'
  <2>1. thriller = "serializer" => Unpaused' = Unpaused
    BY <1>0, <1>2 DEF Unpaused
  <2>2. QED
    BY <1>0, <2>1 DEF InterInv, BatonInv
<1>9. QED
  BY <1>5, <1>6, <1>7, <1>8 DEF InterInv

\* A thread finishes, and another one is launched.
LEMMA ThreadFinishKept ==
  ASSUME InterInv, NEW t \in Thread, ThreadFinish(t)
  PROVE  InterInv'
<1>0. /\ t \in live \ parked /\ t \notin finished /\ Finalize(t)
      /\ UNCHANGED <<thriller, startVars, live>>
  BY DEF ThreadFinish, Moves
<1>1. /\ finished' = finished \cup {t} /\ UNCHANGED <<parked, destructorCall>>
      /\ \/ UNCHANGED launched
         \/ thriller # "plain" /\ \E n \in live \ finished' : launched' = launched \cup {n}
      /\ thriller = "serializer" /\ UNCHANGED launched => live \ finished' = {} \/ launched # {}
  BY <1>0 DEF Finalize
<1>2. \/ frames[t] = <<>> /\ t # Main /\ UNCHANGED frames
      \/ /\ frames[t] # <<>> /\ Top(t).at \in {"original", "simulate"}
         /\ frames' = [frames EXCEPT ![t] = <<>>] \/ MoveTo(t, "after")
  BY DEF ThreadFinish
<1>3. pth_is_initialized
  <2>1. CASE frames[t] = <<>> /\ t # Main
    BY <1>0, <2>1 DEF InterInv, StartInv
  <2>2. CASE frames[t] # <<>> /\ Top(t).at \in {"original", "simulate"}
    BY <2>2, HookStarted DEF InterInv, Hooks
  <2>3. QED
    BY <1>2, <2>1, <2>2
<1>4. \E F : Restacks(t, {"after"}, F)
  <2>1. Restacks(t, {}, {}) => Restacks(t, {"after"}, {})
    BY DEF Restacks
  <2>2. CASE UNCHANGED frames
    BY <2>1, <2>2, StillRestacks DEF InterInv
  <2>3. CASE frames' = [frames EXCEPT ![t] = <<>>]
    BY <2>1, <2>3, ClearRestacks DEF InterInv
  <2>4. CASE frames[t] # <<>> /\ MoveTo(t, "after")
    BY <2>4, MoveRestacks DEF InterInv, Where
  <2>5. QED
    BY <1>2, <2>2, <2>3, <2>4
<1>5. PICK F : Restacks(t, {"after"}, F)
  BY <1>4
<1>6. /\ live' \subseteq Thread /\ finished' \subseteq Thread /\ live \subseteq live'
      /\ parked' \subseteq Thread /\ launched' \subseteq Thread
  BY <1>0, <1>1 DEF InterInv, InterTypeOK
<1>7. InterTypeOK'
  BY <1>0, <1>5, <1>6, InterTypeKept DEF InterInv
<1>8. StartInv'
  BY <1>0, <1>3, <1>5, StartQuiet DEF InterInv, Hooks
<1>9. PassInv'
  BY <1>0, <1>1, <1>5, <1>6, PassKept DEF InterInv
<1>10. BatonInv'
  <2> SUFFICES ASSUME thriller' = "serializer", ~destructorCall'
               PROVE  /\ \A x, y \in Unpaused' : x = y
                      /\ \A x, y \in launched' : x = y
                      /\ Unpaused' = {} \/ launched' = {}
    BY DEF BatonInv
  <2>1. t \in Unpaused /\ thriller = "serializer" /\ ~destructorCall
    BY <1>0, <1>1 DEF Unpaused
  <2>2. launched = {} /\ \A x \in Unpaused : x = t
    BY <2>1 DEF InterInv, BatonInv
  <2>3. Unpaused' = {}
    BY <1>0, <1>1, <2>2 DEF Unpaused
  <2>4. \A x, y \in launched' : x = y
    BY <1>1, <2>2
  <2>5. QED
    BY <2>3, <2>4
<1>11. QED
  BY <1>7, <1>8, <1>9, <1>10 DEF InterInv

\* A paused thread that has been launched goes on.
LEMMA PauseThreadKept ==
  ASSUME InterInv, NEW t \in Thread, pauseThread(t)
  PROVE  InterInv'
<1>0. /\ t \in parked /\ t \in launched /\ parked' = parked \ {t} /\ launched' = launched \ {t}
      /\ UNCHANGED <<thriller, startVars, frames, live, finished, destructorCall>>
  BY DEF pauseThread
<1>1. InterTypeOK'
  BY <1>0 DEF InterInv, InterTypeOK
<1>2. Restacks(t, {}, {})
  BY <1>0, StillRestacks DEF InterInv
<1>3. StartInv'
  BY <1>0, <1>2, StartQuiet DEF InterInv
<1>4. PassInv'
  BY <1>0 DEF InterInv, PassInv
<1>5. BatonInv'
  <2> SUFFICES ASSUME thriller' = "serializer", ~destructorCall'
               PROVE  /\ \A x, y \in Unpaused' : x = y
                      /\ \A x, y \in launched' : x = y
                      /\ Unpaused' = {} \/ launched' = {}
    BY DEF BatonInv
  <2>1. Unpaused = {} /\ \A x \in launched : x = t
    BY <1>0 DEF InterInv, BatonInv
  <2>2. launched' = {} /\ \A x \in Unpaused' : x = t
    BY <1>0, <2>1 DEF Unpaused
  <2>3. QED
    BY <2>2
<1>6. QED
  BY <1>1, <1>3, <1>4, <1>5 DEF InterInv

\* pth_end deletes the handler there is.
LEMMA PthEndKept ==
  ASSUME InterInv, pth_end
  PROVE  InterInv'
<1>0. /\ frames[Main] = <<>> /\ pHandler = "live" /\ pHandler' = "deleted"
      /\ UNCHANGED <<thriller, handlers, pth_is_initialized, _initialized, frames, live, finished,
                     parked, launched, destructorCall>>
  BY DEF pth_end, baton
<1>1. pth_is_initialized
  BY <1>0 DEF InterInv, StartInv
<1>2. InterTypeOK' /\ BatonInv' /\ PassInv'
  BY <1>0 DEF InterInv, InterTypeOK, BatonInv, Unpaused, PassInv
<1>3. Nobody({"construct"})' = Nobody({"construct"}) /\ OneConstructs' = OneConstructs
  BY <1>0 DEF Nobody, OneConstructs
<1>4. StartInv'
  BY <1>0, <1>1, <1>3 DEF InterInv, StartInv
<1>5. QED
  BY <1>2, <1>4 DEF InterInv

-----------------------------------------------------------------------------
\* InterInv holds when the process starts.
LEMMA InterInvInit == Init => InterInv
<1> SUFFICES ASSUME Init PROVE InterInv
  OBVIOUS
<1>1. \A t \in Thread : frames[t] = <<>> /\ DOMAIN frames[t] = {}
  BY DEF Init
<1>2. InterTypeOK
  BY <1>1, InterpositionAssumption, EmptySeq DEF Init, InterTypeOK
<1>3. \A S : Nobody(S)
  BY <1>1 DEF Nobody
<1>4. OneConstructs
  BY <1>1 DEF OneConstructs
<1>5. StartInv
  BY <1>3, <1>4 DEF Init, StartInv
<1>6. BatonInv
  BY DEF Init, BatonInv, Unpaused
<1>7. PassInv
  BY <1>1, InterpositionAssumption DEF Init, PassInv
<1>8. QED
  BY <1>2, <1>5, <1>6, <1>7 DEF InterInv

\* Every step keeps InterInv.
LEMMA InterInvNext == InterInv /\ [Next]_vars => InterInv'
<1> SUFFICES ASSUME InterInv, [Next]_vars PROVE InterInv'
  OBVIOUS
<1>1. CASE UNCHANGED vars
  BY <1>1, InterSame DEF vars
<1>2. ASSUME NEW t \in Thread, Constructor(t) PROVE InterInv'
  <2>1. /\ t \in live /\ Push(t, "pth_start", "start")
        /\ UNCHANGED <<thriller, startVars, live, finished, baton>>
    BY <1>2 DEF Constructor, Moves
  <2>2. Restacks(t, {"start"}, {"pth_start"}) /\ frames'[t] # <<>>
    BY <2>1, PushRestacks DEF InterInv, Where
  <2>3. QED
    BY <2>1, <2>2, QuietStep DEF Hooks
<1>3. CASE ProcessEnds
  BY <1>3, InterSame DEF ProcessEnds, ExitWith, startVars, baton
<1>4. CASE pth_end
  BY <1>4, PthEndKept
<1>5. ASSUME NEW t \in Thread, Step(t) PROVE InterInv'
  BY <1>2, <1>5, CallKept, OriginalsKept, CreateHandlerKept, InitializationDoneKept, BeforeKept,
     HookKept, OriginalCreateKept, ThreadFinishKept, PauseThreadKept DEF Step
<1>6. QED
  BY <1>1, <1>3, <1>4, <1>5 DEF Next

\* InterInv is an invariant.
LEMMA InterInvAlways == Spec => []InterInv
BY InterInvInit, InterInvNext, PTL DEF Spec

\* Thrille starts once, and no hook runs before it has, whichever wrapper is
\* called first and from wherever.
THEOREM StartsOnceAlways == Spec => []StartsOnce
<1>1. InterInv => StartsOnce
  <2> SUFFICES ASSUME InterInv PROVE StartsOnce
    OBVIOUS
  <2>1. handlers <= 1
    BY DEF InterInv, StartInv
  <2>2. ASSUME NEW t \in Thread, NEW i \in DOMAIN frames[t], frames[t][i].at \in Hooks
        PROVE  pth_is_initialized /\ pHandler # "null"
    BY <2>2 DEF InterInv, StartInv, Nobody
  <2>3. QED
    BY <2>1, <2>2 DEF StartsOnce
<1>2. QED
  BY <1>1, InterInvAlways, PTL

\* A set with no two elements has at most one.
LEMMA AtMostOne ==
  ASSUME NEW S, \A x, y \in S : x = y
  PROVE  Cardinality(S) \in {0, 1} /\ (S = {} => Cardinality(S) = 0)
<1>1. CASE S = {}
  BY <1>1, FS_EmptySet
<1>2. CASE S # {}
  <2>1. PICK x : S = {x}
    BY <1>2
  <2>2. QED
    BY <1>2, <2>1, FS_Singleton
<1>3. QED
  BY <1>1, <1>2

\* Under the serializer one unfinished thread at most runs or is about to,
\* unless a destructor of a finished thread called a scheduling hook.
THEOREM OneBatonAlways == Spec => []OneBaton
<1>1. InterInv => OneBaton
  <2> SUFFICES ASSUME InterInv, ~destructorCall, thriller # "plain"
               PROVE  Cardinality(live \ (finished \cup parked)) + Cardinality(launched) <= 1
    BY DEF OneBaton
  <2>1. /\ \A x, y \in Unpaused : x = y
        /\ \A x, y \in launched : x = y
        /\ Unpaused = {} \/ launched = {}
    BY DEF InterInv, InterTypeOK, BatonInv
  <2>2. /\ Cardinality(Unpaused) \in {0, 1} /\ (Unpaused = {} => Cardinality(Unpaused) = 0)
        /\ Cardinality(launched) \in {0, 1} /\ (launched = {} => Cardinality(launched) = 0)
    BY <2>1, AtMostOne
  <2>3. Cardinality(Unpaused) + Cardinality(launched) <= 1
    BY <2>1, <2>2
  <2>4. QED
    BY <2>3 DEF Unpaused
<1>2. QED
  BY <1>1, InterInvAlways, PTL

\* A thread of the serializer with the right to run enters no original that
\* waits for another thread, but those of pthread_join and pthread_once.
THEOREM NoUncontrolledBlockingAlways == Spec => []NoUncontrolledBlocking
<1>1. InterInv => NoUncontrolledBlocking
  <2> SUFFICES ASSUME InterInv, NEW t \in live \ finished, thriller = "serializer",
                      At(t, "original"), Top(t).fn \in MayBlock
               PROVE  Top(t).fn \in {"join", "once"}
    BY DEF NoUncontrolledBlocking
  <2>1. t \in Thread /\ frames[t] # <<>>
    BY DEF InterInv, InterTypeOK, At
  <2>2. PICK n : n = Len(frames[t])
    OBVIOUS
  <2>3. n \in DOMAIN frames[t] /\ frames[t][n] = Top(t)
    BY <2>1, <2>2, BelowFrames DEF InterInv
  <2>4. Top(t).fn \in PassedThrough
    BY <2>3 DEF InterInv, PassInv, At
  <2>5. QED
    BY <2>4 DEF PassedThrough, MayBlock
<1>2. QED
  BY <1>1, InterInvAlways, PTL

=============================================================================
