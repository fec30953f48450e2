-------------------------- MODULE ProceduresProofs --------------------------
(***************************************************************************)
(* The frames of Procedures for any number of calls, nested or overlapping.*)
(* The inductive invariant adds what the code relies on without saying so: *)
(* no frame is ahead of the counter, and the bottom of the stack is the    *)
(* frame of the rules.  As long as calls are nested, more holds (Chained): *)
(* the calls are those of the stack, and each frame waits for the next one *)
(* above it, so only the top one runs.                                     *)
(***************************************************************************)
EXTENDS Procedures, FiniteSetTheorems, SequenceTheorems, TLAPS

USE ProcedureAssumption

\* The saved frames with the current one on top.
Saved == Append(stack, frame)

Distinct == \A i, j \in DOMAIN Saved : Saved[i] = Saved[j] => i = j

BehindCounter ==
  /\ \A i \in DOMAIN Saved : Saved[i] <= counter
  /\ \A f \in calls \cup ended : f <= counter

IInv ==
  /\ TypeOK
  /\ IsFiniteSet(calls)
  /\ EnterExitPaired
  /\ Saved[1] = 0
  /\ Distinct
  /\ BehindCounter
  /\ calls \cap ended = {}

LEMMA InitIInv == Init => IInv
<1> SUFFICES ASSUME Init PROVE IInv
  OBVIOUS
<1>1. TypeOK
  BY DEF Init, TypeOK, Frames
<1>2. IsFiniteSet(calls) /\ EnterExitPaired
  BY FS_EmptySet DEF Init, EnterExitPaired
<1>3. Saved = <<0>> /\ DOMAIN Saved = {1}
  BY DEF Init, Saved
<1>4. Saved[1] = 0 /\ Distinct /\ BehindCounter
  BY <1>3 DEF Init, Distinct, BehindCounter
<1> QED BY <1>1, <1>2, <1>4 DEF IInv, Init

LEMMA FramesNat == Frames \subseteq Nat /\ 0 \in Frames
BY DEF Frames

LEMMA SavedSeq ==
  ASSUME TypeOK
  PROVE  /\ Saved \in Seq(Frames) /\ Len(Saved) = Len(stack) + 1
         /\ DOMAIN Saved = 1 .. Len(stack) + 1 /\ DOMAIN stack = 1 .. Len(stack)
         /\ Saved[Len(stack) + 1] = frame
         /\ \A i \in 1 .. Len(stack) : Saved[i] = stack[i] /\ stack[i] \in Frames
         /\ \A i \in DOMAIN Saved : Saved[i] \in Frames
BY DEF TypeOK, Saved

\* enterProcedure puts the next frame on top of all saved ones.
LEMMA EnterSaves ==
  ASSUME TypeOK, counter < MaxCalls, enterProcedure
  PROVE  /\ frame' = counter + 1 /\ counter' = counter + 1
         /\ counter' \in Frames \ {0} /\ stack' \in Seq(Frames)
         /\ Len(stack') = Len(stack) + 1
         /\ stack' = Saved
         /\ DOMAIN Saved' = 1 .. Len(stack) + 2
         /\ Saved'[Len(stack) + 2] = counter + 1
         /\ \A i \in 1 .. Len(stack) + 1 : Saved'[i] = Saved[i]
<1>1. /\ frame' = counter + 1 /\ counter' = counter + 1 /\ counter' \in Frames \ {0}
      /\ stack' = Saved /\ stack' \in Seq(Frames) /\ Len(stack') = Len(stack) + 1
  BY SavedSeq DEF enterProcedure, TypeOK, Frames, Saved
<1>2. Saved' = Append(stack', frame')
  BY DEF Saved
<1>3. Len(stack) \in Nat /\ Len(stack') = Len(stack) + 1
  BY <1>1 DEF TypeOK
<1>4. DOMAIN Saved' = 1 .. Len(stack) + 2 /\ Saved'[Len(stack) + 2] = counter + 1
  BY <1>1, <1>2, <1>3
<1>5. \A i \in 1 .. Len(stack) + 1 : Saved'[i] = stack'[i]
  BY <1>1, <1>2, <1>3
<1> QED BY <1>1, <1>4, <1>5

\* exitProcedure takes the top frame away.
LEMMA ExitRestores ==
  ASSUME TypeOK, exitProcedure
  PROVE  /\ Len(stack) \in Nat \ {0} /\ counter' = counter
         /\ frame' \in Frames /\ stack' \in Seq(Frames)
         /\ Len(stack') = Len(stack) - 1
         /\ DOMAIN Saved' = 1 .. Len(stack)
         /\ \A i \in 1 .. Len(stack) : Saved'[i] = Saved[i]
<1>1. stack \in Seq(Frames) /\ stack # <<>> /\ Len(stack) \in Nat \ {0}
  BY DEF TypeOK, exitProcedure
<1>2. /\ frame' = stack[Len(stack)] /\ frame' \in Frames
      /\ stack' = SubSeq(stack, 1, Len(stack) - 1) /\ counter' = counter
  BY <1>1 DEF exitProcedure, Front, Last
<1>3. /\ stack' \in Seq(Frames) /\ Len(stack') = Len(stack) - 1
      /\ \A i \in 1 .. Len(stack) - 1 : stack'[i] = stack[i]
  <2>1. /\ Len(stack) - 1 \in 0 .. Len(stack)
        /\ \A i \in 1 .. Len(stack) - 1 : stack[i] \in Frames
    BY <1>1
  <2>2. stack' \in Seq(Frames) /\ Len(stack') = Len(stack) - 1
    <3> DEFINE n == Len(stack) - 1
    <3>1. n \in Nat /\ 1 \in Int /\ n \in Int /\ stack' = SubSeq(stack, 1, n)
          /\ \A i \in 1 .. n : stack[i] \in Frames
      BY <1>1, <1>2, <2>1
    <3> HIDE DEF n
    <3>2. /\ SubSeq(stack, 1, n) \in Seq(Frames)
          /\ Len(SubSeq(stack, 1, n)) = IF 1 <= n THEN n - 1 + 1 ELSE 0
      BY <3>1, SubSeqProperties, SMTT(30)
    <3>3. (IF 1 <= n THEN n - 1 + 1 ELSE 0) = n
      BY <3>1
    <3> QED BY <3>1, <3>2, <3>3 DEF n
  <2>3. ASSUME NEW i \in 1 .. Len(stack) - 1 PROVE stack'[i] = stack[i]
    <3>1. i \in 1 .. Len(stack) - 1 - 1 + 1 /\ 1 + i - 1 = i /\ Len(stack) - 1 \in Int
      BY <1>1
    <3>2. stack'[i] = stack[1 + i - 1]
      BY <1>2, <2>1, <3>1, SubSeqProperties
    <3> QED BY <3>1, <3>2
  <2> QED BY <2>2, <2>3
<1>4. Saved' = Append(stack', frame')
  BY DEF Saved
<1>5. DOMAIN Saved' = 1 .. Len(stack)
  BY <1>1, <1>3, <1>4
<1>6. ASSUME NEW i \in 1 .. Len(stack) PROVE Saved'[i] = Saved[i]
  <2>1. CASE i = Len(stack)
    BY <2>1, <1>1, <1>2, <1>3, <1>4, SavedSeq
  <2>2. CASE i # Len(stack)
    BY <2>2, <1>1, <1>3, <1>4, SavedSeq
  <2> QED BY <2>1, <2>2
<1> QED BY <1>1, <1>2, <1>3, <1>5, <1>6

LEMMA CallIInv ==
  ASSUME IInv, NEW f \in Frames, Call(f)
  PROVE  IInv'
<1> USE DEF IInv
<1>0. TypeOK /\ counter < MaxCalls /\ enterProcedure
  BY DEF Call
<1> DEFINE n == counter + 1
<1>1. /\ frame' = n /\ counter' = n /\ n \in Frames \ {0} /\ n \in Nat
      /\ stack' \in Seq(Frames) /\ Len(stack') = Len(stack) + 1
      /\ DOMAIN Saved' = 1 .. Len(stack) + 2
      /\ Saved'[Len(stack) + 2] = n
      /\ \A i \in 1 .. Len(stack) + 1 : Saved'[i] = Saved[i]
  BY <1>0, EnterSaves DEF Frames
<1>2. /\ calls' = calls \cup {n} /\ ended' = ended
      /\ caller' = [caller EXCEPT ![n] = f]
      /\ waits' = [waits EXCEPT ![f] = @ \cup {n}]
  BY <1>1 DEF Call
<1>3. n \notin calls \cup ended
  <2>1. \A g \in calls \cup ended : g <= counter
    BY DEF BehindCounter
  <2> QED BY <2>1 DEF TypeOK, Frames
<1>4. TypeOK'
  <2>1. caller' \in [Frames -> Frames] /\ waits' \in [Frames -> SUBSET Frames]
    BY <1>1, <1>2 DEF TypeOK
  <2>2. nested' \in BOOLEAN
    BY Zenon DEF Call
  <2> QED BY <2>1, <2>2, <1>1, <1>2 DEF TypeOK
<1>5. IsFiniteSet(calls') /\ EnterExitPaired'
  <2>1. /\ IsFiniteSet(calls \cup {n})
        /\ Cardinality(calls \cup {n}) = Cardinality(calls) + 1
    BY <1>3, FS_AddElement
  <2> QED BY <2>1, <1>1, <1>2 DEF EnterExitPaired
<1>6. Saved'[1] = 0
  BY <1>1, SavedSeq DEF TypeOK
<1>7. ASSUME NEW i \in DOMAIN Saved', NEW j \in DOMAIN Saved', Saved'[i] = Saved'[j]
      PROVE  i = j
  <2> DEFINE top == Len(stack) + 2
  <2>1. i \in 1 .. top /\ j \in 1 .. top /\ top \in Nat
        /\ DOMAIN Saved = 1 .. Len(stack) + 1
    BY <1>1, <1>7, SavedSeq DEF TypeOK
  <2>2. \A k \in 1 .. Len(stack) + 1 : Saved'[k] = Saved[k] /\ Saved[k] \in Nat /\ Saved[k] < n
    <3>1. \A k \in DOMAIN Saved : Saved[k] <= counter
      BY DEF BehindCounter
    <3>2. counter \in Nat
      BY <1>0, FramesNat DEF TypeOK
    <3>3. \A k \in DOMAIN Saved : Saved[k] \in Nat
      <4>1. \A k \in DOMAIN Saved : Saved[k] \in Frames
        BY <1>0, SavedSeq
      <4> QED BY <4>1, FramesNat
    <3> QED BY <1>1, <2>1, <3>1, <3>2, <3>3
  <2>3. CASE i = top \/ j = top
    BY <2>1, <2>2, <2>3, <1>1, <1>7
  <2>4. CASE i # top /\ j # top
    BY <2>1, <2>2, <2>4, <1>7 DEF Distinct
  <2> QED BY <2>3, <2>4
<1>8. BehindCounter'
  <2>1. ASSUME NEW i \in DOMAIN Saved' PROVE Saved'[i] <= counter'
    <3>1. CASE i = Len(stack) + 2
      BY <3>1, <1>1
    <3>2. CASE i # Len(stack) + 2
      <4>1. i \in 1 .. Len(stack) + 1 /\ i \in DOMAIN Saved
        BY <3>2, <1>1, <2>1, SavedSeq DEF TypeOK
      <4>2. Saved[i] <= counter
        BY <4>1 DEF BehindCounter
      <4>3. Saved[i] \in Nat
        <5>1. \A k \in DOMAIN Saved : Saved[k] \in Frames
          BY <1>0, SavedSeq
        <5> QED BY <4>1, <5>1, FramesNat
      <4>4. counter \in Nat
        BY <1>0, FramesNat DEF TypeOK
      <4> QED BY <4>1, <4>2, <4>3, <4>4, <1>1
    <3> QED BY <3>1, <3>2
  <2>2. \A g \in calls' \cup ended' : g <= counter'
    <3>1. \A g \in calls \cup ended : g <= counter
      BY DEF BehindCounter
    <3>2. calls \cup ended \subseteq Nat /\ counter \in Nat
      BY <1>0, FramesNat DEF TypeOK
    <3> QED BY <3>1, <3>2, <1>1, <1>2
  <2> QED BY <2>1, <2>2 DEF BehindCounter
<1>9. calls' \cap ended' = {}
  BY <1>2, <1>3
<1>10. Distinct'
  BY <1>7 DEF Distinct
<1> QED BY <1>4, <1>5, <1>6, <1>8, <1>9, <1>10

LEMMA ReturnIInv ==
  ASSUME IInv, NEW f \in Frames, Return(f)
  PROVE  IInv'
<1> USE DEF IInv
<1>0. TypeOK /\ exitProcedure /\ f \in calls
  BY DEF Return
<1>1. /\ Len(stack) \in Nat \ {0} /\ counter' = counter /\ frame' \in Frames
      /\ stack' \in Seq(Frames) /\ Len(stack') = Len(stack) - 1
      /\ DOMAIN Saved' = 1 .. Len(stack)
      /\ \A i \in 1 .. Len(stack) : Saved'[i] = Saved[i]
  BY <1>0, ExitRestores, Zenon
<1>2. /\ calls' = calls \ {f} /\ ended' = ended \cup {f} /\ caller' = caller
      /\ waits' = [waits EXCEPT ![caller[f]] = @ \ {f}]
  BY DEF Return
<1>3. 1 .. Len(stack) \subseteq DOMAIN Saved
  BY <1>0, <1>1, SavedSeq
<1>4. TypeOK'
  <2>1. waits' \in [Frames -> SUBSET Frames]
    BY <1>2 DEF TypeOK
  <2>2. nested' = nested
    BY DEF Return
  <2> QED BY <2>1, <2>2, <1>0, <1>1, <1>2 DEF TypeOK
<1>5. IsFiniteSet(calls') /\ EnterExitPaired'
  BY <1>0, <1>1, <1>2, FS_RemoveElement, Zenon DEF EnterExitPaired
<1>6. Saved'[1] = 0
  BY <1>1
<1>7. Distinct'
  BY <1>1, <1>3 DEF Distinct
<1>8. BehindCounter'
  BY <1>0, <1>1, <1>2, <1>3 DEF BehindCounter
<1>9. calls' \cap ended' = {}
  BY <1>0, <1>2
<1> QED BY <1>4, <1>5, <1>6, <1>7, <1>8, <1>9

LEMMA NextIInv == IInv /\ [Next]_vars => IInv'
<1> SUFFICES ASSUME IInv, [Next]_vars PROVE IInv'
  OBVIOUS
<1>1. ASSUME NEW f \in Frames, Call(f) PROVE IInv'
  BY <1>1, CallIInv
<1>2. ASSUME NEW f \in Frames, Return(f) PROVE IInv'
  BY <1>2, ReturnIInv
<1>3. ASSUME NEW f \in Frames, Emit(f) \/ Await(f) PROVE IInv'
  <2>1. UNCHANGED <<counter, frame, stack, calls, caller, ended>>
    BY <1>3 DEF Emit, Await
  <2>2. waits' \in [Frames -> SUBSET Frames]
    BY <1>3 DEF Emit, Await, IInv, TypeOK
  <2>3. nested' \in BOOLEAN
    BY <1>3, Zenon DEF Emit, Await, IInv, TypeOK
  <2>4. TypeOK'
    BY <2>1, <2>2, <2>3 DEF IInv, TypeOK
  <2>5. Saved' = Saved
    BY <2>1 DEF Saved
  <2> QED BY <2>1, <2>4, <2>5 DEF IInv, EnterExitPaired, Distinct, BehindCounter
<1>4. CASE UNCHANGED vars
  <2>1. Saved' = Saved /\ TypeOK'
    BY <1>4 DEF Saved, vars, IInv, TypeOK
  <2> QED BY <1>4, <2>1 DEF vars, IInv, EnterExitPaired, Distinct, BehindCounter
<1> QED BY <1>1, <1>2, <1>3, <1>4 DEF Next

\* The invariant gives the three properties: with no call left the stack is
\* empty, and its bottom is the current frame.
LEMMA IInvSuffices == IInv => EnterExitPaired /\ BaseRestored /\ FramesUnique
<1> SUFFICES ASSUME IInv PROVE EnterExitPaired /\ BaseRestored /\ FramesUnique
  OBVIOUS
<1> USE DEF IInv
<1>1. BaseRestored
  BY FS_EmptySet, SavedSeq DEF BaseRestored, EnterExitPaired
<1>2. \A i, j \in DOMAIN stack : stack[i] = stack[j] => i = j
  BY SavedSeq DEF Distinct
<1>3. frame \notin Range(stack)
  <2> SUFFICES ASSUME NEW i \in DOMAIN stack, stack[i] = frame PROVE FALSE
    BY DEF Range
  <2>1. i \in 1 .. Len(stack) /\ Len(stack) \in Nat
    BY SavedSeq DEF TypeOK
  <2>2. Saved[i] = Saved[Len(stack) + 1] /\ i \in DOMAIN Saved /\ Len(stack) + 1 \in DOMAIN Saved
    BY <2>1, SavedSeq
  <2> QED BY <2>1, <2>2 DEF Distinct
<1> QED BY <1>1, <1>2, <1>3 DEF FramesUnique

\* Types, for any number of calls.
THEOREM TypeCorrect == Spec => []TypeOK
<1>1. IInv => TypeOK
  BY DEF IInv
<1> QED BY InitIInv, NextIInv, <1>1, PTL DEF Spec

\* The assertion of exitProcedure never fails: enter and exit are paired
\* however calls overlap.
THEOREM Paired == Spec => []EnterExitPaired
BY InitIInv, NextIInv, IInvSuffices, PTL DEF Spec

\* When all calls are over the frame is that of the rules.
THEOREM Restored == Spec => []BaseRestored
BY InitIInv, NextIInv, IInvSuffices, PTL DEF Spec

\* However calls overlap, there is one saved frame for each of them, the saved
\* frames are pairwise different and none is given out twice.
THEOREM Unique == Spec => []FramesUnique
BY InitIInv, NextIInv, IInvSuffices, PTL DEF Spec

-----------------------------------------------------------------------------
(* Nested calls.                                                           *)

Chained ==
  /\ calls = {Saved[i] : i \in 2 .. Len(stack) + 1}
  /\ \A i \in 1 .. Len(stack) :
       caller[Saved[i + 1]] = Saved[i] /\ waits[Saved[i]] = {Saved[i + 1]}
  /\ waits[frame] = {}
  /\ \A g \in Frames : g > counter => waits[g] = {}

ChainInv == nested => Chained

LEMMA InitChain == Init => ChainInv
<1> SUFFICES ASSUME Init PROVE Chained
  BY DEF ChainInv
<1> USE DEF Init
<1>1. Len(stack) = 0 /\ frame = 0 /\ calls = {} /\ 0 \in Frames
  BY FramesNat
<1>2. {Saved[i] : i \in 2 .. Len(stack) + 1} = {}
  BY <1>1
<1> QED BY <1>1, <1>2 DEF Chained

\* Of a chain only the top runs.
LEMMA TopRuns ==
  ASSUME IInv, Chained, NEW f \in calls \cup {0}, Running(f)
  PROVE  f = frame
<1>1. TypeOK /\ Len(stack) \in Nat /\ Saved[1] = 0
  BY DEF IInv, TypeOK
<1>2. PICK i \in 1 .. Len(stack) + 1 : f = Saved[i]
  BY <1>1 DEF Chained
<1>3. CASE i = Len(stack) + 1
  BY <1>1, <1>2, <1>3, SavedSeq
<1>4. CASE i # Len(stack) + 1
  <2>1. i \in 1 .. Len(stack)
    BY <1>1, <1>4
  <2>2. waits[f] # {}
    BY <1>2, <2>1 DEF Chained
  <2> QED BY <2>2 DEF Running
<1> QED BY <1>3, <1>4

\* A call made from the top puts one link on the chain.
LEMMA CallChain ==
  ASSUME IInv, Chained, NEW f \in Frames, Call(f), Running(f)
  PROVE  Chained'
<1> DEFINE n == counter + 1
<1> DEFINE top == Len(stack) + 1
<1>0. TypeOK /\ counter < MaxCalls /\ enterProcedure /\ BehindCounter /\ Saved[1] = 0
  BY DEF Call, IInv
<1>1. /\ frame' = n /\ counter' = n /\ n \in Frames \ {0} /\ n \in Nat
      /\ Len(stack') = top /\ top \in Nat \ {0}
      /\ Saved'[top + 1] = n
      /\ \A i \in 1 .. top : Saved'[i] = Saved[i]
  <2>1. Len(stack) + 2 = top + 1 /\ top \in Nat \ {0}
    BY <1>0 DEF TypeOK
  <2> QED BY <2>1, <1>0, EnterSaves DEF Frames
<1>2. /\ calls' = calls \cup {n}
      /\ caller' = [caller EXCEPT ![n] = f]
      /\ waits' = [waits EXCEPT ![f] = @ \cup {n}]
  BY <1>1 DEF Call
<1>3. f = frame /\ frame = Saved[top] /\ f # n
  <2>1. f \in calls \cup {0}
    BY DEF Running
  <2>2. f = frame
    BY <2>1, TopRuns
  <2>3. Saved[top] = frame /\ top \in DOMAIN Saved
    BY <1>0, <1>1, SavedSeq
  <2> QED BY <2>2, <2>3, <1>0, <1>1 DEF BehindCounter, TypeOK, Frames
<1>4. \A i \in 1 .. top : Saved[i] \in Frames /\ Saved[i] <= counter /\ Saved[i] # n
  <2>1. \A i \in 1 .. top : i \in DOMAIN Saved /\ Saved[i] \in Frames
    BY <1>0, SavedSeq
  <2>2. counter \in Nat
    BY <1>0 DEF TypeOK, Frames
  <2> QED BY <2>1, <2>2, <1>0, FramesNat DEF BehindCounter
<1>5. calls' = {Saved'[i] : i \in 2 .. Len(stack') + 1}
  <2>1. calls = {Saved'[i] : i \in 2 .. top}
    BY <1>1 DEF Chained
  <2>2. 2 .. Len(stack') + 1 = (2 .. top) \cup {top + 1}
    BY <1>1
  <2> QED BY <2>1, <2>2, <1>1, <1>2
<1>6. ASSUME NEW i \in 1 .. Len(stack')
      PROVE  caller'[Saved'[i + 1]] = Saved'[i] /\ waits'[Saved'[i]] = {Saved'[i + 1]}
  <2>1. CASE i = top
    <3>1. Saved'[i + 1] = n /\ Saved'[i] = f
      BY <2>1, <1>1, <1>3
    <3>2. waits[f] = {}
      BY DEF Running
    <3> QED BY <3>1, <3>2, <1>0, <1>1, <1>2 DEF TypeOK
  <2>2. CASE i # top
    <3>1. i \in 1 .. Len(stack) /\ i \in 1 .. top /\ i + 1 \in 1 .. top
      BY <2>2, <1>1
    <3>2. Saved'[i] = Saved[i] /\ Saved'[i + 1] = Saved[i + 1]
      BY <3>1, <1>1
    <3>3. caller[Saved[i + 1]] = Saved[i] /\ waits[Saved[i]] = {Saved[i + 1]}
      BY <3>1 DEF Chained
    <3>4. Saved[i] # f
      BY <3>3 DEF Running
    <3>5. Saved[i] \in Frames /\ Saved[i + 1] \in Frames /\ Saved[i + 1] # n
      BY <3>1, <1>4
    <3>6. caller'[Saved[i + 1]] = caller[Saved[i + 1]]
      BY <3>5, <1>0, <1>2 DEF TypeOK
    <3>7. waits'[Saved[i]] = waits[Saved[i]]
      BY <3>4, <3>5, <1>0, <1>2 DEF TypeOK
    <3> QED BY <3>2, <3>3, <3>6, <3>7
  <2> QED BY <2>1, <2>2
<1>7. ASSUME NEW g \in Frames, g >= n PROVE waits'[g] = {}
  <2>1. g > counter /\ g # f
    <3>1. counter \in Nat /\ g \in Nat
      BY <1>0, FramesNat DEF TypeOK
    <3>2. f <= counter /\ f \in Nat
      BY <1>1, <1>3, <1>4, FramesNat
    <3> QED BY <3>1, <3>2, <1>7
  <2> QED BY <2>1, <1>0, <1>2 DEF Chained, TypeOK
<1>8. waits'[frame'] = {} /\ \A g \in Frames : g > counter' => waits'[g] = {}
  BY <1>1, <1>7 DEF Frames
<1> QED BY <1>5, <1>6, <1>8 DEF Chained

\* Only the top of the chain can return, and its caller is next.
LEMMA ReturnChain ==
  ASSUME IInv, Chained, NEW f \in Frames, Return(f)
  PROVE  Chained'
<1> DEFINE n == Len(stack)
<1>0. TypeOK /\ exitProcedure /\ f \in calls /\ Running(f) /\ Distinct
  BY DEF Return, IInv
<1>1. /\ n \in Nat \ {0} /\ counter' = counter /\ frame' \in Frames
      /\ Len(stack') = n - 1
      /\ \A i \in 1 .. n : Saved'[i] = Saved[i]
  BY <1>0, ExitRestores, Zenon
<1>2. /\ calls' = calls \ {f} /\ caller' = caller
      /\ waits' = [waits EXCEPT ![caller[f]] = @ \ {f}]
  BY DEF Return
<1>3. f = frame /\ f = Saved[n + 1]
  <2>1. f = frame
    BY <1>0, TopRuns
  <2> QED BY <2>1, <1>0, SavedSeq
<1>4. caller[f] = Saved[n] /\ waits[Saved[n]] = {f}
  BY <1>1, <1>3 DEF Chained
<1>5. \A i \in 1 .. n + 1 : i \in DOMAIN Saved /\ Saved[i] \in Frames
  BY <1>0, SavedSeq
<1>6. \A i, j \in 1 .. n + 1 : Saved[i] = Saved[j] => i = j
  BY <1>0, <1>5 DEF Distinct
<1>7. calls' = {Saved'[i] : i \in 2 .. Len(stack') + 1}
  <2>1. Len(stack') + 1 = n
    BY <1>1
  <2>2. {Saved'[i] : i \in 2 .. n} = {Saved[i] : i \in 2 .. n}
    BY <1>1
  <2>3. calls = {Saved[i] : i \in 2 .. n + 1}
    BY DEF Chained
  <2>4. \A i \in 2 .. n : Saved[i] # f
    BY <1>1, <1>3, <1>6
  <2>5. \A i \in 2 .. n + 1 : i \in 2 .. n \/ Saved[i] = f
    BY <1>1, <1>3
  <2>6. 2 .. n \subseteq 2 .. n + 1
    BY <1>1
  <2> QED BY <2>1, <2>2, <2>3, <2>4, <2>5, <2>6, <1>2
<1>8. ASSUME NEW i \in 1 .. Len(stack')
      PROVE  caller'[Saved'[i + 1]] = Saved'[i] /\ waits'[Saved'[i]] = {Saved'[i + 1]}
  <2>1. i \in 1 .. n /\ i + 1 \in 1 .. n /\ i # n
    BY <1>1
  <2>2. Saved'[i] = Saved[i] /\ Saved'[i + 1] = Saved[i + 1]
    BY <2>1, <1>1
  <2>3. caller[Saved[i + 1]] = Saved[i] /\ waits[Saved[i]] = {Saved[i + 1]}
    BY <2>1 DEF Chained
  <2>4. Saved[i] # Saved[n] /\ Saved[i] \in Frames
    BY <2>1, <1>1, <1>5, <1>6
  <2>5. waits'[Saved[i]] = waits[Saved[i]]
    BY <2>4, <1>0, <1>2, <1>4 DEF TypeOK
  <2> QED BY <2>2, <2>3, <2>5, <1>2
<1>9. waits'[frame'] = {}
  <2>1. frame' = Saved'[n]
    <3>1. frame' = Last(stack) /\ stack # <<>>
      BY <1>0 DEF exitProcedure
    <3>2. frame' = stack[n]
      BY <3>1 DEF Last
    <3> QED BY <3>2, <1>0, <1>1, SavedSeq
  <2>2. frame' = Saved[n] /\ frame' \in Frames
    BY <2>1, <1>1
  <2> QED BY <2>2, <1>0, <1>2, <1>4 DEF TypeOK
<1>10. \A g \in Frames : g > counter' => waits'[g] = {}
  <2>1. Saved[n] \in Frames
    BY <1>1, <1>5
  <2>2. \A g \in Frames : waits'[g] \subseteq waits[g]
    BY <2>1, <1>0, <1>2, <1>4 DEF TypeOK
  <2> QED BY <2>2, <1>1 DEF Chained
<1> QED BY <1>7, <1>8, <1>9, <1>10 DEF Chained

\* Nobody awaits the queue of a call that it is already waiting for.
LEMMA NoAwait ==
  ASSUME IInv, Chained, NEW f \in Frames
  PROVE  ~Await(f)
<1> SUFFICES ASSUME Await(f) PROVE FALSE
  OBVIOUS
<1>1. f \in calls /\ waits[caller[f]] = {}
  BY DEF Await, Running
<1>2. Len(stack) \in Nat
  BY DEF IInv, TypeOK
<1>3. PICK i \in 2 .. Len(stack) + 1 : f = Saved[i]
  BY <1>1 DEF Chained
<1>4. i - 1 \in 1 .. Len(stack) /\ (i - 1) + 1 = i
  BY <1>2
<1>5. caller[f] = Saved[i - 1] /\ waits[Saved[i - 1]] = {f}
  BY <1>3, <1>4 DEF Chained
<1> QED BY <1>1, <1>5

LEMMA NextChain == IInv /\ ChainInv /\ [Next]_vars => ChainInv'
<1> SUFFICES ASSUME IInv, ChainInv, [Next]_vars, nested' PROVE Chained'
  BY DEF ChainInv
<1>1. ASSUME NEW f \in Frames, Call(f) PROVE Chained'
  <2>1. nested /\ Running(f)
    BY <1>1, Zenon DEF Call
  <2> QED BY <1>1, <2>1, CallChain DEF ChainInv
<1>2. ASSUME NEW f \in Frames, Emit(f) PROVE FALSE
  BY <1>2, Zenon DEF Emit
<1>3. ASSUME NEW f \in Frames, Await(f) PROVE FALSE
  <2>1. nested
    BY <1>3, Zenon DEF Await
  <2> QED BY <1>3, <2>1, NoAwait DEF ChainInv
<1>4. ASSUME NEW f \in Frames, Return(f) PROVE Chained'
  <2>1. nested
    BY <1>4, Zenon DEF Return
  <2> QED BY <1>4, <2>1, ReturnChain DEF ChainInv
<1>5. CASE UNCHANGED vars
  <2>1. nested
    BY <1>5, Zenon DEF vars
  <2>2. Saved' = Saved
    BY <1>5 DEF vars, Saved
  <2> QED BY <1>5, <2>1, <2>2 DEF vars, ChainInv, Chained
<1> QED BY <1>1, <1>2, <1>3, <1>4, <1>5 DEF Next

LEMMA ChainSuffices == IInv /\ ChainInv => StackIsCallChain
<1> SUFFICES ASSUME IInv, Chained
             PROVE  /\ \A f \in calls \cup {0} : Running(f) => f = frame
                    /\ \A i \in DOMAIN stack :
                         stack[i] = caller[IF i = Len(stack) THEN frame ELSE stack[i + 1]]
  BY DEF ChainInv, StackIsCallChain
<1>1. \A f \in calls \cup {0} : Running(f) => f = frame
  BY TopRuns
<1>2. ASSUME NEW i \in DOMAIN stack
      PROVE  stack[i] = caller[IF i = Len(stack) THEN frame ELSE stack[i + 1]]
  <2>1. TypeOK /\ Len(stack) \in Nat
    BY DEF IInv, TypeOK
  <2>2. i \in 1 .. Len(stack) /\ stack[i] = Saved[i]
    BY <2>1, SavedSeq
  <2>3. Saved[i + 1] = IF i = Len(stack) THEN frame ELSE stack[i + 1]
    BY <2>1, <2>2, SavedSeq
  <2> QED BY <2>2, <2>3 DEF Chained
<1> QED BY <1>1, <1>2

\* As long as every call is over before its caller goes on, whatever code runs
\* sees its own frame, and the stack holds the chain of its callers, for any
\* number of calls (exec_environment.ts, enterProcedure and exitProcedure).
THEOREM ChainKept == Spec => []StackIsCallChain
<1>1. Init => IInv /\ ChainInv
  BY InitIInv, InitChain
<1>2. IInv /\ ChainInv /\ [Next]_vars => IInv' /\ ChainInv'
  BY NextIInv, NextChain
<1> QED BY <1>1, <1>2, ChainSuffices, PTL DEF Spec
=============================================================================
