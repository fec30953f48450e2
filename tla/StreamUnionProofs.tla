------------------------- MODULE StreamUnionProofs -------------------------
(***************************************************************************)
(* The properties of StreamUnion, for any values and any bounds on the     *)
(* emissions and the clock.  Everything is said of one sequence, AllPairs: *)
(* an emission appends at most one pair to it, and no other step changes   *)
(* it, since the rule only moves its border between taken and queued.      *)
(***************************************************************************)
EXTENDS StreamUnion, EdgeStateProofs

USE UnionAssumption

BothDone == \A s \in Sides : side[s] = "done"
Paired   == \A s \in Sides : current[s].n > 0

\* The end mark is the last in the queue, both sides are done by then, and the
\* rule ends only when it has taken the mark.
Ends ==
  /\ \A i \in 1 .. Len(queue) :
       queue[i] = DoneMark => i = Len(queue) /\ BothDone /\ loop # "ended"
  /\ loop = "ended" => queue = <<>> /\ BothDone

\* The last pair is made of the current emissions, and has the time of the
\* right one; there is a pair as soon as both sides have emitted.
LastIsCurrent ==
  /\ ~Paired => AllPairs = <<>>
  /\ Paired => /\ AllPairs # <<>>
               /\ \E s \in Sides : AllPairs[1].n[s] = 1
               /\ AllPairs[Len(AllPairs)].n = [s \in Sides |-> current[s].n]
               /\ AllPairs[Len(AllPairs)].ts = current["right"].ts
               /\ AllPairs[Len(AllPairs)].val["right"] = current["right"].val

OneByOne ==
  \A i \in 1 .. Len(AllPairs) - 1 : \E s \in Sides :
    AllPairs[i + 1].n = [AllPairs[i].n EXCEPT ![s] = @ + 1]

\* Timestamps never decrease and are no later than the pair; a pair with
\* another value of the right has been made by the right side, at its own time.
Timed ==
  /\ Sorted(AllPairs)
  /\ \A i \in 1 .. Len(AllPairs) : AllPairs[i].ts <= AllPairs[i].at
  /\ \A i \in 1 .. Len(AllPairs) - 1 :
       \/ AllPairs[i + 1].val["right"] = AllPairs[i].val["right"]
       \/ AllPairs[i + 1].ts = AllPairs[i + 1].at
  /\ \A s \in Sides : current[s].ts <= now

\* The state of the EdgeNew is the end of what the rule has taken.
StateIsSuffix == \E k \in 0 .. Len(taken) : Suffix(mem, taken, k)

IInv == /\ TypeOK /\ Ends /\ LastIsCurrent /\ OneByOne /\ Timed /\ StateIsSuffix
        /\ RightChangeFires

-----------------------------------------------------------------------------
LEMMA TheOther ==
  /\ "left" \in Sides /\ "right" \in Sides
  /\ Other["left"] = "right" /\ Other["right"] = "left"
  /\ \A s \in Sides : s = "left" \/ s = "right"
  /\ \A s \in Sides : Other[s] \in Sides /\ \A o \in Sides : o = s \/ o = Other[s]
<1>1. (CHOOSE o \in Sides : o # "left") = "right" /\ (CHOOSE o \in Sides : o # "right") = "left"
  BY DEF Sides
<1> QED BY <1>1 DEF Other, Sides

LEMMA PairTyped ==
  /\ DoneMark \notin Pair
  /\ \A p \in Pair : p.ts \in Nat /\ p.at \in Nat /\ p.ts \in 1 .. MaxTime
BY DEF Pair, DoneMark

LEMMA EmissionTyped ==
  \A e \in Emission : /\ e.n \in 0 .. MaxEmits /\ e.ts \in 0 .. MaxTime
                      /\ e.n > 0 => e.n \in 1 .. MaxEmits /\ e.ts \in 1 .. MaxTime /\ e.val \in Values
BY DEF Emission, Null

\* The pairs of the queue: all of it, or all but the mark at its end.
LEMMA QueuedPairs ==
  ASSUME TypeOK, Ends
  PROVE  /\ PairsQueued \in Seq(Pair)
         /\ \A i \in 1 .. Len(PairsQueued) : PairsQueued[i] = queue[i] /\ queue[i] # DoneMark
         /\ \/ Len(PairsQueued) = Len(queue) /\ PairsQueued = queue
            \/ /\ Len(queue) \in Nat \ {0} /\ Len(PairsQueued) = Len(queue) - 1
               /\ queue[Len(queue)] = DoneMark
<1>1. queue \in Seq(Pair \cup {DoneMark}) /\ Len(queue) \in Nat
  BY DEF TypeOK
<1>2. CASE DoneMark \in Range(queue)
  <2>1. PICK i \in 1 .. Len(queue) : queue[i] = DoneMark
    BY <1>1, <1>2 DEF Range
  <2>2. i = Len(queue) /\ Len(queue) \in Nat \ {0}
    BY <2>1, <1>1 DEF Ends
  <2> DEFINE n == Len(queue) - 1
  <2>3. n \in Nat /\ n \in Int /\ PairsQueued = SubSeq(queue, 1, n)
    BY <1>2, <2>2 DEF PairsQueued, Front
  <2>4. \A j \in 1 .. n : queue[j] \in Pair /\ queue[j] # DoneMark
    <3>1. \A j \in 1 .. n : j \in 1 .. Len(queue) /\ j # Len(queue)
      BY <1>1
    <3> QED BY <3>1, <1>1 DEF Ends
  <2> HIDE DEF n
  <2>5. /\ SubSeq(queue, 1, n) \in Seq(Pair)
        /\ Len(SubSeq(queue, 1, n)) = IF 1 <= n THEN n - 1 + 1 ELSE 0
        /\ \A j \in 1 .. n - 1 + 1 : SubSeq(queue, 1, n)[j] = queue[1 + j - 1]
    BY <2>3, <2>4, SubSeqProperties, SMTT(30)
  <2>6. Len(PairsQueued) = n /\ \A j \in 1 .. n : PairsQueued[j] = queue[j]
    <3>1. (IF 1 <= n THEN n - 1 + 1 ELSE 0) = n /\ n - 1 + 1 = n
      BY <2>3
    <3>2. \A j \in 1 .. n : 1 + j - 1 = j
      OBVIOUS
    <3> QED BY <2>3, <2>5, <3>1, <3>2
  <2> QED BY <2>1, <2>2, <2>3, <2>4, <2>5, <2>6 DEF n
<1>3. CASE DoneMark \notin Range(queue)
  <2>1. PairsQueued = queue
    BY <1>3 DEF PairsQueued
  <2>2. \A i \in 1 .. Len(queue) : queue[i] # DoneMark /\ queue[i] \in Pair
    BY <1>1, <1>3 DEF Range
  <2>3. queue \in Seq(Pair)
    BY <1>1, <2>2
  <2> QED BY <2>1, <2>2, <2>3
<1> QED BY <1>2, <1>3

\* First what was taken, then the pairs of the queue.
Shape ==
  /\ AllPairs \in Seq(Pair) /\ Len(taken) \in Nat /\ Len(PairsQueued) \in Nat
  /\ Len(AllPairs) = Len(taken) + Len(PairsQueued)
  /\ \A i \in 1 .. Len(taken) : AllPairs[i] = taken[i]
  /\ \A i \in 1 .. Len(PairsQueued) : AllPairs[Len(taken) + i] = PairsQueued[i]
  /\ PairsQueued \in Seq(Pair)
  /\ \A i \in 1 .. Len(PairsQueued) : PairsQueued[i] = queue[i] /\ queue[i] # DoneMark
  /\ \/ Len(PairsQueued) = Len(queue) /\ PairsQueued = queue
     \/ /\ Len(queue) \in Nat \ {0} /\ Len(PairsQueued) = Len(queue) - 1
        /\ queue[Len(queue)] = DoneMark

LEMMA PairsShape == TypeOK /\ Ends => Shape
<1> SUFFICES ASSUME TypeOK, Ends PROVE Shape
  OBVIOUS
<1>1. taken \in Seq(Pair) /\ PairsQueued \in Seq(Pair)
  BY QueuedPairs DEF TypeOK
<1>2. AllPairs = taken \o PairsQueued
  BY DEF AllPairs
<1>3. Len(taken) \in Nat /\ Len(PairsQueued) \in Nat
  BY <1>1
<1>4. /\ AllPairs \in Seq(Pair) /\ Len(AllPairs) = Len(taken) + Len(PairsQueued)
      /\ \A i \in 1 .. Len(taken) : AllPairs[i] = taken[i]
      /\ \A i \in 1 .. Len(PairsQueued) : AllPairs[Len(taken) + i] = PairsQueued[i]
  BY <1>1, <1>2, <1>3, ConcatProperties
<1> QED BY <1>1, <1>3, <1>4, QueuedPairs DEF Shape

LEMMA PairsShapeNext == TypeOK' /\ Ends' => Shape'
BY PairsShape, PTL

\* Sequences of pairs that agree are equal.
LEMMA SamePairs ==
  ASSUME Shape, Shape',
         Len(taken') + Len(PairsQueued') = Len(taken) + Len(PairsQueued),
         \A i \in 1 .. Len(AllPairs) : AllPairs'[i] = AllPairs[i]
  PROVE  AllPairs' = AllPairs
BY SeqEqual DEF Shape

-----------------------------------------------------------------------------
(* An emission.                                                            *)

\* The pair that an emission makes, once both sides have emitted.
New == Merged(current'["left"], current'["right"])

LEMMA EmitCurrent ==
  ASSUME TypeOK, NEW s \in Sides, NEW v \in Values, emit(s, v)
  PROVE  /\ current' \in [Sides -> Emission]
         /\ current'[s] = [n |-> current[s].n + 1, ts |-> now, val |-> v]
         /\ current'[s].n = current[s].n + 1 /\ current'[s].ts = now
         /\ current'[Other[s]] = current[Other[s]]
         /\ current[s].n \in Nat /\ current[Other[s]].n \in Nat
         /\ Paired' <=> current[Other[s]].n > 0
<1>1. current[s] \in Emission /\ current[Other[s]] \in Emission /\ now \in 1 .. MaxTime
  BY TheOther DEF TypeOK
<1>2. current[s].n \in Nat /\ current[Other[s]].n \in Nat /\ current[s].n + 1 \in 1 .. MaxEmits
  BY <1>1, EmissionTyped DEF emit
<1>3. current' = [current EXCEPT ![s] = [n |-> current[s].n + 1, ts |-> now, val |-> v]]
  BY DEF emit
<1>4. [n |-> current[s].n + 1, ts |-> now, val |-> v] \in Emission
  BY <1>1, <1>2 DEF Emission
<1>5. current' \in [Sides -> Emission]
  BY <1>3, <1>4 DEF TypeOK
<1>6. Other[s] \in Sides /\ Other[s] # s /\ \A o \in Sides : o = s \/ o = Other[s]
  BY TheOther
<1>7. current'[s] = [n |-> current[s].n + 1, ts |-> now, val |-> v]
      /\ current'[Other[s]] = current[Other[s]]
  BY <1>3, <1>6 DEF TypeOK
<1>8. current'[s].n = current[s].n + 1 /\ current'[s].ts = now
  BY <1>7
<1>9. Paired' <=> current[Other[s]].n > 0
  BY <1>2, <1>6, <1>7, <1>8 DEF Paired
<1> QED BY <1>2, <1>5, <1>7, <1>8, <1>9

LEMMA EmitType ==
  ASSUME TypeOK, Ends, NEW s \in Sides, NEW v \in Values, emit(s, v)
  PROVE  /\ TypeOK' /\ Ends'
         /\ Paired' => New \in Pair /\ queue' = Append(queue, New)
         /\ ~Paired' => queue' = queue
         /\ PairsQueued = queue
         /\ PairsQueued' = queue'
<1>1. UNCHANGED <<now, side, loop, mem, taken, fired>> /\ side[s] = "running"
  BY DEF emit, Running
<1>2. current' \in [Sides -> Emission] /\ (Paired' <=> current[Other[s]].n > 0)
      /\ current[Other[s]].n \in Nat
  BY EmitCurrent
<1>3. queue' = IF Paired' THEN Append(queue, New) ELSE queue
  BY <1>2 DEF emit, New
<1>4. ASSUME Paired' PROVE New \in Pair
  <2>1. \A o \in Sides : /\ current'[o].n \in 1 .. MaxEmits
                         /\ current'[o].ts \in 1 .. MaxTime /\ current'[o].val \in Values
    <3>1. \A o \in Sides : current'[o] \in Emission /\ current'[o].n > 0
      BY <1>2, <1>4 DEF Paired
    <3> QED BY <3>1, EmissionTyped
  <2>2. now \in 1 .. MaxTime /\ "left" \in Sides /\ "right" \in Sides
    BY TheOther DEF TypeOK
  <2> QED BY <2>1, <2>2 DEF New, Merged, Pair
<1>5. \A i \in 1 .. Len(queue) : queue[i] # DoneMark
  BY <1>1 DEF Ends, BothDone
<1>6. queue \in Seq(Pair \cup {DoneMark}) /\ Len(queue) \in Nat /\ loop # "ended"
  BY <1>1 DEF TypeOK, Ends, BothDone
<1>7. queue' \in Seq(Pair \cup {DoneMark})
  BY <1>3, <1>4, <1>6
<1>8. \A i \in 1 .. Len(queue') : queue'[i] # DoneMark
  <2>1. CASE Paired'
    <3>1. queue' = Append(queue, New) /\ New # DoneMark
      BY <1>3, <1>4, <2>1, PairTyped
    <3> QED BY <3>1, <1>5, <1>6
  <2>2. CASE ~Paired'
    BY <2>2, <1>3, <1>5
  <2> QED BY <2>1, <2>2
<1>9. TypeOK'
  BY <1>1, <1>2, <1>7 DEF TypeOK
<1>10. Ends'
  BY <1>1, <1>6, <1>8 DEF Ends
<1>11. PairsQueued = queue
  BY <1>5, <1>6 DEF PairsQueued, Range
<1>12. PairsQueued' = queue'
  BY <1>7, <1>8 DEF PairsQueued, Range
<1> QED BY <1>3, <1>4, <1>9, <1>10, <1>11, <1>12

\* The sequence of pairs is as before, or longer by the new one.
LEMMA EmitPairs ==
  ASSUME TypeOK, Ends, NEW s \in Sides, NEW v \in Values, emit(s, v)
  PROVE  /\ Shape /\ Shape'
         /\ ~Paired' => AllPairs' = AllPairs
         /\ Paired' => /\ New \in Pair /\ AllPairs' = Append(AllPairs, New)
                       /\ Len(AllPairs') = Len(AllPairs) + 1
                       /\ AllPairs'[Len(AllPairs) + 1] = New
                       /\ \A i \in 1 .. Len(AllPairs) : AllPairs'[i] = AllPairs[i]
<1>1. Shape /\ Shape'
  BY EmitType, PairsShape, PairsShapeNext
<1>2. /\ AllPairs = taken \o queue /\ AllPairs' = taken \o queue'
      /\ taken \in Seq(Pair) /\ queue \in Seq(Pair)
  BY <1>1, EmitType DEF AllPairs, Shape, emit, TypeOK
<1>3. ASSUME ~Paired' PROVE AllPairs' = AllPairs
  BY <1>2, <1>3, EmitType
<1>4. ASSUME Paired' PROVE New \in Pair /\ AllPairs' = Append(AllPairs, New)
  <2>1. New \in Pair /\ queue' = Append(queue, New)
    BY <1>4, EmitType
  <2>2. queue' = queue \o <<New>> /\ <<New>> \in Seq(Pair)
    BY <2>1, <1>2, AppendIsConcat
  <2>3. AllPairs' = (taken \o queue) \o <<New>>
    BY <2>2, <1>2, ConcatAssociative
  <2>4. taken \o queue \in Seq(Pair)
    BY <1>2, ConcatProperties
  <2> QED BY <2>1, <2>3, <2>4, <1>2, AppendIsConcat
<1>5. AllPairs \in Seq(Pair)
  BY <1>1 DEF Shape
<1> QED BY <1>1, <1>3, <1>4, <1>5, AppendProperties

\* The new pair is the last one, and one emission ahead of the pair before it.
LEMMA EmitLast ==
  ASSUME IInv, NEW s \in Sides, NEW v \in Values, emit(s, v)
  PROVE  LastIsCurrent' /\ OneByOne'
<1>1. TypeOK /\ Ends /\ LastIsCurrent /\ OneByOne
  BY DEF IInv
<1>2. /\ current'[s].n = current[s].n + 1 /\ current'[Other[s]] = current[Other[s]]
      /\ current[s].n \in Nat /\ current[Other[s]].n \in Nat
      /\ Paired' <=> current[Other[s]].n > 0
  BY <1>1, EmitCurrent
<1>3. s \in Sides /\ Other[s] \in Sides /\ Other[s] # s /\ \A o \in Sides : o = s \/ o = Other[s]
  BY TheOther
<1>4. Paired <=> current[s].n > 0 /\ current[Other[s]].n > 0
  BY <1>3 DEF Paired
<1>5. CASE ~Paired'
  <2>1. AllPairs = <<>> /\ AllPairs' = AllPairs
    BY <1>1, <1>2, <1>4, <1>5, EmitPairs DEF LastIsCurrent
  <2>2. LastIsCurrent'
    BY <1>5, <2>1 DEF LastIsCurrent
  <2>3. OneByOne'
    BY <2>1 DEF OneByOne
  <2> QED BY <2>2, <2>3
<1>6. CASE Paired'
  <2> DEFINE n == Len(AllPairs)
  <2>1. /\ AllPairs' = Append(AllPairs, New) /\ Len(AllPairs') = n + 1 /\ n \in Nat
        /\ AllPairs'[n + 1] = New /\ AllPairs' # <<>>
        /\ \A i \in 1 .. n : AllPairs'[i] = AllPairs[i] /\ AllPairs[i] \in Pair
    BY <1>1, <1>6, EmitPairs DEF Shape
  <2>2. /\ New.n = [o \in Sides |-> current'[o].n]
        /\ New.ts = current'["right"].ts /\ New.val["right"] = current'["right"].val
    <3>1. New.n = [o \in Sides |-> IF o = "left" THEN current'["left"].n ELSE current'["right"].n]
      BY DEF New, Merged
    <3>2. \A o \in Sides : (IF o = "left" THEN current'["left"].n ELSE current'["right"].n) = current'[o].n
      BY TheOther
    <3>3. New.val["right"] = current'["right"].val
      BY TheOther DEF New, Merged
    <3>4. New.n = [o \in Sides |-> current'[o].n]
      BY <3>1, <3>2, Zenon
    <3> QED BY <3>3, <3>4 DEF New, Merged
  <2>3. CASE current[s].n = 0
    <3>1. n = 0
      BY <1>1, <1>4, <2>3 DEF LastIsCurrent
    <3>2. AllPairs'[1] = New /\ New.n[s] = 1
      BY <1>2, <1>3, <2>1, <2>2, <2>3, <3>1
    <3>3. LastIsCurrent'
      BY <1>6, <2>1, <2>2, <3>1, <3>2 DEF LastIsCurrent
    <3>4. OneByOne'
      BY <2>1, <3>1 DEF OneByOne
    <3> QED BY <3>3, <3>4
  <2>4. CASE current[s].n # 0
    <3>1. Paired
      BY <1>2, <1>4, <1>6, <2>4
    <3>2. /\ n \in Nat \ {0}
          /\ AllPairs[n].n = [o \in Sides |-> current[o].n]
          /\ \E o \in Sides : AllPairs[1].n[o] = 1
      <4>1. AllPairs # <<>> /\ AllPairs \in Seq(Pair)
        BY <1>1, <3>1, EmitPairs DEF LastIsCurrent, Shape
      <4> QED BY <4>1, <1>1, <3>1 DEF LastIsCurrent
    <3>3. New.n = [AllPairs[n].n EXCEPT ![s] = @ + 1]
      BY <1>2, <1>3, <2>2, <3>2
    <3>4. LastIsCurrent'
      BY <1>6, <2>1, <2>2, <3>2 DEF LastIsCurrent
    <3>5. ASSUME NEW i \in 1 .. Len(AllPairs') - 1
          PROVE  \E o \in Sides : AllPairs'[i + 1].n = [AllPairs'[i].n EXCEPT ![o] = @ + 1]
      <4>1. CASE i = n
        <5>1. AllPairs'[i + 1] = New /\ AllPairs'[i] = AllPairs[n]
          BY <4>1, <2>1, <3>2
        <5>2. AllPairs'[i + 1].n = [AllPairs'[i].n EXCEPT ![s] = @ + 1]
          BY <5>1, <3>3
        <5> QED BY <5>2
      <4>2. CASE i # n
        <5>1. i \in 1 .. n - 1 /\ i \in 1 .. n /\ i + 1 \in 1 .. n
          BY <4>2, <2>1
        <5>2. AllPairs'[i] = AllPairs[i] /\ AllPairs'[i + 1] = AllPairs[i + 1]
          BY <5>1, <2>1
        <5>3. PICK o \in Sides : AllPairs[i + 1].n = [AllPairs[i].n EXCEPT ![o] = @ + 1]
          BY <5>1, <1>1 DEF OneByOne
        <5>4. AllPairs'[i + 1].n = [AllPairs'[i].n EXCEPT ![o] = @ + 1]
          BY <5>2, <5>3
        <5> QED BY <5>4
      <4> QED BY <4>1, <4>2
    <3>6. OneByOne'
      BY <3>5 DEF OneByOne
    <3> QED BY <3>4, <3>6
  <2> QED BY <2>3, <2>4
<1> QED BY <1>5, <1>6

LEMMA EmitTimed ==
  ASSUME IInv, NEW s \in Sides, NEW v \in Values, emit(s, v)
  PROVE  Timed'
<1>1. TypeOK /\ Ends /\ LastIsCurrent /\ Timed
  BY DEF IInv
<1>2. /\ current'[s].ts = now /\ current'[Other[s]] = current[Other[s]]
      /\ now' = now /\ now \in Nat
      /\ current[s].n \in Nat
      /\ Paired' <=> current[Other[s]].n > 0
  <2>1. now' = now
    BY DEF emit
  <2>2. now \in Nat
    BY <1>1 DEF TypeOK
  <2> QED BY <1>1, <2>1, <2>2, EmitCurrent
<1>3. s \in Sides /\ Other[s] \in Sides /\ \A o \in Sides : o = s \/ o = Other[s]
  BY TheOther
<1>4. Paired <=> current[s].n > 0 /\ current[Other[s]].n > 0
  BY <1>3 DEF Paired
<1>5. \A o \in Sides : current'[o].ts <= now'
  BY <1>1, <1>2, <1>3 DEF Timed
<1>6. CASE ~Paired'
  <2>1. AllPairs' = AllPairs
    BY <1>1, <1>6, EmitPairs
  <2> QED BY <1>1, <1>5, <2>1 DEF Timed, Sorted
<1>7. CASE Paired'
  <2> DEFINE n == Len(AllPairs)
  <2>1. /\ Len(AllPairs') = n + 1 /\ n \in Nat /\ New \in Pair
        /\ AllPairs'[n + 1] = New
        /\ \A i \in 1 .. n : AllPairs'[i] = AllPairs[i] /\ AllPairs[i] \in Pair
    BY <1>1, <1>7, EmitPairs DEF Shape
  <2>2. /\ New.ts = current'["right"].ts /\ New.val["right"] = current'["right"].val
        /\ New.at = now /\ New.ts \in Nat
    <3>1. New.val["right"] = current'["right"].val
      BY TheOther DEF New, Merged
    <3> QED BY <2>1, <3>1, PairTyped DEF New, Merged
  <2>3. New.ts <= New.at
    BY <1>2, <1>5, <2>2, TheOther
  <2>4. ASSUME n # 0
        PROVE  /\ AllPairs[n].ts <= New.ts
               /\ AllPairs[n].val["right"] = New.val["right"] \/ New.ts = New.at
    <3>1. Paired
      BY <1>1, <2>4 DEF LastIsCurrent
    <3>2. AllPairs[n].ts = current["right"].ts /\ AllPairs[n].val["right"] = current["right"].val
          /\ AllPairs[n].ts \in Nat
      BY <1>1, <2>1, <2>4, <3>1, PairTyped DEF LastIsCurrent
    <3>3. CASE s = "right"
      BY <1>1, <1>2, <2>2, <3>2, <3>3 DEF Timed
    <3>4. CASE s = "left"
      <4>1. current'["right"] = current["right"]
        BY <1>2, <3>4, TheOther
      <4> QED BY <4>1, <2>2, <3>2
    <3> QED BY <3>3, <3>4, TheOther
  <2>5. Sorted(AllPairs')
    <3> SUFFICES ASSUME NEW i \in 1 .. n + 1, NEW j \in 1 .. n + 1, i <= j
                 PROVE  AllPairs'[i].ts <= AllPairs'[j].ts
      BY <2>1 DEF Sorted
    <3>1. \A k \in 1 .. n : AllPairs[k].ts \in Nat
      BY <2>1, PairTyped
    <3>2. CASE j # n + 1
      BY <3>2, <2>1, <1>1 DEF Timed, Sorted
    <3>3. CASE i = n + 1 /\ j = n + 1
      BY <3>3, <2>1, <2>2
    <3>4. CASE i # n + 1 /\ j = n + 1
      <4>1. i \in 1 .. n /\ n # 0 /\ i <= n /\ n \in 1 .. n
        BY <3>4, <2>1
      <4>2. AllPairs[i].ts <= AllPairs[n].ts
        BY <4>1, <1>1 DEF Timed, Sorted
      <4> QED BY <4>1, <4>2, <2>1, <2>2, <2>4, <3>1, <3>4
    <3> QED BY <3>2, <3>3, <3>4
  <2>6. \A i \in 1 .. Len(AllPairs') : AllPairs'[i].ts <= AllPairs'[i].at
    <3>1. \A i \in 1 .. n + 1 : i = n + 1 \/ i \in 1 .. n
      BY <2>1
    <3> QED BY <3>1, <2>1, <2>3, <1>1 DEF Timed
  <2>7. ASSUME NEW i \in 1 .. Len(AllPairs') - 1
        PROVE  \/ AllPairs'[i + 1].val["right"] = AllPairs'[i].val["right"]
               \/ AllPairs'[i + 1].ts = AllPairs'[i + 1].at
    <3>1. CASE i = n
      BY <3>1, <2>1, <2>4
    <3>2. CASE i # n
      <4>1. i \in 1 .. n - 1 /\ i \in 1 .. n /\ i + 1 \in 1 .. n
        BY <3>2, <2>1
      <4>2. AllPairs'[i] = AllPairs[i] /\ AllPairs'[i + 1] = AllPairs[i + 1]
        BY <4>1, <2>1
      <4> QED BY <4>1, <4>2, <1>1 DEF Timed
    <3> QED BY <3>1, <3>2
  <2> QED BY <1>5, <2>5, <2>6, <2>7 DEF Timed
<1> QED BY <1>6, <1>7

LEMMA EmitIInv ==
  ASSUME IInv, NEW s \in Sides, NEW v \in Values, emit(s, v)
  PROVE  IInv'
<1>1. TypeOK' /\ Ends' /\ LastIsCurrent' /\ OneByOne' /\ Timed'
  BY EmitType, EmitLast, EmitTimed DEF IInv
<1>2. UNCHANGED <<mem, taken, fired>>
  BY DEF emit
<1>3. StateIsSuffix' /\ RightChangeFires'
  BY <1>2 DEF IInv, StateIsSuffix, RightChangeFires
<1> QED BY <1>1, <1>3 DEF IInv

-----------------------------------------------------------------------------
(* The steps that make no pair.                                            *)

LEMMA SameLast ==
  ASSUME LastIsCurrent, OneByOne, Timed,
         AllPairs' = AllPairs, current' = current,
         now \in Nat, now' \in Nat, now <= now', TypeOK
  PROVE  LastIsCurrent' /\ OneByOne' /\ Timed'
<1>1. LastIsCurrent' /\ OneByOne'
  BY DEF LastIsCurrent, OneByOne, Paired
<1>2. \A s \in Sides : current[s].ts \in Nat
  BY EmissionTyped DEF TypeOK
<1>3. Timed'
  BY <1>2 DEF Timed, Sorted
<1> QED BY <1>1, <1>3

LEMMA SettleIInv ==
  ASSUME IInv, NEW s \in Sides, checkDone(s) \/ SideFails(s)
  PROVE  IInv'
<1>1. /\ side[s] = "running" /\ ~BothDone
      /\ UNCHANGED <<now, current, mem, taken, fired>>
      /\ queue' = queue \/ (checkDone(s) /\ side[Other[s]] = "done" /\ queue' = Append(queue, DoneMark))
      /\ loop' = loop \/ loop' = "thrown"
  BY DEF checkDone, SideFails, Running, BothDone
<1>2. TypeOK /\ queue \in Seq(Pair \cup {DoneMark}) /\ Len(queue) \in Nat
  BY DEF IInv, TypeOK
<1>3. loop # "ended" /\ \A i \in 1 .. Len(queue) : queue[i] # DoneMark
  BY <1>1 DEF IInv, Ends
<1>4. TypeOK'
  <2>1. side' \in [Sides -> {"running", "done", "failed"}]
    BY <1>2 DEF checkDone, SideFails, TypeOK
  <2>2. queue' \in Seq(Pair \cup {DoneMark})
    BY <1>1, <1>2
  <2> QED BY <2>1, <2>2, <1>1, <1>2 DEF TypeOK
<1>5. PairsQueued = queue
  BY <1>2, <1>3 DEF PairsQueued, Range
<1>6. CASE queue' = queue
  <2>1. Ends'
    BY <1>1, <1>3, <1>6 DEF Ends
  <2>2. AllPairs' = AllPairs
    BY <1>1, <1>6 DEF AllPairs, PairsQueued
  <2>3. LastIsCurrent' /\ OneByOne' /\ Timed'
    BY <1>1, <1>2, <2>2, SameLast DEF IInv, TypeOK
  <2>4. StateIsSuffix' /\ RightChangeFires'
    BY <1>1 DEF IInv, StateIsSuffix, RightChangeFires
  <2> QED BY <1>4, <2>1, <2>3, <2>4 DEF IInv
<1>7. CASE checkDone(s) /\ side[Other[s]] = "done" /\ queue' = Append(queue, DoneMark)
  <2>1. BothDone'
    <3>1. side' = [side EXCEPT ![s] = "done"]
      BY <1>7 DEF checkDone
    <3> QED BY <3>1, <1>2, <1>7, TheOther DEF BothDone, TypeOK
  <2>2. /\ Len(queue') = Len(queue) + 1 /\ queue'[Len(queue) + 1] = DoneMark
        /\ \A i \in 1 .. Len(queue) : queue'[i] = queue[i]
    BY <1>2, <1>7
  <2>3. Ends'
    <3>1. \A i \in 1 .. Len(queue') : i \in 1 .. Len(queue) \/ i = Len(queue) + 1
      BY <1>2, <2>2
    <3>2. loop' # "ended"
      BY <1>1, <1>3
    <3> QED BY <1>3, <2>1, <2>2, <3>1, <3>2 DEF Ends
  <2>4. AllPairs' = AllPairs
    <3>1. Shape /\ Shape'
      BY <1>2, <1>4, <2>3, PairsShape, PairsShapeNext DEF IInv
    <3>2. /\ Len(PairsQueued') = Len(queue)
          /\ \A i \in 1 .. Len(queue) : PairsQueued'[i] = queue[i]
      <4>1. Len(queue) + 1 \in 1 .. Len(queue) + 1 /\ Len(queue') # 0
        BY <1>2, <2>2
      <4>2. Len(PairsQueued') = Len(queue') - 1
        BY <2>2, <3>1, <4>1 DEF Shape
      <4>3. Len(PairsQueued') = Len(queue)
        BY <1>2, <2>2, <4>2
      <4> QED BY <2>2, <3>1, <4>3 DEF Shape
    <3>3. PairsQueued' = PairsQueued
      <4>1. PairsQueued' \in Seq(Pair) /\ PairsQueued \in Seq(Pair)
        BY <3>1 DEF Shape
      <4> QED BY <1>5, <3>2, <4>1, SeqEqual
    <3> QED BY <1>1, <3>3 DEF AllPairs
  <2>5. LastIsCurrent' /\ OneByOne' /\ Timed'
    BY <1>1, <1>2, <2>4, SameLast DEF IInv, TypeOK
  <2>6. StateIsSuffix' /\ RightChangeFires'
    BY <1>1 DEF IInv, StateIsSuffix, RightChangeFires
  <2> QED BY <1>4, <2>3, <2>5, <2>6 DEF IInv
<1> QED BY <1>1, <1>6, <1>7

\* Steps that leave the queue and what was taken alone.
LEMMA QuietIInv ==
  ASSUME IInv, NextRound \/ Resume \/ UNCHANGED vars
  PROVE  IInv'
<1>1. /\ UNCHANGED <<side, current, queue, mem, taken, fired>>
      /\ now' = now \/ (now < MaxTime /\ now' = now + 1)
      /\ loop' = loop \/ (loop = "busy" /\ loop' \in {"waiting", "thrown"})
  BY DEF NextRound, Resume, vars
<1>2. TypeOK /\ now \in 1 .. MaxTime
  BY DEF IInv, TypeOK
<1>3. now' \in 1 .. MaxTime /\ now <= now'
  BY <1>1, <1>2
<1>4. TypeOK'
  BY <1>1, <1>2, <1>3 DEF TypeOK
<1>5. Ends'
  <2>1. BothDone' = BothDone
    BY <1>1 DEF BothDone
  <2>2. (loop' = "ended") <=> (loop = "ended")
    BY <1>1
  <2> QED BY <1>1, <2>1, <2>2 DEF IInv, Ends
<1>6. AllPairs' = AllPairs
  BY <1>1 DEF AllPairs, PairsQueued
<1>7. LastIsCurrent' /\ OneByOne' /\ Timed'
  BY <1>1, <1>2, <1>3, <1>6, SameLast DEF IInv
<1>8. StateIsSuffix' /\ RightChangeFires'
  BY <1>1 DEF IInv, StateIsSuffix, RightChangeFires
<1> QED BY <1>4, <1>5, <1>7, <1>8 DEF IInv

\* The rule takes the mark: nothing else is left in the queue.
LEMMA EndIInv ==
  ASSUME IInv, End
  PROVE  IInv'
<1>1. /\ queue # <<>> /\ Head(queue) = DoneMark
      /\ queue' = Tail(queue) /\ loop' = "ended"
      /\ UNCHANGED <<now, side, current, mem, taken, fired>>
  BY DEF End
<1>2. TypeOK /\ Ends /\ queue \in Seq(Pair \cup {DoneMark}) /\ Len(queue) \in Nat \ {0}
      /\ queue[1] = DoneMark
  BY <1>1 DEF IInv, TypeOK
<1>3. Len(queue) = 1 /\ BothDone
  <2>1. 1 \in 1 .. Len(queue)
    BY <1>2
  <2> QED BY <2>1, <1>2 DEF Ends
<1>4. queue' = <<>>
  BY <1>1, <1>2, <1>3, HeadTailProperties, EmptySeq
<1>5. TypeOK'
  BY <1>1, <1>2, <1>4 DEF TypeOK
<1>6. Ends'
  <2>1. BothDone'
    BY <1>1, <1>3 DEF BothDone
  <2>2. 1 .. Len(queue') = {}
    BY <1>4
  <2> QED BY <1>4, <2>1, <2>2 DEF Ends
<1>7. AllPairs' = AllPairs
  <2>1. Shape /\ Shape'
    BY <1>2, <1>5, <1>6, PairsShape, PairsShapeNext
  <2>2. Len(PairsQueued) = 0
    BY <1>2, <1>3, <2>1 DEF Shape
  <2>3. Len(PairsQueued') = 0
    BY <1>4, <2>1 DEF Shape
  <2>4. PairsQueued = <<>> /\ PairsQueued' = <<>>
    BY <2>1, <2>2, <2>3, EmptySeq DEF Shape
  <2> QED BY <1>1, <2>4 DEF AllPairs
<1>8. LastIsCurrent' /\ OneByOne' /\ Timed'
  BY <1>1, <1>2, <1>7, SameLast DEF IInv, TypeOK
<1>9. StateIsSuffix' /\ RightChangeFires'
  BY <1>1 DEF IInv, StateIsSuffix, RightChangeFires
<1> QED BY <1>5, <1>6, <1>8, <1>9 DEF IInv

-----------------------------------------------------------------------------
(* The rule takes a pair.                                                  *)

LEMMA TakeFacts ==
  ASSUME IInv, Take
  PROVE  /\ Len(queue) \in Nat \ {0} /\ Len(taken) \in Nat
         /\ queue[1] # DoneMark /\ queue[1] \in Pair
         /\ queue' = Tail(queue) /\ loop' = "busy"
         /\ taken' = Append(taken, queue[1]) /\ taken' \in Seq(Pair)
         /\ Len(taken') = Len(taken) + 1 /\ taken'[Len(taken) + 1] = queue[1]
         /\ \A i \in 1 .. Len(taken) : taken'[i] = taken[i] /\ taken[i] \in Pair
         /\ Len(queue') = Len(queue) - 1 /\ queue' \in Seq(Pair \cup {DoneMark})
         /\ \A i \in 1 .. Len(queue) - 1 : queue'[i] = queue[i + 1]
         /\ fired' = IF isNewTuple(mem, queue[1]) THEN fired \cup {Len(taken')} ELSE fired
         /\ mem' = addTuple(mem, queue[1])
         /\ UNCHANGED <<now, side, current>>
<1>1. /\ queue # <<>> /\ queue \in Seq(Pair \cup {DoneMark}) /\ taken \in Seq(Pair)
      /\ Head(queue) # DoneMark
  BY DEF Take, IInv, TypeOK
<1>2. Head(queue) = queue[1] /\ Len(queue) \in Nat \ {0}
  BY <1>1
<1>3. queue[1] \in Pair
  BY <1>1, <1>2
<1>4. /\ Tail(queue) \in Seq(Pair \cup {DoneMark}) /\ Len(Tail(queue)) = Len(queue) - 1
      /\ \A i \in 1 .. Len(Tail(queue)) : Tail(queue)[i] = queue[i + 1]
  BY <1>1, HeadTailProperties
<1>5. /\ queue' = Tail(queue) /\ loop' = "busy" /\ taken' = Append(taken, queue[1])
      /\ fired' = IF isNewTuple(mem, queue[1]) THEN fired \cup {Len(taken')} ELSE fired
      /\ mem' = addTuple(mem, queue[1])
      /\ UNCHANGED <<now, side, current>>
  BY <1>2 DEF Take
<1>6. /\ Len(taken) \in Nat /\ taken' \in Seq(Pair)
      /\ Len(taken') = Len(taken) + 1 /\ taken'[Len(taken) + 1] = queue[1]
      /\ \A i \in 1 .. Len(taken) : taken'[i] = taken[i] /\ taken[i] \in Pair
  BY <1>1, <1>3, <1>5, AppendProperties
<1> QED BY <1>1, <1>2, <1>3, <1>4, <1>5, <1>6

LEMMA TakeEnds == ASSUME IInv, Take PROVE Ends'
<1>1. /\ Len(queue) \in Nat \ {0} /\ Len(queue') = Len(queue) - 1 /\ loop' = "busy"
      /\ \A i \in 1 .. Len(queue) - 1 : queue'[i] = queue[i + 1]
      /\ side' = side
  BY TakeFacts
<1>2. \A i \in 1 .. Len(queue') : i + 1 \in 1 .. Len(queue)
  BY <1>1
<1>3. BothDone' = BothDone
  BY <1>1 DEF BothDone
<1>4. ASSUME NEW i \in 1 .. Len(queue'), queue'[i] = DoneMark
      PROVE  i = Len(queue') /\ BothDone'
  <2>1. queue[i + 1] = DoneMark /\ i + 1 \in 1 .. Len(queue)
    BY <1>1, <1>2, <1>4
  <2>2. i + 1 = Len(queue) /\ BothDone
    BY <2>1 DEF IInv, Ends
  <2> QED BY <2>2, <1>1, <1>3
<1> QED BY <1>1, <1>4 DEF Ends

\* What the rule takes is the first of the queued pairs.
LEMMA TakenNext ==
  ASSUME IInv, Take
  PROVE  /\ Len(taken) + 1 \in 1 .. Len(AllPairs) /\ AllPairs \in Seq(Pair)
         /\ \A i \in 1 .. Len(taken) + 1 : AllPairs[i] = taken'[i]
<1>1. Shape
  BY PairsShape DEF IInv
<1>2. /\ Len(queue) \in Nat \ {0} /\ queue[1] # DoneMark /\ Len(taken) \in Nat
      /\ taken'[Len(taken) + 1] = queue[1]
      /\ \A i \in 1 .. Len(taken) : taken'[i] = taken[i]
  BY TakeFacts
<1>3. 1 \in 1 .. Len(PairsQueued)
  BY <1>1, <1>2 DEF Shape
<1>4. AllPairs[Len(taken) + 1] = queue[1]
  BY <1>1, <1>3 DEF Shape
<1>5. \A i \in 1 .. Len(taken) + 1 : i \in 1 .. Len(taken) \/ i = Len(taken) + 1
  BY <1>2
<1> QED BY <1>1, <1>2, <1>3, <1>4, <1>5 DEF Shape

LEMMA TakenSorted ==
  ASSUME IInv, Take
  PROVE  /\ taken \in Seq(Pair) /\ mem \in Seq(Pair) /\ Sorted(taken)
         /\ \A p \in Pair : p.ts \in Nat
         /\ \A i \in 1 .. Len(taken) : taken[i].ts <= queue[1].ts
<1>1. /\ Len(taken) \in Nat /\ taken'[Len(taken) + 1] = queue[1]
      /\ \A i \in 1 .. Len(taken) : taken'[i] = taken[i]
  BY TakeFacts
<1>2. /\ Len(taken) + 1 \in 1 .. Len(AllPairs) /\ AllPairs \in Seq(Pair)
      /\ \A i \in 1 .. Len(taken) + 1 : AllPairs[i] = taken'[i] /\ i \in 1 .. Len(AllPairs)
  BY <1>1, TakenNext
<1>3. \A i, j \in 1 .. Len(taken) + 1 : i <= j => taken'[i].ts <= taken'[j].ts
  BY <1>2 DEF IInv, Timed, Sorted
<1>4. Sorted(taken)
  BY <1>1, <1>3 DEF Sorted
<1>5. \A i \in 1 .. Len(taken) : taken[i].ts <= queue[1].ts
  BY <1>1, <1>3
<1> QED BY <1>4, <1>5, PairTyped DEF IInv, TypeOK

LEMMA TakeState ==
  ASSUME IInv, Take
  PROVE  TypeOK' /\ StateIsSuffix'
<1>1. PICK k : Suffix(mem, taken, k)
  BY DEF IInv, StateIsSuffix
<1>2. queue[1] \in Pair
  BY TakeFacts
<1>3. /\ addTuple(mem, queue[1]) \in Seq(Pair)
      /\ \E n : Suffix(addTuple(mem, queue[1]), Append(taken, queue[1]), n)
  BY <1>1, <1>2, TakenSorted, AddTupleSuffix
<1>4. StateIsSuffix'
  BY <1>3, TakeFacts DEF StateIsSuffix, Suffix
<1>5. fired' \subseteq DOMAIN taken'
  <2>1. DOMAIN taken = 1 .. Len(taken) /\ DOMAIN taken' = 1 .. Len(taken) + 1
        /\ fired \subseteq DOMAIN taken /\ Len(taken) \in Nat
    BY TakeFacts DEF IInv, TypeOK
  <2> QED BY <2>1, TakeFacts
<1>6. TypeOK'
  BY <1>3, <1>5, TakeFacts DEF IInv, TypeOK
<1> QED BY <1>4, <1>6

LEMMA TakePairs ==
  ASSUME IInv, Take
  PROVE  AllPairs' = AllPairs
<1>1. Shape /\ Shape'
  BY TakeEnds, TakeState, PairsShape, PairsShapeNext DEF IInv
<1> DEFINE m == Len(taken)
<1>2. /\ Len(queue) \in Nat \ {0} /\ m \in Nat /\ queue[1] # DoneMark
      /\ Len(taken') = m + 1
      /\ Len(queue') = Len(queue) - 1
      /\ \A i \in 1 .. Len(queue) - 1 : queue'[i] = queue[i + 1]
  BY TakeFacts
<1>3. Len(PairsQueued') = Len(PairsQueued) - 1
  <2>1. CASE queue[Len(queue)] = DoneMark
    <3>1. Len(queue) - 1 \in 1 .. Len(queue) - 1 /\ Len(queue) - 1 # 0
      BY <1>2, <2>1
    <3>2. queue'[Len(queue')] = DoneMark /\ Len(queue') \in 1 .. Len(queue')
      BY <1>2, <2>1, <3>1
    <3>3. Len(PairsQueued) = Len(queue) - 1
      <4>1. Len(queue) \in 1 .. Len(queue)
        BY <1>2
      <4> QED BY <1>1, <2>1, <4>1 DEF Shape
    <3>4. Len(PairsQueued') = Len(queue') - 1
      BY <1>1, <3>2 DEF Shape
    <3> QED BY <1>2, <3>3, <3>4
  <2>2. CASE queue[Len(queue)] # DoneMark
    <3>1. Len(PairsQueued) = Len(queue)
      BY <1>1, <2>2 DEF Shape
    <3>2. Len(PairsQueued') = Len(queue')
      <4>1. ASSUME Len(queue') # 0 PROVE queue'[Len(queue')] # DoneMark
        <5>1. Len(queue') \in 1 .. Len(queue) - 1 /\ Len(queue') + 1 = Len(queue)
          BY <1>2, <4>1
        <5> QED BY <1>2, <2>2, <5>1
      <4> QED BY <1>1, <4>1 DEF Shape
    <3> QED BY <1>2, <3>1, <3>2
  <2> QED BY <2>1, <2>2
<1>4. ASSUME NEW i \in 1 .. Len(AllPairs)
      PROVE  AllPairs'[i] = AllPairs[i]
  <2>1. Len(AllPairs) = m + Len(PairsQueued) /\ Len(PairsQueued) \in Nat
    BY <1>1 DEF Shape
  <2>2. CASE i <= m + 1
    <3>1. i \in 1 .. Len(taken') /\ i \in 1 .. m + 1
      BY <1>2, <2>2
    <3>2. AllPairs'[i] = taken'[i]
      BY <1>1, <3>1 DEF Shape
    <3> QED BY <3>1, <3>2, TakenNext
  <2>3. CASE ~(i <= m + 1)
    <3> DEFINE j == i - (m + 1)
    <3>1. /\ j \in 1 .. Len(PairsQueued') /\ j + 1 \in 1 .. Len(PairsQueued)
          /\ Len(taken') + j = i /\ m + (j + 1) = i
      BY <1>2, <1>3, <2>1, <2>3
    <3> HIDE DEF j
    <3>2. AllPairs'[i] = queue'[j]
      BY <1>1, <3>1 DEF Shape
    <3>3. AllPairs[i] = queue[j + 1]
      BY <1>1, <3>1 DEF Shape
    <3>4. j \in 1 .. Len(queue) - 1
      <4>1. Len(PairsQueued) <= Len(queue)
        BY <1>1, <1>2 DEF Shape
      <4>2. j \in Nat /\ j >= 1 /\ j + 1 <= Len(PairsQueued)
        BY <3>1
      <4> QED BY <1>2, <2>1, <4>1, <4>2
    <3> QED BY <1>2, <3>2, <3>3, <3>4
  <2> QED BY <2>2, <2>3
<1>5. Len(taken') + Len(PairsQueued') = Len(taken) + Len(PairsQueued)
  <2>1. Len(PairsQueued) \in Nat
    BY <1>1 DEF Shape
  <2> QED BY <2>1, <1>2, <1>3
<1> QED BY <1>1, <1>4, <1>5, SamePairs

\* A pair whose right value was not taken before is new to the state, if it
\* was made after the first one: it was made by the right side, so its time is
\* later than that of the first, and there is a round to compare it with.
LEMMA TakeFires ==
  ASSUME IInv, Take,
         queue[1].at > taken'[1].at,
         \A j \in 1 .. Len(taken) : taken'[j].val["right"] # queue[1].val["right"]
  PROVE  isNewTuple(mem, queue[1])
<1> DEFINE m == Len(taken)
           e == queue[1]
<1>1. /\ m \in Nat /\ e \in Pair /\ taken'[m + 1] = e
      /\ \A i \in 1 .. m : taken'[i] = taken[i] /\ taken[i] \in Pair
  BY TakeFacts
<1>2. e.at \in Nat /\ e.ts \in Nat
  BY <1>1, PairTyped
<1>3. m # 0
  BY <1>1, <1>2
<1>4. /\ m + 1 \in 1 .. Len(AllPairs)
      /\ \A i \in 1 .. m + 1 : AllPairs[i] = taken'[i]
      /\ Len(AllPairs) \in Nat
  BY TakenNext
<1>5. AllPairs[1] = taken[1] /\ AllPairs[m] = taken[m] /\ AllPairs[m + 1] = e
      /\ taken[1] \in Pair /\ taken'[1] = taken[1]
  BY <1>1, <1>3, <1>4
<1>6. e.ts = e.at
  <2>1. m \in 1 .. Len(AllPairs) - 1 /\ m \in 1 .. m
    BY <1>1, <1>3, <1>4
  <2>2. \/ AllPairs[m + 1].val["right"] = AllPairs[m].val["right"]
        \/ AllPairs[m + 1].ts = AllPairs[m + 1].at
    BY <2>1 DEF IInv, Timed
  <2>3. taken'[m].val["right"] # e.val["right"] /\ taken'[m] = taken[m]
    BY <1>1, <2>1
  <2> QED BY <1>5, <2>2, <2>3
<1>7. taken[1].ts < e.ts /\ taken[1].ts \in Nat
  <2>1. AllPairs[1].ts <= AllPairs[1].at
    BY <1>3, <1>4 DEF IInv, Timed
  <2>2. taken[1].ts \in Nat /\ taken[1].at \in Nat
    BY <1>5, PairTyped
  <2>3. e.at > taken[1].at
    BY <1>5
  <2> QED BY <1>2, <1>5, <1>6, <2>1, <2>2, <2>3
<1>8. isNewTuple(taken, e)
  <2>1. taken \in Seq(Pair) /\ Sorted(taken) /\ taken # <<>> /\ \A p \in Pair : p.ts \in Nat
    BY <1>3, TakenSorted
  <2>2. /\ LastTime(taken) \in Nat
        /\ \A i \in 1 .. m : taken[i].ts # LastTime(taken) => PrevTime(taken) # NoTime
    BY <2>1, Rounds
  <2>3. e.ts = LastTime(taken) => PrevTime(taken) # NoTime
    BY <1>1, <1>3, <1>7, <2>2
  <2>4. LastTime(taken) # NoTime
    BY <2>2 DEF NoTime
  <2>5. \A i \in DOMAIN taken : taken[i].val # e.val
    <3>1. DOMAIN taken = 1 .. m
      BY <2>1
    <3> QED BY <1>1, <3>1
  <2> QED BY <2>3, <2>4, <2>5 DEF isNewTuple
<1>9. PICK k : Suffix(mem, taken, k)
  BY DEF IInv, StateIsSuffix
<1>10. isNewTuple(mem, e) = isNewTuple(taken, e)
  BY <1>9, TakenSorted, CutIsSafe
<1> QED BY <1>8, <1>10

LEMMA TakeIInv ==
  ASSUME IInv, Take
  PROVE  IInv'
<1>1. TypeOK' /\ Ends' /\ StateIsSuffix'
  BY TakeEnds, TakeState
<1>2. LastIsCurrent' /\ OneByOne' /\ Timed'
  <2>1. now \in Nat /\ now' = now /\ current' = current
    BY TakeFacts DEF IInv, TypeOK
  <2> QED BY <2>1, TakePairs, SameLast DEF IInv
<1>3. RightChangeFires'
  <2> SUFFICES ASSUME NEW i \in DOMAIN taken', taken'[i].at > taken'[1].at,
                      \A j \in 1 .. i - 1 : taken'[j].val["right"] # taken'[i].val["right"]
               PROVE  i \in fired'
    BY DEF RightChangeFires
  <2>1. /\ Len(taken) \in Nat /\ Len(taken') = Len(taken) + 1 /\ taken' \in Seq(Pair)
        /\ taken'[Len(taken) + 1] = queue[1]
        /\ \A j \in 1 .. Len(taken) : taken'[j] = taken[j]
        /\ fired' = IF isNewTuple(mem, queue[1]) THEN fired \cup {Len(taken')} ELSE fired
    BY TakeFacts
  <2>2. i \in 1 .. Len(taken) + 1 /\ DOMAIN taken = 1 .. Len(taken)
    BY <2>1 DEF IInv, TypeOK
  <2>3. CASE i = Len(taken) + 1
    <3>1. i - 1 = Len(taken) /\ taken'[i] = queue[1]
      BY <2>1, <2>3
    <3>2. isNewTuple(mem, queue[1])
      BY <3>1, TakeFires
    <3> QED BY <2>1, <2>3, <3>2
  <2>4. CASE i # Len(taken) + 1
    <3>1. i \in DOMAIN taken /\ 1 \in 1 .. Len(taken) /\ i \in 1 .. Len(taken)
          /\ \A j \in 1 .. i - 1 : j \in 1 .. Len(taken)
      BY <2>1, <2>2, <2>4
    <3>2. taken[i].at > taken[1].at
      BY <2>1, <3>1
    <3>3. \A j \in 1 .. i - 1 : taken[j].val["right"] # taken[i].val["right"]
      BY <2>1, <3>1
    <3>4. i \in fired
      BY <3>1, <3>2, <3>3 DEF IInv, RightChangeFires
    <3> QED BY <2>1, <3>4
  <2> QED BY <2>3, <2>4
<1> QED BY <1>1, <1>2, <1>3 DEF IInv

-----------------------------------------------------------------------------
LEMMA InitIInv == Init => IInv
<1> SUFFICES ASSUME Init PROVE IInv
  OBVIOUS
<1>1. TypeOK
  <2>1. Null \in Emission
    BY DEF Emission
  <2>2. <<>> \in Seq(Pair) /\ <<>> \in Seq(Pair \cup {DoneMark})
    BY EmptySeq
  <2> QED BY <2>1, <2>2 DEF Init, TypeOK
<1>2. Ends
  BY DEF Init, Ends
<1>3. AllPairs = <<>>
  <2>1. DoneMark \notin Range(queue)
    BY DEF Init, Range
  <2>2. taken = <<>> /\ PairsQueued = <<>>
    BY <2>1 DEF Init, PairsQueued
  <2> QED BY <2>2, EmptySeq, ConcatEmptySeq DEF AllPairs
<1>4. \A s \in Sides : current[s].n = 0 /\ current[s].ts = 0
  BY DEF Init, Null
<1>5. LastIsCurrent /\ OneByOne /\ Timed
  <2>1. ~Paired
    BY <1>4, TheOther DEF Paired
  <2>2. now = 1 /\ Len(AllPairs) = 0
    BY <1>3 DEF Init
  <2> QED BY <1>3, <1>4, <2>1, <2>2 DEF LastIsCurrent, OneByOne, Timed, Sorted
<1>6. StateIsSuffix
  <2>1. Suffix(mem, taken, 0) /\ 0 \in 0 .. Len(taken)
    BY DEF Init, Suffix
  <2> QED BY <2>1 DEF StateIsSuffix
<1>7. RightChangeFires
  BY DEF Init, RightChangeFires
<1> QED BY <1>1, <1>2, <1>5, <1>6, <1>7 DEF IInv

LEMMA NextIInv == IInv /\ [Next]_vars => IInv'
<1> SUFFICES ASSUME IInv, [Next]_vars PROVE IInv'
  OBVIOUS
<1>1. ASSUME NEW s \in Sides, NEW v \in Values, emit(s, v) PROVE IInv'
  BY <1>1, EmitIInv
<1>2. ASSUME NEW s \in Sides, checkDone(s) \/ SideFails(s) PROVE IInv'
  BY <1>2, SettleIInv
<1> QED BY <1>1, <1>2, QuietIInv, TakeIInv, EndIInv DEF Next, Emits, Settles

LEMMA Invariance == Spec => []IInv
BY InitIInv, NextIInv, PTL DEF Spec

LEMMA IInvSuffices == IInv => TypeOK /\ NoPairLost /\ EndIsLast /\ RightChangeFires
<1> SUFFICES ASSUME IInv PROVE TypeOK /\ NoPairLost /\ EndIsLast /\ RightChangeFires
  OBVIOUS
<1>1. Shape /\ LastIsCurrent
  BY PairsShape DEF IInv
<1>2. EndIsLast
  <2>1. DOMAIN queue = 1 .. Len(queue)
    BY DEF IInv, TypeOK
  <2> QED BY <2>1 DEF IInv, Ends, EndIsLast, BothDone
<1>3. NoPairLost
  <2>1. ASSUME \A s \in Sides : current[s].n > 0
        PROVE  /\ AllPairs # <<>>
               /\ \E s \in Sides : AllPairs[1].n[s] = 1
               /\ Last(AllPairs).n = [s \in Sides |-> current[s].n]
    BY <1>1, <2>1 DEF LastIsCurrent, Paired, Last
  <2> QED BY <2>1 DEF NoPairLost, IInv, OneByOne
<1> QED BY <1>2, <1>3 DEF IInv

\* The state of the union is well typed, for any values and bounds.
THEOREM TypeCorrect == Spec => []TypeOK
BY Invariance, IInvSuffices, PTL

\* Every emission since both sides have a value is in one pair, in order, and
\* the rule takes the pairs in this order and leaves none out
\* (stream_table_ops.ts:138-148).
THEOREM NoneLost == Spec => []NoPairLost
BY Invariance, IInvSuffices, PTL

\* The end mark comes once and behind all pairs, and the rule ends only when
\* both sides are done and nothing is left to take (stream_table_ops.ts:149-152).
THEOREM EndLast == Spec => []EndIsLast
BY Invariance, IInvSuffices, PTL

\* A new value of the right side, of a later round than the first pair, always
\* reaches the action, although the state that it is compared with is cut down
\* to two rounds.
THEOREM RightFires == Spec => []RightChangeFires
BY Invariance, IInvSuffices, PTL
=============================================================================
