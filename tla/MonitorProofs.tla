--------------------------- MODULE MonitorProofs ---------------------------
(***************************************************************************)
(* The properties of module MonitorRule, for any values, filter and bounds *)
(* on the rounds, the tuples and the faults.  The log is sorted, the state *)
(* is what addTuple has left of it, and the rest follows the tuple in hand *)
(* through the stages of the rule.                                         *)
(***************************************************************************)
EXTENDS MonitorRule, EdgeStateProofs

USE MonitorAssumption

\* The log is in the order of the source, and the state is the end of it.
LogSorted == Sorted(log) /\ \A i \in 1 .. Len(log) : log[i].ts <= round

StateIsSuffix ==
  /\ \E k : Suffix(disk, log, k)
  /\ \A i \in 1 .. Len(disk) : disk[i].ts \in {LastTime(disk), PrevTime(disk)}

\* The tuple in hand is of the last round; it is the last one of the log as
\* soon as it is stored.
InHand ==
  /\ coming # <<>> => round # 0
  /\ pc = "write" => tuple \in Tuples /\ tuple.ts = round /\ isNew = isNewTuple(mem, tuple)
  /\ pc \in {"read", "writeTruth", "act"} =>
       tuple \in Tuples /\ log # <<>> /\ log[Len(log)] = tuple

\* Position f of a log had no equal in the round before its own.
NewIn(l, f) ==
  \E t \in Nat :
    /\ t < l[f].ts
    /\ \E k \in 1 .. Len(l) : l[k].ts = t
    /\ \A k \in 1 .. Len(l) : l[k].ts < l[f].ts => l[k].ts <= t
    /\ \A k \in 1 .. Len(l) : l[k].ts = t => l[k].val # l[f].val

NewOnly ==
  /\ \A i \in 1 .. Len(fired) : NewIn(log, fired[i])
  /\ pc \in {"read", "writeTruth", "act"} => NewIn(log, Len(log))

\* What has fired is behind the tuple in hand.
InOrder ==
  /\ \A i, j \in 1 .. Len(fired) : i < j => fired[i] < fired[j]
  /\ pc \in {"read", "writeTruth", "act"} =>
       \A i \in 1 .. Len(fired) : fired[i] < Len(log)

\* The runs of the action that are missing, for what the stored truth of the
\* filter will make of the next tuple: if it is behind the last new tuple, a
\* run is missing already; if it is ahead, the next one will be.
Missing == due - Len(fired)

MissingBounded ==
  /\ pc \in {"down", "poll", "write"} =>
       /\ 0 <= Missing /\ Missing <= faults
       /\ Filtered /\ ideal /\ truth # "true" => 1 <= Missing
       /\ Filtered /\ ~ideal /\ truth = "true" => Missing + 1 <= faults
  /\ pc \in {"read", "writeTruth"} =>
       /\ Filtered /\ ideal = (tuple.val \in Passing)
       /\ 0 <= Missing /\ Missing <= faults + 1
       /\ ideal /\ truth # "true" => 1 <= Missing
       /\ ~ideal \/ truth = "true" => Missing <= faults
  /\ pc = "writeTruth" => was = truth
  /\ pc = "act" =>
       /\ 1 <= Missing /\ Missing <= faults + 1
       /\ Filtered => truth = "true" /\ ideal

IInv ==
  /\ TypeOK /\ MemoryIsStored /\ LogSorted /\ StateIsSuffix
  /\ InHand /\ NewOnly /\ InOrder /\ MissingBounded

LEMMA TuplesTyped == \A e \in Tuples : e.ts \in Nat /\ e.ts \in 1 .. MaxRounds
BY DEF Tuples

LEMMA InitIInv == Init => IInv
<1> SUFFICES ASSUME Init PROVE IInv
  OBVIOUS
<1>1. TypeOK
  <2>1. /\ <<>> \in Seq(Tuples) /\ <<>> \in Seq(Values) /\ <<>> \in Seq(DOMAIN log)
        /\ Len(log) = 0
    BY EmptySeq DEF Init
  <2>2. fired \in Seq(DOMAIN log)
    BY <2>1 DEF Init
  <2>3. isNew \in BOOLEAN /\ ideal \in BOOLEAN
    BY DEF Init
  <2>4. round \in 0 .. MaxRounds /\ faults \in 0 .. MaxFaults /\ due \in 0 .. Len(log)
    BY <2>1 DEF Init
  <2> QED BY <2>1, <2>2, <2>3, <2>4 DEF Init, TypeOK
<1>2. Suffix(disk, log, 0)
  BY DEF Init, Suffix
<1>3. MemoryIsStored /\ LogSorted /\ StateIsSuffix /\ InHand
  BY <1>2 DEF Init, MemoryIsStored, LogSorted, Sorted, StateIsSuffix, InHand
<1>4. NewOnly /\ InOrder /\ MissingBounded
  BY DEF Init, NewOnly, InOrder, MissingBounded, Missing
<1> QED BY <1>1, <1>3, <1>4 DEF IInv

-----------------------------------------------------------------------------
(* A tuple is stored.                                                      *)

\* What the log says of the tuple in hand, for which it is longer by one.
LEMMA LogGrows ==
  ASSUME IInv, Stored
  PROVE  /\ log' = Append(log, tuple) /\ Len(log) \in Nat /\ Len(log') = Len(log) + 1
         /\ \A i \in 1 .. Len(log) : log'[i] = log[i] /\ log[i] \in Tuples
         /\ log'[Len(log')] = tuple /\ log' # <<>> /\ log' \in Seq(Tuples)
         /\ tuple \in Tuples /\ tuple.ts = round
<1>1. log' = Append(log, tuple) /\ pc = "write"
  BY DEF Stored
<1>2. log \in Seq(Tuples) /\ tuple \in Tuples /\ tuple.ts = round
  BY <1>1 DEF IInv, TypeOK, InHand
<1> QED BY <1>1, <1>2

LEMMA StoredType == ASSUME IInv, Stored PROVE TypeOK'
<1>1. /\ pc' \in {"down", "poll", "write", "read", "writeTruth", "act"}
      /\ truth' \in {"none", "null", "true", "false"} /\ was' \in {"null", "true", "false"}
      /\ tuple' \in Tuples \cup {NoTuple}
      /\ round' \in 0 .. MaxRounds
      /\ coming' \in Seq(Values)
      /\ faults' \in 0 .. MaxFaults
  BY DEF IInv, TypeOK, Stored
<1>2. disk' \in Seq(Tuples) /\ mem' = disk'
  <2>1. PICK k : Suffix(disk, log, k)
    BY DEF IInv, StateIsSuffix
  <2>2. mem = disk
    BY DEF IInv, MemoryIsStored, Stored
  <2>3. \A i \in 1 .. Len(log) : log[i].ts <= tuple.ts
    BY LogGrows DEF IInv, LogSorted
  <2>4. addTuple(disk, tuple) \in Seq(Tuples)
    BY <2>1, <2>3, LogGrows, TuplesTyped, AddTupleSuffix DEF IInv, TypeOK, LogSorted
  <2> QED BY <2>2, <2>4 DEF Stored
<1>3. log' \in Seq(Tuples)
  BY LogGrows
<1>4. isNew' \in BOOLEAN /\ ideal' \in BOOLEAN
  <2>1. isNew' \in BOOLEAN
    BY DEF IInv, TypeOK, Stored
  <2>2. ideal' = (IF isNew THEN tuple.val \in Passing ELSE ideal) /\ ideal \in BOOLEAN
    BY DEF IInv, TypeOK, Stored
  <2>3. ideal' \in BOOLEAN
    <3>1. CASE isNew
      <4>1. ideal' = (tuple.val \in Passing)
        BY <2>2, <3>1
      <4> QED BY <4>1
    <3>2. CASE ~isNew
      <4>1. ideal' = ideal
        BY <2>2, <3>2
      <4> QED BY <2>2, <4>1
    <3> QED BY <3>1, <3>2
  <2> QED BY <2>1, <2>3
<1>5. due' \in 0 .. Len(log')
  BY LogGrows DEF IInv, TypeOK, Stored
<1>6. fired' \in Seq(DOMAIN log')
  <2>1. DOMAIN log = 1 .. Len(log) /\ DOMAIN log' = 1 .. Len(log) + 1
    BY LogGrows DEF IInv, TypeOK
  <2>2. fired \in Seq(DOMAIN log) /\ DOMAIN log \subseteq DOMAIN log' /\ fired' = fired
    BY <2>1, LogGrows DEF IInv, TypeOK, Stored
  <2> QED BY <2>2, SeqMonotonic
<1> QED BY <1>1, <1>2, <1>3, <1>4, <1>5, <1>6 DEF TypeOK

LEMMA StoredState == ASSUME IInv, Stored PROVE (LogSorted /\ StateIsSuffix /\ MemoryIsStored)'
<1>1. PICK k : Suffix(disk, log, k)
  BY DEF IInv, StateIsSuffix
<1>2. disk' = addTuple(disk, tuple) /\ mem' = disk'
  BY DEF IInv, MemoryIsStored, Stored
<1>3. \A i \in 1 .. Len(log) : log[i].ts <= tuple.ts
  BY LogGrows DEF IInv, LogSorted
<1>4. /\ \E n : Suffix(addTuple(disk, tuple), Append(log, tuple), n)
      /\ \A i \in 1 .. Len(addTuple(disk, tuple)) :
           addTuple(disk, tuple)[i].ts \in {LastTime(addTuple(disk, tuple)), PrevTime(addTuple(disk, tuple))}
  BY <1>1, <1>3, LogGrows, TuplesTyped, AddTupleSuffix DEF IInv, TypeOK, LogSorted
<1>5. StateIsSuffix'
  BY <1>2, <1>4, LogGrows DEF StateIsSuffix
<1>6. LogSorted'
  <2>1. Sorted(Append(log, tuple))
    BY <1>3, LogGrows, TuplesTyped, AppendSorted DEF IInv, TypeOK, LogSorted
  <2>2. \A i \in 1 .. Len(log') : log'[i].ts <= round' /\ round' = round
    BY <1>3, LogGrows DEF Stored, IInv, TypeOK, LogSorted
  <2> QED BY <2>1, <2>2, LogGrows DEF LogSorted
<1> QED BY <1>2, <1>5, <1>6 DEF MemoryIsStored

\* What isNewTuple says of a state is what it would say of the log.
LEMMA SaysTheSame ==
  ASSUME IInv, NEW e PROVE isNewTuple(disk, e) = isNewTuple(log, e)
<1>1. PICK k : Suffix(disk, log, k)
  BY DEF IInv, StateIsSuffix
<1> QED BY <1>1, TuplesTyped, CutIsSafe DEF IInv, TypeOK, LogSorted

\* A longer log takes nothing away from what was new in it,
LEMMA NewStays ==
  ASSUME IInv, Stored, NEW f \in 1 .. Len(log), NewIn(log, f)
  PROVE  NewIn(log', f)
<1>1. PICK t \in Nat :
        /\ t < log[f].ts
        /\ \E k \in 1 .. Len(log) : log[k].ts = t
        /\ \A k \in 1 .. Len(log) : log[k].ts < log[f].ts => log[k].ts <= t
        /\ \A k \in 1 .. Len(log) : log[k].ts = t => log[k].val # log[f].val
  BY DEF NewIn
<1>2. /\ log'[f] = log[f] /\ Len(log) \in Nat /\ Len(log') = Len(log) + 1
      /\ \A k \in 1 .. Len(log) : log'[k] = log[k]
      /\ log[f].ts \in Nat /\ tuple.ts \in Nat /\ log[f].ts <= tuple.ts
      /\ log'[Len(log')].ts = tuple.ts
  BY LogGrows, TuplesTyped DEF IInv, LogSorted
<1>3. ASSUME NEW k \in 1 .. Len(log')
      PROVE  /\ log'[k].ts < log'[f].ts => log'[k].ts <= t
             /\ log'[k].ts = t => log'[k].val # log'[f].val
  <2>2. CASE k = Len(log')
    BY <1>1, <1>2, <2>2
  <2>3. CASE k # Len(log')
    BY <1>1, <1>2, <2>3
  <2> QED BY <2>2, <2>3
<1>4. \E k \in 1 .. Len(log') : log'[k].ts = t
  BY <1>1, <1>2
<1>5. t < log'[f].ts
  BY <1>1, <1>2
<1> QED BY <1>3, <1>4, <1>5 DEF NewIn

\* and isNewTuple finds out that the tuple in hand is new.
LEMMA NewTupleIsNew ==
  ASSUME IInv, Stored, isNew
  PROVE  NewIn(log', Len(log'))
<1> DEFINE t == IF tuple.ts = LastTime(log) THEN PrevTime(log) ELSE LastTime(log)
<1>1. t # NoTime /\ \A i \in 1 .. Len(log) : log[i].ts = t => log[i].val # tuple.val
  <2>1. isNewTuple(mem, tuple) /\ mem = disk
    BY DEF IInv, InHand, MemoryIsStored, Stored
  <2>2. isNewTuple(log, tuple)
    BY <2>1, SaysTheSame
  <2> QED BY <2>2, LogGrows DEF isNewTuple, IInv, TypeOK
<1>2. /\ Len(log) \in Nat /\ Len(log') = Len(log) + 1
      /\ \A k \in 1 .. Len(log) : log'[k] = log[k] /\ log[k].ts \in Nat /\ log[k].ts <= tuple.ts
      /\ log'[Len(log')] = tuple /\ tuple.ts \in Nat
  BY LogGrows, TuplesTyped DEF IInv, LogSorted
<1>3. log # <<>>
  BY <1>1, <1>2 DEF LastTime, NoTime
<1>4. /\ LastTime(log) = log[Len(log)].ts /\ Len(log) \in Nat \ {0} /\ LastTime(log) \in Nat
      /\ PrevTime(log) # NoTime =>
           /\ PrevTime(log) < LastTime(log) /\ PrevTime(log) \in Nat
           /\ \E i \in 1 .. Len(log) : log[i].ts = PrevTime(log)
      /\ \A i \in 1 .. Len(log) : log[i].ts # LastTime(log) =>
           PrevTime(log) # NoTime /\ log[i].ts <= PrevTime(log)
  BY <1>3, TuplesTyped, Rounds DEF IInv, TypeOK, LogSorted
<1>5. LastTime(log) <= tuple.ts
  BY <1>2, <1>4
<1>6. /\ t \in Nat /\ t < tuple.ts
      /\ \E k \in 1 .. Len(log) : log[k].ts = t
      /\ \A k \in 1 .. Len(log) : log[k].ts < tuple.ts => log[k].ts <= t
  <2>1. CASE tuple.ts = LastTime(log)
    <3>1. t = PrevTime(log)
      BY <2>1
    <3> QED BY <1>1, <1>2, <1>4, <2>1, <3>1
  <2>2. CASE tuple.ts # LastTime(log)
    <3>1. t = LastTime(log)
      BY <2>2
    <3>2. \A k \in 1 .. Len(log) : log[k].ts <= LastTime(log)
      BY <1>4 DEF IInv, LogSorted, Sorted
    <3> QED BY <1>2, <1>4, <1>5, <2>2, <3>1, <3>2
  <2> QED BY <2>1, <2>2
<1> HIDE DEF t
<1>7. \A k \in 1 .. Len(log') : k # Len(log') => k \in 1 .. Len(log)
  BY <1>2
<1>8. \E k \in 1 .. Len(log') : log'[k].ts = t
  BY <1>2, <1>6
<1>9. ASSUME NEW k \in 1 .. Len(log')
      PROVE  /\ log'[k].ts < tuple.ts => log'[k].ts <= t
             /\ log'[k].ts = t => log'[k].val # tuple.val
  BY <1>1, <1>2, <1>6, <1>7
<1> QED BY <1>2, <1>6, <1>8, <1>9 DEF NewIn

LEMMA StoredRest == ASSUME IInv, Stored PROVE (InHand /\ NewOnly /\ InOrder /\ MissingBounded)'
<1>1. /\ pc = "write" /\ pc' \in {"poll", "read", "act"}
      /\ pc' # "poll" => isNew
      /\ fired' = fired /\ coming' = coming /\ round' = round /\ tuple' = tuple
      /\ truth' = truth /\ faults' = faults /\ was' = was /\ (Filtered' <=> Filtered)
  BY DEF Stored, Filtered
<1>2. InHand'
  BY <1>1, LogGrows DEF IInv, InHand
<1>3. \A i \in 1 .. Len(fired) : fired[i] \in 1 .. Len(log)
  BY LogGrows DEF IInv, TypeOK
<1>4. NewOnly'
  <2>1. ASSUME NEW i \in 1 .. Len(fired) PROVE NewIn(log', fired'[i])
    <3>1. NewIn(log, fired[i])
      BY DEF IInv, NewOnly
    <3>2. fired'[i] = fired[i]
      BY <1>1
    <3>3. PICK f \in 1 .. Len(log) : f = fired[i]
      BY <1>3
    <3>4. NewIn(log, f)
      BY <3>1, <3>3
    <3>5. NewIn(log', f)
      BY <3>4, NewStays
    <3> QED BY <3>2, <3>3, <3>5
  <2>2. pc' \in {"read", "writeTruth", "act"} => NewIn(log', Len(log'))
    BY <1>1, NewTupleIsNew
  <2> QED BY <1>1, <2>1, <2>2 DEF NewOnly
<1>5. InOrder'
  BY <1>1, <1>3, LogGrows DEF IInv, InOrder
<1>6. MissingBounded'
  <2>1. /\ pc' = IF isNew THEN IF Filtered THEN "read" ELSE "act" ELSE "poll"
        /\ due' = IF isNew /\ (Filtered => tuple.val \in Passing /\ ~ideal) THEN due + 1 ELSE due
        /\ ideal' = IF isNew THEN tuple.val \in Passing ELSE ideal
    BY DEF Stored
  <2>2. /\ 0 <= Missing /\ Missing <= faults
        /\ Filtered /\ ideal /\ truth # "true" => 1 <= Missing
        /\ Filtered /\ ~ideal /\ truth = "true" => Missing + 1 <= faults
    BY <1>1 DEF IInv, MissingBounded
  <2>3. /\ Missing \in Int /\ due \in Int /\ faults \in Int
        /\ Missing' = due' - Len(fired) /\ Missing = due - Len(fired) /\ Len(fired) \in Nat
    BY <1>1 DEF IInv, TypeOK, Missing
  <2>4. CASE ~isNew
    <3>1. pc' = "poll" /\ due' = due /\ ideal' = ideal /\ Missing' = Missing
      BY <2>1, <2>3, <2>4
    <3> QED BY <1>1, <2>2, <3>1 DEF MissingBounded
  <2>5. CASE isNew /\ ~Filtered
    <3>1. pc' = "act" /\ due' = due + 1 /\ Missing' = Missing + 1
      BY <2>1, <2>3, <2>5
    <3> QED BY <1>1, <2>2, <2>3, <2>5, <3>1 DEF MissingBounded
  <2>6. CASE isNew /\ Filtered
    <3>1. /\ pc' = "read" /\ ideal' = (tuple.val \in Passing)
          /\ Missing' = IF tuple.val \in Passing /\ ~ideal THEN Missing + 1 ELSE Missing
      BY <2>1, <2>3, <2>6
    <3>2. 0 <= Missing' /\ Missing' <= faults + 1
      BY <2>2, <2>3, <3>1
    <3>3. ASSUME ideal', truth # "true" PROVE 1 <= Missing'
      <4>1. CASE ideal
        <5>1. Missing' = Missing /\ 1 <= Missing
          BY <2>2, <2>6, <3>1, <3>3, <4>1
        <5> QED BY <5>1
      <4>2. CASE ~ideal
        <5>1. Missing' = Missing + 1
          BY <3>1, <3>3, <4>2
        <5> QED BY <5>1, <2>2, <2>3
      <4> QED BY <4>1, <4>2
    <3>4. ASSUME ~ideal' \/ truth = "true" PROVE Missing' <= faults
      <4>1. CASE ~ideal' \/ ideal
        <5>1. Missing' = Missing
          BY <3>1, <4>1
        <5> QED BY <5>1, <2>2
      <4>2. CASE ideal' /\ ~ideal
        <5>1. Missing' = Missing + 1 /\ Missing + 1 <= faults
          BY <2>2, <2>6, <3>1, <3>4, <4>2
        <5> QED BY <5>1
      <4> QED BY <4>1, <4>2
    <3> QED BY <1>1, <2>6, <3>1, <3>2, <3>3, <3>4 DEF MissingBounded
  <2> QED BY <2>4, <2>5, <2>6
<1> QED BY <1>2, <1>4, <1>5, <1>6

-----------------------------------------------------------------------------
(* The other steps leave the log and the state alone.                      *)

LEMMA QuietState ==
  ASSUME IInv, UNCHANGED <<disk, log>>, round' \in Nat, round <= round'
  PROVE  (LogSorted /\ StateIsSuffix)'
<1>1. \A i \in 1 .. Len(log) : log[i].ts \in Nat /\ log[i].ts <= round
  BY TuplesTyped DEF IInv, TypeOK, LogSorted
<1>2. round \in Nat
  BY DEF IInv, TypeOK
<1>3. LogSorted'
  BY <1>1, <1>2 DEF IInv, LogSorted
<1>4. StateIsSuffix'
  BY DEF IInv, StateIsSuffix
<1> QED BY <1>3, <1>4

\* What has fired does not change, unless it is the tuple in hand.
LEMMA QuietFired ==
  ASSUME IInv, UNCHANGED <<log, fired>>,
         pc' \in {"read", "writeTruth", "act"} => pc \in {"read", "writeTruth", "act"}
  PROVE  (NewOnly /\ InOrder)'
<1>1. ASSUME NEW i \in 1 .. Len(fired) PROVE NewIn(log', fired'[i])
  <2>1. NewIn(log, fired[i])
    BY DEF IInv, NewOnly
  <2> QED BY <2>1
<1>2. ASSUME pc' \in {"read", "writeTruth", "act"} PROVE NewIn(log', Len(log'))
  <2>1. NewIn(log, Len(log))
    BY <1>2 DEF IInv, NewOnly
  <2> QED BY <2>1
<1>3. InOrder'
  BY DEF IInv, InOrder
<1> QED BY <1>1, <1>2, <1>3 DEF NewOnly

LEMMA StartIInv == ASSUME IInv, Start PROVE IInv'
<1> USE DEF Start
<1>1. TypeOK'
  BY DEF IInv, TypeOK
<1>2. (MemoryIsStored /\ InHand)'
  BY DEF IInv, MemoryIsStored, InHand
<1>3. (LogSorted /\ StateIsSuffix)'
  BY QuietState DEF IInv, TypeOK
<1>4. (NewOnly /\ InOrder)'
  BY QuietFired
<1>5. MissingBounded'
  BY DEF IInv, MissingBounded, Missing, Filtered
<1> QED BY <1>1, <1>2, <1>3, <1>4, <1>5 DEF IInv

LEMMA PollIInv == ASSUME IInv, Poll PROVE IInv'
<1> USE DEF Poll
<1>1. round \in Nat /\ round' = round + 1 /\ round' \in 0 .. MaxRounds
  BY DEF IInv, TypeOK
<1>2. coming' \in Seq(Values)
  BY DEF BoundedSeq, SeqOf
<1>3. TypeOK'
  BY <1>1, <1>2 DEF IInv, TypeOK
<1>4. (MemoryIsStored /\ InHand)'
  BY <1>1 DEF IInv, MemoryIsStored, InHand
<1>5. (LogSorted /\ StateIsSuffix)'
  BY <1>1, QuietState
<1>6. (NewOnly /\ InOrder)'
  BY QuietFired
<1>7. MissingBounded'
  BY DEF IInv, MissingBounded, Missing, Filtered
<1> QED BY <1>3, <1>4, <1>5, <1>6, <1>7 DEF IInv

LEMMA ReceiveIInv == ASSUME IInv, Receive PROVE IInv'
<1> USE DEF Receive
<1>1. /\ Head(coming) \in Values /\ coming' \in Seq(Values)
      /\ round \in 1 .. MaxRounds
  BY DEF IInv, TypeOK, InHand
<1>2. tuple' \in Tuples /\ tuple'.ts = round
  BY <1>1 DEF Tuples
<1>3. isNew' \in BOOLEAN
  BY Zenon DEF isNewTuple
<1>4. TypeOK'
  BY <1>1, <1>2, <1>3 DEF IInv, TypeOK
<1>5. (MemoryIsStored /\ InHand)'
  BY <1>1, <1>2 DEF IInv, MemoryIsStored, InHand
<1>6. (LogSorted /\ StateIsSuffix)'
  BY <1>1, QuietState
<1>7. (NewOnly /\ InOrder)'
  BY QuietFired
<1>8. MissingBounded'
  BY DEF IInv, MissingBounded, Missing, Filtered
<1> QED BY <1>4, <1>5, <1>6, <1>7, <1>8 DEF IInv

LEMMA ReadTruthIInv == ASSUME IInv, ReadTruth PROVE IInv'
<1>1. /\ pc = "read" /\ was' = truth
      /\ UNCHANGED <<disk, truth, mem, tuple, isNew, round, coming, log, due, ideal, fired, faults>>
  BY DEF ReadTruth
<1>2. pc' = IF Test(tuple.val) # truth THEN "writeTruth" ELSE "poll"
  BY DEF ReadTruth, Test
<1>3. truth # "none" /\ Filtered /\ Filtered' /\ round \in Nat
  BY <1>1 DEF IInv, TypeOK, MissingBounded, Filtered
<1>4. TypeOK'
  BY <1>1, <1>2, <1>3 DEF IInv, TypeOK
<1>5. (MemoryIsStored /\ InHand)'
  BY <1>1, <1>2 DEF IInv, MemoryIsStored, InHand
<1>6. (LogSorted /\ StateIsSuffix)'
  BY <1>1, <1>3, QuietState
<1>7. (NewOnly /\ InOrder)'
  BY <1>1, <1>2, QuietFired
<1>8. MissingBounded'
  <2>1. CASE Test(tuple.val) # truth
    BY <1>1, <1>2, <1>3, <2>1 DEF IInv, MissingBounded, Missing
  <2>2. CASE Test(tuple.val) = truth
    BY <1>1, <1>2, <1>3, <2>2 DEF IInv, MissingBounded, Missing, Test
  <2> QED BY <2>1, <2>2
<1> QED BY <1>4, <1>5, <1>6, <1>7, <1>8 DEF IInv

LEMMA TruthStoredIInv == ASSUME IInv, TruthStored PROVE IInv'
<1>1. /\ pc = "writeTruth" /\ truth' = Test(tuple.val) /\ was = truth
      /\ pc' = IF tuple.val \in Passing /\ was # "true" THEN "act" ELSE "poll"
      /\ UNCHANGED <<disk, mem, tuple, isNew, was, round, coming, log, due, ideal, fired, faults>>
  BY DEF TruthStored, IInv, MissingBounded
<1>2. truth' \in {"true", "false"} /\ round \in Nat /\ Filtered'
  BY <1>1 DEF Test, IInv, TypeOK, Filtered
<1>3. TypeOK'
  BY <1>1, <1>2 DEF IInv, TypeOK
<1>4. (MemoryIsStored /\ InHand)'
  BY <1>1 DEF IInv, MemoryIsStored, InHand
<1>5. (LogSorted /\ StateIsSuffix)'
  BY <1>1, <1>2, QuietState
<1>6. (NewOnly /\ InOrder)'
  BY <1>1, QuietFired
<1>7. MissingBounded'
  <2>1. CASE pc' = "act"
    BY <1>1, <2>1 DEF IInv, MissingBounded, Missing, Test
  <2>2. CASE pc' = "poll"
    BY <1>1, <2>2 DEF IInv, MissingBounded, Missing, Test
  <2> QED BY <1>1, <2>1, <2>2
<1> QED BY <1>3, <1>4, <1>5, <1>6, <1>7 DEF IInv

LEMMA ActIInv == ASSUME IInv, Act PROVE IInv'
<1>1. /\ pc = "act" /\ pc' = "poll" /\ fired' = Append(fired, Len(log))
      /\ UNCHANGED <<disk, truth, mem, tuple, isNew, was, round, coming, log, due, ideal, faults>>
  BY DEF Act
<1>2. Len(log) \in 1 .. Len(log) /\ DOMAIN log = 1 .. Len(log) /\ fired \in Seq(1 .. Len(log))
  BY <1>1 DEF IInv, TypeOK, InHand
<1>3. /\ fired' \in Seq(DOMAIN log) /\ Len(fired') = Len(fired) + 1 /\ Len(fired) \in Nat
      /\ fired'[Len(fired')] = Len(log)
      /\ \A i \in 1 .. Len(fired) : fired'[i] = fired[i]
  BY <1>1, <1>2
<1>4. TypeOK'
  BY <1>1, <1>3 DEF IInv, TypeOK
<1>5. (MemoryIsStored /\ InHand)'
  BY <1>1 DEF IInv, MemoryIsStored, InHand
<1>6. (LogSorted /\ StateIsSuffix)'
  BY <1>1, QuietState DEF IInv, TypeOK
<1>7. NewOnly'
  <2>1. ASSUME NEW i \in 1 .. Len(fired') PROVE NewIn(log', fired'[i])
    <3>1. CASE i = Len(fired')
      <4>1. NewIn(log, Len(log))
        BY <1>1 DEF IInv, NewOnly
      <4>2. fired'[i] = Len(log)
        BY <1>3, <3>1
      <4> QED BY <1>1, <4>1, <4>2
    <3>2. CASE i # Len(fired')
      <4>1. i \in 1 .. Len(fired)
        BY <1>3, <3>2
      <4>2. NewIn(log, fired[i])
        BY <4>1 DEF IInv, NewOnly
      <4>3. fired'[i] = fired[i]
        BY <1>3, <4>1
      <4> QED BY <1>1, <4>2, <4>3
    <3> QED BY <3>1, <3>2
  <2> QED BY <1>1, <2>1 DEF NewOnly
<1>8. InOrder'
  <2>1. ASSUME NEW i \in 1 .. Len(fired'), NEW j \in 1 .. Len(fired'), i < j
        PROVE  fired'[i] < fired'[j]
    <3>1. i \in 1 .. Len(fired)
      BY <1>3, <2>1
    <3>2. fired[i] < Len(log) /\ \A m \in 1 .. Len(fired) : i < m => fired[i] < fired[m]
      BY <1>1, <3>1 DEF IInv, InOrder
    <3>3. CASE j = Len(fired')
      BY <1>3, <3>1, <3>2, <3>3
    <3>4. CASE j # Len(fired')
      <4>1. j \in 1 .. Len(fired)
        BY <1>3, <3>4
      <4>2. fired'[i] = fired[i] /\ fired'[j] = fired[j]
        BY <1>3, <3>1, <4>1
      <4> QED BY <2>1, <3>2, <4>1, <4>2
    <3> QED BY <3>3, <3>4
  <2> QED BY <1>1, <2>1 DEF InOrder
<1>9. MissingBounded'
  BY <1>1, <1>3 DEF IInv, TypeOK, MissingBounded, Missing, Filtered
<1> QED BY <1>4, <1>5, <1>6, <1>7, <1>8, <1>9 DEF IInv

LEMMA ActFailsIInv == ASSUME IInv, ActFails PROVE IInv'
<1>1. /\ pc = "act" /\ pc' = "poll" /\ faults' = faults + 1 /\ faults' \in 0 .. MaxFaults
      /\ UNCHANGED <<disk, truth, mem, tuple, isNew, was, round, coming, log, due, ideal, fired>>
  BY DEF ActFails, IInv, TypeOK
<1>2. TypeOK'
  BY <1>1 DEF IInv, TypeOK
<1>3. (MemoryIsStored /\ InHand)'
  BY <1>1 DEF IInv, MemoryIsStored, InHand
<1>4. (LogSorted /\ StateIsSuffix)'
  BY <1>1, QuietState DEF IInv, TypeOK
<1>5. (NewOnly /\ InOrder)'
  BY <1>1, QuietFired
<1>6. MissingBounded'
  BY <1>1 DEF IInv, TypeOK, MissingBounded, Missing, Filtered
<1> QED BY <1>2, <1>3, <1>4, <1>5, <1>6 DEF IInv

LEMMA StopIInv == ASSUME IInv, Stop PROVE IInv'
<1>1. /\ pc # "down" /\ pc' = "down" /\ faults' = faults + 1 /\ faults' \in 0 .. MaxFaults
      /\ mem' = <<>> /\ tuple' = NoTuple /\ isNew' = FALSE /\ was' = "null" /\ coming' = <<>>
      /\ UNCHANGED <<disk, truth, round, log, due, ideal, fired>>
  BY DEF Stop, IInv, TypeOK
<1>2. TypeOK'
  <2>1. mem' \in Seq(Tuples) /\ coming' \in Seq(Values) /\ isNew' \in BOOLEAN
    BY <1>1, EmptySeq
  <2> QED BY <1>1, <2>1 DEF IInv, TypeOK
<1>3. (MemoryIsStored /\ InHand)'
  BY <1>1 DEF IInv, MemoryIsStored, InHand
<1>4. (LogSorted /\ StateIsSuffix)'
  BY <1>1, QuietState DEF IInv, TypeOK
<1>5. (NewOnly /\ InOrder)'
  BY <1>1, QuietFired
<1>6. MissingBounded'
  <2>1. Missing \in Int /\ Missing' = Missing /\ faults \in Nat /\ (Filtered' <=> Filtered)
    BY <1>1 DEF IInv, TypeOK, Missing, Filtered
  <2>2. pc \in {"poll", "write", "read", "writeTruth", "act"}
    BY <1>1 DEF IInv, TypeOK
  <2>3. CASE pc \in {"poll", "write"}
    BY <1>1, <2>1, <2>3 DEF IInv, MissingBounded
  <2>4. CASE pc \in {"read", "writeTruth"}
    BY <1>1, <2>1, <2>4 DEF IInv, MissingBounded
  <2>5. CASE pc = "act"
    BY <1>1, <2>1, <2>5 DEF IInv, MissingBounded
  <2> QED BY <2>2, <2>3, <2>4, <2>5
<1> QED BY <1>2, <1>3, <1>4, <1>5, <1>6 DEF IInv

LEMMA NextIInv == IInv /\ [Next]_vars => IInv'
<1> SUFFICES ASSUME IInv, [Next]_vars PROVE IInv'
  OBVIOUS
<1>1. CASE Stored
  BY <1>1, StoredType, StoredState, StoredRest DEF IInv
<1>2. CASE UNCHANGED vars
  <2>1. (TypeOK /\ MemoryIsStored)'
    BY <1>2 DEF vars, IInv, TypeOK, MemoryIsStored
  <2>2. (InHand /\ MissingBounded)'
    BY <1>2 DEF vars, IInv, InHand, MissingBounded, Missing, Filtered
  <2>3. (LogSorted /\ StateIsSuffix)'
    BY <1>2, QuietState DEF vars, IInv, TypeOK
  <2>4. (NewOnly /\ InOrder)'
    BY <1>2, QuietFired DEF vars
  <2> QED BY <2>1, <2>2, <2>3, <2>4 DEF IInv
<1> QED
  BY <1>1, <1>2, StartIInv, PollIInv, ReceiveIInv, ReadTruthIInv, TruthStoredIInv,
     ActIInv, ActFailsIInv, StopIInv DEF Next

LEMMA IInvTrue == Spec => []IInv
BY InitIInv, NextIInv, PTL DEF Spec

-----------------------------------------------------------------------------
(* The properties of the rule.                                             *)

\* Every variable of the rule stays within its type: the state and the log
\* are sequences of stamped tuples (lib/runtime/stream_table_ops.ts:100-124).
THEOREM TypeCorrect == Spec => []TypeOK
BY IInvTrue, PTL DEF IInv

\* What the rule has in memory is what the store holds, between any two awaits
\* (lib/compiler/ops-to-jsir.ts:908-929).
THEOREM MemoryStored == Spec => []MemoryIsStored
BY IInvTrue, PTL DEF IInv

\* The tuples that addTuple cuts off are never missed by isNewTuple, whatever
\* the length of the history (lib/runtime/stream_table_ops.ts:57-124).
THEOREM TrimSafe == Spec => []TrimIsSafe
<1>1. IInv => TrimIsSafe
  BY SaysTheSame DEF TrimIsSafe
<1> QED BY <1>1, IInvTrue, PTL

\* The state holds the tuples of at most two rounds, however long the rule
\* lives (lib/runtime/stream_table_ops.ts:100-124).
THEOREM StateIsBounded == Spec => []StateBounded
<1>1. ASSUME IInv PROVE StateBounded
  <2> DEFINE S == {disk[i].ts : i \in DOMAIN disk}
  <2>1. S \subseteq {LastTime(disk), PrevTime(disk)}
    BY <1>1 DEF IInv, TypeOK, StateIsSuffix
  <2>2. /\ IsFiniteSet({LastTime(disk), PrevTime(disk)})
        /\ Cardinality({LastTime(disk), PrevTime(disk)}) <= 2
        /\ Cardinality({LastTime(disk), PrevTime(disk)}) \in Nat
    <3>1. /\ IsFiniteSet({PrevTime(disk)}) /\ Cardinality({PrevTime(disk)}) = 1
          /\ {LastTime(disk), PrevTime(disk)} = {PrevTime(disk)} \cup {LastTime(disk)}
      BY FS_Singleton
    <3> QED BY <3>1, FS_AddElement
  <2> HIDE DEF S
  <2>3. IsFiniteSet(S) /\ Cardinality(S) <= Cardinality({LastTime(disk), PrevTime(disk)})
    BY <2>1, <2>2, FS_Subset
  <2>4. Cardinality(S) \in Nat
    BY <2>3, FS_CardinalityType
  <2> QED BY <2>2, <2>3, <2>4 DEF S, StateBounded
<1> QED BY <1>1, IInvTrue, PTL

\* A tuple fires at most once, in the order of the source, across failures and
\* restarts (lib/compiler/ops-to-jsir.ts:908-965).
THEOREM FiringsOrdered == Spec => []FiresOnce
<1>1. ASSUME IInv PROVE FiresOnce
  <2>1. DOMAIN fired = 1 .. Len(fired)
    BY <1>1 DEF IInv, TypeOK
  <2> QED BY <1>1, <2>1 DEF IInv, InOrder, FiresOnce
<1> QED BY <1>1, IInvTrue, PTL

\* A value that stays in the results from round to round fires once
\* (lib/runtime/stream_table_ops.ts:57-92).
THEOREM NoRefiring == Spec => []NoRefire
<1>1. ASSUME IInv, NEW i \in DOMAIN fired, NEW j \in DOMAIN fired, i < j,
             log[fired[i]].val = log[fired[j]].val, log[fired[i]].ts < log[fired[j]].ts
      PROVE  \E t \in log[fired[i]].ts + 1 .. log[fired[j]].ts - 1 :
               /\ \E k \in DOMAIN log : log[k].ts = t
               /\ \A k \in DOMAIN log : log[k].ts = t => log[k].val # log[fired[i]].val
  <2>1. /\ i \in 1 .. Len(fired) /\ j \in 1 .. Len(fired) /\ DOMAIN log = 1 .. Len(log)
        /\ fired[i] \in 1 .. Len(log) /\ fired[j] \in 1 .. Len(log)
    <3>1. log \in Seq(Tuples) /\ fired \in Seq(DOMAIN log)
      BY <1>1 DEF IInv, TypeOK
    <3> QED BY <1>1, <3>1
  <2>2. log[fired[i]].ts \in Nat /\ log[fired[j]].ts \in Nat
    BY <1>1, <2>1, TuplesTyped DEF IInv, TypeOK
  <2>3. NewIn(log, fired[j])
    BY <1>1, <2>1 DEF IInv, NewOnly
  <2>4. PICK t \in Nat :
          /\ t < log[fired[j]].ts
          /\ \E k \in 1 .. Len(log) : log[k].ts = t
          /\ \A k \in 1 .. Len(log) : log[k].ts < log[fired[j]].ts => log[k].ts <= t
          /\ \A k \in 1 .. Len(log) : log[k].ts = t => log[k].val # log[fired[j]].val
    BY <2>3 DEF NewIn
  <2>5. log[fired[i]].ts <= t /\ log[fired[i]].ts # t
    BY <1>1, <2>1, <2>4
  <2>6. t \in log[fired[i]].ts + 1 .. log[fired[j]].ts - 1
    BY <2>2, <2>4, <2>5
  <2> QED BY <1>1, <2>1, <2>4, <2>6
<1>2. IInv => NoRefire
  BY <1>1 DEF NoRefire
<1> QED BY <1>2, IInvTrue, PTL

\* A crash or a failure costs at most one run of the action, and without one
\* the rule runs exactly when its filter becomes true of a new tuple
\* (lib/compiler/ops-to-jsir.ts:908-965).
THEOREM LossIsBounded == Spec => []LossBounded
<1>1. ASSUME IInv PROVE LossBounded
  <2>1. due \in Int /\ faults \in Int /\ Len(fired) \in Int
    BY <1>1 DEF IInv, TypeOK
  <2> QED BY <1>1, <2>1 DEF IInv, MissingBounded, Missing, LossBounded
<1> QED BY <1>1, IInvTrue, PTL

-----------------------------------------------------------------------------
(* Refinement.                                                             *)

Out == [i \in DOMAIN fired |-> log[fired[i]].val]

\* What the log says of the tuples that have fired does not change with it.
LEMMA OutSame ==
  ASSUME IInv, UNCHANGED fired,
         \A i \in 1 .. Len(log) : log'[i] = log[i]
  PROVE  Out' = Out
<1>1. /\ DOMAIN fired = 1 .. Len(fired) /\ fired' = fired
      /\ \A i \in 1 .. Len(fired) : fired[i] \in 1 .. Len(log)
  BY DEF IInv, TypeOK
<1>2. \A i \in DOMAIN fired : log'[fired[i]].val = log[fired[i]].val
  BY <1>1
<1> QED BY <1>1, <1>2 DEF Out

\* A round of the longer log has the tuple in hand if it is its round.
LEMMA RoundGrows ==
  ASSUME IInv, Stored, NEW t
  PROVE  RoundOf(t)' = IF t = tuple.ts THEN RoundOf(t) \cup {tuple.val} ELSE RoundOf(t)
<1>1. /\ Len(log) \in Nat /\ Len(log') = Len(log) + 1
      /\ \A i \in 1 .. Len(log) : log'[i] = log[i]
      /\ log'[Len(log')] = tuple
      /\ DOMAIN log = 1 .. Len(log) /\ DOMAIN log' = 1 .. Len(log')
  BY LogGrows DEF IInv, TypeOK
<1>2. ASSUME NEW v \in RoundOf(t)'
      PROVE  v \in RoundOf(t) \/ (t = tuple.ts /\ v = tuple.val)
  <2>1. PICK i \in 1 .. Len(log') : log'[i].ts = t /\ v = log'[i].val
    BY <1>1, <1>2 DEF RoundOf
  <2>2. CASE i = Len(log')
    BY <1>1, <2>1, <2>2
  <2>3. CASE i # Len(log')
    BY <1>1, <2>1, <2>3 DEF RoundOf
  <2> QED BY <2>2, <2>3
<1>3. RoundOf(t) \subseteq RoundOf(t)'
  BY <1>1 DEF RoundOf
<1>4. t = tuple.ts => tuple.val \in RoundOf(t)'
  BY <1>1 DEF RoundOf
<1> QED BY <1>2, <1>3, <1>4

\* A tuple that is stored arrives, in the round of the last one or in the next.
LEMMA StoredArrives ==
  ASSUME IInv, Stored
  PROVE  R!Arrive(tuple.val, tuple.ts # LastTime(log) /\ log # <<>>)
<1> DEFINE next == tuple.ts # LastTime(log) /\ log # <<>>
           v    == tuple.val
           last == LastTime(log)
           p    == PrevTime(log)
           pn   == PrevTime(log')
<1>1. /\ tuple.ts \in Nat /\ tuple \in Tuples /\ log \in Seq(Tuples) /\ Sorted(log)
      /\ log' = Append(log, tuple) /\ \A i \in 1 .. Len(log) : log[i].ts <= tuple.ts
  BY LogGrows, TuplesTyped DEF IInv, TypeOK, LogSorted
<1>2. LastTime(log') = tuple.ts
  BY <1>1, TuplesTyped, AppendSorted
<1>3. pn = IF tuple.ts = last THEN p ELSE last
  BY <1>1, TuplesTyped, PrevTimeAppend
<1>4. pn # tuple.ts
  <2>1. CASE log = <<>>
    BY <1>1, <1>3, <2>1 DEF LastTime, NoTime
  <2>2. CASE log # <<>>
    <3>1. last \in Nat /\ (p # NoTime => p < last /\ p \in Nat)
      BY <1>1, <2>2, TuplesTyped, Rounds
    <3> QED BY <1>1, <1>3, <3>1 DEF NoTime
  <2> QED BY <2>1, <2>2
<1>5. isNew <=> pn # NoTime /\ v \notin RoundOf(pn)
  <2>1. isNew = isNewTuple(log, tuple)
    BY SaysTheSame DEF IInv, InHand, MemoryIsStored, Stored
  <2>2. isNewTuple(log, tuple) <=> pn # NoTime /\ \A i \in DOMAIN log : log[i].ts = pn => log[i].val # v
    <3>1. PICK q : q = IF tuple.ts = last THEN p ELSE last
      OBVIOUS
    <3>2. isNewTuple(log, tuple) <=> q # NoTime /\ \A i \in DOMAIN log : log[i].ts = q => log[i].val # v
      BY <3>1 DEF isNewTuple
    <3> QED BY <1>3, <3>1, <3>2
  <2>3. v \notin RoundOf(pn) <=> \A i \in DOMAIN log : log[i].ts = pn => log[i].val # v
    BY DEF RoundOf
  <2> QED BY <2>1, <2>2, <2>3
<1>6. log = <<>> => \A t : RoundOf(t) = {}
  BY DEF RoundOf
<1>7. log # <<>> => RoundOf(last) # {}
  <2>1. log # <<>> => Len(log) \in DOMAIN log /\ log[Len(log)].ts = last
    BY <1>1 DEF LastTime, Last
  <2> QED BY <2>1 DEF RoundOf
<1>8. log = <<>> => last = NoTime /\ pn = NoTime
  BY <1>1, <1>3 DEF LastTime, NoTime
<1>9. RoundOf(PrevTime(log))' = IF next THEN RoundOf(last) ELSE RoundOf(p)
  <2>1. RoundOf(PrevTime(log))' = RoundOf(pn)
    <3>1. PICK t : t = pn
      OBVIOUS
    <3>2. RoundOf(t)' = RoundOf(t)
      BY <1>4, <3>1, RoundGrows
    <3> QED BY <3>1, <3>2 DEF RoundOf
  <2>2. CASE log = <<>>
    BY <1>6, <2>1, <2>2
  <2>3. CASE log # <<>>
    BY <1>3, <2>1, <2>3
  <2> QED BY <2>2, <2>3
<1>10. RoundOf(LastTime(log))' = IF next THEN {v} ELSE RoundOf(last) \cup {v}
  <2>1. RoundOf(LastTime(log))' = RoundOf(tuple.ts) \cup {v}
    <3>1. PICK t : t = tuple.ts
      OBVIOUS
    <3>2. RoundOf(t)' = RoundOf(t) \cup {v}
      BY <3>1, RoundGrows
    <3> QED BY <1>2, <3>1, <3>2 DEF RoundOf
  <2>2. CASE log = <<>>
    BY <1>6, <2>1, <2>2
  <2>3. CASE log # <<>> /\ tuple.ts = last
    BY <2>1, <2>3
  <2>4. CASE log # <<>> /\ tuple.ts # last
    <3>1. \A i \in 1 .. Len(log) : log[i].ts <= last /\ log[i].ts \in Nat /\ last \in Nat
      BY <1>1, <2>4, TuplesTyped, Rounds DEF Sorted
    <3>2. last <= tuple.ts
      BY <1>1, <2>4, TuplesTyped, Rounds
    <3>3. RoundOf(tuple.ts) = {}
      BY <1>1, <2>4, <3>1, <3>2 DEF RoundOf
    <3> QED BY <2>1, <2>4, <3>3
  <2> QED BY <2>2, <2>3, <2>4
<1>11. (pn = NoTime) = (RoundOf(last) = {} \/ (p = NoTime /\ ~next))
  <2>1. CASE log = <<>>
    BY <1>6, <1>8, <2>1
  <2>2. CASE log # <<>> /\ tuple.ts = last
    BY <1>3, <1>7, <2>2
  <2>3. CASE log # <<>> /\ tuple.ts # last
    <3>1. last # NoTime
      BY <1>1, <2>3, TuplesTyped, Rounds DEF NoTime
    <3> QED BY <1>3, <1>7, <2>3, <3>1
  <2> QED BY <2>1, <2>2, <2>3
<1>12. OnItsWay = <<>> /\ OnItsWay' = IF isNew THEN <<v>> ELSE <<>>
  BY DEF Stored, OnItsWay
<1>13. Out' = Out
  BY OutSame, LogGrows DEF Stored
<1>14. OnItsWay' = IF pn = NoTime \/ v \in RoundOf(PrevTime(log))' THEN <<>> ELSE <<v>>
  <2>1. RoundOf(PrevTime(log))' = RoundOf(pn)
    BY <1>3, <1>6, <1>9
  <2> QED BY <1>5, <1>12, <2>1
<1>15. PICK n \in BOOLEAN : n = next
  OBVIOUS
<1> HIDE DEF next
<1>16. R!Arrive(v, n)
  BY <1>9, <1>10, <1>11, <1>12, <1>13, <1>14, <1>15 DEF R!Arrive, Out
<1> QED BY <1>15, <1>16 DEF next

\* A step that leaves the log alone leaves the rounds alone,
LEMMA RoundsSame ==
  ASSUME IInv, UNCHANGED log
  PROVE  /\ RoundOf(PrevTime(log))' = RoundOf(PrevTime(log))
         /\ RoundOf(LastTime(log))' = RoundOf(LastTime(log))
         /\ (PrevTime(log) = NoTime)' = (PrevTime(log) = NoTime)
BY DEF RoundOf

\* and is a stutter of the promise, or loses the value on its way.
LEMMA QuietStep ==
  ASSUME IInv, UNCHANGED <<log, fired>>, OnItsWay' \in {OnItsWay, <<>>}
  PROVE  R!Lose \/ UNCHANGED R!deltaVars
<1>1. Out' = Out
  BY OutSame
<1>2. CASE OnItsWay' = OnItsWay
  BY <1>1, <1>2, RoundsSame DEF R!deltaVars, Out
<1>3. CASE OnItsWay' # OnItsWay
  BY <1>1, <1>3, RoundsSame DEF R!Lose, Out
<1> QED BY <1>2, <1>3

LEMMA ActDelivers == ASSUME IInv, Act PROVE R!Deliver
<1>1. /\ pc = "act" /\ pc' = "poll" /\ fired' = Append(fired, Len(log)) /\ log' = log
  BY DEF Act
<1>2. /\ log \in Seq(Tuples) /\ log # <<>> /\ log[Len(log)] = tuple /\ tuple.val \in Values
      /\ fired \in Seq(1 .. Len(log)) /\ Len(log) \in 1 .. Len(log)
      /\ \A i \in 1 .. Len(log) : log[i].val \in Values
  <2>1. /\ log \in Seq(Tuples) /\ log # <<>> /\ log[Len(log)] = tuple /\ tuple \in Tuples
        /\ fired \in Seq(DOMAIN log)
    BY <1>1 DEF IInv, TypeOK, InHand
  <2>2. \A e \in Tuples : e.val \in Values
    BY DEF Tuples
  <2>3. DOMAIN log = 1 .. Len(log) /\ \A i \in 1 .. Len(log) : log[i] \in Tuples
    BY <2>1
  <2>4. Len(log) \in 1 .. Len(log)
    BY <2>1
  <2> QED BY <2>1, <2>2, <2>3, <2>4
<1>3. OnItsWay = <<tuple.val>> /\ OnItsWay' = <<>>
  BY <1>1 DEF OnItsWay
<1>4. /\ DOMAIN fired = 1 .. Len(fired) /\ Len(fired) \in Nat
      /\ DOMAIN fired' = 1 .. Len(fired) + 1 /\ Len(fired') = Len(fired) + 1
      /\ fired'[Len(fired) + 1] = Len(log)
      /\ \A i \in 1 .. Len(fired) : fired'[i] = fired[i] /\ fired[i] \in 1 .. Len(log)
  BY <1>1, <1>2
<1>5. Out \in Seq(Values) /\ Len(Out) = Len(fired)
  BY <1>2, <1>4 DEF Out
<1>6. Out' \in Seq(Values) /\ Len(Out') = Len(fired) + 1
  <2>1. \A i \in 1 .. Len(fired) + 1 : fired'[i] \in 1 .. Len(log)
    BY <1>2, <1>4
  <2> QED BY <1>1, <1>2, <1>4, <2>1 DEF Out
<1>7. /\ Out \o <<tuple.val>> \in Seq(Values)
      /\ Len(Out \o <<tuple.val>>) = Len(fired) + 1
      /\ \A i \in 1 .. Len(fired) : (Out \o <<tuple.val>>)[i] = Out[i]
      /\ (Out \o <<tuple.val>>)[Len(fired) + 1] = tuple.val
  <2> HIDE DEF Out
  <2>1. Out \o <<tuple.val>> = Append(Out, tuple.val)
    BY <1>2, <1>5, AppendIsConcat
  <2>2. PICK o : o = Out
    OBVIOUS
  <2>3. /\ Append(o, tuple.val) \in Seq(Values) /\ Len(Append(o, tuple.val)) = Len(o) + 1
        /\ \A i \in 1 .. Len(o) : Append(o, tuple.val)[i] = o[i]
        /\ Append(o, tuple.val)[Len(o) + 1] = tuple.val
    BY <1>2, <1>5, <2>2, AppendProperties
  <2> QED BY <1>5, <2>1, <2>2, <2>3
<1>8. ASSUME NEW i \in 1 .. Len(fired) + 1 PROVE Out'[i] = (Out \o <<tuple.val>>)[i]
  <2>1. CASE i = Len(fired) + 1
    BY <1>1, <1>2, <1>4, <1>7, <2>1 DEF Out
  <2>2. CASE i # Len(fired) + 1
    <3>1. i \in 1 .. Len(fired)
      BY <1>4, <2>2
    <3>2. Out[i] = log[fired[i]].val /\ Out'[i] = log[fired[i]].val
      BY <1>1, <1>4, <3>1 DEF Out
    <3> QED BY <1>7, <3>1, <3>2
  <2> QED BY <2>1, <2>2
<1>9. Out' = Out \o OnItsWay
  <2>1. Out' = Out \o <<tuple.val>>
    BY <1>6, <1>7, <1>8, SeqEqual
  <2> QED BY <1>3, <2>1
<1>10. OnItsWay # <<>>
  BY <1>3
<1> QED BY <1>1, <1>3, <1>9, <1>10, RoundsSame DEF R!Deliver, Out

LEMMA StepSimulation == IInv /\ [Next]_vars => [R!DeltaNext]_(R!deltaVars)
<1> SUFFICES ASSUME IInv, [Next]_vars PROVE [R!DeltaNext]_(R!deltaVars)
  OBVIOUS
<1>1. CASE Stored
  <2>1. tuple.val \in Values
    BY <1>1, LogGrows DEF Tuples
  <2>2. (tuple.ts # LastTime(log) /\ log # <<>>) \in BOOLEAN
    OBVIOUS
  <2> QED BY <1>1, <2>1, <2>2, StoredArrives DEF R!DeltaNext
<1>2. CASE Act
  BY <1>2, ActDelivers DEF R!DeltaNext
<1>3. CASE Start \/ Poll \/ Receive \/ UNCHANGED vars
  <2>1. OnItsWay' = OnItsWay /\ UNCHANGED <<log, fired>>
    BY <1>3 DEF Start, Poll, Receive, vars, OnItsWay
  <2> QED BY <2>1, QuietStep DEF R!DeltaNext
<1>4. CASE ReadTruth \/ TruthStored \/ ActFails \/ Stop
  <2>1. OnItsWay' \in {OnItsWay, <<>>} /\ UNCHANGED <<log, fired>>
    BY <1>4 DEF ReadTruth, TruthStored, ActFails, Stop, OnItsWay
  <2> QED BY <2>1, QuietStep DEF R!DeltaNext
<1> QED BY <1>1, <1>2, <1>3, <1>4 DEF Next

\* A rule delivers to its action values of the difference between each round
\* of polling and the one before, in their order, and nothing else
\* (lib/runtime/stream_table_ops.ts:57-124, lib/compiler/ops-to-jsir.ts:908-965).
THEOREM DeltaRefinement == Spec => ImplementsDelta
<1>1. Init => R!DeltaInit
  <2> SUFFICES ASSUME Init PROVE R!DeltaInit
    OBVIOUS
  <2>1. log = <<>> /\ fired = <<>> /\ pc = "down"
    BY DEF Init
  <2>2. \A t : RoundOf(t) = {}
    BY <2>1 DEF RoundOf
  <2>3. PrevTime(log) = NoTime
    <3>1. Older(log) = 0
      <4>1. log \in Seq(Tuples) /\ Len(log) = 0
        BY <2>1
      <4>2. LastBefore(log, LastTime(log)) \in 0 .. Len(log)
        BY <4>1, LastBeforeProp
      <4>3. Older(log) = LastBefore(log, LastTime(log))
        BY DEF Older, LastBefore
      <4> QED BY <4>1, <4>2, <4>3
    <3> QED BY <3>1 DEF PrevTime
  <2>4. OnItsWay = <<>> /\ [i \in DOMAIN fired |-> log[fired[i]].val] = <<>>
    BY <2>1 DEF OnItsWay
  <2> QED BY <2>2, <2>3, <2>4 DEF R!DeltaInit
<1> QED
  BY <1>1, IInvTrue, StepSimulation, PTL DEF Spec, ImplementsDelta, R!DeltaSpec
=============================================================================
