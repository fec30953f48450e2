-------------------------- MODULE EdgeStateProofs --------------------------
(***************************************************************************)
(* What isNewTuple and addTuple do to a state whose timestamps never       *)
(* decrease, for states of any length.                                     *)
(***************************************************************************)
EXTENDS EdgeState, FiniteSets, SequenceTheorems, FiniteSetTheorems,
        WellFoundedInduction, TLAPS

\* A non-empty set of positions has a least and a greatest element: the loops
\* over the state, which look for one, find it.
LEMMA LeastExists ==
  ASSUME NEW S \in SUBSET Nat, S # {}
  PROVE  \E x \in S : \A y \in S : x <= y
<1> DEFINE R == {ss \in Nat \X Nat : ss[1] < ss[2]}
<1>1. IsWellFoundedOn(R, Nat)
  BY NatLessThanWellFounded, Zenon DEF OpToRel
<1> HIDE DEF R
<1>2. PICK x \in S : \A y \in S : ~(<<y, x>> \in R)
  BY <1>1, WFMin
<1>3. \A y \in Nat : y < x => <<y, x>> \in R
  BY DEF R
<1>4. \A y \in S : ~(y < x)
  BY <1>2, <1>3
<1>5. \A y \in S : x <= y
  BY <1>4
<1> QED BY <1>5

LEMMA MaxExists ==
  ASSUME NEW n \in Nat, NEW S \in SUBSET (1 .. n), S # {}
  PROVE  Max(S) \in S /\ \A y \in S : Max(S) >= y
<1> DEFINE T == {n - i : i \in S}
<1>1. T \in SUBSET Nat /\ T # {}
  <2>1. \A i \in S : n - i \in Nat
    OBVIOUS
  <2> QED BY <2>1
<1> HIDE DEF T
<1>2. PICK x \in T : \A y \in T : x <= y
  BY <1>1, LeastExists
<1>3. PICK i \in S : x = n - i
  BY DEF T
<1>4. \A j \in S : n - j \in T
  BY DEF T
<1>5. \A j \in S : i >= j
  BY <1>2, <1>3, <1>4
<1> QED BY <1>5 DEF Max

\* The position that SelectLastInSeq finds, for the test that the loops make.
LastBefore(s, t) == SelectLastInSeq(s, LAMBDA e : Before(e.ts, t))

LEMMA LastBeforeProp ==
  ASSUME NEW T, NEW s \in Seq(T), NEW t
  PROVE  /\ LastBefore(s, t) \in 0 .. Len(s)
         /\ LastBefore(s, t) # 0 => Before(s[LastBefore(s, t)].ts, t)
         /\ \A i \in 1 .. Len(s) : i > LastBefore(s, t) => ~Before(s[i].ts, t)
<1> DEFINE I == {i \in 1 .. Len(s) : Before(s[i].ts, t)}
<1>1. LastBefore(s, t) = IF I # {} THEN Max(I) ELSE 0
  BY DEF LastBefore, SelectLastInSeq
<1>2. I \in SUBSET (1 .. Len(s)) /\ Len(s) \in Nat
  OBVIOUS
<1>3. CASE I = {}
  BY <1>1, <1>2, <1>3
<1>4. CASE I # {}
  <2>1. Max(I) \in I /\ \A y \in I : Max(I) >= y
    BY <1>2, <1>4, MaxExists
  <2>2. LastBefore(s, t) = Max(I)
    BY <1>1, <1>4
  <2>3. \A i \in 1 .. Len(s) : i > Max(I) => i \notin I
    BY <2>1
  <2> HIDE DEF I
  <2>4. Max(I) \in 1 .. Len(s) /\ Before(s[Max(I)].ts, t)
    BY <2>1 DEF I
  <2>5. \A i \in 1 .. Len(s) : i > Max(I) => ~Before(s[i].ts, t)
    BY <2>3 DEF I
  <2> QED BY <2>2, <2>4, <2>5
<1> QED BY <1>3, <1>4

-----------------------------------------------------------------------------
Sorted(s) == \A i, j \in 1 .. Len(s) : i <= j => s[i].ts <= s[j].ts

\* The rounds of a sorted state: the last timestamp is that of its last tuple,
\* and the one before is the greatest of those that are smaller, if any.
LEMMA Rounds ==
  ASSUME NEW T, \A e \in T : e.ts \in Nat, NEW s \in Seq(T), Sorted(s), s # <<>>
  PROVE  /\ LastTime(s) = s[Len(s)].ts /\ Len(s) \in Nat \ {0} /\ LastTime(s) \in Nat
         /\ PrevTime(s) # NoTime =>
              /\ PrevTime(s) < LastTime(s) /\ PrevTime(s) \in Nat
              /\ \E i \in 1 .. Len(s) : s[i].ts = PrevTime(s)
         /\ \A i \in 1 .. Len(s) : s[i].ts # LastTime(s) =>
              PrevTime(s) # NoTime /\ s[i].ts <= PrevTime(s)
<1>1. Len(s) \in Nat \ {0} /\ \A i \in 1 .. Len(s) : s[i] \in T /\ s[i].ts \in Nat
  OBVIOUS
<1>2. LastTime(s) = s[Len(s)].ts
  BY DEF LastTime, Last
<1> DEFINE o == Older(s)
<1>3. Older(s) = LastBefore(s, LastTime(s))
  BY DEF Older, LastBefore
<1>4. /\ o \in 0 .. Len(s)
      /\ o # 0 => Before(s[o].ts, LastTime(s))
      /\ \A i \in 1 .. Len(s) : i > o => ~Before(s[i].ts, LastTime(s))
  BY <1>3, LastBeforeProp
<1>5. PrevTime(s) = IF o = 0 THEN NoTime ELSE s[o].ts
  BY DEF PrevTime
<1> HIDE DEF o
<1>6. o # 0 => PrevTime(s) = s[o].ts /\ s[o].ts < LastTime(s) /\ o \in 1 .. Len(s) /\ s[o].ts \in Nat
  BY <1>1, <1>4, <1>5 DEF Before
<1>7. o = 0 => PrevTime(s) = NoTime
  BY <1>5
<1>8. ASSUME NEW i \in 1 .. Len(s), s[i].ts # LastTime(s)
      PROVE  o # 0 /\ s[i].ts <= s[o].ts
  <2>1. s[i].ts \in Nat /\ s[Len(s)].ts \in Nat /\ s[i].ts <= s[Len(s)].ts
    BY <1>1 DEF Sorted
  <2>2. Before(s[i].ts, LastTime(s))
    BY <2>1, <1>2, <1>8 DEF Before, NoTime
  <2>3. i <= o
    BY <2>2, <1>4
  <2> QED BY <2>3, <1>4 DEF Sorted
<1>9. s[1].ts \in Nat /\ NoTime \notin Nat
  BY <1>1 DEF NoTime
<1> QED BY <1>1, <1>2, <1>6, <1>7, <1>8, <1>9

\* State d is what is left of s when its first k tuples are cut off, all of
\* them of rounds before the last two.
Suffix(d, s, k) ==
  /\ k \in 0 .. Len(s) /\ Len(d) = Len(s) - k
  /\ \A i \in 1 .. Len(d) : d[i] = s[k + i]
  /\ \A i \in 1 .. k : s[i].ts < PrevTime(s)

\* The last two rounds of both are the same,
LEMMA SuffixRounds ==
  ASSUME NEW T, \A e \in T : e.ts \in Nat, NEW s \in Seq(T), Sorted(s), s # <<>>,
         NEW d \in Seq(T), NEW k, Suffix(d, s, k)
  PROVE  /\ d # <<>> /\ Sorted(d)
         /\ LastTime(d) = LastTime(s) /\ PrevTime(d) = PrevTime(s)
<1>1. Len(s) \in Nat \ {0} /\ Len(d) \in Nat /\ k \in Nat
  BY DEF Suffix
<1>2. /\ \A i \in 1 .. Len(s) : s[i].ts \in Nat
      /\ \A i \in 1 .. Len(d) : d[i].ts \in Nat
  OBVIOUS
<1>3. /\ LastTime(s) = s[Len(s)].ts /\ LastTime(s) \in Nat
      /\ PrevTime(s) # NoTime =>
           /\ PrevTime(s) < LastTime(s) /\ PrevTime(s) \in Nat
           /\ \E i \in 1 .. Len(s) : s[i].ts = PrevTime(s)
      /\ \A i \in 1 .. Len(s) : s[i].ts # LastTime(s) =>
           PrevTime(s) # NoTime /\ s[i].ts <= PrevTime(s)
  BY Rounds
<1>4. k # Len(s)
  <2> SUFFICES ASSUME k = Len(s) PROVE FALSE
    OBVIOUS
  <2>1. s[Len(s)].ts < PrevTime(s)
    BY <1>1 DEF Suffix
  <2> QED BY <2>1, <1>1, <1>2, <1>3 DEF NoTime
<1>5. d # <<>> /\ Sorted(d) /\ d[Len(d)] = s[Len(s)]
  <2>1. Len(d) >= 1
    BY <1>1, <1>4 DEF Suffix
  <2>2. d[Len(d)] = s[Len(s)]
    BY <2>1, <1>1 DEF Suffix
  <2>3. ASSUME NEW i \in 1 .. Len(d), NEW j \in 1 .. Len(d), i <= j
        PROVE  d[i].ts <= d[j].ts
    <3>1. k + i \in 1 .. Len(s) /\ k + j \in 1 .. Len(s) /\ k + i <= k + j
      BY <1>1, <2>3 DEF Suffix
    <3>2. d[i] = s[k + i] /\ d[j] = s[k + j]
      BY DEF Suffix
    <3> QED BY <3>1, <3>2 DEF Sorted
  <2> QED BY <2>1, <2>2, <2>3 DEF Sorted
<1>6. /\ LastTime(d) = d[Len(d)].ts
      /\ PrevTime(d) # NoTime =>
           /\ PrevTime(d) < LastTime(d) /\ PrevTime(d) \in Nat
           /\ \E i \in 1 .. Len(d) : d[i].ts = PrevTime(d)
      /\ \A i \in 1 .. Len(d) : d[i].ts # LastTime(d) =>
           PrevTime(d) # NoTime /\ d[i].ts <= PrevTime(d)
  BY <1>5, Rounds
<1>7. LastTime(d) = LastTime(s)
  BY <1>3, <1>5, <1>6
<1>8. ASSUME PrevTime(s) # NoTime
      PROVE  PrevTime(d) # NoTime /\ PrevTime(s) <= PrevTime(d)
  <2>1. PICK i \in 1 .. Len(s) : s[i].ts = PrevTime(s)
    BY <1>3, <1>8
  <2>2. i > k
    BY <2>1, <1>1, <1>2 DEF Suffix
  <2>3. i - k \in 1 .. Len(d) /\ d[i - k] = s[i]
    BY <2>2, <1>1 DEF Suffix
  <2>4. d[i - k].ts # LastTime(d)
    BY <2>1, <2>3, <1>3, <1>7, <1>8
  <2> QED BY <2>1, <2>3, <2>4, <1>6
<1>9. ASSUME PrevTime(d) # NoTime
      PROVE  PrevTime(s) # NoTime /\ PrevTime(d) <= PrevTime(s)
  <2>1. PICK i \in 1 .. Len(d) : d[i].ts = PrevTime(d)
    BY <1>6, <1>9
  <2>2. k + i \in 1 .. Len(s) /\ s[k + i] = d[i]
    BY <1>1 DEF Suffix
  <2>3. s[k + i].ts # LastTime(s)
    BY <2>1, <2>2, <1>6, <1>7, <1>9
  <2> QED BY <2>1, <2>2, <2>3, <1>3
<1>10. PrevTime(d) = PrevTime(s)
  <2>1. CASE PrevTime(s) = NoTime
    BY <2>1, <1>9
  <2>2. CASE PrevTime(s) # NoTime
    BY <2>2, <1>3, <1>6, <1>8, <1>9
  <2> QED BY <2>1, <2>2
<1> QED BY <1>5, <1>7, <1>10

\* so that the cut makes no difference to isNewTuple.
LEMMA CutIsSafe ==
  ASSUME NEW T, \A e \in T : e.ts \in Nat, NEW s \in Seq(T), Sorted(s),
         NEW d \in Seq(T), NEW k, Suffix(d, s, k), NEW tuple
  PROVE  isNewTuple(d, tuple) = isNewTuple(s, tuple)
<1>1. CASE s = <<>>
  <2>1. d = <<>>
    BY <1>1 DEF Suffix
  <2> QED BY <2>1, <1>1
<1>2. CASE s # <<>>
  <2> DEFINE t == IF tuple.ts = LastTime(s) THEN PrevTime(s) ELSE LastTime(s)
  <2>1. LastTime(d) = LastTime(s) /\ PrevTime(d) = PrevTime(s)
    BY <1>2, SuffixRounds
  <2>2. /\ LastTime(s) \in Nat
        /\ PrevTime(s) # NoTime => PrevTime(s) < LastTime(s) /\ PrevTime(s) \in Nat
    BY <1>2, Rounds
  <2>3. /\ isNewTuple(d, tuple) <=> t # NoTime /\ \A i \in DOMAIN d : d[i].ts = t => d[i].val # tuple.val
        /\ isNewTuple(s, tuple) <=> t # NoTime /\ \A i \in DOMAIN s : s[i].ts = t => s[i].val # tuple.val
    BY <2>1 DEF isNewTuple
  <2>4. t # NoTime => t \in Nat /\ (PrevTime(s) # NoTime => PrevTime(s) <= t)
    BY <2>2
  <2> HIDE DEF t
  <2>5. /\ DOMAIN d = 1 .. Len(d) /\ DOMAIN s = 1 .. Len(s)
        /\ \A i \in 1 .. Len(s) : s[i].ts \in Nat
        /\ Len(s) \in Nat /\ Len(d) \in Nat /\ k \in 0 .. Len(s) /\ Len(d) = Len(s) - k
    BY DEF Suffix
  <2>6. ASSUME t # NoTime, NEW i \in 1 .. Len(s), s[i].ts = t
        PROVE  \E j \in 1 .. Len(d) : d[j] = s[i]
    <3>1. ASSUME i <= k PROVE FALSE
      <4>1. s[i].ts < PrevTime(s) /\ s[i].ts \in Nat
        BY <2>5, <3>1 DEF Suffix
      <4>2. PrevTime(s) # NoTime
        BY <4>1 DEF NoTime
      <4> QED BY <4>1, <4>2, <2>2, <2>4, <2>6
    <3>2. i > k
      BY <3>1, <2>5
    <3>3. i - k \in 1 .. Len(d) /\ d[i - k] = s[i]
      BY <3>2, <2>5 DEF Suffix
    <3> QED BY <3>3
  <2>7. \A j \in 1 .. Len(d) : \E i \in 1 .. Len(s) : s[i] = d[j]
    BY <2>5 DEF Suffix
  <2>8. isNewTuple(d, tuple) <=> isNewTuple(s, tuple)
    <3>1. ASSUME isNewTuple(d, tuple) PROVE isNewTuple(s, tuple)
      <4>1. \A i \in 1 .. Len(s) : s[i].ts = t => s[i].val # tuple.val
        BY <2>3, <2>5, <2>6, <3>1
      <4> QED BY <2>3, <2>5, <3>1, <4>1
    <3>2. ASSUME isNewTuple(s, tuple) PROVE isNewTuple(d, tuple)
      <4>1. \A i \in 1 .. Len(d) : d[i].ts = t => d[i].val # tuple.val
        BY <2>3, <2>5, <2>7, <3>2
      <4> QED BY <2>3, <2>5, <3>2, <4>1
    <3> QED BY <3>1, <3>2
  <2>9. isNewTuple(d, tuple) \in BOOLEAN /\ isNewTuple(s, tuple) \in BOOLEAN
    BY Zenon DEF isNewTuple
  <2> QED BY <2>8, <2>9
<1> QED BY <1>1, <1>2

-----------------------------------------------------------------------------
\* A tuple of the last round, or of a new one, leaves the state sorted.
LEMMA AppendSorted ==
  ASSUME NEW T, \A e \in T : e.ts \in Nat, NEW s \in Seq(T), Sorted(s),
         NEW e \in T, \A i \in 1 .. Len(s) : s[i].ts <= e.ts
  PROVE  /\ Append(s, e) \in Seq(T) /\ Append(s, e) # <<>> /\ Sorted(Append(s, e))
         /\ LastTime(Append(s, e)) = e.ts
<1> DEFINE a == Append(s, e)
<1>1. /\ a \in Seq(T) /\ Len(a) = Len(s) + 1 /\ a[Len(a)] = e /\ Len(s) \in Nat
      /\ \A i \in 1 .. Len(s) : a[i] = s[i]
  OBVIOUS
<1>2. \A i \in 1 .. Len(s) : s[i].ts \in Nat
  OBVIOUS
<1> HIDE DEF a
<1>3. ASSUME NEW i \in 1 .. Len(a), NEW j \in 1 .. Len(a), i <= j
      PROVE  a[i].ts <= a[j].ts
  <2>1. CASE j = Len(a)
    BY <1>1, <1>2, <1>3, <2>1
  <2>2. CASE j # Len(a)
    BY <1>1, <1>3, <2>2 DEF Sorted
  <2> QED BY <2>1, <2>2
<1>4. a # <<>>
  BY <1>1
<1>5. LastTime(a) = e.ts
  BY <1>1, <1>4 DEF LastTime, Last
<1> QED BY <1>1, <1>3, <1>4, <1>5 DEF Sorted, a

\* What was cut off before is not missed in the longer state either,
LEMMA AppendSuffix ==
  ASSUME NEW T, \A e \in T : e.ts \in Nat, NEW s \in Seq(T), Sorted(s),
         NEW d \in Seq(T), NEW k, Suffix(d, s, k),
         NEW e \in T, \A i \in 1 .. Len(s) : s[i].ts <= e.ts
  PROVE  Suffix(Append(d, e), Append(s, e), k)
<1> DEFINE a == Append(s, e)
           b == Append(d, e)
<1>1. /\ a \in Seq(T) /\ Len(a) = Len(s) + 1 /\ a[Len(a)] = e /\ Len(s) \in Nat
      /\ \A i \in 1 .. Len(s) : a[i] = s[i]
      /\ b \in Seq(T) /\ Len(b) = Len(d) + 1 /\ b[Len(b)] = e /\ Len(d) \in Nat
      /\ \A i \in 1 .. Len(d) : b[i] = d[i]
  OBVIOUS
<1>2. a # <<>> /\ Sorted(a) /\ LastTime(a) = e.ts
  BY AppendSorted
<1> HIDE DEF a, b
<1>3. k \in 0 .. Len(a) /\ Len(b) = Len(a) - k
  BY <1>1 DEF Suffix
<1>4. \A i \in 1 .. Len(b) : b[i] = a[k + i]
  <2>1. TAKE i \in 1 .. Len(b)
  <2>2. CASE i = Len(b)
    BY <1>1, <1>3, <2>2
  <2>3. CASE i # Len(b)
    <3>1. k \in 0 .. Len(s) /\ Len(d) = Len(s) - k
      BY DEF Suffix
    <3>2. Len(b) = Len(d) + 1 /\ Len(d) \in Nat /\ Len(s) \in Nat
      BY <1>1
    <3>3. i \in 1 .. Len(d) /\ k + i \in 1 .. Len(s)
      BY <2>3, <3>1, <3>2
    <3>4. d[i] = s[k + i]
      BY <3>3 DEF Suffix
    <3> QED BY <1>1, <3>3, <3>4
  <2> QED BY <2>2, <2>3
<1>5. ASSUME NEW i \in 1 .. k
      PROVE  a[i].ts < PrevTime(a)
  <2>1. i \in 1 .. Len(s) /\ s # <<>>
    BY <1>1, <1>5 DEF Suffix
  <2>2. s[i].ts < PrevTime(s) /\ s[i].ts \in Nat
    BY <2>1, <1>5 DEF Suffix
  <2>3. /\ LastTime(s) = s[Len(s)].ts /\ LastTime(s) \in Nat
        /\ PrevTime(s) # NoTime =>
             /\ PrevTime(s) < LastTime(s) /\ PrevTime(s) \in Nat
             /\ \E j \in 1 .. Len(s) : s[j].ts = PrevTime(s)
    BY <2>1, Rounds
  <2>4. PrevTime(s) # NoTime
    BY <2>2 DEF NoTime
  <2>5. PICK j \in 1 .. Len(s) : s[j].ts = PrevTime(s)
    BY <2>3, <2>4
  <2>6. s[Len(s)].ts <= e.ts /\ e.ts \in Nat
    BY <2>1, <1>1
  <2>7. a[j].ts = PrevTime(s) /\ j \in 1 .. Len(a) /\ a[j].ts # LastTime(a)
    BY <2>3, <2>4, <2>5, <2>6, <1>1, <1>2
  <2>8. PrevTime(a) # NoTime /\ a[j].ts <= PrevTime(a) /\ (PrevTime(a) # NoTime => PrevTime(a) \in Nat)
    BY <2>7, <1>1, <1>2, Rounds
  <2> QED BY <2>1, <2>2, <2>3, <2>4, <2>7, <2>8, <1>1
<1> QED BY <1>3, <1>4, <1>5 DEF Suffix, a, b

\* and addTuple cuts off no more: only the tuples of two rounds are left.
LEMMA AddTupleSuffix ==
  ASSUME NEW T, \A e \in T : e.ts \in Nat, NEW s \in Seq(T), Sorted(s),
         NEW d \in Seq(T), NEW k, Suffix(d, s, k),
         NEW e \in T, \A i \in 1 .. Len(s) : s[i].ts <= e.ts
  PROVE  /\ addTuple(d, e) \in Seq(T)
         /\ \E n : Suffix(addTuple(d, e), Append(s, e), n)
         /\ \A i \in 1 .. Len(addTuple(d, e)) :
              addTuple(d, e)[i].ts \in {LastTime(addTuple(d, e)), PrevTime(addTuple(d, e))}
<1> DEFINE a == Append(s, e)
           b == Append(d, e)
           p == PrevTime(b)
           c == LastBefore(b, p)
           r == addTuple(d, e)
<1>1. a \in Seq(T) /\ a # <<>> /\ Sorted(a) /\ b \in Seq(T)
  BY AppendSorted
<1>2. Suffix(b, a, k)
  BY AppendSuffix
<1>3. b # <<>> /\ Sorted(b) /\ LastTime(b) = LastTime(a) /\ p = PrevTime(a)
  BY <1>1, <1>2, SuffixRounds
<1>4. r = SubSeq(b, c + 1, Len(b))
  BY DEF addTuple, LastBefore
<1> HIDE DEF a, b, p, c, r
<1>5. /\ c \in 0 .. Len(b)
      /\ c # 0 => Before(b[c].ts, p)
      /\ \A i \in 1 .. Len(b) : i > c => ~Before(b[i].ts, p)
  BY <1>1, LastBeforeProp DEF c
<1>6. /\ LastTime(b) = b[Len(b)].ts /\ Len(b) \in Nat \ {0} /\ LastTime(b) \in Nat
      /\ p # NoTime => p < LastTime(b) /\ p \in Nat
      /\ \A i \in 1 .. Len(b) : b[i].ts # LastTime(b) => p # NoTime /\ b[i].ts <= p
  BY <1>1, <1>3, Rounds DEF p
<1>7. \A i \in 1 .. Len(b) : b[i] \in T /\ b[i].ts \in Nat
  BY <1>1
<1>8. ASSUME NEW i \in 1 .. Len(b), i > c
      PROVE  b[i].ts \in {LastTime(b), p}
  <2>1. ~Before(b[i].ts, p) /\ b[i].ts \in Nat
    BY <1>5, <1>7, <1>8
  <2>2. CASE b[i].ts # LastTime(b)
    <3>1. p # NoTime /\ p \in Nat /\ b[i].ts <= p
      BY <1>6, <2>2
    <3>2. ~(b[i].ts < p)
      BY <2>1, <3>1 DEF Before, NoTime
    <3> QED BY <2>1, <3>1, <3>2
  <2> QED BY <2>2
<1>9. /\ r \in Seq(T) /\ Len(r) = Len(b) - c
      /\ \A i \in 1 .. Len(r) : r[i] = b[c + i]
  BY <1>1, <1>4, <1>5, <1>6, <1>7, SubSeqProperties, SMTT(30)
<1>10. Suffix(r, a, k + c)
  <2>1. k \in Nat /\ Len(a) \in Nat /\ k \in 0 .. Len(a) /\ Len(b) = Len(a) - k
    BY <1>1, <1>2 DEF Suffix
  <2>2. k + c \in 0 .. Len(a) /\ Len(r) = Len(a) - (k + c)
    BY <2>1, <1>5, <1>9
  <2>3. \A i \in 1 .. Len(r) : r[i] = a[(k + c) + i]
    <3>1. TAKE i \in 1 .. Len(r)
    <3>2. c + i \in 1 .. Len(b)
      BY <1>5, <1>6, <1>9
    <3>3. b[c + i] = a[k + (c + i)]
      BY <3>2, <1>2 DEF Suffix
    <3>4. k + (c + i) = (k + c) + i
      BY <2>1, <1>5
    <3> QED BY <3>3, <3>4, <1>9
  <2>4. ASSUME NEW i \in 1 .. k + c
        PROVE  a[i].ts < PrevTime(a)
    <3>1. CASE i <= k
      BY <3>1, <2>1, <1>2, <1>5 DEF Suffix
    <3>2. CASE i > k
      <4>1. i - k \in 1 .. c /\ i - k \in 1 .. Len(b) /\ c \in 1 .. Len(b) /\ c # 0
        BY <3>2, <2>1, <1>5
      <4>2. b[i - k] = a[i]
        <5>1. b[i - k] = a[k + (i - k)]
          BY <4>1, <1>2 DEF Suffix
        <5>2. k + (i - k) = i
          BY <2>1, <1>5
        <5> QED BY <5>1, <5>2
      <4>3. b[i - k].ts <= b[c].ts
        BY <4>1, <1>3 DEF Sorted
      <4>4. b[c].ts < p /\ p # NoTime
        BY <4>1, <1>5 DEF Before
      <4> QED BY <4>1, <4>2, <4>3, <4>4, <1>3, <1>6, <1>7
    <3> QED BY <3>1, <3>2, <2>1, <1>5
  <2> QED BY <2>2, <2>3, <2>4 DEF Suffix
<1>11. LastTime(r) = LastTime(b) /\ PrevTime(r) = p
  BY <1>1, <1>3, <1>9, <1>10, SuffixRounds
<1>12. \A i \in 1 .. Len(r) : r[i].ts \in {LastTime(r), PrevTime(r)}
  <2>1. TAKE i \in 1 .. Len(r)
  <2>2. c + i \in 1 .. Len(b) /\ c + i > c
    BY <1>5, <1>6, <1>9
  <2> QED BY <2>2, <1>8, <1>9, <1>11
<1> QED BY <1>9, <1>10, <1>12 DEF r, a

\* The round that a tuple is compared with is the one before its own.
LEMMA PrevTimeAppend ==
  ASSUME NEW T, \A e \in T : e.ts \in Nat, NEW s \in Seq(T), Sorted(s),
         NEW e \in T, \A i \in 1 .. Len(s) : s[i].ts <= e.ts
  PROVE  PrevTime(Append(s, e)) =
           IF e.ts = LastTime(s) THEN PrevTime(s) ELSE LastTime(s)
<1> DEFINE a == Append(s, e)
<1>1. /\ a \in Seq(T) /\ Len(a) = Len(s) + 1 /\ a[Len(a)] = e /\ Len(s) \in Nat
      /\ \A i \in 1 .. Len(s) : a[i] = s[i] /\ s[i].ts \in Nat
      /\ e.ts \in Nat
  OBVIOUS
<1>2. a # <<>> /\ Sorted(a) /\ LastTime(a) = e.ts
  BY AppendSorted
<1> HIDE DEF a
<1>3. /\ PrevTime(a) # NoTime =>
           /\ PrevTime(a) < LastTime(a) /\ PrevTime(a) \in Nat
           /\ \E i \in 1 .. Len(a) : a[i].ts = PrevTime(a)
      /\ \A i \in 1 .. Len(a) : a[i].ts # LastTime(a) =>
           PrevTime(a) # NoTime /\ a[i].ts <= PrevTime(a)
  BY <1>1, <1>2, Rounds
<1>4. /\ PrevTime(a) # NoTime =>
           /\ PrevTime(a) < e.ts /\ PrevTime(a) \in Nat
           /\ \E i \in 1 .. Len(s) : s[i].ts = PrevTime(a)
      /\ \A i \in 1 .. Len(s) : s[i].ts # e.ts =>
           PrevTime(a) # NoTime /\ s[i].ts <= PrevTime(a)
  <2>1. \A i \in 1 .. Len(a) : i = Len(a) \/ i \in 1 .. Len(s)
    BY <1>1
  <2>2. \A i \in 1 .. Len(s) : i \in 1 .. Len(a)
    BY <1>1
  <2>3. ASSUME PrevTime(a) # NoTime
        PROVE  \E i \in 1 .. Len(s) : s[i].ts = PrevTime(a)
    <3>1. PICK i \in 1 .. Len(a) : a[i].ts = PrevTime(a)
      BY <1>3, <2>3
    <3>2. i # Len(a)
      BY <1>1, <1>2, <1>3, <2>3, <3>1
    <3> QED BY <1>1, <2>1, <3>1, <3>2
  <2> QED BY <1>1, <1>2, <1>3, <2>2, <2>3
<1>5. CASE s = <<>>
  <2>1. PrevTime(a) = NoTime
    BY <1>4, <1>5
  <2> QED BY <1>1, <1>5, <2>1 DEF LastTime, NoTime, a
<1>6. CASE s # <<>>
  <2>1. /\ LastTime(s) = s[Len(s)].ts /\ Len(s) \in Nat \ {0} /\ LastTime(s) \in Nat
        /\ PrevTime(s) # NoTime =>
             /\ PrevTime(s) < LastTime(s) /\ PrevTime(s) \in Nat
             /\ \E i \in 1 .. Len(s) : s[i].ts = PrevTime(s)
        /\ \A i \in 1 .. Len(s) : s[i].ts # LastTime(s) =>
             PrevTime(s) # NoTime /\ s[i].ts <= PrevTime(s)
    BY <1>6, Rounds
  <2>2. \A i \in 1 .. Len(s) : s[i].ts <= LastTime(s)
    BY <2>1 DEF Sorted
  <2>3. CASE e.ts = LastTime(s)
    <3>1. PrevTime(a) # NoTime => PrevTime(s) # NoTime /\ PrevTime(a) <= PrevTime(s)
      BY <1>4, <2>1, <2>3
    <3>2. PrevTime(s) # NoTime => PrevTime(a) # NoTime /\ PrevTime(s) <= PrevTime(a)
      BY <1>4, <2>1, <2>3
    <3>3. PrevTime(a) = PrevTime(s)
      BY <1>4, <2>1, <3>1, <3>2
    <3> QED BY <2>3, <3>3 DEF a
  <2>4. CASE e.ts # LastTime(s)
    <3>1. PrevTime(a) # NoTime /\ LastTime(s) <= PrevTime(a)
      BY <1>4, <2>1, <2>4
    <3>2. PrevTime(a) <= LastTime(s)
      BY <1>4, <2>2, <3>1
    <3>3. PrevTime(a) = LastTime(s)
      BY <1>4, <2>1, <3>1, <3>2
    <3> QED BY <2>4, <3>3 DEF a
  <2> QED BY <2>3, <2>4
<1> QED BY <1>5, <1>6
=============================================================================
