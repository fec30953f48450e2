------------------------- MODULE ShiftReduceProofs -------------------------
(***************************************************************************)
(* The parser is right about its stack, for any tables whose states have   *)
(* the items that an LR automaton gives them and for inputs of any length. *)
(* The states on the stack are a path of the automaton from its first      *)
(* state; whatever is before the marker of an item of the last state is    *)
(* therefore on top of the stack, and the item with the marker in front is *)
(* one of the state below, which has somewhere to go with its nonterminal. *)
(* What has been put out is a derivation, whose forms are the symbols of   *)
(* the stacks that there were: a reduction adds a form, a shift puts its   *)
(* token behind all of them.  Of a sentence that the input goes on as, they *)
(* are the forms of any derivation, which is therefore the only one.       *)
(***************************************************************************)
EXTENDS ShiftReduce, EdgeStateProofs

\* The states are a path from the first one, through the symbols.
Path(p, st, rs) ==
  /\ st[1] = 1 /\ rs[1] = Nothing
  /\ \A i \in 2 .. Len(st) : /\ rs[i].sym \in Moves(p, st[i - 1])
                             /\ st[i] = Successor(p, st[i - 1], rs[i].sym)

StackOK(p, st, rs) ==
  /\ st \in Seq(States(p)) /\ rs \in Seq(Result)
  /\ st # <<>> /\ Len(rs) = Len(st)
  /\ Path(p, st, rs)

\* The inductive invariant.
IInv == TypeOK /\ StackOK(Table[grammar], stack, results) /\ Tiled /\ WholeAccepted

-----------------------------------------------------------------------------
(* Sequences.                                                              *)

LEMMA RestFacts ==
  ASSUME NEW T, NEW s \in Seq(T), NEW n \in Nat, n < Len(s)
  PROVE  /\ Rest(s, n) \in Seq(T) /\ Len(Rest(s, n)) = Len(s) - n
         /\ \A i \in 1 .. Len(s) - n : Rest(s, n)[i] = s[i]
<1>1. 1 \in 1 .. Len(s) + 1 /\ Len(s) - n \in 0 .. Len(s) /\ Len(s) \in Nat
  OBVIOUS
<1> QED BY <1>1, SMTT(30) DEF Rest

LEMMA PoppedFacts ==
  ASSUME NEW T, NEW s \in Seq(T), NEW n \in Nat, n < Len(s), n # 0
  PROVE  /\ Popped(s, n) \in Seq(T) /\ Len(Popped(s, n)) = n
         /\ \A i \in 1 .. n : Popped(s, n)[i] = s[Len(s) - n + i]
<1>1. Popped(s, n) = SubSeq(s, Len(s) - n + 1, Len(s))
  BY DEF Popped
<1>2. Len(s) - n + 1 \in 1 .. Len(s) /\ Len(s) \in Nat
  OBVIOUS
<1>3. \A i \in Len(s) - n + 1 .. Len(s) : s[i] \in T
  BY <1>2
<1> QED BY <1>1, <1>2, <1>3, SMTT(30)

LEMMA AppendFacts ==
  ASSUME NEW T, NEW s \in Seq(T), NEW e \in T
  PROVE  /\ Append(s, e) \in Seq(T) /\ Len(Append(s, e)) = Len(s) + 1
         /\ Append(s, e) # <<>> /\ Append(s, e)[Len(s) + 1] = e
         /\ \A i \in 1 .. Len(s) : Append(s, e)[i] = s[i]
OBVIOUS

-----------------------------------------------------------------------------
(* The stack.                                                              *)

\* What is left after a pop is a path.
LEMMA RestPath ==
  ASSUME NEW p, NEW st, NEW rs, StackOK(p, st, rs), NEW n \in Nat, n < Len(st)
  PROVE  StackOK(p, Rest(st, n), Rest(rs, n))
<1>1. /\ Rest(st, n) \in Seq(States(p)) /\ Len(Rest(st, n)) = Len(st) - n
      /\ \A i \in 1 .. Len(st) - n : Rest(st, n)[i] = st[i]
  BY RestFacts DEF StackOK
<1>2. /\ Rest(rs, n) \in Seq(Result) /\ Len(Rest(rs, n)) = Len(st) - n
      /\ \A i \in 1 .. Len(st) - n : Rest(rs, n)[i] = rs[i]
  BY RestFacts DEF StackOK
<1>3. Len(st) \in Nat /\ Len(st) - n >= 1
  BY DEF StackOK
<1>4. Rest(st, n)[1] = 1 /\ Rest(rs, n)[1] = Nothing
  BY <1>1, <1>2, <1>3 DEF StackOK, Path
<1>5. ASSUME NEW i \in 2 .. Len(st) - n
      PROVE  /\ Rest(rs, n)[i].sym \in Moves(p, Rest(st, n)[i - 1])
             /\ Rest(st, n)[i] = Successor(p, Rest(st, n)[i - 1], Rest(rs, n)[i].sym)
  <2>1. i \in 2 .. Len(st) /\ i \in 1 .. Len(st) - n /\ i - 1 \in 1 .. Len(st) - n
    BY <1>3
  <2>2. rs[i].sym \in Moves(p, st[i - 1]) /\ st[i] = Successor(p, st[i - 1], rs[i].sym)
    BY <2>1 DEF StackOK, Path
  <2>3. Rest(rs, n)[i] = rs[i] /\ Rest(st, n)[i] = st[i] /\ Rest(st, n)[i - 1] = st[i - 1]
    BY <2>1, <1>1, <1>2
  <2> QED BY <2>2, <2>3
<1>6. Rest(st, n) # <<>>
  BY <1>1, <1>3
<1>7. Path(p, Rest(st, n), Rest(rs, n))
  BY <1>1, <1>4, <1>5 DEF Path
<1> QED BY <1>1, <1>2, <1>6, <1>7 DEF StackOK

\* A push along a transition leaves a path.
LEMMA PushPath ==
  ASSUME NEW p, NEW st, NEW rs, StackOK(p, st, rs), NEW q \in States(p), NEW e \in Result,
         e.sym \in Moves(p, st[Len(st)]), q = Successor(p, st[Len(st)], e.sym)
  PROVE  StackOK(p, Append(st, q), Append(rs, e))
<1>1. /\ Append(st, q) \in Seq(States(p)) /\ Len(Append(st, q)) = Len(st) + 1
      /\ Append(st, q) # <<>> /\ Append(st, q)[Len(st) + 1] = q
      /\ \A i \in 1 .. Len(st) : Append(st, q)[i] = st[i]
  BY AppendFacts DEF StackOK
<1>2. /\ Append(rs, e) \in Seq(Result) /\ Len(Append(rs, e)) = Len(st) + 1
      /\ Append(rs, e)[Len(st) + 1] = e
      /\ \A i \in 1 .. Len(st) : Append(rs, e)[i] = rs[i]
  BY AppendFacts DEF StackOK
<1>3. Len(st) \in Nat /\ Len(st) >= 1
  BY DEF StackOK
<1>4. Append(st, q)[1] = 1 /\ Append(rs, e)[1] = Nothing
  BY <1>1, <1>2, <1>3 DEF StackOK, Path
<1>5. ASSUME NEW i \in 2 .. Len(st) + 1
      PROVE  /\ Append(rs, e)[i].sym \in Moves(p, Append(st, q)[i - 1])
             /\ Append(st, q)[i] = Successor(p, Append(st, q)[i - 1], Append(rs, e)[i].sym)
  <2>1. CASE i = Len(st) + 1
    <3>1. Append(st, q)[i - 1] = st[Len(st)]
      BY <1>1, <1>3, <2>1
    <3> QED BY <1>1, <1>2, <2>1, <3>1
  <2>2. CASE i \in 2 .. Len(st)
    <3>1. rs[i].sym \in Moves(p, st[i - 1]) /\ st[i] = Successor(p, st[i - 1], rs[i].sym)
      BY <2>2 DEF StackOK, Path
    <3>2. i \in 1 .. Len(st) /\ i - 1 \in 1 .. Len(st)
      BY <2>2, <1>3
    <3>3. Append(rs, e)[i] = rs[i] /\ Append(st, q)[i] = st[i] /\ Append(st, q)[i - 1] = st[i - 1]
      BY <3>2, <1>1, <1>2
    <3> QED BY <3>1, <3>3
  <2>3. i = Len(st) + 1 \/ i \in 2 .. Len(st)
    BY <1>3
  <2> QED BY <2>1, <2>2, <2>3, Zenon
<1>6. Path(p, Append(st, q), Append(rs, e))
  BY <1>1, <1>4, <1>5 DEF Path
<1> QED BY <1>1, <1>2, <1>6 DEF StackOK

-----------------------------------------------------------------------------
(* The items.                                                              *)

\* What an item of the last state says of the stack: what is before its marker
\* is on top, and each state on the way down has the item as it was then.
LEMMA ItemsBelow ==
  ASSUME NEW p, TableTyped(p), ItemsRight(p), NEW st, NEW rs, StackOK(p, st, rs),
         NEW r, NEW d, <<r, d>> \in p.items[st[Len(st)]]
  PROVE  /\ d \in Nat /\ d < Len(st) /\ r \in DOMAIN p.rules /\ d <= Len(Rule(p, r).rhs)
         /\ \A k \in 0 .. d : <<r, d - k>> \in p.items[st[Len(st) - k]]
         /\ \A k \in 0 .. d - 1 : rs[Len(st) - k].sym = Rule(p, r).rhs[d - k]
<1> DEFINE n == Len(st)
           Good(k) == k < n /\ <<r, d - k>> \in p.items[st[n - k]]
           Bad == {k \in 0 .. d : ~Good(k)}
<1>1. /\ n \in Nat /\ n >= 1
      /\ \A i \in 1 .. n : st[i] \in States(p)
  BY DEF StackOK
<1>2. d \in Nat /\ r \in DOMAIN p.rules /\ d <= Len(Rule(p, r).rhs)
  <2>1. st[n] \in States(p)
    BY <1>1
  <2> QED BY <2>1 DEF ItemsRight
<1>3. Good(0)
  BY <1>1, <1>2
<1>4. ASSUME NEW k \in 0 .. d - 1, Good(k)
      PROVE  Good(k + 1) /\ rs[n - k].sym = Rule(p, r).rhs[d - k]
  <2>1. n - k \in 1 .. n /\ d - k # 0 /\ d - k \in Nat
    BY <1>1, <1>2, <1>4
  <2>2. <<r, d - k>> \in p.items[st[n - k]]
    BY <1>4
  <2>3. n - k # 1
    <3>1. ASSUME n - k = 1 PROVE FALSE
      <4>1. st[n - k] = 1
        BY <3>1 DEF StackOK, Path
      <4>2. <<r, d - k>>[2] = 0
        BY <2>2, <4>1, Zenon DEF ItemsRight
      <4> QED BY <4>2, <2>1
    <3> QED BY <3>1
  <2>4. n - k \in 2 .. n /\ n - k - 1 \in 1 .. n
    BY <2>1, <2>3, <1>1
  <2>5. PICK q : q = st[n - k - 1]
    OBVIOUS
  <2>6. PICK X : X = rs[n - k].sym
    OBVIOUS
  <2>7. q \in States(p) /\ X \in Moves(p, q) /\ st[n - k] = Successor(p, q, X)
    BY <2>4, <2>5, <2>6, <1>1 DEF StackOK, Path
  <2>8. PICK item : item = <<r, d - k>>
    OBVIOUS
  <2>9. item \in p.items[Successor(p, q, X)]
    BY <2>2, <2>7, <2>8
  <2>10. item[1] = r /\ item[2] = d - k /\ item[2] # 0
    BY <2>1, <2>8
  <2>11. Rule(p, item[1]).rhs[item[2]] = X /\ <<item[1], item[2] - 1>> \in p.items[q]
    BY <2>7, <2>9, <2>10, Zenon DEF ItemsRight
  <2>12. n - (k + 1) = n - k - 1 /\ d - (k + 1) = d - k - 1 /\ k + 1 < n
    BY <2>4, <1>1, <1>2
  <2>13. <<r, d - (k + 1)>> \in p.items[st[n - (k + 1)]]
    BY <2>5, <2>10, <2>11, <2>12
  <2> QED BY <2>6, <2>10, <2>11, <2>12, <2>13
<1>5. Bad = {}
  <2>1. ASSUME Bad # {} PROVE FALSE
    <3>1. Bad \in SUBSET Nat
      BY <1>2
    <3>2. PICK k \in Bad : \A j \in Bad : k <= j
      BY <2>1, <3>1, LeastExists
    <3>3. k \in 0 .. d /\ ~Good(k)
      BY <3>2
    <3>4. k # 0
      BY <1>3, <3>3
    <3>5. k - 1 \in 0 .. d - 1 /\ k - 1 \notin Bad /\ (k - 1) + 1 = k /\ k - 1 \in 0 .. d
      BY <3>2, <3>3, <3>4, <1>2
    <3>6. Good(k - 1)
      BY <3>5
    <3>7. Good((k - 1) + 1)
      BY <3>5, <3>6, <1>4
    <3> QED BY <3>3, <3>5, <3>7
  <2> QED BY <2>1
<1>6. \A k \in 0 .. d : Good(k)
  BY <1>5
<1>7. d < n
  <2>1. d \in 0 .. d
    BY <1>2
  <2>2. Good(d)
    BY <1>6, <2>1
  <2> QED BY <2>2
<1>8. ASSUME NEW k \in 0 .. d - 1
      PROVE  rs[n - k].sym = Rule(p, r).rhs[d - k]
  <2>1. k \in 0 .. d
    BY <1>2
  <2>2. Good(k)
    BY <1>6, <2>1
  <2> QED BY <1>4, <2>2
<1> QED BY <1>2, <1>6, <1>7, <1>8

\* The first n symbols of the right side of a rule are on top.
OnTop(rs, rhs, n) == \A i \in 1 .. n : rs[Len(rs) - n + i].sym = rhs[i]

\* What is before the marker of an item of the last state is on top of the stack,
\* and the item with the marker in front is one of the state below it.
LEMMA HandleOnTop ==
  ASSUME NEW p, TableTyped(p), ItemsRight(p), NEW st, NEW rs, StackOK(p, st, rs),
         NEW r, NEW d, <<r, d>> \in p.items[st[Len(st)]]
  PROVE  /\ d \in Nat /\ d < Len(st) /\ r \in DOMAIN p.rules
         /\ <<r, 0>> \in p.items[st[Len(st) - d]]
         /\ OnTop(rs, Rule(p, r).rhs, d)
<1>1. /\ d \in Nat /\ d < Len(st) /\ r \in DOMAIN p.rules
      /\ \A k \in 0 .. d : <<r, d - k>> \in p.items[st[Len(st) - k]]
      /\ \A k \in 0 .. d - 1 : rs[Len(st) - k].sym = Rule(p, r).rhs[d - k]
  BY ItemsBelow
<1>2. Len(st) \in Nat /\ Len(rs) = Len(st) /\ d \in 0 .. d /\ d - d = 0
  BY <1>1 DEF StackOK
<1>3. <<r, 0>> \in p.items[st[Len(st) - d]]
  BY <1>1, <1>2
<1>4. \A i \in 1 .. d : rs[Len(rs) - d + i].sym = Rule(p, r).rhs[i]
  <2> TAKE i \in 1 .. d
  <2>1. d - i \in 0 .. d - 1 /\ Len(st) - (d - i) = Len(rs) - d + i /\ d - (d - i) = i
    BY <1>1, <1>2
  <2> QED BY <1>1, <2>1
<1> QED BY <1>1, <1>3, <1>4 DEF OnTop

\* The state below a handle has somewhere to go with the left side of the rule.
LEMMA Reducible ==
  ASSUME NEW p, TableTyped(p), ItemsRight(p), NEW st, NEW rs, StackOK(p, st, rs),
         NEW r, NEW n, <<r, n>> \in p.items[st[Len(st)]],
         NEW A, A = Rule(p, r).lhs, A # Root, NEW below, below = st[Len(st) - n]
  PROVE  /\ n \in Nat /\ n < Len(st) /\ r \in DOMAIN p.rules
         /\ below \in States(p) /\ A \in STRING
         /\ A \in DOMAIN p.goto[below] /\ A \in Moves(p, below)
         /\ Successor(p, below, A) = p.goto[below][A]
         /\ p.goto[below][A] \in States(p)
<1>1. /\ n \in Nat /\ n < Len(st) /\ r \in DOMAIN p.rules
      /\ <<r, 0>> \in p.items[below]
  BY HandleOnTop
<1>2. below \in States(p)
  <2>1. Len(st) - n \in 1 .. Len(st)
    BY <1>1 DEF StackOK
  <2> QED BY <2>1 DEF StackOK
<1>3. A \in DOMAIN p.goto[below]
  <2>1. PICK item : item = <<r, 0>>
    OBVIOUS
  <2>2. item[1] = r /\ item[2] = 0 /\ item \in p.items[below]
    BY <1>1, <2>1
  <2> QED BY <1>2, <2>2, Zenon DEF ItemsRight
<1>4. A \in STRING
  <2> DEFINE T == [lhs : STRING, rhs : Seq(STRING)]
  <2>1. p.rules[r] \in T
    <3>1. p.rules \in Seq(T)
      BY Zenon DEF TableTyped
    <3> HIDE DEF T
    <3> QED BY <3>1, <1>1
  <2> QED BY <2>1 DEF Rule
<1>5. A \in Moves(p, below) /\ Successor(p, below, A) = p.goto[below][A]
  BY <1>3 DEF Moves, Successor
<1>6. p.goto[below][A] \in States(p)
  BY <1>2, <1>5, Zenon DEF TableTyped
<1> QED BY <1>1, <1>2, <1>3, <1>4, <1>5, <1>6

-----------------------------------------------------------------------------
(* The tokens.                                                             *)

\* What stands for later tokens ends later.
LEMMA TilesOrdered ==
  ASSUME NEW rs \in Seq(Result), NEW m, Tiles(rs, m), NEW i \in 2 .. Len(rs), NEW j \in i .. Len(rs)
  PROVE  rs[i].from <= rs[j].to
<1> DEFINE Bad == {k \in i .. Len(rs) : ~(rs[i].from <= rs[k].to)}
<1>1. \A k \in 1 .. Len(rs) : rs[k].from \in Nat /\ rs[k].to \in Nat
  <2>1. \A k \in 1 .. Len(rs) : rs[k] \in Result
    OBVIOUS
  <2> QED BY <2>1 DEF Result
<1>2. \A k \in 2 .. Len(rs) : rs[k].from = rs[k - 1].to + 1 /\ rs[k].from <= rs[k].to
  BY DEF Tiles
<1>3. Bad = {}
  <2>1. ASSUME Bad # {} PROVE FALSE
    <3>1. Bad \in SUBSET Nat
      OBVIOUS
    <3>2. PICK k \in Bad : \A l \in Bad : k <= l
      BY <2>1, <3>1, LeastExists
    <3>3. k \in i .. Len(rs) /\ ~(rs[i].from <= rs[k].to) /\ k \in 2 .. Len(rs)
      BY <3>2
    <3>4. k # i
      BY <3>3, <1>2
    <3>5. k - 1 \in i .. Len(rs) /\ k - 1 \in 1 .. Len(rs) /\ k \in 1 .. Len(rs) /\ i \in 1 .. Len(rs)
      BY <3>3, <3>4, SMTT(30)
    <3>6. rs[i].from <= rs[k - 1].to
      BY <3>2, <3>5
    <3>7. rs[k].from = rs[k - 1].to + 1 /\ rs[k].from <= rs[k].to
      BY <3>3, <1>2
    <3>8. /\ rs[i].from \in Nat /\ rs[k - 1].to \in Nat /\ rs[k].from \in Nat /\ rs[k].to \in Nat
      BY <3>5, <1>1
    <3>9. rs[i].from <= rs[k].to
      BY <3>6, <3>7, <3>8
    <3> QED BY <3>3, <3>9
  <2> QED BY <2>1
<1> QED BY <1>3

\* A push of what stands for the next tokens.
LEMMA PushTile ==
  ASSUME NEW rs \in Seq(Result), NEW m, Tiles(rs, m), rs # <<>>, NEW e \in Result,
         e.from = m + 1, e.from <= e.to
  PROVE  Tiles(Append(rs, e), e.to)
<1>1. /\ Append(rs, e) \in Seq(Result) /\ Len(Append(rs, e)) = Len(rs) + 1
      /\ Append(rs, e)[Len(rs) + 1] = e
      /\ \A i \in 1 .. Len(rs) : Append(rs, e)[i] = rs[i]
  BY AppendFacts
<1>2. Len(rs) \in Nat /\ Len(rs) >= 1
  OBVIOUS
<1>3. ASSUME NEW i \in 2 .. Len(rs) + 1
      PROVE  /\ Append(rs, e)[i].from = Append(rs, e)[i - 1].to + 1
             /\ Append(rs, e)[i].from <= Append(rs, e)[i].to
  <2>1. CASE i = Len(rs) + 1
    <3>1. Append(rs, e)[i - 1] = rs[Len(rs)]
      BY <1>1, <1>2, <2>1
    <3> QED BY <1>1, <2>1, <3>1 DEF Tiles
  <2>2. CASE i \in 2 .. Len(rs)
    <3>1. rs[i].from = rs[i - 1].to + 1 /\ rs[i].from <= rs[i].to
      BY <2>2 DEF Tiles
    <3>2. i \in 1 .. Len(rs) /\ i - 1 \in 1 .. Len(rs)
      BY <2>2, <1>2
    <3>3. Append(rs, e)[i] = rs[i] /\ Append(rs, e)[i - 1] = rs[i - 1]
      BY <3>2, <1>1
    <3> QED BY <3>1, <3>3
  <2>3. i = Len(rs) + 1 \/ i \in 2 .. Len(rs)
    BY <1>2
  <2> QED BY <2>1, <2>2, <2>3, Zenon
<1> QED BY <1>1, <1>2, <1>3 DEF Tiles

\* What the arguments of a semantic action stand for is one piece of the input,
\* behind that of the rest of the stack.
LEMMA ReduceTile ==
  ASSUME NEW rs \in Seq(Result), NEW m, Tiles(rs, m), NEW n \in Nat, n < Len(rs), n # 0,
         NEW A \in STRING
  PROVE  LET e == [sym |-> A, from |-> Popped(rs, n)[1].from, to |-> Popped(rs, n)[n].to]
         IN  e \in Result /\ Tiles(Append(Rest(rs, n), e), m)
<1> DEFINE e == [sym |-> A, from |-> Popped(rs, n)[1].from, to |-> Popped(rs, n)[n].to]
           k == Len(rs) - n
<1>1. /\ Len(rs) \in Nat /\ k \in 1 .. Len(rs) /\ k + 1 \in 2 .. Len(rs)
      /\ Len(rs) - n + n = Len(rs) /\ Len(rs) - n + 1 = k + 1
      /\ 1 \in 1 .. n /\ n \in 1 .. n /\ Len(rs) \in k + 1 .. Len(rs)
  <2>1. PICK l \in Nat : l = Len(rs)
    OBVIOUS
  <2>2. l - n \in 1 .. l /\ l - n + 1 \in 2 .. l /\ l - n + n = l /\ l \in l - n + 1 .. l
    BY <2>1
  <2>3. 1 \in 1 .. n /\ n \in 1 .. n
    OBVIOUS
  <2> QED BY <2>1, <2>2, <2>3
<1>2. Popped(rs, n)[1] = rs[k + 1] /\ Popped(rs, n)[n] = rs[Len(rs)]
  BY PoppedFacts, <1>1
<1>3. /\ Rest(rs, n) \in Seq(Result) /\ Len(Rest(rs, n)) = k
      /\ \A i \in 1 .. k : Rest(rs, n)[i] = rs[i]
  BY RestFacts
<1>4. e \in Result
  <2>1. rs[k + 1] \in Result /\ rs[Len(rs)] \in Result
    BY <1>1
  <2> QED BY <1>2, <2>1 DEF Result
<1>5. Tiles(Rest(rs, n), rs[k].to)
  <2>1. ASSUME NEW i \in 2 .. k
        PROVE  /\ Rest(rs, n)[i].from = Rest(rs, n)[i - 1].to + 1
               /\ Rest(rs, n)[i].from <= Rest(rs, n)[i].to
    <3>1. i \in 2 .. Len(rs) /\ i \in 1 .. k /\ i - 1 \in 1 .. k
      BY <1>1
    <3>2. rs[i].from = rs[i - 1].to + 1 /\ rs[i].from <= rs[i].to
      BY <3>1 DEF Tiles
    <3> QED BY <3>1, <3>2, <1>3
  <2>2. Rest(rs, n)[k] = rs[k]
    BY <1>1, <1>3
  <2> QED BY <1>3, <2>1, <2>2 DEF Tiles
<1>6. e.from = rs[k].to + 1 /\ e.from <= e.to /\ e.to = m
  <2>1. rs[k + 1].from = rs[k].to + 1
    <3>1. (k + 1) - 1 = k
      BY <1>1
    <3> QED BY <1>1, <3>1 DEF Tiles
  <2>2. rs[k + 1].from <= rs[Len(rs)].to
    BY <1>1, TilesOrdered
  <2>3. rs[Len(rs)].to = m
    BY DEF Tiles
  <2> QED BY <1>2, <2>1, <2>2, <2>3
<1>7. Rest(rs, n) # <<>>
  BY <1>1, <1>3
<1> HIDE DEF e, k
<1>8. Tiles(Append(Rest(rs, n), e), e.to)
  BY <1>3, <1>4, <1>5, <1>6, <1>7, PushTile
<1> QED BY <1>4, <1>6, <1>8 DEF e

-----------------------------------------------------------------------------
(* The steps.                                                              *)

LEMMA TablesRight ==
  ASSUME IInv
  PROVE  /\ TableTyped(Table[grammar]) /\ ItemsRight(Table[grammar])
         /\ input \in Seq(STRING \ {EOF})
         /\ Top \in States(Table[grammar])
<1>1. grammar \in Grammars /\ input \in Inputs[grammar]
  BY DEF IInv, TypeOK
<1>2. TableTyped(Table[grammar]) /\ ItemsRight(Table[grammar]) /\ input \in Seq(STRING \ {EOF})
  BY <1>1, TableAssumption, Zenon
<1>3. Top \in States(Table[grammar])
  BY DEF IInv, StackOK, Top
<1> QED BY <1>2, <1>3

\* The entry for the next token, if there is one.
LEMMA EntryRight ==
  ASSUME IInv, NextToken \in Expected
  PROVE  /\ Entry.do = "shift" => /\ NextToken \in Moves(Table[grammar], Top)
                                  /\ NextToken # EOF
                                  /\ Entry.param = Successor(Table[grammar], Top, NextToken)
                                  /\ Entry.param \in States(Table[grammar])
         /\ Entry.do = "reduce" =>
              LET r == Entry.param
              IN  /\ <<r, Len(Rule(Table[grammar], r).rhs)>> \in Table[grammar].items[Top]
                  /\ Rule(Table[grammar], r).lhs # Root /\ Rule(Table[grammar], r).rhs # <<>>
         /\ Entry.do = "accept" =>
              /\ NextToken = EOF
              /\ \E r \in DOMAIN Table[grammar].rules :
                   /\ Rule(Table[grammar], r) = [lhs |-> Root, rhs |-> <<Start, EOF>>]
                   /\ <<r, 1>> \in Table[grammar].items[Top]
<1>1. PICK p : p = Table[grammar]
  OBVIOUS
<1>2. PICK t : t = NextToken
  OBVIOUS
<1>3. TableTyped(p) /\ ItemsRight(p) /\ Top \in States(p)
  BY <1>1, TablesRight
<1>4. t \in DOMAIN p.action[Top] /\ Entry = p.action[Top][t]
  BY <1>1, <1>2 DEF Expected, Entry
<1>5. ASSUME Entry.do = "shift"
      PROVE  /\ t \in Moves(p, Top) /\ t # EOF
             /\ Entry.param = Successor(p, Top, t) /\ Entry.param \in States(p)
  <2>1. t \in Moves(p, Top)
    BY <1>4, <1>5 DEF Moves
  <2>2. t \notin DOMAIN p.goto[Top]
    BY <1>3, <1>4, Zenon DEF TableTyped
  <2>3. Entry.param = Successor(p, Top, t)
    BY <1>4, <2>2 DEF Successor
  <2>4. t # EOF /\ Successor(p, Top, t) \in States(p)
    BY <1>3, <2>1, Zenon DEF TableTyped
  <2> QED BY <2>1, <2>3, <2>4
<1>6. ASSUME Entry.do = "reduce"
      PROVE  /\ <<Entry.param, Len(Rule(p, Entry.param).rhs)>> \in p.items[Top]
             /\ Rule(p, Entry.param).lhs # Root /\ Rule(p, Entry.param).rhs # <<>>
  <2>1. p.action[Top][t].do = "reduce"
    BY <1>4, <1>6
  <2>2. /\ <<p.action[Top][t].param, Len(Rule(p, p.action[Top][t].param).rhs)>> \in p.items[Top]
        /\ Rule(p, p.action[Top][t].param).lhs # Root /\ Rule(p, p.action[Top][t].param).rhs # <<>>
    BY <1>3, <1>4, <2>1, Zenon DEF ItemsRight
  <2> QED BY <1>4, <2>2
<1>7. ASSUME Entry.do = "accept"
      PROVE  /\ t = EOF
             /\ \E r \in DOMAIN p.rules :
                  Rule(p, r) = [lhs |-> Root, rhs |-> <<Start, EOF>>] /\ <<r, 1>> \in p.items[Top]
  BY <1>3, <1>4, <1>7, Zenon DEF ItemsRight
<1> QED BY <1>1, <1>2, <1>5, <1>6, <1>7

LEMMA InitInvariant == Init => IInv
<1> SUFFICES ASSUME Init PROVE IInv
  OBVIOUS
<1>1. grammar \in Grammars /\ input \in Inputs[grammar]
  BY DEF Init
<1>2. TableTyped(Table[grammar]) /\ input \in Seq(STRING \ {EOF})
  BY <1>1, TableAssumption, Zenon
<1>3. 1 \in States(Table[grammar])
  BY <1>2, Zenon DEF TableTyped
<1>4. Nothing \in Result
  BY DEF Nothing, Result
<1>5. TypeOK
  BY <1>1, <1>2, <1>3, <1>4 DEF Init, TypeOK
<1>6. StackOK(Table[grammar], stack, results)
  BY <1>3, <1>4 DEF Init, StackOK, Path
<1>7. Tiled
  BY DEF Init, Tiled, Tiles, Nothing
<1>8. WholeAccepted
  BY DEF Init, WholeAccepted
<1> QED BY <1>5, <1>6, <1>7, <1>8 DEF IInv

LEMMA ShiftStep ==
  ASSUME IInv, ShiftToken
  PROVE  IInv'
<1>1. PICK p : p = Table[grammar]
  OBVIOUS
<1>2. PICK e : e = [sym |-> NextToken, from |-> pos, to |-> pos]
  OBVIOUS
<1>3. PICK q : q = Entry.param
  OBVIOUS
<1>4. /\ NextToken \in Moves(p, Top) /\ NextToken # EOF
      /\ q = Successor(p, Top, NextToken) /\ q \in States(p)
  BY <1>1, <1>3, EntryRight DEF ShiftToken
<1>5. input \in Seq(STRING \ {EOF}) /\ pos \in 1 .. Len(input) + 1
  BY TablesRight DEF IInv, TypeOK
<1>6. pos <= Len(input) /\ NextToken = input[pos]
  BY <1>4 DEF NextToken
<1>7. NextToken \in STRING /\ pos + 1 \in 1 .. Len(input) + 1 /\ pos \in Nat \ {0}
  BY <1>5, <1>6
<1>8. e \in Result /\ e.sym = NextToken /\ e.from = pos /\ e.to = pos
  BY <1>2, <1>7 DEF Result
<1>9. /\ stack' = Append(stack, q) /\ results' = Append(results, e) /\ pos' = pos + 1
      /\ UNCHANGED <<grammar, input, output, outcome>> /\ outcome = "running"
  BY <1>2, <1>3 DEF ShiftToken
<1>10. StackOK(p, stack, results)
  BY <1>1 DEF IInv
<1>11. StackOK(p, Append(stack, q), Append(results, e))
  BY <1>4, <1>8, <1>10, PushPath DEF Top
<1>12. StackOK(Table[grammar], stack, results)'
  BY <1>1, <1>9, <1>11
<1>13. Tiled'
  <2>1. Tiles(results, pos - 1) /\ results \in Seq(Result) /\ results # <<>>
    BY <1>10 DEF IInv, Tiled, StackOK
  <2>2. e.from = (pos - 1) + 1 /\ e.from <= e.to /\ (pos + 1) - 1 = e.to
    BY <1>7, <1>8
  <2>3. Tiles(Append(results, e), e.to)
    BY <1>8, <2>1, <2>2, PushTile
  <2> QED BY <1>9, <2>2, <2>3 DEF Tiled
<1>14. TypeOK'
  <2>1. /\ grammar \in Grammars /\ input \in Inputs[grammar]
        /\ output \in Seq(DOMAIN Table[grammar].rules)
    BY DEF IInv, TypeOK
  <2>2. stack' \in Seq(States(Table[grammar]) \cup {NoState}) /\ stack' # <<>>
    BY <1>1, <1>9, <1>11 DEF StackOK
  <2>3. results' \in Seq(Result) /\ Len(results') = Len(stack')
    BY <1>9, <1>11 DEF StackOK
  <2> QED BY <1>7, <1>9, <2>1, <2>2, <2>3 DEF TypeOK
<1>15. WholeAccepted'
  BY <1>9 DEF WholeAccepted
<1> QED BY <1>12, <1>13, <1>14, <1>15 DEF IInv

LEMMA ReduceStep ==
  ASSUME IInv, ReduceRule
  PROVE  IInv'
<1>1. PICK p : p = Table[grammar]
  OBVIOUS
<1>2. PICK r : r = Entry.param
  OBVIOUS
<1>3. PICK A : A = Rule(p, r).lhs
  OBVIOUS
<1>4. PICK n : n = Len(Rule(p, r).rhs)
  OBVIOUS
<1>5. PICK e : e = [sym |-> A, from |-> Popped(results, n)[1].from, to |-> Popped(results, n)[n].to]
  OBVIOUS
<1>6. PICK below : below = stack[Len(stack) - n]
  OBVIOUS
<1>7. TableTyped(p) /\ ItemsRight(p) /\ StackOK(p, stack, results) /\ Tiles(results, pos - 1)
  BY <1>1, TablesRight DEF IInv, Tiled
<1>8. <<r, n>> \in p.items[stack[Len(stack)]] /\ A # Root /\ Rule(p, r).rhs # <<>>
  BY <1>1, <1>2, <1>3, <1>4, EntryRight DEF ReduceRule, Top
<1>9. /\ n \in Nat /\ n < Len(stack) /\ r \in DOMAIN p.rules
      /\ below \in States(p) /\ A \in STRING
      /\ A \in DOMAIN p.goto[below] /\ A \in Moves(p, below)
      /\ Successor(p, below, A) = p.goto[below][A] /\ p.goto[below][A] \in States(p)
  BY <1>3, <1>4, <1>6, <1>7, <1>8, Reducible
<1>10. n # 0
  <2>1. Rule(p, r).rhs \in Seq(STRING)
    <3> DEFINE T == [lhs : STRING, rhs : Seq(STRING)]
    <3>1. p.rules \in Seq(T)
      BY <1>7, Zenon DEF TableTyped
    <3>2. p.rules[r] \in T
      <4> HIDE DEF T
      <4> QED BY <3>1, <1>9
    <3> QED BY <3>2 DEF Rule
  <2> QED BY <1>4, <1>8, <2>1
<1>11. Len(results) = Len(stack) /\ results \in Seq(Result) /\ stack \in Seq(States(p))
  BY <1>7 DEF StackOK
<1>12. e \in Result /\ Tiles(Append(Rest(results, n), e), pos - 1)
  BY <1>5, <1>7, <1>9, <1>10, <1>11, ReduceTile
<1>13. PICK q : q = p.goto[below][A]
  OBVIOUS
<1>14. Rest(stack, n)[Len(Rest(stack, n))] = below
  <2>1. Len(stack) - n \in 1 .. Len(stack) - n
    BY <1>9, <1>11
  <2>2. /\ Len(Rest(stack, n)) = Len(stack) - n
        /\ \A i \in 1 .. Len(stack) - n : Rest(stack, n)[i] = stack[i]
    BY <1>9, <1>11, RestFacts
  <2>3. PICK i : i = Len(stack) - n
    OBVIOUS
  <2>4. Rest(stack, n)[i] = stack[i]
    BY <2>1, <2>2, <2>3
  <2> QED BY <1>6, <2>2, <2>3, <2>4
<1>15. StackOK(p, Rest(stack, n), Rest(results, n))
  BY <1>7, <1>9, RestPath
<1>16. e.sym = A
  BY <1>5
<1>17. StackOK(p, Append(Rest(stack, n), q), Append(Rest(results, n), e))
  BY <1>9, <1>12, <1>13, <1>14, <1>15, <1>16, PushPath
<1>18. /\ stack' = Append(Rest(stack, n), q) /\ results' = Append(Rest(results, n), e)
       /\ output' = Append(output, r)
       /\ UNCHANGED <<grammar, input, pos, outcome>> /\ outcome = "running"
  <2>1. Goto(below, A) = q
    BY <1>1, <1>9, <1>13 DEF Goto
  <2> QED BY <1>1, <1>2, <1>3, <1>4, <1>5, <1>14, <2>1 DEF ReduceRule
<1>19. StackOK(Table[grammar], stack, results)'
  BY <1>1, <1>17, <1>18
<1>20. Tiled'
  BY <1>12, <1>18 DEF Tiled
<1>21. TypeOK'
  <2>1. /\ grammar \in Grammars /\ input \in Inputs[grammar] /\ pos \in 1 .. Len(input) + 1
        /\ output \in Seq(DOMAIN p.rules)
    BY <1>1 DEF IInv, TypeOK
  <2>2. stack' \in Seq(States(p) \cup {NoState}) /\ stack' # <<>>
    BY <1>17, <1>18 DEF StackOK
  <2>3. results' \in Seq(Result) /\ Len(results') = Len(stack')
    BY <1>17, <1>18 DEF StackOK
  <2>4. output' \in Seq(DOMAIN p.rules)
    BY <1>9, <1>18, <2>1
  <2> QED BY <1>1, <1>18, <2>1, <2>2, <2>3, <2>4 DEF TypeOK
<1>22. WholeAccepted'
  BY <1>18 DEF WholeAccepted
<1> QED BY <1>19, <1>20, <1>21, <1>22 DEF IInv

\* The whole stack is below an accepted symbol: the item of the root with the
\* marker in front is one of the first state only.
LEMMA AcceptStep ==
  ASSUME IInv, AcceptInput
  PROVE  IInv'
<1>1. PICK p : p = Table[grammar]
  OBVIOUS
<1>2. TableTyped(p) /\ ItemsRight(p) /\ StackOK(p, stack, results) /\ Tiles(results, pos - 1)
  BY <1>1, TablesRight DEF IInv, Tiled
<1>3. PICK r \in DOMAIN p.rules :
        /\ Rule(p, r) = [lhs |-> Root, rhs |-> <<Start, EOF>>]
        /\ <<r, 1>> \in p.items[stack[Len(stack)]]
  BY <1>1, EntryRight DEF AcceptInput, Top
<1>4. NextToken = EOF
  BY EntryRight DEF AcceptInput
<1>5. /\ 1 < Len(stack)
      /\ \A k \in 0 .. 1 : <<r, 1 - k>> \in p.items[stack[Len(stack) - k]]
      /\ \A k \in 0 .. 1 - 1 : results[Len(stack) - k].sym = Rule(p, r).rhs[1 - k]
  <2>1. PICK d : d = 1
    OBVIOUS
  <2>2. <<r, d>> \in p.items[stack[Len(stack)]]
    BY <1>3, <2>1
  <2> QED BY <1>2, <2>1, <2>2, ItemsBelow
<1>6. Len(stack) \in Nat /\ Len(results) = Len(stack) /\ stack \in Seq(States(p)) /\ results \in Seq(Result)
  BY <1>2 DEF StackOK
<1>7. results[Len(stack)].sym = Start
  <2>1. 0 \in 0 .. 1 - 1 /\ Len(stack) - 0 = Len(stack) /\ 1 - 0 = 1
    BY <1>6
  <2>2. results[Len(stack)].sym = Rule(p, r).rhs[1]
    BY <1>5, <2>1
  <2> QED BY <1>3, <2>2
<1>8. PICK q : q = stack[Len(stack) - 1]
  OBVIOUS
<1>9. q \in States(p) /\ <<r, 0>> \in p.items[q]
  <2>1. 1 \in 0 .. 1 /\ 1 - 1 = 0 /\ Len(stack) - 1 \in 1 .. Len(stack)
    BY <1>5, <1>6
  <2> QED BY <1>5, <1>6, <1>8, <2>1
<1>10. q = 1
  <2>1. PICK item : item = <<r, 0>>
    OBVIOUS
  <2>2. item[1] = r /\ item[2] = 0 /\ item \in p.items[q]
    BY <1>9, <2>1
  <2>3. Rule(p, item[1]).lhs = Root
    BY <1>3, <2>2
  <2> QED BY <1>2, <1>9, <2>2, <2>3, Zenon DEF ItemsRight
<1>11. Len(stack) = 2
  <2>1. ASSUME Len(stack) # 2 PROVE FALSE
    <3>1. Len(stack) - 1 \in 2 .. Len(stack) /\ Len(stack) - 1 - 1 \in 1 .. Len(stack)
      BY <1>5, <1>6, <2>1
    <3>2. PICK i : i = Len(stack) - 1
      OBVIOUS
    <3>3. /\ results[i].sym \in Moves(p, stack[i - 1])
          /\ stack[i] = Successor(p, stack[i - 1], results[i].sym)
      BY <1>2, <3>1, <3>2 DEF StackOK, Path
    <3>4. stack[i - 1] \in States(p)
      BY <1>6, <3>1, <3>2
    <3>5. stack[i] # 1
      BY <1>2, <3>3, <3>4, Zenon DEF TableTyped
    <3> QED BY <1>8, <1>10, <3>2, <3>5
  <2> QED BY <2>1
<1>12. pos = Len(input) + 1
  <2>1. input \in Seq(STRING \ {EOF}) /\ pos \in 1 .. Len(input) + 1
    BY TablesRight DEF IInv, TypeOK
  <2>2. ASSUME pos <= Len(input) PROVE FALSE
    <3>1. input[pos] \in STRING \ {EOF}
      BY <2>1, <2>2
    <3> QED BY <1>4, <2>2, <3>1 DEF NextToken
  <2> QED BY <2>1, <2>2
<1>13. results[2] = [sym |-> Start, from |-> 1, to |-> Len(input)]
  <2>1. results[2] \in Result /\ results[2].sym = Start
    <3>1. 2 \in 1 .. Len(results)
      BY <1>6, <1>11
    <3>2. results[2] \in Result
      <4> HIDE DEF Result
      <4> QED BY <1>6, <3>1
    <3> QED BY <1>7, <1>11, <3>2
  <2>2. results[2].from = results[2 - 1].to + 1 /\ results[2].to = pos - 1
    BY <1>2, <1>6, <1>11 DEF Tiles
  <2>3. results[2 - 1].to = 0
    BY <1>2 DEF StackOK, Path, Nothing
  <2>4. results[2].from = 1 /\ results[2].to = Len(input)
    BY <1>12, <2>2, <2>3, TablesRight
  <2> QED BY <2>1, <2>4 DEF Result
<1>14. outcome' = "accepted" /\ UNCHANGED <<grammar, input, pos, stack, results, output>>
  BY DEF AcceptInput
<1>15. WholeAccepted'
  BY <1>6, <1>11, <1>12, <1>13, <1>14 DEF WholeAccepted
<1>16. TypeOK'
  BY <1>14 DEF IInv, TypeOK
<1>17. StackOK(Table[grammar], stack, results)'
  BY <1>1, <1>2, <1>14
<1>18. Tiled'
  BY <1>2, <1>14 DEF Tiled
<1> QED BY <1>15, <1>16, <1>17, <1>18 DEF IInv

\* A step that ends the parse without accepting, or changes nothing.
LEMMA OtherStep ==
  ASSUME IInv, Unexpected \/ ActionThrows \/ UNCHANGED vars
  PROVE  IInv'
<1>1. /\ UNCHANGED <<grammar, input, pos, stack, results, output>>
      /\ outcome' \in {"error", "thrown"} \/ outcome' = outcome
  BY DEF Unexpected, ActionThrows, vars
<1>2. TypeOK'
  BY <1>1 DEF IInv, TypeOK
<1>3. StackOK(Table[grammar], stack, results)'
  BY <1>1 DEF IInv
<1>4. Tiled'
  BY <1>1 DEF IInv, Tiled
<1>5. WholeAccepted'
  BY <1>1 DEF IInv, WholeAccepted
<1> QED BY <1>2, <1>3, <1>4, <1>5 DEF IInv

\* The invariant is inductive.
THEOREM Invariance == Spec => []IInv
<1>1. Init => IInv
  BY InitInvariant
<1>2. IInv /\ [Next]_vars => IInv'
  <2> SUFFICES ASSUME IInv, [Next]_vars PROVE IInv'
    OBVIOUS
  <2>1. CASE ShiftToken
    BY <2>1, ShiftStep
  <2>2. CASE ReduceRule
    BY <2>2, ReduceStep
  <2>3. CASE AcceptInput
    BY <2>3, AcceptStep
  <2>4. CASE Unexpected \/ ActionThrows \/ UNCHANGED vars
    BY <2>4, OtherStep
  <2> QED BY <2>1, <2>2, <2>3, <2>4 DEF Next
<1> QED BY <1>1, <1>2, PTL DEF Spec

-----------------------------------------------------------------------------
(* The results.                                                            *)

\* The stacks of _helper are well typed and as long as each other.
THEOREM TypeCorrect == Spec => []TypeOK
<1>1. IInv => TypeOK
  BY DEF IInv
<1> QED BY <1>1, Invariance, PTL

\* After every reduction GOTO has an entry: the parser never pushes undefined.
THEOREM NotLost == Spec => []NeverLost
<1>1. IInv => NeverLost
  <2> SUFFICES ASSUME IInv PROVE NeverLost
    OBVIOUS
  <2>1. Top \in States(Table[grammar]) /\ TableTyped(Table[grammar])
    BY TablesRight
  <2> QED BY <2>1, Zenon DEF TableTyped, NeverLost
<1> QED BY <1>1, Invariance, PTL

\* The stack stands for exactly the tokens read so far, in their order.
THEOREM InputTiled == Spec => []Tiled
<1>1. IInv => Tiled
  BY DEF IInv
<1> QED BY <1>1, Invariance, PTL

\* Every semantic action is called with the symbols of its rule, and there is a
\* state to go on with after it.
THEOREM ArgumentsRight == Spec => []ArgumentsFit
<1>1. IInv => ArgumentsFit
  <2> SUFFICES ASSUME IInv, NextToken \in Expected, Entry.do = "reduce"
               PROVE  LET rule == Rule(Table[grammar], Entry.param)
                          rhs  == rule.rhs
                      IN  /\ Len(rhs) < Len(stack)
                          /\ \A i \in DOMAIN rhs : results[Len(results) - Len(rhs) + i].sym = rhs[i]
                          /\ Goto(stack[Len(stack) - Len(rhs)], rule.lhs) # NoState
    BY DEF ArgumentsFit
  <2>1. PICK p : p = Table[grammar]
    OBVIOUS
  <2>2. PICK r : r = Entry.param
    OBVIOUS
  <2>3. TableTyped(p) /\ ItemsRight(p) /\ StackOK(p, stack, results)
    BY <2>1, TablesRight DEF IInv
  <2>4. PICK n : n = Len(Rule(p, r).rhs)
    OBVIOUS
  <2>5. <<r, n>> \in p.items[stack[Len(stack)]]
    BY <2>1, <2>2, <2>4, EntryRight DEF Top
  <2>6. /\ n < Len(stack) /\ r \in DOMAIN p.rules
        /\ OnTop(results, Rule(p, r).rhs, n)
    BY <2>3, <2>5, HandleOnTop
  <2>7. Rule(p, r).rhs \in Seq(STRING)
    <3> DEFINE T == [lhs : STRING, rhs : Seq(STRING)]
    <3>1. p.rules \in Seq(T)
      BY <2>3, Zenon DEF TableTyped
    <3>2. p.rules[r] \in T
      <4> HIDE DEF T
      <4> QED BY <3>1, <2>6
    <3> QED BY <3>2 DEF Rule
  <2>8. DOMAIN Rule(p, r).rhs = 1 .. Len(Rule(p, r).rhs) /\ Len(results) = Len(stack)
    BY <2>3, <2>7 DEF StackOK
  <2>9. Goto(stack[Len(stack) - n], Rule(p, r).lhs) # NoState
    <3>1. Rule(p, r).lhs # Root
      BY <2>1, <2>2, EntryRight
    <3>2. PICK below : below = stack[Len(stack) - n]
      OBVIOUS
    <3>3. /\ Rule(p, r).lhs \in DOMAIN p.goto[below]
          /\ p.goto[below][Rule(p, r).lhs] \in States(p)
      BY <2>3, <2>5, <3>1, <3>2, Reducible
    <3>4. NoState \notin States(p)
      BY <2>3, Zenon DEF TableTyped
    <3> QED BY <2>1, <3>2, <3>3, <3>4 DEF Goto
  <2> QED BY <2>1, <2>2, <2>4, <2>6, <2>8, <2>9 DEF OnTop
<1> QED BY <1>1, Invariance, PTL

\* An accepted input has been read to its end and reduced to the start symbol.
THEOREM AcceptsWhole == Spec => []WholeAccepted
<1>1. IInv => WholeAccepted
  BY DEF IInv
<1> QED BY <1>1, Invariance, PTL

-----------------------------------------------------------------------------
(* The derivation.                                                         *)

Sym == STRING \cup {"none"}

\* Symbols y come from x by rule r at the last nonterminal of x.
Rightmost(p, r, x, y) ==
  \E a \in Seq(Sym), c \in Seq(Sym \ Nonterminals(p)) :
    /\ x = (a \o <<Rule(p, r).lhs>>) \o c
    /\ y = (a \o Rule(p, r).rhs) \o c

\* So does y from x by the rules, the last one first; the forms are what is
\* between them.
Derivation(p, rules, x, y) ==
  \E forms \in [1 .. Len(rules) + 1 -> Seq(Sym)] :
    /\ forms[1] = y /\ forms[Len(rules) + 1] = x
    /\ \A i \in 1 .. Len(rules) : Rightmost(p, rules[i], forms[i + 1], forms[i])

\* The invariant about the output.
Derived == Derivation(Table[grammar], output, Symbols, SubSeq(input, 1, pos - 1))

LEMMA RuleTyped ==
  ASSUME NEW p, TableTyped(p), NEW r \in DOMAIN p.rules
  PROVE  /\ Rule(p, r).lhs \in STRING /\ Rule(p, r).lhs \in Sym /\ Rule(p, r).rhs \in Seq(Sym)
         /\ Rule(p, r).lhs \in Nonterminals(p)
<1> DEFINE T == [lhs : STRING, rhs : Seq(STRING)]
<1>1. p.rules \in Seq(T)
  BY Zenon DEF TableTyped
<1>2. p.rules[r] \in T
  <2> HIDE DEF T
  <2> QED BY <1>1
<1>3. Rule(p, r).lhs \in STRING /\ Rule(p, r).rhs \in Seq(STRING)
  BY <1>2 DEF Rule
<1>4. STRING \subseteq Sym
  BY DEF Sym
<1>5. Rule(p, r).rhs \in Seq(Sym)
  BY <1>3, <1>4, SeqMonotonic, Zenon
<1> QED BY <1>3, <1>4, <1>5 DEF Nonterminals

\* A token behind both.
LEMMA RightmostAppend ==
  ASSUME NEW p, TableTyped(p), NEW r \in DOMAIN p.rules, NEW x, NEW y, Rightmost(p, r, x, y),
         NEW t \in Sym \ Nonterminals(p)
  PROVE  Rightmost(p, r, Append(x, t), Append(y, t))
<1>1. PICK a \in Seq(Sym), c \in Seq(Sym \ Nonterminals(p)) :
        /\ x = (a \o <<Rule(p, r).lhs>>) \o c
        /\ y = (a \o Rule(p, r).rhs) \o c
  BY Zenon DEF Rightmost
<1>2. /\ Append(c, t) \in Seq(Sym \ Nonterminals(p)) /\ Append(c, t) = c \o <<t>>
      /\ c \in Seq(Sym) /\ <<t>> \in Seq(Sym)
  <2>1. Append(c, t) \in Seq(Sym \ Nonterminals(p)) /\ Append(c, t) = c \o <<t>>
    BY AppendProperties, AppendIsConcat, Zenon
  <2> QED BY <2>1
<1>3. ASSUME NEW b \in Seq(Sym)
      PROVE  Append((a \o b) \o c, t) = (a \o b) \o Append(c, t)
  <2>1. a \o b \in Seq(Sym)
    BY ConcatProperties, Zenon
  <2>2. (a \o b) \o c \in Seq(Sym)
    BY <1>2, <2>1, ConcatProperties, Zenon
  <2>3. Append((a \o b) \o c, t) = ((a \o b) \o c) \o <<t>>
    BY <2>2, AppendIsConcat, Zenon
  <2>4. PICK S : S = Sym
    OBVIOUS
  <2>5. PICK u \in Seq(S) : u = a \o b
    BY <2>1, <2>4
  <2>6. (u \o c) \o <<t>> = u \o (c \o <<t>>)
    <3>1. c \in Seq(S) /\ <<t>> \in Seq(S)
      BY <1>2, <2>4
    <3> QED BY <3>1, ConcatAssociative
  <2> QED BY <1>2, <2>3, <2>5, <2>6
<1>4. <<Rule(p, r).lhs>> \in Seq(Sym) /\ Rule(p, r).rhs \in Seq(Sym)
  BY RuleTyped
<1> QED BY <1>1, <1>2, <1>3, <1>4, Zenon DEF Rightmost

\* A shift puts the token behind all that was derived so far.
LEMMA DerivationShift ==
  ASSUME NEW p, TableTyped(p), NEW rules \in Seq(DOMAIN p.rules), NEW x, NEW y,
         Derivation(p, rules, x, y), NEW t \in Sym \ Nonterminals(p)
  PROVE  Derivation(p, rules, Append(x, t), Append(y, t))
<1>1. PICK forms \in [1 .. Len(rules) + 1 -> Seq(Sym)] :
        /\ forms[1] = y /\ forms[Len(rules) + 1] = x
        /\ \A i \in 1 .. Len(rules) : Rightmost(p, rules[i], forms[i + 1], forms[i])
  BY DEF Derivation
<1> DEFINE later == [i \in 1 .. Len(rules) + 1 |-> Append(forms[i], t)]
<1>2. Len(rules) \in Nat
  OBVIOUS
<1>3. later \in [1 .. Len(rules) + 1 -> Seq(Sym)]
  BY AppendProperties
<1>4. later[1] = Append(y, t) /\ later[Len(rules) + 1] = Append(x, t)
  BY <1>1, <1>2
<1>5. ASSUME NEW i \in 1 .. Len(rules)
      PROVE  Rightmost(p, rules[i], later[i + 1], later[i])
  <2>1. later[i + 1] = Append(forms[i + 1], t) /\ later[i] = Append(forms[i], t)
    BY <1>2
  <2>2. rules[i] \in DOMAIN p.rules
    OBVIOUS
  <2>3. Rightmost(p, rules[i], forms[i + 1], forms[i])
    BY <1>1
  <2> QED BY <2>1, <2>2, <2>3, RightmostAppend
<1> HIDE DEF later
<1> QED BY <1>3, <1>4, <1>5 DEF Derivation

\* A reduction puts one more form behind the others.
LEMMA DerivationReduce ==
  ASSUME NEW p, NEW rules \in Seq(DOMAIN p.rules), NEW x, NEW y, Derivation(p, rules, x, y),
         NEW r \in DOMAIN p.rules, NEW z \in Seq(Sym), Rightmost(p, r, z, x)
  PROVE  Derivation(p, Append(rules, r), z, y)
<1>1. PICK forms \in [1 .. Len(rules) + 1 -> Seq(Sym)] :
        /\ forms[1] = y /\ forms[Len(rules) + 1] = x
        /\ \A i \in 1 .. Len(rules) : Rightmost(p, rules[i], forms[i + 1], forms[i])
  BY DEF Derivation
<1>2. PICK more : more = Append(rules, r)
  OBVIOUS
<1>3. /\ Len(rules) \in Nat /\ Len(more) = Len(rules) + 1 /\ more[Len(rules) + 1] = r
      /\ \A i \in 1 .. Len(rules) : more[i] = rules[i]
  BY <1>2, AppendFacts
<1> DEFINE later == [i \in 1 .. Len(more) + 1 |-> IF i = Len(more) + 1 THEN z ELSE forms[i]]
<1>4. later \in [1 .. Len(more) + 1 -> Seq(Sym)]
  BY <1>3
<1>5. later[1] = y /\ later[Len(more) + 1] = z
  BY <1>1, <1>3
<1>6. ASSUME NEW i \in 1 .. Len(more)
      PROVE  Rightmost(p, more[i], later[i + 1], later[i])
  <2>1. CASE i = Len(more)
    <3>1. later[i + 1] = z /\ later[i] = x /\ more[i] = r
      BY <1>1, <1>3, <2>1
    <3> QED BY <3>1
  <2>2. CASE i \in 1 .. Len(rules)
    <3>1. later[i + 1] = forms[i + 1] /\ later[i] = forms[i] /\ more[i] = rules[i]
      BY <1>3, <2>2
    <3> QED BY <1>1, <2>2, <3>1
  <2>3. i = Len(more) \/ i \in 1 .. Len(rules)
    BY <1>3
  <2> QED BY <2>1, <2>2, <2>3
<1> HIDE DEF later
<1> QED BY <1>2, <1>4, <1>5, <1>6 DEF Derivation

\* There is only one place where a rule can have been reduced to.
LEMMA RightmostUndone ==
  ASSUME NEW p, TableTyped(p), NEW r \in DOMAIN p.rules, NEW x, NEW y, Rightmost(p, r, x, y)
  PROVE  Undo(p, r, x) = y
<1> DEFINE A == Rule(p, r).lhs
           T == Sym \ Nonterminals(p)
<1>1. PICK a \in Seq(Sym), c \in Seq(T) :
        /\ x = (a \o <<A>>) \o c
        /\ y = (a \o Rule(p, r).rhs) \o c
  BY Zenon DEF Rightmost
<1>2. /\ A \in Sym /\ A \in Nonterminals(p) /\ <<A>> \in Seq(Sym) /\ Len(<<A>>) = 1
      /\ <<A>>[1] = A
  BY RuleTyped
<1>3. PICK b \in Seq(Sym) : b = a \o <<A>>
  BY <1>2, ConcatProperties, Zenon
<1>4. PICK n \in Nat : n = Len(a)
  OBVIOUS
<1>5. c \in Seq(Sym)
  OBVIOUS
<1>6. Len(b) = n + 1 /\ b[n + 1] = A /\ \A i \in 1 .. n : b[i] = a[i]
  BY <1>2, <1>3, <1>4, ConcatProperties
<1>7. /\ x = b \o c /\ x \in Seq(Sym) /\ Len(x) = n + 1 + Len(c) /\ Len(c) \in Nat
      /\ DOMAIN x = 1 .. n + 1 + Len(c)
      /\ \A i \in 1 .. n + 1 : x[i] = b[i]
      /\ \A i \in n + 2 .. Len(x) : x[i] = c[i - n - 1]
  <2>1. x = b \o c
    BY <1>1, <1>3
  <2>2. /\ b \o c \in Seq(Sym) /\ Len(b \o c) = Len(b) + Len(c)
        /\ \A i \in 1 .. Len(b) + Len(c) : (b \o c)[i] = IF i <= Len(b) THEN b[i] ELSE c[i - Len(b)]
    BY <1>5, ConcatProperties, Zenon
  <2> HIDE DEF T
  <2> QED BY <1>4, <1>5, <1>6, <2>1, <2>2
<1>8. \A i \in n + 2 .. Len(x) : x[i] \notin Nonterminals(p)
  <2> TAKE i \in n + 2 .. Len(x)
  <2>1. i - n - 1 \in 1 .. Len(c)
    BY <1>7
  <2> QED BY <1>7, <2>1
<1> DEFINE last == {i \in DOMAIN x : /\ x[i] = A
                                     /\ \A j \in i + 1 .. Len(x) : x[j] \notin Nonterminals(p)}
<1>9. last = {n + 1}
  <2>1. n + 1 \in last
    <3>1. n + 1 \in DOMAIN x /\ x[n + 1] = A
      BY <1>6, <1>7
    <3>2. \A j \in n + 1 + 1 .. Len(x) : x[j] \notin Nonterminals(p)
      BY <1>8
    <3> QED BY <3>1, <3>2
  <2>2. ASSUME NEW i \in last, i # n + 1 PROVE FALSE
    <3>1. i \in 1 .. Len(x) /\ x[i] = A /\ \A j \in i + 1 .. Len(x) : x[j] \notin Nonterminals(p)
      BY <1>7
    <3>2. i \notin n + 2 .. Len(x)
      BY <1>2, <1>8, <3>1
    <3>3. n + 1 \in i + 1 .. Len(x)
      BY <1>7, <2>2, <3>1, <3>2
    <3> QED BY <1>2, <1>6, <1>7, <3>1, <3>3
  <2> QED BY <2>1, <2>2
<1>10. (CHOOSE i \in last : TRUE) = n + 1 /\ last # {}
  BY <1>9
<1>11. SubSeq(x, 1, n) = a
  <2>1. /\ SubSeq(x, 1, n) \in Seq(Sym) /\ Len(SubSeq(x, 1, n)) = n
        /\ \A i \in 1 .. n : SubSeq(x, 1, n)[i] = x[i]
    <3>1. \A i \in 1 .. n : x[i] \in Sym
      BY <1>7
    <3> QED BY <3>1, SubSeqProperties
  <2>2. \A i \in 1 .. n : SubSeq(x, 1, n)[i] = a[i]
    BY <1>6, <1>7, <2>1
  <2> QED BY <1>4, <2>1, <2>2, SeqEqual
<1>12. SubSeq(x, n + 2, Len(x)) = c
  <2>1. n + 2 \in Int /\ Len(x) \in Int /\ Len(x) - (n + 2) + 1 = Len(c)
    BY <1>7
  <2>2. /\ SubSeq(x, n + 2, Len(x)) \in Seq(Sym) /\ Len(SubSeq(x, n + 2, Len(x))) = Len(c)
        /\ \A i \in 1 .. Len(c) : SubSeq(x, n + 2, Len(x))[i] = x[n + 2 + i - 1]
    <3>1. \A i \in n + 2 .. Len(x) : x[i] \in Sym
      BY <1>7
    <3> HIDE DEF T
    <3> QED BY <1>7, <2>1, <3>1, SubSeqProperties
  <2>3. \A i \in 1 .. Len(c) : SubSeq(x, n + 2, Len(x))[i] = c[i]
    <3> TAKE i \in 1 .. Len(c)
    <3>1. n + 2 + i - 1 \in n + 2 .. Len(x) /\ n + 2 + i - 1 - n - 1 = i
      BY <1>7
    <3> QED BY <1>7, <2>2, <3>1
  <2> QED BY <1>5, <2>2, <2>3, SeqEqual
<1>13. Undo(p, r, x) = (SubSeq(x, 1, (n + 1) - 1) \o Rule(p, r).rhs) \o SubSeq(x, (n + 1) + 1, Len(x))
  BY <1>10, Zenon DEF Undo
<1>14. (n + 1) - 1 = n /\ (n + 1) + 1 = n + 2
  OBVIOUS
<1> QED BY <1>1, <1>11, <1>12, <1>13, <1>14

\* What the rules are undone to is therefore what they derive.
LEMMA DerivationUndone ==
  ASSUME NEW p, TableTyped(p), NEW rules \in Seq(DOMAIN p.rules), NEW x, NEW y,
         Derivation(p, rules, x, y)
  PROVE  Undone(p, rules, x) = y
<1>1. PICK forms \in [1 .. Len(rules) + 1 -> Seq(Sym)] :
        /\ forms[1] = y /\ forms[Len(rules) + 1] = x
        /\ \A i \in 1 .. Len(rules) : Rightmost(p, rules[i], forms[i + 1], forms[i])
  BY DEF Derivation
<1>2. PICK n \in Nat : n = Len(rules)
  OBVIOUS
<1> DEFINE Def(f) == f = [i \in 1 .. Len(rules) + 1 |-> IF i = Len(rules) + 1 THEN x
                                                       ELSE Undo(p, rules[i], f[i + 1])]
           before == CHOOSE f : Def(f)
           Differ(i) == before[i] # forms[i]
<1>3. \A i \in 1 .. n : Undo(p, rules[i], forms[i + 1]) = forms[i]
  <2> TAKE i \in 1 .. n
  <2>1. rules[i] \in DOMAIN p.rules
    BY <1>2
  <2> QED BY <1>1, <1>2, <2>1, RightmostUndone
<1>4. Def(forms)
  <2>1. ASSUME NEW i \in 1 .. n + 1
        PROVE  forms[i] = IF i = n + 1 THEN x ELSE Undo(p, rules[i], forms[i + 1])
    <3>1. i = n + 1 \/ i \in 1 .. n
      OBVIOUS
    <3> QED BY <1>1, <1>2, <1>3, <3>1
  <2> QED BY <1>2, <2>1
<1>5. Def(before)
  BY <1>4, Zenon
<1> DEFINE Bad == {k \in 0 .. n : Differ(n + 1 - k)}
<1> HIDE DEF before
<1>6. /\ before[n + 1] = x
      /\ \A i \in 1 .. n : before[i] = Undo(p, rules[i], before[i + 1])
  <2>1. n + 1 \in 1 .. n + 1 /\ \A i \in 1 .. n : i \in 1 .. n + 1 /\ i # n + 1
    OBVIOUS
  <2> QED BY <1>2, <1>5, <2>1
<1>7. Bad = {}
  <2>1. ASSUME Bad # {} PROVE FALSE
    <3>1. PICK k \in Bad : \A j \in Bad : k <= j
      <4>1. Bad \in SUBSET Nat
        OBVIOUS
      <4> QED BY <2>1, <4>1, LeastExists
    <3>2. k \in 0 .. n /\ before[n + 1 - k] # forms[n + 1 - k]
      BY <3>1
    <3>3. k # 0
      BY <1>1, <1>2, <1>6, <3>2
    <3>4. k - 1 \in 0 .. n /\ n + 1 - (k - 1) = (n + 1 - k) + 1 /\ n + 1 - k \in 1 .. n
      BY <3>2, <3>3
    <3>5. k - 1 \notin Bad
      <4>1. ~(k <= k - 1)
        BY <3>2
      <4> HIDE DEF Bad
      <4> QED BY <3>1, <4>1
    <3>6. before[(n + 1 - k) + 1] = forms[(n + 1 - k) + 1]
      <4>1. ~Differ(n + 1 - (k - 1))
        BY <3>4, <3>5
      <4> QED BY <3>4, <4>1
    <3> QED BY <1>3, <1>6, <3>2, <3>4, <3>6
  <2> QED BY <2>1
<1>8. before[1] = forms[1]
  <2>1. n \in 0 .. n /\ n + 1 - n = 1
    OBVIOUS
  <2>2. ~Differ(n + 1 - n)
    BY <1>7, <2>1
  <2> QED BY <2>1, <2>2
<1>9. Undone(p, rules, x) = before[1]
  BY DEF Undone, before
<1> QED BY <1>1, <1>8, <1>9

\* The symbols that results stand for, without the first one, which stands for none.
SymbolsOf(rs) == [i \in 1 .. Len(rs) - 1 |-> rs[i + 1].sym]

LEMMA SymbolsTyped ==
  ASSUME NEW rs \in Seq(Result), rs # <<>>
  PROVE  /\ SymbolsOf(rs) \in Seq(Sym) /\ Len(SymbolsOf(rs)) = Len(rs) - 1
         /\ \A i \in 1 .. Len(rs) - 1 : SymbolsOf(rs)[i] = rs[i + 1].sym
<1>1. Len(rs) \in Nat /\ Len(rs) - 1 \in Nat
  OBVIOUS
<1>2. \A i \in 1 .. Len(rs) - 1 : rs[i + 1].sym \in Sym
  <2> TAKE i \in 1 .. Len(rs) - 1
  <2>1. rs[i + 1] \in Result
    <3>1. i + 1 \in 1 .. Len(rs)
      BY <1>1
    <3> HIDE DEF Result
    <3> QED BY <3>1
  <2> QED BY <2>1 DEF Result, Sym
<1> QED BY <1>1, <1>2 DEF SymbolsOf

LEMMA SymbolsPush ==
  ASSUME NEW rs \in Seq(Result), rs # <<>>, NEW e \in Result, e.sym \in Sym
  PROVE  SymbolsOf(Append(rs, e)) = Append(SymbolsOf(rs), e.sym)
<1>1. PICK ss : ss = SymbolsOf(rs)
  OBVIOUS
<1>2. PICK qs : qs = Append(rs, e)
  OBVIOUS
<1>3. PICK n \in Nat : n = Len(ss) /\ Len(rs) = n + 1
  BY <1>1, SymbolsTyped
<1>4. /\ qs \in Seq(Result) /\ qs # <<>> /\ Len(qs) = n + 2 /\ qs[n + 2] = e
      /\ \A i \in 1 .. n + 1 : qs[i] = rs[i]
  <2> HIDE DEF Result
  <2> QED BY <1>2, <1>3, AppendFacts
<1>5. ss \in Seq(Sym) /\ \A i \in 1 .. n : ss[i] = rs[i + 1].sym
  BY <1>1, <1>3, SymbolsTyped
<1>6. /\ SymbolsOf(qs) \in Seq(Sym) /\ Len(SymbolsOf(qs)) = n + 1
      /\ \A i \in 1 .. n + 1 : SymbolsOf(qs)[i] = qs[i + 1].sym
  BY <1>3, <1>4, SymbolsTyped
<1>7. /\ Append(ss, e.sym) \in Seq(Sym) /\ Len(Append(ss, e.sym)) = n + 1
      /\ Append(ss, e.sym)[n + 1] = e.sym
      /\ \A i \in 1 .. n : Append(ss, e.sym)[i] = ss[i]
  BY <1>3, <1>5, AppendFacts
<1>8. \A i \in 1 .. n + 1 : SymbolsOf(qs)[i] = Append(ss, e.sym)[i]
  <2> TAKE i \in 1 .. n + 1
  <2>1. CASE i = n + 1
    BY <1>4, <1>6, <1>7, <2>1
  <2>2. CASE i \in 1 .. n
    <3>1. qs[i + 1] = rs[i + 1]
      BY <1>4, <2>2
    <3> QED BY <1>5, <1>6, <1>7, <2>2, <3>1
  <2>3. i = n + 1 \/ i \in 1 .. n
    OBVIOUS
  <2> QED BY <2>1, <2>2, <2>3
<1> QED BY <1>1, <1>2, <1>6, <1>7, <1>8, SeqEqual

LEMMA SymbolsPop ==
  ASSUME NEW rs \in Seq(Result), NEW n \in Nat, n < Len(rs), NEW rhs \in Seq(Sym),
         Len(rhs) = n, OnTop(rs, rhs, n)
  PROVE  /\ Rest(rs, n) \in Seq(Result) /\ Rest(rs, n) # <<>>
         /\ SymbolsOf(rs) = SymbolsOf(Rest(rs, n)) \o rhs
<1>1. PICK k \in Nat : Len(rs) = k + n + 1
  <2>1. PICK l \in Nat : l = Len(rs)
    OBVIOUS
  <2>2. l - n - 1 \in Nat /\ l = (l - n - 1) + n + 1
    BY <2>1
  <2> QED BY <2>1, <2>2
<1>2. PICK below : below = Rest(rs, n)
  OBVIOUS
<1>3. /\ below \in Seq(Result) /\ Len(below) = Len(rs) - n
      /\ \A i \in 1 .. Len(rs) - n : below[i] = rs[i]
  <2> HIDE DEF Result
  <2> QED BY <1>2, RestFacts
<1>4. Len(rs) - n = k + 1
  BY <1>1
<1>5. below # <<>> /\ Len(below) - 1 = k
  BY <1>3, <1>4
<1>6. PICK a : a = SymbolsOf(below)
  OBVIOUS
<1>7. a \in Seq(Sym) /\ Len(a) = k /\ \A i \in 1 .. k : a[i] = rs[i + 1].sym
  <2>1. a \in Seq(Sym) /\ Len(a) = k /\ \A i \in 1 .. k : a[i] = below[i + 1].sym
    BY <1>3, <1>5, <1>6, SymbolsTyped
  <2>2. \A i \in 1 .. k : below[i + 1] = rs[i + 1]
    BY <1>3, <1>4
  <2> QED BY <2>1, <2>2
<1>8. /\ a \o rhs \in Seq(Sym) /\ Len(a \o rhs) = k + n
      /\ \A i \in 1 .. k + n : (a \o rhs)[i] = IF i <= k THEN a[i] ELSE rhs[i - k]
  BY <1>7, ConcatProperties
<1>9. /\ SymbolsOf(rs) \in Seq(Sym) /\ Len(SymbolsOf(rs)) = k + n
      /\ \A i \in 1 .. k + n : SymbolsOf(rs)[i] = rs[i + 1].sym
  <2>1. rs # <<>> /\ Len(rs) - 1 = k + n
    BY <1>1
  <2> QED BY <2>1, SymbolsTyped
<1>10. \A i \in 1 .. k + n : SymbolsOf(rs)[i] = (a \o rhs)[i]
  <2> TAKE i \in 1 .. k + n
  <2>1. CASE i <= k
    <3>1. i \in 1 .. k
      BY <2>1
    <3> QED BY <1>7, <1>8, <1>9, <2>1, <3>1
  <2>2. CASE ~(i <= k)
    <3>1. i - k \in 1 .. n /\ Len(rs) - n + (i - k) = i + 1
      BY <1>1, <2>2
    <3>2. rs[i + 1].sym = rhs[i - k]
      BY <3>1 DEF OnTop
    <3> QED BY <1>8, <1>9, <2>2, <3>2
  <2> QED BY <2>1, <2>2
<1>11. SymbolsOf(rs) = a \o rhs
  BY <1>8, <1>9, <1>10, SeqEqual
<1> QED BY <1>2, <1>3, <1>5, <1>6, <1>11

\* A handle on top of the stack, replaced by the left side of its rule.
LEMMA SymbolsReduce ==
  ASSUME NEW p, TableTyped(p), NEW r \in DOMAIN p.rules, NEW rs \in Seq(Result),
         NEW n \in Nat, Len(Rule(p, r).rhs) = n, n < Len(rs), OnTop(rs, Rule(p, r).rhs, n),
         NEW e \in Result, e.sym = Rule(p, r).lhs
  PROVE  Rightmost(p, r, SymbolsOf(Append(Rest(rs, n), e)), SymbolsOf(rs))
<1>1. PICK A : A = Rule(p, r).lhs
  OBVIOUS
<1>2. PICK rhs : rhs = Rule(p, r).rhs
  OBVIOUS
<1>3. A \in Sym /\ rhs \in Seq(Sym)
  BY <1>1, <1>2, RuleTyped
<1>4. PICK below : below = Rest(rs, n)
  OBVIOUS
<1>5. PICK a : a = SymbolsOf(below)
  OBVIOUS
<1>6. below \in Seq(Result) /\ below # <<>> /\ SymbolsOf(rs) = a \o rhs
  BY <1>2, <1>3, <1>4, <1>5, SymbolsPop
<1>7. a \in Seq(Sym)
  BY <1>5, <1>6, SymbolsTyped
<1>8. SymbolsOf(Append(below, e)) = (a \o <<A>>) \o <<>>
  <2>1. SymbolsOf(Append(below, e)) = Append(a, A)
    BY <1>1, <1>3, <1>5, <1>6, SymbolsPush
  <2>2. Append(a, A) = a \o <<A>> /\ Append(a, A) \in Seq(Sym)
    BY <1>3, <1>7, AppendIsConcat, AppendProperties, Zenon
  <2> QED BY <2>1, <2>2, ConcatEmptySeq, Zenon
<1>9. SymbolsOf(rs) = (a \o rhs) \o <<>>
  <2>1. a \o rhs \in Seq(Sym)
    BY <1>3, <1>7, ConcatProperties, Zenon
  <2> QED BY <1>6, <2>1, ConcatEmptySeq, Zenon
<1>10. <<>> \in Seq(Sym \ Nonterminals(p))
  OBVIOUS
<1> QED BY <1>1, <1>2, <1>4, <1>7, <1>8, <1>9, <1>10, Zenon DEF Rightmost

LEMMA DerivedInit == Init => Derived
<1> SUFFICES ASSUME Init PROVE Derived
  OBVIOUS
<1>1. Symbols = <<>> /\ SubSeq(input, 1, pos - 1) = <<>> /\ Len(output) = 0
  <2>1. Len(results) - 1 = 0 /\ pos - 1 = 0
    BY DEF Init
  <2>2. \A i \in 1 .. 0 : FALSE
    OBVIOUS
  <2> QED BY <2>1, <2>2 DEF Init, Symbols
<1>2. PICK forms : forms = [i \in 1 .. 1 |-> <<>>]
  OBVIOUS
<1>3. forms \in [1 .. Len(output) + 1 -> Seq(Sym)] /\ forms[1] = <<>> /\ forms[Len(output) + 1] = <<>>
  <2>1. Len(output) + 1 = 1
    BY <1>1
  <2> QED BY <1>2, <2>1
<1>4. \A i \in 1 .. Len(output) : Rightmost(Table[grammar], output[i], forms[i + 1], forms[i])
  BY <1>1
<1> QED BY <1>1, <1>3, <1>4, Zenon DEF Derived, Derivation

LEMMA DerivedShift ==
  ASSUME IInv, Derived, ShiftToken
  PROVE  Derived'
<1>1. PICK p : p = Table[grammar]
  OBVIOUS
<1>2. PICK t : t = NextToken
  OBVIOUS
<1>3. TableTyped(p) /\ input \in Seq(STRING \ {EOF}) /\ Top \in States(p)
  BY <1>1, TablesRight
<1>4. t # EOF
  BY <1>2, EntryRight DEF ShiftToken
<1>5. t \notin Nonterminals(p)
  <2>1. t \in DOMAIN p.action[Top] /\ p.action[Top][t].do = "shift"
    BY <1>1, <1>2 DEF ShiftToken, Expected, Entry
  <2> QED BY <1>3, <2>1, Zenon DEF TableTyped
<1>6. pos \in 1 .. Len(input) /\ t = input[pos]
  BY <1>2, <1>3, <1>4 DEF NextToken, IInv, TypeOK
<1>7. t \in STRING /\ t \in Sym \ Nonterminals(p)
  BY <1>3, <1>5, <1>6 DEF Sym
<1>8. SubSeq(input, 1, (pos + 1) - 1) = Append(SubSeq(input, 1, pos - 1), t)
  <2>1. /\ 1 \in 1 .. Len(input) /\ pos \in 1 .. Len(input) /\ (pos + 1) - 1 = pos
        /\ input \in Seq(Sym)
    <3>1. STRING \ {EOF} \subseteq Sym
      BY DEF Sym
    <3>2. input \in Seq(Sym)
      BY <1>3, <3>1, SeqMonotonic, Zenon
    <3> QED BY <1>6, <3>2
  <2>2. SubSeq(input, 1, pos) = SubSeq(input, 1, pos - 1) \o <<t>>
    BY <1>6, <2>1, SubSeqRecursiveSecond
  <2>3. SubSeq(input, 1, pos - 1) \in Seq(Sym)
    BY <2>1
  <2> QED BY <1>7, <2>1, <2>2, <2>3, AppendIsConcat
<1>9. /\ results' = Append(results, [sym |-> t, from |-> pos, to |-> pos]) /\ pos' = pos + 1
      /\ UNCHANGED <<grammar, input, output>>
  BY <1>2 DEF ShiftToken
<1>10. Symbols' = Append(Symbols, t)
  <2>1. PICK e : e = [sym |-> t, from |-> pos, to |-> pos]
    OBVIOUS
  <2>2. e \in Result /\ e.sym = t
    BY <1>6, <1>7, <2>1 DEF Result
  <2>3. results \in Seq(Result) /\ results # <<>>
    BY DEF IInv, StackOK
  <2>4. SymbolsOf(Append(results, e)) = Append(SymbolsOf(results), t)
    BY <1>7, <2>2, <2>3, SymbolsPush
  <2> QED BY <1>9, <2>1, <2>4 DEF Symbols, SymbolsOf
<1>11. output \in Seq(DOMAIN p.rules) /\ Derivation(p, output, Symbols, SubSeq(input, 1, pos - 1))
  BY <1>1 DEF IInv, TypeOK, Derived
<1>12. Derivation(p, output, Append(Symbols, t), Append(SubSeq(input, 1, pos - 1), t))
  BY <1>3, <1>7, <1>11, DerivationShift
<1> QED BY <1>1, <1>8, <1>9, <1>10, <1>12 DEF Derived

LEMMA DerivedReduce ==
  ASSUME IInv, Derived, ReduceRule
  PROVE  Derived'
<1>1. PICK p : p = Table[grammar]
  OBVIOUS
<1>2. PICK r : r = Entry.param
  OBVIOUS
<1>3. PICK n : n = Len(Rule(p, r).rhs)
  OBVIOUS
<1>4. PICK A : A = Rule(p, r).lhs
  OBVIOUS
<1>5. PICK e : e = [sym |-> A, from |-> Popped(results, n)[1].from, to |-> Popped(results, n)[n].to]
  OBVIOUS
<1>6. /\ TableTyped(p) /\ ItemsRight(p) /\ StackOK(p, stack, results) /\ Tiles(results, pos - 1)
      /\ results \in Seq(Result) /\ results # <<>> /\ Len(results) = Len(stack)
  BY <1>1, TablesRight DEF IInv, Tiled, StackOK
<1>7. <<r, n>> \in p.items[stack[Len(stack)]] /\ Rule(p, r).rhs # <<>>
  BY <1>1, <1>2, <1>3, EntryRight DEF ReduceRule, Top
<1>8. n \in Nat /\ n < Len(results) /\ r \in DOMAIN p.rules /\ OnTop(results, Rule(p, r).rhs, n)
  BY <1>6, <1>7, HandleOnTop
<1>9. A \in STRING /\ n # 0
  BY <1>3, <1>4, <1>6, <1>7, <1>8, RuleTyped
<1>10. e \in Result /\ e.sym = A
  BY <1>5, <1>6, <1>8, <1>9, ReduceTile
<1>11. /\ results' = Append(Rest(results, n), e) /\ output' = Append(output, r)
       /\ UNCHANGED <<grammar, input, pos>>
  BY <1>1, <1>2, <1>3, <1>4, <1>5 DEF ReduceRule
<1>12. Rightmost(p, r, SymbolsOf(results'), SymbolsOf(results))
  BY <1>3, <1>4, <1>6, <1>8, <1>10, <1>11, SymbolsReduce
<1>13. SymbolsOf(results') \in Seq(Sym)
  <2>1. Rest(results, n) \in Seq(Result)
    <3> HIDE DEF Result
    <3> QED BY <1>6, <1>8, RestFacts
  <2>2. results' \in Seq(Result) /\ results' # <<>>
    <3> HIDE DEF Result
    <3> QED BY <1>10, <1>11, <2>1, AppendFacts
  <2> QED BY <2>2, SymbolsTyped
<1>14. Symbols = SymbolsOf(results) /\ Symbols' = SymbolsOf(results')
  BY DEF Symbols, SymbolsOf
<1>15. output \in Seq(DOMAIN p.rules) /\ Derivation(p, output, Symbols, SubSeq(input, 1, pos - 1))
  BY <1>1 DEF IInv, TypeOK, Derived
<1>16. PICK z \in Seq(Sym) : z = Symbols'
  BY <1>13, <1>14
<1>17. Derivation(p, Append(output, r), z, SubSeq(input, 1, pos - 1))
  <2>1. Rightmost(p, r, z, Symbols)
    BY <1>12, <1>14, <1>16
  <2> QED BY <1>8, <1>15, <2>1, DerivationReduce
<1> QED BY <1>1, <1>11, <1>16, <1>17 DEF Derived

LEMMA DerivedAlways == Spec => []Derived
<1>1. Init => Derived
  BY DerivedInit
<1>2. IInv /\ Derived /\ [Next]_vars => Derived'
  <2> SUFFICES ASSUME IInv, Derived, [Next]_vars PROVE Derived'
    OBVIOUS
  <2>1. CASE ShiftToken
    BY <2>1, DerivedShift
  <2>2. CASE ReduceRule
    BY <2>2, DerivedReduce
  <2>3. CASE AcceptInput \/ Unexpected \/ ActionThrows \/ UNCHANGED vars
    <3>1. UNCHANGED <<grammar, input, pos, results, output>>
      BY <2>3 DEF AcceptInput, Unexpected, ActionThrows, vars
    <3> QED BY <3>1 DEF Derived, Symbols
  <2> QED BY <2>1, <2>2, <2>3 DEF Next
<1> QED BY <1>1, <1>2, Invariance, PTL DEF Spec

\* The rules that the parser returns are a rightmost derivation, backwards, of
\* the tokens read so far from the symbols on the stack.
THEOREM OutputRight == Spec => []OutputDerives
<1>1. IInv /\ Derived => OutputDerives
  <2> SUFFICES ASSUME IInv, Derived PROVE OutputDerives
    OBVIOUS
  <2>1. TableTyped(Table[grammar]) /\ output \in Seq(DOMAIN Table[grammar].rules)
    BY TablesRight DEF IInv, TypeOK
  <2> QED BY <2>1, DerivationUndone DEF Derived, OutputDerives
<1> QED BY <1>1, Invariance, DerivedAlways, PTL

\* What parse accepts is a sentence of the grammar, and the rules that it returns
\* derive it from the start.
THEOREM AcceptedDerived ==
  Spec => [](outcome = "accepted" => Derivation(Table[grammar], output, <<Start>>, input))
<1>1. IInv /\ Derived => (outcome = "accepted" => Derivation(Table[grammar], output, <<Start>>, input))
  <2> SUFFICES ASSUME IInv, Derived, outcome = "accepted"
               PROVE  Derivation(Table[grammar], output, <<Start>>, input)
    OBVIOUS
  <2>1. /\ pos = Len(input) + 1 /\ Len(results) = 2 /\ results[2].sym = Start
    BY DEF IInv, WholeAccepted
  <2>2. Symbols = <<Start>>
    <3>1. Len(results) - 1 = 1 /\ 1 + 1 = 2
      BY <2>1
    <3> QED BY <2>1, <3>1 DEF Symbols
  <2>3. SubSeq(input, 1, pos - 1) = input
    <3>1. input \in Seq(STRING \ {EOF})
      BY TablesRight
    <3>2. pos - 1 = Len(input)
      BY <2>1, <3>1
    <3> QED BY <3>1, <3>2, SubSeqFull
  <2> QED BY <2>2, <2>3 DEF Derived
<1> QED BY <1>1, Invariance, DerivedAlways, PTL

-----------------------------------------------------------------------------
(* How many rules are put out.                                             *)

LEMMA TimesGrows ==
  ASSUME NEW a \in Nat, NEW b \in Nat, NEW k \in Nat, a <= b
  PROVE  a * k <= b * k /\ k * a <= k * b /\ a * k \in Nat /\ k * a \in Nat
OBVIOUS

\* b reductions by longer rules, which make n tokens fewer symbols, and u by unit
\* rules, at most U for each symbol that was pushed by a shift or a longer rule.
LEMMA CountBound ==
  ASSUME NEW n \in Nat, NEW b \in Nat, NEW u \in Nat, NEW U \in Nat, NEW R \in Nat,
         b <= n, u <= (n + b) * U, U <= R, b # 0 => U < R
  PROVE  b + u <= 2 * n * R
<1>1. 2 * n \in Nat /\ n + b <= 2 * n
  OBVIOUS
<1>2. u <= (2 * n) * U /\ (2 * n) * U \in Nat
  <2>1. (n + b) * U <= (2 * n) * U /\ (n + b) * U \in Nat /\ (2 * n) * U \in Nat
    BY <1>1, TimesGrows
  <2> QED BY <2>1
<1>3. CASE b = 0
  <2>1. (2 * n) * U <= (2 * n) * R /\ (2 * n) * R \in Nat
    BY <1>1, TimesGrows
  <2> QED BY <1>2, <1>3, <2>1
<1>4. CASE b # 0
  <2>1. (2 * n) * (U + 1) <= (2 * n) * R /\ (2 * n) * R \in Nat
    BY <1>1, <1>4, TimesGrows
  <2>2. (2 * n) * (U + 1) = (2 * n) * U + 2 * n
    OBVIOUS
  <2> QED BY <1>1, <1>2, <2>1, <2>2
<1> QED BY <1>3, <1>4

Units(p) == Cardinality(UnitRules(p))

LEMMA UnitsCounted ==
  ASSUME NEW p, TableTyped(p)
  PROVE  /\ DOMAIN p.rules = 1 .. Len(p.rules) /\ Len(p.rules) \in Nat
         /\ IsFiniteSet(UnitRules(p)) /\ Units(p) \in Nat /\ Units(p) <= Len(p.rules)
         /\ \A r \in DOMAIN p.rules : Len(Rule(p, r).rhs) # 1 => Units(p) < Len(p.rules)
<1>1. DOMAIN p.rules = 1 .. Len(p.rules) /\ Len(p.rules) \in Nat
  <2> DEFINE T == [lhs : STRING, rhs : Seq(STRING)]
  <2>1. p.rules \in Seq(T)
    BY Zenon DEF TableTyped
  <2> HIDE DEF T
  <2> QED BY <2>1
<1>2. IsFiniteSet(1 .. Len(p.rules)) /\ Cardinality(1 .. Len(p.rules)) = Len(p.rules)
  BY <1>1, FS_Interval
<1>3. UnitRules(p) \in SUBSET (1 .. Len(p.rules))
  BY <1>1 DEF UnitRules
<1>4. /\ IsFiniteSet(UnitRules(p)) /\ Cardinality(UnitRules(p)) <= Cardinality(1 .. Len(p.rules))
      /\ Cardinality(1 .. Len(p.rules)) = Cardinality(UnitRules(p)) => 1 .. Len(p.rules) = UnitRules(p)
  BY <1>2, <1>3, FS_Subset
<1>5. Cardinality(UnitRules(p)) \in Nat
  BY <1>4, FS_CardinalityType
<1>6. ASSUME NEW r \in DOMAIN p.rules, Len(Rule(p, r).rhs) # 1
      PROVE  Units(p) < Len(p.rules)
  <2>1. r \notin UnitRules(p)
    BY <1>6 DEF UnitRules
  <2> QED BY <1>1, <1>2, <1>4, <1>5, <2>1 DEF Units
<1> QED BY <1>1, <1>2, <1>4, <1>5, <1>6 DEF Units

\* Each of the last c rules of a sequence takes what the one before it put down.
Chain(p, s, c) ==
  /\ c <= Len(s)
  /\ \A i \in Len(s) - c + 1 .. Len(s) : s[i] \in UnitRules(p)
  /\ \A i \in Len(s) - c + 1 .. Len(s) - 1 : Rule(p, s[i + 1]).rhs[1] = Rule(p, s[i]).lhs

\* A rule that was in such a chain twice would be on a cycle.
LEMMA ChainBounded ==
  ASSUME NEW p, TableTyped(p), NoUnitCycle(p), NEW s \in Seq(DOMAIN p.rules), NEW c \in Nat,
         Chain(p, s, c)
  PROVE  c <= Units(p)
<1>1. PICK n \in Nat : n = Len(s)
  OBVIOUS
<1> DEFINE f == [i \in 1 .. c |-> s[n - c + i]]
<1>2. /\ \A i \in 1 .. c : f[i] \in UnitRules(p)
      /\ \A i \in 1 .. c - 1 : Rule(p, f[i + 1]).rhs[1] = Rule(p, f[i]).lhs
  <2>1. ASSUME NEW i \in 1 .. c PROVE f[i] \in UnitRules(p)
    <3>1. n - c + i \in n - c + 1 .. n
      BY <1>1 DEF Chain
    <3> QED BY <1>1, <3>1 DEF Chain
  <2>2. ASSUME NEW i \in 1 .. c - 1 PROVE Rule(p, f[i + 1]).rhs[1] = Rule(p, f[i]).lhs
    <3>1. n - c + i \in n - c + 1 .. n - 1 /\ n - c + (i + 1) = n - c + i + 1
          /\ i \in 1 .. c /\ i + 1 \in 1 .. c
      BY <1>1 DEF Chain
    <3>2. f[i + 1] = s[n - c + i + 1] /\ f[i] = s[n - c + i]
      BY <3>1
    <3> QED BY <1>1, <3>1, <3>2, Zenon DEF Chain
  <2> QED BY <2>1, <2>2
<1>3. f \in [1 .. c -> UnitRules(p)]
  BY <1>2
<1> HIDE DEF f
<1>4. ASSUME NEW i \in 1 .. c, NEW j \in 1 .. c, i < j, f[i] = f[j] PROVE FALSE
  <2> DEFINE C == {f[k] : k \in i .. j - 1}
  <2>1. C \in (SUBSET UnitRules(p)) \ {{}}
    <3>1. i \in i .. j - 1 /\ i .. j - 1 \subseteq 1 .. c
      BY <1>4
    <3>2. \A k \in i .. j - 1 : f[k] \in UnitRules(p)
      BY <1>2, <3>1
    <3>3. C # {}
      BY <3>1
    <3> QED BY <3>2, <3>3
  <2>2. PICK r \in C : \A t \in C : Rule(p, t).rhs[1] # Rule(p, r).lhs
    <3> HIDE DEF C
    <3> QED BY <2>1, Zenon DEF NoUnitCycle
  <2>3. PICK k \in i .. j - 1 : r = f[k]
    BY <2>2
  <2>4. k \in 1 .. c - 1 /\ (k + 1 \in i .. j - 1 \/ k + 1 = j) /\ i \in i .. j - 1
    BY <1>4
  <2>5. f[k + 1] \in C
    BY <1>4, <2>4
  <2> QED BY <1>2, <2>2, <2>3, <2>4, <2>5
<1>5. f \in Injection(1 .. c, UnitRules(p))
  <2>1. \A i, j \in 1 .. c : f[i] = f[j] => i = j
    <3> TAKE i, j \in 1 .. c
    <3>1. i < j \/ j < i \/ i = j
      OBVIOUS
    <3> QED BY <1>4, <3>1
  <2> QED BY <1>3, <2>1 DEF Injection, IsInjective
<1>6. Cardinality(1 .. c) <= Cardinality(UnitRules(p))
  BY <1>5, UnitsCounted, FS_Injection
<1>7. Cardinality(1 .. c) = c
  <2>1. Cardinality(1 .. c) = IF 1 > c THEN 0 ELSE c - 1 + 1
    BY FS_Interval
  <2> QED BY <2>1
<1> QED BY <1>6, <1>7 DEF Units

\* The invariant about the length of the output, of which b reductions were by
\* longer rules and u by unit rules, the last c of them one after the other.
CountedBy(p, b, u, c) ==
  /\ Len(output) = b + u
  /\ b + (Len(results) - 1) <= pos - 1
  /\ pos = 1 => u = 0
  /\ pos # 1 => u + Units(p) <= (pos - 1 + b) * Units(p) + c
  /\ b # 0 => Units(p) < Len(p.rules)
  /\ Chain(p, output, c)
  /\ c # 0 => Rule(p, output[Len(output)]).lhs = results[Len(results)].sym

Counted == \E b, u, c \in Nat : CountedBy(Table[grammar], b, u, c)

\* A push begins a new chain, whose rules are counted by then.
LEMMA ChainEnds ==
  ASSUME NEW n \in Nat, NEW u \in Nat, NEW U \in Nat, NEW c \in Nat, c <= U,
         u + U <= n * U + c
  PROVE  u + U <= (n + 1) * U
<1>1. n * U \in Nat /\ (n + 1) * U = n * U + U
  OBVIOUS
<1> QED BY <1>1

LEMMA CountedInit == Init => Counted
<1> SUFFICES ASSUME Init PROVE Counted
  OBVIOUS
<1>1. PICK p : p = Table[grammar]
  OBVIOUS
<1>2. output = <<>> /\ Len(output) = 0 /\ Len(results) = 1 /\ pos = 1
  BY DEF Init
<1>3. Chain(p, output, 0)
  BY <1>2 DEF Chain
<1>4. CountedBy(p, 0, 0, 0)
  BY <1>2, <1>3 DEF CountedBy
<1> QED BY <1>1, <1>4 DEF Counted

LEMMA CountedShift ==
  ASSUME IInv, Counted, NoUnitCycle(Table[grammar]), ShiftToken
  PROVE  Counted'
<1>1. PICK p : p = Table[grammar]
  OBVIOUS
<1>2. PICK b \in Nat, u \in Nat, c \in Nat : CountedBy(p, b, u, c)
  BY <1>1 DEF Counted
<1>3. TableTyped(p) /\ output \in Seq(DOMAIN p.rules) /\ pos \in Nat \ {0}
  BY <1>1, TablesRight DEF IInv, TypeOK
<1>4. PICK U \in Nat : U = Units(p)
  BY <1>3, UnitsCounted
<1>5. c <= U
  BY <1>1, <1>2, <1>3, <1>4, ChainBounded DEF CountedBy
<1>6. pos' = pos + 1 /\ UNCHANGED <<grammar, output>> /\ Len(results') = Len(results) + 1
      /\ Len(results) \in Nat
  BY DEF ShiftToken, IInv, TypeOK
<1>7. u + U <= (pos' - 1 + b) * U
  <2>1. CASE pos = 1
    <3>1. u = 0 /\ pos' - 1 + b = b + 1
      BY <1>2, <1>6, <2>1 DEF CountedBy
    <3>2. (b + 1) * U = b * U + U /\ b * U \in Nat
      OBVIOUS
    <3> QED BY <3>1, <3>2
  <2>2. CASE pos # 1
    <3>1. PICK n \in Nat : n = pos - 1 + b
      BY <1>3
    <3>2. u + U <= n * U + c
      BY <1>2, <1>4, <2>2, <3>1 DEF CountedBy
    <3>3. pos' - 1 + b = n + 1
      BY <1>3, <1>6, <3>1
    <3> QED BY <1>5, <3>2, <3>3, ChainEnds
  <2> QED BY <2>1, <2>2
<1>8. Chain(p, output', 0)
  BY <1>3, <1>6 DEF Chain
<1>9. b + (Len(results') - 1) <= pos' - 1 /\ pos' # 1 /\ Len(output') = b + u
      /\ (b # 0 => U < Len(p.rules))
  <2>1. b + (Len(results) - 1) <= pos - 1 /\ Len(output) = b + u /\ (b # 0 => U < Len(p.rules))
    BY <1>2, <1>4, Zenon DEF CountedBy
  <2>2. Len(output') = Len(output) /\ pos' # 1
    BY <1>3, <1>6
  <2> QED BY <1>3, <1>6, <2>1, <2>2
<1>10. (pos' - 1 + b) * U + 0 = (pos' - 1 + b) * U
  <2>1. (pos' - 1 + b) * U \in Int
    BY <1>3, <1>6
  <2> QED BY <2>1
<1>11. CountedBy(p, b, u, 0)'
  BY <1>4, <1>7, <1>8, <1>9, <1>10 DEF CountedBy
<1> QED BY <1>1, <1>6, <1>11 DEF Counted

LEMMA CountedReduce ==
  ASSUME IInv, Counted, NoUnitCycle(Table[grammar]), ReduceRule
  PROVE  Counted'
<1>1. PICK p : p = Table[grammar]
  OBVIOUS
<1>2. PICK r : r = Entry.param
  OBVIOUS
<1>3. PICK n : n = Len(Rule(p, r).rhs)
  OBVIOUS
<1>4. PICK e : e = [sym |-> Rule(p, r).lhs, from |-> Popped(results, n)[1].from,
                    to |-> Popped(results, n)[n].to]
  OBVIOUS
<1>5. PICK b \in Nat, u \in Nat, c \in Nat : CountedBy(p, b, u, c)
  BY <1>1 DEF Counted
<1>6. /\ TableTyped(p) /\ ItemsRight(p) /\ StackOK(p, stack, results) /\ Tiles(results, pos - 1)
      /\ results \in Seq(Result) /\ results # <<>> /\ Len(results) = Len(stack)
      /\ output \in Seq(DOMAIN p.rules) /\ pos \in Nat \ {0}
  BY <1>1, TablesRight DEF IInv, Tiled, StackOK, TypeOK
<1>7. <<r, n>> \in p.items[stack[Len(stack)]] /\ Rule(p, r).rhs # <<>>
  BY <1>1, <1>2, <1>3, EntryRight DEF ReduceRule, Top
<1>8. n \in Nat /\ n < Len(results) /\ r \in DOMAIN p.rules /\ OnTop(results, Rule(p, r).rhs, n)
  BY <1>6, <1>7, HandleOnTop
<1>9. n # 0
  BY <1>3, <1>6, <1>7, <1>8, RuleTyped
<1>10. e \in Result /\ e.sym = Rule(p, r).lhs
  <2>1. Rule(p, r).lhs \in STRING
    BY <1>6, <1>8, RuleTyped
  <2> QED BY <1>4, <1>6, <1>8, <1>9, <2>1, ReduceTile
<1>11. /\ results' = Append(Rest(results, n), e) /\ output' = Append(output, r)
       /\ UNCHANGED <<grammar, input, pos>>
  BY <1>1, <1>2, <1>3, <1>4 DEF ReduceRule
<1>12. /\ Len(results') = Len(results) - n + 1 /\ Len(results) \in Nat
       /\ results'[Len(results')] = e
  <2>1. Rest(results, n) \in Seq(Result) /\ Len(Rest(results, n)) = Len(results) - n
    <3> HIDE DEF Result
    <3> QED BY <1>6, <1>8, RestFacts
  <2>2. PICK below \in Seq(Result) : below = Rest(results, n)
    BY <2>1
  <2>3. Len(Append(below, e)) = Len(below) + 1 /\ Append(below, e)[Len(below) + 1] = e
    <3> HIDE DEF Result
    <3> QED BY <1>10, AppendFacts
  <2> QED BY <1>6, <1>11, <2>1, <2>2, <2>3
<1>13. PICK l \in Nat : l = Len(output)
  BY <1>6
<1>14. /\ Len(output') = l + 1 /\ output'[l + 1] = r
       /\ \A i \in 1 .. l : output'[i] = output[i]
  BY <1>6, <1>8, <1>11, <1>13, AppendFacts
<1>15. pos # 1 /\ pos - 1 + b \in Nat
  BY <1>5, <1>6, <1>8, <1>9, <1>12 DEF CountedBy
<1>16. PICK U \in Nat : U = Units(p)
  BY <1>6, UnitsCounted
<1>17. PICK m \in Nat : m = pos - 1 + b
  BY <1>15
<1>18. /\ l = b + u /\ b + (Len(results) - 1) <= pos - 1 /\ u + U <= m * U + c
       /\ (b # 0 => U < Len(p.rules)) /\ m * U \in Nat
  <2>1. m * U \in Nat
    OBVIOUS
  <2> QED BY <1>5, <1>13, <1>15, <1>16, <1>17, <2>1, Zenon DEF CountedBy
<1>19. CASE n = 1
  <2>1. r \in UnitRules(p)
    <3>1. Top \in States(p)
      BY <1>1, TablesRight
    <3>2. PICK q \in States(p) : q = Top
      BY <3>1
    <3>3. PICK t : t = NextToken
      OBVIOUS
    <3>4. t \in DOMAIN p.action[q] /\ p.action[q][t].do = "reduce" /\ p.action[q][t].param = r
      BY <1>1, <1>2, <3>2, <3>3 DEF ReduceRule, Expected, Entry
    <3> QED BY <1>3, <1>8, <1>19, <3>4, Zenon DEF UnitRules
  <2>2. Rule(p, r).rhs[1] = results[Len(results)].sym
    <3>1. 1 \in 1 .. n /\ Len(results) - n + 1 = Len(results)
      BY <1>12, <1>19
    <3> QED BY <1>8, <3>1 DEF OnTop
  <2>3. Chain(p, output', c + 1)
    <3>1. c <= l /\ c \in Nat
      BY <1>5, <1>13 DEF CountedBy, Chain
    <3>2. (l + 1) - (c + 1) + 1 = l - c + 1
      BY <1>13, <3>1
    <3>3. ASSUME NEW i \in l - c + 1 .. l + 1 PROVE output'[i] \in UnitRules(p)
      <4>1. i = l + 1 \/ (i \in l - c + 1 .. l /\ i \in 1 .. l)
        BY <3>1
      <4>2. \A j \in l - c + 1 .. l : output[j] \in UnitRules(p)
        BY <1>5, <1>13 DEF CountedBy, Chain
      <4> QED BY <1>14, <2>1, <4>1, <4>2
    <3>4. ASSUME NEW i \in l - c + 1 .. l
          PROVE  Rule(p, output'[i + 1]).rhs[1] = Rule(p, output'[i]).lhs
      <4>1. CASE i = l
        <5>1. c # 0 /\ l \in 1 .. l
          BY <3>1, <4>1
        <5>2. Rule(p, output[l]).lhs = results[Len(results)].sym
          BY <1>5, <1>13, <5>1 DEF CountedBy
        <5> QED BY <1>14, <2>2, <4>1, <5>1, <5>2
      <4>2. CASE i # l
        <5>1. i \in l - c + 1 .. l - 1 /\ i \in 1 .. l /\ i + 1 \in 1 .. l
          BY <3>1, <4>2
        <5>2. Rule(p, output[i + 1]).rhs[1] = Rule(p, output[i]).lhs
          BY <1>5, <1>13, <5>1 DEF CountedBy, Chain
        <5> QED BY <1>14, <5>1, <5>2
      <4> QED BY <4>1, <4>2
    <3>5. (l + 1) - 1 = l /\ c + 1 <= l + 1
      BY <3>1
    <3> QED BY <1>14, <3>2, <3>3, <3>4, <3>5 DEF Chain
  <2>4. u + 1 \in Nat /\ c + 1 \in Nat /\ l + 1 = b + (u + 1) /\ u + 1 + U <= m * U + (c + 1)
        /\ b + (Len(results') - 1) <= pos - 1
    BY <1>12, <1>18, <1>19
  <2>5. Rule(p, output'[Len(output')]).lhs = results'[Len(results')].sym
    BY <1>10, <1>12, <1>14
  <2>6. CountedBy(p, b, u + 1, c + 1)'
    BY <1>11, <1>14, <1>15, <1>16, <1>17, <1>18, <2>3, <2>4, <2>5 DEF CountedBy
  <2> QED BY <1>1, <1>11, <2>4, <2>6 DEF Counted
<1>20. CASE n # 1
  <2>1. c <= U
    BY <1>1, <1>5, <1>6, <1>16, ChainBounded DEF CountedBy
  <2>2. u + U <= (m + 1) * U /\ (m + 1) * U \in Nat
    BY <1>18, <2>1, ChainEnds
  <2>3. U < Len(p.rules)
    BY <1>3, <1>6, <1>8, <1>16, <1>20, UnitsCounted
  <2>4. b + 1 \in Nat /\ l + 1 = b + 1 + u /\ pos - 1 + (b + 1) = m + 1
        /\ b + 1 + (Len(results') - 1) <= pos - 1
    BY <1>6, <1>8, <1>9, <1>12, <1>17, <1>18, <1>20
  <2>5. Chain(p, output', 0)
    BY <1>13, <1>14 DEF Chain
  <2>6. u + U <= (m + 1) * U + 0
    BY <2>2
  <2>7. CountedBy(p, b + 1, u, 0)'
    BY <1>11, <1>14, <1>15, <1>16, <2>3, <2>4, <2>5, <2>6 DEF CountedBy
  <2> QED BY <1>1, <1>11, <2>4, <2>7 DEF Counted
<1> QED BY <1>19, <1>20

LEMMA CountedAlways == Spec => [](Unwarned(Table[grammar]) => Counted)
<1>1. Init => (Unwarned(Table[grammar]) => Counted)
  BY CountedInit
<1>2. IInv /\ (Unwarned(Table[grammar]) => Counted) /\ [Next]_vars
      => (Unwarned(Table[grammar]) => Counted)'
  <2> SUFFICES ASSUME IInv, Unwarned(Table[grammar]) => Counted, [Next]_vars
               PROVE  (Unwarned(Table[grammar]) => Counted)'
    OBVIOUS
  <2>1. grammar' = grammar
    BY DEF Next, Unexpected, AcceptInput, ShiftToken, ReduceRule, ActionThrows, vars
  <2>2. CASE ~Unwarned(Table[grammar])
    BY <2>1, <2>2
  <2>3. CASE Unwarned(Table[grammar])
    <3>1. Counted /\ NoUnitCycle(Table[grammar])
      <4>1. grammar \in Grammars
        BY DEF IInv, TypeOK
      <4> QED BY <2>3, <4>1, CycleAssumption
    <3>2. CASE ShiftToken
      BY <3>1, <3>2, CountedShift
    <3>3. CASE ReduceRule
      BY <3>1, <3>3, CountedReduce
    <3>4. CASE AcceptInput \/ Unexpected \/ ActionThrows \/ UNCHANGED vars
      <4>1. UNCHANGED <<grammar, pos, results, output>>
        BY <3>4 DEF AcceptInput, Unexpected, ActionThrows, vars
      <4> QED BY <3>1, <4>1 DEF Counted, CountedBy
    <3> QED BY <3>2, <3>3, <3>4 DEF Next
  <2> QED BY <2>2, <2>3
<1> QED BY <1>1, <1>2, Invariance, PTL DEF Spec

\* A parser made without warnings reduces no more than is in proportion to the tokens that it
\* has read, so that it never reduces for ever.
THEOREM ReducesEnd == Spec => []ReducesBounded
<1>1. IInv /\ (Unwarned(Table[grammar]) => Counted) => ReducesBounded
  <2> SUFFICES ASSUME IInv, Counted, Unwarned(Table[grammar])
               PROVE  Len(output) <= 2 * (pos - 1) * Len(Table[grammar].rules)
    BY DEF ReducesBounded
  <2>1. PICK p : p = Table[grammar]
    OBVIOUS
  <2>2. PICK b \in Nat, u \in Nat, c \in Nat : CountedBy(p, b, u, c)
    BY <2>1 DEF Counted
  <2>3. TableTyped(p) /\ NoUnitCycle(p) /\ output \in Seq(DOMAIN p.rules)
        /\ pos \in Nat \ {0} /\ Len(results) \in Nat \ {0}
    <3>1. grammar \in Grammars /\ output \in Seq(DOMAIN p.rules) /\ pos \in Nat \ {0}
          /\ Len(results) \in Nat \ {0}
      BY <2>1, TablesRight DEF IInv, TypeOK
    <3> QED BY <2>1, <3>1, TablesRight, CycleAssumption
  <2>4. PICK U \in Nat, R \in Nat : U = Units(p) /\ R = Len(p.rules) /\ U <= R
    BY <2>3, UnitsCounted
  <2>5. c <= U
    BY <2>2, <2>3, <2>4, ChainBounded DEF CountedBy
  <2>6. PICK n \in Nat : n = pos - 1
    BY <2>3
  <2>7. b <= n /\ (b # 0 => U < R) /\ Len(output) = b + u
    <3>1. b + (Len(results) - 1) <= pos - 1 /\ Len(output) = b + u /\ (b # 0 => U < R)
      BY <2>2, <2>4, Zenon DEF CountedBy
    <3> QED BY <2>3, <2>6, <3>1
  <2>8. u <= (n + b) * U
    <3>1. (n + b) * U \in Nat
      OBVIOUS
    <3>2. CASE pos = 1
      BY <2>2, <3>1, <3>2 DEF CountedBy
    <3>3. CASE pos # 1
      <4>1. u + U <= (n + b) * U + c
        BY <2>2, <2>4, <2>6, <3>3 DEF CountedBy
      <4> QED BY <2>5, <3>1, <4>1
    <3> QED BY <3>2, <3>3
  <2>9. b + u <= 2 * n * R
    BY <2>4, <2>7, <2>8, CountBound
  <2> QED BY <2>1, <2>4, <2>6, <2>7, <2>9
<1> QED BY <1>1, Invariance, CountedAlways, PTL

-----------------------------------------------------------------------------
(* What the parser does with a sentence.  The symbols of a form up to its  *)
(* last nonterminal lead through states that have the items of the rules   *)
(* they were made by; so do those of the stack, which begin the form that  *)
(* comes next.  The entry for the next token is therefore the step on the  *)
(* way to it, if the generator has not overwritten one.                    *)

\* What the forms consist of.
Word == STRING \ {EOF}

Awaits(p, q, X) ==
  \E item \in p.items[q] : /\ item[2] < Len(Rule(p, item[1]).rhs)
                           /\ Rule(p, item[1]).rhs[item[2] + 1] = X

\* The first n symbols of x lead through these states, each of which awaits the symbol.
Run(p, x, n, st) ==
  /\ n \in 0 .. Len(x)
  /\ st[1] = 1 /\ \A i \in 1 .. n + 1 : st[i] \in States(p)
  /\ \A i \in 1 .. n : /\ Awaits(p, st[i], x[i]) /\ x[i] \in Moves(p, st[i])
                       /\ st[i + 1] = Successor(p, st[i], x[i])

\* Behind each nonterminal is what can follow it.
FollowsRight(p, x) ==
  \A i \in 1 .. Len(x) :
    x[i] \in Nonterminals(p) =>
      IF i = Len(x) THEN EOF \in p.follow[x[i]] ELSE FirstOf(p, x[i + 1]) \subseteq p.follow[x[i]]

\* There are such states up to the last nonterminal.
RunsRight(p, x) ==
  \E n \in Nat : \E st : /\ Run(p, x, n, st)
                         /\ \A i \in n + 1 .. Len(x) : x[i] \notin Nonterminals(p)

\* What is where in an expanded form, if the rule has m symbols.
Expansion(p, r, n, x, y, m) ==
  /\ n \in 1 .. Len(x) /\ m \in Nat /\ Len(x) \in Nat /\ Len(y) = Len(x) - 1 + m
  /\ x[n] = Rule(p, r).lhs /\ x[n] \in Nonterminals(p)
  /\ \A i \in n + 1 .. Len(x) : x[i] \notin Nonterminals(p)
  /\ \A i \in 1 .. n - 1 : y[i] = x[i]
  /\ \A i \in n .. n - 1 + m : y[i] = Rule(p, r).rhs[i - n + 1]
  /\ \A i \in n + m .. Len(y) : y[i] = x[i - m + 1]

LEMMA ExpandedForm ==
  ASSUME NEW p, NEW r \in DOMAIN p.rules, NEW x \in Seq(Word), NEW y \in Seq(Word), NEW n \in Nat,
         NEW m \in Nat,
         TableTyped(p), ExpandsAt(p, r, n, x, y), Len(Rule(p, r).rhs) = m
  PROVE  Expansion(p, r, n, x, y, m)
<1>1. PICK rhs : rhs = Rule(p, r).rhs
  OBVIOUS
<1>2. rhs \in Seq(Sym) /\ Rule(p, r).lhs \in Nonterminals(p)
  BY <1>1, RuleTyped
<1>3. n \in 1 .. Len(x) /\ x[n] = Rule(p, r).lhs
      /\ (\A i \in n + 1 .. Len(x) : x[i] \notin Nonterminals(p))
      /\ y = SubSeq(x, 1, n - 1) \o rhs \o SubSeq(x, n + 1, Len(x))
  BY <1>1 DEF ExpandsAt
<1>4. PICK S : S = Word \cup Sym
  OBVIOUS
<1>5. x \in Seq(S) /\ rhs \in Seq(S)
  BY <1>2, <1>4, SeqMonotonic, Zenon
<1>6. PICK l \in Nat : l = Len(x)
  OBVIOUS
<1>7. m \in Nat /\ m = Len(rhs)
  BY <1>1, <1>2
<1>8. PICK a : a = SubSeq(x, 1, n - 1)
  OBVIOUS
<1>9. PICK c : c = SubSeq(x, n + 1, l)
  OBVIOUS
<1>10. a \in Seq(S) /\ Len(a) = n - 1 /\ \A i \in 1 .. n - 1 : a[i] = x[i]
  <2>1. n - 1 \in Nat /\ \A i \in 1 .. n - 1 : x[i] \in S
    BY <1>3, <1>5, <1>6
  <2> QED BY <1>8, <2>1
<1>11. c \in Seq(S) /\ Len(c) = l - n /\ \A i \in 1 .. l - n : c[i] = x[n + i]
  <2>1. l - n \in Nat /\ n \in Nat /\ \A i \in n + 1 .. l : x[i] \in S
    BY <1>3, <1>5, <1>6
  <2> QED BY <1>9, <2>1
<1>12. PICK b : b = a \o rhs
  OBVIOUS
<1>13. /\ b \in Seq(S) /\ Len(b) = n - 1 + m
       /\ \A i \in 1 .. n - 1 + m : b[i] = IF i <= n - 1 THEN a[i] ELSE rhs[i - (n - 1)]
  <2>1. /\ a \o rhs \in Seq(S) /\ Len(a \o rhs) = Len(a) + Len(rhs)
        /\ \A i \in 1 .. Len(a) + Len(rhs) : (a \o rhs)[i] = IF i <= Len(a) THEN a[i] ELSE rhs[i - Len(a)]
    BY <1>5, <1>10, ConcatProperties, Zenon
  <2>2. Len(a) = n - 1 /\ Len(rhs) = m /\ b = a \o rhs
    BY <1>7, <1>10, <1>12
  <2> QED BY <2>1, <2>2, Zenon
<1>14. y = b \o c
  BY <1>3, <1>6, <1>8, <1>9, <1>12
<1>15. /\ Len(y) = n - 1 + m + (l - n)
       /\ \A i \in 1 .. Len(y) : y[i] = IF i <= n - 1 + m THEN b[i] ELSE c[i - (n - 1 + m)]
  <2>1. /\ Len(b \o c) = Len(b) + Len(c)
        /\ \A i \in 1 .. Len(b) + Len(c) : (b \o c)[i] = IF i <= Len(b) THEN b[i] ELSE c[i - Len(b)]
    BY <1>11, <1>13, ConcatProperties, Zenon
  <2>2. Len(b) = n - 1 + m /\ Len(c) = l - n
    BY <1>11, <1>13, Zenon
  <2> QED BY <1>14, <2>1, <2>2, Zenon
<1>16. n \in Nat /\ n >= 1 /\ n <= l
  BY <1>3, <1>6
<1>17. Len(y) = l - 1 + m
  BY <1>7, <1>15, <1>16
<1>18. ASSUME NEW i \in 1 .. n - 1 PROVE y[i] = x[i]
  <2>1. i \in 1 .. n - 1 + m /\ i \in 1 .. Len(y) /\ i <= n - 1 + m
    BY <1>6, <1>7, <1>16, <1>17
  <2>2. b[i] = a[i] /\ y[i] = b[i]
    BY <1>13, <1>15, <2>1
  <2> QED BY <1>10, <2>2
<1>19. ASSUME NEW i \in n .. n - 1 + m PROVE y[i] = rhs[i - n + 1]
  <2>1. i \in 1 .. n - 1 + m /\ i \in 1 .. Len(y) /\ ~(i <= n - 1) /\ i - (n - 1) = i - n + 1
        /\ i <= n - 1 + m
    BY <1>6, <1>7, <1>16, <1>17
  <2> QED BY <1>13, <1>15, <2>1
<1>20. ASSUME NEW i \in n + m .. Len(y) PROVE y[i] = x[i - m + 1]
  <2>1. i \in 1 .. Len(y) /\ ~(i <= n - 1 + m) /\ i - (n - 1 + m) \in 1 .. l - n
        /\ n + (i - (n - 1 + m)) = i - m + 1
    BY <1>6, <1>7, <1>16, <1>17
  <2> QED BY <1>11, <1>15, <2>1
<1> QED BY <1>1, <1>2, <1>3, <1>6, <1>7, <1>17, <1>18, <1>19, <1>20 DEF Expansion

\* The tables have all that an item says.
LEMMA ItemAdvances ==
  ASSUME NEW p, NEW q \in States(p), NEW r, NEW k, NEW X,
         TableTyped(p), ItemsRight(p), ItemsComplete(p), <<r, k>> \in p.items[q],
         k < Len(Rule(p, r).rhs), X = Rule(p, r).rhs[k + 1], X # EOF
  PROVE  /\ Awaits(p, q, X) /\ X \in Moves(p, q) /\ Successor(p, q, X) \in States(p)
         /\ <<r, k + 1>> \in p.items[Successor(p, q, X)]
<1>1. PICK item \in p.items[q] : item = <<r, k>>
  OBVIOUS
<1>2. item[1] = r /\ item[2] = k /\ r \in DOMAIN p.rules /\ k \in Nat
  <2>1. item \in Nat \X Nat /\ item[1] \in DOMAIN p.rules
    BY <1>1, Zenon DEF ItemsRight
  <2> QED BY <1>1, <2>1
<1>3. Awaits(p, q, X)
  BY <1>1, <1>2 DEF Awaits
<1>4. item[2] # Len(Rule(p, item[1]).rhs) /\ Rule(p, item[1]).rhs[item[2] + 1] = X
  BY <1>2
<1>5. X \in Moves(p, q) /\ <<item[1], item[2] + 1>> \in p.items[Successor(p, q, X)]
  BY <1>1, <1>4, Zenon DEF ItemsComplete
<1>6. Successor(p, q, X) \in States(p)
  BY <1>5, Zenon DEF TableTyped
<1> QED BY <1>2, <1>3, <1>5, <1>6

LEMMA AwaitedRule ==
  ASSUME NEW p, NEW q \in States(p), NEW r \in DOMAIN p.rules,
         ItemsRight(p), ItemsComplete(p), Awaits(p, q, Rule(p, r).lhs)
  PROVE  <<r, 0>> \in p.items[q]
<1>1. PICK item \in p.items[q] : /\ item[2] < Len(Rule(p, item[1]).rhs)
                                 /\ Rule(p, item[1]).rhs[item[2] + 1] = Rule(p, r).lhs
  BY DEF Awaits
<1>2. item[2] # Len(Rule(p, item[1]).rhs)
  BY <1>1
<1> QED BY <1>1, <1>2, Zenon DEF ItemsComplete

\* One symbol more.
LEMMA RunExtended ==
  ASSUME NEW p, NEW x, NEW n \in Nat, NEW st, NEW q, NEW X,
         Run(p, x, n, st), n < Len(x), Len(x) \in Nat, q = st[n + 1], X = x[n + 1], Awaits(p, q, X),
         X \in Moves(p, q), Successor(p, q, X) \in States(p)
  PROVE  \E later : Run(p, x, n + 1, later) /\ later[n + 2] = Successor(p, q, X)
<1> DEFINE later == [i \in 1 .. n + 2 |-> IF i = n + 2 THEN Successor(p, q, X) ELSE st[i]]
<1>1. later[n + 2] = Successor(p, q, X) /\ \A i \in 1 .. n + 1 : later[i] = st[i]
  OBVIOUS
<1> HIDE DEF later
<1>2. later[1] = 1 /\ \A i \in 1 .. n + 2 : later[i] \in States(p)
  <2>1. \A i \in 1 .. n + 2 : i = n + 2 \/ i \in 1 .. n + 1
    OBVIOUS
  <2> QED BY <1>1, <2>1 DEF Run
<1>3. ASSUME NEW i \in 1 .. n + 1
      PROVE  /\ Awaits(p, later[i], x[i]) /\ x[i] \in Moves(p, later[i])
             /\ later[i + 1] = Successor(p, later[i], x[i])
  <2>1. CASE i = n + 1
    <3>1. later[i] = q /\ x[i] = X /\ later[i + 1] = Successor(p, q, X)
      BY <1>1, <2>1
    <3> QED BY <3>1
  <2>2. CASE i \in 1 .. n
    <3>1. later[i] = st[i] /\ later[i + 1] = st[i + 1]
      BY <1>1, <2>2
    <3> QED BY <2>2, <3>1 DEF Run
  <2> QED BY <2>1, <2>2
<1>4. n + 1 \in 0 .. Len(x) /\ (n + 1) + 1 = n + 2
  OBVIOUS
<1>5. Run(p, x, n + 1, later)
  BY <1>2, <1>3, <1>4 DEF Run
<1> QED BY <1>1, <1>5

\* A state that awaits what is expanded has the item of the rule, which its right
\* side leads through to the end.
LEMMA HandleRun ==
  ASSUME NEW p, NEW r \in DOMAIN p.rules, NEW x \in Seq(Word), NEW y \in Seq(Word), NEW n \in Nat,
         NEW m \in Nat, NEW st,
         TableTyped(p), ItemsRight(p), ItemsComplete(p), ExpandsAt(p, r, n, x, y),
         Len(Rule(p, r).rhs) = m, Run(p, x, n - 1, st), Awaits(p, st[n], x[n])
  PROVE  \E later : Run(p, y, n - 1 + m, later) /\ <<r, m>> \in p.items[later[n + m]]
<1> DEFINE Good(k) == \E later : Run(p, y, n - 1 + k, later) /\ <<r, k>> \in p.items[later[n + k]]
           Bad == {k \in 0 .. m : ~Good(k)}
<1>1. /\ n \in 1 .. Len(x) /\ m \in Nat /\ Len(x) \in Nat /\ Len(y) = Len(x) - 1 + m
      /\ x[n] = Rule(p, r).lhs
      /\ \A i \in 1 .. n - 1 : y[i] = x[i]
      /\ \A i \in n .. n - 1 + m : y[i] = Rule(p, r).rhs[i - n + 1]
  <2>1. Expansion(p, r, n, x, y, m)
    BY ExpandedForm
  <2> QED BY <2>1 DEF Expansion
<1>2. n \in Nat /\ n >= 1 /\ n - 1 + m <= Len(y) /\ n - 1 \in Nat /\ n - 1 <= Len(y) /\ Len(y) \in Nat
  BY <1>1
<1>3. Good(0)
  <2>1. st[1] = 1 /\ (\A i \in 1 .. n : st[i] \in States(p)) /\ n \in 1 .. n
    <3>1. n - 1 + 1 = n /\ n \in 1 .. n
      BY <1>2
    <3> QED BY <3>1 DEF Run
  <2>2. Run(p, y, n - 1, st)
    <3>1. \A i \in 1 .. n - 1 : /\ Awaits(p, st[i], y[i]) /\ y[i] \in Moves(p, st[i])
                                /\ st[i + 1] = Successor(p, st[i], y[i])
      BY <1>1 DEF Run
    <3>2. n - 1 \in 0 .. Len(y) /\ n - 1 + 1 = n
      BY <1>2
    <3> QED BY <2>1, <3>1, <3>2 DEF Run
  <2>3. <<r, 0>> \in p.items[st[n]]
    BY <1>1, <2>1, AwaitedRule
  <2>4. n - 1 + 0 = n - 1 /\ n + 0 = n
    BY <1>2
  <2> QED BY <2>2, <2>3, <2>4
<1>4. ASSUME NEW k \in 0 .. m - 1, Good(k) PROVE Good(k + 1)
  <2>1. PICK run : Run(p, y, n - 1 + k, run) /\ <<r, k>> \in p.items[run[n + k]]
    BY <1>4
  <2>2. PICK l \in Nat : l = n - 1 + k /\ l + 1 = n + k /\ l < Len(y) /\ l + 1 \in n .. n - 1 + m
                         /\ (l + 1) - n + 1 = k + 1 /\ l + 1 \in 1 .. Len(y)
    BY <1>1, <1>2
  <2>3. PICK X : X = Rule(p, r).rhs[k + 1]
    OBVIOUS
  <2>4. X = y[l + 1]
    BY <1>1, <2>2, <2>3
  <2>5. X # EOF
    BY <2>2, <2>4 DEF Word
  <2>6. PICK q \in States(p) : q = run[l + 1]
    <3>1. run[l + 1] \in States(p)
      BY <2>1, <2>2 DEF Run
    <3> QED BY <3>1
  <2>7. <<r, k>> \in p.items[q] /\ k < Len(Rule(p, r).rhs)
    BY <1>1, <2>1, <2>2, <2>6
  <2>8. /\ Awaits(p, q, X) /\ X \in Moves(p, q) /\ Successor(p, q, X) \in States(p)
        /\ <<r, k + 1>> \in p.items[Successor(p, q, X)]
    BY <2>3, <2>5, <2>7, ItemAdvances
  <2>9. PICK later : Run(p, y, l + 1, later) /\ later[l + 2] = Successor(p, q, X)
    <3>1. Run(p, y, l, run)
      BY <2>1, <2>2
    <3> QED BY <1>2, <2>2, <2>4, <2>6, <2>8, <3>1, RunExtended
  <2>10. l + 1 = n - 1 + (k + 1) /\ l + 2 = n + (k + 1)
    BY <1>2, <2>2
  <2> QED BY <2>8, <2>9, <2>10
<1> HIDE DEF Good
<1>5. Bad = {}
  <2>1. ASSUME Bad # {} PROVE FALSE
    <3>1. Bad \in SUBSET Nat
      BY <1>1
    <3>2. PICK k \in Bad : \A j \in Bad : k <= j
      BY <2>1, <3>1, LeastExists
    <3>3. k \in 0 .. m /\ ~Good(k) /\ k # 0
      BY <1>3, <3>2
    <3>4. k - 1 \in 0 .. m - 1 /\ (k - 1) + 1 = k /\ k - 1 \in 0 .. m /\ ~(k <= k - 1)
      BY <1>1, <3>3
    <3>5. Good(k - 1)
      BY <3>2, <3>4
    <3> QED BY <1>4, <3>3, <3>4, <3>5
  <2> QED BY <2>1
<1>6. Good(m)
  <2>1. m \in 0 .. m
    BY <1>1
  <2> QED BY <1>5, <2>1
<1> QED BY <1>6 DEF Good

\* The form that a derivation starts from.
LEMMA StartRight ==
  ASSUME NEW p, TableTyped(p), ItemsRight(p), SetsRight(p), ItemsComplete(p), Start # EOF
  PROVE  /\ FollowsRight(p, <<Start>>)
         /\ \E st : Run(p, <<Start>>, 1, st) /\ EOF \in DOMAIN p.action[st[2]]
                    /\ p.action[st[2]][EOF].do = "accept"
<1>1. PICK r \in DOMAIN p.rules : Rule(p, r) = [lhs |-> Root, rhs |-> <<Start, EOF>>]
                                  /\ <<r, 0>> \in p.items[1]
  BY DEF ItemsComplete
<1>2. /\ Len(Rule(p, r).rhs) = 2 /\ Rule(p, r).rhs[1] = Start /\ Rule(p, r).rhs[2] = EOF
  BY <1>1
<1>3. FollowsRight(p, <<Start>>)
  <2>1. Len(<<Start>>) = 1 /\ <<Start>>[1] = Start
    OBVIOUS
  <2>2. Start \in Nonterminals(p) => EOF \in p.follow[Start]
    <3>1. \A i \in 1 .. Len(Rule(p, r).rhs) :
            Rule(p, r).rhs[i] \in Nonterminals(p) =>
              IF i = Len(Rule(p, r).rhs) THEN p.follow[Rule(p, r).lhs] \subseteq p.follow[Rule(p, r).rhs[i]]
              ELSE FirstOf(p, Rule(p, r).rhs[i + 1]) \subseteq p.follow[Rule(p, r).rhs[i]]
      BY Zenon DEF SetsRight
    <3>2. 1 \in 1 .. Len(Rule(p, r).rhs) /\ 1 # Len(Rule(p, r).rhs) /\ 1 + 1 = 2
      BY <1>2
    <3>3. Start \in Nonterminals(p) => FirstOf(p, EOF) \subseteq p.follow[Start]
      BY <1>2, <3>1, <3>2
    <3>4. FirstOf(p, EOF) = {EOF}
      BY DEF FirstOf, ItemsComplete
    <3> QED BY <3>3, <3>4
  <2>3. \A i \in 1 .. Len(<<Start>>) : i = 1 /\ i = Len(<<Start>>)
    OBVIOUS
  <2> QED BY <2>1, <2>2, <2>3 DEF FollowsRight
<1>4. 1 \in States(p)
  BY DEF TableTyped
<1>5. PICK q : q = Successor(p, 1, Start)
  OBVIOUS
<1>6. Awaits(p, 1, Start) /\ Start \in Moves(p, 1) /\ q \in States(p) /\ <<r, 1>> \in p.items[q]
  <2>1. 0 < Len(Rule(p, r).rhs) /\ Rule(p, r).rhs[0 + 1] = Start /\ 0 + 1 = 1
    BY <1>2
  <2>2. /\ Awaits(p, 1, Start) /\ Start \in Moves(p, 1) /\ Successor(p, 1, Start) \in States(p)
        /\ <<r, 0 + 1>> \in p.items[Successor(p, 1, Start)]
    BY <1>1, <1>4, <2>1, ItemAdvances
  <2> QED BY <1>5, <2>1, <2>2
<1>7. EOF \in DOMAIN p.action[q] /\ p.action[q][EOF].do = "accept"
  <2>1. PICK item \in p.items[q] : item = <<r, 1>>
    BY <1>6
  <2>2. item[1] = r /\ item[2] = 1
    BY <2>1
  <2>3. item[2] # Len(Rule(p, item[1]).rhs) /\ Rule(p, item[1]).rhs[item[2] + 1] = EOF
    BY <1>2, <2>2
  <2> QED BY <1>6, <2>3, Zenon DEF ItemsComplete
<1>8. PICK st : st = <<1, q>>
  OBVIOUS
<1>9. Run(p, <<Start>>, 1, st)
  <2>1. st[1] = 1 /\ st[2] = q
    BY <1>8
  <2>2. Len(<<Start>>) = 1 /\ <<Start>>[1] = Start /\ 1 \in 0 .. 1
    OBVIOUS
  <2>3. \A i \in 1 .. 1 : i = 1 /\ i + 1 = 2
    OBVIOUS
  <2>4. \A i \in 1 .. 1 + 1 : i = 1 \/ i = 2
    OBVIOUS
  <2> QED BY <1>4, <1>5, <1>6, <2>1, <2>2, <2>3, <2>4 DEF Run
<1> QED BY <1>3, <1>7, <1>8, <1>9

\* A form with what is right about it, and the one it expands to.
LEMMA ExpandedFollows ==
  ASSUME NEW p, NEW r \in DOMAIN p.rules, NEW x \in Seq(Word), NEW y \in Seq(Word), NEW n \in Nat,
         TableTyped(p), SetsRight(p), ExpandsAt(p, r, n, x, y), FollowsRight(p, x)
  PROVE  FollowsRight(p, y)
<1>1. PICK rhs : rhs = Rule(p, r).rhs
  OBVIOUS
<1>2. PICK m \in Nat : m = Len(rhs)
  BY <1>1, RuleTyped
<1>3. PICK A : A = Rule(p, r).lhs
  OBVIOUS
<1>4. /\ n \in 1 .. Len(x) /\ m \in Nat /\ Len(x) \in Nat /\ Len(y) = Len(x) - 1 + m
      /\ x[n] = A /\ A \in Nonterminals(p)
      /\ \A i \in n + 1 .. Len(x) : x[i] \notin Nonterminals(p)
      /\ \A i \in 1 .. n - 1 : y[i] = x[i]
      /\ \A i \in n .. n - 1 + m : y[i] = rhs[i - n + 1]
      /\ \A i \in n + m .. Len(y) : y[i] = x[i - m + 1]
  <2>1. Len(Rule(p, r).rhs) = m
    BY <1>1, <1>2
  <2>2. Expansion(p, r, n, x, y, m)
    BY <2>1, ExpandedForm
  <2> QED BY <1>1, <1>3, <2>2 DEF Expansion
<1>5. /\ FirstOf(p, rhs[1]) \subseteq p.first[A] /\ rhs # <<>>
      /\ \A i \in 1 .. m :
           rhs[i] \in Nonterminals(p) =>
             IF i = m THEN p.follow[A] \subseteq p.follow[rhs[i]]
             ELSE FirstOf(p, rhs[i + 1]) \subseteq p.follow[rhs[i]]
  BY <1>1, <1>2, <1>3, Zenon DEF SetsRight
<1>6. m # 0
  BY <1>1, <1>2, <1>5, RuleTyped
<1>7. n >= 1 /\ n <= Len(x) /\ Len(x) \in Nat /\ Len(y) = Len(x) - 1 + m /\ m >= 1
  BY <1>4, <1>6
<1>8. SUFFICES ASSUME NEW i \in 1 .. Len(y), y[i] \in Nonterminals(p)
               PROVE  IF i = Len(y) THEN EOF \in p.follow[y[i]]
                      ELSE FirstOf(p, y[i + 1]) \subseteq p.follow[y[i]]
  BY DEF FollowsRight
<1>9. \A j \in 1 .. Len(x) : x[j] \in Nonterminals(p) =>
        IF j = Len(x) THEN EOF \in p.follow[x[j]] ELSE FirstOf(p, x[j + 1]) \subseteq p.follow[x[j]]
  BY DEF FollowsRight
<1>10. CASE i < n - 1
  <2>1. i \in 1 .. n - 1 /\ i + 1 \in 1 .. n - 1 /\ i # Len(y) /\ i # Len(x) /\ i \in 1 .. Len(x)
    BY <1>7, <1>10
  <2> QED BY <1>4, <1>8, <1>9, <2>1
<1>11. CASE i = n - 1
  <2>1. /\ i \in 1 .. n - 1 /\ i + 1 \in n .. n - 1 + m /\ i + 1 - n + 1 = 1
        /\ i # Len(x) /\ i \in 1 .. Len(x) /\ i + 1 = n
    <3>1. PICK l \in Nat : l = Len(x) /\ n <= l
      BY <1>4, <1>7
    <3>2. i >= 1
      OBVIOUS
    <3> QED BY <1>7, <1>11, <3>1, <3>2
  <2>2. i # Len(y)
    BY <1>7, <1>11
  <2>3. y[i] = x[i] /\ y[i + 1] = rhs[1] /\ x[i + 1] = A
    BY <1>4, <2>1
  <2>4. FirstOf(p, x[i + 1]) \subseteq p.follow[x[i]]
    BY <1>8, <1>9, <2>1, <2>3
  <2>5. FirstOf(p, A) = p.first[A]
    BY <1>4 DEF FirstOf
  <2> QED BY <1>5, <2>1, <2>3, <2>4, <2>5, <2>2
<1>12. CASE i \in n .. n + m - 2
  <2>1. /\ i \in n .. n - 1 + m /\ i + 1 \in n .. n - 1 + m /\ i - n + 1 \in 1 .. m /\ i - n + 1 # m
        /\ i + 1 - n + 1 = (i - n + 1) + 1 /\ i # Len(y)
    BY <1>7, <1>12
  <2>2. y[i] = rhs[i - n + 1] /\ y[i + 1] = rhs[(i - n + 1) + 1]
    BY <1>4, <2>1
  <2>3. PICK j : j = i - n + 1
    OBVIOUS
  <2>4. j \in 1 .. m /\ j # m /\ i # Len(y) /\ y[i] = rhs[j] /\ y[i + 1] = rhs[j + 1]
    BY <2>1, <2>2, <2>3, Zenon
  <2>5. FirstOf(p, rhs[j + 1]) \subseteq p.follow[rhs[j]]
    BY <1>5, <1>8, <2>4, Zenon
  <2> QED BY <2>4, <2>5, Zenon
<1>13. CASE i = n - 1 + m
  <2>1. /\ i \in n .. n - 1 + m /\ i - n + 1 = m /\ m \in 1 .. m /\ n \in 1 .. Len(x)
    BY <1>7, <1>13
  <2>2. y[i] = rhs[m]
    BY <1>4, <2>1
  <2>3. p.follow[A] \subseteq p.follow[y[i]]
    BY <1>5, <1>8, <2>1, <2>2
  <2>4. CASE i = Len(y)
    <3>1. n = Len(x)
      BY <1>7, <1>13, <2>4
    <3> QED BY <1>4, <1>9, <2>1, <2>3, <2>4, <3>1
  <2>5. CASE i # Len(y)
    <3>1. n # Len(x) /\ i + 1 \in n + m .. Len(y) /\ i + 1 - m + 1 = n + 1
      BY <1>7, <1>13, <2>5
    <3>2. y[i + 1] = x[n + 1]
      BY <1>4, <3>1
    <3> QED BY <1>4, <1>9, <2>1, <2>3, <2>5, <3>1, <3>2
  <2> QED BY <2>4, <2>5
<1>14. CASE i \in n + m .. Len(y)
  <2>1. i - m + 1 \in n + 1 .. Len(x)
    BY <1>7, <1>14
  <2> QED BY <1>4, <1>8, <1>14, <2>1
<1>15. i < n - 1 \/ i = n - 1 \/ i \in n .. n + m - 2 \/ i = n - 1 + m \/ i \in n + m .. Len(y)
  BY <1>7
<1> QED BY <1>10, <1>11, <1>12, <1>13, <1>14, <1>15

\* What is right about a form, and about the one it expands to.
FormRight(p, x) == FollowsRight(p, x) /\ RunsRight(p, x)

\* The first l symbols of y end with the m symbols of rule r.
HandleEnds(p, r, y, l, m) ==
  \E st : Run(p, y, l, st) /\ <<r, m>> \in p.items[st[l + 1]]

LEMMA ExpandedRight ==
  ASSUME NEW p, NEW r \in DOMAIN p.rules, NEW x \in Seq(Word), NEW y \in Seq(Word), NEW n \in Nat,
         NEW m \in Nat,
         TableTyped(p), ItemsRight(p), SetsRight(p), ItemsComplete(p), ExpandsAt(p, r, n, x, y),
         FormRight(p, x), Len(Rule(p, r).rhs) = m
  PROVE  /\ FormRight(p, y)
         /\ \A l \in Nat : l = n - 1 + m => HandleEnds(p, r, y, l, m)
<1>1. Expansion(p, r, n, x, y, m)
  BY ExpandedForm
<1>2. n \in 1 .. Len(x) /\ m \in Nat /\ Len(x) \in Nat /\ Len(y) = Len(x) - 1 + m
      /\ x[n] \in Nonterminals(p)
  BY <1>1 DEF Expansion
<1>3. PICK l \in Nat : \E st : /\ Run(p, x, l, st)
                               /\ \A i \in l + 1 .. Len(x) : x[i] \notin Nonterminals(p)
  BY DEF FormRight, RunsRight
<1>4. PICK st : /\ Run(p, x, l, st)
                /\ \A i \in l + 1 .. Len(x) : x[i] \notin Nonterminals(p)
  BY <1>3
<1>5. n \in 1 .. l /\ l <= Len(x)
  <2>1. l <= Len(x)
    BY <1>4 DEF Run
  <2>2. ~(n \in l + 1 .. Len(x))
    BY <1>2, <1>4
  <2> QED BY <1>2, <2>1, <2>2
<1>6. Run(p, x, n - 1, st)
  <2>1. n - 1 \in 0 .. Len(x) /\ n - 1 + 1 = n
    BY <1>2
  <2>2. (\A i \in 1 .. n : i \in 1 .. l + 1) /\ (\A i \in 1 .. n - 1 : i \in 1 .. l)
    BY <1>5
  <2>3. st[1] = 1 /\ (\A i \in 1 .. l + 1 : st[i] \in States(p))
        /\ \A i \in 1 .. l : /\ Awaits(p, st[i], x[i]) /\ x[i] \in Moves(p, st[i])
                             /\ st[i + 1] = Successor(p, st[i], x[i])
    BY <1>4 DEF Run
  <2> QED BY <2>1, <2>2, <2>3 DEF Run
<1>7. Awaits(p, st[n], x[n])
  BY <1>4, <1>5 DEF Run
<1>8. PICK later : Run(p, y, n - 1 + m, later) /\ <<r, m>> \in p.items[later[n + m]]
  BY <1>6, <1>7, HandleRun
<1>9. RunsRight(p, y)
  <2>1. n \in Nat /\ n >= 1 /\ n <= Len(x) /\ n - 1 + m \in Nat /\ n - 1 + m + 1 = n + m
    BY <1>2
  <2>2. ASSUME NEW i \in Nat, i >= n + m, i <= Len(y) PROVE y[i] \notin Nonterminals(p)
    <3>1. i - m + 1 \in n + 1 .. Len(x) /\ i \in n + m .. Len(y)
      BY <1>2, <2>1, <2>2
    <3>2. y[i] = x[i - m + 1] /\ x[i - m + 1] \notin Nonterminals(p)
      BY <1>1, <3>1 DEF Expansion
    <3> QED BY <3>2
  <2>3. \A i \in n - 1 + m + 1 .. Len(y) : i \in Nat /\ i >= n + m /\ i <= Len(y)
    BY <1>2, <2>1
  <2> QED BY <1>8, <2>1, <2>2, <2>3 DEF RunsRight
<1>10. FollowsRight(p, y)
  BY ExpandedFollows DEF FormRight
<1>11. ASSUME NEW e \in Nat, e = n - 1 + m PROVE HandleEnds(p, r, y, e, m)
  <2>1. e + 1 = n + m
    BY <1>11
  <2>2. Run(p, y, e, later) /\ <<r, m>> \in p.items[later[e + 1]]
    BY <1>8, <1>11, <2>1
  <2> QED BY <2>2 DEF HandleEnds
<1> QED BY <1>9, <1>10, <1>11 DEF FormRight

LEMMA DerivationTyped ==
  ASSUME NEW p, NEW d, IsDerivation(p, d)
  PROVE  /\ d.rules \in Seq(DOMAIN p.rules) /\ Len(d.rules) \in Nat
         /\ \A i \in 1 .. Len(d.rules) : d.rules[i] \in DOMAIN p.rules
         /\ \A i \in 1 .. Len(d.rules) + 1 : d.forms[i] \in Seq(Word)
         /\ d.tokens \in Seq(Word) /\ Len(d.tokens) \in Nat
         /\ d.forms[1] = d.tokens /\ d.forms[Len(d.rules) + 1] = <<Start>>
         /\ \A j \in 1 .. Len(d.tokens) : d.tokens[j] \notin Nonterminals(p)
         /\ Start # EOF
         /\ \A i \in 1 .. Len(d.rules) : \E n \in Nat :
              ExpandsAt(p, d.rules[i], n, d.forms[i + 1], d.forms[i])
<1>1. /\ d.rules \in Seq(DOMAIN p.rules)
      /\ d.forms \in Seq(Seq(Word)) /\ Len(d.forms) = Len(d.rules) + 1
      /\ d.forms[1] = d.tokens /\ d.forms[Len(d.rules) + 1] = <<Start>>
      /\ \A j \in 1 .. Len(d.tokens) : d.tokens[j] \notin Nonterminals(p)
      /\ \A i \in 1 .. Len(d.rules) : \E n \in 1 .. Len(d.forms[i + 1]) :
           ExpandsAt(p, d.rules[i], n, d.forms[i + 1], d.forms[i])
  BY DEF IsDerivation, Word
<1>2. Len(d.rules) \in Nat
  BY <1>1
<1>3. \A i \in 1 .. Len(d.rules) + 1 : d.forms[i] \in Seq(Word)
  BY <1>1
<1>4. <<Start>> \in Seq(Word) /\ d.tokens \in Seq(Word)
  <2>1. 1 \in 1 .. Len(d.rules) + 1 /\ Len(d.rules) + 1 \in 1 .. Len(d.rules) + 1
    BY <1>2
  <2> QED BY <1>1, <1>3, <2>1
<1>5. Start # EOF
  <2>1. <<Start>>[1] \in Word
    BY <1>4
  <2> QED BY <2>1 DEF Word
<1>6. \A i \in 1 .. Len(d.rules) : \E n \in Nat : ExpandsAt(p, d.rules[i], n, d.forms[i + 1], d.forms[i])
  <2> TAKE i \in 1 .. Len(d.rules)
  <2>1. PICK n \in 1 .. Len(d.forms[i + 1]) : ExpandsAt(p, d.rules[i], n, d.forms[i + 1], d.forms[i])
    BY <1>1
  <2>2. n \in Nat
    OBVIOUS
  <2> QED BY <2>1, <2>2
<1>7. \A i \in 1 .. Len(d.rules) : d.rules[i] \in DOMAIN p.rules
  BY <1>1
<1>8. Len(d.tokens) \in Nat
  BY <1>4
<1> QED BY <1>1, <1>2, <1>3, <1>4, <1>5, <1>6, <1>7, <1>8

LEMMA FormsRight ==
  ASSUME NEW p, NEW d,
         TableTyped(p), ItemsRight(p), SetsRight(p), ItemsComplete(p), IsDerivation(p, d)
  PROVE  \A i \in 1 .. Len(d.rules) + 1 : FormRight(p, d.forms[i])
<1>1. PICK l \in Nat : l = Len(d.rules)
  BY DerivationTyped
<1> DEFINE Bad == {k \in 0 .. l : ~FormRight(p, d.forms[l + 1 - k])}
<1>2. FormRight(p, <<Start>>)
  <2>1. FollowsRight(p, <<Start>>) /\ \E st : Run(p, <<Start>>, 1, st)
    BY DerivationTyped, StartRight
  <2>2. \A i \in 1 + 1 .. Len(<<Start>>) : FALSE
    OBVIOUS
  <2> QED BY <2>1, <2>2 DEF FormRight, RunsRight
<1>3. Bad = {}
  <2>1. ASSUME Bad # {} PROVE FALSE
    <3>1. Bad \in SUBSET Nat
      OBVIOUS
    <3>2. PICK k \in Bad : \A j \in Bad : k <= j
      BY <2>1, <3>1, LeastExists
    <3>3. k \in 0 .. l /\ ~FormRight(p, d.forms[l + 1 - k])
      BY <3>2
    <3>4. k # 0
      <4>1. l + 1 - 0 = l + 1
        OBVIOUS
      <4> QED BY <1>1, <1>2, <3>3, <4>1, DerivationTyped
    <3>5. PICK i \in 1 .. l : i = l + 1 - k
      BY <3>3, <3>4
    <3>6. k - 1 \in 0 .. l /\ ~(k <= k - 1) /\ l + 1 - (k - 1) = i + 1 /\ i \in 1 .. l + 1
          /\ i + 1 \in 1 .. l + 1
      BY <3>3, <3>4, <3>5
    <3>7. FormRight(p, d.forms[i + 1])
      BY <3>2, <3>6
    <3>8. PICK r \in DOMAIN p.rules, x \in Seq(Word), y \in Seq(Word) :
            r = d.rules[i] /\ x = d.forms[i + 1] /\ y = d.forms[i]
      BY <1>1, <3>6, DerivationTyped
    <3>9. PICK n \in Nat : ExpandsAt(p, r, n, x, y)
      BY <1>1, <3>8, DerivationTyped
    <3>10. PICK m \in Nat : Len(Rule(p, r).rhs) = m
      BY <3>8, RuleTyped
    <3>11. FormRight(p, y)
      <4>1. FormRight(p, x)
        BY <3>7, <3>8
      <4> QED BY <3>9, <3>10, <4>1, ExpandedRight
    <3> QED BY <3>3, <3>5, <3>8, <3>11
  <2> QED BY <2>1
<1>4. ASSUME NEW i \in 1 .. l + 1 PROVE FormRight(p, d.forms[i])
  <2>1. l + 1 - i \in 0 .. l /\ l + 1 - (l + 1 - i) = i
    OBVIOUS
  <2> QED BY <1>3, <2>1
<1> QED BY <1>1, <1>4

\* The first l symbols of x are those on the stack.
Begins(rs, x, l) == Len(rs) - 1 = l /\ \A i \in 1 .. l : x[i] = SymbolsOf(rs)[i]

IsLast(st, q) == st[Len(st)] = q

\* A stack with the first symbols of a run is in its state.
LEMMA SameRun ==
  ASSUME NEW p, NEW st, NEW rs, NEW x, NEW n \in Nat, NEW run, NEW l \in Nat, NEW q,
         StackOK(p, st, rs), Run(p, x, n, run), l <= n, Begins(rs, x, l), IsLast(st, q)
  PROVE  q = run[l + 1]
<1>1. /\ l \in Nat /\ Len(st) = l + 1 /\ Len(rs) = l + 1 /\ rs \in Seq(Result) /\ rs # <<>>
      /\ st[1] = 1
      /\ \A i \in 2 .. Len(st) : st[i] = Successor(p, st[i - 1], rs[i].sym)
  BY DEF Begins, StackOK, Path
<1>2. \A i \in 1 .. l : x[i] = rs[i + 1].sym
  BY <1>1, SymbolsTyped DEF Begins
<1>3. n \in Nat /\ run[1] = 1 /\ \A i \in 1 .. n : run[i + 1] = Successor(p, run[i], x[i])
  BY DEF Run
<1> DEFINE Bad == {k \in 0 .. l : st[k + 1] # run[k + 1]}
<1>4. Bad = {}
  <2>1. ASSUME Bad # {} PROVE FALSE
    <3>1. Bad \in SUBSET Nat
      BY <1>1
    <3>2. PICK k \in Bad : \A j \in Bad : k <= j
      BY <2>1, <3>1, LeastExists
    <3>3. k \in 0 .. l /\ st[k + 1] # run[k + 1] /\ k # 0
      BY <1>1, <1>3, <3>2
    <3>4. /\ k - 1 \in 0 .. l /\ ~(k <= k - 1) /\ k - 1 + 1 = k /\ k \in 1 .. l /\ k \in 1 .. n
          /\ k + 1 \in 2 .. Len(st) /\ k + 1 - 1 = k
      BY <1>1, <1>3, <3>3
    <3>5. st[k] = run[k]
      BY <3>2, <3>4
    <3> QED BY <1>1, <1>2, <1>3, <3>3, <3>4, <3>5
  <2> QED BY <2>1
<1>5. st[l + 1] = run[l + 1]
  <2>1. l \in 0 .. l
    BY <1>1
  <2> QED BY <1>4, <2>1
<1> QED BY <1>1, <1>5 DEF IsLast

\* The sentence of d is on its way: the rules put out are its first ones, the form that
\* comes next is what is on the stack and the tokens from number m on, and what it was
\* expanded to does not end below the top.
Matches(p, d, out, s, m) ==
  LET k == Len(out)
      y == d.forms[k + 1]
  IN  /\ k <= Len(d.rules) /\ \A i \in 1 .. k : out[i] = d.rules[i]
      /\ m - 1 <= Len(d.tokens) /\ Len(y) = Len(s) + (Len(d.tokens) - (m - 1))
      /\ \A i \in 1 .. Len(s) : y[i] = s[i]
      /\ \A i \in m .. Len(d.tokens) : y[Len(s) + 1 + (i - m)] = d.tokens[i]
      /\ k < Len(d.rules) => \E n \in Nat :
           /\ ExpandsAt(p, d.rules[k + 1], n, d.forms[k + 2], y)
           /\ Len(s) <= n - 1 + Len(Rule(p, d.rules[k + 1]).rhs)

\* The entry is for the step on the way to the form that comes next.
Decides(p, d, out, s, m, entry) ==
  LET k == Len(out)
  IN  \/ entry.do = "accept" /\ k = Len(d.rules)
      \/ /\ entry.do = "shift" /\ m <= Len(d.tokens)
         /\ k < Len(d.rules) => \E n \in Nat :
              /\ ExpandsAt(p, d.rules[k + 1], n, d.forms[k + 2], d.forms[k + 1])
              /\ Len(s) < n - 1 + Len(Rule(p, d.rules[k + 1]).rhs)
      \/ /\ entry = [do |-> "reduce", param |-> d.rules[k + 1]] /\ k < Len(d.rules)
         /\ \E n \in Nat :
              /\ ExpandsAt(p, d.rules[k + 1], n, d.forms[k + 2], d.forms[k + 1])
              /\ Len(s) = n - 1 + Len(Rule(p, d.rules[k + 1]).rhs)

LEMMA TokenShifted ==
  ASSUME NEW p, NEW q \in States(p), NEW t,
         ItemsComplete(p), t \in Moves(p, q), t \notin Nonterminals(p)
  PROVE  t \in DOMAIN p.action[q] /\ p.action[q][t].do = "shift"
<1>1. t \notin DOMAIN p.goto[q]
  BY Zenon DEF ItemsComplete
<1> QED BY <1>1 DEF Moves

LEMMA FollowReduced ==
  ASSUME NEW p, NEW q \in States(p), NEW r, NEW m, NEW t \in p.follow[Rule(p, r).lhs],
         ItemsComplete(p), ~p.warned, <<r, m>> \in p.items[q], Len(Rule(p, r).rhs) = m
  PROVE  t \in DOMAIN p.action[q] /\ p.action[q][t] = [do |-> "reduce", param |-> r]
<1>1. PICK item \in p.items[q] : item = <<r, m>>
  OBVIOUS
<1>2. item[1] = r /\ item[2] = Len(Rule(p, item[1]).rhs)
  BY <1>1
<1>3. \A u \in p.follow[Rule(p, item[1]).lhs] :
        /\ u \in DOMAIN p.action[q]
        /\ p.warned \/ p.action[q][u] = [do |-> "reduce", param |-> item[1]]
  BY <1>2, Zenon DEF ItemsComplete
<1> QED BY <1>2, <1>3

\* Behind the whole right side of a rule, and before a terminal that can come after it,
\* the entry is to reduce.
LEMMA HandleReduced ==
  ASSUME NEW p, NEW r \in DOMAIN p.rules, NEW x \in Seq(Word), NEW y \in Seq(Word), NEW n \in Nat,
         NEW m \in Nat, NEW q \in States(p), NEW t,
         TableTyped(p), ItemsRight(p), ItemsComplete(p), ~p.warned, ExpandsAt(p, r, n, x, y),
         FormRight(p, x), Len(Rule(p, r).rhs) = m, <<r, m>> \in p.items[q],
         n + m <= Len(y) => y[n + m] = t, ~(n + m <= Len(y)) => t = EOF
  PROVE  t \in DOMAIN p.action[q] /\ p.action[q][t] = [do |-> "reduce", param |-> r]
<1>1. PICK A : A = Rule(p, r).lhs
  OBVIOUS
<1>2. Expansion(p, r, n, x, y, m)
  BY ExpandedForm
<1>3. n >= 1 /\ n <= Len(x) /\ Len(x) \in Nat /\ Len(y) = Len(x) - 1 + m
      /\ x[n] = A /\ A \in Nonterminals(p) /\ n \in 1 .. Len(x)
  BY <1>1, <1>2 DEF Expansion
<1>4. t \in p.follow[A]
  <2>1. IF n = Len(x) THEN EOF \in p.follow[A] ELSE FirstOf(p, x[n + 1]) \subseteq p.follow[A]
    BY <1>3 DEF FormRight, FollowsRight
  <2>2. CASE n = Len(x)
    <3>1. ~(n + m <= Len(y))
      BY <1>3, <2>2
    <3> QED BY <2>1, <2>2, <3>1
  <2>3. CASE n # Len(x)
    <3>1. n + m <= Len(y) /\ n + m \in n + m .. Len(y) /\ n + m - m + 1 = n + 1
          /\ n + 1 \in n + 1 .. Len(x)
      BY <1>3, <2>3
    <3>2. y[n + m] = x[n + 1] /\ x[n + 1] \notin Nonterminals(p)
      BY <1>2, <3>1 DEF Expansion
    <3>3. FirstOf(p, x[n + 1]) = {x[n + 1]}
      BY <3>2 DEF FirstOf
    <3> QED BY <2>1, <2>3, <3>1, <3>2, <3>3
  <2> QED BY <2>2, <2>3
<1> QED BY <1>1, <1>4, FollowReduced

\* Before a terminal that the form goes on with, in front of its last nonterminal or in
\* the right side of the rule, the entry is to shift.
LEMMA RunShifts ==
  ASSUME NEW p, NEW y, NEW n \in Nat, NEW run, NEW l \in Nat, NEW t, NEW q,
         ItemsComplete(p), Run(p, y, n, run), l < n,
         y[l + 1] = t, t \notin Nonterminals(p), q = run[l + 1]
  PROVE  t \in DOMAIN p.action[q] /\ p.action[q][t].do = "shift"
<1>1. l + 1 \in 1 .. n /\ l + 1 \in 1 .. n + 1
  OBVIOUS
<1>2. run[l + 1] \in States(p) /\ t \in Moves(p, run[l + 1])
  BY <1>1 DEF Run
<1> QED BY <1>2, TokenShifted

LEMMA DecidesRight ==
  ASSUME NEW p, NEW st, NEW rs, NEW s, NEW d, NEW out, NEW m \in Nat \ {0}, NEW t, NEW q,
         TableTyped(p), ItemsRight(p), SetsRight(p), ItemsComplete(p), ~p.warned,
         StackOK(p, st, rs), SymbolsOf(rs) = s, IsDerivation(p, d), Len(out) \in Nat,
         Matches(p, d, out, s, m), (IF m <= Len(d.tokens) THEN d.tokens[m] ELSE EOF) = t,
         IsLast(st, q)
  PROVE  t \in DOMAIN p.action[q] /\ Decides(p, d, out, s, m, p.action[q][t])
<1>1. PICK k \in Nat : k = Len(out)
  OBVIOUS
<1>2. PICK y \in Seq(Word) : y = d.forms[k + 1]
  <2>1. k + 1 \in 1 .. Len(d.rules) + 1
    BY <1>1, DerivationTyped DEF Matches
  <2> QED BY <2>1, DerivationTyped
<1>3. PICK l \in Nat : l = Len(s) /\ l = Len(rs) - 1
  BY SymbolsTyped DEF StackOK
<1>4. PICK w \in Nat : w = Len(d.tokens)
  BY DerivationTyped
<1>5. /\ k <= Len(d.rules) /\ m - 1 <= w /\ Len(y) = l + (w - (m - 1))
      /\ \A i \in 1 .. l : y[i] = s[i]
      /\ \A i \in m .. w : y[l + 1 + (i - m)] = d.tokens[i]
  BY <1>1, <1>2, <1>3, <1>4 DEF Matches
<1>6. ASSUME m <= w
      PROVE  t = d.tokens[m] /\ y[l + 1] = t /\ t \notin Nonterminals(p)
  <2>1. m \in m .. w /\ m \in 1 .. w /\ l + 1 + (m - m) = l + 1
    BY <1>6
  <2> QED BY <1>4, <1>5, <1>6, <2>1, DerivationTyped
<1>7. m <= w <=> l < Len(y)
  BY <1>5
<1>8. Begins(rs, y, l)
  BY <1>3, <1>5 DEF Begins
<1>9. CASE k < Len(d.rules)
  <2>1. PICK r \in DOMAIN p.rules, x \in Seq(Word) : r = d.rules[k + 1] /\ x = d.forms[k + 2]
    <3>1. k + 1 \in 1 .. Len(d.rules) /\ k + 2 \in 1 .. Len(d.rules) + 1
      BY <1>9, DerivationTyped
    <3> QED BY <3>1, DerivationTyped
  <2>2. PICK h \in Nat : Len(Rule(p, r).rhs) = h
    BY RuleTyped
  <2>3. PICK n \in Nat : ExpandsAt(p, r, n, x, y) /\ l <= n - 1 + h
    BY <1>1, <1>2, <1>3, <1>9, <2>1, <2>2 DEF Matches
  <2>4. FormRight(p, x)
    <3>1. k + 2 \in 1 .. Len(d.rules) + 1
      BY <1>9, DerivationTyped
    <3> QED BY <2>1, <3>1, FormsRight
  <2>5. PICK e \in Nat : e = n - 1 + h /\ e + 1 = n + h
    BY <1>3, <2>3
  <2>6. HandleEnds(p, r, y, e, h)
    BY <2>2, <2>3, <2>4, <2>5, ExpandedRight
  <2>7. PICK run : Run(p, y, e, run) /\ <<r, h>> \in p.items[run[e + 1]]
    BY <2>6 DEF HandleEnds
  <2>8. l <= e /\ e <= Len(y)
    BY <2>3, <2>5, <2>7 DEF Run
  <2>9. q = run[l + 1]
    BY <1>8, <2>7, <2>8, SameRun
  <2>10. CASE l = e
    <3>1. q \in States(p) /\ <<r, h>> \in p.items[q]
      <4>1. e + 1 \in 1 .. e + 1
        OBVIOUS
      <4> QED BY <2>7, <2>9, <2>10, <4>1 DEF Run
    <3>2. (e + 1 <= Len(y) => y[e + 1] = t) /\ (~(e + 1 <= Len(y)) => t = EOF)
      <4>1. e + 1 <= Len(y) <=> m <= w
        BY <1>5, <1>7, <2>8, <2>10
      <4> QED BY <1>4, <1>6, <2>10, <4>1
    <3>3. t \in DOMAIN p.action[q] /\ p.action[q][t] = [do |-> "reduce", param |-> r]
      BY <2>2, <2>3, <2>4, <2>5, <3>1, <3>2, HandleReduced
    <3>4. \E i \in Nat : /\ ExpandsAt(p, d.rules[k + 1], i, d.forms[k + 2], d.forms[k + 1])
                         /\ Len(s) = i - 1 + Len(Rule(p, d.rules[k + 1]).rhs)
      <4>1. Len(s) = n - 1 + Len(Rule(p, r).rhs)
        BY <1>3, <2>2, <2>5, <2>10
      <4> QED BY <1>2, <2>1, <2>3, <4>1, Zenon
    <3> QED BY <1>1, <1>9, <2>1, <3>3, <3>4, Zenon DEF Decides
  <2>11. CASE l < e
    <3>1. m <= w
      BY <1>5, <1>7, <2>8, <2>11
    <3>2. t \in DOMAIN p.action[q] /\ p.action[q][t].do = "shift"
      BY <1>6, <2>7, <2>9, <2>11, <3>1, RunShifts
    <3>3. \E i \in Nat : /\ ExpandsAt(p, d.rules[k + 1], i, d.forms[k + 2], d.forms[k + 1])
                         /\ Len(s) < i - 1 + Len(Rule(p, d.rules[k + 1]).rhs)
      <4>1. Len(s) < n - 1 + Len(Rule(p, r).rhs)
        BY <1>3, <2>2, <2>5, <2>11
      <4> QED BY <1>2, <2>1, <2>3, <4>1, Zenon
    <3>4. m <= Len(d.tokens)
      BY <1>4, <3>1
    <3> QED BY <1>1, <3>2, <3>3, <3>4, Zenon DEF Decides
  <2> QED BY <2>8, <2>10, <2>11
<1>10. CASE k = Len(d.rules)
  <2>1. y = <<Start>> /\ Len(y) = 1 /\ y[1] = Start /\ Start # EOF
    <3>1. d.forms[k + 1] = <<Start>> /\ Start # EOF
      BY <1>10, DerivationTyped
    <3>2. y = <<Start>>
      BY <1>2, <3>1
    <3> QED BY <3>1, <3>2
  <2>2. PICK run : /\ Run(p, <<Start>>, 1, run) /\ EOF \in DOMAIN p.action[run[2]]
                   /\ p.action[run[2]][EOF].do = "accept"
    BY <2>1, StartRight
  <2>3. Run(p, y, 1, run) /\ l <= 1
    BY <1>5, <2>1, <2>2
  <2>4. q = run[l + 1]
    <3>1. PICK e \in Nat : e = 1
      OBVIOUS
    <3>2. Run(p, y, e, run) /\ l <= e
      BY <2>3, <3>1
    <3> QED BY <1>8, <3>2, SameRun
  <2>5. CASE l = 1
    <3>1. t = EOF /\ q = run[2]
      BY <1>4, <1>7, <2>1, <2>4, <2>5
    <3> QED BY <1>1, <1>10, <2>2, <3>1, Zenon DEF Decides
  <2>6. CASE l = 0
    <3>1. m <= w
      BY <1>7, <2>1, <2>6
    <3>2. t \in DOMAIN p.action[q] /\ p.action[q][t].do = "shift"
      <4>1. PICK e \in Nat : e = 1 /\ l < e
        BY <2>6
      <4>2. Run(p, y, e, run)
        BY <2>3, <4>1
      <4> QED BY <1>6, <2>4, <3>1, <4>1, <4>2, RunShifts
    <3>3. ~(Len(out) < Len(d.rules)) /\ m <= Len(d.tokens)
      BY <1>1, <1>4, <1>10, <3>1
    <3> QED BY <3>2, <3>3, Zenon DEF Decides
  <2> QED BY <2>3, <2>5, <2>6
<1> QED BY <1>5, <1>9, <1>10, DerivationTyped

\* A shift on the way.
LEMMA MatchesShift ==
  ASSUME NEW p, NEW d, NEW out, NEW s \in Seq(Sym), NEW m \in Nat \ {0}, NEW entry, NEW t \in Sym,
         TableTyped(p), IsDerivation(p, d), Len(out) \in Nat, Matches(p, d, out, s, m),
         Decides(p, d, out, s, m, entry), entry.do = "shift", d.tokens[m] = t
  PROVE  Matches(p, d, out, Append(s, t), m + 1)
<1>1. PICK k \in Nat : Len(out) = k
  OBVIOUS
<1>2. PICK y : y = d.forms[k + 1]
  OBVIOUS
<1>3. PICK l \in Nat, w \in Nat : l = Len(s) /\ w = Len(d.tokens)
  BY DerivationTyped
<1>4. /\ k <= Len(d.rules) /\ (\A i \in 1 .. k : out[i] = d.rules[i])
      /\ m - 1 <= w /\ Len(y) = l + (w - (m - 1))
      /\ \A i \in 1 .. l : y[i] = s[i]
      /\ \A i \in m .. w : y[l + 1 + (i - m)] = d.tokens[i]
  BY <1>1, <1>2, <1>3 DEF Matches
<1>5. m <= w /\ (k < Len(d.rules) => \E n \in Nat :
        /\ ExpandsAt(p, d.rules[k + 1], n, d.forms[k + 2], y)
        /\ l < n - 1 + Len(Rule(p, d.rules[k + 1]).rhs))
  BY <1>1, <1>2, <1>3 DEF Decides
<1>6. PICK z : z = Append(s, t)
  OBVIOUS
<1>7. Len(z) = l + 1 /\ z[l + 1] = t /\ \A i \in 1 .. l : z[i] = s[i]
  BY <1>3, <1>6, AppendFacts
<1>8. ASSUME NEW i \in 1 .. l + 1 PROVE y[i] = z[i]
  <2>1. CASE i = l + 1
    <3>1. m \in m .. w /\ l + 1 + (m - m) = l + 1
      BY <1>5
    <3>2. y[l + 1] = d.tokens[m]
      BY <1>4, <3>1
    <3> QED BY <1>7, <2>1, <3>2
  <2>2. CASE i \in 1 .. l
    BY <1>4, <1>7, <2>2
  <2> QED BY <2>1, <2>2
<1>9. ASSUME NEW i \in m + 1 .. w PROVE y[(l + 1) + 1 + (i - (m + 1))] = d.tokens[i]
  <2>1. i \in m .. w /\ (l + 1) + 1 + (i - (m + 1)) = l + 1 + (i - m)
    OBVIOUS
  <2> QED BY <1>4, <2>1
<1>10. (m + 1) - 1 <= w /\ Len(y) = (l + 1) + (w - ((m + 1) - 1))
  BY <1>4, <1>5
<1>11. k < Len(d.rules) => \E n \in Nat :
         /\ ExpandsAt(p, d.rules[k + 1], n, d.forms[k + 2], y)
         /\ l + 1 <= n - 1 + Len(Rule(p, d.rules[k + 1]).rhs)
  <2> SUFFICES ASSUME k < Len(d.rules)
               PROVE  \E n \in Nat : /\ ExpandsAt(p, d.rules[k + 1], n, d.forms[k + 2], y)
                                     /\ l + 1 <= n - 1 + Len(Rule(p, d.rules[k + 1]).rhs)
    OBVIOUS
  <2>1. PICK n \in Nat : /\ ExpandsAt(p, d.rules[k + 1], n, d.forms[k + 2], y)
                         /\ l < n - 1 + Len(Rule(p, d.rules[k + 1]).rhs)
    BY <1>5
  <2>2. PICK h \in Nat : Len(Rule(p, d.rules[k + 1]).rhs) = h
    <3>1. d.rules[k + 1] \in DOMAIN p.rules
      <4>1. k + 1 \in 1 .. Len(d.rules)
        BY DerivationTyped
      <4> QED BY <4>1, DerivationTyped
    <3> QED BY <3>1, RuleTyped
  <2>3. l + 1 <= n - 1 + h
    BY <2>1, <2>2
  <2> QED BY <2>1, <2>2, <2>3
<1> QED BY <1>1, <1>2, <1>3, <1>4, <1>6, <1>7, <1>8, <1>9, <1>10, <1>11 DEF Matches

\* Symbols z are s with the right side of rule r replaced by its left side.
Replaced(p, r, s, z) ==
  \E k \in Nat : /\ k = Len(s) - Len(Rule(p, r).rhs) /\ Len(z) = k + 1
                 /\ \A i \in 1 .. k : z[i] = s[i]
                 /\ z[k + 1] = Rule(p, r).lhs

\* A reduction on the way.
LEMMA MatchesReduce ==
  ASSUME NEW p, NEW d, NEW out \in Seq(DOMAIN p.rules), NEW s \in Seq(Sym), NEW m \in Nat \ {0},
         NEW entry, NEW z,
         TableTyped(p), IsDerivation(p, d), Matches(p, d, out, s, m),
         Decides(p, d, out, s, m, entry), entry.do = "reduce", Replaced(p, entry.param, s, z)
  PROVE  Matches(p, d, Append(out, entry.param), z, m)
<1>1. PICK k \in Nat : k = Len(out)
  OBVIOUS
<1>2. PICK l \in Nat, w \in Nat : l = Len(s) /\ w = Len(d.tokens)
  BY DerivationTyped
<1>3. k < Len(d.rules) /\ entry.param = d.rules[k + 1] /\ \E n \in Nat :
        /\ ExpandsAt(p, d.rules[k + 1], n, d.forms[k + 2], d.forms[k + 1])
        /\ l = n - 1 + Len(Rule(p, d.rules[k + 1]).rhs)
  BY <1>1, <1>2 DEF Decides
<1>4. PICK v \in Nat : Len(d.rules) = v
  BY DerivationTyped
<1>5. k + 1 \in 1 .. v /\ k + 1 \in 1 .. v + 1 /\ k + 2 \in 1 .. v + 1
  BY <1>3, <1>4
<1>6. PICK x \in Seq(Word), y \in Seq(Word) : x = d.forms[k + 2] /\ y = d.forms[k + 1]
  BY <1>4, <1>5, DerivationTyped
<1>7. PICK r \in DOMAIN p.rules : r = entry.param
  BY <1>3, <1>4, <1>5, DerivationTyped
<1>8. PICK h \in Nat : Len(Rule(p, r).rhs) = h
  BY RuleTyped
<1>9. PICK n \in Nat : ExpandsAt(p, r, n, x, y) /\ l = n - 1 + h
  BY <1>3, <1>6, <1>7, <1>8
<1>10. Expansion(p, r, n, x, y, h)
  BY <1>8, <1>9, ExpandedForm
<1>11. PICK a \in Nat, b \in Nat : Len(x) = a /\ Len(y) = b
  OBVIOUS
<1>12. /\ n >= 1 /\ n <= a /\ b = a - 1 + h
       /\ x[n] = Rule(p, r).lhs /\ x[n] \in Nonterminals(p)
       /\ \A i \in 1 .. n - 1 : y[i] = x[i]
       /\ \A i \in n + h .. b : y[i] = x[i - h + 1]
  BY <1>10, <1>11 DEF Expansion
<1>13. /\ \A i \in 1 .. k : out[i] = d.rules[i]
       /\ m - 1 <= w /\ b = l + (w - (m - 1))
       /\ \A i \in 1 .. l : y[i] = s[i]
       /\ \A i \in m .. w : y[l + 1 + (i - m)] = d.tokens[i]
  BY <1>1, <1>2, <1>6, <1>11 DEF Matches
<1>14. /\ n >= 1 /\ n <= a /\ b = a - 1 + h /\ m - 1 <= w /\ b = l + (w - (m - 1)) /\ l = n - 1 + h
  BY <1>9, <1>12, <1>13
<1>15. Len(z) = n /\ z[n] = Rule(p, r).lhs /\ \A i \in 1 .. n - 1 : z[i] = s[i]
  <2>1. PICK j \in Nat : /\ j = Len(s) - Len(Rule(p, r).rhs) /\ Len(z) = j + 1
                         /\ \A i \in 1 .. j : z[i] = s[i]
                         /\ z[j + 1] = Rule(p, r).lhs
    BY <1>7 DEF Replaced
  <2>2. j = l - h
    BY <1>2, <1>8, <2>1
  <2>3. j = n - 1 /\ j + 1 = n
    BY <1>9, <2>2
  <2> QED BY <2>1, <2>3
<1>16. PICK more : more = Append(out, entry.param)
  OBVIOUS
<1>17. Len(more) = k + 1 /\ \A i \in 1 .. k + 1 : more[i] = d.rules[i]
  <2>1. Len(more) = k + 1 /\ more[k + 1] = r /\ \A i \in 1 .. k : more[i] = out[i]
    BY <1>1, <1>7, <1>16, AppendFacts
  <2>2. ASSUME NEW i \in 1 .. k + 1 PROVE more[i] = d.rules[i]
    <3>1. i = k + 1 \/ i \in 1 .. k
      OBVIOUS
    <3> QED BY <1>3, <1>7, <1>13, <2>1, <3>1
  <2> QED BY <2>1, <2>2
<1>18. a = n + (w - (m - 1))
  BY <1>14
<1>19. \A i \in 1 .. n : x[i] = z[i]
  <2> TAKE i \in 1 .. n
  <2>1. i = n \/ (i \in 1 .. n - 1 /\ i \in 1 .. l)
    BY <1>14
  <2> QED BY <1>12, <1>13, <1>15, <2>1
<1>20. \A i \in m .. w : x[n + 1 + (i - m)] = d.tokens[i]
  <2> TAKE i \in m .. w
  <2>1. PICK j \in Nat : j = l + 1 + (i - m) /\ j \in n + h .. b /\ j - h + 1 = n + 1 + (i - m)
    BY <1>14
  <2>2. y[j] = d.tokens[i] /\ y[j] = x[j - h + 1]
    BY <1>12, <1>13, <2>1
  <2> QED BY <2>1, <2>2
<1>21. k + 1 < v => \E n2 \in Nat :
         /\ ExpandsAt(p, d.rules[k + 2], n2, d.forms[k + 3], x)
         /\ n <= n2 - 1 + Len(Rule(p, d.rules[k + 2]).rhs)
  <2> SUFFICES ASSUME k + 1 < v
               PROVE  \E n2 \in Nat : /\ ExpandsAt(p, d.rules[k + 2], n2, d.forms[k + 3], x)
                                      /\ n <= n2 - 1 + Len(Rule(p, d.rules[k + 2]).rhs)
    OBVIOUS
  <2>1. k + 2 \in 1 .. v /\ k + 3 \in 1 .. v + 1 /\ (k + 2) + 1 = k + 3
    OBVIOUS
  <2>2. PICK q \in DOMAIN p.rules, u \in Seq(Word) : q = d.rules[k + 2] /\ u = d.forms[k + 3]
    BY <1>4, <2>1, DerivationTyped
  <2>3. PICK n2 \in Nat : ExpandsAt(p, q, n2, u, x)
    BY <1>4, <1>6, <2>1, <2>2, DerivationTyped
  <2>4. PICK g \in Nat : Len(Rule(p, q).rhs) = g
    BY RuleTyped
  <2>5. Expansion(p, q, n2, u, x, g)
    BY <2>3, <2>4, ExpandedForm
  <2>6. PICK c \in Nat : Len(u) = c /\ a = c - 1 + g
    BY <1>11, <2>5 DEF Expansion
  <2>7. ASSUME ~(n <= n2 - 1 + g) PROVE FALSE
    <3>1. n \in n2 + g .. a /\ n - g + 1 \in n2 + 1 .. c
      BY <1>14, <2>6, <2>7
    <3>2. x[n] = u[n - g + 1] /\ u[n - g + 1] \notin Nonterminals(p)
      BY <1>11, <2>5, <2>6, <3>1 DEF Expansion
    <3> QED BY <1>12, <3>2
  <2> QED BY <2>2, <2>3, <2>4, <2>7
<1>22. (k + 1) + 1 = k + 2 /\ (k + 1) + 2 = k + 3 /\ k + 1 <= v
  BY <1>5
<1>23. PICK e \in Nat : Len(more) = e /\ e = k + 1
  BY <1>17
<1>24. d.forms[e + 1] = x /\ e <= v /\ \A i \in 1 .. e : more[i] = d.rules[i]
  BY <1>6, <1>17, <1>22, <1>23
<1>25. /\ m - 1 <= w /\ Len(x) = n + (w - (m - 1))
       /\ (\A i \in 1 .. n : x[i] = z[i]) /\ \A i \in m .. w : x[n + 1 + (i - m)] = d.tokens[i]
  BY <1>11, <1>14, <1>18, <1>19, <1>20
<1>26. e < v => \E i \in Nat : /\ ExpandsAt(p, d.rules[e + 1], i, d.forms[e + 2], x)
                             /\ n <= i - 1 + Len(Rule(p, d.rules[e + 1]).rhs)
  BY <1>21, <1>22, <1>23
<1>27. Matches(p, d, more, z, m)
  <2>1. Len(more) = e /\ Len(z) = n /\ Len(d.tokens) = w /\ Len(d.rules) = v
    BY <1>2, <1>4, <1>15, <1>23
  <2> QED BY <1>24, <1>25, <1>26, <2>1, Zenon DEF Matches
<1> QED BY <1>16, <1>27

-----------------------------------------------------------------------------
(* What the parser sees of a sentence.                                     *)

LEMMA PrefixElements ==
  ASSUME NEW T, NEW s \in Seq(T), NEW t \in Seq(T), NEW n \in Nat, n <= Len(s)
  PROVE  IsPrefix(SubSeq(s, 1, n), t) <=> n <= Len(t) /\ \A i \in 1 .. n : s[i] = t[i]
<1>1. PICK a : a = SubSeq(s, 1, n)
  OBVIOUS
<1>2. a \in Seq(T) /\ Len(a) = n /\ \A i \in 1 .. n : a[i] = s[i]
  BY <1>1
<1>3. SubSeq(a, 1, Len(a)) = a
  BY <1>2, SubSeqFull
<1>4. ASSUME n <= Len(t) PROVE a = SubSeq(t, 1, n) <=> \A i \in 1 .. n : s[i] = t[i]
  <2>1. PICK b : b = SubSeq(t, 1, n)
    OBVIOUS
  <2>2. b \in Seq(T) /\ Len(b) = n /\ \A i \in 1 .. n : b[i] = t[i]
    BY <1>4, <2>1
  <2>3. a = b <=> \A i \in 1 .. n : a[i] = b[i]
    BY <1>2, <2>2, SeqEqual
  <2> QED BY <1>2, <2>1, <2>2, <2>3
<1>5. IsPrefix(a, t) <=> n <= Len(t) /\ a = SubSeq(t, 1, n)
  BY <1>2, <1>3 DEF IsPrefix
<1> QED BY <1>1, <1>4, <1>5

\* The next token is the next one of the sentence.
LEMMA AgreesNext ==
  ASSUME NEW d, IInv, IsDerivation(Table[grammar], d), Agrees(d)
  PROVE  /\ (IF pos <= Len(d.tokens) THEN d.tokens[pos] ELSE EOF) = NextToken
         /\ pos - 1 <= Len(d.tokens)
<1>1. input \in Seq(Word) /\ d.tokens \in Seq(Word)
  BY TablesRight, DerivationTyped DEF Word
<1>2. pos \in Nat \ {0} /\ Len(input) \in Nat /\ pos <= Len(input) + 1
  BY <1>1 DEF IInv, TypeOK
<1>3. CASE pos <= Len(input)
  <2>1. IsPrefix(SubSeq(input, 1, pos), d.tokens)
    BY <1>2, <1>3 DEF Agrees
  <2>2. pos <= Len(d.tokens) /\ \A i \in 1 .. pos : input[i] = d.tokens[i]
    BY <1>1, <1>2, <1>3, <2>1, PrefixElements
  <2>3. input[pos] = d.tokens[pos]
    BY <1>2, <2>2
  <2> QED BY <1>1, <1>2, <1>3, <2>2, <2>3 DEF NextToken
<1>4. CASE ~(pos <= Len(input))
  <2>1. d.tokens = input
    BY <1>2, <1>4 DEF Agrees
  <2> QED BY <1>2, <1>4, <2>1 DEF NextToken
<1> QED BY <1>3, <1>4

LEMMA AgreesBefore ==
  ASSUME NEW d, IInv, ShiftToken, IsDerivation(Table[grammar], d), Agrees(d)'
  PROVE  Agrees(d)
<1>1. input \in Seq(Word) /\ d.tokens \in Seq(Word)
  BY TablesRight, DerivationTyped DEF Word
<1>2. pos \in Nat \ {0} /\ Len(input) \in Nat /\ Len(d.tokens) \in Nat
  BY <1>1 DEF IInv, TypeOK
<1>3. pos <= Len(input)
  BY EntryRight DEF ShiftToken, NextToken
<1>4. pos' = pos + 1 /\ input' = input
  BY DEF ShiftToken
<1>5. pos <= Len(d.tokens) /\ \A i \in 1 .. pos : input[i] = d.tokens[i]
  <2>1. CASE pos + 1 > Len(input)
    <3>1. d.tokens = input
      BY <1>4, <2>1 DEF Agrees
    <3> QED BY <1>3, <3>1
  <2>2. CASE ~(pos + 1 > Len(input))
    <3>1. IsPrefix(SubSeq(input, 1, pos + 1), d.tokens)
      BY <1>4, <2>2 DEF Agrees
    <3>2. pos + 1 \in Nat /\ pos + 1 <= Len(input)
      BY <1>2, <2>2
    <3>3. pos + 1 <= Len(d.tokens) /\ \A i \in 1 .. pos + 1 : input[i] = d.tokens[i]
      BY <1>1, <3>1, <3>2, PrefixElements
    <3>4. pos <= Len(d.tokens) /\ \A i \in 1 .. pos : i \in 1 .. pos + 1
      BY <1>2, <3>3
    <3> QED BY <3>3, <3>4
  <2> QED BY <2>1, <2>2
<1>6. IsPrefix(SubSeq(input, 1, pos), d.tokens)
  BY <1>1, <1>2, <1>3, <1>5, PrefixElements
<1> QED BY <1>2, <1>3, <1>6 DEF Agrees

\* The invariant about sentences: of each one that goes on as the input does, what
\* has been done is on the way.
Followed ==
  ~Table[grammar].warned =>
    \A d \in Sentences[grammar] : Agrees(d) => Matches(Table[grammar], d, output, Symbols, pos)

LEMMA SentenceRight ==
  ASSUME NEW d \in Sentences[grammar], IInv
  PROVE  /\ IsDerivation(Table[grammar], d)
         /\ SetsRight(Table[grammar]) /\ ItemsComplete(Table[grammar])
<1>1. grammar \in Grammars
  BY DEF IInv, TypeOK
<1> QED BY <1>1, SentencesAssumption, CompleteAssumption, Zenon

\* There is an entry for the next token, and it is on the way.
LEMMA StepDecides ==
  ASSUME NEW d \in Sentences[grammar], IInv, Followed, ~Table[grammar].warned, Agrees(d)
  PROVE  /\ NextToken \in Expected
         /\ Decides(Table[grammar], d, output, Symbols, pos, Entry)
<1>1. PICK p : p = Table[grammar]
  OBVIOUS
<1>2. PICK t : t = NextToken
  OBVIOUS
<1>3. PICK s : s = Symbols
  OBVIOUS
<1>4. /\ TableTyped(p) /\ ItemsRight(p) /\ SetsRight(p) /\ ItemsComplete(p) /\ ~p.warned
      /\ IsDerivation(p, d)
  BY <1>1, TablesRight, SentenceRight
<1>5. StackOK(p, stack, results) /\ SymbolsOf(results) = s
  BY <1>1, <1>3 DEF IInv, Symbols, SymbolsOf
<1>6. Len(output) \in Nat /\ pos \in Nat \ {0}
  BY TablesRight DEF IInv, TypeOK
<1>7. Matches(p, d, output, s, pos)
  BY <1>1, <1>3 DEF Followed
<1>8. (IF pos <= Len(d.tokens) THEN d.tokens[pos] ELSE EOF) = t
  BY <1>1, <1>2, <1>4, AgreesNext
<1>9. IsLast(stack, Top)
  BY DEF IsLast, Top
<1>10. t \in DOMAIN p.action[Top] /\ Decides(p, d, output, s, pos, p.action[Top][t])
  BY <1>4, <1>5, <1>6, <1>7, <1>8, <1>9, DecidesRight
<1> QED BY <1>1, <1>2, <1>3, <1>10 DEF Expected, Entry

LEMMA FollowedInit == Init => Followed
<1> SUFFICES ASSUME Init, NEW d \in Sentences[grammar]
             PROVE  Matches(Table[grammar], d, output, Symbols, pos)
  BY DEF Followed
<1>1. PICK p : p = Table[grammar]
  OBVIOUS
<1>2. TableTyped(p) /\ IsDerivation(p, d)
  BY <1>1, InitInvariant, TablesRight, SentenceRight
<1>3. PICK w \in Nat, v \in Nat, y \in Seq(Word) : Len(d.tokens) = w /\ Len(d.rules) = v /\ y = d.forms[1]
  <2>1. 1 \in 1 .. Len(d.rules) + 1
    BY <1>2, DerivationTyped
  <2> QED BY <1>2, <2>1, DerivationTyped
<1>4. y = d.tokens /\ Len(y) = w
  BY <1>2, <1>3, DerivationTyped
<1>5. Len(output) = 0 /\ pos = 1
  BY DEF Init
<1>6. PICK s : s = Symbols
  OBVIOUS
<1>7. Len(s) = 0
  <2>1. Len(results) - 1 = 0
    BY DEF Init
  <2>2. \A i \in 1 .. 0 : FALSE
    OBVIOUS
  <2>3. Symbols = <<>>
    BY <2>1, <2>2 DEF Init, Symbols
  <2> QED BY <1>6, <2>3
<1>8. 0 < v => \E n \in Nat : /\ ExpandsAt(p, d.rules[1], n, d.forms[2], y)
                              /\ 0 <= n - 1 + Len(Rule(p, d.rules[1]).rhs)
  <2> SUFFICES ASSUME 0 < v
               PROVE  \E n \in Nat : /\ ExpandsAt(p, d.rules[1], n, d.forms[2], y)
                                     /\ 0 <= n - 1 + Len(Rule(p, d.rules[1]).rhs)
    OBVIOUS
  <2>1. 1 \in 1 .. v /\ 1 + 1 = 2 /\ d.rules[1] \in DOMAIN p.rules
    <3>1. 1 \in 1 .. v /\ 1 + 1 = 2
      OBVIOUS
    <3> QED BY <1>2, <1>3, <3>1, DerivationTyped
  <2>2. PICK n \in Nat : ExpandsAt(p, d.rules[1], n, d.forms[2], y)
    BY <1>2, <1>3, <2>1, DerivationTyped
  <2>3. n >= 1
    BY <2>2 DEF ExpandsAt
  <2>4. Len(Rule(p, d.rules[1]).rhs) \in Nat
    BY <1>2, <2>1, RuleTyped
  <2> QED BY <2>2, <2>3, <2>4
<1>9. Matches(p, d, output, s, pos)
  <2>1. d.forms[0 + 1] = y /\ 0 + 1 = 1 /\ 0 + 2 = 2
    BY <1>3
  <2>2. \A i \in 1 .. 0 : FALSE
    OBVIOUS
  <2>3. \A i \in 1 .. w : y[0 + 1 + (i - 1)] = d.tokens[i]
    BY <1>4
  <2> QED BY <1>3, <1>4, <1>5, <1>7, <1>8, <2>1, <2>2, <2>3 DEF Matches
<1> QED BY <1>1, <1>6, <1>9

LEMMA FollowedShift ==
  ASSUME IInv, Followed, ShiftToken
  PROVE  Followed'
<1>1. PICK p : p = Table[grammar]
  OBVIOUS
<1>2. PICK t : t = NextToken
  OBVIOUS
<1>3. PICK e : e = [sym |-> t, from |-> pos, to |-> pos]
  OBVIOUS
<1>4. /\ results' = Append(results, e) /\ pos' = pos + 1
      /\ UNCHANGED <<grammar, input, output>> /\ Entry.do = "shift"
  BY <1>2, <1>3 DEF ShiftToken
<1>5. SUFFICES ASSUME ~Table[grammar].warned, NEW d \in Sentences[grammar], Agrees(d)'
               PROVE  Matches(p, d, output, Symbols', pos + 1)
  BY <1>1, <1>4 DEF Followed
<1>6. TableTyped(p) /\ IsDerivation(p, d)
  BY <1>1, TablesRight, SentenceRight
<1>7. Agrees(d)
  BY <1>1, <1>5, <1>6, AgreesBefore
<1>8. PICK s : s = Symbols
  OBVIOUS
<1>9. PICK m \in Nat \ {0} : m = pos
  BY TablesRight DEF IInv, TypeOK
<1>10. Decides(p, d, output, s, m, Entry) /\ Matches(p, d, output, s, m)
  BY <1>1, <1>5, <1>7, <1>8, <1>9, StepDecides DEF Followed
<1>11. t = d.tokens[m] /\ m <= Len(d.tokens)
  <2>1. t # EOF
    BY <1>2, <1>4, EntryRight DEF ShiftToken
  <2> QED BY <1>1, <1>2, <1>6, <1>7, <1>9, <2>1, AgreesNext
<1>12. t \in STRING /\ t \in Sym
  <2>1. d.tokens \in Seq(Word)
    BY <1>6, DerivationTyped
  <2> QED BY <1>9, <1>11, <2>1 DEF Word, Sym
<1>13. s \in Seq(Sym) /\ Symbols' = Append(s, t)
  <2>1. e \in Result /\ e.sym = t
    BY <1>3, <1>9, <1>12 DEF Result
  <2>2. results \in Seq(Result) /\ results # <<>>
    BY DEF IInv, StackOK
  <2>3. SymbolsOf(Append(results, e)) = Append(SymbolsOf(results), t) /\ SymbolsOf(results) \in Seq(Sym)
    BY <1>12, <2>1, <2>2, SymbolsPush, SymbolsTyped
  <2> QED BY <1>4, <1>8, <2>3 DEF Symbols, SymbolsOf
<1>14. Len(output) \in Nat
  BY DEF IInv, TypeOK
<1>15. Matches(p, d, output, Append(s, t), m + 1)
  BY <1>4, <1>6, <1>10, <1>11, <1>12, <1>13, <1>14, MatchesShift
<1> QED BY <1>9, <1>13, <1>15

\* What a reduction does to the symbols.
LEMMA SymbolsReplaced ==
  ASSUME NEW p, NEW r \in DOMAIN p.rules, NEW rs \in Seq(Result), NEW n \in Nat, NEW e \in Result,
         TableTyped(p), Len(Rule(p, r).rhs) = n, n < Len(rs), OnTop(rs, Rule(p, r).rhs, n),
         e.sym = Rule(p, r).lhs
  PROVE  /\ SymbolsOf(Append(Rest(rs, n), e)) \in Seq(Sym)
         /\ Replaced(p, r, SymbolsOf(rs), SymbolsOf(Append(Rest(rs, n), e)))
<1>1. PICK A : A = Rule(p, r).lhs
  OBVIOUS
<1>2. PICK rhs : rhs = Rule(p, r).rhs
  OBVIOUS
<1>3. A \in Sym /\ rhs \in Seq(Sym)
  BY <1>1, <1>2, RuleTyped
<1>4. PICK below : below = Rest(rs, n)
  OBVIOUS
<1>5. PICK a : a = SymbolsOf(below)
  OBVIOUS
<1>6. below \in Seq(Result) /\ below # <<>> /\ SymbolsOf(rs) = a \o rhs
  BY <1>2, <1>3, <1>4, <1>5, SymbolsPop
<1>7. a \in Seq(Sym)
  BY <1>5, <1>6, SymbolsTyped
<1>8. PICK s : s = a \o rhs
  OBVIOUS
<1>9. PICK z : z = Append(a, A)
  OBVIOUS
<1>10. SymbolsOf(Append(below, e)) = z
  BY <1>1, <1>3, <1>5, <1>6, <1>9, SymbolsPush
<1>11. PICK k \in Nat : k = Len(a)
  BY <1>7
<1>12. z \in Seq(Sym) /\ Len(z) = k + 1 /\ z[k + 1] = A /\ \A i \in 1 .. k : z[i] = a[i]
  BY <1>3, <1>7, <1>9, <1>11, AppendFacts
<1>13. Len(s) = k + n /\ \A i \in 1 .. k : s[i] = a[i]
  <2>1. /\ Len(a \o rhs) = Len(a) + Len(rhs)
        /\ \A i \in 1 .. Len(a) + Len(rhs) : (a \o rhs)[i] = IF i <= Len(a) THEN a[i] ELSE rhs[i - Len(a)]
    BY <1>3, <1>7, ConcatProperties, Zenon
  <2>2. Len(a) = k /\ Len(rhs) = n
    BY <1>2, <1>11
  <2>3. \A i \in 1 .. k : i \in 1 .. k + n /\ i <= k
    OBVIOUS
  <2>4. Len(s) = k + n /\ \A i \in 1 .. k + n : s[i] = IF i <= k THEN a[i] ELSE rhs[i - k]
    BY <1>8, <2>1, <2>2, Zenon
  <2> QED BY <2>3, <2>4
<1>14. k = Len(s) - Len(Rule(p, r).rhs)
  BY <1>11, <1>13
<1>15. Replaced(p, r, s, z)
  BY <1>1, <1>12, <1>13, <1>14 DEF Replaced
<1> QED BY <1>4, <1>6, <1>8, <1>10, <1>12, <1>15

LEMMA FollowedReduce ==
  ASSUME IInv, Followed, ReduceRule
  PROVE  Followed'
<1>1. PICK p : p = Table[grammar]
  OBVIOUS
<1>2. PICK r : r = Entry.param
  OBVIOUS
<1>3. PICK n : n = Len(Rule(p, r).rhs)
  OBVIOUS
<1>4. PICK A : A = Rule(p, r).lhs
  OBVIOUS
<1>5. PICK e : e = [sym |-> A, from |-> Popped(results, n)[1].from, to |-> Popped(results, n)[n].to]
  OBVIOUS
<1>6. /\ TableTyped(p) /\ ItemsRight(p) /\ StackOK(p, stack, results) /\ Tiles(results, pos - 1)
      /\ results \in Seq(Result) /\ results # <<>> /\ Len(results) = Len(stack)
  BY <1>1, TablesRight DEF IInv, Tiled, StackOK
<1>7. <<r, n>> \in p.items[stack[Len(stack)]] /\ Rule(p, r).rhs # <<>>
  BY <1>1, <1>2, <1>3, EntryRight DEF ReduceRule, Top
<1>8. n \in Nat /\ n < Len(results) /\ r \in DOMAIN p.rules /\ OnTop(results, Rule(p, r).rhs, n)
  BY <1>6, <1>7, HandleOnTop
<1>9. A \in STRING /\ n # 0
  BY <1>3, <1>4, <1>6, <1>7, <1>8, RuleTyped
<1>10. e \in Result /\ e.sym = A
  BY <1>5, <1>6, <1>8, <1>9, ReduceTile
<1>11. /\ results' = Append(Rest(results, n), e) /\ output' = Append(output, r)
       /\ UNCHANGED <<grammar, input, pos>> /\ Entry.do = "reduce"
  BY <1>1, <1>2, <1>3, <1>4, <1>5 DEF ReduceRule
<1>12. SUFFICES ASSUME ~Table[grammar].warned, NEW d \in Sentences[grammar], Agrees(d)
                PROVE  Matches(p, d, Append(output, r), SymbolsOf(results'), pos)
  <2>1. \A d : Agrees(d)' <=> Agrees(d)
    BY <1>11 DEF Agrees
  <2>2. Symbols' = SymbolsOf(results')
    BY DEF Symbols, SymbolsOf
  <2> QED BY <1>1, <1>11, <2>1, <2>2 DEF Followed
<1>13. IsDerivation(p, d)
  BY <1>1, SentenceRight
<1>14. PICK s : s = Symbols
  OBVIOUS
<1>15. PICK m \in Nat \ {0} : m = pos
  BY TablesRight DEF IInv, TypeOK
<1>16. Decides(p, d, output, s, m, Entry) /\ Matches(p, d, output, s, m)
  BY <1>1, <1>12, <1>14, <1>15, StepDecides DEF Followed
<1>17. s = SymbolsOf(results) /\ s \in Seq(Sym)
  BY <1>6, <1>14, SymbolsTyped DEF Symbols, SymbolsOf
<1>18. PICK z : z = SymbolsOf(results')
  OBVIOUS
<1>19. Replaced(p, r, s, z)
  BY <1>3, <1>4, <1>6, <1>8, <1>10, <1>11, <1>17, <1>18, SymbolsReplaced
<1>20. output \in Seq(DOMAIN p.rules)
  BY <1>1 DEF IInv, TypeOK
<1>21. Matches(p, d, Append(output, Entry.param), z, m)
  BY <1>2, <1>6, <1>11, <1>13, <1>15, <1>16, <1>17, <1>19, <1>20, MatchesReduce
<1> QED BY <1>2, <1>15, <1>18, <1>21

LEMMA FollowedAlways == Spec => []Followed
<1>1. Init => Followed
  BY FollowedInit
<1>2. IInv /\ Followed /\ [Next]_vars => Followed'
  <2> SUFFICES ASSUME IInv, Followed, [Next]_vars PROVE Followed'
    OBVIOUS
  <2>1. CASE ShiftToken
    BY <2>1, FollowedShift
  <2>2. CASE ReduceRule
    BY <2>2, FollowedReduce
  <2>3. CASE AcceptInput \/ Unexpected \/ ActionThrows \/ UNCHANGED vars
    <3>1. UNCHANGED <<grammar, input, pos, results, output>>
      BY <2>3 DEF AcceptInput, Unexpected, ActionThrows, vars
    <3>2. \A d : Agrees(d)' <=> Agrees(d)
      BY <3>1 DEF Agrees
    <3>3. Symbols' = Symbols
      BY <3>1 DEF Symbols
    <3> QED BY <3>1, <3>2, <3>3 DEF Followed
  <2> QED BY <2>1, <2>2, <2>3 DEF Next
<1> QED BY <1>1, <1>2, Invariance, PTL DEF Spec

\* How the parse ends, given that what has been done is on the way.
Decided ==
  ~Table[grammar].warned =>
    /\ outcome = "accepted" => \A d \in Sentences[grammar] : d.tokens = input => d.rules = output
    /\ outcome = "error" => \A d \in Sentences[grammar] : ~Agrees(d)

LEMMA DecidedAccept ==
  ASSUME IInv, IInv', Followed, AcceptInput
  PROVE  Decided'
<1>1. PICK p : p = Table[grammar]
  OBVIOUS
<1>2. /\ UNCHANGED <<grammar, input, pos, output>> /\ outcome' = "accepted"
      /\ Entry.do = "accept"
  BY DEF AcceptInput
<1>3. SUFFICES ASSUME ~Table[grammar].warned, NEW d \in Sentences[grammar], d.tokens = input
               PROVE  d.rules = output
  BY <1>2 DEF Decided
<1>4. pos = Len(input) + 1
  BY <1>2 DEF IInv, WholeAccepted
<1>5. input \in Seq(Word) /\ Len(input) \in Nat
  BY TablesRight DEF Word
<1>6. Agrees(d)
  BY <1>3, <1>4, <1>5 DEF Agrees
<1>7. Decides(p, d, output, Symbols, pos, Entry) /\ Matches(p, d, output, Symbols, pos)
  BY <1>1, <1>3, <1>6, StepDecides DEF Followed
<1>8. d.rules \in Seq(DOMAIN p.rules) /\ output \in Seq(DOMAIN p.rules)
  BY <1>1, <1>3, SentenceRight, DerivationTyped DEF IInv, TypeOK
<1>9. Len(output) = Len(d.rules)
  BY <1>2, <1>7 DEF Decides
<1>10. \A i \in 1 .. Len(output) : output[i] = d.rules[i]
  BY <1>7 DEF Matches
<1> QED BY <1>8, <1>9, <1>10, SeqEqual

LEMMA DecidedUnexpected ==
  ASSUME IInv, Followed, Unexpected
  PROVE  Decided'
<1>1. UNCHANGED <<grammar, input, pos, output>> /\ outcome' = "error" /\ NextToken \notin Expected
  BY DEF Unexpected
<1>2. SUFFICES ASSUME ~Table[grammar].warned, NEW d \in Sentences[grammar], Agrees(d)
               PROVE  FALSE
  BY <1>1 DEF Decided, Agrees
<1> QED BY <1>1, <1>2, StepDecides

LEMMA DecidedAlways == Spec => []Decided
<1>1. Init => Decided
  BY DEF Init, Decided
<1>2. IInv /\ IInv' /\ Followed /\ Decided /\ [Next]_vars => Decided'
  <2> SUFFICES ASSUME IInv, IInv', Followed, Decided, [Next]_vars PROVE Decided'
    OBVIOUS
  <2>1. CASE AcceptInput
    BY <2>1, DecidedAccept
  <2>2. CASE Unexpected
    BY <2>2, DecidedUnexpected
  <2>3. CASE ShiftToken \/ ReduceRule \/ ActionThrows
    <3>1. outcome' # "accepted" /\ outcome' # "error"
      BY <2>3 DEF ShiftToken, ReduceRule, ActionThrows
    <3> QED BY <3>1 DEF Decided
  <2>4. CASE UNCHANGED vars
    <3>1. UNCHANGED <<grammar, input, pos, output, outcome>>
      BY <2>4 DEF vars
    <3> QED BY <3>1 DEF Decided, Agrees
  <2> QED BY <2>1, <2>2, <2>3, <2>4 DEF Next
<1> QED BY <1>1, <1>2, Invariance, FollowedAlways, PTL DEF Spec

\* If the generator has not warned of a conflict, ParserError is thrown only where
\* no sentence of the grammar goes on with the token that the parser has come to.
THEOREM ErrorsRight == Spec => []ErrorsAreReal
<1>1. Decided => ErrorsAreReal
  BY DEF Decided, ErrorsAreReal
<1> QED BY <1>1, DecidedAlways, PTL

\* The rules that parse returns are a derivation of the whole input and, if the
\* generator has not warned, any derivation of it is this one: the grammar is not
\* ambiguous.
THEOREM DerivationUnique == Spec => []OnlyDerivation
<1>1. /\ IInv /\ Decided
      /\ (outcome = "accepted" => Derivation(Table[grammar], output, <<Start>>, input))
      => OnlyDerivation
  <2> SUFFICES ASSUME IInv, Decided, outcome = "accepted",
                      Derivation(Table[grammar], output, <<Start>>, input)
               PROVE  /\ WholeAccepted
                      /\ Undone(Table[grammar], output, <<Start>>) = input
                      /\ \/ Table[grammar].warned
                         \/ \A d \in Sentences[grammar] : d.tokens = input => d.rules = output
    BY DEF OnlyDerivation
  <2>1. TableTyped(Table[grammar]) /\ output \in Seq(DOMAIN Table[grammar].rules)
    BY TablesRight DEF IInv, TypeOK
  <2>2. WholeAccepted
    BY DEF IInv
  <2> QED BY <2>1, <2>2, DerivationUndone DEF Decided
<1> QED BY <1>1, Invariance, AcceptedDerived, DecidedAlways, PTL
=============================================================================
