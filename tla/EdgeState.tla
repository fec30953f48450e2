------------------------------ MODULE EdgeState ------------------------------
(***************************************************************************)
(* The state of an "edge new" operation, lib/runtime/stream_table_ops.ts:  *)
(* the tuples seen in the last two rounds of polling, oldest first.        *)
(*                                                                         *)
(* A tuple is its timestamp and the values of the keys that are compared.  *)
(* A tuple computed by an aggregation has no timestamp: NoTime stands for  *)
(* JavaScript's undefined, which compares with nothing.  A null state and  *)
(* an empty one behave alike, and both are <<>>.                           *)
(***************************************************************************)
EXTENDS Integers, Sequences, SequencesExt

NoTime == -1

Before(s, t) == s # NoTime /\ t # NoTime /\ s < t

\* The timestamps of the last round in the state, and of the round before it:
\* that of the last tuple that is older.
LastTime(state) == IF state = <<>> THEN NoTime ELSE Last(state).ts

Older(state)     == SelectLastInSeq(state, LAMBDA e : Before(e.ts, LastTime(state)))
PrevTime(state)  == IF Older(state) = 0 THEN NoTime ELSE state[Older(state)].ts

\* Mutants: always compare with the last round; report the first round.
isNewTuple_lastRound(state, tuple) ==
  LET t == LastTime(state)
  IN  t # NoTime /\ \A i \in DOMAIN state : state[i].ts = t => state[i].val # tuple.val

isNewTuple_firstRound(state, tuple) ==
  LET t == IF tuple.ts = LastTime(state) THEN PrevTime(state) ELSE LastTime(state)
  IN  \A i \in DOMAIN state : state[i].ts = t => state[i].val # tuple.val

\* A tuple of a round that is already in the state is compared with the round
\* before; any other with the last one.  If there is no such round, no tuple
\* is new.
isNewTuple(state, tuple) ==
  LET t == IF tuple.ts = LastTime(state) THEN PrevTime(state) ELSE LastTime(state)
  IN  t # NoTime /\ \A i \in DOMAIN state : state[i].ts = t => state[i].val # tuple.val

\* Mutants: keep only the last round; keep all rounds.
addTuple_lastRound(state, tuple) ==
  LET s == Append(state, tuple)
  IN  SubSeq(s, Older(s) + 1, Len(s))

addTuple_all(state, tuple) == Append(state, tuple)

\* Only the last two rounds are kept.
addTuple(state, tuple) ==
  LET s   == Append(state, tuple)
      cut == SelectLastInSeq(s, LAMBDA e : Before(e.ts, PrevTime(s)))
  IN  SubSeq(s, cut + 1, Len(s))
=============================================================================
