----------------------------- MODULE RoundDelta -----------------------------
(***************************************************************************)
(* What a monitor promises: of each round of polling, the values that were *)
(* not in the round before it go to the action, one after the other; the   *)
(* first round only tells what there was.  A value on its way can be lost, *)
(* and is then never delivered.                                            *)
(***************************************************************************)
EXTENDS Integers, Sequences

CONSTANT Values

VARIABLES
  prev,   \* the values of the last round but one
  cur,    \* the values of the last round so far
  first,  \* is the last round the first one
  wait,   \* the value on its way to the action, at most one
  out     \* the values delivered

deltaVars == <<prev, cur, first, wait, out>>

DeltaInit == prev = {} /\ cur = {} /\ first = TRUE /\ wait = <<>> /\ out = <<>>

\* A value of the current round arrives, or the first one of the next round.
Arrive(v, next) ==
  /\ wait = <<>>
  /\ prev' = IF next THEN cur ELSE prev
  /\ cur' = IF next THEN {v} ELSE cur \cup {v}
  /\ first' = (cur = {} \/ (first /\ ~next))
  /\ wait' = IF first' \/ v \in prev' THEN <<>> ELSE <<v>>
  /\ UNCHANGED out

Deliver == wait # <<>> /\ out' = out \o wait /\ wait' = <<>> /\ UNCHANGED <<prev, cur, first>>

Lose == wait # <<>> /\ wait' = <<>> /\ UNCHANGED <<prev, cur, first, out>>

DeltaNext ==
  \/ \E v \in Values, next \in BOOLEAN : Arrive(v, next)
  \/ Deliver
  \/ Lose

DeltaSpec == DeltaInit /\ [][DeltaNext]_deltaVars
=============================================================================
