---------------------------- MODULE StreamUnion ----------------------------
(***************************************************************************)
(* The monitor of two tables that do not pass parameters to each other:    *)
(* EdgeNew(Union(left, right)).  The two streams run concurrently; each    *)
(* time one emits, streamUnion pairs what it emitted with the last value   *)
(* of the other and queues the pair, and the loop of the rule takes the    *)
(* pairs from the queue, keeps those that are new and acts on them.        *)
(*                                                                         *)
(* The queue is a library, outside of the repository: a push resolves the  *)
(* oldest waiter or is kept, and cancelWait rejects who waits, if anybody. *)
(***************************************************************************)
EXTENDS EdgeState

CONSTANTS
  Values,     \* what a stream can emit
  MaxEmits,   \* bound on the emissions of each stream
  MaxTime,    \* bound on the clock of the rounds of polling
  MayFail     \* can a stream, or the rule, fail

ASSUME UnionAssumption ==
  MaxEmits \in Nat /\ MaxTime \in Nat \ {0} /\ MayFail \in BOOLEAN

Sides == {"left", "right"}
Other == [s \in Sides |-> CHOOSE o \in Sides : o # s]

VARIABLES
  now,      \* the clock of the rounds of polling
  side,     \* "running", "done" or "failed"
  current,  \* the last emission of each side; n = 0 stands for null
  queue,    \* pairs not taken yet, and the end mark
  loop,     \* the rule: "waiting" for a pair, "busy" with one, "ended", "thrown"
  mem,      \* the state of the EdgeNew
  taken,    \* ghost: the pairs the rule has taken
  fired     \* ghost: positions in taken of the pairs it acted on

vars == <<now, side, current, queue, loop, mem, taken, fired>>

DoneMark == [done |-> TRUE]

\* What stands where a side has not emitted; it is never read.
Null == [n |-> 0, ts |-> 0, val |-> CHOOSE v \in Values : TRUE]

Emission == {Null} \cup [n : 1 .. MaxEmits, ts : 1 .. MaxTime, val : Values]
Pair == [n : [Sides -> 1 .. MaxEmits], ts : 1 .. MaxTime, val : [Sides -> Values],
         at : 1 .. MaxTime]

TypeOK ==
  /\ now \in 1 .. MaxTime
  /\ side \in [Sides -> {"running", "done", "failed"}]
  /\ current \in [Sides -> Emission]
  /\ queue \in Seq(Pair \cup {DoneMark})
  /\ loop \in {"waiting", "busy", "ended", "thrown"}
  /\ mem \in Seq(Pair) /\ taken \in Seq(Pair)
  /\ fired \subseteq DOMAIN taken

Init ==
  /\ now = 1
  /\ side = [s \in Sides |-> "running"]
  /\ current = [s \in Sides |-> Null]
  /\ queue = <<>> /\ loop = "waiting"
  /\ mem = <<>> /\ taken = <<>> /\ fired = {}

Running == {s \in Sides : side[s] = "running"}

\* Mutant: the timestamp of the left stays.
Merged_left(l, r) ==
  [n   |-> [s \in Sides |-> IF s = "left" THEN l.n ELSE r.n],
   ts  |-> l.ts,
   val |-> [s \in Sides |-> IF s = "left" THEN l.val ELSE r.val],
   at  |-> now]

\* The fields of the right overwrite those of the left, the timestamp too.
\* Ghost: at is the time when the pair was made.
Merged(l, r) ==
  [n   |-> [s \in Sides |-> IF s = "left" THEN l.n ELSE r.n],
   ts  |-> r.ts,
   val |-> [s \in Sides |-> IF s = "left" THEN l.val ELSE r.val],
   at  |-> now]

NextRound ==
  /\ Running # {} /\ now < MaxTime
  /\ now' = now + 1
  /\ UNCHANGED <<side, current, queue, loop, mem, taken, fired>>

\* Mutant: the pair is made before the emission is recorded.
emit_stale(s, v) ==
  /\ s \in Running /\ current[s].n < MaxEmits
  /\ current' = [current EXCEPT ![s] = [n |-> @.n + 1, ts |-> now, val |-> v]]
  /\ queue' = IF \E o \in Sides : current[o].n = 0 THEN queue
              ELSE Append(queue, Merged(current["left"], current["right"]))
  /\ UNCHANGED <<now, side, loop, mem, taken, fired>>

\* A side emits: pair it with the last emission of the other, if any.
emit(s, v) ==
  /\ s \in Running /\ current[s].n < MaxEmits
  /\ current' = [current EXCEPT ![s] = [n |-> @.n + 1, ts |-> now, val |-> v]]
  /\ queue' = IF current[Other[s]].n = 0 THEN queue
              ELSE Append(queue, Merged(current'["left"], current'["right"]))
  /\ UNCHANGED <<now, side, loop, mem, taken, fired>>

\* Mutants: the first side that is done ends the union; nobody does.
checkDone_either(s) ==
  /\ s \in Running
  /\ side' = [side EXCEPT ![s] = "done"]
  /\ queue' = Append(queue, DoneMark)
  /\ UNCHANGED <<now, current, loop, mem, taken, fired>>

checkDone_never(s) ==
  /\ s \in Running
  /\ side' = [side EXCEPT ![s] = "done"]
  /\ UNCHANGED <<now, current, queue, loop, mem, taken, fired>>

\* A side returns; the second one to do so marks the end of the queue.
checkDone(s) ==
  /\ s \in Running
  /\ side' = [side EXCEPT ![s] = "done"]
  /\ queue' = IF side[Other[s]] = "done" THEN Append(queue, DoneMark) ELSE queue
  /\ UNCHANGED <<now, current, loop, mem, taken, fired>>

\* A side fails: the error reaches the rule only if it waits for a pair.
SideFails(s) ==
  /\ MayFail /\ s \in Running
  /\ side' = [side EXCEPT ![s] = "failed"]
  /\ loop' = IF loop = "waiting" /\ queue = <<>> THEN "thrown" ELSE loop
  /\ UNCHANGED <<now, current, queue, mem, taken, fired>>

\* The rule takes the next pair, stores it, and acts on it if it is new.
Take ==
  /\ loop = "waiting" /\ queue # <<>> /\ Head(queue) # DoneMark
  /\ queue' = Tail(queue)
  /\ taken' = Append(taken, Head(queue))
  /\ fired' = IF isNewTuple(mem, Head(queue)) THEN fired \cup {Len(taken')} ELSE fired
  /\ mem' = addTuple(mem, Head(queue))
  /\ loop' = "busy"
  /\ UNCHANGED <<now, side, current>>

\* The awaits of the loop's body are over, or one of them has thrown.
Resume ==
  /\ loop = "busy"
  /\ loop' \in {"waiting"} \cup (IF MayFail THEN {"thrown"} ELSE {})
  /\ UNCHANGED <<now, side, current, queue, mem, taken, fired>>

End ==
  /\ loop = "waiting" /\ queue # <<>> /\ Head(queue) = DoneMark
  /\ queue' = Tail(queue)
  /\ loop' = "ended"
  /\ UNCHANGED <<now, side, current, mem, taken, fired>>

Emits == \E s \in Sides, v \in Values : emit(s, v)
Settles == \E s \in Sides : checkDone(s) \/ SideFails(s)

Next == NextRound \/ Emits \/ Settles \/ Take \/ Resume \/ End

\* The event loop runs the rule whenever it can go on, and a stream that has
\* nothing more to say returns.
Fairness ==
  /\ WF_vars(Take) /\ WF_vars(Resume) /\ WF_vars(End)
  /\ \A s \in Sides : WF_vars(checkDone(s))

Spec == Init /\ [][Next]_vars /\ Fairness

-----------------------------------------------------------------------------
(* Correctness.                                                            *)

\* The pairs that were made: those taken and, up to the end mark, those queued.
PairsQueued == IF DoneMark \in Range(queue) THEN Front(queue) ELSE queue
AllPairs    == taken \o PairsQueued

\* However the two streams and the rule interleave, every emission since both
\* sides have a value is in one pair, in the order they happened: consecutive
\* pairs differ in one side, by one emission, and the last is the current one.
NoPairLost ==
  /\ \A i \in 1 .. Len(AllPairs) - 1 : \E s \in Sides :
       AllPairs[i + 1].n = [AllPairs[i].n EXCEPT ![s] = @ + 1]
  /\ (\A s \in Sides : current[s].n > 0) =>
       /\ AllPairs # <<>>
       /\ \E s \in Sides : AllPairs[1].n[s] = 1
       /\ Last(AllPairs).n = [s \in Sides |-> current[s].n]

\* The end is marked once, behind every pair, and the rule ends only when
\* both streams have returned and all they emitted has been taken.
EndIsLast ==
  /\ \A i \in DOMAIN queue : queue[i] = DoneMark => i = Len(queue) /\ loop # "ended"
  /\ loop = "ended" => queue = <<>> /\ \A s \in Sides : side[s] = "done"

\* If both streams return and the loop does not throw, the rule ends: the end
\* mark always comes, and the rule always gets to it.
RuleEnds == <>(loop \in {"ended", "thrown"} \/ \E s \in Sides : side[s] = "failed")

\* A value that the right side emits for the first time, in a later round than
\* the first pair, reaches the action.  (One of the left side need not: the
\* timestamp of a pair is that of the right.)
RightChangeFires ==
  \A i \in DOMAIN taken :
    /\ taken[i].at > taken[1].at
    /\ \A j \in 1 .. i - 1 : taken[j].val["right"] # taken[i].val["right"]
    => i \in fired
=============================================================================
