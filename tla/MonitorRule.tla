---------------------------- MODULE MonitorRule ----------------------------
(***************************************************************************)
(* A compiled rule "monitor(query), filter => action": the loop generated  *)
(* by lib/compiler/ops-to-jsir.ts for EdgeFilter(EdgeNew(InvokeSubscribe)),*)
(* or without the EdgeFilter for a rule that has no filter on its monitor. *)
(*                                                                         *)
(* An action is the code between two awaits of the generated function.     *)
(* What survives the process is what writeState has stored; the engine     *)
(* starts every rule again with the process, and the source, outside of    *)
(* this repository, then polls again.  A round of polling is a non-empty   *)
(* sequence of values with one timestamp; a round with no result delivers  *)
(* no tuple, so that the rule cannot know of it.                           *)
(***************************************************************************)
EXTENDS EdgeState, FiniteSets

CONSTANTS
  Values,     \* what a tuple can be, as far as the compared keys tell
  Passing,    \* the values for which the filter of the rule is true
  MaxRounds,  \* bound on the rounds of polling
  MaxTuples,  \* bound on the tuples of a round
  MaxFaults   \* bound on the crashes and on the failures of the action

ASSUME MonitorAssumption ==
  /\ Passing \subseteq Values
  /\ MaxRounds \in Nat /\ MaxTuples \in Nat /\ MaxFaults \in Nat

VARIABLES
  pc,      \* where the rule is
  disk,    \* stored state of the EdgeNew
  truth,   \* stored state of the EdgeFilter, or "none" if the rule has none
  mem,     \* the EdgeNew's copy of its state in the running rule
  tuple,   \* the tuple in hand
  isNew,   \* what isNewTuple said of it
  was,     \* the EdgeFilter's copy of its state
  round,   \* timestamp of the last round of polling
  coming,  \* tuples of that round not delivered yet
  log,     \* ghost: every tuple stored, ever
  due,     \* ghost: number of tuples that the action should have run for
  ideal,   \* ghost: was the filter true for the last new tuple stored
  fired,   \* ghost: positions in the log of the tuples the action ran for
  faults   \* crashes and failures of the action

vars == <<pc, disk, truth, mem, tuple, isNew, was, round, coming, log, due,
          ideal, fired, faults>>

NoTuple == [ts |-> NoTime, val |-> "none"]
Tuples  == [ts : 1 .. MaxRounds, val : Values]

TypeOK ==
  /\ pc \in {"down", "poll", "write", "read", "writeTruth", "act"}
  /\ disk \in Seq(Tuples) /\ mem \in Seq(Tuples) /\ log \in Seq(Tuples)
  /\ truth \in {"none", "null", "true", "false"} /\ was \in {"null", "true", "false"}
  /\ tuple \in Tuples \cup {NoTuple}
  /\ isNew \in BOOLEAN /\ ideal \in BOOLEAN
  /\ round \in 0 .. MaxRounds
  /\ coming \in Seq(Values)
  /\ due \in 0 .. Len(log)
  /\ fired \in Seq(DOMAIN log)
  /\ faults \in 0 .. MaxFaults

Init ==
  /\ pc = "down"
  /\ disk = <<>> /\ truth \in {"none", "null"} /\ mem = <<>>
  /\ tuple = NoTuple /\ isNew = FALSE /\ was = "null"
  /\ round = 0 /\ coming = <<>>
  /\ log = <<>> /\ due = 0 /\ ideal = FALSE /\ fired = <<>> /\ faults = 0

\* Does the rule have a filter on its monitor.
Filtered == truth # "none"

Test(v) == IF v \in Passing THEN "true" ELSE "false"

\* The rule starts and reads the state of the EdgeNew, once.
Start ==
  /\ pc = "down"
  /\ pc' = "poll"
  /\ mem' = disk
  /\ UNCHANGED <<disk, truth, tuple, isNew, was, round, coming, log, due, ideal,
                 fired, faults>>

Poll ==
  /\ pc = "poll" /\ coming = <<>>
  /\ round < MaxRounds /\ round' = round + 1
  /\ coming' \in BoundedSeq(Values, MaxTuples) \ {<<>>}
  /\ UNCHANGED <<pc, disk, truth, mem, tuple, isNew, was, log, due, ideal, fired,
                 faults>>

\* The next tuple: decide whether it is new, and start storing it.
Receive ==
  /\ pc = "poll" /\ coming # <<>>
  /\ tuple' = [ts |-> round, val |-> Head(coming)]
  /\ coming' = Tail(coming)
  /\ isNew' = isNewTuple(mem, tuple')
  /\ pc' = "write"
  /\ UNCHANGED <<disk, truth, mem, was, round, log, due, ideal, fired, faults>>

\* The tuple is stored.
Stored ==
  /\ pc = "write"
  /\ disk' = addTuple(mem, tuple)
  /\ mem' = disk'
  /\ pc' = IF isNew THEN IF Filtered THEN "read" ELSE "act" ELSE "poll"
  /\ log' = Append(log, tuple)
  /\ due' = IF isNew /\ (Filtered => tuple.val \in Passing /\ ~ideal)
            THEN due + 1 ELSE due
  /\ ideal' = IF isNew THEN tuple.val \in Passing ELSE ideal
  /\ UNCHANGED <<truth, tuple, isNew, was, round, coming, fired, faults>>

\* Mutant: the rule acts whenever the filter is true, not when it becomes true.
ReadTruth_level ==
  /\ pc = "read"
  /\ was' = "null"
  /\ pc' = IF Test(tuple.val) # truth THEN "writeTruth"
           ELSE IF tuple.val \in Passing THEN "act" ELSE "poll"
  /\ UNCHANGED <<disk, truth, mem, tuple, isNew, round, coming, log, due, ideal,
                 fired, faults>>

\* The EdgeFilter reads its state and evaluates the filter; it stores the
\* result only if it differs.
ReadTruth ==
  /\ pc = "read"
  /\ was' = truth
  /\ pc' = IF Test(tuple.val) # truth THEN "writeTruth"
           ELSE IF tuple.val \in Passing /\ truth # "true" THEN "act" ELSE "poll"
  /\ UNCHANGED <<disk, truth, mem, tuple, isNew, round, coming, log, due, ideal,
                 fired, faults>>

TruthStored ==
  /\ pc = "writeTruth"
  /\ truth' = Test(tuple.val)
  /\ pc' = IF tuple.val \in Passing /\ was # "true" THEN "act" ELSE "poll"
  /\ UNCHANGED <<disk, mem, tuple, isNew, was, round, coming, log, due, ideal,
                 fired, faults>>

\* Mutant: an action that has run may be run again.
Act_retried ==
  /\ pc = "act"
  /\ pc' \in {"poll", "act"}
  /\ fired' = Append(fired, Len(log))
  /\ UNCHANGED <<disk, truth, mem, tuple, isNew, was, round, coming, log, due,
                 ideal, faults>>

Act ==
  /\ pc = "act"
  /\ pc' = "poll"
  /\ fired' = Append(fired, Len(log))
  /\ UNCHANGED <<disk, truth, mem, tuple, isNew, was, round, coming, log, due,
                 ideal, faults>>

\* The action throws: the error is reported and the loop goes on.
ActFails ==
  /\ pc = "act"
  /\ faults < MaxFaults /\ faults' = faults + 1
  /\ pc' = "poll"
  /\ UNCHANGED <<disk, truth, mem, tuple, isNew, was, round, coming, log, due,
                 ideal, fired>>

\* The process dies, or an error other than the action's ends the loop until
\* the next start; the rest of the round is not delivered.
Stop ==
  /\ pc # "down"
  /\ faults < MaxFaults /\ faults' = faults + 1
  /\ pc' = "down"
  /\ mem' = <<>> /\ tuple' = NoTuple /\ isNew' = FALSE /\ was' = "null"
  /\ coming' = <<>>
  /\ UNCHANGED <<disk, truth, round, log, due, ideal, fired>>

Next ==
  \/ Start \/ Poll \/ Receive \/ Stored \/ ReadTruth \/ TruthStored
  \/ Act \/ ActFails \/ Stop

Spec == Init /\ [][Next]_vars

-----------------------------------------------------------------------------
(* Correctness.                                                            *)

\* The trimmed state says the same as the whole history of the rule, of every
\* tuple that can come next: what addTuple throws away is never missed.
TrimIsSafe ==
  \A t \in {round, round + 1}, v \in Values :
    LET e == [ts |-> t, val |-> v] IN isNewTuple(disk, e) = isNewTuple(log, e)

\* The state does not grow with the life of the rule: it holds the tuples of
\* at most two rounds.
StateBounded == Cardinality({disk[i].ts : i \in DOMAIN disk}) <= 2

\* What the running rule has in memory is what it would read after a restart.
MemoryIsStored == pc # "down" => mem = disk

\* A tuple fires at most once, in the order of the source, whatever is
\* restarted in between.
FiresOnce == \A i, j \in DOMAIN fired : i < j => fired[i] < fired[j]

\* A value that is still there is not reported again: between two firings of
\* one value, in two rounds, the rule has seen a round without that value.
NoRefire ==
  \A i, j \in DOMAIN fired :
    LET a == log[fired[i]]
        b == log[fired[j]]
    IN  i < j /\ a.val = b.val /\ a.ts < b.ts =>
          \E t \in a.ts + 1 .. b.ts - 1 :
            /\ \E k \in DOMAIN log : log[k].ts = t
            /\ \A k \in DOMAIN log : log[k].ts = t => log[k].val # a.val

\* Every fault costs at most one run of the action, even though the stages of
\* the rule store their states one after the other; without a fault none is
\* lost and none is made up.
LossBounded ==
  pc \in {"down", "poll"} => due - faults <= Len(fired) /\ Len(fired) <= due

\* The rounds as far as the rule has stored them.
RoundOf(t) == {log[i].val : i \in {j \in DOMAIN log : log[j].ts = t}}
OnItsWay   == IF pc \in {"read", "writeTruth", "act"} THEN <<tuple.val>> ELSE <<>>

R == INSTANCE RoundDelta WITH
       prev  <- RoundOf(PrevTime(log)),
       cur   <- RoundOf(LastTime(log)),
       first <- PrevTime(log) = NoTime,
       wait  <- OnItsWay,
       out   <- [i \in DOMAIN fired |-> log[fired[i]].val]

\* A rule runs its action for values of the difference between each round and
\* the one before, as far as they were stored, in their order; what its filter
\* does not let pass is lost.
ImplementsDelta == R!DeltaSpec
=============================================================================
