----------------------------- MODULE Procedures -----------------------------
(***************************************************************************)
(* The call frames of a program, lib/runtime/exec_environment.ts: one      *)
(* stack of frame identifiers for the whole environment.  The code of a    *)
(* compiled procedure, and of the immediate statements of the program,     *)
(* enters its frame first and exits from it in a "finally"; rules and the  *)
(* engine have frame 0.                                                    *)
(*                                                                         *)
(* A call does not suspend the callee: invokeStreamVarRef starts it and    *)
(* returns a queue.  The caller waits for the queue, so it goes on as soon *)
(* as the callee has emitted, and both are running then.                   *)
(***************************************************************************)
EXTENDS Integers, Sequences, FiniteSets, SequencesExt

CONSTANTS
  MaxCalls,   \* bound on the calls
  Emitting,   \* do procedures emit a value before they are over
  Concurrent  \* can a caller start two calls at once, as in a cross join

ASSUME ProcedureAssumption ==
  MaxCalls \in Nat /\ Emitting \in BOOLEAN /\ Concurrent \in BOOLEAN

VARIABLES
  counter,   \* _procedureFrameCounter
  frame,     \* _procedureFrame
  stack,     \* _procedureStack
  calls,     \* frames of the calls that have entered and not exited
  caller,    \* the frame that each call was made from
  waits,     \* for each frame, the callees it is waiting for
  ended,     \* ghost: frames of the calls that are over
  nested     \* ghost: no call has ever overlapped with its caller or another

vars == <<counter, frame, stack, calls, caller, waits, ended, nested>>

Frames == 0 .. MaxCalls

TypeOK ==
  /\ counter \in Frames /\ frame \in Frames
  /\ stack \in Seq(Frames)
  /\ calls \subseteq Frames \ {0} /\ ended \subseteq Frames \ {0}
  /\ caller \in [Frames -> Frames]
  /\ waits \in [Frames -> SUBSET Frames]
  /\ nested \in BOOLEAN

Init ==
  /\ counter = 0 /\ frame = 0 /\ stack = <<>>
  /\ calls = {} /\ ended = {}
  /\ caller = [f \in Frames |-> 0]
  /\ waits = [f \in Frames |-> {}]
  /\ nested = TRUE

\* A frame whose code is being executed; with 0, that of the rules.
Running(f) == f \in calls \cup {0} /\ waits[f] = {}

\* Mutant: the caller's frame is not saved.
enterProcedure_unsaved ==
  /\ counter' = counter + 1
  /\ frame' = counter'
  /\ UNCHANGED stack

enterProcedure ==
  /\ stack' = Append(stack, frame)
  /\ counter' = counter + 1
  /\ frame' = counter'

\* Mutants: the stack is not popped; the frame of the caller is taken for the
\* previous number; the number of a call that is over is free again.
exitProcedure_noPop ==
  /\ stack # <<>>
  /\ frame' = Last(stack)
  /\ UNCHANGED <<stack, counter>>

exitProcedure_decrement ==
  /\ frame' = frame - 1
  /\ stack' = Front(stack)
  /\ UNCHANGED counter

exitProcedure_reuses ==
  /\ stack # <<>>
  /\ frame' = Last(stack)
  /\ stack' = Front(stack)
  /\ counter' = counter - 1

exitProcedure ==
  /\ stack # <<>>
  /\ frame' = Last(stack)
  /\ stack' = Front(stack)
  /\ UNCHANGED counter

\* The code of frame f calls a procedure, and waits for it; or it goes on to
\* start another call first.
Call(f) ==
  /\ Running(f) \/ (Concurrent /\ f \in calls \cup {0} /\ Cardinality(waits[f]) = 1)
  /\ counter < MaxCalls
  /\ enterProcedure
  /\ calls' = calls \cup {frame'}
  /\ caller' = [caller EXCEPT ![frame'] = f]
  /\ waits' = [waits EXCEPT ![f] = @ \cup {frame'}]
  /\ nested' = (nested /\ Running(f))
  /\ UNCHANGED ended

\* The callee emits a value, and the caller's loop runs while it goes on.
Emit(f) ==
  /\ Emitting /\ f \in calls /\ Running(f)
  /\ f \in waits[caller[f]]
  /\ waits' = [waits EXCEPT ![caller[f]] = @ \ {f}]
  /\ nested' = FALSE
  /\ UNCHANGED <<counter, frame, stack, calls, caller, ended>>

\* The caller asks the queue for the next value.
Await(f) ==
  /\ f \in calls /\ caller[f] \in calls \cup {0} /\ Running(caller[f])
  /\ waits' = [waits EXCEPT ![caller[f]] = @ \cup {f}]
  /\ UNCHANGED <<counter, frame, stack, calls, caller, ended, nested>>

\* The code returns or throws: the frame is exited first, then the caller
\* finds the end of the queue, or the error.
Return(f) ==
  /\ f \in calls /\ Running(f)
  /\ exitProcedure
  /\ calls' = calls \ {f} /\ ended' = ended \cup {f}
  /\ waits' = [waits EXCEPT ![caller[f]] = @ \ {f}]
  /\ UNCHANGED <<caller, nested>>

Next == \E f \in Frames : Call(f) \/ Emit(f) \/ Await(f) \/ Return(f)

Spec == Init /\ [][Next]_vars

-----------------------------------------------------------------------------
(* Correctness.                                                            *)

\* There is one saved frame for each call that is not over, however calls
\* overlap: the assertion of exitProcedure holds.
EnterExitPaired == Len(stack) = Cardinality(calls)

\* When no call is left the frame is that of the rules again, whatever the
\* order in which overlapping calls have ended.
BaseRestored == calls = {} => frame = 0

\* The frames saved, one for each call that is not over, and the current one are
\* pairwise different, however calls overlap, and a frame is not given out again
\* after its call is over.
FramesUnique ==
  /\ EnterExitPaired
  /\ \A i, j \in DOMAIN stack : stack[i] = stack[j] => i = j
  /\ frame \notin Range(stack)
  /\ calls \cap ended = {}

\* As long as every call is over before its caller goes on, code sees its own
\* frame, and the stack is the chain of its callers.
StackIsCallChain == nested =>
  /\ \A f \in calls \cup {0} : Running(f) => f = frame
  /\ \A i \in DOMAIN stack :
       stack[i] = caller[IF i = Len(stack) THEN frame ELSE stack[i + 1]]
=============================================================================
