------------------------------- MODULE Cache -------------------------------
(***************************************************************************)
(* lib/utils/cache.ts: a Map of values with the time at which they expire. *)
(* Nothing runs when that time comes; an operation that meets an expired   *)
(* entry deletes it and behaves as if it had not been there.  entries() is *)
(* a generator: its caller may do anything, and time may pass, between two *)
(* of its steps, but it reads the clock once.                              *)
(*                                                                         *)
(* A JavaScript Map iterates in insertion order and sees what is inserted  *)
(* meanwhile: an entry has a seat, given when its key is inserted and kept *)
(* when the key is set again, and an iteration is at a seat.               *)
(***************************************************************************)
EXTENDS Expiry

CONSTANTS
  Keys,
  Values,
  Lifetimes,  \* timeouts that callers of set pass
  MaxNow,     \* bound on the clock
  MaxSeat     \* bound on the insertions

ASSUME CacheAssumption ==
  /\ Lifetimes \subseteq Int
  /\ MaxNow \in Nat /\ MaxSeat \in Nat
  /\ Values \cap {"none", "absent", "present"} = {}

VARIABLES
  store,  \* the Map, per key
  now,    \* the clock, Date.now()
  seats,  \* seats given so far
  iter,   \* the iteration: is it running, when it began, where it is
  out,    \* ghost: keys it has yielded and that are still the same insertion
  kept,   \* ghost: keys alive without interruption since it began
  ret     \* what the last operation returned

vars == <<store, now, seats, iter, out, kept, ret>>

Absent == "absent"
Gone   == [val |-> "none", expires |-> 0, seat |-> 0]

TypeOK ==
  /\ store \in [Keys -> [val : Values \cup {"none"}, expires : Int,
                         seat : 0 .. seats]]
  /\ \A k \in Keys : IF store[k].seat = 0
                     THEN store[k] = Gone
                     ELSE store[k].val \in Values /\ store[k].expires >= -1
  /\ now \in 0 .. MaxNow /\ seats \in 0 .. MaxSeat
  /\ iter \in [open : BOOLEAN, start : 0 .. now, at : 0 .. seats]
  /\ out \subseteq Keys /\ kept \subseteq Keys
  /\ ret \in Values \cup {"absent", "present"}

Init ==
  /\ store = [k \in Keys |-> Gone]
  /\ now = 0 /\ seats = 0
  /\ iter = [open |-> FALSE, start |-> 0, at |-> 0]
  /\ out = {} /\ kept = {}
  /\ ret = Absent

\* Mutant: an entry is over at the very moment its time ends.
expired_inclusive(obj, t) == obj.expires >= 0 /\ obj.expires <= t

expired(obj, t) == obj.expires >= 0 /\ obj.expires < t

Stored(k) == store[k].seat # 0
Alive(k)  == Stored(k) /\ ~expired(store[k], now)

\* The keys S leave the Map.
Drop(S) ==
  /\ store' = [k \in Keys |-> IF k \in S THEN Gone ELSE store[k]]
  /\ out' = out \ S
  /\ kept' = kept \ S

set(k, v, d) ==
  LET obj == [val |-> v, expires |-> IF d >= 0 THEN now + d ELSE -1,
              seat |-> IF Stored(k) THEN store[k].seat ELSE seats + 1]
  IN
  /\ Stored(k) \/ seats < MaxSeat
  /\ store' = [store EXCEPT ![k] = obj]
  /\ seats' = IF Stored(k) THEN seats ELSE seats + 1
  /\ ret' = Absent
  /\ UNCHANGED <<now, iter, out, kept>>

get(k) ==
  /\ ret' = IF Alive(k) THEN store[k].val ELSE Absent
  /\ Drop(IF Alive(k) THEN {} ELSE {k})
  /\ UNCHANGED <<now, seats, iter>>

has(k) ==
  /\ ret' = IF Alive(k) THEN "present" ELSE Absent
  /\ Drop(IF Alive(k) THEN {} ELSE {k})
  /\ UNCHANGED <<now, seats, iter>>

delete(k) ==
  /\ ret' = IF Alive(k) THEN "present" ELSE Absent
  /\ Drop({k})
  /\ UNCHANGED <<now, seats, iter>>

clear ==
  /\ Drop(Keys)
  /\ ret' = Absent
  /\ UNCHANGED <<now, seats, iter>>

-----------------------------------------------------------------------------
(* One iteration: entries(), and keys(), values() and forEach() on it.     *)

Ahead == {k \in Keys : store[k].seat > iter.at}
Fresh == {k \in Ahead : ~expired(store[k], iter.start)}

Begin ==
  /\ ~iter.open
  /\ iter' = [open |-> TRUE, start |-> now, at |-> 0]
  /\ out' = {}
  /\ kept' = {k \in Keys : Alive(k)}
  /\ UNCHANGED <<store, now, seats, ret>>

\* Mutant: the generator may pass entries that it should have yielded.
Yield_skips(k) ==
  LET passed == {j \in Ahead \ Fresh : store[j].seat < store[k].seat}
  IN
  /\ iter.open
  /\ k \in Fresh
  /\ store' = [j \in Keys |-> IF j \in passed THEN Gone ELSE store[j]]
  /\ iter' = [iter EXCEPT !.at = store[k].seat]
  /\ out' = (out \ passed) \cup {k}
  /\ kept' = kept \ passed
  /\ UNCHANGED <<now, seats, ret>>

\* The generator runs to its next yield, which is of key k: it deletes the
\* expired entries it passes.
Yield(k) ==
  LET passed == {j \in Ahead : store[j].seat < store[k].seat}
  IN
  /\ iter.open
  /\ k \in Fresh /\ passed \cap Fresh = {}
  /\ store' = [j \in Keys |-> IF j \in passed THEN Gone ELSE store[j]]
  /\ iter' = [iter EXCEPT !.at = store[k].seat]
  /\ out' = (out \ passed) \cup {k}
  /\ kept' = kept \ passed
  /\ UNCHANGED <<now, seats, ret>>

\* The generator finds nothing more to yield.
End ==
  /\ iter.open
  /\ Fresh = {}
  /\ Drop(Ahead)
  /\ iter' = [iter EXCEPT !.open = FALSE]
  /\ UNCHANGED <<now, seats, ret>>

Tick ==
  /\ now < MaxNow
  /\ now' = now + 1
  /\ kept' = {k \in kept : ~expired(store[k], now + 1)}
  /\ UNCHANGED <<store, seats, iter, out, ret>>

Next ==
  \/ \E k \in Keys : \/ \E v \in Values, d \in Lifetimes : set(k, v, d)
                     \/ get(k) \/ has(k) \/ delete(k)
                     \/ Yield(k)
  \/ clear
  \/ Begin \/ End
  \/ Tick

Spec == Init /\ [][Next]_vars

-----------------------------------------------------------------------------
(* Correctness.                                                            *)

\* The map that a client of the cache sees.
Live == [k \in Keys |->
          IF Alive(k)
          THEN [val |-> store[k].val,
                ttl |-> IF store[k].expires < 0 THEN Never
                                                ELSE store[k].expires - now]
          ELSE NoEntry]

M == INSTANCE ExpiringMap WITH map <- Live

\* The cache is a map whose entries expire on their own: that entries are only
\* deleted when an operation meets them cannot be told from its answers.
ImplementsMap == M!MapSpec

\* The seats of the keys in the Map are different, and a key that is still kept
\* is alive.
SeatsOK ==
  /\ \A j, k \in Keys : Stored(j) /\ store[j].seat = store[k].seat => j = k
  /\ \A k \in kept : Alive(k)

\* An iteration that is running has yielded, or has still ahead of it, every
\* key that has been alive since it began, whatever is set, deleted or purged
\* between its steps.
NothingSkipped ==
  iter.open => \A k \in kept : k \in out \/ k \in Fresh

=============================================================================
