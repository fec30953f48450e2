------------------------------- MODULE Expiry -------------------------------
(***************************************************************************)
(* Entries with a lifetime, as clients of lib/utils/cache.ts see them: a   *)
(* value and the number of clock ticks it has left.                        *)
(***************************************************************************)
EXTENDS Integers

Never   == -1   \* the lifetime of an entry that does not expire
NoEntry == [val |-> "none", ttl |-> Never]

\* What one tick of the clock makes of an entry.
Older(e) == IF e.ttl = Never THEN e
            ELSE IF e.ttl = 0 THEN NoEntry ELSE [e EXCEPT !.ttl = @ - 1]
=============================================================================
