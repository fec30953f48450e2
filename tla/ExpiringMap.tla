---------------------------- MODULE ExpiringMap ----------------------------
(***************************************************************************)
(* What lib/utils/cache.ts promises: a map whose entries expire on their   *)
(* own when their time is over.  Every operation answers from the entries  *)
(* alive at the moment of the call; there is no clock and nothing to purge.*)
(***************************************************************************)
EXTENDS Expiry

CONSTANTS
  Keys,
  Values,
  Lifetimes   \* timeouts that callers of set pass; a negative one is Never

VARIABLES
  map,  \* the entry alive for each key, or NoEntry
  ret   \* what the last operation returned

mapVars == <<map, ret>>

Absent == "absent"

MapInit == map = [k \in Keys |-> NoEntry] /\ ret = Absent

Answer(k) == IF map[k] = NoEntry THEN Absent ELSE map[k].val

MapSet(k, v, d) ==
  /\ map' = [map EXCEPT ![k] = [val |-> v, ttl |-> IF d >= 0 THEN d ELSE Never]]
  /\ ret' = Absent

MapGet(k) == ret' = Answer(k) /\ UNCHANGED map

MapHas(k) == ret' = (IF map[k] = NoEntry THEN Absent ELSE "present") /\ UNCHANGED map

MapDelete(k) ==
  /\ ret' = IF map[k] = NoEntry THEN Absent ELSE "present"
  /\ map' = [map EXCEPT ![k] = NoEntry]

MapClear == map' = [k \in Keys |-> NoEntry] /\ ret' = Absent

MapTick == map' = [k \in Keys |-> Older(map[k])] /\ UNCHANGED ret

MapNext ==
  \/ \E k \in Keys : \/ \E v \in Values, d \in Lifetimes : MapSet(k, v, d)
                     \/ MapGet(k) \/ MapHas(k) \/ MapDelete(k)
  \/ MapClear
  \/ MapTick

MapSpec == MapInit /\ [][MapNext]_mapVars
=============================================================================
