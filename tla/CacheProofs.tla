---------------------------- MODULE CacheProofs ----------------------------
(***************************************************************************)
(* Module Cache implements module ExpiringMap for any keys, values and     *)
(* timeouts: every operation is the operation of the map of live entries,  *)
(* and a step of an iteration changes nothing in it.  An iteration skips   *)
(* no key that stays alive, because seats are never shared and whatever is *)
(* kept has not expired at the time the iteration began.                   *)
(***************************************************************************)
EXTENDS Cache, TLAPS

USE CacheAssumption

IInv == TypeOK /\ SeatsOK /\ NothingSkipped

Record == [val : Values \cup {"none"}, expires : Int, seat : Nat]

LEMMA StoreType ==
  ASSUME TypeOK, NEW k \in Keys
  PROVE  /\ store[k] \in Record
         /\ store[k].seat \in Nat /\ store[k].expires \in Int
         /\ store[k].seat <= seats /\ now \in Nat /\ seats \in Nat
         /\ Stored(k) => store[k].expires >= -1
BY DEF TypeOK, Record, Stored

LEMMA InitIInv == Init => IInv
BY DEF Init, IInv, TypeOK, SeatsOK, NothingSkipped, Gone, Stored, Alive, Absent

\* Keys that leave the Map do not matter to the others.
LEMMA DropIInv ==
  ASSUME IInv, NEW S, Drop(S), UNCHANGED <<now, seats, iter>>,
         ret' \in Values \cup {"absent", "present"}
  PROVE  IInv'
<1>1. TypeOK'
  BY DEF IInv, TypeOK, Drop, Gone
<1>2. SeatsOK'
  BY DEF IInv, TypeOK, SeatsOK, Drop, Gone, Stored, Alive
<1>3. NothingSkipped'
  BY DEF IInv, TypeOK, NothingSkipped, Drop, Fresh, Ahead
<1>. QED  BY <1>1, <1>2, <1>3 DEF IInv

LEMMA SetIInv ==
  ASSUME IInv, NEW k \in Keys, NEW v \in Values, NEW d \in Lifetimes, set(k, v, d)
  PROVE  IInv'
<1> DEFINE obj == store'[k]
<1>1. /\ store' = [store EXCEPT ![k] = obj]
      /\ obj = [val |-> v, expires |-> IF d >= 0 THEN now + d ELSE -1,
                seat |-> IF Stored(k) THEN store[k].seat ELSE seats + 1]
      /\ UNCHANGED <<now, iter, out, kept>>
  BY DEF set, IInv, TypeOK
<1>2. /\ obj.val \in Values /\ obj.expires \in Int /\ obj.seat \in Nat
      /\ obj.expires < 0 \/ obj.expires >= now
      /\ obj.expires >= -1
      /\ obj.seat = IF Stored(k) THEN store[k].seat ELSE seats + 1
      /\ obj.seat # 0
  BY <1>1, StoreType DEF IInv, Stored
<1>3. seats' \in Nat /\ seats <= seats' /\ seats' <= MaxSeat /\ obj.seat <= seats'
  BY <1>2, StoreType DEF set, IInv, TypeOK
<1>4. \A j \in Keys : j # k => store'[j] = store[j]
  BY <1>1 DEF IInv, TypeOK
<1> HIDE DEF obj
<1>5. TypeOK'
  <2>1. obj \in [val : Values \cup {"none"}, expires : Int, seat : 0 .. seats']
    BY <1>1, <1>2, <1>3
  <2>2. store' \in [Keys -> [val : Values \cup {"none"}, expires : Int,
                             seat : 0 .. seats']]
    BY <1>1, <1>3, <2>1 DEF IInv, TypeOK
  <2>3. \A j \in Keys : IF store'[j].seat = 0
                        THEN store'[j] = Gone
                        ELSE store'[j].val \in Values /\ store'[j].expires >= -1
    BY <1>2, <1>4 DEF IInv, TypeOK, obj
  <2>4. /\ seats' \in 0 .. MaxSeat
        /\ iter' \in [open : BOOLEAN, start : 0 .. now', at : 0 .. seats']
        /\ ret' \in Values \cup {"absent", "present"}
    BY <1>1, <1>3 DEF set, IInv, TypeOK, Absent
  <2>. QED  BY <1>1, <2>2, <2>3, <2>4 DEF IInv, TypeOK
<1>6. SeatsOK'
  <2>1. ASSUME NEW i \in Keys, NEW j \in Keys, Stored(i)',
               store'[i].seat = store'[j].seat
        PROVE  i = j
    BY <1>2, <1>4, <2>1, StoreType DEF IInv, SeatsOK, Stored, obj
  <2>2. \A j \in kept' : Alive(j)'
    BY <1>1, <1>2, <1>4 DEF IInv, TypeOK, SeatsOK, Alive, Stored, expired, obj
  <2>. QED  BY <2>1, <2>2 DEF SeatsOK
<1>7. NothingSkipped'
  <2> SUFFICES ASSUME iter.open, NEW j \in kept, j \notin out PROVE (j \in Fresh)'
    BY <1>1 DEF NothingSkipped
  <2>1. j \in Fresh /\ j \in Keys
    BY DEF IInv, TypeOK, NothingSkipped
  <2>2. CASE j # k
    BY <1>1, <1>4, <2>1, <2>2 DEF Fresh, Ahead
  <2>3. CASE j = k
    <3>1. Stored(k) /\ store[k].seat > iter.at
      BY <2>1, <2>3 DEF IInv, SeatsOK, Alive, Fresh, Ahead
    <3>2. iter.start \in Nat /\ iter.start <= now
      BY DEF IInv, TypeOK
    <3>. QED
      BY <1>1, <1>2, <2>1, <2>3, <3>1, <3>2, StoreType
      DEF Fresh, Ahead, expired, obj, IInv
  <2>. QED  BY <2>2, <2>3
<1>. QED  BY <1>5, <1>6, <1>7 DEF IInv

LEMMA BeginIInv == ASSUME IInv, Begin PROVE IInv'
<1>1. TypeOK'
  BY DEF Begin, IInv, TypeOK
<1>2. SeatsOK'
  BY DEF Begin, IInv, SeatsOK, Stored, Alive
<1>3. ASSUME NEW k \in kept' PROVE (k \in Fresh)'
  BY <1>3, StoreType DEF Begin, IInv, Fresh, Ahead, Alive, Stored
<1>. QED  BY <1>1, <1>2, <1>3 DEF IInv, NothingSkipped

LEMMA YieldIInv == ASSUME IInv, NEW k \in Keys, Yield(k) PROVE IInv'
<1> DEFINE passed == {j \in Ahead : store[j].seat < store[k].seat}
<1>1. /\ iter.open /\ k \in Fresh /\ passed \cap Fresh = {}
      /\ store' = [j \in Keys |-> IF j \in passed THEN Gone ELSE store[j]]
      /\ iter' = [iter EXCEPT !.at = store[k].seat]
      /\ out' = (out \ passed) \cup {k}
      /\ kept' = kept \ passed
      /\ UNCHANGED <<now, seats, ret>>
  BY DEF Yield
<1>2. TypeOK'
  BY <1>1, StoreType DEF IInv, TypeOK, Gone
<1>3. SeatsOK'
  BY <1>1, StoreType DEF IInv, TypeOK, SeatsOK, Gone, Stored, Alive
<1>4. ASSUME NEW j \in kept', j \notin out' PROVE (j \in Fresh)'
  <2>1. j \in kept /\ j \notin passed /\ j # k /\ j \in Keys /\ j \notin out
    BY <1>1, <1>4 DEF IInv, TypeOK
  <2>2. j \in Fresh
    BY <1>1, <2>1 DEF IInv, NothingSkipped
  <2>3. Stored(j) /\ store[j].seat > store[k].seat
    BY <2>1, <2>2, StoreType DEF IInv, SeatsOK, Alive, Fresh
  <2>. QED
    BY <1>1, <2>1, <2>2, <2>3 DEF Fresh, Ahead, IInv, TypeOK
<1>. QED  BY <1>2, <1>3, <1>4 DEF IInv, NothingSkipped

LEMMA EndIInv == ASSUME IInv, End PROVE IInv'
<1>1. TypeOK'
  <2>1. iter' \in [open : BOOLEAN, start : 0 .. now', at : 0 .. seats']
    <3>1. /\ iter' = [iter EXCEPT !.open = FALSE] /\ now' = now /\ seats' = seats
          /\ iter \in [open : BOOLEAN, start : 0 .. now, at : 0 .. seats]
      BY DEF End, IInv, TypeOK
    <3>. QED  BY <3>1, Zenon
  <2>. QED  BY <2>1 DEF End, Drop, IInv, TypeOK, Gone
<1>2. SeatsOK'
  BY DEF End, Drop, IInv, TypeOK, SeatsOK, Gone, Stored, Alive
<1>3. ~iter'.open
  BY DEF End, IInv, TypeOK
<1>. QED  BY <1>1, <1>2, <1>3 DEF IInv, NothingSkipped

LEMMA TickIInv == ASSUME IInv, Tick PROVE IInv'
<1>1. TypeOK'
  BY DEF Tick, IInv, TypeOK
<1>2. SeatsOK'
  BY DEF Tick, IInv, SeatsOK, Stored, Alive
<1>3. NothingSkipped'
  BY DEF Tick, IInv, NothingSkipped, Fresh, Ahead
<1>. QED  BY <1>1, <1>2, <1>3 DEF IInv

LEMMA NextIInv == IInv /\ [Next]_vars => IInv'
<1> SUFFICES ASSUME IInv, [Next]_vars PROVE IInv'
  OBVIOUS
<1>1. ASSUME NEW k \in Keys, get(k) \/ has(k) \/ delete(k) PROVE IInv'
  <2>1. Alive(k) => store[k].val \in Values
    BY DEF IInv, TypeOK, Alive, Stored
  <2>. QED  BY <1>1, <2>1, DropIInv DEF get, has, delete, Absent
<1>2. CASE clear
  BY <1>2, DropIInv DEF clear, Absent
<1>3. CASE UNCHANGED vars
  BY <1>3 DEF vars, IInv, TypeOK, SeatsOK, NothingSkipped, Stored, Alive, Fresh, Ahead
<1>. QED
  BY <1>1, <1>2, <1>3, SetIInv, BeginIInv, YieldIInv, EndIInv, TickIInv DEF Next

\* Every variable of the cache stays within its type: in particular a key in
\* the Map has a value and an expiry (lib/utils/cache.ts:85-90).
THEOREM TypeCorrect == Spec => []TypeOK
<1>1. IInv => TypeOK
  BY DEF IInv
<1>. QED  BY <1>1, InitIInv, NextIInv, PTL DEF Spec

\* An iteration skips no key that stays alive while it runs, whatever happens
\* between its steps (lib/utils/cache.ts:58-66).
THEOREM IterationComplete == Spec => []NothingSkipped
<1>1. IInv => NothingSkipped
  BY DEF IInv
<1>. QED  BY <1>1, InitIInv, NextIInv, PTL DEF Spec

-----------------------------------------------------------------------------
(* Refinement.                                                             *)

USE DEF M!Never, Never, M!Absent, Absent, M!NoEntry, NoEntry

\* What the live entry of a key is, for a step that leaves its record alone
\* and for one that takes it out of the Map.
LEMMA LiveSame ==
  ASSUME NEW k \in Keys, store'[k] = store[k], now' = now
  PROVE  Live'[k] = Live[k]
BY DEF Live, Alive, Stored, expired

LEMMA LiveGone ==
  ASSUME NEW k \in Keys PROVE /\ store'[k] = Gone => Live'[k] = NoEntry
                              /\ ~Alive(k) => Live[k] = NoEntry
BY DEF Live, Alive, Stored, Gone

\* Taking keys that are not alive out of the Map changes nothing in it.
LEMMA PurgeLive ==
  ASSUME NEW S, \A k \in Keys \cap S : ~Alive(k), UNCHANGED now,
         \A k \in Keys : store'[k] = IF k \in S THEN Gone ELSE store[k]
  PROVE  Live' = Live
<1>1. ASSUME NEW k \in Keys PROVE Live'[k] = Live[k]
  BY LiveSame, LiveGone
<1>2. Live = [k \in Keys |-> Live[k]] /\ Live' = [k \in Keys |-> Live'[k]]
  BY DEF Live
<1>3. [k \in Keys |-> Live[k]] = [k \in Keys |-> Live'[k]]
  BY <1>1, Zenon
<1>. QED  BY <1>2, <1>3, Zenon

LEMMA AnswerLive ==
  ASSUME IInv, NEW k \in Keys
  PROVE  M!Answer(k) = IF Alive(k) THEN store[k].val ELSE Absent
<1>1. Alive(k) => store[k].val \in Values /\ store[k].val # "none"
  BY DEF IInv, TypeOK, Alive, Stored
<1>. QED  BY <1>1 DEF M!Answer, Live

LEMMA InitRefines == Init => M!MapInit
BY DEF Init, M!MapInit, Live, Alive, Stored, Gone

LEMMA SetRefines ==
  ASSUME IInv, NEW k \in Keys, NEW v \in Values, NEW d \in Lifetimes, set(k, v, d)
  PROVE  M!MapSet(k, v, d)
<1> DEFINE e == [val |-> v, ttl |-> IF d >= 0 THEN d ELSE Never]
<1>1. /\ store' = [store EXCEPT ![k] = store'[k]]
      /\ store'[k] = [val |-> v, expires |-> IF d >= 0 THEN now + d ELSE -1,
                      seat |-> IF Stored(k) THEN store[k].seat ELSE seats + 1]
      /\ now' = now /\ ret' = Absent
  BY DEF set, IInv, TypeOK
<1>2. Live'[k] = e
  <2>1. store'[k].seat # 0 /\ store'[k].val = v
    BY <1>1, StoreType DEF IInv, Stored
  <2>2. store'[k].expires = IF d >= 0 THEN now + d ELSE -1
    BY <1>1
  <2>3. Alive(k)'
    BY <1>1, <2>1, <2>2, StoreType DEF IInv, Alive, Stored, expired
  <2>4. Live'[k].val = v /\ Live'[k] = [val |-> v,
           ttl |-> IF store'[k].expires < 0 THEN Never ELSE store'[k].expires - now]
    BY <1>1, <2>1, <2>3 DEF Live
  <2>5. d \in Int /\ now \in Nat
    BY StoreType DEF IInv
  <2>6. (IF store'[k].expires < 0 THEN Never ELSE store'[k].expires - now)
          = IF d >= 0 THEN d ELSE Never
    BY <2>2, <2>5
  <2>. QED  BY <2>4, <2>6
<1>3. \A j \in Keys \ {k} : Live'[j] = Live[j]
  <2>1. \A j \in Keys \ {k} : store'[j] = store[j]
    BY <1>1 DEF IInv, TypeOK
  <2>. QED  BY <1>1, <2>1, LiveSame
<1>4. Live' = [Live EXCEPT ![k] = e]
  <2>1. Live' = [j \in Keys |-> Live'[j]] /\ Live = [j \in Keys |-> Live[j]]
    BY DEF Live
  <2> HIDE DEF e
  <2>. QED  BY <1>2, <1>3, <2>1, Zenon
<1>. QED  BY <1>1, <1>4 DEF M!MapSet

LEMMA ReadRefines ==
  ASSUME IInv, NEW k \in Keys
  PROVE  /\ get(k) => M!MapGet(k)
         /\ has(k) => M!MapHas(k)
<1>1. Drop(IF Alive(k) THEN {} ELSE {k}) /\ UNCHANGED now => Live' = Live
  BY PurgeLive DEF Drop
<1>2. M!Answer(k) = IF Alive(k) THEN store[k].val ELSE Absent
  BY AnswerLive
<1>3. (Live[k] = M!NoEntry) <=> ~Alive(k)
  <2>1. Alive(k) => store[k].val # "none"
    BY DEF IInv, TypeOK, Alive, Stored
  <2>. QED  BY <2>1 DEF Live
<1>. QED
  BY <1>1, <1>2, <1>3 DEF get, has, M!MapGet, M!MapHas

LEMMA DeleteRefines ==
  ASSUME IInv, NEW k \in Keys, delete(k) PROVE M!MapDelete(k)
<1>1. store' = [j \in Keys |-> IF j \in {k} THEN Gone ELSE store[j]] /\ now' = now
  BY DEF delete, Drop
<1>2. Live'[k] = NoEntry
  BY <1>1, LiveGone
<1>3. \A j \in Keys \ {k} : Live'[j] = Live[j]
  BY <1>1, LiveSame
<1>4. Live' = [Live EXCEPT ![k] = NoEntry]
  <2>1. Live' = [j \in Keys |-> Live'[j]] /\ Live = [j \in Keys |-> Live[j]]
    BY DEF Live
  <2>. QED  BY <1>2, <1>3, <2>1, Zenon
<1>5. (Live[k] = M!NoEntry) <=> ~Alive(k)
  <2>1. Alive(k) => store[k].val # "none"
    BY DEF IInv, TypeOK, Alive, Stored
  <2>. QED  BY <2>1 DEF Live
<1>6. M!NoEntry = NoEntry
  OBVIOUS
<1>7. ret' = IF Alive(k) THEN "present" ELSE Absent
  BY DEF delete
<1>. QED  BY <1>4, <1>5, <1>6, <1>7 DEF M!MapDelete

LEMMA ClearRefines == ASSUME clear PROVE M!MapClear
<1>1. Live' = [k \in Keys |-> NoEntry]
  BY LiveGone DEF clear, Drop, Live, Alive, Stored, Gone
<1>. QED
  BY <1>1 DEF clear, M!MapClear

LEMMA IterationRefines ==
  ASSUME IInv, Begin \/ End \/ \E k \in Keys : Yield(k)
  PROVE  UNCHANGED <<Live, ret>>
<1>1. \A k \in Ahead : k \notin Fresh => ~Alive(k)
  BY StoreType DEF IInv, TypeOK, Fresh, Alive, expired, Ahead
<1>2. CASE Begin
  BY <1>2 DEF Begin, Live, Alive, Stored, expired
<1>3. CASE End
  BY <1>1, <1>3, PurgeLive DEF End, Drop
<1>4. ASSUME NEW k \in Keys, Yield(k) PROVE UNCHANGED <<Live, ret>>
  <2> DEFINE passed == {j \in Ahead : store[j].seat < store[k].seat}
  <2>1. /\ \A j \in Keys : store'[j] = IF j \in passed THEN Gone ELSE store[j]
        /\ UNCHANGED <<now, ret>>
        /\ passed \subseteq Ahead /\ passed \cap Fresh = {}
    BY <1>4 DEF Yield
  <2> HIDE DEF passed
  <2>. QED  BY <1>1, <2>1, PurgeLive
<1>. QED  BY <1>2, <1>3, <1>4

LEMMA TickRefines == ASSUME IInv, Tick PROVE M!MapTick
<1>1. ASSUME NEW k \in Keys PROVE Live'[k] = Older(Live[k])
  <2>1. store' = store /\ now' = now + 1
    BY DEF Tick
  <2>2. CASE ~Alive(k)
    <3>1. ~Alive(k)'
      BY <2>1, <2>2, StoreType DEF IInv, Alive, Stored, expired
    <3>2. Older(NoEntry) = NoEntry
      BY DEF Older
    <3>. QED  BY <2>2, <3>1, <3>2 DEF Live
  <2>3. CASE Alive(k) /\ store[k].expires < 0
    <3>1. Alive(k)'
      BY <2>1, <2>3, StoreType DEF IInv, Alive, Stored, expired
    <3>. QED  BY <2>1, <2>3, <3>1 DEF Live, Older
  <2>4. CASE Alive(k) /\ store[k].expires >= 0 /\ store[k].expires = now
    <3>1. ~Alive(k)'
      BY <2>1, <2>4, StoreType DEF IInv, Alive, Stored, expired
    <3>. QED  BY <2>1, <2>4, <3>1, StoreType DEF IInv, Live, Older
  <2>5. CASE Alive(k) /\ store[k].expires >= 0 /\ store[k].expires # now
    <3>1. Alive(k)' /\ store[k].expires - now > 0
      BY <2>1, <2>5, StoreType DEF IInv, Alive, Stored, expired
    <3>2. Live[k] = [val |-> store[k].val, ttl |-> store[k].expires - now]
      BY <2>5, StoreType DEF IInv, Live
    <3>3. Live'[k] = [val |-> store[k].val, ttl |-> store[k].expires - (now + 1)]
      BY <2>1, <2>5, <3>1, StoreType DEF IInv, Live
    <3>4. Older(Live[k]) = [Live[k] EXCEPT !.ttl = Live[k].ttl - 1]
      BY <3>1, <3>2, StoreType DEF IInv, Older
    <3>5. store[k].expires - now - 1 = store[k].expires - (now + 1)
      BY StoreType DEF IInv
    <3>. QED  BY <3>2, <3>3, <3>4, <3>5
  <2>. QED  BY <2>2, <2>3, <2>4, <2>5, StoreType DEF IInv
<1>2. \A e : M!Older(e) = Older(e)
  BY DEF M!Older, Older
<1>3. Live' = [k \in Keys |-> M!Older(Live[k])]
  <2>1. Live' = [j \in Keys |-> Live'[j]]
    BY DEF Live
  <2>. QED  BY <1>1, <1>2, <2>1, Zenon
<1>. QED  BY <1>3 DEF Tick, M!MapTick

\* The cache implements the map whose entries expire on their own: no answer
\* of get, has or delete (lib/utils/cache.ts:48-56, 92-112) tells that expired
\* entries stay in the store until they are met.
THEOREM Refinement == Spec => ImplementsMap
<1>1. IInv /\ [Next]_vars => [M!MapNext]_(M!mapVars)
  <2> SUFFICES ASSUME IInv, [Next]_vars PROVE M!MapNext \/ UNCHANGED <<Live, ret>>
    BY DEF M!mapVars
  <2>1. CASE UNCHANGED vars
    BY <2>1 DEF vars, Live, Alive, Stored, expired
  <2>2. CASE Begin \/ End \/ \E k \in Keys : Yield(k)
    BY <2>2, IterationRefines
  <2>3. CASE clear \/ Tick
    BY <2>3, ClearRefines, TickRefines DEF M!MapNext
  <2>4. ASSUME NEW k \in Keys,
               \/ \E v \in Values, d \in Lifetimes : set(k, v, d)
               \/ get(k) \/ has(k) \/ delete(k)
        PROVE  M!MapNext
    BY <2>4, SetRefines, ReadRefines, DeleteRefines DEF M!MapNext
  <2>. QED  BY <2>1, <2>2, <2>3, <2>4 DEF Next
<1>. QED
  BY <1>1, InitIInv, NextIInv, InitRefines, PTL DEF Spec, ImplementsMap, M!MapSpec
=============================================================================
