----------------------- MODULE SchemaRetrieverProofs -----------------------
(***************************************************************************)
(* Proofs about module SchemaRetriever.  The inductive invariant IInv is   *)
(* proved one conjunct at a time, each from the ones before it: first the  *)
(* types, then the bookkeeping of the batches, then that a waiting thread  *)
(* awaits a request for its own kind, then that replies are fresh and that *)
(* the ClassMap of a request holds what its checks found.  AnswerIsFresh   *)
(* is the consequence of all of them at the step that settles a request.   *)
(***************************************************************************)
EXTENDS SchemaRetriever, TLAPS

USE RetrieverAssumption DEF tpVars, reqVars, thrVars

LEMMA ThreadsFacts ==
  /\ Clients \subseteq Threads /\ Checks \subseteq Threads
  /\ \A t \in Threads : t \notin Clients => t \in Checks
  /\ \A t \in Checks : t \notin Clients /\ t[1] \in Requests /\ t[2] \in Kinds
                       /\ t = <<t[1], t[2]>>
  /\ \A r \in Requests, k \in Kinds :
       /\ <<r, k>> \in Checks
       /\ <<r, k>> \in Threads
       /\ <<r, k>> \notin Clients
BY DEF Threads, Checks

LEMMA EnqueueTypeOK ==
  ASSUME TypeOK, NEW t \in Threads, NEW k \in Kinds, NEW l \in Levels,
         NEW where \in {"class", "entclass"},
         Enqueue(t, k, l, where),
         UNCHANGED <<batch, reply, result>>
  PROVE  /\ TypeRequests'
         /\ pc' \in [Threads -> {"idle", "class", "check", "entclass", "entall"}]
         /\ kind' \in [Threads -> Kinds \cup {"none"}]
         /\ on' \in [Threads -> Requests \cup {NoReq}]
         /\ window' \in [Threads -> SUBSET Served]
<1>1. PICK r \in Requests : EnsureRequest(l, r) /\ Await(t, k, r, where)
  BY DEF Enqueue
<1>2. pending' \in [Levels -> SUBSET Kinds]
  BY DEF Enqueue, TypeOK, TypeRequests
<1>3. /\ current' \in [Levels -> Requests \cup {NoReq}]
      /\ phase' \in [Requests -> {"free", "queued", "sent", "served", "checking"}]
      /\ rlevel' \in [Requests -> Levels]
  <2> USE <1>1 DEF EnsureRequest, TypeOK, TypeRequests
  <2>1. current' \in [Levels -> Requests \cup {NoReq}] OBVIOUS
  <2>2. phase' \in [Requests -> {"free", "queued", "sent", "served", "checking"}] OBVIOUS
  <2>3. rlevel' \in [Requests -> Levels] BY SMTT(30)
  <2> QED BY <2>1, <2>2, <2>3
<1>4. TypeRequests'
  BY <1>2, <1>3 DEF TypeOK, TypeRequests
<1>5. tp[k] \in Served
  BY DEF TypeOK, TypeCaches
<1>6. Await(t, k, r, where)
  BY <1>1
<1>. QED  BY <1>4, <1>5, <1>6 DEF Await, TypeOK, TypeThreads

LEMMA RecordTypeOK ==
  ASSUME TypeOK, NEW t \in Threads, NEW k,
         NEW v \in EntityValues \cup {"none"}, GotRecord(t, k, v)
  PROVE  /\ TypeThreads'
         /\ result' \in [Checks -> Contents \cup {"none", "error"}]
<1>1. CASE t \in Clients
  <2>1. Return(t, k, v) /\ UNCHANGED <<result, todo>>
    BY <1>1 DEF GotRecord
  <2>2. ans' \in [Clients -> EntityValues \cup {"none", "invalid", "error"}]
    <3>1. ans' = [ans EXCEPT ![t] = v]
      BY <2>1 DEF Return
    <3>. QED  BY <1>1, <3>1 DEF TypeOK, TypeThreads
  <2>3. TypeThreads'
    BY <2>1, <2>2 DEF TypeOK, TypeThreads, Return
  <2>. QED  BY <2>1, <2>3 DEF TypeOK, TypeRequests
<1>2. CASE t \notin Clients
  <2>1. t \in Checks
    BY <1>2, ThreadsFacts
  <2>2. result' \in [Checks -> Contents \cup {"none", "error"}]
    BY <2>1, <1>2 DEF TypeOK, TypeRequests, GotRecord
  <2>3. pc' \in [Threads -> {"idle", "class", "check", "entclass", "entall"}]
    BY <2>1, <1>2 DEF TypeOK, TypeThreads, GotRecord
  <2>4. todo' \in [Checks -> SUBSET Kinds]
    BY <2>1, <1>2 DEF TypeOK, TypeThreads, GotRecord
  <2>5. /\ kind' \in [Threads -> Kinds \cup {"none"}]
        /\ on' \in [Threads -> Requests \cup {NoReq}]
        /\ window' \in [Threads -> SUBSET Served]
        /\ ans' \in [Clients -> EntityValues \cup {"none", "invalid", "error"}]
    BY <2>1, <1>2 DEF TypeOK, TypeThreads, GotRecord
  <2>. QED  BY <2>2, <2>3, <2>4, <2>5 DEF TypeThreads
<1>. QED  BY <1>1, <1>2

LEMMA CallTypeOK ==
  ASSUME TypeOK, NEW c \in Clients, NEW k \in Kinds, NEW l \in Levels
  PROVE  /\ CallClassCached(c, k, l) => TypeOK'
         /\ CallClassMiss(c, k, l) => TypeOK'
<1>1. ASSUME CallClassCached(c, k, l) PROVE TypeOK'
  <2>1. PICK v \in EntityValues \cup {"invalid"} : Return(c, k, v)
    BY <1>1 DEF CallClassCached, Hit, EntityValues
  <2>2. c \in Threads
    BY ThreadsFacts
  <2>3. TypeThreads'
    BY <1>1, <2>1, <2>2 DEF TypeOK, TypeThreads, Return, CallClassCached
  <2>4. TypeCaches' /\ TypeRequests'
    BY <1>1 DEF TypeOK, TypeCaches, TypeRequests, CallClassCached
  <2>. QED  BY <2>3, <2>4 DEF TypeOK
<1>2. ASSUME CallClassMiss(c, k, l) PROVE TypeOK'
  <2>1. /\ Enqueue(c, k, l, "class")
        /\ UNCHANGED <<tp, events, cache, ent, batch, reply, result, todo>>
        /\ ans' = [ans EXCEPT ![c] = "none"]
    BY <1>2 DEF CallClassMiss
  <2>2. c \in Threads
    BY ThreadsFacts
  <2>3. TypeThreads' /\ TypeRequests'
    BY <2>1, <2>2, EnqueueTypeOK DEF TypeOK, TypeThreads
  <2>4. TypeCaches'
    BY <2>1 DEF TypeOK, TypeCaches
  <2>. QED  BY <2>3, <2>4 DEF TypeOK
<1>. QED  BY <1>1, <1>2

LEMMA ThreadTypeOK ==
  ASSUME TypeOK, NEW t \in Threads, ThreadStep(t)
  PROVE  TypeOK'
<1>1. ASSUME NEW k \in Kinds, EntityCached(t, k) PROVE TypeOK'
  <2>1. ent[k].val \in EntityValues \cup {"none"}
    BY DEF TypeOK, TypeCaches
  <2>2. GotRecord(t, k, ent[k].val)
    BY <1>1 DEF EntityCached
  <2>3. TypeThreads' /\ result' \in [Checks -> Contents \cup {"none", "error"}]
    BY <2>1, <2>2, RecordTypeOK
  <2>4. TypeRequests' /\ TypeCaches'
    BY <1>1, <2>3 DEF TypeOK, TypeRequests, TypeCaches, EntityCached
  <2>. QED  BY <2>3, <2>4 DEF TypeOK
<1>2. ASSUME NEW k \in Kinds, EntityOfCachedClass(t, k) PROVE TypeOK'
  <2>1. cache["everything"][k].val \in EntityValues
    BY <1>2 DEF EntityOfCachedClass, Hit, EntityValues
  <2>2. GotRecord(t, k, cache["everything"][k].val)
    BY <1>2 DEF EntityOfCachedClass
  <2>3. TypeThreads' /\ result' \in [Checks -> Contents \cup {"none", "error"}]
    BY <2>1, <2>2, RecordTypeOK
  <2>4. TypeRequests'
    BY <1>2, <2>3 DEF TypeOK, TypeRequests, EntityOfCachedClass
  <2>5. TypeCaches'
    BY <1>2, <2>1 DEF TypeOK, TypeCaches, EntityOfCachedClass, Valid, Lifetimes
  <2>. QED  BY <2>3, <2>4, <2>5 DEF TypeOK
<1>3. ASSUME NEW k \in Kinds, EntityOfInvalidClass(t, k) PROVE TypeOK'
  BY <1>3 DEF TypeOK, TypeCaches, TypeRequests, TypeThreads, EntityOfInvalidClass
<1>4. ASSUME NEW k \in Kinds, EntityMiss(t, k) PROVE TypeOK'
  <2>1. /\ Enqueue(t, k, "everything", "entclass")
        /\ UNCHANGED <<tp, events, cache, ent, batch, reply, result, ans, todo>>
    BY <1>4 DEF EntityMiss
  <2>3. TypeThreads' /\ TypeRequests'
    BY <2>1, EnqueueTypeOK DEF TypeOK, TypeThreads
  <2>4. TypeCaches'
    BY <2>1 DEF TypeOK, TypeCaches
  <2>. QED  BY <2>3, <2>4 DEF TypeOK
<1>5. ASSUME AllEntities(t) PROVE TypeOK'
  <2>1. GotRecord(t, kind[t], "fallback")
    BY <1>5 DEF AllEntities
  <2>2. TypeThreads' /\ result' \in [Checks -> Contents \cup {"none", "error"}]
    BY <2>1, RecordTypeOK DEF EntityValues
  <2>3. TypeCaches'
    <3>1. Valid("fallback") \in [val : EntityValues \cup {"none"}, ttl : Lifetimes]
      BY DEF Valid, EntityValues, Lifetimes
    <3>2. ent' = [ent EXCEPT ![kind[t]] = Valid("fallback")]
      BY <1>5 DEF AllEntities
    <3>3. ent' \in [Kinds -> [val : EntityValues \cup {"none"}, ttl : Lifetimes]]
      BY <3>1, <3>2 DEF TypeOK, TypeCaches
    <3>4. UNCHANGED <<tp, cache, events>>
      BY <1>5 DEF AllEntities
    <3>. QED  BY <3>3, <3>4 DEF TypeOK, TypeCaches
  <2>4. TypeRequests'
    BY <1>5, <2>2 DEF TypeOK, TypeRequests, AllEntities
  <2>. QED  BY <2>2, <2>3, <2>4 DEF TypeOK
<1>6. ASSUME AllEntitiesFail(t) PROVE TypeOK'
  <2>1. events' \in 0 .. MaxEvents
    BY <1>6 DEF AllEntitiesFail, TypeOK, TypeCaches
  <2>2. TypeCaches'
    BY <1>6, <2>1 DEF AllEntitiesFail, TypeOK, TypeCaches
  <2>3. CASE t \in Clients
    BY <1>6, <2>2, <2>3 DEF TypeOK, TypeRequests, TypeThreads, AllEntitiesFail
  <2>4. CASE t \notin Clients
    <3>1. t \in Checks
      BY <2>4, ThreadsFacts
    <3>. QED
      BY <1>6, <2>2, <2>4, <3>1, ZenonT(30)
      DEF TypeOK, TypeRequests, TypeThreads, AllEntitiesFail
  <2>. QED  BY <2>3, <2>4
<1>. QED  BY <1>1, <1>2, <1>3, <1>4, <1>5, <1>6 DEF ThreadStep

LEMMA SettleTypeOK ==
  ASSUME TypeOK, NEW r \in Requests,
         NEW outcome \in [Kinds -> Contents \cup {"invalid", "error"}],
         \A t \in Threads : on[t] = r => kind[t] \in Kinds,
         Settle(r, outcome), UNCHANGED <<pending, current>>
  PROVE  /\ TypeRequests' /\ TypeThreads'
         /\ ent' \in [Kinds -> [val : EntityValues \cup {"none"}, ttl : Lifetimes]]
<1>1. TypeRequests'
  <2>1. UNCHANGED <<pending, current>>
    OBVIOUS
  <2>2. /\ phase' \in [Requests -> {"free", "queued", "sent", "served", "checking"}]
        /\ batch' \in [Requests -> SUBSET Kinds]
        /\ rlevel' \in [Requests -> Levels]
    BY DEF Settle, TypeOK, TypeRequests
  <2>3. reply' \in [Requests -> [Kinds -> Served]]
    BY DEF Settle, TypeOK, TypeRequests, Nothing, Served
  <2>4. result' \in [Checks -> Contents \cup {"none", "error"}]
    BY DEF Settle, TypeOK, TypeRequests
  <2>. QED  BY <2>1, <2>2, <2>3, <2>4 DEF TypeOK, TypeRequests
<1>2. TypeThreads'
  <2>1. /\ pc' \in [Threads -> {"idle", "class", "check", "entclass", "entall"}]
    BY DEF Settle, TypeOK, TypeThreads
  <2>2. kind' \in [Threads -> Kinds \cup {"none"}]
    BY DEF Settle, TypeOK, TypeThreads
  <2>3. /\ on' \in [Threads -> Requests \cup {NoReq}]
        /\ window' \in [Threads -> SUBSET Served]
    BY DEF Settle, TypeOK, TypeThreads
  <2>4. ans' \in [Clients -> EntityValues \cup {"none", "invalid", "error"}]
    BY ThreadsFacts DEF Settle, TypeOK, TypeThreads, EntityValues, ClassValues
  <2>5. todo' \in [Checks -> SUBSET Kinds]
    BY DEF Settle, TypeOK, TypeThreads
  <2>. QED  BY <2>1, <2>2, <2>3, <2>4, <2>5 DEF TypeThreads
<1>3. ent' \in [Kinds -> [val : EntityValues \cup {"none"}, ttl : Lifetimes]]
  <2>1. \A k \in Kinds : ent'[k] = ent[k]
                         \/ (outcome[k] \in Contents /\ ent'[k] = Valid(outcome[k]))
    BY DEF Settle, TypeOK, TypeThreads, Waiters
  <2>2. \A v \in Contents : Valid(v) \in [val : EntityValues \cup {"none"}, ttl : Lifetimes]
    BY DEF Valid, EntityValues, ClassValues, Lifetimes
  <2>3. ent' = [k \in Kinds |-> ent'[k]]
    BY DEF Settle
  <2>4. \A k \in Kinds : ent'[k] \in [val : EntityValues \cup {"none"}, ttl : Lifetimes]
    BY <2>1, <2>2 DEF TypeOK, TypeCaches
  <2>. QED  BY <2>3, <2>4
<1>. QED  BY <1>1, <1>2, <1>3

LEMMA RequestTypeOK ==
  ASSUME TypeOK, NEW r \in Requests, RequestStep(r),
         \A t \in Threads : on[t] # NoReq => kind[t] \in Kinds
  PROVE  TypeOK'
<1>0. ASSUME NEW k \in Kinds, NEW l \in Levels, NEW v \in Contents
      PROVE  /\ Valid(v) \in [val : ClassValues \cup {"null", "none"}, ttl : Lifetimes]
             /\ Negative \in [val : ClassValues \cup {"null", "none"}, ttl : Lifetimes]
  BY DEF Valid, Negative, ClassValues, Lifetimes
<1>1. ASSUME Send(r) PROVE TypeOK'
  BY <1>1 DEF Send, TypeOK, TypeCaches, TypeRequests, TypeThreads
<1>2. ASSUME NEW full \in Extra, Serve(r, full) PROVE TypeOK'
  <2>1. [k \in Kinds |-> IF full \/ k \in batch[r] THEN tp[k] ELSE "missing"]
          \in [Kinds -> Served]
    BY DEF TypeOK, TypeCaches, Served
  <2>2. reply' \in [Requests -> [Kinds -> Served]]
    BY <1>2, <2>1 DEF Serve, TypeOK, TypeRequests
  <2>. QED
    BY <1>2, <2>2 DEF Serve, TypeOK, TypeCaches, TypeRequests, TypeThreads
<1>3. ASSUME Deliver(r) PROVE TypeOK'
  <2>1. pc' \in [Threads -> {"idle", "class", "check", "entclass", "entall"}]
    BY <1>3 DEF Deliver, TypeOK, TypeThreads
  <2>2. todo' \in [Checks -> SUBSET Kinds]
    <3>1. \A t \in Checks : Deps[t[2]] \in SUBSET Kinds
      BY ThreadsFacts
    <3>. QED  BY <1>3, <3>1 DEF Deliver, TypeOK, TypeThreads
  <2>. QED
    BY <1>3, <2>1, <2>2 DEF Deliver, TypeOK, TypeCaches, TypeRequests, TypeThreads
<1>4. ASSUME NEW k \in Kinds, CheckPasses(r, k) PROVE TypeOK'
  <2>1. reply[r][k] \in Contents
    BY <1>4 DEF CheckPasses
  <2>2. TypeCaches'
    BY <1>0, <1>4, <2>1 DEF CheckPasses, TypeOK, TypeCaches, TypeRequests
  <2>3. TypeRequests'
    BY <1>4, <2>1 DEF CheckPasses, TypeOK, TypeRequests
  <2>4. TypeThreads'
    BY <1>4 DEF CheckPasses, TypeOK, TypeThreads
  <2>. QED  BY <2>2, <2>3, <2>4 DEF TypeOK
<1>5. ASSUME NEW k \in Kinds, CheckFails(r, k) PROVE TypeOK'
  <2>1. TypeCaches'
    BY <1>5 DEF CheckFails, TypeOK, TypeCaches
  <2>2. TypeRequests' /\ TypeThreads'
    BY <1>5 DEF CheckFails, TypeOK, TypeRequests, TypeThreads
  <2>. QED  BY <2>1, <2>2 DEF TypeOK
<1>6. \A t \in Threads : on[t] = r => kind[t] \in Kinds
  BY DEF NoReq
<1>7. ASSUME Finish(r) PROVE TypeOK'
  <2> DEFINE outcome == [k \in Kinds |-> IF result[<<r, k>>] = "none"
                                         THEN "invalid" ELSE result[<<r, k>>]]
  <2>1. outcome \in [Kinds -> Contents \cup {"invalid", "error"}]
    BY ThreadsFacts DEF TypeOK, TypeRequests
  <2>2. Settle(r, outcome) /\ UNCHANGED <<tp, events, pending, current>>
    BY <1>7 DEF Finish
  <2> HIDE DEF outcome
  <2>3. /\ TypeRequests' /\ TypeThreads'
        /\ ent' \in [Kinds -> [val : EntityValues \cup {"none"}, ttl : Lifetimes]]
    BY <1>6, <2>1, <2>2, SettleTypeOK
  <2>4. cache' \in [Levels -> [Kinds -> [val : ClassValues \cup {"null", "none"},
                                          ttl : Lifetimes]]]
    <3>1. Negative \in [val : ClassValues \cup {"null", "none"}, ttl : Lifetimes]
      BY DEF Negative, Lifetimes
    <3>. QED  BY <1>7, <3>1 DEF Finish, TypeOK, TypeCaches
  <2>. QED  BY <2>2, <2>3, <2>4 DEF TypeOK, TypeCaches
<1>8. ASSUME RequestFails(r) PROVE TypeOK'
  <2>1. Nothing("error") \in [Kinds -> Contents \cup {"invalid", "error"}]
    BY DEF Nothing
  <2>2. /\ Settle(r, Nothing("error"))
        /\ UNCHANGED <<tp, cache, pending, current>>
    BY <1>8 DEF RequestFails
  <2>3. /\ TypeRequests' /\ TypeThreads'
        /\ ent' \in [Kinds -> [val : EntityValues \cup {"none"}, ttl : Lifetimes]]
    BY <1>6, <2>1, <2>2, SettleTypeOK
  <2>4. events' \in 0 .. MaxEvents
    BY <1>8 DEF RequestFails, TypeOK, TypeCaches
  <2>. QED  BY <2>2, <2>3, <2>4 DEF TypeOK, TypeCaches
<1>. QED  BY <1>1, <1>2, <1>3, <1>4, <1>5, <1>7, <1>8 DEF RequestStep

LEMMA EnvironmentTypeOK == TypeOK /\ Environment => TypeOK'
<1> SUFFICES ASSUME TypeOK, Environment PROVE TypeOK'
  OBVIOUS
<1> DEFINE Entry == [val : ClassValues \cup {"null", "none"}, ttl : Lifetimes]
<1>1. Injected \in Entry /\ NoEntry \in Entry
  BY DEF Injected, NoEntry, ClassValues, Lifetimes
<1>2. \A e \in Entry : Older(e) \in Entry
  BY DEF Older, NoEntry, Lifetimes, Never
<1>3. ASSUME NEW S, NEW e \in [val : S \cup {"none"}, ttl : Lifetimes]
      PROVE  Older(e) \in [val : S \cup {"none"}, ttl : Lifetimes]
  BY DEF Older, NoEntry, Lifetimes, Never
<1>4. cache \in [Levels -> [Kinds -> Entry]]
  BY DEF TypeOK, TypeCaches
<1> HIDE DEF Entry
<1>5. ASSUME Event PROVE events' \in 0 .. MaxEvents
  BY <1>5 DEF Event, TypeOK, TypeCaches
<1>6. ASSUME Event, cache' \in [Levels -> [Kinds -> Entry]],
             UNCHANGED <<tp, ent, pending, current, reqVars, thrVars>>
      PROVE  TypeOK'
  BY <1>5, <1>6 DEF TypeOK, TypeCaches, TypeRequests, TypeThreads, Entry
<1>7. ASSUME NEW k \in Kinds, InjectClass(k) \/ RemoveFromCache(k)
      PROVE  TypeOK'
  <2>1. cache' \in [Levels -> [Kinds -> Entry]]
    BY <1>1, <1>4, <1>7 DEF InjectClass, RemoveFromCache
  <2>. QED  BY <1>6, <1>7, <2>1 DEF InjectClass, RemoveFromCache
<1>8. ASSUME ClearCache PROVE TypeOK'
  <2>1. cache' \in [Levels -> [Kinds -> Entry]]
    BY <1>1, <1>8 DEF ClearCache, Nothing
  <2>. QED  BY <1>6, <1>8, <2>1 DEF ClearCache
<1>9. ASSUME NEW k \in Kinds, NEW v \in Served, Publish(k, v) PROVE TypeOK'
  <2>1. events' \in 0 .. MaxEvents
    BY <1>5, <1>9 DEF Publish
  <2>2. window' \in [Threads -> SUBSET Served]
    BY <1>9 DEF Publish, TypeOK, TypeThreads
  <2>. QED
    BY <1>9, <2>1, <2>2 DEF Publish, TypeOK, TypeCaches, TypeRequests, TypeThreads
<1>10. ASSUME Tick PROVE TypeOK'
  <2>1. cache' \in [Levels -> [Kinds -> Entry]]
    BY <1>2, <1>4, <1>10 DEF Tick
  <2>2. ent' \in [Kinds -> [val : EntityValues \cup {"none"}, ttl : Lifetimes]]
    BY <1>3, <1>10 DEF Tick, TypeOK, TypeCaches
  <2>. QED
    BY <1>5, <1>10, <2>1, <2>2
    DEF Tick, TypeOK, TypeCaches, TypeRequests, TypeThreads, Entry
<1>. QED  BY <1>7, <1>8, <1>9, <1>10 DEF Environment

-----------------------------------------------------------------------------
(* The frames of the steps that matter to the other invariants.            *)

\* A step that neither starts nor advances a request.
Quiet == UNCHANGED <<pending, current, phase, rlevel, batch, reply>>

LEMMA QuietSteps ==
  /\ \A c, k, l : CallClassCached(c, k, l) => Quiet
  /\ \A t, k : EntityCached(t, k) \/ EntityOfCachedClass(t, k)
                 \/ EntityOfInvalidClass(t, k) => Quiet
  /\ \A t : AllEntities(t) \/ AllEntitiesFail(t) => Quiet
  /\ \A r, k : CheckPasses(r, k) \/ CheckFails(r, k) => Quiet
  /\ Environment => Quiet
BY DEF Quiet, CallClassCached, EntityCached, EntityOfCachedClass,
       EntityOfInvalidClass, AllEntities, AllEntitiesFail, CheckPasses,
       CheckFails, Environment, InjectClass, RemoveFromCache, ClearCache,
       Publish, Tick

LEMMA EnqueueBatchOK ==
  ASSUME TypeOK, BatchOK, NEW t, NEW k \in Kinds, NEW l \in Levels, NEW where,
         Enqueue(t, k, l, where)
  PROVE  BatchOK'
<1>1. PICK r \in Requests : EnsureRequest(l, r)
  BY DEF Enqueue
<1>2. pending' = [pending EXCEPT ![l] = @ \cup {k}]
  BY DEF Enqueue
<1>3. CASE current[l] = r /\ UNCHANGED <<current, phase, rlevel>>
  BY <1>2, <1>3 DEF BatchOK, TypeOK, TypeRequests
<1>4. CASE /\ current[l] = NoReq
           /\ phase[r] = "free"
           /\ current' = [current EXCEPT ![l] = r]
           /\ phase' = [phase EXCEPT ![r] = "queued"]
           /\ rlevel' = [rlevel EXCEPT ![r] = l]
  <2>1. \A m \in Levels : (pending'[m] = {}) <=> (current'[m] = NoReq)
    BY <1>2, <1>4 DEF BatchOK, TypeOK, TypeRequests
  <2>2. \A m \in Levels : current'[m] # NoReq =>
          phase'[current'[m]] = "queued" /\ rlevel'[current'[m]] = m
    BY <1>4 DEF BatchOK, TypeOK, TypeRequests
  <2>3. \A q \in Requests : phase'[q] = "queued" => current'[rlevel'[q]] = q
    BY <1>4 DEF BatchOK, TypeOK, TypeRequests
  <2>. QED  BY <2>1, <2>2, <2>3 DEF BatchOK
<1>. QED  BY <1>1, <1>3, <1>4 DEF EnsureRequest

LEMMA RequestBatchOK ==
  ASSUME TypeOK, BatchOK, NEW r \in Requests, RequestStep(r)
  PROVE  BatchOK'
<1>1. CASE Send(r)
  <2> DEFINE m == rlevel[r]
  <2>1. m \in Levels /\ current[m] = r /\ phase[r] = "queued"
    BY <1>1 DEF Send, BatchOK, TypeOK, TypeRequests
  <2>2. /\ pending' = [pending EXCEPT ![m] = {}]
        /\ current' = [current EXCEPT ![m] = NoReq]
        /\ phase' = [phase EXCEPT ![r] = "sent"]
        /\ rlevel' = rlevel
    BY <1>1 DEF Send
  <2> HIDE DEF m
  <2>3. \A l \in Levels : (pending[l] = {})' <=> (current[l] = NoReq)'
    BY <2>1, <2>2 DEF BatchOK, TypeOK, TypeRequests
  <2>4. \A l \in Levels : current'[l] # NoReq =>
          phase'[current'[l]] = "queued" /\ rlevel'[current'[l]] = l
    BY <2>1, <2>2 DEF BatchOK, TypeOK, TypeRequests, m
  <2>5. \A q \in Requests : phase'[q] = "queued" => current'[rlevel'[q]] = q
    BY <2>1, <2>2 DEF BatchOK, TypeOK, TypeRequests, m
  <2>. QED  BY <2>3, <2>4, <2>5 DEF BatchOK
<1>2. ASSUME NEW full \in Extra, Serve(r, full) PROVE BatchOK'
  BY <1>2 DEF Serve, BatchOK, TypeOK, TypeRequests
<1>3. CASE Deliver(r)
  BY <1>3 DEF Deliver, BatchOK, TypeOK, TypeRequests
<1>4. ASSUME NEW k \in Kinds, CheckPasses(r, k) \/ CheckFails(r, k) PROVE BatchOK'
  BY <1>4, QuietSteps DEF Quiet, BatchOK
<1>5. ASSUME NEW outcome, Settle(r, outcome), phase[r] \in {"sent", "served", "checking"},
             UNCHANGED <<pending, current>>
      PROVE BatchOK'
  BY <1>5 DEF Settle, BatchOK, TypeOK, TypeRequests
<1>6. CASE Finish(r)
  BY <1>5, <1>6 DEF Finish
<1>7. CASE RequestFails(r)
  BY <1>5, <1>7 DEF RequestFails
<1>. QED  BY <1>1, <1>2, <1>3, <1>4, <1>6, <1>7 DEF RequestStep

LEMMA AskedStays ==
  ASSUME Quiet, NEW r PROVE Asked(r)' = Asked(r)
BY DEF Quiet, Asked

\* A thread that does not wait, before or after, disturbs no other.
LEMMA IdleWaiterOK ==
  ASSUME TypeOK, WaiterOK, Quiet, NEW t \in Threads,
         on[t] = NoReq,
         pc'[t] \in {"idle", "check", "entall"},
         \A u \in Threads \ {t} :
           pc'[u] = pc[u] /\ kind'[u] = kind[u] /\ on'[u] = on[u],
         on'[t] = NoReq
  PROVE  WaiterOK'
BY AskedStays DEF WaiterOK, Quiet

LEMMA EnqueueWaiterOK ==
  ASSUME TypeOK, BatchOK, WaiterOK, NEW t \in Threads, NEW k \in Kinds,
         NEW l \in Levels, NEW where \in {"class", "entclass"},
         where = "entclass" => l = "everything",
         where = "class" => t \in Clients,
         on[t] = NoReq, Enqueue(t, k, l, where), UNCHANGED batch
  PROVE  WaiterOK'
<1>1. PICK r \in Requests : EnsureRequest(l, r) /\ Await(t, k, r, where)
  BY DEF Enqueue
<1>2. pending' = [pending EXCEPT ![l] = @ \cup {k}]
  BY DEF Enqueue
<1>3. /\ pc' = [pc EXCEPT ![t] = where]
      /\ kind' = [kind EXCEPT ![t] = k]
      /\ on' = [on EXCEPT ![t] = r]
  BY <1>1 DEF Await
<1>4. phase'[r] = "queued" /\ rlevel'[r] = l
  <2>1. CASE current[l] = r /\ UNCHANGED <<current, phase, rlevel>>
    BY <2>1 DEF BatchOK
  <2>2. CASE /\ phase' = [phase EXCEPT ![r] = "queued"]
             /\ rlevel' = [rlevel EXCEPT ![r] = l]
    BY <2>2 DEF TypeOK, TypeRequests
  <2>. QED  BY <1>1, <2>1, <2>2 DEF EnsureRequest
<1>5. \A q \in Requests : phase[q] # "free" =>
        /\ phase'[q] = phase[q]
        /\ rlevel'[q] = rlevel[q]
        /\ Asked(q) \subseteq Asked(q)'
  BY <1>1, <1>2 DEF EnsureRequest, Asked, TypeOK, TypeRequests
<1>6. k \in Asked(r)'
  BY <1>2, <1>4 DEF Asked, TypeOK, TypeRequests
<1>. QED
  BY <1>3, <1>4, <1>5, <1>6 DEF WaiterOK, TypeOK, TypeThreads

LEMMA SettleWaiterOK ==
  ASSUME TypeOK, BatchOK, WaiterOK, NEW r \in Requests, NEW outcome,
         phase[r] # "queued", Settle(r, outcome), UNCHANGED pending
  PROVE  WaiterOK'
<1>1. \A q \in Requests \ {r} :
        phase'[q] = phase[q] /\ rlevel'[q] = rlevel[q] /\ Asked(q)' = Asked(q)
  BY DEF Settle, Asked, TypeOK, TypeRequests
<1>2. \A u \in Threads : on[u] # r =>
        pc'[u] = pc[u] /\ kind'[u] = kind[u] /\ on'[u] = on[u]
  BY DEF Settle, TypeOK, TypeThreads
<1>3. \A u \in Threads : on[u] = r =>
        on'[u] = NoReq /\ pc'[u] \in {"idle", "check", "entall"}
  BY DEF Settle, TypeOK, TypeThreads
<1>. QED  BY <1>1, <1>2, <1>3 DEF WaiterOK, TypeOK, TypeThreads

LEMMA RequestWaiterOK ==
  ASSUME TypeOK, BatchOK, WaiterOK, ResultOK, NEW r \in Requests, RequestStep(r)
  PROVE  WaiterOK'
<1>1. CASE Send(r)
  <2>1. \A q \in Requests : /\ phase[q] # "free" => phase'[q] # "free"
                            /\ Asked(q)' = Asked(q)
    BY <1>1 DEF Send, Asked, BatchOK, TypeOK, TypeRequests
  <2>. QED  BY <1>1, <2>1 DEF Send, WaiterOK, TypeOK, TypeThreads
<1>2. ASSUME NEW full \in Extra, Serve(r, full) PROVE WaiterOK'
  <2>1. \A q \in Requests : /\ phase[q] # "free" => phase'[q] # "free"
                            /\ Asked(q)' = Asked(q)
    BY <1>2 DEF Serve, Asked, TypeOK, TypeRequests
  <2>. QED  BY <1>2, <2>1 DEF Serve, WaiterOK, TypeOK, TypeThreads
<1>3. CASE Deliver(r)
  <2>1. \A q \in Requests : /\ phase[q] # "free" => phase'[q] # "free"
                            /\ Asked(q)' = Asked(q)
    BY <1>3 DEF Deliver, Asked, TypeOK, TypeRequests
  <2>2. \A t \in Threads : pc'[t] = pc[t] \/ (on[t] = NoReq /\ pc'[t] = "check")
    BY <1>3, ThreadsFacts DEF Deliver, WaiterOK, ResultOK, CheckOK, TypeOK, TypeThreads
  <2>. QED  BY <1>3, <2>1, <2>2 DEF Deliver, WaiterOK, TypeOK, TypeThreads
<1>4. ASSUME NEW k \in Kinds, CheckPasses(r, k) \/ CheckFails(r, k) PROVE WaiterOK'
  <2>1. <<r, k>> \in Threads
    BY ThreadsFacts
  <2>2. /\ pc[<<r, k>>] = "check"
        /\ pc' = [pc EXCEPT ![<<r, k>>] = "idle"]
        /\ kind' = kind /\ on' = on
    BY <1>4 DEF CheckPasses, CheckFails
  <2>3. on[<<r, k>>] = NoReq
    BY <2>1, <2>2 DEF WaiterOK
  <2>. QED
    BY <1>4, <2>1, <2>2, <2>3, QuietSteps, IdleWaiterOK DEF TypeOK, TypeThreads
<1>5. CASE Finish(r)
  BY <1>5, SettleWaiterOK DEF Finish
<1>6. CASE RequestFails(r)
  BY <1>6, SettleWaiterOK DEF RequestFails
<1>. QED  BY <1>1, <1>2, <1>3, <1>4, <1>5, <1>6 DEF RequestStep

LEMMA ThreadWaiterOK ==
  ASSUME TypeOK, BatchOK, WaiterOK, NEW t \in Threads, ThreadStep(t)
  PROVE  BatchOK' /\ WaiterOK'
<1>0. ASSUME NEW k, MayAskEntity(t, k) PROVE on[t] = NoReq /\ pc[t] \in {"idle", "check"}
  BY <1>0 DEF MayAskEntity, WaiterOK
<1>1. ASSUME NEW k, NEW v, GotRecord(t, k, v), Quiet, on[t] = NoReq
      PROVE  BatchOK' /\ WaiterOK'
  <2>1. /\ pc'[t] \in {"idle", "check"}
        /\ on'[t] = NoReq
        /\ \A u \in Threads \ {t} :
             pc'[u] = pc[u] /\ kind'[u] = kind[u] /\ on'[u] = on[u]
    BY <1>1 DEF GotRecord, Return, TypeOK, TypeThreads
  <2>2. BatchOK'
    BY <1>1 DEF Quiet, BatchOK
  <2>. QED  BY <1>1, <2>1, <2>2, IdleWaiterOK
<1>2. ASSUME NEW k \in Kinds, EntityCached(t, k) PROVE BatchOK' /\ WaiterOK'
  BY <1>0, <1>1, <1>2, QuietSteps DEF EntityCached
<1>3. ASSUME NEW k \in Kinds, EntityOfCachedClass(t, k) PROVE BatchOK' /\ WaiterOK'
  BY <1>0, <1>1, <1>3, QuietSteps DEF EntityOfCachedClass
<1>4. ASSUME NEW k \in Kinds, EntityOfInvalidClass(t, k) PROVE BatchOK' /\ WaiterOK'
  <2>1. Quiet /\ MayAskEntity(t, k)
    BY <1>4, QuietSteps DEF EntityOfInvalidClass
  <2>2. /\ pc'[t] = "entall"
        /\ on'[t] = NoReq
        /\ \A u \in Threads \ {t} :
             pc'[u] = pc[u] /\ kind'[u] = kind[u] /\ on'[u] = on[u]
    BY <1>0, <1>4, <2>1 DEF EntityOfInvalidClass, TypeOK, TypeThreads
  <2>3. BatchOK'
    BY <2>1 DEF Quiet, BatchOK
  <2>. QED  BY <1>0, <2>1, <2>2, <2>3, IdleWaiterOK
<1>5. ASSUME NEW k \in Kinds, EntityMiss(t, k) PROVE BatchOK' /\ WaiterOK'
  BY <1>0, <1>5, EnqueueBatchOK, EnqueueWaiterOK DEF EntityMiss
<1>6. CASE AllEntities(t)
  <2>1. on[t] = NoReq
    BY <1>6 DEF AllEntities, WaiterOK
  <2>. QED  BY <1>1, <1>6, <2>1, QuietSteps DEF AllEntities
<1>7. CASE AllEntitiesFail(t)
  <2>1. on[t] = NoReq
    BY <1>7 DEF AllEntitiesFail, WaiterOK
  <2>2. /\ pc'[t] = "idle"
        /\ on'[t] = NoReq
        /\ \A u \in Threads \ {t} :
             pc'[u] = pc[u] /\ kind'[u] = kind[u] /\ on'[u] = on[u]
    BY <1>7, <2>1 DEF AllEntitiesFail, TypeOK, TypeThreads
  <2>3. Quiet
    BY <1>7, QuietSteps
  <2>4. BatchOK'
    BY <2>3 DEF Quiet, BatchOK
  <2>. QED  BY <2>1, <2>2, <2>3, <2>4, IdleWaiterOK
<1>. QED  BY <1>2, <1>3, <1>4, <1>5, <1>6, <1>7 DEF ThreadStep

LEMMA CallWaiterOK ==
  ASSUME TypeOK, BatchOK, WaiterOK,
         NEW c \in Clients, NEW k \in Kinds, NEW l \in Levels,
         CallClassCached(c, k, l) \/ CallClassMiss(c, k, l)
  PROVE  BatchOK' /\ WaiterOK'
<1>1. c \in Threads
  BY ThreadsFacts
<1>2. pc[c] = "idle" /\ on[c] = NoReq
  BY <1>1 DEF CallClassCached, CallClassMiss, WaiterOK
<1>3. CASE CallClassCached(c, k, l)
  <2>1. Quiet
    BY <1>3, QuietSteps
  <2>2. /\ pc'[c] = "idle"
        /\ on'[c] = NoReq
        /\ \A u \in Threads \ {c} :
             pc'[u] = pc[u] /\ kind'[u] = kind[u] /\ on'[u] = on[u]
    BY <1>1, <1>3 DEF CallClassCached, Return, TypeOK, TypeThreads
  <2>3. BatchOK'
    BY <2>1 DEF Quiet, BatchOK
  <2>. QED  BY <1>1, <1>2, <2>1, <2>2, <2>3, IdleWaiterOK
<1>4. CASE CallClassMiss(c, k, l)
  BY <1>1, <1>2, <1>4, EnqueueBatchOK, EnqueueWaiterOK DEF CallClassMiss
<1>. QED  BY <1>3, <1>4

LEMMA EnvironmentWaiterOK ==
  BatchOK /\ WaiterOK /\ Environment => BatchOK' /\ WaiterOK'
<1> SUFFICES ASSUME BatchOK, WaiterOK, Environment PROVE BatchOK' /\ WaiterOK'
  OBVIOUS
<1>1. Quiet
  BY QuietSteps
<1>2. UNCHANGED <<pc, kind, on>>
  BY DEF Environment, InjectClass, RemoveFromCache, ClearCache, Publish, Tick
<1>3. \A r : Asked(r)' = Asked(r)
  BY <1>1, AskedStays
<1>4. BatchOK'
  BY <1>1 DEF Quiet, BatchOK
<1>5. WaiterOK'
  BY <1>1, <1>2, <1>3 DEF Quiet, WaiterOK
<1>. QED  BY <1>4, <1>5

-----------------------------------------------------------------------------
(* Replies and results.                                                    *)

\* Whatever a step does to the threads that do not wait, the waiting ones keep
\* what they saw.
LEMMA QuietFresh ==
  ASSUME ReplyIsFresh, Quiet, UNCHANGED tp,
         \A u \in Threads : on'[u] # NoReq =>
           on'[u] = on[u] /\ kind'[u] = kind[u] /\ window'[u] = window[u]
  PROVE  ReplyIsFresh'
BY DEF ReplyIsFresh, Quiet

LEMMA EnqueueFresh ==
  ASSUME TypeOK, BatchOK, WaiterOK, ReplyIsFresh, NEW t \in Threads,
         NEW k \in Kinds, NEW l \in Levels, NEW where,
         Enqueue(t, k, l, where), UNCHANGED <<tp, reply>>
  PROVE  ReplyIsFresh'
<1>1. PICK r \in Requests : EnsureRequest(l, r) /\ Await(t, k, r, where)
  BY DEF Enqueue
<1>2. /\ kind' = [kind EXCEPT ![t] = k]
      /\ on' = [on EXCEPT ![t] = r]
      /\ window' = [window EXCEPT ![t] = {tp[k]}]
  BY <1>1 DEF Await
<1>3. phase'[r] = "queued"
  BY <1>1 DEF EnsureRequest, BatchOK, TypeOK, TypeRequests
<1>4. \A q \in Requests : phase[q] # "free" => phase'[q] = phase[q]
  BY <1>1 DEF EnsureRequest, TypeOK, TypeRequests
<1>. QED
  BY <1>2, <1>3, <1>4 DEF ReplyIsFresh, WaiterOK, TypeOK, TypeThreads

LEMMA RequestFresh ==
  ASSUME TypeOK, WaiterOK, ReplyIsFresh, NEW r \in Requests, RequestStep(r)
  PROVE  ReplyIsFresh'
<1>1. CASE Send(r)
  BY <1>1 DEF Send, ReplyIsFresh, TypeOK, TypeRequests, TypeThreads
<1>2. ASSUME NEW full \in Extra, Serve(r, full) PROVE ReplyIsFresh'
  <2>1. \A t \in Threads : on[t] = r => reply'[r][kind[t]] = tp[kind[t]]
    BY <1>2 DEF Serve, WaiterOK, Asked, TypeOK, TypeRequests
  <2>2. \A q \in Requests \ {r} : phase'[q] = phase[q] /\ reply'[q] = reply[q]
    BY <1>2 DEF Serve, TypeOK, TypeRequests
  <2>3. UNCHANGED <<tp, kind, on, window>>
    BY <1>2 DEF Serve
  <2>4. ASSUME NEW t \in Threads, on[t] # NoReq
        PROVE  /\ tp[kind[t]] \in window[t]
               /\ phase'[on[t]] \in {"served", "checking"} =>
                    reply'[on[t]][kind[t]] \in window[t]
    BY <2>1, <2>2, <2>4 DEF ReplyIsFresh, TypeOK, TypeThreads
  <2>. QED  BY <2>3, <2>4 DEF ReplyIsFresh
<1>3. CASE Deliver(r)
  BY <1>3 DEF Deliver, ReplyIsFresh, TypeOK, TypeRequests, TypeThreads
<1>4. ASSUME NEW k \in Kinds, CheckPasses(r, k) \/ CheckFails(r, k)
      PROVE  ReplyIsFresh'
  <2>1. UNCHANGED <<tp, kind, on, window>>
    BY <1>4 DEF CheckPasses, CheckFails
  <2>. QED  BY <1>4, <2>1, QuietSteps, QuietFresh
<1>5. ASSUME NEW outcome, Settle(r, outcome), UNCHANGED tp PROVE ReplyIsFresh'
  <2>1. \A t \in Threads : on'[t] # NoReq =>
          /\ on'[t] = on[t] /\ on[t] # r
          /\ kind'[t] = kind[t] /\ window'[t] = window[t]
    BY <1>5 DEF Settle, TypeOK, TypeThreads
  <2>2. \A q \in Requests \ {r} : phase'[q] = phase[q] /\ reply'[q] = reply[q]
    BY <1>5 DEF Settle, TypeOK, TypeRequests
  <2>. QED  BY <1>5, <2>1, <2>2 DEF ReplyIsFresh, TypeOK, TypeThreads
<1>6. CASE Finish(r)
  BY <1>5, <1>6 DEF Finish
<1>7. CASE RequestFails(r)
  BY <1>5, <1>7 DEF RequestFails
<1>. QED  BY <1>1, <1>2, <1>3, <1>4, <1>6, <1>7 DEF RequestStep

LEMMA ThreadFresh ==
  ASSUME TypeOK, BatchOK, WaiterOK, ReplyIsFresh, NEW t \in Threads, ThreadStep(t)
  PROVE  ReplyIsFresh'
<1>1. ASSUME NEW k, NEW v, GotRecord(t, k, v), Quiet, UNCHANGED tp, on[t] = NoReq
      PROVE  ReplyIsFresh'
  <2>1. \A u \in Threads : on'[u] # NoReq =>
          on'[u] = on[u] /\ kind'[u] = kind[u] /\ window'[u] = window[u]
    BY <1>1 DEF GotRecord, Return, TypeOK, TypeThreads
  <2>. QED  BY <1>1, <2>1, QuietFresh
<1>2. ASSUME NEW k, MayAskEntity(t, k) PROVE on[t] = NoReq
  BY <1>2 DEF MayAskEntity, WaiterOK
<1>3. ASSUME NEW k \in Kinds, EntityCached(t, k) PROVE ReplyIsFresh'
  BY <1>1, <1>2, <1>3, QuietSteps DEF EntityCached
<1>4. ASSUME NEW k \in Kinds, EntityOfCachedClass(t, k) PROVE ReplyIsFresh'
  BY <1>1, <1>2, <1>4, QuietSteps DEF EntityOfCachedClass
<1>5. ASSUME NEW k \in Kinds, EntityOfInvalidClass(t, k) PROVE ReplyIsFresh'
  <2>1. Quiet /\ on[t] = NoReq /\ on' = on /\ window' = window /\ tp' = tp
    BY <1>2, <1>5, QuietSteps DEF EntityOfInvalidClass
  <2>2. \A u \in Threads \ {t} : kind'[u] = kind[u]
    BY <1>5 DEF EntityOfInvalidClass, TypeOK, TypeThreads
  <2>. QED  BY <2>1, <2>2, QuietFresh
<1>6. ASSUME NEW k \in Kinds, EntityMiss(t, k) PROVE ReplyIsFresh'
  BY <1>6, EnqueueFresh DEF EntityMiss
<1>7. CASE AllEntities(t)
  <2>1. on[t] = NoReq
    BY <1>7 DEF AllEntities, WaiterOK
  <2>. QED  BY <1>1, <1>7, <2>1, QuietSteps DEF AllEntities
<1>8. CASE AllEntitiesFail(t)
  <2>1. Quiet /\ on[t] = NoReq /\ on' = on /\ window' = window /\ tp' = tp
    BY <1>8, QuietSteps DEF AllEntitiesFail, WaiterOK
  <2>2. \A u \in Threads \ {t} : kind'[u] = kind[u]
    BY <1>8 DEF AllEntitiesFail, TypeOK, TypeThreads
  <2>. QED  BY <2>1, <2>2, QuietFresh
<1>. QED  BY <1>3, <1>4, <1>5, <1>6, <1>7, <1>8 DEF ThreadStep

LEMMA CallFresh ==
  ASSUME TypeOK, BatchOK, WaiterOK, ReplyIsFresh,
         NEW c \in Clients, NEW k \in Kinds, NEW l \in Levels,
         CallClassCached(c, k, l) \/ CallClassMiss(c, k, l)
  PROVE  ReplyIsFresh'
<1>1. c \in Threads
  BY ThreadsFacts
<1>2. CASE CallClassCached(c, k, l)
  <2>1. Quiet /\ tp' = tp
    BY <1>2, QuietSteps DEF CallClassCached
  <2>2. \A u \in Threads : on'[u] # NoReq =>
          on'[u] = on[u] /\ kind'[u] = kind[u] /\ window'[u] = window[u]
    BY <1>1, <1>2 DEF CallClassCached, Return, TypeOK, TypeThreads
  <2>. QED  BY <2>1, <2>2, QuietFresh
<1>3. CASE CallClassMiss(c, k, l)
  BY <1>1, <1>3, EnqueueFresh DEF CallClassMiss
<1>. QED  BY <1>2, <1>3

LEMMA EnvironmentFresh ==
  ASSUME TypeOK, WaiterOK, ReplyIsFresh, Environment PROVE ReplyIsFresh'
<1>1. Quiet
  BY QuietSteps
<1>2. ASSUME NEW k \in Kinds, NEW v \in Served, Publish(k, v) PROVE ReplyIsFresh'
  <2>1. /\ tp' = [tp EXCEPT ![k] = v]
        /\ on' = on /\ kind' = kind
        /\ \A t \in Threads : /\ window[t] \subseteq window'[t]
                              /\ on[t] # NoReq /\ kind[t] = k => v \in window'[t]
    BY <1>2 DEF Publish
  <2>. QED  BY <1>1, <2>1 DEF Quiet, ReplyIsFresh, TypeOK, TypeCaches, TypeThreads
<1>3. ASSUME UNCHANGED <<tp, kind, on, window>> PROVE ReplyIsFresh'
  BY <1>1, <1>3, QuietFresh
<1>. QED
  BY <1>2, <1>3
  DEF Environment, InjectClass, RemoveFromCache, ClearCache, Tick

\* A step of one thread that leaves the phases of the requests that are being
\* checked, and ends a check only with a result.
LEMMA StepResultOK ==
  ASSUME TypeOK, ResultOK, NEW t \in Threads, UNCHANGED reply,
         \A q \in Requests : phase[q] = "checking" => phase'[q] = "checking",
         \A u \in Checks \ {t} : pc'[u] = pc[u] /\ result'[u] = result[u],
         t \in Checks =>
           /\ pc[t] # "idle"
           /\ \/ pc'[t] # "idle" /\ result'[t] = result[t]
              \/ result'[t] \in {"error", reply[t[1]][t[2]]},
         \A q \in Requests : phase'[q] = "checking" => phase[q] = "checking"
  PROVE  ResultOK'
<1> SUFFICES ASSUME NEW r \in Requests, NEW k \in Kinds
             PROVE  CheckOK(r, k)'
  BY DEF ResultOK
<1>0. CheckOK(r, k)
  BY DEF ResultOK
<1>1. <<r, k>> \in Checks
  BY ThreadsFacts
<1>2. CASE <<r, k>> # t
  BY <1>0, <1>1, <1>2 DEF CheckOK
<1>3. CASE <<r, k>> = t
  <2>1. t[1] = r /\ t[2] = k /\ pc[<<r, k>>] # "idle"
    BY <1>1, <1>3
  <2>2. reply[r][k] \in Served
    BY DEF TypeOK, TypeRequests
  <2>3. reply[r][k] # "none"
    BY <2>2 DEF Served
  <2>. QED  BY <1>0, <1>1, <1>3, <2>1, <2>3 DEF CheckOK
<1>. QED  BY <1>2, <1>3

\* A check of which a step changes nothing.
LEMMA SameCheckOK ==
  ASSUME ResultOK, NEW q \in Requests, NEW k \in Kinds,
         (phase'[q] = "checking") <=> (phase[q] = "checking"),
         phase'[q] = "checking" => reply'[q][k] = reply[q][k],
         result'[<<q, k>>] = result[<<q, k>>],
         (pc'[<<q, k>>] = "idle") <=> (pc[<<q, k>>] = "idle")
  PROVE  CheckOK(q, k)'
<1>1. CheckOK(q, k)
  BY DEF ResultOK
<1>2. CASE phase[q] = "checking"
  BY <1>1, <1>2 DEF CheckOK
<1>3. CASE phase[q] # "checking"
  BY <1>1, <1>3 DEF CheckOK
<1>. QED  BY <1>2, <1>3

LEMMA ThreadResultOK ==
  ASSUME TypeOK, WaiterOK, ResultOK, NEW t \in Threads, ThreadStep(t)
  PROVE  ResultOK'
<1>1. ASSUME NEW k, NEW v, GotRecord(t, k, v), t \in Checks => pc[t] # "idle",
             UNCHANGED <<phase, reply>>
      PROVE  ResultOK'
  <2>1. \A u \in Checks \ {t} : pc'[u] = pc[u] /\ result'[u] = result[u]
    BY <1>1, ThreadsFacts DEF GotRecord, Return, TypeOK, TypeThreads, TypeRequests
  <2>2. t \in Checks => \/ pc'[t] # "idle" /\ result'[t] = result[t]
                        \/ result'[t] \in {"error", reply[t[1]][t[2]]}
    BY <1>1, ThreadsFacts DEF GotRecord, TypeOK, TypeThreads, TypeRequests
  <2>. QED  BY <1>1, <2>1, <2>2, StepResultOK
<1>2. ASSUME NEW k, MayAskEntity(t, k), t \in Checks PROVE pc[t] = "check"
  BY <1>2, ThreadsFacts DEF MayAskEntity
<1>3. ASSUME NEW k \in Kinds, EntityCached(t, k) PROVE ResultOK'
  BY <1>1, <1>2, <1>3 DEF EntityCached
<1>4. ASSUME NEW k \in Kinds, EntityOfCachedClass(t, k) PROVE ResultOK'
  BY <1>1, <1>2, <1>4 DEF EntityOfCachedClass
<1>5. ASSUME NEW k \in Kinds, EntityOfInvalidClass(t, k) PROVE ResultOK'
  <2>1. MayAskEntity(t, k) /\ UNCHANGED <<phase, reply, result>>
    BY <1>5 DEF EntityOfInvalidClass
  <2>2. pc' = [pc EXCEPT ![t] = "entall"]
    BY <1>5 DEF EntityOfInvalidClass
  <2>3. \A u \in Checks \ {t} : pc'[u] = pc[u]
    BY <2>2, ThreadsFacts DEF TypeOK, TypeThreads
  <2>4. pc'[t] # "idle"
    BY <2>2 DEF TypeOK, TypeThreads
  <2>. QED  BY <1>2, <2>1, <2>3, <2>4, StepResultOK
<1>6. ASSUME NEW k \in Kinds, EntityMiss(t, k) PROVE ResultOK'
  <2>1. MayAskEntity(t, k) /\ UNCHANGED <<reply, result>>
    BY <1>6 DEF EntityMiss
  <2>2. PICK r \in Requests :
          EnsureRequest("everything", r) /\ Await(t, k, r, "entclass")
    BY <1>6 DEF EntityMiss, Enqueue
  <2>3. \A q \in Requests : (phase[q] = "checking") <=> (phase'[q] = "checking")
    BY <2>2 DEF EnsureRequest, TypeOK, TypeRequests
  <2>4. /\ pc'[t] # "idle"
        /\ \A u \in Checks \ {t} : pc'[u] = pc[u]
    BY <2>2, ThreadsFacts DEF Await, TypeOK, TypeThreads
  <2>. QED  BY <1>2, <2>1, <2>3, <2>4, StepResultOK
<1>7. CASE AllEntities(t)
  BY <1>1, <1>7 DEF AllEntities
<1>8. CASE AllEntitiesFail(t)
  <2>1. pc[t] = "entall" /\ UNCHANGED <<phase, reply>>
    BY <1>8 DEF AllEntitiesFail
  <2>2. /\ \A u \in Checks \ {t} : pc'[u] = pc[u] /\ result'[u] = result[u]
        /\ t \in Checks => result'[t] = "error"
    BY <1>8, ThreadsFacts DEF AllEntitiesFail, TypeOK, TypeThreads, TypeRequests
  <2>. QED  BY <2>1, <2>2, StepResultOK
<1>. QED  BY <1>3, <1>4, <1>5, <1>6, <1>7, <1>8 DEF ThreadStep

LEMMA CallResultOK ==
  ASSUME TypeOK, ResultOK, NEW c \in Clients, NEW k \in Kinds, NEW l \in Levels,
         CallClassCached(c, k, l) \/ CallClassMiss(c, k, l)
  PROVE  ResultOK'
<1>1. c \in Threads /\ c \notin Checks
  BY ThreadsFacts
<1>2. UNCHANGED <<reply, result>>
  BY DEF CallClassCached, CallClassMiss
<1>3. \A u \in Checks : pc'[u] = pc[u]
  BY <1>1, ThreadsFacts
  DEF CallClassCached, CallClassMiss, Enqueue, Await, Return, TypeOK, TypeThreads
<1>4. \A q \in Requests : (phase[q] = "checking") <=> (phase'[q] = "checking")
  BY DEF CallClassCached, CallClassMiss, Enqueue, EnsureRequest, TypeOK, TypeRequests
<1>. QED  BY <1>1, <1>2, <1>3, <1>4, StepResultOK

LEMMA SettleResultOK ==
  ASSUME TypeOK, WaiterOK, ResultOK, NEW r \in Requests, NEW outcome,
         Settle(r, outcome), \A k \in Kinds : pc[<<r, k>>] = "idle"
  PROVE  ResultOK'
<1>1. \A q \in Requests \ {r} : phase'[q] = phase[q] /\ reply'[q] = reply[q]
  BY DEF Settle, TypeOK, TypeRequests
<1>2. phase'[r] = "free"
  BY DEF Settle, TypeOK, TypeRequests
<1>3. ASSUME NEW k \in Kinds
      PROVE  pc'[<<r, k>>] = "idle" /\ result'[<<r, k>>] = "none"
  <2>1. <<r, k>> \in Checks /\ <<r, k>> \in Threads
    BY ThreadsFacts
  <2>2. on[<<r, k>>] # r
    BY <2>1 DEF WaiterOK
  <2>. QED  BY <2>1, <2>2 DEF Settle
<1>4. ASSUME NEW q \in Requests \ {r}, NEW k \in Kinds
      PROVE  /\ result'[<<q, k>>] = result[<<q, k>>]
             /\ (pc'[<<q, k>>] = "idle") <=> (pc[<<q, k>>] = "idle")
  <2>1. <<q, k>> \in Checks /\ <<q, k>> \in Threads /\ <<q, k>> \notin Clients
    BY ThreadsFacts
  <2>2. on[<<q, k>>] = r => pc[<<q, k>>] = "entclass"
    BY <2>1 DEF WaiterOK
  <2>. QED  BY <2>1, <2>2 DEF Settle
<1>5. \A k \in Kinds : CheckOK(r, k)'
  BY <1>2, <1>3 DEF CheckOK
<1>6. ASSUME NEW q \in Requests \ {r}, NEW k \in Kinds PROVE CheckOK(q, k)'
  <2>1. /\ phase'[q] = phase[q] /\ reply'[q] = reply[q]
        /\ result'[<<q, k>>] = result[<<q, k>>]
        /\ (pc'[<<q, k>>] = "idle") <=> (pc[<<q, k>>] = "idle")
    BY <1>1, <1>4
  <2>. QED  BY <2>1, SameCheckOK
<1>. QED  BY <1>5, <1>6 DEF ResultOK

LEMMA RequestResultOK ==
  ASSUME TypeOK, WaiterOK, ResultOK, NEW r \in Requests, RequestStep(r)
  PROVE  ResultOK'
<1>1. CASE Send(r)
  <2>1. /\ phase[r] = "queued" /\ phase'[r] = "sent"
        /\ \A q \in Requests \ {r} : phase'[q] = phase[q]
        /\ UNCHANGED <<pc, result, reply>>
    BY <1>1 DEF Send, TypeOK, TypeRequests
  <2>. QED  BY <2>1, SameCheckOK DEF ResultOK
<1>2. ASSUME NEW full \in Extra, Serve(r, full) PROVE ResultOK'
  <2>1. /\ phase[r] = "sent" /\ phase'[r] = "served"
        /\ \A q \in Requests \ {r} : phase'[q] = phase[q] /\ reply'[q] = reply[q]
        /\ UNCHANGED <<pc, result>>
    BY <1>2 DEF Serve, TypeOK, TypeRequests
  <2>2. \A k \in Kinds : pc[<<r, k>>] = "idle" /\ result[<<r, k>>] = "none"
    BY <2>1 DEF ResultOK, CheckOK
  <2>3. \A k \in Kinds : CheckOK(r, k)'
    BY <2>1, <2>2 DEF CheckOK
  <2>4. \A q \in Requests \ {r}, k \in Kinds : CheckOK(q, k)'
    BY <2>1, SameCheckOK
  <2>. QED  BY <2>3, <2>4 DEF ResultOK
<1>3. CASE Deliver(r)
  <2>1. /\ phase[r] = "served" /\ phase'[r] = "checking"
        /\ \A q \in Requests \ {r} : phase'[q] = phase[q]
        /\ UNCHANGED <<reply, result>>
    BY <1>3 DEF Deliver, TypeOK, TypeRequests
  <2>2. \A k \in Kinds : pc[<<r, k>>] = "idle" /\ result[<<r, k>>] = "none"
    BY <2>1 DEF ResultOK, CheckOK
  <2>3. \A k \in Kinds :
          pc'[<<r, k>>] = IF reply[r][k] # "missing" THEN "check" ELSE "idle"
    BY <1>3, <2>2, ThreadsFacts DEF Deliver
  <2>4. \A q \in Requests \ {r}, k \in Kinds : pc'[<<q, k>>] = pc[<<q, k>>]
    BY <1>3, ThreadsFacts DEF Deliver
  <2>5. \A k \in Kinds : CheckOK(r, k)'
    BY <2>1, <2>2, <2>3 DEF CheckOK
  <2>6. ASSUME NEW q \in Requests \ {r}, NEW k \in Kinds PROVE CheckOK(q, k)'
    <3>1. /\ phase'[q] = phase[q] /\ reply'[q] = reply[q]
          /\ result'[<<q, k>>] = result[<<q, k>>]
          /\ pc'[<<q, k>>] = pc[<<q, k>>]
      BY <2>1, <2>4
    <3>. QED  BY <3>1, SameCheckOK
  <2>. QED  BY <2>5, <2>6 DEF ResultOK
<1>4. ASSUME NEW k \in Kinds, CheckPasses(r, k) \/ CheckFails(r, k)
      PROVE  ResultOK'
  <2>1. <<r, k>> \in Checks /\ <<r, k>> \in Threads
    BY ThreadsFacts
  <2>2. /\ pc[<<r, k>>] = "check" /\ UNCHANGED <<phase, reply>>
        /\ result'[<<r, k>>] \in {"error", reply[r][k]}
        /\ \A u \in Checks \ {<<r, k>>} : pc'[u] = pc[u] /\ result'[u] = result[u]
    BY <1>4, <2>1, ThreadsFacts
    DEF CheckPasses, CheckFails, TypeOK, TypeThreads, TypeRequests
  <2>. QED  BY <2>1, <2>2, StepResultOK
<1>5. CASE Finish(r)
  BY <1>5, SettleResultOK DEF Finish
<1>6. CASE RequestFails(r)
  <2>1. \A k \in Kinds : pc[<<r, k>>] = "idle"
    BY <1>6 DEF RequestFails, ResultOK, CheckOK
  <2>. QED  BY <1>6, <2>1, SettleResultOK DEF RequestFails
<1>. QED  BY <1>1, <1>2, <1>3, <1>4, <1>5, <1>6 DEF RequestStep

LEMMA EnvironmentResultOK == ResultOK /\ Environment => ResultOK'
<1> SUFFICES ASSUME ResultOK, Environment PROVE ResultOK'
  OBVIOUS
<1>1. UNCHANGED <<phase, reply, result, pc>>
  BY DEF Environment, InjectClass, RemoveFromCache, ClearCache, Publish, Tick
<1>. QED  BY <1>1, ZenonT(30) DEF ResultOK, CheckOK

-----------------------------------------------------------------------------
(* The inductive invariant and its consequences.                           *)

LEMMA InitIInv == Init => IInv
<1> SUFFICES ASSUME Init PROVE IInv
  OBVIOUS
<1> USE DEF Init
<1>1. TypeCaches
  <2>1. /\ cache \in [Levels -> [Kinds -> [val : ClassValues \cup {"null", "none"},
                                           ttl : Lifetimes]]]
        /\ ent \in [Kinds -> [val : EntityValues \cup {"none"}, ttl : Lifetimes]]
    BY DEF Nothing, NoEntry, Lifetimes
  <2>. QED  BY <2>1 DEF TypeCaches
<1>2. TypeRequests
  <2>1. /\ rlevel \in [Requests -> Levels]
        /\ reply \in [Requests -> [Kinds -> Served]]
        /\ result \in [Checks -> Contents \cup {"none", "error"}]
    BY DEF Nothing, Served
  <2>2. /\ pending \in [Levels -> SUBSET Kinds]
        /\ current \in [Levels -> Requests \cup {NoReq}]
        /\ phase \in [Requests -> {"free", "queued", "sent", "served", "checking"}]
        /\ batch \in [Requests -> SUBSET Kinds]
    OBVIOUS
  <2>. QED  BY <2>1, <2>2 DEF TypeRequests
<1>3. TypeThreads
  BY DEF TypeThreads
<1>4. BatchOK
  BY DEF BatchOK
<1>5. WaiterOK /\ ReplyIsFresh
  BY DEF WaiterOK, ReplyIsFresh
<1>6. ResultOK
  BY ThreadsFacts DEF ResultOK, CheckOK
<1>. QED  BY <1>1, <1>2, <1>3, <1>4, <1>5, <1>6 DEF IInv, TypeOK

\* What a waiting thread looks up is a kind.
LEMMA WaiterKind ==
  ASSUME TypeOK, WaiterOK, NEW t \in Threads, on[t] # NoReq
  PROVE  kind[t] \in Kinds
<1>1. on[t] \in Requests /\ kind[t] \in Asked(on[t])
  BY DEF WaiterOK, TypeOK, TypeThreads
<1>2. \A r \in Requests : Asked(r) \subseteq Kinds
  BY DEF Asked, TypeOK, TypeRequests
<1>. QED  BY <1>1, <1>2

LEMMA NextIInv == IInv /\ [Next]_vars => IInv'
<1> SUFFICES ASSUME IInv, [Next]_vars PROVE IInv'
  OBVIOUS
<1>0. TypeOK /\ BatchOK /\ WaiterOK /\ ReplyIsFresh /\ ResultOK
  BY DEF IInv
<1>1. ASSUME NEW c \in Clients, NEW k \in Kinds, NEW l \in Levels,
             CallClassCached(c, k, l) \/ CallClassMiss(c, k, l)
      PROVE  IInv'
  BY <1>0, <1>1, CallTypeOK, CallWaiterOK, CallFresh, CallResultOK DEF IInv
<1>2. ASSUME NEW t \in Threads, ThreadStep(t) PROVE IInv'
  BY <1>0, <1>2, ThreadTypeOK, ThreadWaiterOK, ThreadFresh, ThreadResultOK DEF IInv
<1>3. ASSUME NEW r \in Requests, RequestStep(r) PROVE IInv'
  <2>1. \A t \in Threads : on[t] # NoReq => kind[t] \in Kinds
    BY <1>0, WaiterKind
  <2>. QED
    BY <1>0, <1>3, <2>1, RequestTypeOK, RequestBatchOK, RequestWaiterOK,
       RequestFresh, RequestResultOK DEF IInv
<1>4. CASE Environment
  BY <1>0, <1>4, EnvironmentTypeOK, EnvironmentWaiterOK, EnvironmentFresh,
     EnvironmentResultOK DEF IInv
<1>5. CASE UNCHANGED vars
  <2>1. TypeOK'
    BY <1>0, <1>5 DEF vars, TypeOK, TypeCaches, TypeRequests, TypeThreads
  <2>2. BatchOK' /\ WaiterOK' /\ ReplyIsFresh'
    BY <1>0, <1>5 DEF vars, BatchOK, WaiterOK, Asked, ReplyIsFresh
  <2>3. ResultOK'
    BY <1>0, <1>5, ZenonT(30) DEF vars, ResultOK, CheckOK
  <2>. QED  BY <2>1, <2>2, <2>3 DEF IInv
<1>. QED  BY <1>1, <1>2, <1>3, <1>4, <1>5 DEF Next

\* The inductive invariant holds in every reachable state, for any number of
\* classes, callers, requests and levels.
THEOREM Invariance == Spec => []IInv
BY InitIInv, NextIInv, PTL DEF Spec

\* Every variable stays within its type.
THEOREM TypeCorrect == Spec => []TypeOK
<1>1. IInv => TypeOK
  BY DEF IInv
<1>. QED  BY <1>1, Invariance, PTL

\* _pendingRequests and _currentRequest (lib/schema.ts:279-337) agree at every
\* level: no pending class is forgotten, no level has two unsent requests.
THEOREM BatchesAgree == Spec => []BatchOK
<1>1. IInv => BatchOK
  BY DEF IInv
<1>. QED  BY <1>1, Invariance, PTL

\* A lookup that awaits a request awaits one that asks for its own class at
\* the level it needs (lib/schema.ts:339-363, 630-643).
THEOREM WaitersAsk == Spec => []WaiterOK
<1>1. IInv => WaiterOK
  BY DEF IInv
<1>. QED  BY <1>1, Invariance, PTL

\* What a reply holds for a waiter is no older than the waiter's lookup.
THEOREM RepliesAreFresh == Spec => []ReplyIsFresh
<1>1. IInv => ReplyIsFresh
  BY DEF IInv
<1>. QED  BY <1>1, Invariance, PTL

\* The ClassMap of a request holds what the checks of its reply found, no
\* less when the last check is over (lib/schema.ts:308-322).
THEOREM ResultsComplete == Spec => []ResultOK
<1>1. IInv => ResultOK
  BY DEF IInv
<1>. QED  BY <1>1, Invariance, PTL

LEMMA StepIsFresh ==
  ASSUME IInv, [Next]_vars, NEW c \in Clients PROVE FreshAnswer(c)
<1> SUFFICES ASSUME pc[c] = "class", pc'[c] = "idle" PROVE FreshAnswer(c)
  BY DEF FreshAnswer
<1>0. TypeOK /\ WaiterOK /\ ReplyIsFresh /\ ResultOK
  BY DEF IInv
<1>1. c \in Threads /\ c \notin Checks
  BY ThreadsFacts
<1>2. ASSUME NEW d \in Clients, NEW k \in Kinds, NEW l \in Levels,
             CallClassCached(d, k, l) \/ CallClassMiss(d, k, l)
      PROVE  FALSE
  <2>1. d \in Threads /\ d # c
    BY <1>2, ThreadsFacts DEF CallClassCached, CallClassMiss
  <2>. QED
    BY <1>0, <1>1, <1>2, <2>1
    DEF CallClassCached, CallClassMiss, Enqueue, Await, Return, TypeOK, TypeThreads
<1>3. ASSUME NEW t \in Threads, ThreadStep(t) PROVE FALSE
  <2>1. pc[t] # "class"
    BY <1>3 DEF ThreadStep, EntityCached, EntityOfCachedClass, EntityOfInvalidClass,
                EntityMiss, AllEntities, AllEntitiesFail, MayAskEntity
  <2>2. pc'[c] = pc[c]
    BY <1>0, <1>1, <1>3, <2>1
    DEF ThreadStep, EntityCached, EntityOfCachedClass, EntityOfInvalidClass,
        EntityMiss, Enqueue, Await, AllEntities, AllEntitiesFail, GotRecord,
        Return, TypeOK, TypeThreads
  <2>. QED  BY <2>2
<1>4. ASSUME NEW r \in Requests,
             \/ Send(r) \/ \E full \in Extra : Serve(r, full) \/ Deliver(r)
             \/ \E k \in Kinds : CheckPasses(r, k) \/ CheckFails(r, k)
      PROVE  FALSE
  <2>1. CASE Send(r) \/ \E full \in Extra : Serve(r, full)
    BY <2>1 DEF Send, Serve
  <2>2. CASE Deliver(r)
    BY <1>0, <1>1, <2>2 DEF Deliver
  <2>3. ASSUME NEW k \in Kinds, CheckPasses(r, k) \/ CheckFails(r, k) PROVE FALSE
    <3>1. <<r, k>> \in Threads /\ <<r, k>> # c
      BY <1>1, ThreadsFacts
    <3>2. pc' = [pc EXCEPT ![<<r, k>>] = "idle"]
      BY <2>3 DEF CheckPasses, CheckFails
    <3>. QED  BY <1>0, <1>1, <3>1, <3>2 DEF TypeOK, TypeThreads
  <2>. QED  BY <1>4, <2>1, <2>2, <2>3
<1>5. ASSUME NEW r \in Requests, NEW outcome, Settle(r, outcome)
      PROVE  on[c] = r /\ ans'[c] = outcome[kind[c]]
  BY <1>0, <1>1, <1>5 DEF Settle, TypeOK, TypeThreads
<1>6. on[c] # NoReq /\ kind[c] \in Kinds
  BY <1>0, <1>1, WaiterKind DEF WaiterOK
<1>7. ASSUME NEW r \in Requests, Finish(r) PROVE FreshAnswer(c)
  <2> DEFINE res == result[<<r, kind[c]>>]
  <2>1. phase[r] = "checking" /\ pc[<<r, kind[c]>>] = "idle"
    BY <1>6, <1>7 DEF Finish
  <2>2. on[c] = r /\ ans'[c] = IF res = "none" THEN "invalid" ELSE res
    BY <1>5, <1>6, <1>7 DEF Finish
  <2>3. reply[r][kind[c]] \in window[c]
    BY <1>0, <1>1, <1>6, <2>1, <2>2 DEF ReplyIsFresh
  <2>4. CheckOK(r, kind[c])
    BY <1>0, <1>6 DEF ResultOK
  <2>5. res \in Contents \cup {"none", "error"}
    BY <1>0, <1>6, ThreadsFacts DEF TypeOK, TypeRequests
  <2>6. CASE res = "none"
    <3>1. "missing" \in window[c]
      BY <2>1, <2>3, <2>4, <2>6 DEF CheckOK
    <3>. QED  BY <2>2, <2>6, <3>1 DEF FreshAnswer
  <2>7. CASE res = "error"
    BY <2>2, <2>7 DEF FreshAnswer
  <2>8. CASE res \in Contents
    <3>1. res = reply[r][kind[c]] /\ res # "invalid" /\ res # "error" /\ res # "none"
      BY <2>4, <2>8 DEF CheckOK
    <3>. QED  BY <2>2, <2>3, <3>1 DEF FreshAnswer
  <2>. QED  BY <2>5, <2>6, <2>7, <2>8
<1>8. ASSUME NEW r \in Requests, RequestFails(r) PROVE FreshAnswer(c)
  <2>1. ans'[c] = "error"
    BY <1>5, <1>6, <1>8 DEF RequestFails, Nothing
  <2>2. events' > events
    BY <1>0, <1>8 DEF RequestFails, TypeOK, TypeCaches
  <2>. QED  BY <2>1, <2>2 DEF FreshAnswer
<1>9. CASE Environment \/ UNCHANGED vars
  BY <1>9
  DEF vars, Environment, InjectClass, RemoveFromCache, ClearCache, Publish, Tick
<1>. QED
  BY <1>2, <1>3, <1>4, <1>7, <1>8, <1>9 DEF Next, RequestStep

\* No call that had to ask Thingpedia gets a stale answer (lib/schema.ts:339).
THEOREM AnswersAreFresh == Spec => AnswerIsFresh
<1>1. IInv /\ [Next]_vars => [\A c \in Clients : FreshAnswer(c)]_vars
  BY StepIsFresh
<1>. QED  BY <1>1, Invariance, PTL DEF Spec, AnswerIsFresh

\* Only settling a request frees it.
LEMMA OnlySettleFrees ==
  ASSUME TypeOK, [Next]_vars, NEW r \in Requests,
         phase[r] = "checking", phase'[r] = "free"
  PROVE  Finish(r)
<1>1. ASSUME NEW c \in Clients, NEW k \in Kinds, NEW l \in Levels,
             CallClassCached(c, k, l) \/ CallClassMiss(c, k, l)
      PROVE  FALSE
  BY <1>1
  DEF CallClassCached, CallClassMiss, Enqueue, EnsureRequest, TypeOK, TypeRequests
<1>2. ASSUME NEW t \in Threads, ThreadStep(t) PROVE FALSE
  <2>1. ASSUME NEW k \in Kinds, EntityMiss(t, k) PROVE FALSE
    BY <2>1 DEF EntityMiss, Enqueue, EnsureRequest, TypeOK, TypeRequests
  <2>2. (\A k \in Kinds : ~EntityMiss(t, k)) => phase' = phase
    BY <1>2 DEF ThreadStep, EntityCached, EntityOfCachedClass, EntityOfInvalidClass,
                AllEntities, AllEntitiesFail
  <2>. QED  BY <2>1, <2>2
<1>3. ASSUME NEW q \in Requests, RequestStep(q) PROVE Finish(r)
  <2>1. q = r \/ phase'[r] = phase[r]
    BY <1>3
    DEF RequestStep, Send, Serve, Deliver, CheckPasses, CheckFails, Finish, RequestFails,
        Settle, TypeOK, TypeRequests
  <2>2. ~Send(r) /\ ~RequestFails(r) /\ ~Deliver(r) /\ \A full \in Extra : ~Serve(r, full)
    BY DEF Send, RequestFails, Deliver, Serve
  <2>3. \A k \in Kinds : ~(CheckPasses(r, k) \/ CheckFails(r, k))
    BY DEF CheckPasses, CheckFails
  <2>. QED  BY <1>3, <2>1, <2>2, <2>3 DEF RequestStep
<1>4. CASE Environment \/ UNCHANGED vars
  BY <1>4
  DEF vars, Environment, InjectClass, RemoveFromCache, ClearCache, Publish, Tick
<1>. QED  BY <1>1, <1>2, <1>3, <1>4 DEF Next

\* Finishing a request does not touch the entries of the classes that passed
\* its check, at the level of the request (lib/schema.ts:308-328): the negative
\* entries are for the other ones.
THEOREM PassedKept == Spec => PassedStaysCached
<1> DEFINE Kept(r, k) == /\ phase[r] = "checking" /\ phase'[r] = "free"
                         /\ result[<<r, k>>] \in Contents
                         => cache'[rlevel[r]][k] = cache[rlevel[r]][k]
<1>1. ASSUME TypeOK, [Next]_vars, NEW r \in Requests, NEW k \in Kinds
      PROVE  Kept(r, k)
  <2> SUFFICES ASSUME phase[r] = "checking", phase'[r] = "free",
                      result[<<r, k>>] \in Contents
               PROVE  cache'[rlevel[r]][k] = cache[rlevel[r]][k]
    OBVIOUS
  <2>1. Finish(r)
    BY <1>1, OnlySettleFrees
  <2>2. rlevel[r] \in Levels
    BY <1>1 DEF TypeOK, TypeRequests
  <2>. QED  BY <2>1, <2>2 DEF Finish
<1>2. TypeOK /\ [Next]_vars => [\A r \in Requests, k \in Kinds : Kept(r, k)]_vars
  BY <1>1
<1>. QED  BY <1>2, TypeCorrect, PTL DEF Spec, PassedStaysCached
=============================================================================
