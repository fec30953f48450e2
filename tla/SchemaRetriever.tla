-------------------------- MODULE SchemaRetriever --------------------------
(***************************************************************************)
(* The class and entity lookups of lib/schema.ts: SchemaRetriever batches  *)
(* the classes wanted in one turn of the event loop into one getSchemas    *)
(* request, caches what comes back (and what does not), and type-checks    *)
(* every class of a reply before handing it out, which may itself look up  *)
(* entity types, hence other classes, through the same retriever.          *)
(*                                                                         *)
(* The program is single threaded; an action is the code between two       *)
(* awaits.  A thread is one asynchronous activity that can wait: a call of *)
(* a client, or the check of one class of one reply (the callback given to *)
(* Promise.all at lib/schema.ts:312).  A request is one call of            *)
(* _makeRequest; its identity stands for the promise it returned and is    *)
(* reused once the promise is settled and its waiters have resumed.        *)
(*                                                                         *)
(* A class is its content: the text Thingpedia serves for it.  Every class *)
(* declares one entity type, so a kind also names that entity type.        *)
(*                                                                         *)
(* Time is the number of clock ticks an entry has left (module Expiry):    *)
(* module Cache models lib/utils/cache.ts with its clock and lazy purge,   *)
(* and implements module ExpiringMap, in which an entry simply disappears  *)
(* when its time is over; that abstraction is the cache used here.         *)
(***************************************************************************)
EXTENDS Expiry, FiniteSets

CONSTANTS
  Kinds,      \* class names
  Contents,   \* the class texts that Thingpedia may serve
  WellTyped,  \* those that pass the type checker
  Clients,    \* concurrent callers of the retriever
  Requests,   \* identities of the promises in flight (a bound)
  Levels,     \* metadata levels in use, a subset of {"basic", "everything"}
  Extra,      \* {FALSE}: replies hold the classes asked for; TRUE: any others
  Deps,       \* Deps[k]: kinds whose entity types the check of k asks for
  NegTTL,     \* ticks a negative entry lives    (10 minutes)
  PosTTL,     \* ticks any other entry lives     (24 hours)
  MaxEvents   \* bound on the steps of the environment

NoReq == "no request"

ASSUME RetrieverAssumption ==
  /\ WellTyped \subseteq Contents
  /\ Levels \subseteq {"basic", "everything"} /\ "everything" \in Levels
  /\ Deps \in [Kinds -> SUBSET Kinds]
  /\ Extra \subseteq BOOLEAN /\ Extra # {}
  /\ NegTTL \in Nat /\ PosTTL \in Nat /\ NegTTL <= PosTTL
  /\ MaxEvents \in Nat
  /\ Contents \cap {"none", "missing", "null", "local", "fallback",
                    "invalid", "error"} = {}
  /\ NoReq \notin Requests
  /\ Clients \cap (Requests \X Kinds) = {}

VARIABLES
  tp,       \* Thingpedia: the content published for each kind
  cache,    \* _classCache, per level and kind
  ent,      \* _entityTypeCache, per kind
  pending,  \* _pendingRequests
  current,  \* _currentRequest
  phase,    \* where each request is
  rlevel,   \* the level a request was made for
  batch,    \* the kinds a request has asked for
  reply,    \* what Thingpedia answered
  result,   \* the ClassMap being filled, per check
  pc,       \* where each thread is
  kind,     \* the kind it is looking up
  on,       \* the request it awaits
  ans,      \* what the last call of a client returned
  todo,     \* entity types the check of a class has still to look up
  window,   \* ghost: contents tp[kind] has had since the thread's lookup
  events    \* environment steps taken

tpVars  == <<tp, events>>
reqVars == <<phase, rlevel, batch, reply, result>>
thrVars == <<pc, kind, on, ans, todo, window>>
vars    == <<tp, cache, ent, pending, current, phase, rlevel, batch, reply,
             result, pc, kind, on, ans, todo, window, events>>

Checks  == Requests \X Kinds
Threads == Clients \cup Checks

Served  == Contents \cup {"missing"}
ClassValues  == Contents \cup {"local"}
EntityValues == ClassValues \cup {"fallback"}
Lifetimes    == {Never} \cup (0 .. PosTTL)

TypeCaches ==
  /\ tp \in [Kinds -> Served]
  /\ cache \in [Levels -> [Kinds -> [val : ClassValues \cup {"null", "none"},
                                     ttl : Lifetimes]]]
  /\ ent \in [Kinds -> [val : EntityValues \cup {"none"}, ttl : Lifetimes]]
  /\ events \in 0 .. MaxEvents

TypeRequests ==
  /\ pending \in [Levels -> SUBSET Kinds]
  /\ current \in [Levels -> Requests \cup {NoReq}]
  /\ phase \in [Requests -> {"free", "queued", "sent", "served", "checking"}]
  /\ rlevel \in [Requests -> Levels]
  /\ batch \in [Requests -> SUBSET Kinds]
  /\ reply \in [Requests -> [Kinds -> Served]]
  /\ result \in [Checks -> Contents \cup {"none", "error"}]

TypeThreads ==
  /\ pc \in [Threads -> {"idle", "class", "check", "entclass", "entall"}]
  /\ kind \in [Threads -> Kinds \cup {"none"}]
  /\ on \in [Threads -> Requests \cup {NoReq}]
  /\ ans \in [Clients -> EntityValues \cup {"none", "invalid", "error"}]
  /\ todo \in [Checks -> SUBSET Kinds]
  /\ window \in [Threads -> SUBSET Served]

TypeOK == TypeCaches /\ TypeRequests /\ TypeThreads

Nothing(x) == [k \in Kinds |-> x]

Init ==
  /\ tp \in [Kinds -> Served]
  /\ cache = [l \in Levels |-> Nothing(NoEntry)]
  /\ ent = Nothing(NoEntry)
  /\ pending = [l \in Levels |-> {}]
  /\ current = [l \in Levels |-> NoReq]
  /\ phase = [r \in Requests |-> "free"]
  /\ rlevel = [r \in Requests |-> "everything"]
  /\ batch = [r \in Requests |-> {}]
  /\ reply = [r \in Requests |-> Nothing("missing")]
  /\ result = [t \in Checks |-> "none"]
  /\ pc = [t \in Threads |-> "idle"]
  /\ kind = [t \in Threads |-> "none"]
  /\ on = [t \in Threads |-> NoReq]
  /\ ans = [c \in Clients |-> "none"]
  /\ todo = [t \in Checks |-> {}]
  /\ window = [t \in Threads |-> {}]
  /\ events = 0

-----------------------------------------------------------------------------
(* Looking up a class: _getClass.                                          *)

Valid(e)    == [val |-> e, ttl |-> PosTTL]
Negative    == [val |-> "null", ttl |-> NegTTL]
Injected    == [val |-> "local", ttl |-> Never]

Hit(l, k)    == cache[l][k].val \in ClassValues
NegHit(l, k) == cache[l][k].val = "null"
Miss(l, k)   == cache[l][k] = NoEntry

\* The thread t goes to sleep on the promise of request r at the await of
\* _getClass.
Await(t, k, r, where) ==
  /\ pc' = [pc EXCEPT ![t] = where]
  /\ kind' = [kind EXCEPT ![t] = k]
  /\ on' = [on EXCEPT ![t] = r]
  /\ window' = [window EXCEPT ![t] = {tp[k]}]

\* The request of level l that has not been sent yet is r: the current one, or
\* a new one if there is none (_ensureRequest).
EnsureRequest(l, r) ==
  \/ /\ current[l] = r
     /\ UNCHANGED <<current, phase, rlevel>>
  \/ /\ current[l] = NoReq
     /\ phase[r] = "free"
     /\ current' = [current EXCEPT ![l] = r]
     /\ phase' = [phase EXCEPT ![r] = "queued"]
     /\ rlevel' = [rlevel EXCEPT ![r] = l]

\* Mutant: the kind is made pending only by the lookup that starts the request.
Enqueue_joinsOnly(t, k, l, where) ==
  /\ Miss(l, k)
  /\ pending' = [pending EXCEPT ![l] = IF current[l] = NoReq THEN {k} ELSE @]
  /\ \E r \in Requests : EnsureRequest(l, r) /\ Await(t, k, r, where)

\* A miss: add the kind to the pending ones and await their request.
Enqueue(t, k, l, where) ==
  /\ Miss(l, k)
  /\ pending' = [pending EXCEPT ![l] = @ \cup {k}]
  /\ \E r \in Requests : EnsureRequest(l, r) /\ Await(t, k, r, where)

Return(c, k, v) ==
  /\ ans' = [ans EXCEPT ![c] = v]
  /\ pc' = [pc EXCEPT ![c] = "idle"]
  /\ kind' = [kind EXCEPT ![c] = "none"]
  /\ on' = [on EXCEPT ![c] = NoReq]
  /\ window' = [window EXCEPT ![c] = {}]

CallClassCached(c, k, l) ==
  /\ pc[c] = "idle"
  /\ \/ Hit(l, k) /\ Return(c, k, cache[l][k].val)
     \/ NegHit(l, k) /\ Return(c, k, "invalid")
  /\ UNCHANGED <<tpVars, cache, ent, pending, current, reqVars, todo>>

CallClassMiss(c, k, l) ==
  /\ pc[c] = "idle"
  /\ Enqueue(c, k, l, "class")
  /\ ans' = [ans EXCEPT ![c] = "none"]
  /\ UNCHANGED <<tpVars, cache, ent, batch, reply, result, todo>>

-----------------------------------------------------------------------------
(* Looking up an entity type: _getEntityTypeRecord.                        *)

\* Mutant: a check that got a made-up record asks for it again.
GotRecord_asksAgain(t, k, v) ==
  IF t \in Clients
  THEN Return(t, k, v) /\ UNCHANGED <<result, todo>>
  ELSE /\ pc' = [pc EXCEPT ![t] = "check"]
       /\ todo' = IF v = "fallback" THEN todo ELSE [todo EXCEPT ![t] = @ \ {k}]
       /\ kind' = [kind EXCEPT ![t] = "none"]
       /\ on' = [on EXCEPT ![t] = NoReq]
       /\ window' = [window EXCEPT ![t] = {}]
       /\ UNCHANGED <<result, ans>>

\* The record of entity type k is v: the call returns to a client, or the
\* check goes on to its next entity type.  A check that got a made-up record
\* does not know the supertypes, and may then fail where it would have passed.
GotRecord(t, k, v) ==
  IF t \in Clients
  THEN Return(t, k, v) /\ UNCHANGED <<result, todo>>
  ELSE /\ \/ /\ pc' = [pc EXCEPT ![t] = "check"]
             /\ todo' = [todo EXCEPT ![t] = @ \ {k}]
             /\ UNCHANGED result
          \/ /\ v = "fallback"
             /\ pc' = [pc EXCEPT ![t] = "idle"]
             /\ todo' = [todo EXCEPT ![t] = {}]
             /\ result' = [result EXCEPT ![t] = "error"]
       /\ kind' = [kind EXCEPT ![t] = "none"]
       /\ on' = [on EXCEPT ![t] = NoReq]
       /\ window' = [window EXCEPT ![t] = {}]
       /\ UNCHANGED ans

MayAskEntity(t, k) ==
  IF t \in Clients THEN pc[t] = "idle"
                   ELSE pc[t] = "check" /\ k \in todo[t]

EntityCached(t, k) ==
  /\ MayAskEntity(t, k)
  /\ ent[k] # NoEntry
  /\ GotRecord(t, k, ent[k].val)
  /\ UNCHANGED <<tpVars, cache, ent, pending, current, phase, rlevel, batch,
                 reply>>

EntityOfCachedClass(t, k) ==
  /\ MayAskEntity(t, k)
  /\ ent[k] = NoEntry
  /\ Hit("everything", k)
  /\ ent' = [ent EXCEPT ![k] = Valid(cache["everything"][k].val)]
  /\ GotRecord(t, k, cache["everything"][k].val)
  /\ UNCHANGED <<tpVars, cache, pending, current, phase, rlevel, batch, reply>>

EntityOfInvalidClass(t, k) ==
  /\ MayAskEntity(t, k)
  /\ ent[k] = NoEntry
  /\ NegHit("everything", k)
  /\ pc' = [pc EXCEPT ![t] = "entall"]
  /\ kind' = [kind EXCEPT ![t] = k]
  /\ UNCHANGED <<tpVars, cache, ent, pending, current, reqVars, on, ans, todo,
                 window>>

EntityMiss(t, k) ==
  /\ MayAskEntity(t, k)
  /\ ent[k] = NoEntry
  /\ Enqueue(t, k, "everything", "entclass")
  /\ UNCHANGED <<tpVars, cache, ent, batch, reply, result, ans, todo>>

\* The list of all entity types arrives: whether the type is listed there or
\* not, a record that does not come from the class is cached.
AllEntities(t) ==
  /\ pc[t] = "entall"
  /\ ent' = [ent EXCEPT ![kind[t]] = Valid("fallback")]
  /\ GotRecord(t, kind[t], "fallback")
  /\ UNCHANGED <<tpVars, cache, pending, current, phase, rlevel, batch, reply>>

\* The entity list cannot be retrieved: the call throws.
AllEntitiesFail(t) ==
  /\ events < MaxEvents /\ events' = events + 1
  /\ pc[t] = "entall"
  /\ pc' = [pc EXCEPT ![t] = "idle"]
  /\ kind' = [kind EXCEPT ![t] = "none"]
  /\ IF t \in Clients
     THEN ans' = [ans EXCEPT ![t] = "error"] /\ UNCHANGED <<result, todo>>
     ELSE /\ todo' = [todo EXCEPT ![t] = {}]
          /\ result' = [result EXCEPT ![t] = "error"]
          /\ UNCHANGED ans
  /\ UNCHANGED <<tp, cache, ent, pending, current, phase, rlevel, batch, reply,
                 on, window>>

-----------------------------------------------------------------------------
(* One request: _makeRequest.                                              *)

\* Mutants: a sent request is still the one that lookups join; the requests of all
\* levels are taken for sent.
Send_keepsCurrent(r) ==
  /\ phase[r] = "queued"
  /\ phase' = [phase EXCEPT ![r] = "sent"]
  /\ batch' = [batch EXCEPT ![r] = pending[rlevel[r]]]
  /\ pending' = [pending EXCEPT ![rlevel[r]] = {}]
  /\ UNCHANGED <<tpVars, cache, ent, current, rlevel, reply, result, thrVars>>

Send_allLevels(r) ==
  /\ phase[r] = "queued"
  /\ phase' = [phase EXCEPT ![r] = "sent"]
  /\ batch' = [batch EXCEPT ![r] = pending[rlevel[r]]]
  /\ pending' = [pending EXCEPT ![rlevel[r]] = {}]
  /\ current' = [l \in Levels |-> NoReq]
  /\ UNCHANGED <<tpVars, cache, ent, rlevel, reply, result, thrVars>>

\* After delay(0): take the pending kinds; later lookups start a new request.
Send(r) ==
  /\ phase[r] = "queued"
  /\ phase' = [phase EXCEPT ![r] = "sent"]
  /\ batch' = [batch EXCEPT ![r] = pending[rlevel[r]]]
  /\ pending' = [pending EXCEPT ![rlevel[r]] = {}]
  /\ current' = [current EXCEPT ![rlevel[r]] = NoReq]
  /\ UNCHANGED <<tpVars, cache, ent, rlevel, reply, result, thrVars>>

\* Thingpedia answers with the classes asked for, or with everything it has
\* (a client that reads a file does).
Serve(r, full) ==
  /\ phase[r] = "sent"
  /\ phase' = [phase EXCEPT ![r] = "served"]
  /\ reply' = [reply EXCEPT ![r] = [k \in Kinds |->
                 IF full \/ k \in batch[r] THEN tp[k] ELSE "missing"]]
  /\ UNCHANGED <<tpVars, cache, ent, pending, current, rlevel, batch, result,
                 thrVars>>

\* The reply is parsed and the check of every class in it starts.
Deliver(r) ==
  LET started == {t \in Checks : t[1] = r /\ reply[r][t[2]] # "missing"}
  IN
  /\ phase[r] = "served"
  /\ phase' = [phase EXCEPT ![r] = "checking"]
  /\ pc' = [t \in Threads |-> IF t \in started THEN "check" ELSE pc[t]]
  /\ todo' = [t \in Checks |-> IF t \in started THEN Deps[t[2]] ELSE todo[t]]
  /\ UNCHANGED <<tpVars, cache, ent, pending, current, rlevel, batch, reply,
                 result, kind, on, ans, window>>

\* A class passes the check: it is cached at the level of the request only.
CheckPasses(r, k) ==
  /\ pc[<<r, k>>] = "check" /\ todo[<<r, k>>] = {}
  /\ reply[r][k] \in WellTyped
  /\ pc' = [pc EXCEPT ![<<r, k>>] = "idle"]
  /\ cache' = [cache EXCEPT ![rlevel[r]][k] = Valid(reply[r][k])]
  /\ result' = [result EXCEPT ![<<r, k>>] = reply[r][k]]
  /\ UNCHANGED <<tpVars, ent, pending, current, phase, rlevel, batch, reply,
                 kind, on, ans, todo, window>>

\* Mutant: a class that fails leaves nothing in the result.
CheckFails_unrecorded(r, k) ==
  /\ pc[<<r, k>>] = "check"
  /\ \/ reply[r][k] \notin WellTyped /\ UNCHANGED events
     \/ events < MaxEvents /\ events' = events + 1
  /\ pc' = [pc EXCEPT ![<<r, k>>] = "idle"]
  /\ todo' = [todo EXCEPT ![<<r, k>>] = {}]
  /\ UNCHANGED <<tp, cache, ent, pending, current, phase, rlevel, batch, reply,
                 result, kind, on, ans, window>>

\* A class fails the check, because it is ill-typed or because getMixins
\* could not be answered.
CheckFails(r, k) ==
  /\ pc[<<r, k>>] = "check"
  /\ \/ reply[r][k] \notin WellTyped /\ UNCHANGED events
     \/ events < MaxEvents /\ events' = events + 1
  /\ pc' = [pc EXCEPT ![<<r, k>>] = "idle"]
  /\ todo' = [todo EXCEPT ![<<r, k>>] = {}]
  /\ result' = [result EXCEPT ![<<r, k>>] = "error"]
  /\ UNCHANGED <<tp, cache, ent, pending, current, phase, rlevel, batch, reply,
                 kind, on, ans, window>>

Waiters(r) == {t \in Threads : on[t] = r}

\* The promise of r is settled and every thread that awaits it resumes:
\* outcome[k] is what the lookup of k gets, a class or a failure.
Settle(r, outcome) ==
  LET got(t) == outcome[kind[t]] \in Contents
      next(t) == IF pc[t] = "class" THEN "idle"
                 ELSE IF ~got(t) THEN "entall"
                 ELSE IF t \in Clients THEN "idle" ELSE "check"
  IN
  /\ phase' = [phase EXCEPT ![r] = "free"]
  /\ batch' = [batch EXCEPT ![r] = {}]
  /\ reply' = [reply EXCEPT ![r] = Nothing("missing")]
  /\ result' = [t \in Checks |-> IF t[1] = r THEN "none" ELSE result[t]]
  /\ rlevel' = [rlevel EXCEPT ![r] = "everything"]
  /\ ent' = [k \in Kinds |->
               IF \E t \in Waiters(r) : pc[t] = "entclass" /\ kind[t] = k /\ got(t)
               THEN Valid(outcome[k]) ELSE ent[k]]
  /\ pc' = [t \in Threads |-> IF on[t] = r THEN next(t) ELSE pc[t]]
  /\ kind' = [t \in Threads |->
                IF on[t] = r /\ next(t) # "entall" THEN "none" ELSE kind[t]]
  /\ on' = [t \in Threads |-> IF on[t] = r THEN NoReq ELSE on[t]]
  /\ window' = [t \in Threads |-> IF on[t] = r THEN {} ELSE window[t]]
  /\ ans' = [c \in Clients |->
               IF on[c] = r /\ next(c) = "idle" THEN outcome[kind[c]] ELSE ans[c]]
  /\ todo' = [t \in Checks |->
                IF on[t] = r /\ got(t) THEN todo[t] \ {kind[t]} ELSE todo[t]]

\* Mutant: every kind asked for gets a negative entry.
Finish_negatesAll(r) ==
  /\ phase[r] = "checking"
  /\ \A k \in Kinds : pc[<<r, k>>] = "idle"
  /\ cache' = [l \in Levels |-> [k \in Kinds |->
                 IF k \in batch[r] THEN Negative ELSE cache[l][k]]]
  /\ Settle(r, [k \in Kinds |->
                  IF result[<<r, k>>] = "none" THEN "invalid" ELSE result[<<r, k>>]])
  /\ UNCHANGED <<tpVars, pending, current>>

\* All checks are over: what was asked for and did not pass becomes a negative
\* entry at both levels.
Finish(r) ==
  LET missing == {k \in batch[r] : result[<<r, k>>] \notin Contents}
  IN
  /\ phase[r] = "checking"
  /\ \A k \in Kinds : pc[<<r, k>>] = "idle"
  /\ cache' = [l \in Levels |-> [k \in Kinds |->
                 IF k \in missing THEN Negative ELSE cache[l][k]]]
  /\ Settle(r, [k \in Kinds |->
                  IF result[<<r, k>>] = "none" THEN "invalid" ELSE result[<<r, k>>]])
  /\ UNCHANGED <<tpVars, pending, current>>

\* Mutant: a failure of the request is taken for an empty reply.
RequestFails_asMissing(r) ==
  /\ events < MaxEvents /\ events' = events + 1
  /\ phase[r] \in {"sent", "served"}
  /\ Settle(r, Nothing("invalid"))
  /\ UNCHANGED <<tp, cache, pending, current>>

\* getSchemas rejects, or its reply cannot be parsed: nothing is cached.
RequestFails(r) ==
  /\ events < MaxEvents /\ events' = events + 1
  /\ phase[r] \in {"sent", "served"}
  /\ Settle(r, Nothing("error"))
  /\ UNCHANGED <<tp, cache, pending, current>>

-----------------------------------------------------------------------------
(* Operations of the embedding program, and the environment.               *)

Event == events < MaxEvents /\ events' = events + 1

InjectClass(k) ==
  /\ Event
  /\ cache' = [l \in Levels |-> [cache[l] EXCEPT ![k] = Injected]]
  /\ UNCHANGED <<tp, ent, pending, current, reqVars, thrVars>>

RemoveFromCache(k) ==
  /\ Event
  /\ cache' = [l \in Levels |-> [cache[l] EXCEPT ![k] = NoEntry]]
  /\ UNCHANGED <<tp, ent, pending, current, reqVars, thrVars>>

ClearCache ==
  /\ Event
  /\ cache' = [l \in Levels |-> Nothing(NoEntry)]
  /\ UNCHANGED <<tp, ent, pending, current, reqVars, thrVars>>

\* Thingpedia replaces or withdraws a class.
Publish(k, v) ==
  /\ Event
  /\ tp[k] # v
  /\ tp' = [tp EXCEPT ![k] = v]
  /\ window' = [t \in Threads |-> IF on[t] # NoReq /\ kind[t] = k
                                  THEN window[t] \cup {v} ELSE window[t]]
  /\ UNCHANGED <<cache, ent, pending, current, reqVars, pc, kind, on, ans, todo>>

Tick ==
  /\ Event
  /\ cache' = [l \in Levels |-> [k \in Kinds |-> Older(cache[l][k])]]
  /\ ent' = [k \in Kinds |-> Older(ent[k])]
  /\ UNCHANGED <<tp, pending, current, reqVars, thrVars>>

-----------------------------------------------------------------------------
ThreadStep(t) ==
  \/ \E k \in Kinds : \/ EntityCached(t, k)
                      \/ EntityOfCachedClass(t, k)
                      \/ EntityOfInvalidClass(t, k)
                      \/ EntityMiss(t, k)
  \/ AllEntities(t)
  \/ AllEntitiesFail(t)

RequestStep(r) ==
  \/ Send(r)
  \/ \E full \in Extra : Serve(r, full)
  \/ Deliver(r)
  \/ \E k \in Kinds : CheckPasses(r, k) \/ CheckFails(r, k)
  \/ Finish(r)
  \/ RequestFails(r)

Environment ==
  \/ \E k \in Kinds : InjectClass(k) \/ RemoveFromCache(k)
  \/ ClearCache
  \/ \E k \in Kinds, v \in Served : Publish(k, v)
  \/ Tick

Next ==
  \/ \E c \in Clients, k \in Kinds, l \in Levels :
       CallClassCached(c, k, l) \/ CallClassMiss(c, k, l)
  \/ \E t \in Threads : ThreadStep(t)
  \/ \E r \in Requests : RequestStep(r)
  \/ Environment

\* The event loop runs every ready continuation, and every call of the
\* Thingpedia client is answered: the steps of a request and of the check of a
\* class are fair.  Nothing obliges a client to call or the environment to act.
Fairness ==
  /\ \A r \in Requests : WF_vars(RequestStep(r))
  /\ \A t \in Checks : WF_vars(ThreadStep(t))
  /\ \A c \in Clients : WF_vars(AllEntities(c))

Spec == Init /\ [][Next]_vars /\ Fairness

-----------------------------------------------------------------------------
(* Correctness.                                                            *)

\* The bookkeeping of a batch (_pendingRequests, _currentRequest): at each
\* level there is a request that has not been sent exactly when some kind is
\* pending, and it is unique.  If it broke, a pending kind would never be
\* asked for, or a level would send two requests for one turn of the loop.
BatchOK ==
  /\ \A l \in Levels : (pending[l] = {}) <=> (current[l] = NoReq)
  /\ \A l \in Levels : current[l] # NoReq =>
       phase[current[l]] = "queued" /\ rlevel[current[l]] = l
  /\ \A r \in Requests : phase[r] = "queued" => current[rlevel[r]] = r

\* The kinds request r asks for, or is going to ask for.
Asked(r) == IF phase[r] = "queued" THEN pending[rlevel[r]] ELSE batch[r]

\* A thread that awaits a request awaits one that asks for its kind, at the
\* level it needs: the ClassMap it will index (lib/schema.ts:354) is the answer
\* to its own question, although the await reads _currentRequest and not a
\* promise of its own.
WaiterOK ==
  \A t \in Threads :
    /\ pc[t] \in {"class", "entclass"} <=> on[t] # NoReq
    /\ on[t] # NoReq => /\ phase[on[t]] # "free"
                        /\ kind[t] \in Asked(on[t])
    /\ pc[t] = "entclass" => rlevel[on[t]] = "everything"
    /\ pc[t] = "class" => t \in Clients

\* A reply that has arrived says, of the kind each waiter wants, what
\* Thingpedia held at some moment after the waiter asked.
ReplyIsFresh ==
  \A t \in Threads :
    on[t] # NoReq =>
      /\ tp[kind[t]] \in window[t]
      /\ phase[on[t]] \in {"served", "checking"} =>
           reply[on[t]][kind[t]] \in window[t]

\* Checks run, and the ClassMap is filled, only for the classes of a reply that
\* has been parsed; what a check puts there is the class it was given, or its
\* failure, and it is there when the check is over.
CheckOK(r, k) ==
  LET t == <<r, k>> IN
  /\ pc[t] # "idle" \/ result[t] # "none" =>
       phase[r] = "checking" /\ reply[r][k] # "missing"
  /\ result[t] \in {"none", "error", reply[r][k]}
  /\ phase[r] = "checking" /\ pc[t] = "idle" /\ result[t] = "none" =>
       reply[r][k] = "missing"

\* When the checks of a reply are over, the outcome of every class in it is
\* recorded, so that each of the waiters gets that of its own class, also if
\* others have failed.
ResultOK == \A r \in Requests, k \in Kinds : CheckOK(r, k)

\* The inductive invariant behind AnswerIsFresh: each conjunct needs the ones
\* before it.
IInv == TypeOK /\ BatchOK /\ WaiterOK /\ ReplyIsFresh /\ ResultOK

\* A call that was not answered from the cache never gets a stale answer,
\* whatever requests were in flight when it was made: the class it returns was
\* the one in Thingpedia at some moment since the call, it says that there is
\* no such class only if there was none at such a moment, and it fails only
\* if the request failed or the class it asked for did not pass the check.
FreshAnswer(c) ==
  pc[c] = "class" /\ pc'[c] = "idle" =>
    CASE ans'[c] = "invalid" -> "missing" \in window[c]
      [] ans'[c] = "error"   -> \/ events' > events
                                \/ result[<<on[c], kind[c]>>] = "error"
      [] OTHER               -> ans'[c] \in window[c]

AnswerIsFresh == [][\A c \in Clients : FreshAnswer(c)]_vars

\* Finishing a request leaves alone, at the level of the request, every class
\* that passed the check: the negative entries are for the others.
PassedStaysCached ==
  [][\A r \in Requests, k \in Kinds :
       /\ phase[r] = "checking" /\ phase'[r] = "free"
       /\ result[<<r, k>>] \in Contents
       => cache'[rlevel[r]][k] = cache[rlevel[r]][k]]_vars

\* Every call is eventually answered, whether the answer comes from a cache,
\* from Thingpedia or from the failure of a request.
Answered == \A c \in Clients : pc[c] # "idle" ~> pc[c] = "idle"

-----------------------------------------------------------------------------
(* What a comment of lib/schema.ts says and the code does not do.          *)

=============================================================================
