------------------------------- MODULE TypeChecks ------------------------------
(* The type checks of operators that one TypeChecker runs at the same time: the *)
(* operands of "and", "or" and of a computation are checked by Promise.all. The *)
(* checks share the part of the entity hierarchy that they have loaded, one     *)
(* request per entity, and the lists of ancestors computed from it. One step is *)
(* what a check does between two awaits (lib/typecheck.ts).                     *)
EXTENDS Types, FiniteSets

CONSTANTS
    Jobs,          \* what is checked: for each check, a use of an operator
    Parents,       \* the hierarchy of Thingpedia: entity -> its parents
    MaxFailures    \* bound: requests that fail

VARIABLES
    job,                      \* for each check, the use of an operator that it checks
    check,                    \* for each check, where it is
    entitySubTypeMap,         \* entities whose parents are loaded
    cachedEntityAncestors,    \* entities whose ancestors were computed
    answered,                 \* what the schema retriever has in its cache
    failures                  \* requests that failed so far

shared == << entitySubTypeMap, cachedEntityAncestors, answered, failures >>
vars == << job, check, shared >>

Checks == DOMAIN job

\* A use of an operator [in, op, args], and the operator's overloads for this
\* number of arguments, in their order.
Operators(in) ==
    CASE in = "filter" -> BinaryOps
      [] in = "value" -> ScalarExpressionOps
      [] in = "aggregation" -> Aggregations
OverloadsFor(in, op, n) == SelectSeq(Operators(in)[op], LAMBDA types : Len(types) = n + 1)
Overloads(j) == OverloadsFor(j.in, j.op, Len(j.args))

\* Types of values; types in the signature of an operator.
IsValueType(type) ==
    /\ IsType(type)
    /\ \A part \in PartsOf(type) :
          ~IsA(part, "Var") /\ (IsA(part, "Entity") => part[2] \in DOMAIN Parents)
IsSignatureType(type) ==
    /\ IsType(type)
    /\ \A part \in PartsOf(type) :
          /\ IsA(part, "Var") => part[2] \in {"a", "x"}
          /\ IsA(part, "Entity") => part[2] \in DOMAIN Parents \union {""}

AreOverloads(overloads, n) ==
    /\ Len(overloads) \in Nat /\ overloads = [o \in 1 .. Len(overloads) |-> overloads[o]]
    /\ \A o \in DOMAIN overloads : \A k \in 1 .. n : IsSignatureType(overloads[o][k])

IsUse(j) ==
    /\ j.in \in {"filter", "value", "aggregation"} /\ j.op \in DOMAIN Operators(j.in)
    /\ Len(j.args) \in 1 .. 2 /\ DOMAIN j.args = 1 .. Len(j.args)
    /\ \A n \in DOMAIN j.args : IsValueType(j.args[n])

\* No entity is above itself, and none is named like a type variable: their names
\* have a prefix. Thingpedia agrees with DEFAULT_ENTITY_SUB_TYPE.
ASSUME HierarchyAssumption ==
    /\ \A e \in DOMAIN Parents : Parents[e] \in Seq(DOMAIN Parents)
    /\ IsFiniteSet(DOMAIN Parents)
    /\ \E level \in [DOMAIN Parents -> 0 .. Cardinality(DOMAIN Parents)] :
          \A e \in DOMAIN Parents : \A p \in ToSet(Parents[e]) : level[p] < level[e]
    /\ DOMAIN Parents \intersect {"", "a", "x", "_unit", "_entity"} = {}
    /\ "tt:picture" \in DOMAIN Parents => "tt:url" \in ToSet(Parents["tt:picture"])

\* The entities that operators and arguments name are in the hierarchy.
ASSUME OperatorsAssumption ==
    \A in \in {"filter", "value", "aggregation"} : \A op \in DOMAIN Operators(in) : \A n \in 1 .. 2 :
        AreOverloads(OverloadsFor(in, op, n), n)
ASSUME JobsAssumption == \A uses \in Jobs : \A c \in DOMAIN uses : IsUse(uses[c])

--------------------------------------------------------------------------------
(* Where a check is: at argument arg of an overload, whose variables are bound  *)
(* by scope; alts are the scopes it still tries, the first one scope itself if  *)
(* own. todo are the entities to be loaded first; asking, that the parents of   *)
(* the first one are being requested.                                           *)

\* _ensureEntitySubTypes() of the first entity returns if it is loaded.
Asks(todo, loaded) == todo # << >> /\ Head(todo) \notin loaded

\* Before _isAssignable() decides, it loads what its two types name.
EntityIn(type) == IF IsA(type, "Entity") /\ type[2] # "" THEN << type[2] >> ELSE << >>

Trying(j, overload, arg, scope, alts, own) ==
    LET todo == EntityIn(j.args[arg]) \o EntityIn(Overloads(j)[overload][arg])
    IN [state |-> "running", overload |-> overload, arg |-> arg, scope |-> scope, alts |-> alts,
        own |-> own, todo |-> todo, asking |-> Asks(todo, DOMAIN entitySubTypeMap)]
Ended(state, types) == [state |-> state, types |-> types, todo |-> << >>]

\* _getEntityAncestors(): the list, computed from what is loaded now, and the
\* entities on the way whose lists are cached with it.
Ancestors ==
    LET below(e) == IF e \in DOMAIN entitySubTypeMap THEN entitySubTypeMap[e] ELSE << >>
        list[e \in DOMAIN Parents] ==
            IF e \in DOMAIN cachedEntityAncestors THEN cachedEntityAncestors[e]
            ELSE FlattenSeq([n \in DOMAIN below(e) |-> << below(e)[n] >> \o list[below(e)[n]]])
    IN list
Computed ==
    LET computed[e \in DOMAIN Parents] ==
            IF e \in DOMAIN cachedEntityAncestors THEN {}
            ELSE {e} \union UNION {computed[p] :
                     p \in IF e \in DOMAIN entitySubTypeMap THEN ToSet(entitySubTypeMap[e]) ELSE {}}
    IN computed

\* The entity that a variable of the signature is bound to, as a sequence.
BoundEntity(want, scope) ==
    IF IsA(want, "Var") /\ want[2] \in DOMAIN scope /\ IsA(scope[want[2]], "Entity")
    THEN << scope[want[2]][2] >> ELSE << >>

\* The ancestors of the entity are not tried.
Expanded_none(want, scope, ancestors) == << scope >>

\* _expandTypeScope(): the scope, then one for each ancestor of the entity that
\* the variable is bound to. It binds the variable to the ancestor's name where
\* a type should be, so that in these scopes the variable is a free one.
Expanded(want, scope, ancestors) ==
    << scope >> \o
    (IF BoundEntity(want, scope) = << >> THEN << >>
     ELSE LET above == ancestors[BoundEntity(want, scope)[1]]
          IN [n \in DOMAIN above |-> Bind(scope, want[2], Var(above[n]))])

\* Going to an argument of an overload.
AtArgument(c, overload, arg, scope) ==
    LET want == Overloads(job[c])[overload][arg]
        bound == BoundEntity(want, scope)
    IN /\ check' = [check EXCEPT ![c] =
                       Trying(job[c], overload, arg, scope, Expanded(want, scope, Ancestors), TRUE)]
       /\ cachedEntityAncestors' =
             [e \in DOMAIN cachedEntityAncestors \union UNION {Computed[b] : b \in ToSet(bound)} |->
                 Ancestors[e]]

\* A check that finds no overload begins again.
AtOverload_again(c, overload) ==
    IF overload <= Len(Overloads(job[c])) THEN AtArgument(c, overload, 1, Unbound)
    ELSE AtArgument(c, 1, 1, Unbound)

AtOverload(c, overload) ==
    IF overload <= Len(Overloads(job[c])) THEN AtArgument(c, overload, 1, Unbound)
    ELSE /\ check' = [check EXCEPT ![c] = Ended("rejected", << >>)]
         /\ UNCHANGED cachedEntityAncestors

\* The types of an overload, its variables replaced.
ResolvedTypes(types, scope) ==
    LET resolved == [n \in DOMAIN types |-> Resolve(types[n], scope)]
    IN IF IsA(Last(resolved), "Measure") /\ "_unit" \in DOMAIN scope
       THEN Append(Front(resolved), Measure(scope["_unit"])) ELSE resolved

--------------------------------------------------------------------------------

\* _resolveOverload() is called for each of the uses.
Started(uses) ==
    [c \in DOMAIN uses |->
        IF Overloads(uses[c]) = << >> THEN Ended("rejected", << >>)
        ELSE Trying(uses[c], 1, 1, Unbound, << Unbound >>, TRUE)]

Init ==
    /\ job \in Jobs
    /\ entitySubTypeMap = << >> /\ cachedEntityAncestors = << >>
    /\ answered = << >> /\ failures = 0
    /\ check = Started(job)

\* getEntityParents() answers: what its cache has; else what Thingpedia says, or
\* nothing, kept like an answer, if the request for the class failed.
Answers(e) == IF e \in DOMAIN answered THEN {answered[e]} ELSE {Parents[e], << >>}

\* Only the entity itself is loaded, not what is above it.
Loaded_shallow(c) ==
    /\ check[c].todo # << >> /\ check[c].asking
    /\ LET e == Head(check[c].todo)
       IN \E parents \in Answers(e) :
             /\ failures' = IF parents # Parents[e] /\ e \notin DOMAIN answered THEN failures + 1 ELSE failures
             /\ failures' <= MaxFailures
             /\ answered' = Bind(answered, e, parents)
             /\ entitySubTypeMap' = Bind(entitySubTypeMap, e, parents)
             /\ check' = [check EXCEPT ![c].todo = Tail(@),
                                       ![c].asking = Asks(Tail(check[c].todo), DOMAIN entitySubTypeMap')]
             /\ UNCHANGED << job, cachedEntityAncestors >>

Loaded(c) ==
    /\ check[c].todo # << >> /\ check[c].asking
    /\ LET e == Head(check[c].todo)
       IN \E parents \in Answers(e) :
             /\ failures' = IF parents # Parents[e] /\ e \notin DOMAIN answered THEN failures + 1 ELSE failures
             /\ failures' <= MaxFailures
             /\ answered' = Bind(answered, e, parents)
             /\ entitySubTypeMap' = Bind(entitySubTypeMap, e, parents)
             /\ LET todo == parents \o Tail(check[c].todo)
                IN check' = [check EXCEPT ![c].todo = todo,
                                          ![c].asking = Asks(todo, DOMAIN entitySubTypeMap \union {e})]
             /\ UNCHANGED << job, cachedEntityAncestors >>

\* The entity was loaded already, or another check has begun to load it.
NothingToLoad(c) ==
    /\ check[c].todo # << >> /\ ~check[c].asking
    /\ check' = [check EXCEPT ![c].todo = Tail(@),
                              ![c].asking = Asks(Tail(check[c].todo), DOMAIN entitySubTypeMap)]
    /\ UNCHANGED << job, shared >>

\* Type.isAssignable() decides on one argument.
Decision(c, parents) ==
    IsAssignable(job[c].args[check[c].arg], Overloads(job[c])[check[c].overload][check[c].arg],
                 Head(check[c].alts), parents)

Decide(c) ==
    LET at == check[c]
        decision == Decision(c, entitySubTypeMap)
        scope == IF at.own THEN decision.scope ELSE at.scope
        types == Overloads(job[c])[at.overload]
    IN /\ at.state = "running" /\ at.todo = << >>
       /\ \/ /\ decision.ok /\ at.arg < Len(job[c].args)
             /\ AtArgument(c, at.overload, at.arg + 1, scope)
          \/ /\ decision.ok /\ at.arg = Len(job[c].args)
             /\ check' = [check EXCEPT ![c] =
                    Ended("accepted", ResolvedTypes(types, scope))]
             /\ UNCHANGED cachedEntityAncestors
          \/ /\ ~decision.ok /\ Len(at.alts) > 1
             /\ check' = [check EXCEPT ![c] =
                    Trying(job[c], at.overload, at.arg, scope, Tail(at.alts), FALSE)]
             /\ UNCHANGED cachedEntityAncestors
          \/ /\ ~decision.ok /\ Len(at.alts) = 1
             /\ AtOverload(c, at.overload + 1)
       /\ UNCHANGED << job, entitySubTypeMap, answered, failures >>

Step(c) == Loaded(c) \/ NothingToLoad(c) \/ Decide(c)
Next == \E c \in Checks : Step(c)

\* The promises of a request and of a check are settled.
Spec == Init /\ [][Next]_vars /\ WF_vars(Next)

--------------------------------------------------------------------------------
(* Properties.                                                                  *)

\* What a use should be judged by: the arguments in turn, against the whole
\* hierarchy. What follows an entity that extends another may be anything, since
\* _expandTypeScope() frees the variable.
ScopesAfter(arg, want, scope) ==
    LET decision == IsAssignable(arg, want, scope, Parents)
        bound == BoundEntity(want, scope)
    IN {decision.scope : ok \in {decision.ok} \intersect {TRUE}}
       \union {scope : e \in {e \in ToSet(bound) : Parents[e] # << >>}}

\* The scopes with which the first n arguments fit an overload.
After(j, overload) ==
    LET after[n \in 0 .. Len(j.args)] ==
            IF n = 0 THEN {Unbound}
            ELSE UNION {ScopesAfter(j.args[n], Overloads(j)[overload][n], scope) : scope \in after[n - 1]}
    IN after
Fits(j) == \E o \in DOMAIN Overloads(j) : After(j, o)[Len(j.args)] # {}

\* The entities that are elements of an array are never loaded.
NamesElements(j) ==
    \E n \in DOMAIN j.args : \E part \in PartsOf(j.args[n]) \ {j.args[n]} : IsA(part, "Entity")

\* An entity that extends others is not known for one that extends none. A check
\* that meets an entity while others load what is above it may leave such a list
\* of ancestors to the checks that come later.
AncestorsKnown ==
    \A e \in DOMAIN cachedEntityAncestors \intersect DOMAIN Parents :
        cachedEntityAncestors[e] = << >> => Parents[e] = << >>

\* Whatever part of the hierarchy was loaded when a check decided, and whatever
\* other checks and failures did meanwhile, it accepts no use that the whole
\* hierarchy does not justify; alone, without failures, with lists of ancestors
\* that earlier checks have not cut short, and if all entities are loaded, it
\* accepts every use that the hierarchy justifies, although it stops at the first
\* argument it cannot place (_resolveOverload(), isAssignable()).
VerdictIsRight ==
    \A c \in Checks :
        /\ check[c].state = "accepted" => Fits(job[c])
        /\ (/\ check[c].state = "rejected"
            /\ Checks = {c} /\ failures = 0 /\ AncestorsKnown
            /\ ~NamesElements(job[c])) => ~Fits(job[c])

\* A check that is about to decide against what the whole hierarchy says does so
\* because another check is loading an entity and has not got to its parents:
\* _ensureEntitySubTypes() takes an entity for loaded once its own parents are
\* known. Otherwise a request has failed, or the entity is an array's element.
OnlyLoadingMisleads ==
    \A c \in Checks :
        (/\ check[c].state = "running" /\ check[c].todo = << >>
         /\ Decision(c, entitySubTypeMap).ok # Decision(c, Parents).ok)
        => \/ \E d \in Checks \ {c} : check[d].todo # << >>
           \/ failures > 0
           \/ NamesElements(job[c])

\* Every check ends, through failed requests and with any others beside it.
ChecksEnd == []<>(\A c \in Checks : check[c].state # "running")

================================================================================
