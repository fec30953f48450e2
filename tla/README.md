# A specification of ThingTalk

ThingTalk is a rule language for virtual assistants. The repository holds its
grammar, type checker, optimizer, compiler (ThingTalk to JavaScript), the part of
the runtime that compiled programs call, the client-side view of Thingpedia (the
repository of device classes) and libraries over the syntax trees. This directory
specifies the parts that keep state or compute something hard to get right, checks
them with TLC on small instances and proves the most important results with TLAPS.

## 1. Inventory

| component | state it keeps | operations | talks to |
|---|---|---|---|
| schema retriever (`lib/schema.ts`) | caches of classes (two levels), entity types, datasets and manifests; the kinds pending and the current request of each level | `getFullMeta`, `getSchemaAndNames`, `getEntityParents`, `getExamplesByKind`, `getFormatMetadata`, `injectClass`, `removeFromCache`, `clearCache` | Thingpedia client (promises), parser, type checker, which calls it back |
| expiring cache (`lib/utils/cache.ts`) | a Map of values with expiration times | `get`, `set`, `has`, `delete`, `clear`, iteration | the clock |
| type checker (`lib/typecheck.ts`), types and operators (`lib/type.ts`, `lib/operators.ts`), signatures (`lib/ast/function_def.ts`) | the entity hierarchy loaded so far and the ancestors computed from it; per expression one scope of names and a signature for each operator | `typeCheckProgram`, `typeCheckClass`, `_isAssignable`, `_resolveOverload`, `_typeCheckExpression` | schema retriever |
| optimizer (`lib/optimize.ts`) | none (rewrites of filters and queries) | `optimizeFilter`, `optimizeExpression`, `optimizeProgram` | syntax trees |
| compiler (`lib/compiler`) | scopes, registers, stack of blocks, state identifiers | AST to operators, operators to IR, IR to JavaScript | type checker, runtime |
| runtime streams (`lib/runtime/stream_table_ops.ts`) | monitor state, queues of merged streams | `isNewTuple`, `addTuple`, `streamUnion`, joins, `invokeStreamVarRef` | compiled rules |
| compiled rules (generated by `lib/compiler/ops-to-jsir.ts`) | stored state of each edge operation, in `readState`/`writeState` | the loop of a rule | engine (`exec_environment.ts`) |
| procedures (`lib/runtime/exec_environment.ts`) | stack of call frames | `enterProcedure`, `exitProcedure` | compiled procedures, `DeclaredProcedures` |
| runtime values (`lib/runtime/*_ops.ts`, `values.ts`, `utils/date_utils.ts`) | none | comparisons, aggregation, sort, index, slice, date arithmetic | compiled rules |
| parser (`tools/generate-parser`, `lib/utils/sr_parser_runtime.ts`, lexers) | the tables; the stack of a parse | SLR construction; shift and reduce | grammars |
| entity retriever and neural syntax (`lib/entity-retriever.ts`, `lib/new-syntax/nn-*`, `lib/nn-syntax`) | tokens used, entities allocated | `findEntity` | serializer of programs |
| permission checker (`lib/permission_checker.ts`) | the permission database, SMT reductions | `allowed`, `disallowed`, `check` | an SMT solver (external) |
| syntax trees (`lib/ast`), printers, list library | objects that several trees may share | `clone`, `equals`, `visit`, `iterateSlots`, `iterateSlots2`, `toProgram`, `toSource` | everybody |

What is hard about it: everything in the retriever is asynchronous and shares
promises, so the order of continuations matters, requests may fail, and caches may
hold what has just become wrong; the operands of a filter are checked at once and share
what they load; a syntax tree is edited in place while its clones live on; a monitor must survive restarts between any two of
its writes; streams are merged from concurrent producers; the parser tables, the
optimizer and the compiler must agree with a semantics that is nowhere written down.
What makes each component correct:

- *retriever*: each caller gets the answer to its own question, as fresh as its
  call, once, and always gets one; failures are not mistaken for facts;
- *cache*: no client can tell that expired entries are deleted lazily;
- *monitor*: an action runs once for each value that a round of polling adds;
- *streams, procedures*: nothing is lost, repeated or attributed to another call;
- *type checker, optimizer, compiler, parser*: the result of an algorithm is
  the one its definition says, for every input and in every order of replies;
- *syntax trees*: the methods that each of some hundred classes writes by hand agree
  with each other on every field.

The full list of hazards, each at its line and with the properties that are about
it, is `hazards` in `PROJECT.json`.

## 2. Modules and plan

Written so far (section 3 describes each; `A <- B` reads "B is built on A"):

    Expiry    <- SchemaRetriever <- MCSchemaRetriever, SchemaRetrieverProofs
    Expiry    <- ExpiringMap
    Expiry    <- Cache (implements ExpiringMap) <- MCCache, CacheProofs
    EdgeState <- MonitorRule (implements RoundDelta) <- MonitorProofs
    EdgeState <- EdgeStateProofs <- MonitorProofs
    EdgeState <- StreamUnion <- StreamUnionProofs
    Procedures <- ProceduresProofs
    Filters   <- Queries <- Optimizer <- QueryPlan <- MCQueryPlan
    Types     <- TypeChecks
    TypeChecks, FunctionDefs <- ExpressionTyping <- MCTypeChecks, ExpressionTypingProofs
    NodeClasses <- ValueClasses, ExpressionClasses, ProgramClasses, LegacyClasses
    ValueClasses, ExpressionClasses, ProgramClasses, LegacyClasses <- SyntaxTrees <- MCSyntaxTrees
    ShiftReduce <- ShiftReduceProofs
    (ShiftReduceProofs and ExpressionTypingProofs cite LeastExists and MaxExists of EdgeStateProofs)
    SlrGenerator, Derivations, ShiftReduce <- MCShiftReduce

Plan, in this order:

1. `MonitorPlan`: how monitors of filters, projections and aggregates are compiled
   (`compileMonitorTableToOps`, `optimizeStreamOp`), composed with `EdgeState`: what
   the timestamps become on their way through a projection or an aggregation.
2. `Datasets`, `Manifests`: the other lookups of the retriever, which drop examples
   and keep rejected promises.
3. `CodeBlocks`: the stack of blocks and the registers of `lib/compiler/jsir.ts`, under
   the scopes that `QueryPlan` has.
4. `Permissions`: relevance and partial evaluation of permission rules over an
   abstract solver (`lib/permission_checker.ts`).
5. `EntityRetriever`: allocation of entities to tokens, with the serializer of
   `lib/new-syntax`.
6. `DialogueStates`: the pointers of `DialogueState` to its current and next item.
7. The printing of expressions, its priorities and parentheses, against the parser.

Abstract specifications worth stating: `ExpiringMap` (the cache), `RoundDelta` (a
monitor), the meaning of queries (`Queries`, for compiler and optimizer), derivation
trees (`Derivations`, for the parser), a set of permitted runs (for the permission checker).

Theorems planned: safety of `Datasets`; that an edit of a syntax tree stays in it, for any
classes and any number of trees; that `SimplifiedAtom` of `Filters` keeps what an atom
means.

## 3. What is modelled

### SchemaRetriever (`lib/schema.ts`)

The program is single threaded, so an action is the code between two awaits. A
*thread* is whatever can wait: a caller, or the check of one class of one reply (the
callback of `Promise.all`). A *request* is a call of `_makeRequest` and stands for
the promise it returns.

| code | model |
|---|---|
| `_classCache.basic/everything` | `cache[level][kind]`, with `"null"` for a negative entry |
| `_entityTypeCache` | `ent[kind]`: from which class the record came, or `"fallback"` |
| `_pendingRequests`, `_currentRequest` | `pending[level]`, `current[level]` |
| local variables of `_makeRequest` | `phase`, `rlevel`, `batch`, `reply`, `result` |
| local variables of `_getClass`, `_getEntityTypeRecord` and `typeCheckClass` | `pc`, `kind`, `on`, `todo` of a thread |
| `_getClass` | `CallClassCached`, `CallClassMiss` (to the await), `Settle` (after it) |
| `_getEntityTypeRecord` | `EntityCached`, `EntityOfCachedClass`, `EntityOfInvalidClass`, `EntityMiss`, `Settle`, `AllEntities`, `AllEntitiesFail` |
| `_makeRequest` | `Send`, `Serve` (Thingpedia), `Deliver`, `CheckPasses`, `CheckFails`, `Finish`, `RequestFails` |
| `injectClass`, `removeFromCache`, `clearCache` | `InjectClass`, `RemoveFromCache`, `ClearCache` |

Abstractions: a class is its text, a member of a small set, and whether it is
well typed; its check is the list of entity types it asks for (`Deps`), of which
each class declares one; two levels of detail; time is the number of ticks an
entry has left, and lifetimes of 10 minutes and 24 hours are 0 and 1 ticks.
`Publish` changes what Thingpedia holds while requests are in flight.

### Cache and ExpiringMap (`lib/utils/cache.ts`)

`Cache` has the Map in insertion order (a *seat* per insertion), the clock, every
operation, and `entries()` as a generator: `Begin` reads the clock, `Yield` runs to
the next `yield`, deleting the expired entries it passes, `End` runs to the end;
anything may happen in between. `ExpiringMap` is what it promises: a map whose
entries disappear when their time is over. It is the cache `SchemaRetriever` uses.

### EdgeState, MonitorRule and RoundDelta (`stream_table_ops.ts`, `ops-to-jsir.ts`)

`EdgeState` has `isNewTuple` and `addTuple` on sequences of tuples (timestamp and
compared value). `MonitorRule` is the loop generated for
`monitor(query), filter => action`, one action per await: the tuple arrives
(`Receive`), its state is written (`Stored`), the state of the filter is read and
written (`ReadTruth`, `TruthStored`), the action runs or throws (`Act`,
`ActFails`). `Stop` is a crash or an error anywhere; the stored states survive it.
`Poll` is the source, outside the repository: rounds of tuples with increasing
timestamps. `RoundDelta` is what such a rule promises, without state to trim or
store: the values of each round that were not in the round before.

### StreamUnion (`streamUnion`, `_compileStreamUnion`)

The monitor of two tables that pass no parameters to each other. Two producers emit,
return or fail at any time (`emit`, `checkDone`, `SideFails`); every emission is
paired with the last one of the other side and queued; the loop of the rule takes
pairs (`Take`), is busy with awaits (`Resume`) and ends (`End`). The queue is a
library: a push goes to the oldest waiter or is kept, `cancelWait` reaches only a
waiter. Pairs carry how many emissions of each side they come from.

### Procedures (`exec_environment.ts`, `_compileProcedure`, `invokeStreamVarRef`)

`counter`, `frame` and `stack` are the three variables of the environment. A call is
the code of a compiled procedure, which enters its frame first and leaves it in a
`finally`; `waits` says which callees its caller is waiting for. A callee is not
suspended when it emits, so that caller and callee run together from then on, and a
cross join starts two calls at once.

### Filters, Queries, Optimizer and QueryPlan (`optimize.ts`, `ast-to-ops.ts`, `ops-to-jsir.ts`, `reduceop.ts`, `sort_index_ops.ts`)

`Queries` gives a meaning to queries made of filters, sorts, projections with
computations, aggregations, indices, slices and chains around one invocation, with the
array functions of the runtime; a row is a function of the names of its fields, and
`Filters` says which rows a boolean expression holds of. `Optimizer` rewrites a query as
`optimizeExpression` does, and `optimizeFilter` is in `Filters`, because the compiler
uses it for hints, too. `QueryPlan` composes them: `Optimize`, `Compile` (as
`compileTableToOps` does, hints included) and `Run`, in which the operators are a
sequence of runs of the innermost loop, each a sequence of iterations in which all the
conditions so far hold or do not. `Compiles` says when there is code at all: names are
looked up in the scopes that `_setInvocationOutputs`, `_compileProjection` and
`_mergeScopes` leave behind, and a `break` needs a loop. A device, external, may use the
filter, sort, limit and projection hints, in this order, or ignore them. Left out are
monitors, subqueries, joins with conditions, aliases and boolean questions, the order in
which operands are sorted, the other aggregates, rows with equal sort keys, and queries
that a device takes whole (`handle_thingtalk`).

### Types and TypeChecks (`type.ts`, `operators.ts`, `_resolveOverload` of `typecheck.ts`)

`Types` has the types, `isAssignable` with the variables that it binds, and the
signatures of all operators. `TypeChecks` runs several checks of operators at the same
time, as `Promise.all` does for the operands of a filter: a check goes through overloads
and arguments; where both types are entities it loads what is above one of them, one
request per entity, each of which may fail (`Loaded`, `NothingToLoad`), and then decides
(`Decide`). The part of the hierarchy that is loaded and the lists of ancestors are
shared by the checks (`entitySubTypeMap`, `cachedEntityAncestors`). A type is the sequence
of its constructors, so that an array of an array of numbers is `<< "Array", "Array",
"Number" >>`, and what recurses over a type is a function of its parts (`fits` is one of the
pairs of types that `isAssignable` compares on the way). Compound types are
left out, as is the hierarchy with a cycle, on which the code recurses for ever
(`HierarchyAssumption`). `VerdictIsRight` judges a use by `Fits`: its arguments in
turn, against the whole hierarchy. It does not say that a check alone accepts all that fits
if checks that ran before it in the same statement have left an entity that extends others
with an empty list of ancestors (`AncestorsKnown`; section 6).

### FunctionDefs and ExpressionTyping (`function_def.ts`, `_typeCheckExpression`)

`FunctionDefs` has the signatures: arguments, qualifiers, annotations, and the operations
that make a new one (`clone`, `filterArguments`, `addArguments`, `removeArgument`, ...),
with what each of them forgets. Arguments are a function of their names, and the fields of a
compound argument one of the paths to them: the order of arguments, on which only layout
depends, is abstracted. In `ExpressionTyping` the type checker goes through an
expression from its calls outwards, one action per operator: `CallFunction`,
`CheckConditions` and `ConditionsChecked` (a filter or a question; its conditions are
checks of `TypeChecks` in between), `Project`, `Alias`, `Aggregate`, `Sort`, `Monitor`,
`NextInChain` and `CloseChain`, `OpenJoin` and `CloseJoin`, `EndStatement`. Which operator comes
next is free, so that all expressions up to the bound are typed. `schema` is the
signature of what was typed last and `scope` the one map of names that all operators
change in place; which of two colliding names an alias leaves depends on the order in which
they were added, and is left open. `IsSignature` says what is known of the functions that
can be called: that they were constructed, so that all fields of their arguments are
arguments, too, and that their minimal projections name outputs; `AreTyped`, that their
types are types of values. Input parameters, and values other than constants and names, are left
out.

### NodeClasses, SyntaxTrees (`lib/ast`)

The classes of syntax trees differ only in what their hand-written methods do with each
of their fields. `NodeClasses` is the vocabulary for that, and `ValueClasses`,
`ExpressionClasses`, `ProgramClasses` and `LegacyClasses` say it of every class: whether
`clone` copies a field deeply, copies only its array or shares it; whether `equals`
compares it, `toSource` prints it, `visit` goes into it and the slot iterators yield it.
`SyntaxTrees` has the objects on a heap, so that sharing is seen, and a client that holds
trees and clones them (`Clone`), fills slots (`SetSlot`), prints them (`ToSource`, which
sorts attributes in place), compares them (`Compare`: `equals` of two items of a dialogue prints
the statements of both, and so sorts them) and makes programs of examples and declarations
(`ToProgram`). The
classes of device classes and datasets are modelled without their maps of functions,
annotations and inheritance.

### SlrGenerator, ShiftReduce and Derivations (`tools/generate-parser`, `sr_parser_runtime.ts`)

`SlrGenerator` computes from the rules of a grammar what `slr_generator.ts` does: first
and follow sets, the states with their items, the tables, and whether the generator
warned of a conflict or of a nonterminal that no terminal starts, or gave up. The items
of a state keep their order, because the code tells states apart by it. `ShiftReduce` is the loop of `_helper`, an action for
each of its branches; the tables are constants, and what a semantic action returns is
abstracted to the symbol and the tokens that it stands for. A semantic action may
throw. `Sentences` are derivations, with the forms between the start and the tokens; the
definition (`IsDerivation`) knows no states or tables, and `Derivations` lists the
short ones for `MCShiftReduce`. Left out: the reading of grammar files,
optional parts and optimisations of the generated code, the numbers by which the code
stands for symbols, the locations of tokens, on which no control depends, and the exceptions that
the lexer may throw instead of a next token, which end the parse and leave nothing behind.

## 4. Runs

| run | checks | bounds |
|---|---|---|
| `retriever_safety` | each waiter awaits its own answer (`WaiterOK`), freshness of replies and answers | 2 classes, one depending on the other; 2 clients; 4 requests; 1 environment step |
| `retriever_levels` | batch bookkeeping, completeness of the result map (`ResultOK`), passed classes stay cached | 2 levels, an ill-typed content, replies with more than was asked; 2 clients, 3 requests, the environment at rest |
| `retriever_live` | every lookup is answered | acyclic dependencies, 2 steps of the environment |
| `cache` | the cache implements `ExpiringMap`; an iteration yields everything alive | 2 keys, 2 values, timeouts -1, 0, 1; 3 ticks, 3 insertions |
| `monitor` | trimming is safe and bounds the state (`StateBounded`); firing once, in order; no repeated report; each fault loses at most one firing; implements `RoundDelta` | rules with and without filter; 3 rounds of up to 2 tuples, 2 values, 2 faults |
| `union` | no pair lost, repeated or stale; new values of the right side fire; the end comes last, and comes | 2 emissions of each side, 2 values, 2 rounds, failures |
| `procedures` | enter and exit stay paired and no frame is given out twice (`FramesUnique`); the frame of the rules comes back; code sees its own frame until calls overlap | 5 calls, emitting and concurrent |
| `types` | the verdict on an operator is that of the whole hierarchy, or a request failed, or the hierarchy was still being loaded (`VerdictIsRight`, `OnlyLoadingMisleads`); every check ends; the scope says what the signature says; filters that are required are applied; the minimal projection is among the outputs | every operator alone with every pair of types; pairs of checks of the operators that compare entities; a hierarchy of three levels; 1 failure; statements of up to 5 operators and calls of a few functions |
| `trees` | edits stay in their tree; a clone says what its original says and equals it; equal trees say the same; slots are visited and values that are missing are slots; no parameter is left in a program | every class, plain and with one field changed to everything that it may hold; items of a dialogue whose selectors have several attributes; 3 trees, 1 edit |
| `plan` | what the optimizer makes of a query type-checks, and the compiled loops return what the query means | 28 operations in all sequences of up to 3 that type-check, and 780 filters of up to three parts; up to 3 rows in any order, 5 kinds of device |
| `parser` | the tables that are generated make a parser that accepts a sentence by the one derivation it has, and rejects only what is none; no lost state, no wrong argument | six known grammars and 3200 with two rules for S and one for A of one or two symbols; inputs of up to 3 tokens |
| `retriever_self` | a comment of the code is violated (section 6) | as small as the behaviour allows |

Why the bounds suffice: two kinds are needed for a dependency and for a batch of
more than one; a request can meet at most the one before and the one after it, and
the check of a class needs one of its own, hence three or four requests; one
environment step places a failure, an injection or a publication anywhere in a
behaviour. Of the monitor, the state spans two rounds, so that the third is the
first to be trimmed. Of the union, two emissions of a side are one before and one
after the other side's first. Of procedures, three calls are needed to end in another
order than that of the stack, two more to see what they leave behind. Of a query, what
an operation does depends on the one inside of it and on what its hints pass through;
three rows in any order tell first, last and middle apart. Of a check, an entity, what it
extends and what that extends are needed for a hierarchy that is half loaded, and two
checks for one that decides while the other loads. Of an expression, five operators are a chain of two
calls with an operator inside, one around and one more. Of a tree, one field in another state is enough for
a method that forgets it, and three trees are an original, its clone and a clone or
program of that. Of a grammar, two
nonterminals are needed for one to follow the other; among the 3200 are ambiguous ones,
left and right recursive ones, and ones with each kind of conflict. `monitor`, `union`,
`procedures`, `types`, `trees`, `plan` and `parser` do not check deadlock: sources say nothing
more, calls end, a statement is accepted or refused, a client is free to stop, and a plan or
a parse that has run is done.

Fairness: the event loop runs every ready continuation and Thingpedia settles every
promise, so steps of requests and checks are weakly fair; no client has to call,
and nothing in the environment has to happen. In `StreamUnion` the rule runs when it
can, and a stream that has nothing more to say returns; emissions, failures and
rounds need not happen. In `TypeChecks` and `ExpressionTyping` the steps of checks are
weakly fair, because the schema retriever settles every request (`Answered`); how an
expression goes on is not.

## 5. Proofs

`SchemaRetrieverProofs` proves that `IInv == TypeOK /\ BatchOK /\ WaiterOK /\
ReplyIsFresh /\ ResultOK` is inductive. Freshness needs the others: a reply speaks
of the waiter's kind only because the kind is in the batch (`WaiterOK`), which
holds because the request that lookups join is exactly the one not sent yet
(`BatchOK`); what a waiter is handed is the reply only if the result map is complete
when its checks are over (`ResultOK`). `AnswerIsFresh`, an action property, follows
from the invariant and the definition of `Settle`. `PassedStaysCached` is an action
property, too: of all steps only `Finish` frees a request whose checks were under way
(`OnlySettleFrees`), and what it writes are negative entries of classes without a
result, so that the entry of a class that passed stays as it is. Assumptions: `RetrieverAssumption`
(constants of the right kinds), nothing about sizes or acyclicity.

`CacheProofs` proves `TypeOK /\ SeatsOK /\ NothingSkipped` inductive and, from it,
that each step of `Cache` is a step of `ExpiringMap` or a stutter. `SeatsOK` (seats
differ, kept keys are alive) is what makes passing a key at a smaller seat harmless.

`ProceduresProofs` proves `TypeOK`, `EnterExitPaired`, `BaseRestored` and
`FramesUnique` for any number of calls that overlap in any way. The argument: the
stack with the current frame behind it (`Saved`) is a sequence of different numbers
that begins with 0 and has one element more than there are calls; a call appends the
next number and a return drops the last, whichever call it is that returns. `StackIsCallChain`
needs one more invariant: as long as no two calls overlap, `waits` is a chain from the
running call to the rules, and `Saved` lists the frames along it.

`StreamUnionProofs` proves the safety of the union (`NoPairLost`, `EndIsLast`,
`RightChangeFires`) for any number of emissions. Everything is said of `AllPairs`, the pairs
taken and those still queued, one after the other: an emission appends one pair, and taking
one only moves the border between the two. `LastIsCurrent` says that the last pair has the
current values of both sides, `OneByOne` that each pair is one emission later than the
one before, `Timed` that timestamps never decrease, and `StateIsSuffix` that the state of
the rule is a `Suffix` of the pairs taken, so that `CutIsSafe` and `AddTupleSuffix` apply.
Assumption: `UnionAssumption`.

`EdgeStateProofs` is about the two functions of a monitor's state, for states of any
length whose timestamps never decrease. `Suffix(d, s, k)` says that `d` is `s` without
its first `k` tuples, all older than the last two rounds. Then both have the same last
two rounds (`SuffixRounds`), `isNewTuple` answers the same for both (`CutIsSafe`), and
`addTuple` keeps it so while leaving tuples of two rounds only (`AddTupleSuffix`). The
greatest position at which a loop stops is found by well-founded induction on the
naturals (`LeastExists`, `MaxExists`), which needs no operator parameter.

`MonitorProofs` proves every property of the run `monitor` for any values, filter and
bounds. The inductive invariant `IInv` says that the log is sorted and no newer than
the last round, that the stored state is a `Suffix` of it and equal to the copy in
memory (`MemoryIsStored`), that the tuple in hand is the last one of the log as soon
as it is stored, that whatever has fired was absent from the round before its own
(`NewOnly`) and lies behind the tuple in hand (`InOrder`). `MissingBounded` counts the
runs of the action that are missing: at most one per fault, and one of them is due to
the stored truth of the filter whenever that lags behind the last new tuple or runs
ahead of it. `DeltaRefinement` maps the log's last two rounds to `prev` and `cur` of
`RoundDelta`: a tuple that is stored arrives, an action that runs delivers, and every
other step stutters or loses the value on its way. Assumption: `MonitorAssumption`.

`ShiftReduceProofs` proves `TypeOK`, `NeverLost`, `Tiled`, `ArgumentsFit` and
`WholeAccepted` for inputs of any length and any tables that satisfy
`TableAssumption`: what the items of a state say of the transitions into it and of the
entries of the tables, which TLC evaluates for every parser that `SlrGenerator` makes in
the run `parser`. `StackOK` says that the states on the stack are a path of the automaton
through the symbols beside them. Going down this path from an item of the state on
top, the marker moves back over one symbol at a time (`ItemsBelow`), so that the right side
of a rule is on top when the rule is reduced by (`HandleOnTop`), and the state below
has somewhere to go with its left side (`Reducible`). In a state that accepts, the same
argument leaves only the start symbol on the stack. `OutputDerives` is about the output
alone: undoing its reductions from the last to the first (`Undone`) turns the symbols on the
stack into the tokens read, because each reduction replaced exactly the right side of
its rule. It needs that no token that was shifted is a nonterminal (`TableTyped`), so that
the symbol a reduction put there is the last nonterminal. With `WholeAccepted` this
makes the output of an accepted parse a rightmost derivation from the start symbol
(`AcceptedDerived`). `ReducesBounded` counts: of the rules put out so far, those with
several symbols on their right are fewer than the tokens, because each leaves fewer symbols on
the stack; those with one symbol (`UnitRules`) come in chains, one behind each push of something
else, and no rule is twice in a chain (`ChainBounded`), so that `CountBound` bounds their
sum. The last needs `CycleAssumption`: tables made without a warning have no cycle of unit
rules. It is a fact about the generator, evaluated for every parser of the run. The
nonterminals on a cycle are followed by the same terminals; a state where the cycle begins has
an item that is not on it, before one of its nonterminals; what comes after it there is a
terminal that follows them, unless a nonterminal starts with no terminal, of which
`_checkFirstSets` warns (`Startless`).

`ErrorsAreReal` and `OnlyDerivation` go the other way: for any set of derivations
(`SentencesAssumption`), in particular of all there are, a parser made without a warning of a
conflict does not fail on a sentence and returns the derivation of it that was given,
which is therefore the only one. Going from the start of a derivation to its
tokens, behind each nonterminal of a form is what its follow set has (`FollowsRight`), and
the symbols up to the last nonterminal lead through states that await them, so that where the
right side of a rule has been expanded, they lead to its item with the marker at the end
(`RunsRight`, `HandleRun`, `ExpandedRight`). `Matches` relates the parser to a
derivation: what has been put out are its last rules, backwards, and the form that they leave
is what is on the stack followed by the tokens to come. The states of the stack are those
of the form (`SameRun`), so that there is an entry for the next token and it is the step that the
derivation takes (`DecidesRight`): a shift before the end of the right side, a reduction
there, because the token is in the follow set and no other rule competes. Each of these
steps leaves a match (`MatchesShift`, `MatchesReduce`); `Followed` says so of every sentence that
goes on as the input does up to the token looked at. It needs of the tables that nothing
is missing in them (`CompleteAssumption`: `SetsRight`, that first and follow sets are closed
under the rules, and `ItemsComplete`, that states are closed, have their transitions, and
have entries for all that can follow), which TLC evaluates for every parser of the run: a
follow set that is too small is a violation of it.

`ExpressionTypingProofs` proves `ScopeIsSchema`, `FiltersAreApplied` and `MinimalIsOutput`
for any functions, conditions, projections and aliases and for statements of any length,
with joins and chains. The first half is about `FunctionDefs`: what
`_flattenCompoundArguments` adds (`FlattenIs`), that it adds nothing to a signature that was
constructed (`FlatIsFlat`), and from this, for each method that makes a signature out of
another, which arguments, filter and minimal projection the new one has (`CloneIs`,
`AddIs`, `FilterIs`, `CleanIs`, `FilteredIs`, `AsTypeIs`, `ChainIs`, `JoinedIs`): all of
them make signatures (`IsSignature`) in which the annotations, which the next clone reads,
agree with the fields that were changed. The second half is about the scope: `Agrees` relates
one to any signature, and each operator that changes both keeps them in agreement
(`AgreesCall`, `AgreesProject`, `AgreesAlias`). The inductive invariant `IInv` adds the
elements of the chain and the left operand, whose signatures are read again at the end, that
names in the scope are never empty, and that a new element finds only names of others
there. Assumption: `TypingAssumption`, which is `IsSignature` and `AreTyped` of the functions.

The same module proves `VerdictIsRight` and `OnlyLoadingMisleads`, for types of any depth,
any hierarchy, any number of checks at the same time and statements of any length. The
recursive functions come first. What each one takes has a measure (the height
of an entity, the length of a type, twice the length of the type to be assigned and one more
if a variable has to be looked up), and calls itself with measures less; `Recursion` shows
that such a function exists, by the least measure up to which none does, and is used without
an operator as parameter: the step of the recursion is a function on functions. With
it `entitySubType` (`SubTypeIs`), `isAssignable` (`AssignIs`), `_getEntityAncestors`
(`AncestorsAre`) and the judgement itself (`AfterIs`) are what their equations say, and
`MeasureInduction` proves what holds of all arguments. Two facts carry the rest:
`FitIs`, that `isAssignable` reads the hierarchy at one place only, where two entities meet, so
that knowing more of it changes verdicts in one direction (`AssignGrows`, hence
`DecisionSound`), and not at all once what is above the entities is loaded
(`DecisionComplete`). The inductive invariant `CInv` says of what is shared that it is part of
the hierarchy, entry by entry what Thingpedia says or a failure's empty list
(`SharedIsKnown`); that what is above a loaded entity is loaded or on the list of some check
(`AboveIsToCome`); of a check that it is at an argument with a scope that the arguments
before justify, trying this scope and then those that free the variable
(`IsRunning`); and of a check that is alone that it has left behind nothing that would have
fit (`IsExhaustive`). An overload's scopes are at most one while the check is alone, since
a variable that is bound to an entity with ancestors makes the next argument acceptable
in the end, with the scope unchanged. `KInv` adds what statements need: the types of all
signatures and of the scope are types of values (`TypesOK`), and nothing is being checked
while operators are applied (`IdleOK`), so that the conditions of the next filter find
everything loaded (`QuietIs`). Assumptions: `HierarchyAssumption` (no entity is above itself,
and entities are not named like type variables), `OperatorsAssumption` (the
signatures of operators name known entities), `JobsAssumption` (uses are of operators that
exist, with one or two arguments of known types), all evaluated by the run `types`.

Model-checked only: liveness (`Answered`, `RuleEnds`, `ChecksEnd`: the prover has no fairness). What
RECURSIVE definitions compute, which the provers cannot read: the optimizer and the
compiler (`PlanIsRight`), and the run `trees`; the same goes for the tables of
`SlrGenerator`, whose properties are the assumptions about parsers above.
`SeatsOK`, `Tiled` and `MemoryIsStored` are proved, and no run lists them; `EnterExitPaired` and
`WholeAccepted` are checked as parts of `FramesUnique` and `OnlyDerivation`, and `NeverLost` as the
last conjunct of `ArgumentsFit`, of the reduction to come.

## 6. Where code and comments disagree

Shown by runs:

- `retriever_self`: a class with a parameter whose default value is of an entity type
  of that class can never be retrieved: its check looks up the class again, and the
  new request starts a new check.

Met while modelling, and excluded by the properties that would see them:

- Classes that exist but fail their check get the negative entry that the comment at
  `lib/schema.ts:323` keeps for missing ones, at both levels; an entity lookup takes
  any failure for a missing class (line 643); `clearCache` does not clear all caches
  (line 235). The freshness properties speak of answers that come from replies.
- A reply in flight overwrites an injected class (`lib/schema.ts:316` against the
  comments at 242 and 250).
- A pair of `streamUnion` has the timestamp of its right side, so that a new value of
  the left side need not fire (`RightChangeFires` speaks of the right side). If a
  stream fails while the rule is busy, `cancelWait` finds no waiter and the error is
  lost (`RuleEnds` excludes failed streams).
- `ComplexArgMinMax` takes a negative index for its base, and `ArgMinMaxState` a negative
  base for the first row: `[-2]` of any sort, or `[-1]` of a sort by a computed value,
  returns the wrong row (`BasesArePositive`).
- Hints (`HintsAgree`): a filter or a sort around an index reaches the device together with
  the limit, and the device limits what the filter has left (the comment at
  `lib/compiler/ast-to-ops.ts:555-562` thinks of sorts only); `[-1]` of a sort by a field gives the device the
  hint for the first row; a limit around a filter around a sort by a computed value stays
  without the sort; a filter or a sort by a name that a projection computes reaches the
  device, which may have a field of that name; and the field of a sort, or one that the
  next element of a chain takes, is not asked for if a projection around it drops it.
- The value of a clause of the filter hint is computed in the scope of the loop around the
  invocation (`ops-to-jsir.ts:564-568`): a filter that compares two fields of a list query
  does not compile, and in an element of a chain that takes a parameter it reads the field
  of the element before. An element of a chain cannot use a name of an earlier one in its
  filter, since `_setInvocationOutputs` begins a new scope.
- The compiler does not expand `*` in a projection with computations, and the optimizer
  itself makes such projections (`optimize.ts:351-353`); merging two projections drops the
  computations of the inner one under an outer `*` (line 339, `args.includes`) (`NoStars`).
  The optimizer appends the inner computations to the outer ones, and computations are run
  one after the other, so that one may use what another has just replaced (`ComputedApart`).
- Also seen there: the alias of an aggregation is ignored; a distinct count compares whole
  outputs (`reduceop.ts:165-168`); the maximum of nothing is -Infinity; `1000ms == 1s` is
  folded to false (`values.ts:1187`); the monitor of a sort, index or slice recurses for ever
  (`ast-to-ops.ts:186-190`).
- The `break` of a simple index leaves only the inner loop of a join that passes
  parameters (`IndexesOneLoop`), and is in no loop at all around a filter of an
  aggregate (the guard of `Run`: that code does not compile).
- Type checks of operators: the comment at `typecheck.ts:389-396` speaks of the type that a
  variable is bound to, while `_expandTypeScope` binds the name of the ancestor, so that an
  entity which has ancestors makes whatever follows acceptable; `contains` on an array of entities leaves
  an empty list of ancestors in the cache; `_ensureEntitySubTypes` counts an entity as
  loaded before what is above it is (205), so that a check which decides in between may leave a
  list of ancestors that is cut short in the cache (223) for good, and a later condition of the
  same statement is refused though the hierarchy justifies it (`AncestorsKnown`); `count($?)` leaves `Array(undefined)` in the overload;
  the type of an array depends on the order of its elements.
- Typing of expressions: that a chain is a list, or monitorable, is set on its signature
  and lost by the next clone (`typecheck.ts:793-797`), so that `monitor ([x] of (A => B))`
  is accepted though `A` is not monitorable; so is that a projection has no default
  projection (783). `function_def.ts:340-351` says that `is_list` is always false on actions
  and streams, which `asType` and `_resolveChain` do not see to. That a default projection
  names arguments is checked (1107-1113), that a minimal one does is not
  (`TypingAssumption`). The signature of a join
  has no minimal projection, on which `addMinimalProjection` of the compiler fails; a join
  drops `require_filter`, and a nested chain checks it on its last element only.
  The condition of a subquery or of a filter value is checked in the scope of the outer
  query (285-313 has `scope.add`). A projection of a compound brings its fields back into
  the signature, not into the scope; an alias also prefixes the names of earlier elements of
  a chain, and one that is named like a compound takes the names of its fields (`ScopeIsSchema` excepts them), and an aggregation or a join inside of a chain removes them; `__answer` is not in scope.
- Syntax trees, `visit`: `ProjectionExpression.computations`, the filter of a
  `FilterValue` and the executor of a program are not visited, against `visitor.ts:34-43`
  and `base.ts` ("Iterate all primitives"); so `toProgram`, which replaces "all parameters"
  (`statement.ts:254-257`, 840-842), leaves some behind. `DialogueHistoryResultList.count`
  and `DialogueState.dialogueActParam` are not visited either.
- Slots: the attributes of the selector of an external boolean expression,
  `TimerStream.frequency` and `in_params` of old joins and of mixins are visited and yield
  no slots. `isExecutable` also asks for parameters that `require_either` and `required_if`
  name (`statement.ts:492-531`): what is not there is no slot, and `HolesAreSlots` speaks of
  values only.
- `clone`: the values of a `DialogueHistoryResultItem`, of an `AnswerControlIntent`, the
  error of a result list and the executor of a program are shared with the clone.
  `DeviceSelector.toSource` sorts the attributes in place. `DialogueState.updateCurrent`
  (490-500) never resets its pointers.
- `equals`: `ObjectValue` and `ArgMapValue` return false exactly when their entries are
  equal; `RecurrentTimeRule` leaves out `subtract`, a projection its aliases, an entity its
  display name, a context reference its type. Two items of a dialogue are equal if their
  statements print the same (`dialogues.ts:299-302`), which sorts the attributes of both in
  place. Printing omits attributes without a value, a `name` beside an id, and an id that is the
  kind, all of which the content of a tree in `SyntaxTrees` keeps, so that there `equals`
  tells such items apart. Printing also hides the `id` of a selector of all
  devices, and writes `a - (b - c)` without parentheses (`syntax_priority.ts:25-55`).
- `procedureFrame` is one variable: once a procedure has emitted, its caller runs and
  sees the frame of its callee (`lib/runtime/exec_environment.ts:95` speaks of the
  current stack frame). `StackIsCallChain` speaks of calls that do not overlap.
- `locations` of `sr_parser_runtime.ts` is never added to, so that the location that a
  semantic action sees is always null, although `lib/ast/base.ts:124-128` says that it is
  null only for a node that is not associated with a source.
- The tokens listed after a syntax error may lack some that could have come next: the
  parser may have reduced before it finds the error, because of a follow set, and lists
  the tokens of the state it has then.
- A grammar for which the generator only warns may have a parser that reduces for ever
  by a symbol that derives itself: `S -> a A a | b A b, A -> A | c` on `a c b`
  (`ReducesBounded` speaks of grammars without warnings).

## 7. Not modelled

Listed with reasons in `components` of `PROJECT.json`. In short: printing and the
conversions between legacy syntaxes and from SQL and SPARQL are layout and generation of
text; lexers are regular expressions; the SMT solver is external; dates and the other values
of the runtime are functions without state. The permission checker, the entity retriever,
datasets and manifests, and the blocks of generated code are in the plan of section 2.
