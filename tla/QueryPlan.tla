----------------------------- MODULE QueryPlan -----------------------------
(***************************************************************************)
(* How a query is optimized, compiled and run: compileTableToOps of        *)
(* lib/compiler/ast-to-ops.ts turns it into operators, passing down to the *)
(* invocation hints of what the rest of the query will keep;               *)
(* lib/compiler/ops-to-jsir.ts and reduceop.ts turn each operator into the *)
(* body of a loop.  The device, outside of the repository, may use the     *)
(* hints or ignore them.                                                   *)
(***************************************************************************)
EXTENDS Optimizer

CONSTANTS
  QuerySet,    \* the queries of the program
  MaxRows,     \* bound on the rows of the device
  RowOf(_),    \* the rows of the first table
  Abilities    \* the sets of hints that a device may use

ASSUME PlanAssumption ==
  /\ MaxRows \in Nat
  /\ Abilities \subseteq SUBSET {"projection", "filter", "sort", "limit"}
  \* "Devices which implement hints MUST NOT implement limit without sort."
  /\ \A d \in Abilities : "limit" \in d => "sort" \in d

VARIABLES
  pc,        \* "optimize", "compile", "run" or "done"
  query,
  optimized, \* what the optimizer made of it
  device,    \* the hints that the device uses
  plan,      \* the operators the query was compiled to
  rows,      \* what the device has, in its order
  result     \* the rows that the generated code emits

vars == <<pc, query, optimized, device, plan, rows, result>>

\* No sort hint and no limit hint are <<>>.
NoHints(projection) == [projection |-> projection, filter |-> True, sort |-> <<>>, limit |-> <<>>]

-----------------------------------------------------------------------------
(* compileTableToOps.                                                      *)

On(op, inner)   == op @@ [of |-> inner]
isReduce(plan_) == plan_.op \notin {"InvokeGet", "Filter", "Map", "Compute", "CrossJoin", "NestedLoopJoin"}

\* A filter is lowered into an element of a chain only if it is one comparison;
\* it is not, once the compiler has put it beside the filter around it.
restrictHintsForJoin(hints, outputs) ==
  LET f == hints.filter
  IN  [NoHints(hints.projection \cap outputs) EXCEPT !.filter =
         IF f = False \/ (f[1] = "atom" /\ FilterNames(f) \subseteq outputs) THEN f ELSE True]

\* The hints below a sort that is picked from or sliced, where n is the limit
\* if it is known.
SortedHints(hints, sort, n) ==
  IF isVarRef(sort.value) THEN [hints EXCEPT !.sort = <<sort.value[2], sort.dir>>, !.limit = n]
  ELSE [hints EXCEPT !.sort = <<>>, !.limit = <<>>]

\* Mutant: one row is forgotten.
sliceLimit_short(w) == <<w.base - 1 + w.limit - 1>>

sliceLimit(w) == <<w.base - 1 + w.limit>>

ArgMinMax(first) == IF first = "asc" THEN "argmin" ELSE "argmax"
Opposite(dir)    == IF dir = "asc" THEN "desc" ELSE "asc"

\* An element of a chain that takes a value from the elements before it, as an
\* input parameter or in a filter.
hasParameterPassing(q) ==
  \/ q[1].passing # ""
  \/ \E n \in 2 .. Len(q) : q[n].op = "filter"
       /\ ~(RightNames(q[n].filter) \subseteq Outputs(SubSeq(q, 1, n - 1)))

\* The part of the filter hint that is sent to the device (_compileInvocationHints).
Clauses(hint) ==
  LET f == optimizeFilter(hint)
  IN  SelectSeq(IF f[1] = "and" THEN f[2] ELSE <<f>>,
                LAMBDA c : c[1] = "atom" \/ (c[1] = "compute" /\ c[2][1] = "computed"))

RECURSIVE compileTableToOps(_, _)

\* An index of a sort becomes an argmin or argmax.
compileIndexOfSort(inner, sort, index, hints) ==
  IF index \in {1, -1} /\ isVarRef(sort.value)
  THEN On([op |-> "SimpleArgMinMax", value |-> sort.value,
           arg |-> ArgMinMax(IF index = 1 THEN sort.dir ELSE Opposite(sort.dir))],
          compileTableToOps(inner, SortedHints(hints, sort, <<1>>)))
  ELSE On([op |-> "ComplexArgMinMax", value |-> sort.value, arg |-> ArgMinMax(sort.dir),
           base |-> index, limit |-> 1],
          compileTableToOps(inner, SortedHints(hints, sort, <<index>>)))

compileSliceOfSort(inner, sort, w, hints) ==
  On([op |-> "ComplexArgMinMax", value |-> sort.value, arg |-> ArgMinMax(sort.dir),
      base |-> w.base, limit |-> w.limit],
     compileTableToOps(inner, SortedHints(hints, sort, sliceLimit(w))))

compileIndex(inner, w, hints) ==
  IF Len(w.indices) = 1 /\ w.indices[1] > 0
  THEN LET compiled == compileTableToOps(inner, [hints EXCEPT !.limit = w.indices])
       IN  IF isReduce(compiled) THEN On([op |-> "ComplexIndex", indices |-> w.indices], compiled)
           ELSE On([op |-> "SimpleIndex", index |-> w.indices[1]], compiled)
  ELSE On([op |-> "ComplexIndex", indices |-> w.indices],
          compileTableToOps(inner, [hints EXCEPT !.limit = <<>>]))

compileSort(inner, w, hints) ==
  On([op |-> "Sort", value |-> w.value, dir |-> w.dir],
     compileTableToOps(inner, [hints EXCEPT !.sort = IF isVarRef(w.value) THEN <<w.value[2], w.dir>> ELSE <<>>]))

compileFilter(inner, w, hints) ==
  On([op |-> "Filter", filter |-> w.filter],
     compileTableToOps(inner,
       [hints EXCEPT !.projection = @ \cup (FilterNames(w.filter) \cap Outputs(inner)),
                     !.filter = And(<<w.filter, @>>)]))

\* The outputs that are computed, one after the other, and then selected.
compileProjection(inner, w, hints) ==
  LET effective == hints.projection \cap (w.args \cup Minimal(Outputs(inner)))
      needed    == UNION {Uses(w.computed[n][1]) : n \in DOMAIN w.computed}
      compiled  == compileTableToOps(inner, [hints EXCEPT !.projection = effective \cup needed])
      AddCompute(p, c) == On([op |-> "Compute", value |-> c[1], name |-> c[2]], p)
  IN  On([op |-> "Map", names |-> effective \cup ComputedNames(w)],
         FoldLeft(AddCompute, compiled, w.computed))

RECURSIVE compileChain(_, _)
compileChain(q, hints) ==
  LET w == Last(q)
  IN  IF w.op # "chain" THEN compileTableToOps(q, restrictHintsForJoin(hints, Outputs(q)))
      ELSE On([op |-> IF hasParameterPassing(w.rhs) THEN "NestedLoopJoin" ELSE "CrossJoin",
               rhs |-> compileTableToOps(w.rhs, restrictHintsForJoin(hints, Outputs(w.rhs)))],
              compileChain(Front(q), hints))

\* The outermost operation of the query is the last one.
compileTableToOps(q, hints) ==
  LET w == Last(q)
      inner == Front(q)
      ofSort == inner # <<>> /\ Last(inner).op = "sort"
  IN  CASE w.op = "get"     -> [op |-> "InvokeGet", hints |-> hints, clauses |-> Clauses(hints.filter)] @@ w
        [] w.op = "filter"  -> compileFilter(inner, w, hints)
        [] w.op = "project" -> compileProjection(inner, w, hints)
        [] w.op = "aggregate" ->
             On([op |-> "Aggregate", operator |-> w.operator, field |-> w.field],
                compileTableToOps(inner, NoHints(IF w.operator = "count" THEN {} ELSE {w.field})))
        [] w.op = "sort"    -> compileSort(inner, w, hints)
        [] w.op = "index" /\ ofSort /\ Len(w.indices) = 1 ->
             compileIndexOfSort(Front(inner), Last(inner), w.indices[1], hints)
        [] w.op = "slice" /\ ofSort -> compileSliceOfSort(Front(inner), Last(inner), w, hints)
        [] w.op = "index" /\ ~(ofSort /\ Len(w.indices) = 1) -> compileIndex(inner, w, hints)
        [] w.op = "slice" /\ ~ofSort ->
             On([op |-> "Slice", base |-> w.base, limit |-> w.limit],
                compileTableToOps(inner, [hints EXCEPT !.limit = sliceLimit(w)]))
        [] w.op = "chain"   -> compileChain(q, hints)

-----------------------------------------------------------------------------
(* Compilation of the operators to JavaScript.                             *)

\* The names in the scope of the code that follows an operator.
RECURSIVE Scope(_)
Scope(p) ==
  CASE p.op = "InvokeGet" -> Fields(p.table)
    [] p.op = "Compute"   -> Scope(p.of) \cup {p.name}
    [] p.op = "Map"       -> p.names
    [] p.op = "Aggregate" -> {p.field}
    [] p.op \in {"CrossJoin", "NestedLoopJoin"} -> Scope(p.of) \cup Scope(p.rhs)
    [] OTHER -> Scope(p.of)

\* Is the code that follows the operator inside of a loop of its own.
RECURSIVE InLoop(_)
InLoop(p) ==
  CASE p.op \in {"InvokeGet", "Sort", "Slice", "ComplexIndex", "ComplexArgMinMax",
                 "CrossJoin", "NestedLoopJoin"} -> TRUE
    [] p.op \in {"Filter", "Map", "Compute"} -> InLoop(p.of)
    [] OTHER -> FALSE

\* Whether there is code: each name is in scope where it is used, and each break
\* is in a loop.  The values of a filter hint are computed before there are rows,
\* in the scope of the loop around; the names of that scope (outer) are hidden
\* from what follows the invocation.
RECURSIVE Compiles(_, _)
Compiles(p, outer) ==
  IF p.op = "InvokeGet"
  THEN /\ p.passing \in {""} \cup outer
       /\ \A n \in DOMAIN p.clauses : RightNames(p.clauses[n]) \subseteq outer
  ELSE /\ Compiles(p.of, outer)
       /\ CASE p.op = "Filter" -> FilterNames(p.filter) \subseteq Scope(p.of)
            [] p.op \in {"Sort", "SimpleArgMinMax", "ComplexArgMinMax", "Compute"} ->
                 Uses(p.value) \subseteq Scope(p.of)
            [] p.op = "Map" -> p.names \subseteq Scope(p.of)
            [] p.op = "Aggregate" -> p.operator = "count" \/ p.field \in Scope(p.of)
            [] p.op = "SimpleIndex" -> InLoop(p.of)
            [] p.op = "CrossJoin" -> Compiles(p.rhs, outer)
            [] p.op = "NestedLoopJoin" -> Compiles(p.rhs, Scope(p.of))
            [] OTHER -> TRUE

-----------------------------------------------------------------------------
(* The generated code.  The operators below a reduction are the nested     *)
(* bodies of loops.  What they go through is a sequence of runs of the     *)
(* innermost loop, each a sequence of iterations: the row in the registers *)
(* and whether all the conditions so far hold.                             *)

Iterations(a) == [i \in DOMAIN a |-> [row |-> a[i], pass |-> TRUE]]
Emitted(runs) ==
  LET passing == SelectSeq(FlattenSeq(runs), LAMBDA it : it.pass)
  IN  [i \in DOMAIN passing |-> passing[i].row]
Rewritten(runs, f(_)) == [g \in DOMAIN runs |-> [i \in DOMAIN runs[g] |-> f(runs[g][i])]]

\* A device that uses the hints it is able to use.
Query(invocation, able, a, outer) ==
  LET hints == invocation.hints
      WithValues(c) == [c EXCEPT ![4] = IF c[4][1] = "array" THEN c[4] ELSE Const(Value(c[4], outer))]
      Keeps(row) == \A c \in ToSet(invocation.clauses) : Holds(WithValues(c), row)
      f == IF "filter" \in able THEN SelectSeq(a, Keeps) ELSE a
      s == IF "sort" \in able /\ hints.sort # <<>>
           THEN sortArray(f, VarRef(hints.sort[1]), hints.sort[2]) ELSE f
      l == IF "limit" \in able /\ hints.limit # <<>>
           THEN jsSlice(s, 0, hints.limit[1]) ELSE s
  IN  IF "projection" \in able THEN [n \in DOMAIN l |-> Only(l[n], hints.projection)] ELSE l

\* ArgMinMaxState: the best "total" rows in order, from "base" on.
argMinMax(a, value, arg, base, limit) ==
  LET total  == IF base + limit - 1 > 1 THEN base + limit - 1 ELSE 1
      sorted == sortArray(a, value, IF arg = "argmin" THEN "asc" ELSE "desc")
  IN  SubSeq(sorted, IF base > 1 THEN base ELSE 1, IF total < Len(a) THEN total ELSE Len(a))

\* SimpleIndex counts the iterations that pass and breaks out of the innermost
\* loop at the one it looks for; the registers keep the last row they held.
simpleIndex(runs, n) ==
  LET passing == SelectSeq(FlattenSeq(runs), LAMBDA it : it.pass)
      Seen(g) == Len(SelectSeq(FlattenSeq(SubSeq(runs, 1, g)), LAMBDA it : it.pass))
      hit     == CHOOSE g \in DOMAIN runs : Seen(g) >= n /\ \A h \in 1 .. g - 1 : Seen(h) < n
      later   == FlattenSeq(SubSeq(runs, hit + 1, Len(runs)))
  IN  IF Len(passing) < n THEN <<>>
      ELSE IF later = <<>> THEN <<passing[n].row>>
      ELSE <<Last(later).row>>

\* What an operator inside of a loop makes of an iteration, and what a reduction
\* makes of the rows below it.
Updated(p, it) ==
  CASE p.op = "Filter"  -> [it EXCEPT !.pass = @ /\ Holds(p.filter, it.row)]
    [] p.op = "Compute" -> [it EXCEPT !.row = p.name :> Value(p.value, @) @@ @]
    [] p.op = "Map"     -> [it EXCEPT !.row = Only(@, p.names)]

Reduced(p, a) ==
  CASE p.op = "Aggregate"        -> <<Aggregated(a, p)>>
    [] p.op = "Sort"             -> sortArray(a, p.value, p.dir)
    [] p.op = "Slice"            -> sliceArray(a, p.base, p.limit)
    [] p.op = "ComplexIndex"     -> indexArray(a, p.indices)
    [] p.op = "SimpleArgMinMax"  -> argMinMax(a, p.value, p.arg, 1, 1)
    [] p.op = "ComplexArgMinMax" -> argMinMax(a, p.value, p.arg, p.base, p.limit)

RECURSIVE Runs(_, _, _, _)
Nested(p, able, stored, a) ==
  [i \in DOMAIN a |->
     Rewritten(Runs(p.rhs, able, stored, a[i]), LAMBDA it : [it EXCEPT !.row = @ @@ a[i]])]
Crossed(a, b) == FlattenSeq([i \in DOMAIN a |-> [m \in DOMAIN b |-> b[m] @@ a[i]]])

Runs(p, able, stored, outer) ==
  IF p.op = "InvokeGet"
  THEN <<Iterations(Query(p, able,
          IF p.table = "B" THEN Other(IF p.passing = "" THEN 0 ELSE Field(outer, p.passing)) ELSE stored, outer))>>
  ELSE LET runs == Runs(p.of, able, stored, outer)
       IN  CASE p.op \in {"Filter", "Compute", "Map"} -> Rewritten(runs, LAMBDA it : Updated(p, it))
             [] p.op = "SimpleIndex"    -> <<Iterations(simpleIndex(runs, p.index))>>
             [] p.op = "CrossJoin"      ->
                  <<Iterations(Crossed(Emitted(runs), Emitted(Runs(p.rhs, able, stored, outer))))>>
             [] p.op = "NestedLoopJoin" -> FlattenSeq(Nested(p, able, stored, Emitted(runs)))
             [] OTHER -> <<Iterations(Reduced(p, Emitted(runs)))>>

-----------------------------------------------------------------------------
Init ==
  /\ pc = "optimize"
  /\ query \in QuerySet
  /\ optimized = query /\ plan = NoHints({}) /\ device = {} /\ rows = <<>> /\ result = <<>>

Optimize ==
  /\ pc = "optimize" /\ pc' = "compile"
  /\ optimized' = optimizeExpression(query, TRUE)
  /\ UNCHANGED <<query, device, plan, rows, result>>

\* A statement asks for all its outputs.
Compile ==
  /\ pc = "compile" /\ pc' = "run"
  /\ plan' = compileTableToOps(optimized, NoHints(Outputs(optimized)))
  /\ UNCHANGED <<query, optimized, device, rows, result>>

\* The device uses some of the hints, and has any rows, in any order.
Stores == UNION {{[i \in 1 .. n |-> RowOf(order[i])] : order \in SetToSeqs(1 .. n)} : n \in 0 .. MaxRows}

Run ==
  /\ pc = "run" /\ pc' = "done"
  /\ Compiles(plan, {})
  /\ device' \in Abilities
  /\ rows' \in Stores
  /\ result' = Emitted(Runs(plan, device', rows', <<>>))
  /\ UNCHANGED <<query, optimized, plan>>

Next == Optimize \/ Compile \/ Run

-----------------------------------------------------------------------------
(* Correctness.                                                            *)
RECURSIVE Operators(_)
Operators(p) ==
  {p} \cup (IF p.op = "InvokeGet" THEN {}
            ELSE Operators(p.of) \cup IF p.op \in {"CrossJoin", "NestedLoopJoin"} THEN Operators(p.rhs) ELSE {})

SimpleIndices(p) == {o \in Operators(p) : o.op = "SimpleIndex"}

\* Where the hints say what the query says, except across an aggregate or a
\* join: no filter and no sort is applied to what an index or a slice has left,
\* nor to what a projection computes; nothing is sorted twice; what is sorted by
\* a computed value is limited at once or not at all; and the last row of a sort
\* is not asked for, for which the hints are those of the first.
Limits == {"index", "slice"}
UsesOf(w) ==
  CASE w.op = "filter" -> FilterNames(w.filter) [] w.op = "sort" -> Uses(w.value) [] OTHER -> {}
HintsAgreeIn(q) ==
  LET Apart(i, j) == \E k \in i + 1 .. j - 1 : q[k].op \in {"aggregate", "chain"}
  IN  \A i, j \in DOMAIN q : i < j /\ ~Apart(i, j) =>
        /\ q[i].op \in Limits => q[j].op \notin {"filter", "sort"}
        /\ q[i].op = "project" => UsesOf(q[j]) \cap ComputedNames(q[i]) = {}
        /\ q[i].op = "sort" => q[j].op # "sort"
        /\ q[i].op = "sort" /\ q[j].op \in Limits /\ ~isVarRef(q[i].value) => j = i + 1
        /\ q[i].op = "sort" /\ q[j].op = "index" => q[j].indices # <<-1>>

\* Every field that a sort or another element of a chain needs is asked for,
\* as it happens.
Invocations(p) == {o \in Operators(p) : o.op = "InvokeGet"}
Stored(p)      == UNION {Fields(o.table) : o \in Invocations(p)}
Asked(p)       == UNION {o.hints.projection : o \in Invocations(p)}
Passed(p)      == {o.passing : o \in Invocations(p)} \ {""}
FieldsAreAsked ==
  \A o \in Operators(plan) :
    /\ o.op \in {"Sort", "SimpleArgMinMax", "ComplexArgMinMax"} =>
         Uses(o.value) \cap Stored(o.of) \subseteq Asked(o.of)
    /\ o.op = "NestedLoopJoin" => Passed(o.rhs) \subseteq Asked(o.of)

HintsAgree ==
  /\ HintsAgreeIn(optimized)
  /\ \A w \in ToSet(optimized) : w.op = "chain" => HintsAgreeIn(w.rhs)
  /\ "projection" \in device => FieldsAreAsked

\* The index of a join with parameter passing, which breaks out of the inner
\* loop only, is not taken.
IndexesOneLoop ==
  \A o \in SimpleIndices(plan) : \A n \in Operators(o.of) : n.op # "NestedLoopJoin"

\* ArgMinMaxState takes a negative base for the first row; only base 0 of a
\* slice means that.
BasesArePositive == \A o \in Operators(plan) : o.op = "ComplexArgMinMax" => o.base >= 0

\* The operations of a query and of the last elements of its chains.
RECURSIVE AllOperations(_)
AllOperations(q) ==
  ToSet(q) \cup UNION {AllOperations(w.rhs) : w \in {w \in ToSet(q) : w.op = "chain"}}
Projections(q) == {w \in AllOperations(q) : w.op = "project"}

\* The compiler does not expand "*" with a computation: it keeps what is computed
\* and the minimal projection.  The optimizer uses it, too.
NoStars ==
  \A w \in Projections(query) \cup Projections(optimized) : "*" \in w.args => w.computed = <<>>

\* The computations of a projection are made one after the other, so that one
\* may use what another one has replaced.
ComputedApart ==
  \A w \in Projections(optimized) : \A m, n \in DOMAIN w.computed :
    m < n => w.computed[m][2] \notin Uses(w.computed[n][1])

Shown(a) == [n \in DOMAIN a |-> Only(a[n], Outputs(query))]

\* The generated code returns what the query means, from a device that ignores
\* the hints, and also from one that uses them if they agree with the query.
PlanIsRight ==
  /\ pc = "compile" /\ NoStars => Typed(optimized, {})
  /\ pc = "done" /\ NoStars /\ ComputedApart /\ IndexesOneLoop /\ BasesArePositive /\ (device = {} \/ HintsAgree) =>
       Shown(result) = Shown(Meaning(query, rows, <<>>))

=============================================================================
