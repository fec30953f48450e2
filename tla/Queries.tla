------------------------------ MODULE Queries ------------------------------
(***************************************************************************)
(* Queries and what they mean.  A query is a sequence of operations, the   *)
(* innermost first: the invocation of a function of a device, and the      *)
(* operations around it.  The functions that index, slice and sort an      *)
(* array are those of lib/runtime/sort_index_ops.ts.                       *)
(***************************************************************************)
EXTENDS Filters, FiniteSets, TLC

Get(table, passing)     == [op |-> "get", table |-> table, passing |-> passing]
Filter(expr)            == [op |-> "filter", filter |-> expr]
Sort(value, dir)        == [op |-> "sort", value |-> value, dir |-> dir]
Index(indices)          == [op |-> "index", indices |-> indices]
Slice(base, n)          == [op |-> "slice", base |-> base, limit |-> n]
Count                   == [op |-> "aggregate", operator |-> "count", field |-> "count"]
Sum(field)              == [op |-> "aggregate", operator |-> "sum", field |-> field]
\* The rows of this query with those of another one.
Chain(rhs)              == [op |-> "chain", rhs |-> rhs]
\* args may have "*"; the computations are pairs of a value and its name.
Project(args, computed) == [op |-> "project", args |-> args, computed |-> computed]

ComputedNames(w) == {w.computed[n][2] : n \in DOMAIN w.computed}

CONSTANTS
  Fields(_),   \* the fields of a table
  Other(_)     \* the rows of the other table, given what is passed to it, or 0

\* What a projection keeps although it does not name it.
Minimal(outputs) == outputs \cap {"id"}

\* The outputs of a query; those of a chain are the ones of its last element.
RECURSIVE Outputs(_)
Outputs(query) ==
  LET w == Last(query)
      outputs == Outputs(Front(query))
  IN  CASE w.op = "get"       -> Fields(w.table)
        [] w.op = "chain"     -> Outputs(w.rhs)
        [] w.op = "aggregate" -> {w.field}
        [] w.op = "project"   -> (IF "*" \in w.args THEN outputs ELSE w.args \cup Minimal(outputs))
                                 \cup ComputedNames(w)
        [] OTHER -> outputs

\* The type checker accepts the query, in a scope that has the names outer.
RECURSIVE Typed(_, _)
TypedStep(inner, w, outer) ==
  LET outputs == Outputs(inner)
  IN  CASE w.op = "filter"    -> FilterNames(w.filter) \ outer \subseteq outputs
        [] w.op = "sort"      -> Uses(w.value) \subseteq outputs
        [] w.op = "aggregate" -> w.operator = "count" \/ w.field \in outputs
        [] w.op = "chain"     -> Typed(w.rhs, outputs)
        [] w.op = "project"   ->
             /\ "*" \in w.args \/ w.args \subseteq outputs
             /\ \A n \in DOMAIN w.computed : Uses(w.computed[n][1]) \subseteq outputs
             /\ w.computed = <<>> => w.args # {} /\ Cardinality(outputs) # 1
        [] OTHER -> TRUE

Typed(query, outer) ==
  /\ query[1].passing \in {""} \cup outer
  /\ \A n \in 2 .. Len(query) : TypedStep(SubSeq(query, 1, n - 1), query[n], outer)

-----------------------------------------------------------------------------
\* Array.prototype.slice for any start, and an end that is not negative.
jsSlice(a, start, end) ==
  SubSeq(a, (IF start < 0 THEN IF Len(a) + start < 0 THEN 0 ELSE Len(a) + start ELSE start) + 1,
            IF end > Len(a) THEN Len(a) ELSE end)

sortArray(a, value, dir) ==
  SortSeq(a, LAMBDA x, y : Compare(Value(value, x), IF dir = "asc" THEN "<" ELSE ">", Value(value, y)))

indexArray(a, indices) ==
  LET valid == SelectSeq(indices, LAMBDA i : i # 0 /\ i \in -Len(a) .. Len(a))
  IN  [k \in DOMAIN valid |-> a[IF valid[k] < 0 THEN Len(a) + valid[k] + 1 ELSE valid[k]]]

sliceArray(a, base, limit) ==
  LET b == IF base = 0 THEN 1 ELSE base
      n == IF base = 0 THEN limit - 1 ELSE limit
  IN  IF base \notin -Len(a) .. Len(a) \/ n <= 0 THEN <<>>
      ELSE IF b < 0 THEN jsSlice(a, Len(a) + b - n + 1, Len(a) + b + 1)
      ELSE jsSlice(a, b - 1, b - 1 + n)

Aggregated(a, w) ==
  w.field :> IF w.operator = "count" THEN Len(a)
             ELSE FoldLeft(LAMBDA sum, row : sum + Field(row, w.field), 0, a)

Only(row, names) == [name \in names \cap DOMAIN row |-> row[name]]

\* A row with the values of a projection; they all come from the row itself.
WithComputed(row, w) ==
  [name \in ComputedNames(w) |->
     LET n == CHOOSE n \in DOMAIN w.computed : w.computed[n][2] = name
     IN  Value(w.computed[n][1], row)] @@ row

\* The rows that a query returns, from a first table that has the given rows; an
\* element of a chain takes what is passed to it from the row outer.
RECURSIVE Meaning(_, _, _)
Meaning(query, rows, outer) ==
  LET w == Last(query)
      a == Meaning(Front(query), rows, outer)
  IN  CASE w.op = "get"       -> IF w.table = "B" THEN Other(IF w.passing = "" THEN 0 ELSE outer[w.passing])
                                 ELSE rows
        [] w.op = "filter"    -> SelectSeq(a, LAMBDA row : Holds(w.filter, row))
        [] w.op = "sort"      -> sortArray(a, w.value, w.dir)
        [] w.op = "index"     -> indexArray(a, w.indices)
        [] w.op = "slice"     -> sliceArray(a, w.base, w.limit)
        [] w.op = "aggregate" -> <<Aggregated(a, w)>>
        [] w.op = "project"   ->
             [n \in DOMAIN a |-> Only(WithComputed(a[n], w), Outputs(query))]
        [] w.op = "chain"     ->
             FlattenSeq([n \in DOMAIN a |->
               LET rhs == Meaning(w.rhs, rows, a[n])
               IN  [m \in DOMAIN rhs |-> rhs[m] @@ a[n]]])
=============================================================================
