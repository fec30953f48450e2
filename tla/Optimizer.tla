----------------------------- MODULE Optimizer -----------------------------
(***************************************************************************)
(* optimizeExpression of lib/optimize.ts: how a query is rewritten between *)
(* the parser and the type checker.  Filters are simplified and merged;    *)
(* projections are moved outwards, merged, moved into the last element of  *)
(* a chain, and dropped where the query does not allow them.               *)
(***************************************************************************)
EXTENDS Queries

isProjection(query)      == Last(query).op = "project"
isPlainProjection(query) == isProjection(query) /\ Last(query).computed = <<>>

\* A projection around a projection.
CollapsedProjection(query, w) ==
  LET inner   == Last(query)
      IsReused(c) == \E n \in DOMAIN w.computed : c[2] \in Uses(w.computed[n][1])
      reused  == SelectSeq(inner.computed, IsReused)
      kept    == SelectSeq(inner.computed, LAMBDA c :
                   ~IsReused(c) /\ c[2] \in w.args /\ c[2] \notin ComputedNames(w))
      Names(computed) == {computed[n][2] : n \in DOMAIN computed}
      args    == w.args \ Names(kept)
  IN  (IF reused = <<>> THEN Front(query)
       ELSE Append(Front(query), Project({"*"}, reused)))
      \o << Project(IF "*" \in args THEN inner.args \cup Names(reused) ELSE args, w.computed \o kept) >>

RECURSIVE optimizeExpression(_, _)

optimizeProjection(inner, w, allow_projection) ==
  LET optimized == optimizeExpression(inner, allow_projection)
      last == Last(optimized)
  IN  CASE last.op = "chain" ->
             Append(Front(optimized), Chain(optimizeExpression(Append(last.rhs, w), allow_projection)))
        [] last.op # "chain" /\ w.computed = <<>>
             /\ ("*" \in w.args \/ ~allow_projection \/ last.op = "aggregate") -> optimized
        [] last.op = "project"
             /\ (w.computed # <<>> \/ ("*" \notin w.args /\ allow_projection)) ->
             CollapsedProjection(optimized, w)
        [] OTHER -> Append(optimized, w)

\* Mutant: the sort is moved below the projection whatever it sorts by.
optimizeSort_always(inner, w, allow_projection) ==
  LET optimized == optimizeExpression(inner, allow_projection)
  IN  IF isProjection(optimized) THEN Front(optimized) \o <<w, Last(optimized)>>
      ELSE Append(optimized, w)

\* A sort by the only computation sorts by what it computes.
optimizeSort(inner, w, allow_projection) ==
  LET optimized == optimizeExpression(inner, allow_projection)
      last  == Last(optimized)
      value == IF isVarRef(w.value) /\ ComputedNames(last) = Uses(w.value) /\ Len(last.computed) = 1
               THEN last.computed[1][1] ELSE w.value
  IN  CASE ~isProjection(optimized) -> Append(optimized, w)
        [] isProjection(optimized) /\ Uses(value) \cap ComputedNames(last) = {} ->
             Front(optimized) \o <<Sort(value, w.dir), last>>
        [] OTHER -> Append(optimized, Sort(value, w.dir))

optimizeFiltered(inner, w, allow_projection) ==
  LET filter    == optimizeFilter(w.filter)
      optimized == optimizeExpression(inner, allow_projection)
      last      == Last(optimized)
      Below(f)  == optimizeExpression(Append(Front(optimized), Filter(f)), allow_projection)
  IN  CASE filter = True -> optimized
        [] filter # True /\ last.op = "filter" -> Below(optimizeFilter(And(<<filter, last.filter>>)))
        [] filter # True /\ isPlainProjection(optimized) ->
             IF allow_projection THEN Append(Below(filter), last) ELSE Below(filter)
        [] OTHER -> Append(optimizeExpression(optimized, allow_projection), Filter(filter))

\* An index or a slice is taken of what is inside of a projection.
optimizeLimit(inner, w) ==
  LET optimized == optimizeExpression(inner, TRUE)
  IN  IF isProjection(optimized) THEN Front(optimized) \o <<w, Last(optimized)>>
      ELSE Append(optimized, w)

optimizeExpression(query, allow_projection) ==
  LET w     == Last(query)
      inner == Front(query)
  IN  CASE w.op = "get"     -> query
        [] w.op = "project" -> optimizeProjection(inner, w, allow_projection)
        [] w.op = "sort"    -> optimizeSort(inner, w, allow_projection)
        [] w.op = "filter"  -> optimizeFiltered(inner, w, allow_projection)
        [] w.op = "slice"   -> optimizeLimit(inner, IF w.limit = 1 THEN Index(<<w.base>>) ELSE w)
        [] w.op = "index"   -> optimizeLimit(inner, w)
        [] w.op = "chain"   -> Append(optimizeExpression(inner, FALSE),
                                      Chain(optimizeExpression(w.rhs, allow_projection)))
        [] w.op = "aggregate" -> Append(optimizeExpression(inner, allow_projection), w)
=============================================================================
