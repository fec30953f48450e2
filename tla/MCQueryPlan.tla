---------------------------- MODULE MCQueryPlan ----------------------------
(* An instance of QueryPlan: the queries of up to three operations on a    *)
(* table A of up to three rows, and a table B to join it with.             *)
EXTENDS QueryPlan

MCFields(table) == IF table = "A" THEN {"id", "v"} ELSE {"id", "w"}
MCRowOf(n) == [id |-> n, v |-> <<2, 3, 1>>[n]]
OtherRow(id, w) == [id |-> id, w |-> w]
MCOther(x) ==
  CASE x = 0 -> <<OtherRow(2, 2), OtherRow(1, 4)>>
    [] x = 1 -> <<OtherRow(3, 2)>>
    [] x = 2 -> <<OtherRow(1, 1), OtherRow(2, 3)>>
    [] OTHER -> <<>>

V2 == Atom("v", ">=", Const(2))
Plain == {Filter(V2), Filter(Or(<<Atom("id", "==", Const(1)), Atom("id", "==", Const(3))>>)),
          Filter(Compute(Const(5), ">=", Computed("v"))), Filter(Atom("c", "<=", Const(5))),
          Sort(VarRef("v"), "asc"), Sort(VarRef("id"), "desc"), Sort(Computed("v"), "desc"), Sort(VarRef("c"), "asc"),
          Count, Sum("v"),
          Index(<<1>>), Index(<<2>>), Index(<<-1>>), Index(<<2, 1>>),
          Slice(0, 2), Slice(2, 2), Slice(2, 1),
          Project({"id"}, <<>>), Project({"v"}, <<>>), Project({"*"}, <<>>),
          Project({"id"}, << <<Computed("v"), "c">> >>),
          Project({"c"}, << <<Computed("id"), "v">> >>),
          Project({"*"}, << <<Computed("id"), "v">> >>),
          Project({"id"}, << <<Computed("c"), "v">> >>)}
B(passing) == <<Get("B", passing)>>
Chains == {Chain(B("id")), Chain(B("")), Chain(Append(B(""), Filter(Atom("w", ">=", Const(3))))),
           Chain(Append(B("id"), Index(<<1>>)))}

MCWrappers == Plain \cup Chains

\* What a filter is made of, and filters to optimize.
Parts == {V2, Atom("id", "==", Const(1)), Atom("id", "==", Const(3)), Atom("v", "<=", VarRef("v")),
          Compute(Const(2), "<", VarRef("v")), Compute(Const(5), ">=", Computed("v")),
          Compute(Const(1), "==", Const(2)), Compute(Computed("v"), "==", Computed("v"))}
Pairs(parts, more) == {And(<<x, y>>) : x \in parts, y \in more} \cup {Or(<<x, y>>) : x \in parts, y \in more}
MCFilters == Pairs(Parts \cup {Not(e) : e \in Parts}, Parts) \cup {Not(e) : e \in Pairs(Parts, {V2})}
             \cup Pairs(Pairs({V2, Atom("id", "==", Const(1))}, Parts), Parts)

Extended(queries) ==
  {Append(q[1], q[2]) : q \in {q \in queries \X MCWrappers : TypedStep(q[1], q[2], {})}}
Tables == {<<Get("A", "")>>}
OneDeep == Extended(Tables)
TwoDeep == Extended(OneDeep)

MCQueries == Tables \cup OneDeep \cup TwoDeep \cup Extended(TwoDeep)
             \cup {<<Get("A", ""), Filter(e)>> : e \in MCFilters}
=============================================================================
