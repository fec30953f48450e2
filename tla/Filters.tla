------------------------------- MODULE Filters -------------------------------
(***************************************************************************)
(* Values and boolean expressions over the fields of a row, what they      *)
(* mean, and how optimizeFilter of lib/optimize.ts rewrites them.          *)
(* Subqueries are left out, and so is the order of operands.               *)
(***************************************************************************)
EXTENDS Integers, SequencesExt

(* Values.                                                                 *)
Const(n)       == <<"const", n>>
VarRef(name)   == <<"var", name>>
Computed(name) == <<"computed", name>>    \* distance(name, 7), of at most 7
Items(values)  == <<"array", values>>

isVarRef(value)   == value[1] = "var"
isConstant(value) == value[1] = "const"
Uses(value) ==
  CASE value[1] \in {"var", "computed"} -> {value[2]}
    [] value[1] = "array" -> UNION {{i[2]} : i \in {i \in ToSet(value[2]) : ~isConstant(i)}}
    [] OTHER -> {}

\* A row is a function of the names of its fields; one it lacks is undefined.
Undefined == -1
Field(row, name) == IF name \in DOMAIN row THEN row[name] ELSE Undefined
Value(value, row) ==
  CASE value[1] = "const" -> value[2]
    [] value[1] = "var"   -> Field(row, value[2])
    [] value[1] = "computed" ->
         IF Field(row, value[2]) = Undefined THEN Undefined ELSE 7 - Field(row, value[2])

(* Boolean expressions.                                                    *)
True     == <<"true">>
False    == <<"false">>
DontCare == <<"dontcare">>
And(operands)         == <<"and", operands>>
Or(operands)          == <<"or", operands>>
Not(expr)             == <<"not", expr>>
Atom(name, op, value) == <<"atom", name, op, value>>
Compute(lhs, op, rhs) == <<"compute", lhs, op, rhs>>

Compare(x, op, y) ==
  /\ x # Undefined /\ y # Undefined
  /\ CASE op \in {"==", "=~", "~="} -> x = y
       [] op = ">=" -> x >= y
       [] op = "<=" -> x <= y
       [] op = ">"  -> x > y
       [] op = "<"  -> x < y

\* lhs and rhs are values.
Comparison(lhs, op, rhs, row) ==
  IF op \in {"in_array", "in_array~"}
  THEN \E v \in ToSet(rhs[2]) : Compare(Value(lhs, row), "==", Value(v, row))
  ELSE Compare(Value(lhs, row), op, Value(rhs, row))

RECURSIVE Holds(_, _)
Holds(expr, row) ==
  CASE expr[1] \in {"true", "dontcare"} -> TRUE
    [] expr[1] = "false"   -> FALSE
    [] expr[1] = "and"     -> \A e \in ToSet(expr[2]) : Holds(e, row)
    [] expr[1] = "or"      -> \E e \in ToSet(expr[2]) : Holds(e, row)
    [] expr[1] = "not"     -> ~Holds(expr[2], row)
    [] expr[1] = "atom"    -> Comparison(VarRef(expr[2]), expr[3], expr[4], row)
    [] expr[1] = "compute" -> Comparison(expr[2], expr[3], expr[4], row)

\* The comparisons of an expression: the left sides, and the right sides.
RECURSIVE Comparisons(_)
Comparisons(expr) ==
  CASE expr[1] \in {"and", "or"} -> UNION {Comparisons(e) : e \in ToSet(expr[2])}
    [] expr[1] = "not"     -> Comparisons(expr[2])
    [] expr[1] = "atom"    -> {<<VarRef(expr[2]), expr[4]>>}
    [] expr[1] = "compute" -> {<<expr[2], expr[4]>>}
    [] OTHER -> {}
RightNames(expr)  == UNION {Uses(c[2]) : c \in Comparisons(expr)}
FilterNames(expr) == RightNames(expr) \cup UNION {Uses(c[1]) : c \in Comparisons(expr)}

-----------------------------------------------------------------------------
flipOperator(op) ==
  CASE op = "<" -> ">" [] op = "<=" -> ">=" [] op = ">" -> "<" [] op = ">=" -> "<="
    [] op = "=~" -> "~=" [] op = "~=" -> "=~" [] OTHER -> op

\* flattenAnd and flattenOr.
RECURSIVE Flattened(_, _)
Flattened(tag, expr) ==
  IF expr[1] # tag THEN <<expr>>
  ELSE FlattenSeq([n \in DOMAIN expr[2] |-> Flattened(tag, expr[2][n])])

\* The comparisons of one field by == (or =~) become one with a list.
IsAtom(expr, name, op) == expr[1] = "atom" /\ expr[2] = name /\ expr[3] = op
InArrays(operands, op, arrayOp) ==
  LET names == FoldLeft(LAMBDA seen, e : IF e[1] = "atom" /\ e[3] = op /\ e[2] \notin ToSet(seen)
                                         THEN Append(seen, e[2]) ELSE seen, <<>>, operands)
      Values(name) == LET atoms == SelectSeq(operands, LAMBDA e : IsAtom(e, name, op))
                      IN  [n \in DOMAIN atoms |-> atoms[n][4]]
  IN  [n \in DOMAIN names |->
         IF Len(Values(names[n])) = 1 THEN Atom(names[n], op, Values(names[n])[1])
         ELSE Atom(names[n], arrayOp, Items(Values(names[n])))]

SimplifiedOr(operands) ==
  Or(SelectSeq(operands, LAMBDA e : ~(e[1] = "atom" /\ e[3] \in {"==", "=~"}))
     \o InArrays(operands, "==", "in_array") \o InArrays(operands, "=~", "in_array~"))

Reflexive == {"==", "=~", ">=", "<="}

SimplifiedAtom(expr) ==
  IF expr[4] = VarRef(expr[2]) /\ expr[3] \in Reflexive THEN True ELSE expr

SimplifiedCompute(lhs, op, rhs) ==
  CASE isVarRef(lhs) -> SimplifiedAtom(Atom(lhs[2], op, rhs))
    [] ~isVarRef(lhs) /\ isVarRef(rhs) -> SimplifiedAtom(Atom(rhs[2], flipOperator(op), lhs))
    [] ~isVarRef(lhs) /\ ~isVarRef(rhs) /\ lhs = rhs /\ op \in Reflexive -> True
    [] isConstant(lhs) /\ isConstant(rhs) /\ lhs # rhs /\ op = "==" -> False
    [] isConstant(lhs) /\ ~isConstant(rhs) /\ ~isVarRef(rhs) -> Compute(rhs, flipOperator(op), lhs)
    [] OTHER -> Compute(lhs, op, rhs)

RECURSIVE optimizeFilter(_)
Operands(tag, expr, neutral) ==
  LET flat == Flattened(tag, expr)
  IN  SelectSeq([n \in DOMAIN flat |-> optimizeFilter(flat[n])], LAMBDA e : e # neutral)

optimizeFilter(expr) ==
  CASE expr[1] = "and" ->
         LET operands == Operands("and", expr, True)
         IN  IF False \in ToSet(operands) THEN False
             ELSE IF operands = <<>> THEN True
             ELSE IF Len(operands) = 1 THEN operands[1] ELSE And(operands)
    [] expr[1] = "or" ->
         LET operands == Operands("or", expr, False)
         IN  IF True \in ToSet(operands) THEN True
             ELSE IF operands = <<>> THEN False
             ELSE IF Len(operands) = 1 THEN operands[1] ELSE SimplifiedOr(operands)
    [] expr[1] = "not" ->
         LET sub == IF expr[2][1] = "not" THEN optimizeFilter(expr[2][2]) ELSE optimizeFilter(expr[2])
         IN  IF expr[2][1] = "not" THEN sub
             ELSE IF sub = True THEN False ELSE IF sub = False THEN True ELSE Not(sub)
    [] expr[1] = "compute" -> SimplifiedCompute(expr[2], expr[3], expr[4])
    [] expr[1] = "atom" -> SimplifiedAtom(expr)
    [] OTHER -> expr
=============================================================================
