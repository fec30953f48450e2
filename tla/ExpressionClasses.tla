--------------------------- MODULE ExpressionClasses ---------------------------
(* The nodes of a query: invocations (lib/ast/invocation.ts), expressions       *)
(* (lib/ast/expression.ts) and boolean expressions                              *)
(* (lib/ast/boolean_expression.ts).                                             *)
EXTENDS NodeClasses, TLC

(* Invocations. An attribute is a string: there are no slots inside its value.  *)
\* Mutant: a clone keeps the array of attributes.
DeviceSelector_sharesAttributes ==
    << Data("kind"), Optional(Data("id")), Shared(OnlyNew(Many(Node("attributes", "InputParam")))),
       Data("all") >>
DeviceSelector ==
    << Data("kind"), Optional(Data("id")), OnlyNew(Many(Node("attributes", "InputParam"))),
       Data("all") >>
InputParam == << Data("name"), Slot("value") >>
Invocation ==
    << Node("selector", "DeviceSelector"), Data("channel"), Many(Node("in_params", "InputParam")) >>

InvocationClass ==
    [DeviceSelector |-> DeviceSelector, InputParam |-> InputParam, Invocation |-> Invocation]

(* Expressions.                                                                 *)
FunctionCallExpression == << Data("name"), Many(Node("in_params", "InputParam")) >>
InvocationExpression == << Node("invocation", "Invocation") >>
\* Mutant: visit stops at the filter.
FilterExpression_unvisited ==
    << Node("expression", "Expression"), Unvisited(Node("filter", "BooleanExpression")) >>
FilterExpression == << Node("expression", "Expression"), Node("filter", "BooleanExpression") >>
MonitorExpression == << Node("expression", "Expression"), Optional(Many(Data("args"))) >>
BooleanQuestionExpression ==
    << Node("expression", "Expression"), Node("booleanExpression", "BooleanExpression") >>

\* visit() goes to the expression only, while the computations have slots.
ProjectionExpression ==
    << Node("expression", "Expression"), Many(Data("args")),
       Unvisited(Many(Slot("computations"))), Uncompared(Many(Data("aliases"))) >>
AliasExpression == << Node("expression", "Expression"), Data("name") >>
AggregationExpression == << Node("expression", "Expression"), Data("field"), Data("operator") >>
\* Mutant: equals forgets the direction.
SortExpression_anyDirection ==
    << Node("expression", "Expression"), Slot("value"), Uncompared(Data("direction")) >>
SortExpression == << Node("expression", "Expression"), Slot("value"), Data("direction") >>
\* Mutant: visit stops at the indices.
IndexExpression_unvisited ==
    << Node("expression", "Expression"), Unvisited(Many(Slot("indices"))) >>
IndexExpression == << Node("expression", "Expression"), Many(Slot("indices")) >>
SliceExpression == << Node("expression", "Expression"), Slot("base"), Slot("limit") >>
ChainExpression == << Many(Node("expressions", "Expression")) >>
JoinExpression == << Node("lhs", "Expression"), Node("rhs", "Expression") >>

ExpressionClass ==
    [FunctionCallExpression |-> FunctionCallExpression,
     InvocationExpression |-> InvocationExpression, FilterExpression |-> FilterExpression,
     MonitorExpression |-> MonitorExpression,
     BooleanQuestionExpression |-> BooleanQuestionExpression,
     ProjectionExpression |-> ProjectionExpression, AliasExpression |-> AliasExpression,
     AggregationExpression |-> AggregationExpression, SortExpression |-> SortExpression,
     IndexExpression |-> IndexExpression, SliceExpression |-> SliceExpression,
     ChainExpression |-> ChainExpression, JoinExpression |-> JoinExpression]

(* Boolean expressions. True and False are single objects: see SyntaxTrees.     *)
AndBooleanExpression == << Many(Node("operands", "BooleanExpression")) >>
OrBooleanExpression == << Many(Node("operands", "BooleanExpression")) >>
NotBooleanExpression == << Node("expr", "BooleanExpression") >>
\* Mutant: the value of an atom is no slot.
AtomBooleanExpression_noSlot == << Data("name"), Data("operator"), Part("value") >>
AtomBooleanExpression == << Data("name"), Data("operator"), Slot("value") >>

\* iterateSlots2 yields the selector but not its attributes, which an Invocation
\* yields.
ExternalBooleanExpression ==
    << OnlyOld(Node("selector", "DeviceSelector")), Data("channel"),
       Many(Node("in_params", "InputParam")), Node("filter", "BooleanExpression") >>
ExistentialSubqueryBooleanExpression == << Node("subquery", "Expression") >>
ComparisonSubqueryBooleanExpression ==
    << Slot("lhs"), Data("operator"), OnlyNew(Node("rhs", "Expression")) >>
ComputeBooleanExpression == << Slot("lhs"), Data("operator"), Slot("rhs") >>
DontCareBooleanExpression == << Data("name") >>
TrueBooleanExpression == << >>
FalseBooleanExpression == << >>

BooleanExpressionClass ==
    [AndBooleanExpression |-> AndBooleanExpression, OrBooleanExpression |-> OrBooleanExpression,
     NotBooleanExpression |-> NotBooleanExpression,
     AtomBooleanExpression |-> AtomBooleanExpression,
     ExternalBooleanExpression |-> ExternalBooleanExpression,
     ExistentialSubqueryBooleanExpression |-> ExistentialSubqueryBooleanExpression,
     ComparisonSubqueryBooleanExpression |-> ComparisonSubqueryBooleanExpression,
     ComputeBooleanExpression |-> ComputeBooleanExpression,
     DontCareBooleanExpression |-> DontCareBooleanExpression,
     TrueBooleanExpression |-> TrueBooleanExpression,
     FalseBooleanExpression |-> FalseBooleanExpression]

================================================================================
