----------------------------- MODULE MCSyntaxTrees -----------------------------
(* SyntaxTrees with the classes of lib/ast. The client starts from two trees of *)
(* the same class: the plainest one, and one that differs from it in one field; *)
(* or from two items of a dialogue whose devices have several attributes.       *)
EXTENDS SyntaxTrees

\* The texts: two names, the second one also the start of a unit to be chosen.
TextBefore(a, b) == a = "default" /\ b # "default"
Text == << "x", << >> >>
OtherText == << "default", << >> >>

\* The classes that a field of a kind may hold, the plainest one first.
KindClasses(kind) ==
    CASE kind = "Value" -> {"VarRefValue"} \union DOMAIN ValueClass
      [] kind = "Location" -> DOMAIN LocationClass
      [] kind = "Time" -> DOMAIN TimeClass
      [] kind = "Date" -> DOMAIN DateClass
      [] kind = "Expression" -> DOMAIN ExpressionClass
      [] kind = "BooleanExpression" -> DOMAIN BooleanExpressionClass
      [] kind = "Table" -> DOMAIN TableClass
      [] kind = "Stream" -> DOMAIN StreamClass
      [] kind = "Action" -> DOMAIN ActionClass
      [] kind = "ExecutableStatement" -> {"Assignment", "ExpressionStatement", "ReturnStatement"}
      [] kind = "TopLevelStatement" -> {"Assignment", "ExpressionStatement"}
      [] kind = "ControlIntent" -> DOMAIN ControlIntentClass
      [] kind = "PermissionFunction" -> DOMAIN PermissionFunctionClass
      [] OTHER -> {kind}

Plainest(kind) ==
    CASE kind = "Value" -> "VarRefValue"
      [] kind = "Location" -> "AbsoluteLocation"
      [] kind = "Time" -> "AbsoluteTime"
      [] kind = "Expression" -> "FunctionCallExpression"
      [] kind = "BooleanExpression" -> "AtomBooleanExpression"
      [] kind = "Table" -> "VarRefTable"
      [] kind = "Stream" -> "VarRefStream"
      [] kind = "Action" -> "VarRefAction"
      [] kind \in {"ExecutableStatement", "TopLevelStatement"} -> "ExpressionStatement"
      [] kind = "ControlIntent" -> "SpecialControlIntent"
      [] kind = "PermissionFunction" -> "SpecifiedPermissionFunction"
      [] OTHER -> kind

\* The plainest tree of a class: null where it may be, one element per array.
RECURSIVE Plain(_)
PlainOf(field) == IF field.kind = "data" THEN Text ELSE Plain(Plainest(field.kind))
PlainField(field) ==
    CASE field.optional -> << "null", << >> >>
      [] field.kind = "FunctionDeclaration" -> << "List", << >> >>
      [] field.many -> << "List", << PlainOf(field) >> >>
      [] OTHER -> PlainOf(field)
Plain(c) == << c, << >> \o [k \in DOMAIN Class[c] |-> PlainField(Class[c][k])] >>

\* A parameter without a value, a statement with such a parameter.
Missing == << "InputParam", << Text, Plain("UndefinedValue") >> >>
Incomplete ==
    << "ExpressionStatement", << << "FunctionCallExpression", << Text, << "List", << Missing >> >> >> >> >> >>

\* What else a field may hold: another text, each class of its kind; an array
\* with one element of these, with none or with two.
OthersOf(field) ==
    CASE field.kind = "data" -> {Text, OtherText}
      [] field.kind = "InputParam" ->
            {Plain("InputParam"), Missing, << "InputParam", << OtherText, Plain("VarRefValue") >> >>}
      [] field.kind = "DeviceSelector" ->
            {Plain("DeviceSelector"),
             << "DeviceSelector", [Plain("DeviceSelector")[2] EXCEPT ![3] = << "List", << Missing >> >>] >>}
      [] field.kind = "FunctionDeclaration" ->
            {Plain("FunctionDeclaration"),
             << "FunctionDeclaration",
                [Plain("FunctionDeclaration")[2] EXCEPT ![4] = << "List", << Incomplete >> >>] >>}
      [] OTHER ->
            {Plain(c) : c \in KindClasses(field.kind)} \union
            {s \in {Incomplete} : field.kind \in {"ExecutableStatement", "TopLevelStatement"}}
OtherFields(field) ==
    IF field.many
    THEN {<< "List", << o >> >> : o \in OthersOf(field)} \union
         {<< "List", << >> >>} \union {<< "List", << PlainOf(field), o >> >> : o \in OthersOf(field)}
    ELSE OthersOf(field)

Variants(c) ==
    {Plain(c)} \union
    UNION {{<< c, [Plain(c)[2] EXCEPT ![k] = o] >> : o \in OtherFields(Class[c][k])} :
              k \in DOMAIN Class[c]}

\* An example of every variant of an expression: what toProgram() goes through.
Examples ==
    {<< "Example", [Plain("Example")[2] EXCEPT ![4] = v] >> :
        v \in UNION {Variants(c) : c \in DOMAIN ExpressionClass}}

\* Items of a dialogue whose statements differ in the attributes of a selector,
\* or only in their order.
Attributes ==
    {<< Plain("InputParam") >>} \union
    {<< << "InputParam", << first, Plain("VarRefValue") >> >>, << "InputParam", << second, Plain("VarRefValue") >> >> >> :
        first \in {Text, OtherText}, second \in {Text, OtherText}}
Items ==
    {<< "DialogueHistoryItem",
        [Plain("DialogueHistoryItem")[2] EXCEPT ![1] =
            << "ExpressionStatement", << << "InvocationExpression", << << "Invocation",
               [Plain("Invocation")[2] EXCEPT ![1] =
                   << "DeviceSelector", [Plain("DeviceSelector")[2] EXCEPT ![3] = << "List", list >>] >>] >> >> >> >> >>] >> :
        list \in Attributes}

\* Trees put on the heap, one after the other; ids are their roots.
RECURSIVE Grow(_, _)
FieldsOf(class) == IF class \in DOMAIN Class THEN Class[class] ELSE << >>
Rooted(kids, class, ids) ==
    [heap |-> Append(kids.heap, [class |-> class, fields |-> FieldsOf(class), kids |-> kids.ids]),
     ids |-> Append(ids, Len(kids.heap) + 1)]
Planted(built, tree) ==
    IF tree[1] = "null" THEN [built EXCEPT !.ids = Append(@, Null)]
    ELSE Rooted(Grow([heap |-> built.heap, ids |-> << >>], tree[2]), tree[1], built.ids)
Grow(built, trees) ==
    IF Len(built.ids) = Len(trees) THEN built
    ELSE Grow(Planted(built, trees[Len(built.ids) + 1]), trees)

StartOf(built) == [heap |-> built.heap, roots |-> built.ids]
Start(tree, other) == StartOf(Grow([heap |-> Fixed, ids |-> << >>], << tree, other >>))

AllStarts ==
    UNION {{Start(v, Plain(c)) : v \in Variants(c)} : c \in DOMAIN Class}
    \union {Start(v, Plain("Example")) : v \in Examples}
    \union {Start(v, w) : v \in Items, w \in Items}

MCStarts == AllStarts
MCBefore(a, b) == TextBefore(a, b)

================================================================================
