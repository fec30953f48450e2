---------------------------- MODULE ProgramClasses -----------------------------
(* The nodes above an expression: statements (lib/ast/statement.ts), programs,  *)
(* permission rules and libraries (lib/ast/program.ts, permissions.ts), classes *)
(* (class_def.ts, function_def.ts), dialogues (dialogues.ts) and control        *)
(* commands (control_commands.ts). None of them has equals, except the items of *)
(* a dialogue. The maps of annotations hold data, except for the executor.      *)
EXTENDS NodeClasses, TLC

(* Statements. A declaration is a scope of its own: its slots are left alone.   *)
(* That ExpressionStatement wraps a lone expression in a chain is left out.     *)
FunctionDeclaration ==
    << Data("name"), Many(Data("args")), Many(Unslotted(Node("declarations", "FunctionDeclaration"))),
       Many(Unslotted(Node("statements", "ExecutableStatement"))), Unshown(Data("annotations")) >>
Assignment == << Data("name"), Node("value", "Expression") >>
ExpressionStatement == << Node("expression", "Expression") >>
ReturnStatement == << Node("expression", "Expression") >>
Rule == << Node("stream", "Stream"), Many(Node("actions", "Action")) >>
Command == << Optional(Node("table", "Table")), Many(Node("actions", "Action")) >>
Example ==
    << Data("id"), Data("type"), Many(Data("args")), Node("value", "Expression"),
       Many(Data("utterances")), Many(Data("preprocessed")), Data("annotations") >>
Dataset == << Data("name"), Many(Node("examples", "Example")), Data("annotations") >>

StatementClass ==
    [FunctionDeclaration |-> FunctionDeclaration, Assignment |-> Assignment,
     ExpressionStatement |-> ExpressionStatement, ReturnStatement |-> ReturnStatement,
     Rule |-> Rule, Command |-> Command, Example |-> Example, Dataset |-> Dataset]

(* Classes. A function shares its arguments with its clones.                    *)
ClassDef ==
    << Data("kind"), Shared(Many(Data("extends"))), Many(Unslotted(Node("imports", "MixinImportStmt"))),
       Many(Unslotted(Node("entities", "EntityDef"))), Many(Unslotted(Node("queries", "FunctionDef"))),
       Many(Unslotted(Node("actions", "FunctionDef"))), Data("annotations"), Data("is_abstract") >>
MixinImportStmt ==
    << Many(Data("facets")), Data("module"), Many(Unslotted(Node("in_params", "InputParam"))) >>
EntityDef == << Data("name"), Shared(Many(Data("extends"))), Data("annotations") >>
ArgumentDef == << Data("direction"), Data("name"), Data("type"), Data("annotations") >>
FunctionDef ==
    << Data("functionType"), Data("name"), Shared(Many(Data("extends"))), Data("qualifiers"),
       Shallow(Many(Unslotted(Node("args", "ArgumentDef")))), Data("annotations") >>

DefinitionClass ==
    [ClassDef |-> ClassDef, MixinImportStmt |-> MixinImportStmt, EntityDef |-> EntityDef,
     ArgumentDef |-> ArgumentDef, FunctionDef |-> FunctionDef]

(* Inputs. The annotation "executor" of a program, an entity, is a slot, no     *)
(* part of visit() and the same value in the clone.                             *)
Program ==
    << Many(Unslotted(Node("classes", "ClassDef"))), Many(Node("declarations", "FunctionDeclaration")),
       Many(Node("statements", "TopLevelStatement")),
       Shared(Unvisited(Optional([Slot("executor") EXCEPT !.kind = "EntityValue"]))), Data("annotations") >>
PermissionRule ==
    << Node("principal", "BooleanExpression"), Node("query", "PermissionFunction"),
       Node("action", "PermissionFunction") >>
Library == << Many(Unslotted(Node("classes", "ClassDef"))), Many(Node("datasets", "Dataset")) >>
ControlCommand == << Unslotted(Node("intent", "ControlIntent")) >>

\* The history decides what is current and next: the two pointers are computed.
DialogueState ==
    << Data("policy"), Data("dialogueAct"), Optional(Many(Unvisited(Part("dialogueActParam")))),
       Many(Node("history", "DialogueHistoryItem")), Data("annotations") >>

InputClass ==
    [Program |-> Program, PermissionRule |-> PermissionRule, Library |-> Library,
     ControlCommand |-> ControlCommand, DialogueState |-> DialogueState]

(* Dialogues. The clone of a result holds the same values in a map of its own.  *)
DialogueHistoryResultItem == << Shallow(Many(Slot("value"))) >>
DialogueHistoryResultList ==
    << Many(OnlyNew(Node("results", "DialogueHistoryResultItem"))), Unvisited(Part("count")),
       Data("more"), Shared(Optional(Part("error"))) >>
DialogueHistoryItem ==
    << Printed(Node("stmt", "ExpressionStatement")),
       OnlyNew(Optional(Node("results", "DialogueHistoryResultList"))), Data("confirm"),
       Uncompared(Data("annotations")) >>

DialogueClass ==
    [DialogueHistoryResultItem |-> DialogueHistoryResultItem,
     DialogueHistoryResultList |-> DialogueHistoryResultList,
     DialogueHistoryItem |-> DialogueHistoryItem]

(* Control intents, and the functions of a permission rule. Builtin and Star    *)
(* are single objects: see SyntaxTrees.                                         *)
SpecialControlIntent == << Data("type") >>
ChoiceControlIntent == << Data("value") >>
AnswerControlIntent == << Shared(Part("value")) >>

ControlIntentClass ==
    [SpecialControlIntent |-> SpecialControlIntent, ChoiceControlIntent |-> ChoiceControlIntent,
     AnswerControlIntent |-> AnswerControlIntent]

SpecifiedPermissionFunction == << Data("kind"), Data("channel"), Node("filter", "BooleanExpression") >>
BuiltinPermissionFunction == << >>
ClassStarPermissionFunction == << Data("kind") >>
StarPermissionFunction == << >>

PermissionFunctionClass ==
    [SpecifiedPermissionFunction |-> SpecifiedPermissionFunction,
     BuiltinPermissionFunction |-> BuiltinPermissionFunction,
     ClassStarPermissionFunction |-> ClassStarPermissionFunction,
     StarPermissionFunction |-> StarPermissionFunction]

================================================================================
