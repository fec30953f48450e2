------------------------------ MODULE SyntaxTrees ------------------------------
(* The trees that a client of lib/ast holds, and what it does with them: clone  *)
(* a tree, fill a slot that iterateSlots2 yields, print it, turn an example or  *)
(* a declaration into a program. Trees are objects on a heap, so that what a    *)
(* clone shares with its original is seen; what a class does with its fields is *)
(* its description in Class.                                                    *)
(*                                                                              *)
(* An object is [class, fields, kids]: the name of its class, the fields of the *)
(* class (NodeClasses), and the objects that they hold. An array is an object   *)
(* of class "List"; plain data is an object without kids whose class is the     *)
(* text. A place is <<object, index>>: what a slot reads and writes.            *)
EXTENDS Naturals, FiniteSets, SequencesExt,
        ValueClasses, ExpressionClasses, ProgramClasses, LegacyClasses

CONSTANTS
    Starts,           \* what the client starts from: heaps and trees on them
    Before(_, _),     \* the order of strings
    MaxTrees,         \* bound: trees the client holds
    MaxEdits          \* bound: slots filled and trees printed

VARIABLES
    heap,    \* the objects
    roots,   \* the trees the client holds
    edits    \* slots filled and trees printed so far

vars == << heap, roots, edits >>

\* The classes: name -> sequence of fields (NodeClasses).
Class ==
    LocationClass @@ TimeClass @@ DateClass @@ [RecurrentTimeRule |-> RecurrentTimeRule]
    @@ ValueClass @@ InvocationClass @@ ExpressionClass @@ BooleanExpressionClass
    @@ StatementClass @@ DefinitionClass @@ InputClass @@ DialogueClass
    @@ ControlIntentClass @@ PermissionFunctionClass
    @@ TableClass @@ StreamClass @@ ActionClass

\* The classes with one object: clone() returns it, equals() is ===.
Singletons ==
    {"TrueBooleanExpression", "FalseBooleanExpression", "BuiltinPermissionFunction",
     "StarPermissionFunction"}

\* The classes of values and of the objects values are made of.
Values ==
    DOMAIN ValueClass \union DOMAIN LocationClass \union DOMAIN TimeClass \union DOMAIN DateClass
    \union {"RecurrentTimeRule"}

\* The classes with equals().
Comparable ==
    Values \union {"DeviceSelector", "InputParam"} \union DOMAIN ExpressionClass
    \union DOMAIN BooleanExpressionClass \union DOMAIN DialogueClass

\* The classes whose toSource() throws.
Unprintable ==
    (DOMAIN TableClass \union DOMAIN StreamClass)
        \ {"VarRefTable", "InvocationTable", "VarRefStream"}

\* The objects that are always there: null, an empty array, the name of a
\* parameter of a program, and the value that slots are filled with.
Null == 1
Nil == 2
ConstSlot == 3
Given == 5
Bare(class, kids) == [class |-> class, fields |-> << >>, kids |-> kids]
Fixed ==
    << Bare("null", << >>), Bare("List", << >>), Bare("__const_SLOT_0", << >>), Bare("given", << >>),
       [class |-> "StringValue", fields |-> StringValue, kids |-> << 4 >>] >>

Fields(h, i) == h[i].fields

\* The places that field k of object i has: itself, or the places of its array.
Places(h, i, k) ==
    LET o == h[i].kids[k]
    IN IF Fields(h, i)[k].many THEN {<< o, n >> : n \in DOMAIN h[o].kids}
       ELSE {<< i, k >>} \ (IF o = Null THEN {<< i, k >>} ELSE {})

At(h, place) == h[place[1]].kids[place[2]]
Put(h, place, o) == [h EXCEPT ![place[1]].kids[place[2]] = o]
Held(h, i, k) == {At(h, p) : p \in Places(h, i, k)}

\* The classes of the kids of object i.
KidClasses(h, i) == [k \in DOMAIN h[i].kids |-> h[h[i].kids[k]].class]

--------------------------------------------------------------------------------
(* What the methods of a node see of the tree below it.                         *)

\* The objects below each object, through the fields of a class that Follows admits.
Below(h, Follows(_, _)) ==
    LET follows(i, k) == Follows(h[i].class, Fields(h, i)[k])
        below[i \in DOMAIN h] ==
            {i} \union UNION {UNION {below[j] : j \in Held(h, i, k)} :
                                 k \in {l \in DOMAIN Fields(h, i) : follows(i, l)}}
    IN below

\* visit(): the nodes on which the visitor is called.
Visited(h) == Below(h, LAMBDA c, field : field.visited)

\* toSource(): the nodes that are printed, except in and below the fields of
\* apart, each << class, field >>.
PrintedBut(h, apart) == Below(h, LAMBDA c, field : field.shown /\ << c, field.name >> \notin apart)

\* iterateSlots2(): the places it yields, except those in and below the fields
\* of apart.
SlotsBut(h, apart) ==
    LET below(slots, i, k) ==
            LET field == Fields(h, i)[k]
            IN CASE << h[i].class, field.name >> \in apart \/ field.slots = "none" -> {}
                 [] field.slots = "inside" -> UNION {slots[j] : j \in Held(h, i, k)}
                 [] field.slots = "slot" ->
                        UNION {{p} \union slots[At(h, p)] : p \in Places(h, i, k)}
        slots[i \in DOMAIN h] == UNION {below(slots, i, k) : k \in DOMAIN Fields(h, i)}
    IN slots

Slots(h) == SlotsBut(h, {})

\* iterateSlots(): the parameters and atoms that it yields.
OldSlots(h) ==
    LET old[i \in DOMAIN h] ==
            {j \in {i} : h[j].class \in {"InputParam", "AtomBooleanExpression"}}
            \union UNION {UNION {old[j] : j \in Held(h, i, k)} :
                             k \in {l \in DOMAIN Fields(h, i) : Fields(h, i)[l].old}}
    IN old

\* What a tree says: the shown fields, except those of apart.
ContentBut(h, apart) ==
    LET shown(i, k) == \/ Fields(h, i) = << >>
                       \/ /\ Fields(h, i)[k].shown
                          /\ << h[i].class, Fields(h, i)[k].name >> \notin apart
        content[i \in DOMAIN h] ==
            << h[i].class,
               [k \in DOMAIN h[i].kids |-> IF shown(i, k) THEN content[h[i].kids[k]] ELSE << >>] >>
    IN content

Content(h) == ContentBut(h, {})

\* toSource() sorts the attributes of each selector by name, in the tree.
SortedAttributes(h, selector) ==
    LET name(i) == h[h[i].kids[1]].class
    IN SortSeq(h[h[selector].kids[3]].kids, LAMBDA i, j : Before(name(i), name(j)))

\* The heap after object i has been printed.
AfterPrinting(h, i) ==
    LET selectors == {j \in PrintedBut(h, {})[i] : h[j].class = "DeviceSelector"}
        sorts(o) == {s \in selectors : h[s].kids[3] = o}
    IN [o \in DOMAIN h |->
            IF sorts(o) = {} THEN h[o]
            ELSE [h[o] EXCEPT !.kids = SortedAttributes(h, CHOOSE s \in sorts(o) : TRUE)]]

\* What object i prints as.
Prints(h, i) == Content(AfterPrinting(h, i))[i]

\* equals(): what it answers.
Equals(h) ==
    LET same(equals, field, a, b) ==
            CASE field.compared = "skipped" -> TRUE
              [] field.compared = "same" -> equals[a, b]
              [] field.compared = "printed" -> Prints(h, a) = Prints(h, b)
              [] field.compared = "inverted" ->
                     /\ Len(h[a].kids) = Len(h[b].kids)
                     /\ \A n \in DOMAIN h[a].kids : ~equals[h[a].kids[n], h[b].kids[n]]
        equals[i, j \in DOMAIN h] ==
            /\ h[i].class = h[j].class
            /\ h[i].class \in Singletons => i = j
            /\ Len(h[i].kids) = Len(h[j].kids)
            /\ \A k \in DOMAIN h[i].kids :
                  IF Fields(h, i) = << >> THEN equals[h[i].kids[k], h[j].kids[k]]
                  ELSE same(equals, Fields(h, i)[k], h[i].kids[k], h[j].kids[k])
    IN equals

\* The heap after equals(): two items of a dialogue print their statements, to
\* compare them, once they agree in confirm.
AfterEquals(h, i, j) ==
    IF /\ i # j /\ h[i].class = "DialogueHistoryItem" /\ h[j].class = "DialogueHistoryItem"
       /\ Equals(h)[h[i].kids[3], h[j].kids[3]]
    THEN AfterPrinting(AfterPrinting(h, h[i].kids[1]), h[j].kids[1])
    ELSE h

\* The values for which isExecutable() answers no.
Unready(h, i) == h[i].class = "UndefinedValue" \/ ~IsConcrete(h[i].class, KidClasses(h, i))

--------------------------------------------------------------------------------
(* Cloning.                                                                     *)

\* The objects that clone() makes anew.
Copied(h) ==
    LET array(i, k) == {h[i].kids[k]} \ {Null}
        field(copied, i, k) ==
            LET f == Fields(h, i)[k]
            IN (IF f.many /\ f.cloned # "shared" THEN array(i, k) ELSE {})
               \union (IF f.kind # "data" /\ f.cloned = "deep"
                       THEN UNION {copied[j] : j \in Held(h, i, k)} ELSE {})
        copied[i \in DOMAIN h] ==
            IF h[i].class \in Singletons THEN {}
            ELSE {i} \union UNION {field(copied, i, k) : k \in DOMAIN Fields(h, i)}
    IN copied

\* Where the copy of object i of the set copied goes, behind the objects of h.
Moved(h, copied, i) ==
    IF i \in copied THEN Len(h) + Cardinality({j \in copied : j <= i}) ELSE i

\* The heap with copies of these objects.
WithCopies(h, copied) ==
    h \o [n \in 1 .. Cardinality(copied) |->
             LET i == CHOOSE j \in copied : Moved(h, copied, j) = Len(h) + n
             IN [h[i] EXCEPT !.kids = [k \in DOMAIN @ |-> Moved(h, copied, @[k])]]]

--------------------------------------------------------------------------------
(* What the client does.                                                        *)

Init == \E start \in Starts : heap = start.heap /\ roots = start.roots /\ edits = 0

Clone(t) ==
    LET copied == Copied(heap)[roots[t]]
    IN /\ Len(roots) < MaxTrees
       /\ heap' = WithCopies(heap, copied)
       /\ roots' = Append(roots, Moved(heap, copied, roots[t]))
       /\ UNCHANGED edits

\* Slot.set() of a slot of tree t.
SetSlot(t, place) ==
    /\ edits < MaxEdits
    /\ edits' = edits + 1
    /\ heap' = Put(heap, place, Given)
    /\ UNCHANGED roots

ToSource(t) ==
    /\ \A i \in PrintedBut(heap, {})[roots[t]] : heap[i].class \notin Unprintable
    /\ edits < MaxEdits
    /\ edits' = edits + 1
    /\ heap' = AfterPrinting(heap, roots[t])
    /\ UNCHANGED roots

\* Trees t and u are compared, which is an edit of both if it prints them.
Compare(t, u) ==
    /\ {heap[roots[t]].class, heap[roots[u]].class} \subseteq Comparable
    /\ heap' = AfterEquals(heap, roots[t], roots[u])
    /\ heap' # heap /\ edits < MaxEdits
    /\ edits' = edits + 1
    /\ UNCHANGED roots

\* The names of the parameters of an example or a declaration.
Parameters(h, i) ==
    LET k == CHOOSE l \in DOMAIN Fields(h, i) : Fields(h, i)[l].name = "args"
    IN {h[o].class : o \in Held(h, i, k)}

\* new ExpressionStatement(), new Program().
Statement(expression) ==
    [class |-> "ExpressionStatement", fields |-> ExpressionStatement, kids |-> << expression >>]
NewProgram(declarations, statements) ==
    [class |-> "Program", fields |-> Program, kids |-> << Nil, declarations, statements, Null, Nil >>]

\* toProgram(), up to the renaming: the program at the end of the heap that runs
\* the clone of the example, or the clones of the body of the declaration.
ExampleProgram(h, i) ==
    LET copied == Copied(h)[h[i].kids[4]]
        g == WithCopies(h, copied)
    IN g \o << Statement(Moved(h, copied, h[i].kids[4])), Bare("List", << Len(g) + 1 >>),
               NewProgram(Nil, Len(g) + 2) >>

DeclarationProgram(h, i) ==
    LET copied == Copied(h)[i]
        returns == {Moved(h, copied, j) : j \in {s \in Held(h, i, 4) : h[s].class = "ReturnStatement"}}
        g == WithCopies(h, copied)
    IN [o \in DOMAIN g |->
            IF o \in returns THEN Statement(g[o].kids[1]) ELSE g[o]]
       \o << NewProgram(Moved(h, copied, h[i].kids[3]), Moved(h, copied, h[i].kids[4])) >>

\* The renaming: every parameter that the visitor finds becomes a constant.
WithConstants(h, root, parameters) ==
    LET uses == {i \in Visited(h)[root] :
                    h[i].class = "VarRefValue" /\ h[h[i].kids[1]].class \in parameters}
    IN [o \in DOMAIN h |-> IF o \in uses THEN [h[o] EXCEPT !.kids = << ConstSlot >>] ELSE h[o]]

ToProgram(t) ==
    LET i == roots[t]
        h == IF heap[i].class = "Example" THEN ExampleProgram(heap, i) ELSE DeclarationProgram(heap, i)
    IN /\ heap[i].class \in {"Example", "FunctionDeclaration"}
       /\ Len(roots) < MaxTrees
       /\ heap' = WithConstants(h, Len(h), Parameters(heap, i))
       /\ roots' = Append(roots, Len(h))
       /\ UNCHANGED edits

\* What is done with tree t; apart: the fields whose slots are left alone.
Step(t, apart) ==
    \/ Clone(t)
    \/ \E place \in SlotsBut(heap, apart)[roots[t]] : SetSlot(t, place)
    \/ ToSource(t)
    \/ ToProgram(t)

Next == \E t \in DOMAIN roots : Step(t, {}) \/ \E u \in DOMAIN roots : Compare(t, u)

Spec == Init /\ [][Next]_vars

--------------------------------------------------------------------------------
(* Properties.                                                                  *)

Says(t) == Content(heap)[roots[t]]

\* The trees are independent: what is done with one of them, a slot filled, the
\* attributes sorted, a clone or a program made of it, changes no other, and a
\* comparison changes none but the two; so no clone() shares with its original
\* what another method edits in place. Left apart: the slots in a result of a
\* dialogue, whose clone shares the values.
EditsStayInTree ==
    [][\A t, u \in DOMAIN roots :
          /\ t # u /\ Step(t, {<< "DialogueHistoryResultItem", "value" >>}) => Says(u)' = Says(u)
          /\ Compare(t, u) => \A v \in DOMAIN roots \ {t, u} : Says(v)' = Says(v)]_vars

\* A clone says what its original says, and equals() agrees; except for an
\* object or an argument map, which equals nothing that has the same entries.
Negated(h) == {i \in DOMAIN h : h[i].class \in {"ObjectValue", "ArgMapValue"} /\ h[h[i].kids[1]].kids # << >>}
CloneIsEqual ==
    [][\A t \in DOMAIN roots :
          Clone(t) =>
             LET copy == Last(roots')
             IN /\ Content(heap')[copy] = Says(t)
                /\ \/ heap[roots[t]].class \notin Comparable
                   \/ PrintedBut(heap, {})[roots[t]] \cap Negated(heap) # {}
                   \/ Equals(heap')[roots[t], copy]]_vars

\* What equals() leaves out, or compares the wrong way round.
NotCompared ==
    {<< "ProjectionExpression", "aliases" >>, << "EntityValue", "display" >>,
     << "ContextRefValue", "type" >>, << "RecurrentTimeRule", "subtract" >>,
     << "DialogueHistoryItem", "annotations" >>, << "ObjectValue", "value" >>,
     << "ArgMapValue", "value" >>}

\* Trees that are equal say the same, these fields apart, after any edits and
\* with what the comparison itself has sorted: the optimizer takes a comparison
\* of two equal values for true.
EqualsIsSound ==
    \A t, u \in DOMAIN roots :
        heap[roots[t]].class \in Comparable /\ Equals(heap)[roots[t], roots[u]]
        => LET content == ContentBut(AfterEquals(heap, roots[t], roots[u]), NotCompared)
           IN content[roots[t]] = content[roots[u]]

\* What visit() misses although iterateSlots2() yields it.
NotVisited == {<< "ProjectionExpression", "computations" >>, << "Program", "executor" >>}

\* Every value that can be filled is visited, these fields apart: so no value is
\* still missing when isExecutable(), which visits, says that a statement is
\* ready, and none escapes a visitor that rewrites values.
SlotsAreVisited ==
    \A t \in DOMAIN roots :
        \A place \in SlotsBut(heap, NotVisited)[roots[t]] : At(heap, place) \in Visited(heap)[roots[t]]

\* What iterateSlots2() misses although it is visited.
NotSlotted ==
    {<< "ExternalBooleanExpression", "selector" >>, << "JoinTable", "in_params" >>,
     << "JoinStream", "in_params" >>, << "TimerStream", "frequency" >>,
     << "MixinImportStmt", "in_params" >>, << "FunctionDeclaration", "statements" >>,
     << "AnswerControlIntent", "value" >>, << "DialogueHistoryResultList", "error" >>}

\* Every value that keeps a tree from being executable can be filled, these
\* fields apart: it is, or is part of, the value of a slot. And iterateSlots2()
\* offers a client whatever the deprecated iterateSlots() offers. This is about
\* values: a parameter that is required and not there is none.
HolesAreSlots ==
    LET visited == Below(heap, LAMBDA c, field : field.visited /\ << c, field.name >> \notin NotSlotted)
    IN \A t \in DOMAIN roots :
          /\ heap[roots[t]].class \notin Values =>
                \A i \in visited[roots[t]] :
                   Unready(heap, i) => \E place \in Slots(heap)[roots[t]] : i \in visited[At(heap, place)]
          /\ \A i \in OldSlots(heap)[roots[t]] : \E place \in Slots(heap)[roots[t]] : place[1] = i

\* No parameter of tree t is left in the program made of it, these fields apart.
ReplacesBut(apart) ==
    \A t \in DOMAIN roots :
        ToProgram(t) =>
           \A i \in PrintedBut(heap', apart)[Last(roots')] :
              heap'[i].class = "VarRefValue"
              => heap'[heap'[i].kids[1]].class \notin Parameters(heap, roots[t])

\* "Replace all parameters with slots": no parameter is left in a program made
\* of an example or a declaration, except where visit() does not go.
ParametersReplaced == [][ReplacesBut(NotVisited \union {<< "FilterValue", "filter" >>})]_vars

================================================================================
