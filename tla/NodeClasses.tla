------------------------------ MODULE NodeClasses ------------------------------
(* The vocabulary in which the classes of lib/ast are described. A class is the *)
(* sequence of its fields, in the order of its constructor; a field says what   *)
(* it holds and what each hand-written method of the class does with it:        *)
(*                                                                              *)
(*   kind      the kind of node it holds; "data" for a name, a number, a flag   *)
(*   many      it is an array, or an object used as a map: position = key       *)
(*   optional  it may be null                                                   *)
(*   cloned    clone() copies it ("deep"), copies only the array ("shallow"),   *)
(*             or passes the same object on ("shared")                          *)
(*   compared  equals() compares it ("same"), compares what it prints as        *)
(*             ("printed"), skips it ("skipped"), or returns false exactly when *)
(*             it is equal ("inverted")                                         *)
(*   shown     toSource() prints it                                             *)
(*   visited   visit() passes the visitor on to it                              *)
(*   slots     iterateSlots2() yields it ("slot"), continues in it ("inside")   *)
(*             or stops at it ("none")                                          *)
(*   old       the deprecated iterateSlots() continues in it                    *)
(*                                                                              *)
(* The annotations the type checker leaves on a node (schema, type, overload,   *)
(* arg, the location in the source) are no part of the descriptions: no equals  *)
(* compares them and no toSource prints them.                                   *)
EXTENDS Sequences

\* A field that holds plain data: copied with the node, compared, printed.
Data(name) ==
    [name |-> name, kind |-> "data", many |-> FALSE, optional |-> FALSE,
     cloned |-> "deep", compared |-> "same", shown |-> TRUE,
     visited |-> FALSE, slots |-> "none", old |-> FALSE]

\* A field that holds a node that is no value: every method descends into it.
Node(name, kind) ==
    [Data(name) EXCEPT !.kind = kind, !.visited = TRUE, !.slots = "inside", !.old = TRUE]

\* A value inside a value: visited, but no slot of its own.
Part(name) == [Data(name) EXCEPT !.kind = "Value", !.visited = TRUE]

\* A value that iterateSlots2 yields.
Slot(name) == [Part(name) EXCEPT !.slots = "slot"]

\* A helper object of a value (a date, a time, a location): no syntax node, so
\* that visit() does not know it.
Helper(name, kind) == [Data(name) EXCEPT !.kind = kind]

Many(field) == [field EXCEPT !.many = TRUE]
Optional(field) == [field EXCEPT !.optional = TRUE]
Unslotted(field) == [field EXCEPT !.slots = "none", !.old = FALSE]
OnlyOld(field) == [field EXCEPT !.slots = "none"]
OnlyNew(field) == [field EXCEPT !.old = FALSE]
Unvisited(field) == [field EXCEPT !.visited = FALSE]
Uncompared(field) == [field EXCEPT !.compared = "skipped"]
Printed(field) == [field EXCEPT !.compared = "printed"]
Inverted(field) == [field EXCEPT !.compared = "inverted"]
Unshown(field) == [field EXCEPT !.shown = FALSE]
Shallow(field) == [field EXCEPT !.cloned = "shallow"]
Shared(field) == [field EXCEPT !.cloned = "shared"]

================================================================================
