------------------------------ MODULE FunctionDefs -----------------------------
(* Signatures of functions and of expressions, and the operations that make one *)
(* out of another (lib/ast/function_def.ts). A name is the sequence of its      *)
(* parts: << "geo", "lat" >> is the argument geo.lat.                           *)
EXTENDS SequencesExt

\* ArgumentDef: fields are the types of the arguments that a compound type is made
\* of, those inside of a compound field among them, each under its path.
ArgumentDef(name, is_input, type, fields) ==
    [name |-> << name >>, is_input |-> is_input, type |-> type, fields |-> fields]
Out(name, type) == ArgumentDef(name, FALSE, type, << >>)

\* A field as an argument of its own.
Field(arg, path) ==
    LET inside == {SubSeq(p, Len(path) + 1, Len(p)) : p \in {p \in DOMAIN arg.fields : IsStrictPrefix(path, p)}}
    IN [arg EXCEPT !.name = @ \o path, !.type = arg.fields[path],
                   !.fields = [p \in inside |-> arg.fields[path \o p]]]

\* _argmap: of two arguments of one name, the later. The order is left out.
Argmap(list) ==
    [name \in {list[n].name : n \in DOMAIN list} |->
        LET later == {n \in DOMAIN list : list[n].name = name}
        IN list[CHOOSE n \in later : \A o \in later : o <= n]]

\* Arguments, and those of others that have other names.
With(args, others) ==
    [name \in DOMAIN args \union DOMAIN others |->
        IF name \in DOMAIN args THEN args[name] ELSE others[name]]

\* A projection is a set of names; of an annotation, it may not be given.
NotGiven == {<< >>}
Given(projection) == IF projection = NotGiven THEN {} ELSE projection

\* _flattenCompoundArguments(): the arguments, and those of their fields that are
\* not among them.
FlattenCompoundArguments(args) ==
    LET fields == UNION {{Field(args[n], path) : path \in DOMAIN args[n].fields} : n \in DOMAIN args}
    IN With(args, [name \in {field.name : field \in fields} |-> CHOOSE field \in fields : field.name = name])

\* iterateArguments(): each name once, those of the base functions last.
IterateArguments(f) == With(f.args, f.extends)

Outputs(f) == RestrictValues(IterateArguments(f), LAMBDA arg : ~arg.is_input)
OutNames(f) == DOMAIN Outputs(f)

\* _setMinimalProjection()
SetMinimalProjection(f) ==
    LET minimal == {<< "id" >>} \intersect OutNames(f)
    IN IF f.minimal_projection # NotGiven THEN f
       ELSE [f EXCEPT !.minimal_projection = minimal, !.annotations.minimal_projection = minimal]

\* The constructor. extends are the arguments of the base functions.
FunctionDef(functionType, class, extends, qualifiers, args, annotations) ==
    LET f == [functionType |-> functionType, class |-> class, extends |-> extends,
              qualifiers |-> qualifiers, annotations |-> annotations,
              args |-> FlattenCompoundArguments(args),
              is_list |-> qualifiers.is_list, is_monitorable |-> qualifiers.is_monitorable,
              require_filter |-> annotations.require_filter,
              default_projection |-> Given(annotations.default_projection),
              minimal_projection |-> annotations.minimal_projection]
    IN IF class THEN SetMinimalProjection(f) ELSE f

\* _cloneInternal(): what was changed without the qualifiers and the annotations is lost.
CloneWith(f, args, extends) ==
    SetMinimalProjection(FunctionDef(f.functionType, f.class, extends, f.qualifiers, args, f.annotations))

CloneDef(f) == CloneWith(f, f.args, f.extends)
AddArguments(f, list) == CloneWith(f, With(Argmap(list), f.args), f.extends)
FilterArguments(f, Keep(_)) == CloneWith(f, RestrictValues(IterateArguments(f), Keep), << >>)
AsType(f, functionType) == [CloneDef(f) EXCEPT !.functionType = functionType]

\* removeDefaultProjection(), removeMinimalProjection()
RemoveProjections(f) ==
    [f EXCEPT !.default_projection = {}, !.annotations.default_projection = NotGiven,
              !.minimal_projection = {}, !.annotations.minimal_projection = NotGiven]

================================================================================
