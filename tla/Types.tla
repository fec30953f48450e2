--------------------------------- MODULE Types ---------------------------------
(* The types of ThingTalk and when a value of one may be used as another        *)
(* (lib/type.ts), and the signatures of the operators (lib/operators.ts).       *)
(*                                                                              *)
(* A type is << constructor >> or << constructor, argument >>; that of an array *)
(* is "Array" followed by the type of its elements. << "Var", a >> is a type    *)
(* variable of a signature. An argument "" of Measure or Entity is a variable   *)
(* too, named "_unit" and "_entity". Compounds, which only equal themselves,    *)
(* are left out.                                                                *)
EXTENDS Naturals, SequencesExt

AnyType == << "Any" >>
Boolean == << "Boolean" >>
String == << "String" >>
Number == << "Number" >>
Currency == << "Currency" >>
Time == << "Time" >>
Date == << "Date" >>
RecurrentTimeSpecification == << "RecurrentTimeSpecification" >>
Location == << "Location" >>
Unknown(name) == << "Unknown", name >>
Entity(name) == << "Entity", name >>
Measure(unit) == << "Measure", unit >>
Array(elem) == << "Array" >> \o elem
Var(name) == << "Var", name >>

\* An enumerated type of these entries, the last of which may be "*"; of any.
Enum(entries) == << "Enum", entries >>
AnyEnum == << "Enum" >>

\* A sequence in which something comes after "Array".
IsType(type) ==
    /\ Len(type) \in Nat /\ type = [n \in 1 .. Len(type) |-> type[n]]
    /\ \E n \in 1 .. Len(type) : type[n] # "Array" /\ \A m \in 1 .. n - 1 : type[m] = "Array"

IsA(type, constructor) == type[1] = constructor
IsNumeric(type) == type \in {Number, Currency} \/ IsA(type, "Measure")
IsComparable(type) == IsNumeric(type) \/ type \in {Date, Time, String}
Both(type, other, constructor) == IsA(type, constructor) /\ IsA(other, constructor)

\* A type, the type of its elements, and so on; of types and what a scope binds.
PartsOf(type) ==
    {SubSeq(type, n, Len(type)) : n \in {n \in DOMAIN type : \A m \in 1 .. n - 1 : type[m] = "Array"}}
Parts(types, scope) ==
    UNION {PartsOf(type) : type \in types \union {scope[n] : n \in DOMAIN scope \ {"_unit", "_entity"}}}

--------------------------------------------------------------------------------
(* A scope binds variables to types, "_unit" and "_entity" to names.            *)

Unbound == << >>
Bind(scope, name, type) == [n \in DOMAIN scope \union {name} |-> IF n = name THEN type ELSE scope[n]]

\* The verdict on a use of a value, with the scope afterwards.
Verdict(ok, scope) == [ok |-> ok, scope |-> scope]
Yes(scope) == Verdict(TRUE, scope)
No(scope) == Verdict(FALSE, scope)

\* A name that is bound must be bound to this; one that is not is bound now.
Unify(scope, name, arg) ==
    IF name \in DOMAIN scope THEN Verdict(scope[name] = arg, scope) ELSE Yes(Bind(scope, name, arg))

\* entitySubType(): parents is what is known of the hierarchy so far.
ParentsIn(parents, entity) ==
    IF entity \in DOMAIN parents THEN parents[entity]
    ELSE IF entity = "tt:picture" THEN << "tt:url" >> ELSE << >>
EntitySubType(entity, other, parents) ==
    LET known == {entity, "tt:url"} \union UNION {{e} \union ToSet(parents[e]) : e \in DOMAIN parents}
        below[e \in known] == e = other \/ \E p \in ToSet(ParentsIn(parents, e)) : below[p]
    IN below[entity]

EnumFits(type, to) ==
    \/ type = AnyEnum
    \/ /\ to # AnyEnum
       /\ Last(type[2]) = "*"
       /\ ToSet(Front(type[2])) \subseteq ToSet(to[2])

\* The rules for different types, the first that fits; fits is what is decided
\* of parts of the types.
Converts(type, to, scope, parents, fits) ==
    IF "Unknown" \in {type[1], to[1]} THEN No(scope)
    ELSE IF AnyType \in {type, to} THEN Yes(scope)
    ELSE IF << type, to >> \in {<< Date, Time >>, << Number, Currency >>} THEN Yes(scope)
    ELSE IF Both(type, to, "Measure")
    THEN IF to = Measure("") THEN Unify(scope, "_unit", type[2]) ELSE No(scope)
    ELSE IF Both(type, to, "Array")
    THEN IF Tail(type) = AnyType /\ ~IsA(Tail(to), "Var") THEN Yes(scope)
         ELSE fits[<< Tail(type), Tail(to) >>]
    ELSE IF IsA(type, "Array") /\ to = Entity("tt:contact_group")
    THEN fits[<< Tail(type), Entity("tt:contact") >>]
    ELSE IF Both(type, to, "Enum") THEN Verdict(EnumFits(type, to), scope)
    ELSE IF Both(type, to, "Entity")
    THEN IF to = Entity("") THEN Unify(scope, "_entity", type[2])
         ELSE Verdict(EntitySubType(type[2], to[2], parents), scope)
    ELSE No(scope)

\* What is decided of a pair of types.
Fit(pair, scope, parents, fits) ==
    LET from == pair[1]
        into == pair[2]
    IN IF IsA(into, "Var")
       THEN IF into[2] \in DOMAIN scope THEN fits[<< from, scope[into[2]] >>]
            ELSE Yes(Bind(scope, into[2], from))
       ELSE IF from = into THEN Yes(scope)
       ELSE Converts(from, into, scope, parents, fits)

\* Type.isAssignable(): whether a value of this type may be used where another is
\* asked for, and the scope afterwards.
IsAssignable(type, to, scope, parents) ==
    LET fits[pair \in Parts({type}, Unbound) \X Parts({to, Entity("tt:contact")}, scope)] ==
            Fit(pair, scope, parents, fits)
    IN fits[<< type, to >>]

\* Type.resolve(): the type with its variables replaced.
Undefined == << "undefined" >>
Bound(scope, name) == IF name \in DOMAIN scope THEN scope[name] ELSE Undefined
Resolve(type, scope) ==
    LET resolved[part \in Parts({type, Undefined}, scope)] ==
            CASE IsA(part, "Var") -> resolved[Bound(scope, part[2])]
              [] IsA(part, "Array") -> Array(resolved[Tail(part)])
              [] part = Measure("") -> Measure(Bound(scope, "_unit"))
              [] part = Entity("") -> Entity(Bound(scope, "_entity"))
              [] OTHER -> part
    IN resolved[type]

\* resolveTypeVars(), of a type without variables and arrays, as those of the
\* aggregations are: a measure is of the unit that was found.
ResolveTypeVars(type, scope) ==
    IF IsA(type, "Measure") /\ "_unit" \in DOMAIN scope THEN Measure(scope["_unit"]) ELSE type

--------------------------------------------------------------------------------
(* The operators: the types of the arguments and, last, of the result.          *)

A == Var("a")
X == Var("x")
AnyMeasure == Measure("")
AnyEntity == Entity("")

Comparison ==
    << << String, String, Boolean >>, << AnyMeasure, AnyMeasure, Boolean >>,
       << Number, Number, Boolean >>, << Date, Date, Boolean >>, << Time, Time, Boolean >>,
       << Currency, Currency, Boolean >> >>
OfStrings == << << String, String, Boolean >> >>

BinaryOps ==
    [op \in {">=", "<=", "==", "=~", "~=", "starts_with", "ends_with", "prefix_of", "suffix_of",
             "contains", "in_array", "contains~", "in_array~", "~contains", "~in_array",
             "has_member", "group_member"} |->
        CASE op \in {">=", "<="} -> Comparison
          [] op = "==" -> << << A, A, Boolean >> >>
          [] op = "=~" -> << << String, String, Boolean >>, << AnyEntity, String, Boolean >> >>
          [] op = "~=" -> << << String, String, Boolean >>, << String, AnyEntity, Boolean >> >>
          [] op \in {"starts_with", "ends_with", "prefix_of", "suffix_of"} -> OfStrings
          [] op = "contains" ->
                << << Array(A), A, Boolean >>, << RecurrentTimeSpecification, Date, Boolean >>,
                   << RecurrentTimeSpecification, Time, Boolean >> >>
          [] op = "in_array" -> << << A, Array(A), Boolean >> >>
          [] op = "contains~" ->
                << << Array(String), String, Boolean >>, << Array(AnyEntity), String, Boolean >> >>
          [] op = "in_array~" ->
                << << String, Array(String), Boolean >>, << AnyEntity, Array(String), Boolean >> >>
          [] op = "~contains" ->
                << << Array(String), String, Boolean >>, << Array(String), AnyEntity, Boolean >> >>
          [] op = "~in_array" ->
                << << String, Array(String), Boolean >>, << String, Array(AnyEntity), Boolean >> >>
          [] op = "has_member" -> << << Entity("tt:contact_group"), Entity("tt:contact"), Boolean >> >>
          [] op = "group_member" -> << << Entity("tt:contact"), Entity("tt:contact_group"), Boolean >> >>]

Additive ==
    << << Number, Number, Number >>, << Currency, Currency, Currency >>,
       << AnyMeasure, AnyMeasure, AnyMeasure >>, << Date, Measure("ms"), Date >>,
       << Time, Measure("ms"), Time >> >>
Scaling ==
    << << Number, Number, Number >>, << Currency, Number, Currency >>,
       << AnyMeasure, Number, AnyMeasure >> >>
OfNumbers == << << Number, Number, Number >> >>
OfArray ==
    << << Array(Number), Number >>, << Array(Currency), Currency >>,
       << Array(AnyMeasure), AnyMeasure >> >>

ScalarExpressionOps ==
    [op \in {"+", "-", "*", "/", "%", "**", "distance", "max", "min", "sum", "avg", "count", "set_time"} |->
        CASE op = "+" -> << << String, String, String >> >> \o Additive
          [] op = "-" -> Additive
          [] op \in {"*", "/"} -> Scaling
          [] op \in {"%", "**"} -> OfNumbers
          [] op = "distance" -> << << Location, Location, Measure("m") >> >>
          [] op \in {"max", "min", "sum", "avg"} -> OfArray
          [] op = "count" -> << << Array(X), Number >> >>
          [] op = "set_time" -> << << Date, Time, Date >> >>]

OfField ==
    << << Number, Number >>, << Currency, Currency >>, << AnyMeasure, AnyMeasure >> >>
Aggregations ==
    [op \in {"max", "min", "sum", "avg", "count"} |->
        IF op = "count" THEN << << AnyType, Number >> >> ELSE OfField]

================================================================================
