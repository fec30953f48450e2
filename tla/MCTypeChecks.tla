------------------------------ MODULE MCTypeChecks -----------------------------
(* Every operator with every pair of types, checked alone; pairs of checks of   *)
(* the operators that compare entities; and statements of a few functions.      *)
EXTENDS ExpressionTyping

CONSTANTS
    C, P, G,    \* an entity, what it extends, what that extends
    D           \* another entity that extends P


Group == "tt:contact_group"
Contact == "tt:contact"

MCParents ==
    (C :> << P >>) @@ (D :> << P >>) @@ (P :> << G >>) @@ (G :> << >>)
    @@ (Group :> << >>) @@ (Contact :> << >>)

Entities == {Entity(e) : e \in {C, P}}
Scalars ==
    {AnyType, String, Number, Currency, Time, Date, RecurrentTimeSpecification, Location,
     Unknown("new"), Measure("m"), Measure("ms"), AnyEnum, Enum(<< "on", "off" >>),
     Enum(<< "on", "*" >>), Enum(<< "low" >>), Entity(Contact), Entity(Group)} \union Entities
ElementTypes == {AnyType, String, Number, Measure("m"), Entity(C), Entity(P), Entity(Contact)}
AllTypes == Scalars \union {Array(type) : type \in ElementTypes}

Use(in, op, args) == [in |-> in, op |-> op, args |-> args]
Lone ==
    {<< Use("filter", op, << l, r >>) >> : op \in DOMAIN BinaryOps, l \in AllTypes, r \in AllTypes}
    \union {<< Use("value", op, << l, r >>) >> :
               op \in DOMAIN ScalarExpressionOps, l \in AllTypes, r \in AllTypes}
    \union {<< Use("value", op, << arg >>) >> : op \in DOMAIN ScalarExpressionOps, arg \in AllTypes}
    \union {<< Use("aggregation", op, << arg >>) >> : op \in DOMAIN Aggregations, arg \in AllTypes}

Above == {Entity(e) : e \in {C, P, G}}
Compares ==
    {Use("filter", "==", << l, r >>) : l \in Above \union {Entity(D)}, r \in Above \union {Entity(D)}}
    \union {Use("filter", "in_array", << l, Array(r) >>) : l \in Above, r \in Above}
    \union {Use("filter", "contains", << Array(Entity(C)), r >>) : r \in Above}
Together == {<< first, second >> : first \in Compares, second \in Compares}

MCJobs == Lone \union Together \union {<< >>}

\* Posts, which can be monitored and should be filtered; the only author of
\* something, which cannot; and an action.
Known(filter, projection) ==
    [require_filter |-> filter, default_projection |-> projection, minimal_projection |-> NotGiven]
Qualifiers(list, monitorable) == [is_list |-> list, is_monitorable |-> monitorable]
Geo ==
    ArgumentDef("geo", FALSE, Location,
        (<< "lat" >> :> Number) @@ (<< "of" >> :> Location) @@ (<< "of", "lon" >> :> Number))
Base == Argmap(<< Out("likes", Number), Out("text", Number) >>)
Posts ==
    FunctionDef("query", TRUE, Base, Qualifiers(TRUE, TRUE),
        Argmap(<< Out("id", Entity(C)), Out("text", String), Out("size", Measure("m")), Geo,
                  ArgumentDef("about", TRUE, String, << >>) >>),
        Known(TRUE, {<< "id" >>, << "text" >>}))
Author ==
    FunctionDef("query", TRUE, << >>, Qualifiers(FALSE, FALSE), Argmap(<< Out("text", Entity(P)) >>),
        Known(FALSE, NotGiven))
Tell == FunctionDef("action", TRUE, << >>, Qualifiers(FALSE, FALSE), << >>, Known(FALSE, NotGiven))
MCFunctions == {Posts, Author, Tell}

Condition(name, type) == [name |-> name, type |-> type]
Filter(list) == [list |-> list, asks |-> "filter"]
MCConditions ==
    {Filter(<< Condition(<< "id" >>, Entity(P)) >>),
     Filter(<< Condition(<< "text" >>, String), Condition(<< "first", "likes" >>, Number) >>),
     Filter(<< Condition(<< "likes" >>, Number), Condition(<< "id" >>, Entity(D)) >>),
     [list |-> << Condition(<< "likes" >>, Number) >>, asks |-> "question"]}

Projection(all, args, computed) == [all |-> all, args |-> args, computed |-> computed]
Twice == << [of |-> << "likes" >>, as |-> "text"] >>
MCProjections ==
    {Projection(FALSE, {<< "text" >>}, << >>), Projection(FALSE, {<< "likes" >>, << "geo" >>}, << >>),
     Projection(TRUE, {}, Twice), Projection(FALSE, {}, Twice), Projection(FALSE, {<< "first", "id" >>}, << >>)}

MCAggregates ==
    {[operator |-> "count", field |-> << >>], [operator |-> "count", field |-> << "id" >>],
     [operator |-> "max", field |-> << "likes" >>], [operator |-> "sum", field |-> << "size" >>]}
MCSortFields == {<< "likes" >>, << "text" >>, << "size" >>, << "geo" >>}

================================================================================
