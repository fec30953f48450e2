---------------------------- MODULE ExpressionTyping ---------------------------
(* How a TypeChecker goes through the expression of a statement, from the       *)
(* function calls outwards: it gives each operator a signature, made out of     *)
(* that of its argument, and keeps the names of the outputs in one scope that   *)
(* all operators change in place (lib/typecheck.ts). The conditions of a filter *)
(* are checks of TypeChecks, run at the same time.                              *)
EXTENDS TypeChecks, FunctionDefs

CONSTANTS
    Functions,      \* signatures that can be called
    Conditions,     \* [list, asks]: a list of [name, type], a name == a constant of the type;
                    \* asks is "filter" or "question"
    Projections,    \* projections: [all, args, computed], computed of [of, as]
    AliasNames,     \* names for "as"
    Aggregates,     \* aggregations: [operator, field], << >> for "*"; no parser gives one an alias
    SortFields,     \* names to sort by
    MaxOperators    \* bound: operators and calls of a statement

VARIABLES
    stage,       \* "off"; "start" of an operand; "typed"; "filtering"; "accepted" or "refused"
    schema,      \* the signature of the expression that was typed last
    scope,       \* Scope._scope: names and their types
    aliases,     \* Scope._globalScope
    earlier,     \* the elements before it in the same chain
    left,        \* the left operands of the joins that are open
    asks,        \* what the conditions that are being checked are for
    operators,   \* operators and calls so far
    bare,        \* whether the expression lacks a filter that its function requires
    foreign      \* names that the scope has from other elements and operands, and by an alias

expression == << stage, schema, scope, aliases, earlier, left, asks, operators, bare, foreign >>
typingVars == << vars, expression >>

NoSchema == << >>

\* Scope.addAll()
AddAll(args, to) == With([n \in DOMAIN args |-> args[n].type], to)

\* _checkExpressionType()
Is(functionTypes) == schema.functionType \in functionTypes

\* An operator is applied to what was typed last; its signature is this one; or
\* it throws a TypeError.
Operator ==
    /\ stage = "typed" /\ operators < MaxOperators
    /\ operators' = operators + 1
Becomes(newSchema) == stage' = "typed" /\ schema' = newSchema
Refused == stage' = "refused" /\ UNCHANGED << schema, scope, aliases, earlier, left, asks, bare, foreign >>

--------------------------------------------------------------------------------
(* What is known of the functions that can be called.                           *)

\* Names are of strings. Those that the operators below give are said to be such,
\* for a prover.
Part == STRING \union {"__answer", "count", "first", "second"}
Name == Seq(Part) \ {<< >>}

\* Arguments as the constructor has them: under their names, with all fields.
AreArguments(args) ==
    \A n \in DOMAIN args :
        /\ n \in Name
        /\ DOMAIN args[n] = {"name", "is_input", "type", "fields"} /\ args[n].name = n
        /\ \A path \in DOMAIN args[n].fields :
              path \in Name /\ n \o path \in DOMAIN args

\* Their types are known, and so are those of what they are made of.
AreTyped(args) ==
    \A n \in DOMAIN args :
        /\ IsValueType(args[n].type)
        /\ \A path \in DOMAIN args[n].fields : IsValueType(args[n].fields[path])

\* A signature that was constructed, with the annotations that it keeps.
IsSignature(f) ==
    /\ DOMAIN f = {"functionType", "class", "extends", "qualifiers", "annotations", "args", "is_list",
                   "is_monitorable", "require_filter", "default_projection", "minimal_projection"}
    /\ DOMAIN f.annotations = {"require_filter", "default_projection", "minimal_projection"}
    /\ AreArguments(f.args) /\ AreArguments(f.extends)
    /\ f.require_filter = f.annotations.require_filter
    /\ Given(f.minimal_projection) = Given(f.annotations.minimal_projection)
    /\ Given(f.minimal_projection) \subseteq OutNames(f)

\* That a minimal projection names outputs is up to the class that gives one: no
\* check does for it what _typeCheckFunctionAnnotations() does for the default one.
ASSUME TypingAssumption ==
    /\ \A f \in Functions :
          IsSignature(f) /\ AreTyped(f.args) /\ AreTyped(f.extends) /\ f.require_filter \in BOOLEAN
    /\ \A conditions \in Conditions : \A n \in DOMAIN conditions.list : IsValueType(conditions.list[n].type)
    /\ AliasNames \subseteq Part
    /\ \A projection \in Projections :
          projection.computed \in Seq([of : Seq(Part), as : Part])

--------------------------------------------------------------------------------

\* A use of an operator that is checked for itself, or a statement.
TypingInit ==
    /\ Init
    /\ stage = IF job = << >> THEN "start" ELSE "off"
    /\ schema = NoSchema /\ scope = << >> /\ aliases = {} /\ earlier = << >> /\ left = << >>
    /\ asks = "nothing" /\ operators = 0 /\ bare = FALSE /\ foreign = {}

\* InvocationExpression
CallFunction(f) ==
    /\ stage = "start" /\ operators < MaxOperators
    /\ operators' = operators + 1
    /\ Becomes(f)
    /\ scope' = AddAll(Outputs(f), scope)
    /\ bare' = f.require_filter
    /\ UNCHANGED << aliases, earlier, left, asks, foreign, job, check, shared >>

\* FilterExpression and BooleanQuestionExpression: the conditions are checked,
\* at the same time. A name is one of the signature, else one of the scope.
TypeOf(name) ==
    LET args == IterateArguments(schema)
    IN IF name \in DOMAIN args THEN args[name].type ELSE scope[name]

CheckConditions(conditions) ==
    LET known == DOMAIN scope \union DOMAIN IterateArguments(schema)
        uses == [n \in DOMAIN conditions.list |->
                    [in |-> "filter", op |-> "==",
                     args |-> << TypeOf(conditions.list[n].name), conditions.list[n].type >>]]
        valid == Is({"query", "stream"}) /\ \A n \in DOMAIN conditions.list : conditions.list[n].name \in known
    IN /\ Operator
       /\ \/ /\ valid
             /\ job' = uses /\ check' = Started(uses)
             /\ stage' = "filtering" /\ asks' = conditions.asks
             /\ UNCHANGED << schema, scope, aliases, earlier, left, bare, foreign, shared >>
          \/ /\ ~valid
             /\ Refused /\ UNCHANGED << job, check, shared >>

\* Only the signature is told of the filter, not the annotations.
Filtered_field(f) == [CloneDef(f) EXCEPT !.require_filter = FALSE]

\* _resolveFilter(): the filter that may be required is there.
Filtered(f) == [CloneDef(f) EXCEPT !.require_filter = FALSE, !.annotations.require_filter = FALSE]

\* All conditions are accepted, or one is not and the others go on for nothing.
ConditionsChecked ==
    /\ stage = "filtering"
    /\ \/ /\ \A c \in Checks : check[c].state = "accepted"
          /\ \/ /\ asks = "filter"
                /\ Becomes(Filtered(schema))
                /\ bare' = FALSE
             \/ /\ asks = "question"
                /\ Becomes(AddArguments(schema, << Out("__answer", Boolean) >>))
                /\ UNCHANGED bare
          /\ asks' = "nothing" /\ job' = << >> /\ check' = << >>
          /\ UNCHANGED << scope, aliases, earlier, left, foreign >>
       \/ /\ \E c \in Checks : check[c].state = "rejected"
          /\ Refused /\ UNCHANGED << job, check >>
    /\ UNCHANGED << operators, shared >>

\* _resolveNewProjection()
Kept(projection) == projection.args \union Given(schema.minimal_projection)

\* The names of the arguments that are not selected stay in the scope.
Hidden_none(projection) == {}

\* What scope.remove() is called for.
Hidden(projection) == IF projection.all THEN {} ELSE OutNames(schema) \ Kept(projection)
Selected(projection) ==
    IF projection.all THEN schema
    ELSE FilterArguments(schema, LAMBDA arg : arg.is_input \/ arg.name \in Kept(projection))
IsProjection(projection) ==
    /\ Is({"query", "stream"})
    /\ \A n \in DOMAIN projection.computed :
          LET of == projection.computed[n].of IN of \in DOMAIN scope /\ scope[of] = Number
    /\ \/ projection.computed # << >>
       \/ Cardinality(OutNames(schema)) # 1 /\ (projection.all \/ projection.args # {})
    /\ projection.all \/ Kept(projection) \subseteq OutNames(schema)

Project(projection) ==
    LET computed == [n \in DOMAIN projection.computed |-> Out(projection.computed[n].as, Number)]
        stays == DOMAIN scope \ Hidden(projection)
    IN /\ Operator
       /\ \/ /\ IsProjection(projection)
             /\ Becomes([AddArguments(Selected(projection), computed) EXCEPT !.default_projection = {}])
             /\ scope' = AddAll(Argmap(computed), [n \in stays |-> scope[n]])
             /\ UNCHANGED << aliases, earlier, left, asks, bare, foreign >>
          \/ ~IsProjection(projection) /\ Refused
       /\ UNCHANGED << job, check, shared >>

\* Scope.prefix(). A name that was in the scope and is also made by the prefix
\* keeps its type if it was added after the other one; the order is left out.
Alias(name) ==
    LET prefixed == {<< name >> \o n : n \in DOMAIN scope}
    IN /\ Operator
       /\ \/ /\ Is({"query", "stream"}) /\ name \notin aliases
             /\ Becomes(schema)
             /\ aliases' = aliases \union {name}
             /\ \E stays \in SUBSET (DOMAIN scope \intersect prefixed) :
                    scope' = [n \in DOMAIN scope \union prefixed |->
                                 IF n \in prefixed \ stays THEN scope[Tail(n)] ELSE scope[n]]
             /\ foreign' = foreign \union prefixed
             /\ UNCHANGED << earlier, left, asks, bare >>
          \/ ~(Is({"query", "stream"}) /\ name \notin aliases) /\ Refused
       /\ UNCHANGED << job, check, shared >>

\* What is aggregated keeps its signature.
CleanOutput_keeps(f) == FilterArguments(f, LAMBDA arg : arg.is_input)

\* _typeCheckAggregation(): cleanOutput(), then addOutput(). All of the scope goes,
\* also what other elements of the chain put there.
CleanOutput(f) == RemoveProjections(FilterArguments(f, LAMBDA arg : arg.is_input))
FieldType(field) == Outputs(schema)[field].type
Aggregated(aggregate) ==
    IF aggregate.field = << >> THEN << AnyType, Number >>
    ELSE LET overloads == Aggregations[aggregate.operator]
             Accepts(o) == IsAssignable(FieldType(aggregate.field), overloads[o][1], Unbound, entitySubTypeMap)
             fitting == {o \in DOMAIN overloads : Accepts(o).ok}
             first == Min(fitting)
         IN IF fitting = {} THEN << >>
            ELSE [n \in DOMAIN overloads[first] |-> ResolveTypeVars(overloads[first][n], Accepts(first).scope)]
IsAggregation(aggregate) ==
    /\ Is({"query"})
    /\ IF aggregate.field = << >> THEN aggregate.operator = "count"
       ELSE aggregate.field \in OutNames(schema) /\ aggregate.operator \in DOMAIN Aggregations
    /\ Aggregated(aggregate) # << >>

Aggregate(aggregate) ==
    /\ Operator
    /\ \/ /\ IsAggregation(aggregate)
          /\ LET output == [Out("count", Last(Aggregated(aggregate))) EXCEPT
                    !.name = IF aggregate.field = << >> THEN @ ELSE aggregate.field]
             IN /\ Becomes(AddArguments(CleanOutput(schema), << output >>))
                /\ scope' = [name \in {output.name} |-> output.type]
          /\ foreign' = {}
          /\ UNCHANGED << aliases, earlier, left, asks, bare >>
       \/ ~IsAggregation(aggregate) /\ Refused
    /\ UNCHANGED << job, check, shared >>

\* _typeCheckSort(); an index and a slice are typed in the same way.
Sort(field) ==
    LET comparable == field \in DOMAIN scope /\ IsComparable(scope[field])
    IN /\ Operator
       /\ \/ Is({"query"}) /\ comparable /\ Becomes(schema)
             /\ UNCHANGED << scope, aliases, earlier, left, asks, bare, foreign >>
          \/ ~(Is({"query"}) /\ comparable) /\ Refused
       /\ UNCHANGED << job, check, shared >>

\* _typeCheckMonitor()
Monitor ==
    /\ Operator
    /\ \/ /\ Is({"query"}) /\ schema.is_monitorable
          /\ Becomes(AsType(schema, "stream"))
          /\ UNCHANGED << scope, aliases, earlier, left, asks, bare, foreign >>
       \/ ~(Is({"query"}) /\ schema.is_monitorable) /\ Refused
    /\ UNCHANGED << job, check, shared >>

\* ChainExpression: the next element is typed in the same scope.
NextInChain ==
    /\ stage = "typed" /\ stage' = "start"
    /\ earlier' = Append(earlier, [schema |-> schema, bare |-> bare])
    /\ foreign' = DOMAIN scope
    /\ UNCHANGED << schema, scope, aliases, left, asks, operators, bare, job, check, shared >>

\* _resolveChain()
Elements == Append(earlier, [schema |-> schema, bare |-> bare])
ResolveChain ==
    LET schemas == {Elements[n].schema : n \in DOMAIN Elements}
    IN [CloneDef(schema) EXCEPT !.is_list = \E f \in schemas : f.is_list,
                                !.is_monitorable = \A f \in schemas : f.is_monitorable]

\* The chain is the argument of an operator.
CloseChain ==
    LET typed == Is({"query", "action"}) /\ \A n \in DOMAIN earlier : earlier[n].schema.functionType = "query"
    IN /\ Operator /\ earlier # << >>
       /\ \/ /\ typed /\ Becomes(ResolveChain) /\ earlier' = << >>
             /\ UNCHANGED << scope, aliases, left, asks, bare, foreign >>
          \/ ~typed /\ Refused
       /\ UNCHANGED << job, check, shared >>

\* JoinExpression: the right operand is typed in the scope of the left one.
OpenJoin ==
    /\ Operator /\ left = << >>
    /\ \/ /\ Is({"query"}) /\ stage' = "start"
          /\ left' = << [schema |-> schema, earlier |-> earlier] >> /\ earlier' = << >>
          /\ foreign' = DOMAIN scope
          /\ UNCHANGED << schema, scope, aliases, asks, bare >>
       \/ ~Is({"query"}) /\ Refused
    /\ UNCHANGED << job, check, shared >>

\* _typeCheckJoin(): a signature of its own, which has nothing of the operands'
\* but their outputs, under the name of their side.
OfSide(f, side) ==
    [name \in {<< side >> \o n : n \in OutNames(f)} |-> [Outputs(f)[Tail(name)] EXCEPT !.name = name]]
Joined(lhs, rhs) ==
    FunctionDef("query", FALSE, << >>,
        [is_list |-> TRUE, is_monitorable |-> lhs.is_monitorable \/ rhs.is_monitorable],
        With(OfSide(lhs, "first"), OfSide(rhs, "second")),
        [require_filter |-> FALSE, default_projection |-> NotGiven, minimal_projection |-> NotGiven])

CloseJoin ==
    /\ stage = "typed" /\ left # << >> /\ earlier = << >>
    /\ \/ /\ Is({"query"})
          /\ Becomes(Joined(left[1].schema, schema))
          /\ scope' = AddAll(Outputs(Joined(left[1].schema, schema)), << >>)
          /\ earlier' = left[1].earlier /\ left' = << >>
          /\ bare' = FALSE /\ foreign' = {}
          /\ UNCHANGED << aliases, asks >>
       \/ ~Is({"query"}) /\ Refused
    /\ UNCHANGED << operators, job, check, shared >>

\* _typeCheckExpressionStatement()
IsStatement ==
    \A n \in DOMAIN Elements :
        LET f == Elements[n].schema
        IN /\ ~f.require_filter
           /\ f.functionType = "stream" => n = 1
           /\ f.functionType = "action" => n = Len(Elements)

EndStatement ==
    /\ stage = "typed" /\ left = << >>
    /\ \/ /\ IsStatement
          /\ stage' = "accepted" /\ schema' = ResolveChain
          /\ UNCHANGED << scope, aliases, earlier, left, asks, bare, foreign >>
       \/ ~IsStatement /\ Refused
    /\ UNCHANGED << operators, job, check, shared >>

CheckStep == Next /\ UNCHANGED expression
TypingStep ==
    \/ \E f \in Functions : CallFunction(f)
    \/ \E conditions \in Conditions : CheckConditions(conditions)
    \/ ConditionsChecked
    \/ \E projection \in Projections : Project(projection)
    \/ \E name \in AliasNames : Alias(name)
    \/ \E aggregate \in Aggregates : Aggregate(aggregate)
    \/ \E field \in SortFields : Sort(field)
    \/ Monitor \/ NextInChain \/ CloseChain \/ OpenJoin \/ CloseJoin \/ EndStatement
TypingNext == CheckStep \/ TypingStep

\* The promises of a request and of a check are settled.
TypingSpec == TypingInit /\ [][TypingNext]_typingVars /\ WF_typingVars(CheckStep)

--------------------------------------------------------------------------------
(* Properties.                                                                  *)

\* What a name of the scope stands for is what the signature says: the operators
\* above find each output under its type, and nothing that a projection has
\* hidden or an aggregation replaced, although each operator changes the one and
\* makes a new one of the other by different code. Not in the scope are the
\* answer to a question and what a projection brings back with a compound, whose
\* name may be taken by what an alias has prefixed.
ScopeAgrees ==
    /\ \A name \in OutNames(schema) :
          \/ name \in DOMAIN scope /\ scope[name] = Outputs(schema)[name].type
          \/ name = << "__answer" >>
          \/ Len(name) > 1 /\ (name \notin DOMAIN scope \/ name \in foreign)
    /\ DOMAIN scope \subseteq OutNames(schema) \union foreign
ScopeIsSchema == stage = "typed" => ScopeAgrees

\* A signature requires a filter exactly if the function called lacks one that it
\* asks for, however many signatures were made of it since. A join asks for none.
FiltersAreApplied ==
    /\ stage = "typed" => (schema.require_filter <=> bare)
    /\ stage = "accepted" => \A n \in DOMAIN Elements : ~Elements[n].bare

\* What the compiler adds to every projection is there to be projected
\* (addMinimalProjection()), whatever was projected, aggregated or renamed before.
MinimalIsOutput ==
    stage \in {"typed", "accepted"} => Given(schema.minimal_projection) \subseteq OutNames(schema)

================================================================================
