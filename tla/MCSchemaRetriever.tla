------------------------- MODULE MCSchemaRetriever -------------------------
EXTENDS SchemaRetriever, TLC

CONSTANTS a, b
\* the check of class b looks up the entity type declared by class a
DepsChain == (a :> {}) @@ (b :> {a})
NoDeps == (a :> {}) @@ (b :> {})
\* the default value of a parameter of class a is of a's own entity type
DepsSelf == (a :> {a}) @@ (b :> {})

Symmetry == Permutations(Requests) \cup Permutations(Clients)
=============================================================================
