------------------------- MODULE ExpressionTypingProofs ------------------------
(* Signatures and scope, for any functions, projections and statements of any   *)
(* length: every signature is one that the constructor could have made. Its     *)
(* arguments have all their fields, and what later clones read, the annotations,*)
(* says the same of filters and of minimal projections as its own fields.       *)
(* Then the checks of operators, for any hierarchy, any number of checks and    *)
(* types of any depth: entitySubType(), isAssignable() and _getEntityAncestors()*)
(* are shown to be what their recursions say, since what they take gets smaller;*)
(* what is loaded is part of the hierarchy; and what a check has tried and left *)
(* behind is what it is judged by.                                              *)
EXTENDS ExpressionTyping, EdgeStateProofs, SequenceTheorems

\* Arguments that are not flattened yet.
Shaped(args) ==
    \A n \in DOMAIN args :
        /\ n \in Name
        /\ DOMAIN args[n] = {"name", "is_input", "type", "fields"} /\ args[n].name = n
        /\ \A path \in DOMAIN args[n].fields : path \in Name

--------------------------------------------------------------------------------
(* Arguments.                                                                   *)

LEMMA NameAppend ==
    ASSUME NEW n \in Name, NEW path \in Name
    PROVE  n \o path \in Name /\ Len(n \o path) > 1
<1>1. n \in Seq(Part) /\ path \in Seq(Part) /\ n # << >> /\ path # << >>
    BY DEF Name
<1>2. Len(n) > 0 /\ Len(path) > 0
    BY <1>1, EmptySeq
<1>3. Len(n \o path) = Len(n) + Len(path) /\ n \o path \in Seq(Part)
    BY <1>1
<1> QED BY <1>1, <1>2, <1>3 DEF Name

LEMMA WithIs ==
    ASSUME NEW args, NEW others
    PROVE  /\ DOMAIN With(args, others) = DOMAIN args \union DOMAIN others
           /\ \A n \in DOMAIN args : With(args, others)[n] = args[n]
           /\ \A n \in DOMAIN others \ DOMAIN args : With(args, others)[n] = others[n]
BY DEF With

\* What is behind a strict prefix.
LEMMA BehindPrefix ==
    ASSUME NEW path \in Name, NEW p \in Name, IsStrictPrefix(path, p),
           NEW q, q = SubSeq(p, Len(path) + 1, Len(p))
    PROVE  q \in Name /\ path \o q = p
<1>1. path \in Seq(Part) /\ p \in Seq(Part)
    BY DEF Name
<1>2. Len(path) <= Len(p) /\ path # p
    BY DEF IsStrictPrefix, IsPrefix
<1>3. \A i \in 1 .. Len(path) : path[i] = p[i]
    <2> SUFFICES ASSUME NEW i \in 1 .. Len(path) PROVE path[i] = p[i]
        OBVIOUS
    <2>1. SubSeq(path, 1, Len(path)) = SubSeq(p, 1, Len(path))
        BY DEF IsStrictPrefix, IsPrefix
    <2>2. SubSeq(path, 1, Len(path))[i] = path[i] /\ SubSeq(p, 1, Len(path))[i] = p[i]
        BY <1>1, <1>2
    <2> QED BY <2>1, <2>2
<1>4. Len(path) # Len(p)
    BY <1>1, <1>2, <1>3, SeqEqual
<1>5. /\ q \in Seq(Part) /\ Len(q) = Len(p) - Len(path)
      /\ \A i \in 1 .. Len(q) : q[i] = p[Len(path) + i]
    BY <1>1, <1>2
<1>6. q # << >>
    <2>1. Len(q) # 0
        BY <1>1, <1>2, <1>4, <1>5
    <2> QED BY <2>1, EmptySeq
<1>7. path \o q \in Seq(Part) /\ Len(path \o q) = Len(p)
    BY <1>1, <1>2, <1>5
<1>8. \A i \in 1 .. Len(p) : (path \o q)[i] = p[i]
    BY <1>1, <1>2, <1>3, <1>5
<1> QED BY <1>1, <1>5, <1>6, <1>7, <1>8, SeqEqual DEF Name

\* A field has the fields that are inside of it.
LEMMA FieldIs ==
    ASSUME NEW args, Shaped(args), NEW n \in DOMAIN args, NEW path \in DOMAIN args[n].fields
    PROVE  LET field == Field(args[n], path)
           IN /\ n \o path \in Name /\ Len(n \o path) > 1
              /\ DOMAIN field = {"name", "is_input", "type", "fields"}
              /\ field.name = n \o path /\ field.is_input = args[n].is_input
              /\ \A q \in DOMAIN field.fields :
                    q \in Name /\ path \o q \in DOMAIN args[n].fields
<1> DEFINE arg == args[n]
           inside == {SubSeq(p, Len(path) + 1, Len(p)) :
                         p \in {p \in DOMAIN arg.fields : IsStrictPrefix(path, p)}}
           field == Field(arg, path)
<1>1. /\ DOMAIN arg = {"name", "is_input", "type", "fields"} /\ arg.name = n
      /\ n \in Name /\ \A p \in DOMAIN arg.fields : p \in Name
    BY DEF Shaped
<1>2. n \o path \in Name /\ Len(n \o path) > 1
    BY <1>1, NameAppend
<1>3. field = [arg EXCEPT !.name = @ \o path, !.type = arg.fields[path],
                          !.fields = [p \in inside |-> arg.fields[path \o p]]]
    BY DEF Field
<1>4. \A q \in inside : q \in Name /\ path \o q \in DOMAIN arg.fields
    <2> SUFFICES ASSUME NEW q \in inside PROVE q \in Name /\ path \o q \in DOMAIN arg.fields
        OBVIOUS
    <2>1. PICK p \in DOMAIN arg.fields : IsStrictPrefix(path, p) /\ q = SubSeq(p, Len(path) + 1, Len(p))
        OBVIOUS
    <2>2. path \in Name /\ p \in Name
        BY <1>1
    <2>3. q \in Name /\ path \o q = p
        BY <2>1, <2>2, BehindPrefix
    <2> QED BY <2>1, <2>3
<1> HIDE DEF inside, field
<1>5. /\ DOMAIN field = {"name", "is_input", "type", "fields"}
      /\ field.name = n \o path /\ field.is_input = arg.is_input
      /\ field.fields = [p \in inside |-> arg.fields[path \o p]]
    BY <1>1, <1>3
<1>6. \A q \in DOMAIN field.fields : q \in Name /\ path \o q \in DOMAIN arg.fields
    BY <1>4, <1>5
<1> QED BY <1>2, <1>5, <1>6 DEF field

\* Flattening keeps what there is and adds fields until none is missing.
LEMMA FlattenIs ==
    ASSUME NEW args, Shaped(args), NEW flat, flat = FlattenCompoundArguments(args)
    PROVE  /\ AreArguments(flat)
           /\ DOMAIN args \subseteq DOMAIN flat /\ \A n \in DOMAIN args : flat[n] = args[n]
           /\ \A n \in DOMAIN flat \ DOMAIN args :
                 /\ Len(n) > 1
                 /\ \E m \in DOMAIN args : \E path \in DOMAIN args[m].fields :
                       n = m \o path /\ flat[n].is_input = args[m].is_input
<1> DEFINE fields == UNION {{Field(args[n], path) : path \in DOMAIN args[n].fields} : n \in DOMAIN args}
           added == [name \in {field.name : field \in fields} |-> CHOOSE field \in fields : field.name = name]
<1>1. flat = With(args, added)
    BY DEF FlattenCompoundArguments
<1>2. \A n \in DOMAIN args : \A path \in DOMAIN args[n].fields : n \o path \in DOMAIN added
    <2> SUFFICES ASSUME NEW n \in DOMAIN args, NEW path \in DOMAIN args[n].fields
                 PROVE  n \o path \in DOMAIN added
        OBVIOUS
    <2>1. Field(args[n], path) \in fields
        OBVIOUS
    <2>2. Field(args[n], path).name = n \o path
        BY FieldIs
    <2> QED BY <2>1, <2>2
<1>3. \A name \in DOMAIN added :
         \E n \in DOMAIN args : \E path \in DOMAIN args[n].fields :
            added[name] = Field(args[n], path) /\ name = n \o path
    <2> SUFFICES ASSUME NEW name \in DOMAIN added
                 PROVE  \E n \in DOMAIN args : \E path \in DOMAIN args[n].fields :
                           added[name] = Field(args[n], path) /\ name = n \o path
        OBVIOUS
    <2>1. added[name] \in fields /\ added[name].name = name
        <3>1. \E field \in fields : field.name = name
            OBVIOUS
        <3> HIDE DEF fields
        <3> QED BY <3>1
    <2>2. PICK n \in DOMAIN args : added[name] \in {Field(args[n], path) : path \in DOMAIN args[n].fields}
        <3> HIDE DEF added
        <3> QED BY <2>1
    <2>3. PICK path \in DOMAIN args[n].fields : added[name] = Field(args[n], path)
        <3> HIDE DEF added
        <3> QED BY <2>2
    <2>4. Field(args[n], path).name = n \o path
        BY FieldIs
    <2> HIDE DEF added
    <2> QED BY <2>1, <2>3, <2>4
<1> HIDE DEF fields, added
<1>4. /\ DOMAIN flat = DOMAIN args \union DOMAIN added
      /\ \A n \in DOMAIN args : flat[n] = args[n]
      /\ \A n \in DOMAIN added \ DOMAIN args : flat[n] = added[n]
    <2>1. /\ DOMAIN With(args, added) = DOMAIN args \union DOMAIN added
          /\ \A n \in DOMAIN args : With(args, added)[n] = args[n]
          /\ \A n \in DOMAIN added \ DOMAIN args : With(args, added)[n] = added[n]
        BY WithIs, Zenon
    <2> QED BY <1>1, <2>1
<1>5. ASSUME NEW n \in DOMAIN flat \ DOMAIN args
      PROVE  /\ n \in Name /\ Len(n) > 1
             /\ DOMAIN flat[n] = {"name", "is_input", "type", "fields"} /\ flat[n].name = n
             /\ \E m \in DOMAIN args : \E path \in DOMAIN args[m].fields :
                   n = m \o path /\ flat[n].is_input = args[m].is_input
             /\ \A q \in DOMAIN flat[n].fields : q \in Name /\ n \o q \in DOMAIN flat
    <2>1. n \in DOMAIN added /\ flat[n] = added[n]
        BY <1>4
    <2>2. PICK m \in DOMAIN args : \E path \in DOMAIN args[m].fields :
             flat[n] = Field(args[m], path) /\ n = m \o path
        BY <1>3, <2>1
    <2>3. PICK path \in DOMAIN args[m].fields : flat[n] = Field(args[m], path) /\ n = m \o path
        BY <2>2
    <2>4. /\ n \in Name /\ Len(n) > 1
          /\ DOMAIN flat[n] = {"name", "is_input", "type", "fields"} /\ flat[n].name = n
          /\ flat[n].is_input = args[m].is_input
          /\ \A q \in DOMAIN flat[n].fields : q \in Name /\ path \o q \in DOMAIN args[m].fields
        BY <2>3, FieldIs
    <2>5. ASSUME NEW q \in DOMAIN flat[n].fields PROVE n \o q \in DOMAIN flat
        <3>1. m \o (path \o q) \in DOMAIN flat
            BY <1>2, <1>4, <2>4
        <3>2. m \in Seq(Part) /\ path \in Seq(Part) /\ q \in Seq(Part)
            BY <2>4 DEF Shaped, Name
        <3>3. (m \o path) \o q = m \o (path \o q)
            BY <3>2, ConcatAssociative
        <3> QED BY <2>3, <3>1, <3>3
    <2> QED BY <2>3, <2>4, <2>5
<1>6. AreArguments(flat)
    <2> SUFFICES ASSUME NEW n \in DOMAIN flat
                 PROVE  /\ n \in Name
                        /\ DOMAIN flat[n] = {"name", "is_input", "type", "fields"} /\ flat[n].name = n
                        /\ \A path \in DOMAIN flat[n].fields :
                              path \in Name /\ n \o path \in DOMAIN flat
        BY DEF AreArguments
    <2>1. CASE n \in DOMAIN args
        BY <1>2, <1>4, <2>1 DEF Shaped, Name
    <2>2. CASE n \notin DOMAIN args
        BY <1>5, <2>2 DEF Name
    <2> QED BY <2>1, <2>2
<1> QED BY <1>4, <1>5, <1>6

\* Arguments that have all their fields are not changed.
LEMMA FlatIsFlat ==
    ASSUME NEW args, AreArguments(args), NEW flat, flat = FlattenCompoundArguments(args)
    PROVE  DOMAIN flat = DOMAIN args /\ \A n \in DOMAIN args : flat[n] = args[n]
<1>1. Shaped(args)
    BY DEF AreArguments, Shaped, Name
<1>2. /\ DOMAIN args \subseteq DOMAIN flat /\ \A n \in DOMAIN args : flat[n] = args[n]
      /\ \A n \in DOMAIN flat \ DOMAIN args :
            \E m \in DOMAIN args : \E path \in DOMAIN args[m].fields :
               n = m \o path /\ flat[n].is_input = args[m].is_input
    BY <1>1, FlattenIs
<1>3. \A m \in DOMAIN args : \A path \in DOMAIN args[m].fields : m \o path \in DOMAIN args
    BY DEF AreArguments
<1>4. DOMAIN flat \subseteq DOMAIN args
    <2> SUFFICES ASSUME NEW n \in DOMAIN flat, n \notin DOMAIN args PROVE FALSE
        OBVIOUS
    <2>1. PICK m \in DOMAIN args : \E path \in DOMAIN args[m].fields : n = m \o path
        BY <1>2
    <2> QED BY <1>3, <2>1
<1> QED BY <1>2, <1>4

--------------------------------------------------------------------------------
(* Signatures.                                                                  *)

LEMMA OutputsAre ==
    ASSUME NEW f
    PROVE  /\ OutNames(f) = {n \in DOMAIN IterateArguments(f) : ~IterateArguments(f)[n].is_input}
           /\ \A n \in OutNames(f) : Outputs(f)[n] = IterateArguments(f)[n]
BY DEF OutNames, Outputs, RestrictValues, Restrict

LEMMA ArgumentsAre ==
    ASSUME NEW f
    PROVE  /\ DOMAIN IterateArguments(f) = DOMAIN f.args \union DOMAIN f.extends
           /\ \A n \in DOMAIN f.args : IterateArguments(f)[n] = f.args[n]
           /\ \A n \in DOMAIN f.extends \ DOMAIN f.args : IterateArguments(f)[n] = f.extends[n]
BY WithIs DEF IterateArguments

LEMMA IteratedShaped ==
    ASSUME NEW f, AreArguments(f.args), AreArguments(f.extends)
    PROVE  AreArguments(IterateArguments(f))
<1> DEFINE all == IterateArguments(f)
<1>1. /\ DOMAIN all = DOMAIN f.args \union DOMAIN f.extends
      /\ \A n \in DOMAIN f.args : all[n] = f.args[n]
      /\ \A n \in DOMAIN f.extends \ DOMAIN f.args : all[n] = f.extends[n]
    BY ArgumentsAre
<1> HIDE DEF all
<1>2. AreArguments(all)
    BY <1>1 DEF AreArguments
<1> QED BY <1>2 DEF all

\* What _cloneInternal() takes from the signature and what it is given.
Clones(c, f, args, extends) ==
    /\ DOMAIN c = {"functionType", "class", "extends", "qualifiers", "annotations", "args", "is_list",
                   "is_monitorable", "require_filter", "default_projection", "minimal_projection"}
    /\ DOMAIN c.annotations = {"require_filter", "default_projection", "minimal_projection"}
    /\ c.args = FlattenCompoundArguments(args) /\ c.extends = extends
    /\ c.require_filter = f.annotations.require_filter
    /\ c.annotations.require_filter = f.annotations.require_filter
    /\ c.minimal_projection = c.annotations.minimal_projection
    /\ f.annotations.minimal_projection = NotGiven => c.minimal_projection = {<< "id" >>} \intersect OutNames(c)
    /\ f.annotations.minimal_projection # NotGiven => c.minimal_projection = f.annotations.minimal_projection

LEMMA CloneIs ==
    ASSUME NEW f, NEW args, NEW extends,
           DOMAIN f.annotations = {"require_filter", "default_projection", "minimal_projection"},
           NEW c, c = CloneWith(f, args, extends)
    PROVE  Clones(c, f, args, extends)
<1> DEFINE asked == f.annotations.minimal_projection
<1> DEFINE made == [functionType |-> f.functionType, class |-> f.class, extends |-> extends,
                    qualifiers |-> f.qualifiers, annotations |-> f.annotations,
                    args |-> FlattenCompoundArguments(args),
                    is_list |-> f.qualifiers.is_list, is_monitorable |-> f.qualifiers.is_monitorable,
                    require_filter |-> f.annotations.require_filter,
                    default_projection |-> Given(f.annotations.default_projection),
                    minimal_projection |-> f.annotations.minimal_projection]
           once == SetMinimalProjection(made)
<1>1. c = SetMinimalProjection(IF f.class THEN once ELSE made)
    BY DEF CloneWith, FunctionDef
<1>2. SetMinimalProjection(once) = once
    <2>1. CASE asked # NotGiven
        BY <2>1 DEF SetMinimalProjection
    <2>2. CASE asked = NotGiven
        <3> DEFINE minimal == {<< "id" >>} \intersect OutNames(made)
        <3>1. once = [made EXCEPT !.minimal_projection = minimal, !.annotations.minimal_projection = minimal]
            BY <2>2 DEF SetMinimalProjection
        <3>2. minimal # NotGiven
            <4>1. << "id" >> # << >>
                OBVIOUS
            <4> QED BY <4>1 DEF NotGiven
        <3>3. once.minimal_projection = minimal
            <4> HIDE DEF minimal, once
            <4> QED BY <3>1
        <3> HIDE DEF minimal, once
        <3> QED BY <3>2, <3>3 DEF SetMinimalProjection
    <2> QED BY <2>1, <2>2
<1>3. c = once
    BY <1>1, <1>2
<1>4. /\ DOMAIN made = {"functionType", "class", "extends", "qualifiers", "annotations", "args", "is_list",
                        "is_monitorable", "require_filter", "default_projection", "minimal_projection"}
      /\ made.args = FlattenCompoundArguments(args) /\ made.extends = extends
      /\ made.require_filter = f.annotations.require_filter /\ made.annotations = f.annotations
      /\ made.minimal_projection = asked
    OBVIOUS
<1> DEFINE minimal == {<< "id" >>} \intersect OutNames(made)
<1>5. OutNames(c) = OutNames(made)
    <2>1. c.args = made.args /\ c.extends = made.extends
        <3>1. CASE asked # NotGiven
            BY <1>3, <3>1 DEF SetMinimalProjection
        <3>2. CASE asked = NotGiven
            <4>1. c = [made EXCEPT !.minimal_projection = minimal, !.annotations.minimal_projection = minimal]
                BY <1>3, <3>2 DEF SetMinimalProjection
            <4> HIDE DEF once, made, minimal
            <4> QED BY <1>4, <4>1
        <3> QED BY <3>1, <3>2
    <2> HIDE DEF once, made
    <2> QED BY <2>1 DEF OutNames, Outputs, IterateArguments
<1>6. CASE asked # NotGiven
    <2>1. c = made
        BY <1>3, <1>6 DEF SetMinimalProjection
    <2> HIDE DEF made, once
    <2> QED BY <1>4, <1>6, <2>1 DEF Clones
<1>7. CASE asked = NotGiven
    <2>1. c = [made EXCEPT !.minimal_projection = minimal, !.annotations.minimal_projection = minimal]
        BY <1>3, <1>7 DEF SetMinimalProjection
    <2> HIDE DEF once, made, minimal
    <2>2. /\ DOMAIN c = DOMAIN made /\ DOMAIN c.annotations = DOMAIN made.annotations
          /\ c.args = made.args /\ c.extends = made.extends /\ c.require_filter = made.require_filter
          /\ c.annotations.require_filter = made.annotations.require_filter
          /\ c.minimal_projection = minimal /\ c.annotations.minimal_projection = minimal
        BY <1>4, <2>1
    <2>3. minimal = {<< "id" >>} \intersect OutNames(c)
        BY <1>5 DEF minimal
    <2> QED BY <1>4, <1>7, <2>2, <2>3 DEF Clones
<1> HIDE DEF once, made, minimal
<1> QED BY <1>6, <1>7

\* A signature that need not have the outputs of its minimal projection.
Formed(f) ==
    /\ DOMAIN f = {"functionType", "class", "extends", "qualifiers", "annotations", "args", "is_list",
                   "is_monitorable", "require_filter", "default_projection", "minimal_projection"}
    /\ DOMAIN f.annotations = {"require_filter", "default_projection", "minimal_projection"}
    /\ AreArguments(f.args) /\ AreArguments(f.extends)
    /\ f.require_filter = f.annotations.require_filter
    /\ Given(f.minimal_projection) = Given(f.annotations.minimal_projection)

LEMMA SignatureIs ==
    ASSUME NEW f
    PROVE  IsSignature(f) <=> Formed(f) /\ Given(f.minimal_projection) \subseteq OutNames(f)
BY DEF IsSignature, Formed

LEMMA CloneFormed ==
    ASSUME NEW f, Formed(f), NEW args, Shaped(args), NEW extends, AreArguments(extends),
           NEW c, c = CloneWith(f, args, extends)
    PROVE  /\ Formed(c)
           /\ c.require_filter = f.require_filter
           /\ \/ Given(c.minimal_projection) \subseteq OutNames(c)
              \/ Given(c.minimal_projection) = Given(f.minimal_projection)
<1>1. DOMAIN f.annotations = {"require_filter", "default_projection", "minimal_projection"}
    BY DEF Formed
<1>2. Clones(c, f, args, extends)
    BY <1>1, CloneIs, Zenon
<1>3. AreArguments(c.args) /\ AreArguments(c.extends)
    <2>1. c.args = FlattenCompoundArguments(args) /\ c.extends = extends
        BY <1>2 DEF Clones
    <2> QED BY <2>1, FlattenIs
<1>4. Formed(c) /\ c.require_filter = f.require_filter
    BY <1>2, <1>3 DEF Formed, Clones
<1>5. CASE f.annotations.minimal_projection = NotGiven
    <2>1. c.minimal_projection \subseteq OutNames(c)
        BY <1>2, <1>5 DEF Clones
    <2>2. Given(c.minimal_projection) \subseteq OutNames(c)
        BY <2>1 DEF Given
    <2> QED BY <1>4, <2>2
<1>6. CASE f.annotations.minimal_projection # NotGiven
    <2>1. Given(c.minimal_projection) = Given(f.minimal_projection)
        BY <1>2, <1>6 DEF Formed, Clones
    <2> QED BY <1>4, <2>1
<1> QED BY <1>5, <1>6

\* Two signatures have the same arguments.
SameArguments(f, g) ==
    /\ DOMAIN IterateArguments(f) = DOMAIN IterateArguments(g)
    /\ \A n \in DOMAIN IterateArguments(g) : IterateArguments(f)[n] = IterateArguments(g)[n]

LEMMA SameOutputs ==
    ASSUME NEW f, NEW g, SameArguments(f, g)
    PROVE  OutNames(f) = OutNames(g) /\ \A n \in OutNames(g) : Outputs(f)[n] = Outputs(g)[n]
<1>1. OutNames(f) = OutNames(g)
    BY OutputsAre DEF SameArguments
<1> QED BY <1>1, OutputsAre DEF SameArguments

\* clone()
LEMMA CloneDefIs ==
    ASSUME NEW f, IsSignature(f), NEW c, c = CloneDef(f)
    PROVE  IsSignature(c) /\ SameArguments(c, f) /\ c.require_filter = f.require_filter
<1>0. c = CloneWith(f, f.args, f.extends)
    BY DEF CloneDef
<1>1. Formed(f) /\ AreArguments(f.args) /\ AreArguments(f.extends) /\ Shaped(f.args)
    BY SignatureIs DEF Formed, Shaped, AreArguments, Name
<1>2. /\ Formed(c) /\ c.require_filter = f.require_filter
      /\ \/ Given(c.minimal_projection) \subseteq OutNames(c)
         \/ Given(c.minimal_projection) = Given(f.minimal_projection)
    BY <1>0, <1>1, CloneFormed
<1>3. c.args = FlattenCompoundArguments(f.args) /\ c.extends = f.extends
    <2>1. DOMAIN f.annotations = {"require_filter", "default_projection", "minimal_projection"}
        BY <1>1 DEF Formed
    <2>2. Clones(c, f, f.args, f.extends)
        BY <1>0, <2>1, CloneIs, Zenon
    <2> QED BY <2>2 DEF Clones
<1>4. SameArguments(c, f)
    <2>1. DOMAIN c.args = DOMAIN f.args /\ \A n \in DOMAIN f.args : c.args[n] = f.args[n]
        BY <1>1, <1>3, FlatIsFlat
    <2>2. /\ DOMAIN IterateArguments(c) = DOMAIN c.args \union DOMAIN c.extends
          /\ \A n \in DOMAIN c.args : IterateArguments(c)[n] = c.args[n]
          /\ \A n \in DOMAIN c.extends \ DOMAIN c.args : IterateArguments(c)[n] = c.extends[n]
        BY ArgumentsAre
    <2>3. /\ DOMAIN IterateArguments(f) = DOMAIN f.args \union DOMAIN f.extends
          /\ \A n \in DOMAIN f.args : IterateArguments(f)[n] = f.args[n]
          /\ \A n \in DOMAIN f.extends \ DOMAIN f.args : IterateArguments(f)[n] = f.extends[n]
        BY ArgumentsAre
    <2> QED BY <1>3, <2>1, <2>2, <2>3 DEF SameArguments
<1>5. OutNames(c) = OutNames(f)
    BY <1>4, SameOutputs
<1>6. IsSignature(c)
    BY <1>2, <1>5, SignatureIs
<1> QED BY <1>2, <1>4, <1>6
--------------------------------------------------------------------------------
(* Adding arguments and leaving some out.                                       *)

\* An output that an operator adds.
IsAdded(arg, name) ==
    /\ name \in Name /\ arg.name = name
    /\ DOMAIN arg = {"name", "is_input", "type", "fields"}
    /\ arg.is_input = FALSE /\ DOMAIN arg.fields = {}

LEMMA ArgmapIs ==
    ASSUME NEW k \in Nat, NEW list, DOMAIN list = 1 .. k,
           \A i \in 1 .. k : IsAdded(list[i], list[i].name)
    PROVE  /\ DOMAIN Argmap(list) = {list[i].name : i \in 1 .. k}
           /\ \A n \in DOMAIN Argmap(list) : IsAdded(Argmap(list)[n], n)
<1>1. DOMAIN Argmap(list) = {list[i].name : i \in 1 .. k}
    BY DEF Argmap
<1>2. ASSUME NEW n \in DOMAIN Argmap(list) PROVE IsAdded(Argmap(list)[n], n)
    <2> DEFINE later == {i \in DOMAIN list : list[i].name = n}
               last == CHOOSE i \in later : \A o \in later : o <= i
    <2>1. later \in SUBSET (1 .. k) /\ later # {}
        BY <1>1
    <2>2. \E i \in later : \A o \in later : o <= i
        <3> HIDE DEF later
        <3>1. Max(later) \in later /\ \A o \in later : Max(later) >= o
            BY <2>1, MaxExists
        <3>2. \A o \in later : o <= Max(later)
            BY <2>1, <3>1
        <3> QED BY <3>1, <3>2
    <2>3. last \in later
        <3> HIDE DEF later
        <3> QED BY <2>2
    <2>4. Argmap(list)[n] = list[last]
        BY <1>1 DEF Argmap
    <2>5. last \in 1 .. k /\ list[last].name = n
        <3> HIDE DEF last
        <3> QED BY <2>3
    <2> HIDE DEF later, last
    <2> QED BY <2>4, <2>5
<1> QED BY <1>1, <1>2

\* Extended(c, f, given): c has the outputs of f and those that are given.
Extended(c, f, given) ==
    /\ IsSignature(c) /\ c.require_filter = f.require_filter
    /\ OutNames(c) = OutNames(f) \union DOMAIN given
    /\ \A n \in DOMAIN given : Outputs(c)[n] = given[n]
    /\ \A n \in OutNames(f) \ DOMAIN given : Outputs(c)[n] = Outputs(f)[n]

\* addArguments()
LEMMA AddIs ==
    ASSUME NEW f, IsSignature(f), NEW list, NEW given, given = Argmap(list),
           \A n \in DOMAIN given : IsAdded(given[n], n),
           NEW c, c = AddArguments(f, list)
    PROVE  Extended(c, f, given)
<1> DEFINE args == With(given, f.args)
<1>0. c = CloneWith(f, args, f.extends)
    BY DEF AddArguments
<1>1. Formed(f) /\ AreArguments(f.args) /\ AreArguments(f.extends)
    BY SignatureIs DEF Formed
<1>2. /\ DOMAIN args = DOMAIN given \union DOMAIN f.args
      /\ \A n \in DOMAIN given : args[n] = given[n]
      /\ \A n \in DOMAIN f.args \ DOMAIN given : args[n] = f.args[n]
    BY DEF With
<1> HIDE DEF args
<1>3. AreArguments(args)
    <2> SUFFICES ASSUME NEW n \in DOMAIN args
                 PROVE  /\ n \in Name
                        /\ DOMAIN args[n] = {"name", "is_input", "type", "fields"} /\ args[n].name = n
                        /\ \A path \in DOMAIN args[n].fields :
                              path \in Name /\ n \o path \in DOMAIN args
        BY DEF AreArguments
    <2>1. CASE n \in DOMAIN given
        BY <1>2, <2>1 DEF IsAdded, Name
    <2>2. CASE n \notin DOMAIN given
        BY <1>1, <1>2, <2>2 DEF AreArguments
    <2> QED BY <2>1, <2>2
<1>4. /\ Formed(c) /\ c.require_filter = f.require_filter
      /\ \/ Given(c.minimal_projection) \subseteq OutNames(c)
         \/ Given(c.minimal_projection) = Given(f.minimal_projection)
    <2>1. Shaped(args)
        BY <1>3 DEF AreArguments, Shaped, Name
    <2> QED BY <1>0, <1>1, <2>1, CloneFormed
<1>5. c.args = FlattenCompoundArguments(args) /\ c.extends = f.extends
    <2>1. DOMAIN f.annotations = {"require_filter", "default_projection", "minimal_projection"}
        BY <1>1 DEF Formed
    <2>2. Clones(c, f, args, f.extends)
        BY <1>0, <2>1, CloneIs, Zenon
    <2> QED BY <2>2 DEF Clones
<1>6. DOMAIN c.args = DOMAIN args /\ \A n \in DOMAIN args : c.args[n] = args[n]
    BY <1>3, <1>5, FlatIsFlat
<1> DEFINE all == IterateArguments(c)
           before == IterateArguments(f)
<1>7. /\ DOMAIN all = DOMAIN given \union DOMAIN before
      /\ \A n \in DOMAIN given : all[n] = given[n]
      /\ \A n \in DOMAIN before \ DOMAIN given : all[n] = before[n]
    <2>1. /\ DOMAIN all = DOMAIN c.args \union DOMAIN c.extends
          /\ \A n \in DOMAIN c.args : all[n] = c.args[n]
          /\ \A n \in DOMAIN c.extends \ DOMAIN c.args : all[n] = c.extends[n]
        BY ArgumentsAre
    <2>2. /\ DOMAIN before = DOMAIN f.args \union DOMAIN f.extends
          /\ \A n \in DOMAIN f.args : before[n] = f.args[n]
          /\ \A n \in DOMAIN f.extends \ DOMAIN f.args : before[n] = f.extends[n]
        BY ArgumentsAre
    <2> HIDE DEF all, before
    <2> QED BY <1>2, <1>5, <1>6, <2>1, <2>2
<1>8. /\ OutNames(c) = {n \in DOMAIN all : ~all[n].is_input}
      /\ \A n \in OutNames(c) : Outputs(c)[n] = all[n]
      /\ OutNames(f) = {n \in DOMAIN before : ~before[n].is_input}
      /\ \A n \in OutNames(f) : Outputs(f)[n] = before[n]
    BY OutputsAre
<1> HIDE DEF all, before
<1>9. \A n \in DOMAIN given : ~given[n].is_input
    BY DEF IsAdded
<1>10. /\ OutNames(c) = OutNames(f) \union DOMAIN given
       /\ \A n \in DOMAIN given : Outputs(c)[n] = given[n]
       /\ \A n \in OutNames(f) \ DOMAIN given : Outputs(c)[n] = Outputs(f)[n]
    BY <1>7, <1>8, <1>9
<1>11. IsSignature(c)
    <2>1. Given(f.minimal_projection) \subseteq OutNames(f)
        BY SignatureIs
    <2> QED BY <1>4, <1>10, <2>1, SignatureIs
<1> QED BY <1>4, <1>10, <1>11 DEF Extended

\* ReducedTo(c, f, kept): c has the arguments of f that are kept, and fields of them.
ReducedTo(c, f, kept) ==
    /\ Formed(c) /\ c.require_filter = f.require_filter
    /\ \/ Given(c.minimal_projection) \subseteq OutNames(c)
       \/ Given(c.minimal_projection) = Given(f.minimal_projection)
    /\ kept \subseteq DOMAIN IterateArguments(c)
    /\ \A n \in kept : IterateArguments(c)[n] = IterateArguments(f)[n]
    /\ \A n \in DOMAIN IterateArguments(c) \ kept :
          /\ Len(n) > 1 /\ n \in DOMAIN IterateArguments(f)
          /\ \E m \in kept : IterateArguments(c)[n].is_input = IterateArguments(f)[m].is_input

\* filterArguments()
LEMMA FilterIs ==
    ASSUME NEW f, IsSignature(f), NEW kept, kept \subseteq DOMAIN IterateArguments(f),
           NEW c, c = CloneWith(f, Restrict(IterateArguments(f), kept), << >>)
    PROVE  ReducedTo(c, f, kept)
<1> DEFINE all == IterateArguments(f)
           args == Restrict(all, kept)
<1>1. Formed(f) /\ AreArguments(f.args) /\ AreArguments(f.extends)
    BY SignatureIs DEF Formed
<1>2. AreArguments(all)
    BY <1>1, IteratedShaped
<1>3. DOMAIN args = kept /\ kept \subseteq DOMAIN all /\ \A n \in kept : args[n] = all[n]
    BY DEF Restrict
<1>4. Shaped(args)
    <2> HIDE DEF args, all
    <2> QED BY <1>2, <1>3 DEF AreArguments, Shaped, Name
<1>5. AreArguments(<< >>)
    BY DEF AreArguments
<1>6. c = CloneWith(f, args, << >>)
    OBVIOUS
<1> HIDE DEF args, all
<1>7. /\ Formed(c) /\ c.require_filter = f.require_filter
      /\ \/ Given(c.minimal_projection) \subseteq OutNames(c)
         \/ Given(c.minimal_projection) = Given(f.minimal_projection)
    BY <1>1, <1>4, <1>5, <1>6, CloneFormed
<1>8. c.args = FlattenCompoundArguments(args) /\ c.extends = << >>
    <2>1. DOMAIN f.annotations = {"require_filter", "default_projection", "minimal_projection"}
        BY <1>1 DEF Formed
    <2>2. Clones(c, f, args, << >>)
        BY <1>6, <2>1, CloneIs, Zenon
    <2> QED BY <2>2 DEF Clones
<1>9. /\ DOMAIN args \subseteq DOMAIN c.args /\ \A n \in DOMAIN args : c.args[n] = args[n]
      /\ \A n \in DOMAIN c.args \ DOMAIN args :
            /\ Len(n) > 1
            /\ \E m \in DOMAIN args : \E path \in DOMAIN args[m].fields :
                  n = m \o path /\ c.args[n].is_input = args[m].is_input
    BY <1>4, <1>8, FlattenIs
<1>10. /\ DOMAIN IterateArguments(c) = DOMAIN c.args
       /\ \A n \in DOMAIN c.args : IterateArguments(c)[n] = c.args[n]
    <2>1. /\ DOMAIN IterateArguments(c) = DOMAIN c.args \union DOMAIN c.extends
          /\ \A n \in DOMAIN c.args : IterateArguments(c)[n] = c.args[n]
        BY ArgumentsAre
    <2>2. DOMAIN c.extends = {}
        BY <1>8
    <2> QED BY <2>1, <2>2
<1>11. ASSUME NEW n \in DOMAIN c.args \ kept
       PROVE  Len(n) > 1 /\ n \in DOMAIN all /\ \E m \in kept : c.args[n].is_input = all[m].is_input
    <2>1. PICK m \in kept : \E path \in DOMAIN args[m].fields :
             n = m \o path /\ c.args[n].is_input = args[m].is_input
        BY <1>3, <1>9
    <2>2. PICK path \in DOMAIN all[m].fields : n = m \o path
        BY <1>3, <2>1
    <2>3. m \o path \in DOMAIN all
        BY <1>2, <2>2 DEF AreArguments, all
    <2> QED BY <1>3, <1>9, <2>1, <2>2, <2>3
<1> QED BY <1>3, <1>7, <1>9, <1>10, <1>11 DEF all, ReducedTo

\* removeDefaultProjection(), removeMinimalProjection()
LEMMA RemoveIs ==
    ASSUME NEW f, Formed(f), NEW c, c = RemoveProjections(f)
    PROVE  /\ c.args = f.args /\ c.extends = f.extends
           /\ DOMAIN c = DOMAIN f /\ DOMAIN c.annotations = DOMAIN f.annotations
           /\ c.require_filter = f.require_filter
           /\ c.annotations.require_filter = f.annotations.require_filter
           /\ c.minimal_projection = {} /\ c.annotations.minimal_projection = NotGiven
<1>1. /\ DOMAIN f = {"functionType", "class", "extends", "qualifiers", "annotations", "args", "is_list",
                     "is_monitorable", "require_filter", "default_projection", "minimal_projection"}
      /\ DOMAIN f.annotations = {"require_filter", "default_projection", "minimal_projection"}
    BY DEF Formed
<1>2. c = [f EXCEPT !.default_projection = {}, !.annotations.default_projection = NotGiven,
                    !.minimal_projection = {}, !.annotations.minimal_projection = NotGiven]
    BY DEF RemoveProjections
<1>3. DOMAIN c = DOMAIN f
    BY <1>2
<1>4. c.args = f.args /\ c.extends = f.extends /\ c.require_filter = f.require_filter
    BY <1>1, <1>2
<1>5. c.minimal_projection = {}
    BY <1>1, <1>2
<1>6. c.annotations = [f.annotations EXCEPT !.default_projection = NotGiven, !.minimal_projection = NotGiven]
    BY <1>1, <1>2
<1>7. /\ DOMAIN c.annotations = DOMAIN f.annotations
      /\ c.annotations.require_filter = f.annotations.require_filter
      /\ c.annotations.minimal_projection = NotGiven
    BY <1>1, <1>6
<1> QED BY <1>3, <1>4, <1>5, <1>7

\* _typeCheckAggregation() goes on with a signature without outputs.
LEMMA CleanIs ==
    ASSUME NEW f, IsSignature(f), NEW c, c = CleanOutput(f)
    PROVE  IsSignature(c) /\ OutNames(c) = {} /\ c.require_filter = f.require_filter
<1> DEFINE kept == {n \in DOMAIN IterateArguments(f) : IterateArguments(f)[n].is_input}
           filtered == CloneWith(f, Restrict(IterateArguments(f), kept), << >>)
<1>1. c = RemoveProjections(filtered)
    BY DEF CleanOutput, FilterArguments, RestrictValues
<1>2. ReducedTo(filtered, f, kept)
    <2>1. kept \subseteq DOMAIN IterateArguments(f)
        OBVIOUS
    <2> HIDE DEF kept
    <2> QED BY <2>1, FilterIs, Zenon
<1> HIDE DEF filtered
<1>3. OutNames(filtered) = {}
    BY <1>2, OutputsAre DEF ReducedTo
<1>4. /\ c.args = filtered.args /\ c.extends = filtered.extends /\ DOMAIN c = DOMAIN filtered
      /\ DOMAIN c.annotations = DOMAIN filtered.annotations
      /\ c.require_filter = filtered.require_filter
      /\ c.annotations.require_filter = filtered.annotations.require_filter
      /\ c.minimal_projection = {} /\ c.annotations.minimal_projection = NotGiven
    <2>1. Formed(filtered)
        BY <1>2 DEF ReducedTo
    <2> QED BY <1>1, <2>1, RemoveIs
<1>5. OutNames(c) = OutNames(filtered)
    BY <1>4 DEF OutNames, Outputs, IterateArguments
<1>6. IsSignature(c)
    BY <1>2, <1>4 DEF ReducedTo, IsSignature, Formed, Given
<1> QED BY <1>2, <1>3, <1>4, <1>5, <1>6 DEF ReducedTo

\* Same(c, f): a signature with the arguments of another one.
Same(c, f) == IsSignature(c) /\ SameArguments(c, f)

\* What is changed of a signature that is neither an argument nor an annotation of
\* filters or of minimal projections.
LEMMA SameIs ==
    ASSUME NEW f, IsSignature(f), NEW c, DOMAIN c = DOMAIN f,
           c.args = f.args, c.extends = f.extends, c.annotations = f.annotations,
           c.require_filter = f.require_filter, c.minimal_projection = f.minimal_projection
    PROVE  Same(c, f)
<1>1. IterateArguments(c) = IterateArguments(f)
    BY DEF IterateArguments
<1>2. SameArguments(c, f) /\ OutNames(c) = OutNames(f)
    BY <1>1, SameOutputs DEF SameArguments
<1>3. IsSignature(c)
    BY <1>2 DEF IsSignature
<1> QED BY <1>2, <1>3 DEF Same

LEMMA SameTransitive ==
    ASSUME NEW f, NEW g, NEW h, Same(f, g), Same(g, h)
    PROVE  Same(f, h)
BY DEF Same, SameArguments

\* _resolveFilter()
LEMMA FilteredIs ==
    ASSUME NEW f, IsSignature(f), NEW c, c = Filtered(f)
    PROVE  Same(c, f) /\ c.require_filter = FALSE
<1> DEFINE clone == CloneDef(f)
<1>1. c = [clone EXCEPT !.require_filter = FALSE, !.annotations.require_filter = FALSE]
    BY DEF Filtered
<1>2. IsSignature(clone) /\ SameArguments(clone, f)
    BY CloneDefIs
<1> HIDE DEF clone
<1>3. /\ DOMAIN clone = {"functionType", "class", "extends", "qualifiers", "annotations", "args", "is_list",
                         "is_monitorable", "require_filter", "default_projection", "minimal_projection"}
      /\ DOMAIN clone.annotations = {"require_filter", "default_projection", "minimal_projection"}
    BY <1>2 DEF IsSignature
<1>4. /\ DOMAIN c = DOMAIN clone /\ c.args = clone.args /\ c.extends = clone.extends
      /\ c.require_filter = FALSE /\ c.minimal_projection = clone.minimal_projection
    BY <1>1, <1>3
<1>5. c.annotations = [clone.annotations EXCEPT !.require_filter = FALSE]
    BY <1>1, <1>3
<1>6. /\ DOMAIN c.annotations = DOMAIN clone.annotations /\ c.annotations.require_filter = FALSE
      /\ c.annotations.minimal_projection = clone.annotations.minimal_projection
    BY <1>3, <1>5
<1>7. IterateArguments(c) = IterateArguments(clone)
    BY <1>4 DEF IterateArguments
<1>8. SameArguments(c, clone) /\ OutNames(c) = OutNames(clone)
    BY <1>7, SameOutputs DEF SameArguments
<1>9. IsSignature(c)
    BY <1>2, <1>4, <1>6, <1>8 DEF IsSignature
<1>10. SameArguments(c, f)
    BY <1>2, <1>8 DEF SameArguments
<1> QED BY <1>4, <1>9, <1>10 DEF Same

\* _typeCheckMonitor()
LEMMA AsTypeIs ==
    ASSUME NEW f, IsSignature(f), NEW functionType, NEW c, c = AsType(f, functionType)
    PROVE  Same(c, f) /\ c.require_filter = f.require_filter
<1> DEFINE clone == CloneDef(f)
<1>1. c = [clone EXCEPT !.functionType = functionType]
    BY DEF AsType
<1>2. Same(clone, f) /\ clone.require_filter = f.require_filter
    BY CloneDefIs DEF Same
<1> HIDE DEF clone
<1>3. DOMAIN clone = {"functionType", "class", "extends", "qualifiers", "annotations", "args", "is_list",
                      "is_monitorable", "require_filter", "default_projection", "minimal_projection"}
    BY <1>2 DEF Same, IsSignature
<1>4. /\ DOMAIN c = DOMAIN clone /\ c.args = clone.args /\ c.extends = clone.extends
      /\ c.require_filter = clone.require_filter /\ c.minimal_projection = clone.minimal_projection
      /\ c.annotations = clone.annotations
    BY <1>1, <1>3
<1>5. IsSignature(clone)
    BY <1>2 DEF Same
<1>6. Same(c, clone)
    BY <1>4, <1>5, SameIs
<1> QED BY <1>2, <1>4, <1>6, SameTransitive

\* _resolveChain()
LEMMA ChainIs ==
    ASSUME IsSignature(schema), NEW c, c = ResolveChain
    PROVE  Same(c, schema) /\ c.require_filter = schema.require_filter
<1> DEFINE clone == CloneDef(schema)
           schemas == {Elements[n].schema : n \in DOMAIN Elements}
<1>1. c = [clone EXCEPT !.is_list = \E f \in schemas : f.is_list,
                        !.is_monitorable = \A f \in schemas : f.is_monitorable]
    BY DEF ResolveChain
<1>2. Same(clone, schema) /\ clone.require_filter = schema.require_filter
    BY CloneDefIs DEF Same
<1> HIDE DEF clone, schemas
<1>3. DOMAIN clone = {"functionType", "class", "extends", "qualifiers", "annotations", "args", "is_list",
                      "is_monitorable", "require_filter", "default_projection", "minimal_projection"}
    BY <1>2 DEF Same, IsSignature
<1>4. /\ DOMAIN c = DOMAIN clone /\ c.args = clone.args /\ c.extends = clone.extends
      /\ c.require_filter = clone.require_filter /\ c.minimal_projection = clone.minimal_projection
      /\ c.annotations = clone.annotations
    BY <1>1, <1>3
<1>5. IsSignature(clone)
    BY <1>2 DEF Same
<1>6. Same(c, clone)
    BY <1>4, <1>5, SameIs
<1> QED BY <1>2, <1>4, <1>6, SameTransitive

\* Outputs are under their names.
LEMMA OutputsShaped ==
    ASSUME NEW f, IsSignature(f)
    PROVE  \A n \in OutNames(f) :
              /\ n \in Name
              /\ DOMAIN Outputs(f)[n] = {"name", "is_input", "type", "fields"}
              /\ Outputs(f)[n].name = n
              /\ \A path \in DOMAIN Outputs(f)[n].fields : path \in Name
<1> DEFINE all == IterateArguments(f)
<1>1. AreArguments(all)
    BY IteratedShaped DEF IsSignature
<1>2. OutNames(f) \subseteq DOMAIN all /\ \A n \in OutNames(f) : Outputs(f)[n] = all[n]
    BY OutputsAre
<1> HIDE DEF all
<1> QED BY <1>1, <1>2 DEF AreArguments, Name

LEMMA ConsIs ==
    ASSUME NEW S, NEW part \in S, NEW n \in Seq(S), NEW name, name = << part >> \o n
    PROVE  /\ name \in Seq(S) /\ Len(name) = Len(n) + 1
           /\ \A i \in 1 .. Len(n) : name[i + 1] = n[i]
OBVIOUS

LEMMA TailIs ==
    ASSUME NEW part \in Part, NEW n \in Name, NEW name, name = << part >> \o n
    PROVE  name \in Name /\ Len(name) > 1 /\ Tail(name) = n
<1>1. /\ n \in Seq(Part) /\ name \in Seq(Part) /\ Len(name) = Len(n) + 1
      /\ \A i \in 1 .. Len(n) : name[i + 1] = n[i]
    <2>1. n \in Seq(Part)
        BY DEF Name
    <2> QED BY <2>1, ConsIs
<1>2. name # << >> /\ Len(name) > 1
    <2>1. Len(n) \in Nat /\ Len(n) # 0
        BY <1>1, EmptySeq DEF Name
    <2> QED BY <1>1, <2>1
<1>3. /\ Tail(name) \in Seq(Part) /\ Len(Tail(name)) = Len(name) - 1
      /\ \A i \in 1 .. Len(Tail(name)) : Tail(name)[i] = name[i + 1]
    <2>1. name \in Seq(Part) /\ name # << >>
        BY <1>1, <1>2
    <2> QED BY <2>1, HeadTailProperties, Zenon
<1>4. Len(Tail(name)) = Len(n) /\ \A i \in 1 .. Len(n) : Tail(name)[i] = n[i]
    <2>1. Len(n) \in Nat
        BY <1>1
    <2>2. Len(Tail(name)) = Len(n)
        BY <1>1, <1>3, <2>1
    <2>3. ASSUME NEW i \in 1 .. Len(n) PROVE Tail(name)[i] = n[i]
        <3>1. Tail(name)[i] = name[i + 1]
            BY <1>3, <2>2
        <3> QED BY <1>1, <3>1
    <2> QED BY <2>2, <2>3
<1>5. Tail(name) = n
    BY <1>1, <1>3, <1>4, SeqEqual, Zenon
<1> QED BY <1>1, <1>2, <1>5 DEF Name

\* The outputs of an operand of a join.
LEMMA SideIs ==
    ASSUME NEW f, IsSignature(f), NEW side \in Part
    PROVE  Shaped(OfSide(f, side))
<1> DEFINE args == OfSide(f, side)
<1>0. args = [name \in {<< side >> \o n : n \in OutNames(f)} |->
                 [Outputs(f)[Tail(name)] EXCEPT !.name = name]]
    BY DEF OfSide
<1> HIDE DEF args
<1> SUFFICES ASSUME NEW name \in DOMAIN args
             PROVE  /\ name \in Name
                    /\ DOMAIN args[name] = {"name", "is_input", "type", "fields"} /\ args[name].name = name
                    /\ \A path \in DOMAIN args[name].fields : path \in Name
    BY DEF Shaped, args
<1>1. PICK n \in OutNames(f) : name = << side >> \o n
    BY <1>0
<1>2. n \in Name
    BY OutputsShaped
<1>3. name \in Name /\ Tail(name) = n
    BY <1>1, <1>2, TailIs
<1>4. args[name] = [Outputs(f)[n] EXCEPT !.name = name]
    BY <1>0, <1>3
<1>5. /\ DOMAIN Outputs(f)[n] = {"name", "is_input", "type", "fields"}
      /\ \A path \in DOMAIN Outputs(f)[n].fields : path \in Name
    BY OutputsShaped
<1>6. /\ DOMAIN args[name] = DOMAIN Outputs(f)[n] /\ args[name].name = name
      /\ args[name].fields = Outputs(f)[n].fields
    BY <1>4, <1>5
<1> QED BY <1>3, <1>5, <1>6

\* _typeCheckJoin()
LEMMA JoinedIs ==
    ASSUME NEW lhs, IsSignature(lhs), NEW rhs, IsSignature(rhs), NEW c, c = Joined(lhs, rhs)
    PROVE  IsSignature(c) /\ c.require_filter = FALSE
<1> DEFINE first == OfSide(lhs, "first")
           second == OfSide(rhs, "second")
           args == With(first, second)
<1>1. Shaped(first) /\ Shaped(second)
    <2>1. "first" \in Part /\ "second" \in Part
        BY DEF Part
    <2> QED BY <2>1, SideIs, Zenon
<1>2. /\ c.args = FlattenCompoundArguments(args) /\ c.extends = << >>
      /\ DOMAIN c = {"functionType", "class", "extends", "qualifiers", "annotations", "args", "is_list",
                     "is_monitorable", "require_filter", "default_projection", "minimal_projection"}
      /\ c.require_filter = FALSE /\ c.minimal_projection = NotGiven
      /\ c.annotations =
            [require_filter |-> FALSE, default_projection |-> NotGiven, minimal_projection |-> NotGiven]
    BY DEF Joined, FunctionDef
<1> HIDE DEF first, second
<1>3. Shaped(args)
    <2>1. /\ DOMAIN args = DOMAIN first \union DOMAIN second
          /\ \A n \in DOMAIN first : args[n] = first[n]
          /\ \A n \in DOMAIN second \ DOMAIN first : args[n] = second[n]
        BY DEF With
    <2> HIDE DEF args
    <2> QED BY <1>1, <2>1 DEF Shaped
<1> HIDE DEF args
<1>4. AreArguments(c.args)
    BY <1>2, <1>3, FlattenIs
<1>5. AreArguments(c.extends)
    <2>1. DOMAIN c.extends = {}
        BY <1>2
    <2> QED BY <2>1 DEF AreArguments
<1>6. IsSignature(c)
    <2>1. Given(NotGiven) = {}
        BY DEF Given
    <2>2. /\ DOMAIN c.annotations = {"require_filter", "default_projection", "minimal_projection"}
          /\ c.annotations.require_filter = FALSE /\ c.annotations.minimal_projection = NotGiven
        BY <1>2
    <2>3. Given(c.minimal_projection) = {} /\ Given(c.annotations.minimal_projection) = {}
        BY <1>2, <2>1, <2>2
    <2> QED BY <1>2, <1>4, <1>5, <2>2, <2>3 DEF IsSignature
<1> QED BY <1>2, <1>6

LEMMA SingleName ==
    ASSUME NEW part \in Part
    PROVE  << part >> \in Name
<1>1. << part >> \in Seq(Part) /\ Len(<< part >>) = 1
    OBVIOUS
<1>2. << part >> # << >>
    BY <1>1
<1> QED BY <1>1, <1>2 DEF Name

\* What a projection selects: the outputs that are not hidden, and fields.
LEMMA SelectedIs ==
    ASSUME IsSignature(schema), NEW projection,
           projection.all \/ Kept(projection) \subseteq OutNames(schema),
           NEW f, f = Selected(projection), NEW hidden, hidden = Hidden(projection)
    PROVE  /\ IsSignature(f) /\ f.require_filter = schema.require_filter
           /\ OutNames(f) \subseteq OutNames(schema) /\ OutNames(schema) \ hidden \subseteq OutNames(f)
           /\ \A n \in OutNames(f) \ hidden : Outputs(f)[n] = Outputs(schema)[n]
           /\ \A n \in OutNames(f) \intersect hidden : Len(n) > 1
<1>1. CASE projection.all
    <2>1. f = schema /\ hidden = {}
        BY <1>1 DEF Selected, Hidden
    <2> QED BY <2>1
<1>2. CASE ~projection.all
    <2> DEFINE all == IterateArguments(schema)
               kept == {n \in DOMAIN all : all[n].is_input \/ all[n].name \in Kept(projection)}
    <2>1. hidden = OutNames(schema) \ Kept(projection) /\ Kept(projection) \subseteq OutNames(schema)
        BY <1>2 DEF Hidden
    <2>2. f = CloneWith(schema, Restrict(IterateArguments(schema), kept), << >>)
        BY <1>2 DEF Selected, FilterArguments, RestrictValues
    <2>3. AreArguments(all)
        BY IteratedShaped DEF IsSignature
    <2>4. \A n \in DOMAIN all : all[n].name = n
        <3> HIDE DEF all
        <3> QED BY <2>3 DEF AreArguments
    <2>5. ReducedTo(f, schema, kept)
        <3>1. kept \subseteq DOMAIN IterateArguments(schema)
            OBVIOUS
        <3> HIDE DEF kept, all
        <3> QED BY <2>2, <3>1, FilterIs, Zenon
    <2>6. /\ kept \subseteq DOMAIN all
          /\ \A n \in DOMAIN all : n \in kept <=> all[n].is_input \/ n \in Kept(projection)
        BY <2>4
    <2>7. /\ OutNames(f) = {n \in DOMAIN IterateArguments(f) : ~IterateArguments(f)[n].is_input}
          /\ \A n \in OutNames(f) : Outputs(f)[n] = IterateArguments(f)[n]
          /\ OutNames(schema) = {n \in DOMAIN all : ~all[n].is_input}
          /\ \A n \in OutNames(schema) : Outputs(schema)[n] = all[n]
        BY OutputsAre
    <2>8. /\ kept \subseteq DOMAIN IterateArguments(f)
          /\ \A n \in kept : IterateArguments(f)[n] = all[n]
          /\ \A n \in DOMAIN IterateArguments(f) \ kept : Len(n) > 1 /\ n \in DOMAIN all
        BY <2>5 DEF ReducedTo
    <2> HIDE DEF all, kept
    <2>9. /\ OutNames(f) \subseteq OutNames(schema)
          /\ OutNames(schema) \ hidden \subseteq OutNames(f)
          /\ \A n \in OutNames(f) \ hidden : Outputs(f)[n] = Outputs(schema)[n]
          /\ \A n \in OutNames(f) \intersect hidden : Len(n) > 1
        <3>1. ASSUME NEW n \in OutNames(f) PROVE n \in OutNames(schema)
            BY <2>6, <2>7, <2>8
        <3>2. ASSUME NEW n \in OutNames(schema) \ hidden PROVE n \in kept /\ n \in OutNames(f)
            BY <2>1, <2>6, <2>7, <2>8
        <3>3. ASSUME NEW n \in OutNames(f) \ hidden PROVE Outputs(f)[n] = Outputs(schema)[n]
            BY <2>7, <2>8, <3>1, <3>2
        <3>4. ASSUME NEW n \in OutNames(f) \intersect hidden PROVE Len(n) > 1
            BY <2>1, <2>6, <2>7, <2>8
        <3> QED BY <3>1, <3>2, <3>3, <3>4
    <2>10. Given(schema.minimal_projection) \subseteq OutNames(f)
        <3>1. Given(schema.minimal_projection) \subseteq Kept(projection)
            BY DEF Kept
        <3> QED BY <2>1, <2>9, <3>1
    <2>11. IsSignature(f)
        BY <2>5, <2>10, SignatureIs DEF ReducedTo
    <2> QED BY <2>5, <2>9, <2>11 DEF ReducedTo
<1> QED BY <1>1, <1>2

--------------------------------------------------------------------------------
(* The scope.                                                                   *)

\* Agrees(f, s, others): ScopeAgrees, of any signature and scope.
Agrees(f, s, others) ==
    /\ \A name \in OutNames(f) :
          \/ name \in DOMAIN s /\ s[name] = Outputs(f)[name].type
          \/ name = << "__answer" >>
          \/ Len(name) > 1 /\ (name \notin DOMAIN s \/ name \in others)
    /\ DOMAIN s \subseteq OutNames(f) \union others

LEMMA AgreesSame ==
    ASSUME NEW f, NEW c, Same(c, f), NEW s, NEW others, Agrees(f, s, others)
    PROVE  Agrees(c, s, others)
BY SameOutputs DEF Same, Agrees

LEMMA AddAllIs ==
    ASSUME NEW args, NEW to
    PROVE  /\ DOMAIN AddAll(args, to) = DOMAIN args \union DOMAIN to
           /\ \A n \in DOMAIN args : AddAll(args, to)[n] = args[n].type
           /\ \A n \in DOMAIN to \ DOMAIN args : AddAll(args, to)[n] = to[n]
BY DEF AddAll, With

\* The outputs of a function are added.
LEMMA AgreesCall ==
    ASSUME NEW f, NEW s, NEW others, DOMAIN s \subseteq others
    PROVE  Agrees(f, AddAll(Outputs(f), s), others)
<1> DEFINE t == AddAll(Outputs(f), s)
<1>1. DOMAIN t = OutNames(f) \union DOMAIN s /\ \A n \in OutNames(f) : t[n] = Outputs(f)[n].type
    BY AddAllIs DEF OutNames
<1> HIDE DEF t
<1>2. Agrees(f, t, others)
    BY <1>1 DEF Agrees
<1> QED BY <1>2 DEF t

\* Outputs are added to the signature and to the scope.
LEMMA AgreesProject ==
    ASSUME NEW f, NEW s, NEW others, Agrees(f, s, others),
           NEW g, NEW hidden, hidden \subseteq OutNames(f),
           OutNames(g) \subseteq OutNames(f), OutNames(f) \ hidden \subseteq OutNames(g),
           \A n \in OutNames(g) \ hidden : Outputs(g)[n] = Outputs(f)[n],
           \A n \in OutNames(g) \intersect hidden : Len(n) > 1,
           NEW given, NEW c, Extended(c, g, given),
           NEW t, t = AddAll(given, [n \in DOMAIN s \ hidden |-> s[n]])
    PROVE  Agrees(c, t, others)
<1>1. /\ OutNames(c) = OutNames(g) \union DOMAIN given
      /\ \A n \in DOMAIN given : Outputs(c)[n] = given[n]
      /\ \A n \in OutNames(g) \ DOMAIN given : Outputs(c)[n] = Outputs(g)[n]
    BY DEF Extended
<1>2. /\ DOMAIN t = DOMAIN given \union (DOMAIN s \ hidden)
      /\ \A n \in DOMAIN given : t[n] = given[n].type
      /\ \A n \in (DOMAIN s \ hidden) \ DOMAIN given : t[n] = s[n]
    BY DEF AddAll, With
<1>3. ASSUME NEW name \in OutNames(c)
      PROVE  \/ name \in DOMAIN t /\ t[name] = Outputs(c)[name].type
             \/ name = << "__answer" >>
             \/ Len(name) > 1 /\ (name \notin DOMAIN t \/ name \in others)
    <2>1. CASE name \in DOMAIN given
        BY <1>1, <1>2, <2>1
    <2>2. CASE name \notin DOMAIN given /\ name \in hidden
        BY <1>1, <1>2, <2>2
    <2>3. CASE name \notin DOMAIN given /\ name \notin hidden
        BY <1>1, <1>2, <2>3 DEF Agrees
    <2> QED BY <2>1, <2>2, <2>3
<1>4. DOMAIN t \subseteq OutNames(c) \union others
    BY <1>1, <1>2 DEF Agrees
<1> QED BY <1>3, <1>4 DEF Agrees

\* All names are made again with a prefix.
Prefixed(s, part) == {<< part >> \o n : n \in DOMAIN s}
Aliased(t, s, part) ==
    \E stays \in SUBSET (DOMAIN s \intersect Prefixed(s, part)) :
        t = [n \in DOMAIN s \union Prefixed(s, part) |->
                IF n \in Prefixed(s, part) \ stays THEN s[Tail(n)] ELSE s[n]]

LEMMA AgreesAlias ==
    ASSUME NEW f, NEW s, DOMAIN s \subseteq Name, NEW others, Agrees(f, s, others), NEW part \in Part,
           NEW t, Aliased(t, s, part)
    PROVE  Agrees(f, t, others \union Prefixed(s, part)) /\ DOMAIN t \subseteq Name
<1> DEFINE prefixed == Prefixed(s, part)
<1>0. PICK stays \in SUBSET (DOMAIN s \intersect prefixed) :
         t = [n \in DOMAIN s \union prefixed |-> IF n \in prefixed \ stays THEN s[Tail(n)] ELSE s[n]]
    BY DEF Aliased
<1>1. \A name \in prefixed : name \in Name /\ Len(name) > 1
    <2> SUFFICES ASSUME NEW n \in DOMAIN s PROVE << part >> \o n \in Name /\ Len(<< part >> \o n) > 1
        BY DEF Prefixed
    <2>1. n \in Name
        OBVIOUS
    <2> QED BY <2>1, TailIs, Zenon
<1> HIDE DEF prefixed
<1>2. DOMAIN t = DOMAIN s \union prefixed /\ \A n \in DOMAIN s \ prefixed : t[n] = s[n]
    BY <1>0
<1>3. Agrees(f, t, others \union prefixed)
    BY <1>1, <1>2 DEF Agrees
<1> QED BY <1>1, <1>2, <1>3 DEF prefixed

--------------------------------------------------------------------------------
(* The invariant.                                                               *)

IsElement(e) == IsSignature(e.schema) /\ e.bare = e.schema.require_filter
AreElements(s) == s \in Seq(Range(s)) /\ \A n \in DOMAIN s : IsElement(s[n])

\* An expression that is typed has a signature, which asks for a filter exactly if
\* it lacks one, and the scope agrees with it. The same holds while its conditions
\* are checked, and of the elements and the operand that wait for the next one.
TypedOK ==
    stage \in {"typed", "filtering"} =>
        IsSignature(schema) /\ bare = schema.require_filter /\ ScopeAgrees
WaitingOK ==
    /\ AreElements(earlier)
    /\ left # << >> => IsSignature(left[1].schema) /\ AreElements(left[1].earlier)
ScopeOK == DOMAIN scope \subseteq Name /\ (stage = "start" => DOMAIN scope \subseteq foreign)
AcceptedOK ==
    stage = "accepted" =>
        /\ Given(schema.minimal_projection) \subseteq OutNames(schema)
        /\ \A n \in DOMAIN Elements : ~Elements[n].bare
IInv == TypedOK /\ WaitingOK /\ ScopeOK /\ AcceptedOK

LEMMA NoElements == AreElements(<< >>)
<1>1. DOMAIN << >> = {} /\ << >> \in Seq(Range(<< >>))
    OBVIOUS
<1> QED BY <1>1 DEF AreElements

LEMMA OneMore ==
    ASSUME NEW s, AreElements(s), NEW e, IsElement(e), NEW t, t = Append(s, e)
    PROVE  /\ AreElements(t) /\ DOMAIN t = DOMAIN s \union {Len(s) + 1}
           /\ t[Len(s) + 1] = e /\ \A n \in DOMAIN s : t[n] = s[n]
<1> DEFINE S == Range(s) \union {e}
<1>1. s \in Seq(S) /\ e \in S /\ DOMAIN s = 1 .. Len(s) /\ Len(s) \in Nat
    <2>1. s \in Seq(Range(s))
        BY DEF AreElements
    <2> QED BY <2>1
<1> HIDE DEF S
<1>2. /\ t \in Seq(S) /\ Len(t) = Len(s) + 1
      /\ \A i \in 1 .. Len(s) : t[i] = s[i]
      /\ t[Len(s) + 1] = e
    BY <1>1, AppendProperties
<1>3. DOMAIN t = 1 .. Len(s) + 1
    BY <1>2
<1>4. \A n \in DOMAIN t : IsElement(t[n])
    BY <1>1, <1>2, <1>3 DEF AreElements
<1>5. t \in Seq(Range(t))
    <2>1. \A i \in 1 .. Len(t) : t[i] \in Range(t)
        BY <1>1, <1>2, <1>3 DEF Range
    <2> QED BY <1>2, <2>1
<1> QED BY <1>1, <1>2, <1>4, <1>5 DEF AreElements

\* What an operator leaves behind that is not refused.
LEMMA Typed ==
    ASSUME IInv, stage' = "typed", IsSignature(schema'), bare' = schema'.require_filter,
           Agrees(schema', scope', foreign'), DOMAIN scope' \subseteq Name, UNCHANGED << earlier, left >>
    PROVE  IInv'
<1>1. TypedOK'
    BY DEF TypedOK, ScopeAgrees, Agrees
<1>2. WaitingOK'
    BY DEF IInv, WaitingOK
<1>3. ScopeOK' /\ AcceptedOK'
    BY DEF ScopeOK, AcceptedOK
<1> QED BY <1>1, <1>2, <1>3 DEF IInv

LEMMA Stopped ==
    ASSUME IInv, Refused
    PROVE  IInv'
<1> USE DEF Refused
<1>1. TypedOK' /\ AcceptedOK' /\ ScopeOK'
    BY DEF IInv, TypedOK, AcceptedOK, ScopeOK
<1>2. WaitingOK'
    BY DEF IInv, WaitingOK
<1> QED BY <1>1, <1>2 DEF IInv

\* An operator that makes a signature with the arguments of the one before.
LEMMA TypedSame ==
    ASSUME IInv, stage \in {"typed", "filtering"}, stage' = "typed",
           Same(schema', schema), bare' = schema'.require_filter,
           UNCHANGED << scope, foreign, earlier, left >>
    PROVE  IInv'
<1>1. Agrees(schema, scope, foreign) /\ DOMAIN scope \subseteq Name
    BY DEF IInv, TypedOK, ScopeOK, ScopeAgrees, Agrees
<1>2. Agrees(schema', scope, foreign)
    BY <1>1, AgreesSame
<1>3. IsSignature(schema')
    BY DEF Same
<1> QED BY <1>1, <1>2, <1>3, Typed

--------------------------------------------------------------------------------
(* One step.                                                                    *)

LEMMA InitOK == TypingInit => IInv
<1> SUFFICES ASSUME TypingInit PROVE IInv
    OBVIOUS
<1>1. AreElements(earlier)
    BY NoElements DEF TypingInit
<1>2. DOMAIN scope = {}
    BY DEF TypingInit
<1>3. stage \in {"start", "off"} /\ left = << >>
    BY DEF TypingInit
<1> QED BY <1>1, <1>2, <1>3 DEF IInv, TypedOK, WaitingOK, ScopeOK, AcceptedOK

LEMMA CallOK ==
    ASSUME IInv, NEW f \in Functions, CallFunction(f)
    PROVE  IInv'
<1>1. /\ stage = "start" /\ stage' = "typed" /\ schema' = f /\ bare' = f.require_filter
      /\ scope' = AddAll(Outputs(f), scope) /\ UNCHANGED << foreign, earlier, left >>
    BY DEF CallFunction, Becomes
<1>2. IsSignature(f)
    BY TypingAssumption
<1>3. DOMAIN scope \subseteq foreign /\ DOMAIN scope \subseteq Name
    BY <1>1 DEF IInv, ScopeOK
<1>4. Agrees(schema', scope', foreign')
    BY <1>1, <1>3, AgreesCall
<1>5. DOMAIN scope' \subseteq Name
    <2>1. DOMAIN scope' = OutNames(f) \union DOMAIN scope
        BY <1>1, AddAllIs DEF OutNames
    <2>2. OutNames(f) \subseteq Name
        BY <1>2, OutputsShaped
    <2> QED BY <1>3, <2>1, <2>2
<1> QED BY <1>1, <1>2, <1>4, <1>5, Typed

LEMMA CheckConditionsOK ==
    ASSUME IInv, NEW conditions, CheckConditions(conditions)
    PROVE  IInv'
<1>1. CASE Refused
    BY <1>1, Stopped
<1>2. CASE /\ stage = "typed" /\ stage' = "filtering"
           /\ UNCHANGED << schema, scope, aliases, earlier, left, bare, foreign >>
    <2>1. TypedOK'
        BY <1>2 DEF IInv, TypedOK, ScopeAgrees
    <2>2. WaitingOK'
        BY <1>2 DEF IInv, WaitingOK
    <2>3. ScopeOK' /\ AcceptedOK'
        BY <1>2 DEF IInv, ScopeOK, AcceptedOK
    <2> QED BY <2>1, <2>2, <2>3 DEF IInv
<1> QED BY <1>1, <1>2 DEF CheckConditions, Operator

LEMMA ConditionsCheckedOK ==
    ASSUME IInv, ConditionsChecked
    PROVE  IInv'
<1>1. CASE Refused
    BY <1>1, Stopped
<1>2. CASE /\ stage = "filtering" /\ stage' = "typed" /\ schema' = Filtered(schema) /\ bare' = FALSE
           /\ UNCHANGED << scope, aliases, earlier, left, foreign >>
    <2>1. IsSignature(schema)
        BY <1>2 DEF IInv, TypedOK
    <2>2. Same(schema', schema) /\ schema'.require_filter = FALSE
        BY <1>2, <2>1, FilteredIs
    <2> QED BY <1>2, <2>2, TypedSame
<1>3. CASE /\ stage = "filtering" /\ stage' = "typed"
           /\ schema' = AddArguments(schema, << Out("__answer", Boolean) >>)
           /\ UNCHANGED << bare, scope, aliases, earlier, left, foreign >>
    <2> DEFINE answer == << "__answer" >>
               list == << Out("__answer", Boolean) >>
               given == Argmap(list)
    <2>1. IsSignature(schema) /\ bare = schema.require_filter /\ Agrees(schema, scope, foreign)
        BY <1>3 DEF IInv, TypedOK, ScopeAgrees, Agrees
    <2>2. IsAdded(Out("__answer", Boolean), answer)
        <3>1. "__answer" \in Part
            BY DEF Part
        <3>2. answer \in Name
            BY <3>1, SingleName
        <3> QED BY <3>2 DEF IsAdded, Out, ArgumentDef
    <2>3. DOMAIN given = {answer} /\ \A n \in DOMAIN given : IsAdded(given[n], n)
        <3>1. /\ 1 \in Nat /\ DOMAIN list = 1 .. 1 /\ list[1] = Out("__answer", Boolean)
              /\ list[1].name = answer
            BY DEF Out, ArgumentDef
        <3> HIDE DEF list, answer
        <3>2. \A i \in 1 .. 1 : IsAdded(list[i], list[i].name)
            BY <2>2, <3>1
        <3>3. /\ DOMAIN Argmap(list) = {list[i].name : i \in 1 .. 1}
              /\ \A n \in DOMAIN Argmap(list) : IsAdded(Argmap(list)[n], n)
            BY <3>1, <3>2, ArgmapIs
        <3> QED BY <3>1, <3>3
    <2>4. Extended(schema', schema, given)
        <3>1. schema' = AddArguments(schema, list)
            BY <1>3
        <3> HIDE DEF list
        <3> QED BY <2>1, <2>3, <3>1, AddIs
    <2> HIDE DEF given, list
    <2>5. Agrees(schema', scope, foreign)
        BY <2>1, <2>3, <2>4 DEF Extended, Agrees
    <2>6. IsSignature(schema') /\ bare' = schema'.require_filter
        BY <1>3, <2>1, <2>4 DEF Extended
    <2>7. DOMAIN scope' \subseteq Name
        BY <1>3 DEF IInv, ScopeOK
    <2> QED BY <1>3, <2>5, <2>6, <2>7, Typed
<1> QED BY <1>1, <1>2, <1>3 DEF ConditionsChecked, Becomes

LEMMA ProjectOK ==
    ASSUME IInv, NEW projection \in Projections, Project(projection)
    PROVE  IInv'
<1> DEFINE computed == [n \in DOMAIN projection.computed |-> Out(projection.computed[n].as, Number)]
           given == Argmap(computed)
           hidden == Hidden(projection)
           selected == Selected(projection)
           added == AddArguments(selected, computed)
           remaining == [n \in DOMAIN scope \ hidden |-> scope[n]]
<1>1. CASE Refused
    BY <1>1, Stopped
<1>2. CASE /\ stage = "typed" /\ IsProjection(projection)
           /\ stage' = "typed" /\ schema' = [added EXCEPT !.default_projection = {}]
           /\ scope' = AddAll(given, remaining)
           /\ UNCHANGED << aliases, earlier, left, asks, bare, foreign >>
    <2>1. IsSignature(schema) /\ bare = schema.require_filter /\ Agrees(schema, scope, foreign)
        BY <1>2 DEF IInv, TypedOK, ScopeAgrees, Agrees
    <2>2. projection.all \/ Kept(projection) \subseteq OutNames(schema)
        BY <1>2 DEF IsProjection
    <2>3. /\ IsSignature(selected) /\ selected.require_filter = schema.require_filter
          /\ OutNames(selected) \subseteq OutNames(schema)
          /\ OutNames(schema) \ hidden \subseteq OutNames(selected)
          /\ \A n \in OutNames(selected) \ hidden : Outputs(selected)[n] = Outputs(schema)[n]
          /\ \A n \in OutNames(selected) \intersect hidden : Len(n) > 1
        BY <2>1, <2>2, SelectedIs
    <2>4. hidden \subseteq OutNames(schema)
        BY DEF Hidden
    <2>5. \A n \in DOMAIN given : IsAdded(given[n], n)
        <3>1. PICK S : S = [of : Seq(Part), as : Part]
            OBVIOUS
        <3>2. projection.computed \in Seq(S)
            BY <3>1, TypingAssumption
        <3>3. /\ Len(projection.computed) \in Nat
              /\ DOMAIN projection.computed = 1 .. Len(projection.computed)
              /\ \A n \in 1 .. Len(projection.computed) : projection.computed[n].as \in Part
            <4>1. /\ Len(projection.computed) \in Nat
                  /\ DOMAIN projection.computed = 1 .. Len(projection.computed)
                  /\ \A n \in 1 .. Len(projection.computed) : projection.computed[n] \in S
                BY <3>2
            <4>2. \A c \in S : c.as \in Part
                BY <3>1
            <4> QED BY <4>1, <4>2
        <3>4. \A n \in 1 .. Len(projection.computed) : IsAdded(computed[n], computed[n].name)
            <4> SUFFICES ASSUME NEW n \in 1 .. Len(projection.computed)
                         PROVE  IsAdded(computed[n], computed[n].name)
                OBVIOUS
            <4>1. computed[n] = Out(projection.computed[n].as, Number)
                BY <3>3
            <4>2. << projection.computed[n].as >> \in Name
                BY <3>3, SingleName
            <4> QED BY <4>1, <4>2 DEF IsAdded, Out, ArgumentDef
        <3>5. DOMAIN computed = 1 .. Len(projection.computed)
            BY <3>3
        <3> HIDE DEF computed
        <3> QED BY <3>3, <3>4, <3>5, ArgmapIs
    <2>6. Extended(added, selected, given)
        <3> HIDE DEF selected, computed
        <3> QED BY <2>3, <2>5, AddIs
    <2> HIDE DEF given, hidden, selected, added
    <2>7. Agrees(added, scope', foreign')
        BY <1>2, <2>1, <2>3, <2>4, <2>6, AgreesProject
    <2>8. IsSignature(added) /\ added.require_filter = bare
        BY <2>1, <2>3, <2>6 DEF Extended
    <2>9. Same(schema', added) /\ schema'.require_filter = added.require_filter
        <3>1. DOMAIN added = {"functionType", "class", "extends", "qualifiers", "annotations", "args", "is_list",
                              "is_monitorable", "require_filter", "default_projection", "minimal_projection"}
            BY <2>8 DEF IsSignature
        <3>2. /\ DOMAIN schema' = DOMAIN added /\ schema'.args = added.args /\ schema'.extends = added.extends
              /\ schema'.annotations = added.annotations /\ schema'.require_filter = added.require_filter
              /\ schema'.minimal_projection = added.minimal_projection
            BY <1>2, <3>1
        <3> QED BY <2>8, <3>2, SameIs
    <2>10. Agrees(schema', scope', foreign') /\ IsSignature(schema')
        BY <2>7, <2>9, AgreesSame DEF Same
    <2>11. DOMAIN scope' \subseteq Name
        <3>1. DOMAIN scope' = DOMAIN given \union (DOMAIN scope \ hidden)
            BY <1>2 DEF AddAll, With
        <3> QED BY <2>5, <3>1 DEF IInv, ScopeOK, IsAdded
    <2> QED BY <1>2, <2>8, <2>9, <2>10, <2>11, Typed
<1> QED BY <1>1, <1>2 DEF Project, Operator, Becomes

LEMMA AliasOK ==
    ASSUME IInv, NEW name \in AliasNames, Alias(name)
    PROVE  IInv'
<1>1. CASE Refused
    BY <1>1, Stopped
<1>2. CASE /\ stage = "typed" /\ stage' = "typed" /\ schema' = schema
           /\ Aliased(scope', scope, name) /\ foreign' = foreign \union Prefixed(scope, name)
           /\ UNCHANGED << earlier, left, asks, bare >>
    <2>1. IsSignature(schema) /\ bare = schema.require_filter /\ Agrees(schema, scope, foreign)
        BY <1>2 DEF IInv, TypedOK, ScopeAgrees, Agrees
    <2>2. name \in Part /\ DOMAIN scope \subseteq Name
        BY TypingAssumption DEF IInv, ScopeOK
    <2>3. Agrees(schema, scope', foreign') /\ DOMAIN scope' \subseteq Name
        BY <1>2, <2>1, <2>2, AgreesAlias
    <2> QED BY <1>2, <2>1, <2>3, Typed
<1> QED BY <1>1, <1>2 DEF Alias, Operator, Becomes, Aliased, Prefixed

LEMMA AggregateOK ==
    ASSUME IInv, NEW aggregate, Aggregate(aggregate)
    PROVE  IInv'
<1> DEFINE output == [Out("count", Last(Aggregated(aggregate))) EXCEPT
                         !.name = IF aggregate.field = << >> THEN @ ELSE aggregate.field]
           list == << output >>
           given == Argmap(list)
           clean == CleanOutput(schema)
<1>1. CASE Refused
    BY <1>1, Stopped
<1>2. CASE /\ stage = "typed" /\ IsAggregation(aggregate)
           /\ stage' = "typed" /\ schema' = AddArguments(clean, list)
           /\ scope' = [name \in {output.name} |-> output.type] /\ foreign' = {}
           /\ UNCHANGED << aliases, earlier, left, asks, bare >>
    <2>1. IsSignature(schema) /\ bare = schema.require_filter
        BY <1>2 DEF IInv, TypedOK
    <2>2. IsSignature(clean) /\ OutNames(clean) = {} /\ clean.require_filter = schema.require_filter
        BY <2>1, CleanIs
    <2>3. IsAdded(output, output.name)
        <3>1. << "count" >> \in Name
            <4>1. "count" \in Part
                BY DEF Part
            <4> QED BY <4>1, SingleName
        <3>2. aggregate.field # << >> => aggregate.field \in Name
            <4>1. aggregate.field # << >> => aggregate.field \in OutNames(schema)
                BY <1>2 DEF IsAggregation
            <4> QED BY <2>1, <4>1, OutputsShaped
        <3> QED BY <3>1, <3>2 DEF IsAdded, Out, ArgumentDef
    <2> HIDE DEF output
    <2>4. DOMAIN given = {output.name} /\ given[output.name].type = output.type
             /\ \A n \in DOMAIN given : IsAdded(given[n], n)
        <3>1. 1 \in Nat /\ DOMAIN list = 1 .. 1 /\ list[1] = output
            OBVIOUS
        <3> HIDE DEF list
        <3>2. \A i \in 1 .. 1 : IsAdded(list[i], list[i].name)
            BY <2>3, <3>1
        <3>3. /\ DOMAIN given = {list[i].name : i \in 1 .. 1}
              /\ \A n \in DOMAIN given : IsAdded(given[n], n)
            BY <3>1, <3>2, ArgmapIs
        <3>4. given[output.name] = output
            BY <3>1 DEF Argmap
        <3> QED BY <3>1, <3>3, <3>4
    <2>5. Extended(schema', clean, given)
        <3>1. schema' = AddArguments(clean, list)
            BY <1>2
        <3> HIDE DEF list, clean
        <3> QED BY <2>2, <2>4, <3>1, AddIs
    <2> HIDE DEF given, list, clean
    <2>6. IsSignature(schema') /\ bare' = schema'.require_filter
        BY <1>2, <2>1, <2>2, <2>5 DEF Extended
    <2>7. Agrees(schema', scope', foreign')
        BY <1>2, <2>2, <2>4, <2>5 DEF Extended, Agrees
    <2>8. DOMAIN scope' \subseteq Name
        BY <1>2, <2>3 DEF IsAdded
    <2> QED BY <1>2, <2>6, <2>7, <2>8, Typed
<1> QED BY <1>1, <1>2 DEF Aggregate, Operator, Becomes

LEMMA SortOK ==
    ASSUME IInv, NEW field, Sort(field)
    PROVE  IInv'
<1>1. CASE Refused
    BY <1>1, Stopped
<1>2. CASE /\ stage = "typed" /\ stage' = "typed" /\ schema' = schema
           /\ UNCHANGED << scope, aliases, earlier, left, asks, bare, foreign >>
    <2>1. IsSignature(schema) /\ bare = schema.require_filter /\ Agrees(schema, scope, foreign)
        BY <1>2 DEF IInv, TypedOK, ScopeAgrees, Agrees
    <2>2. DOMAIN scope \subseteq Name
        BY DEF IInv, ScopeOK
    <2> QED BY <1>2, <2>1, <2>2, Typed
<1> QED BY <1>1, <1>2 DEF Sort, Operator, Becomes

LEMMA MonitorOK ==
    ASSUME IInv, Monitor
    PROVE  IInv'
<1>1. CASE Refused
    BY <1>1, Stopped
<1>2. CASE /\ stage = "typed" /\ stage' = "typed" /\ schema' = AsType(schema, "stream")
           /\ UNCHANGED << scope, aliases, earlier, left, asks, bare, foreign >>
    <2>1. IsSignature(schema) /\ bare = schema.require_filter
        BY <1>2 DEF IInv, TypedOK
    <2>2. Same(schema', schema) /\ bare' = schema'.require_filter
        BY <1>2, <2>1, AsTypeIs
    <2> QED BY <1>2, <2>2, TypedSame
<1> QED BY <1>1, <1>2 DEF Monitor, Operator, Becomes

\* The element that was typed last can be appended to the others.
LEMMA ElementsOK ==
    ASSUME IInv, stage = "typed"
    PROVE  AreElements(Elements)
<1>1. AreElements(earlier) /\ IsSignature(schema) /\ bare = schema.require_filter
    BY DEF IInv, TypedOK, WaitingOK
<1>2. IsElement([schema |-> schema, bare |-> bare])
    BY <1>1 DEF IsElement
<1> QED BY <1>1, <1>2, OneMore DEF Elements

LEMMA NextInChainOK ==
    ASSUME IInv, NextInChain
    PROVE  IInv'
<1>1. /\ stage = "typed" /\ stage' = "start" /\ earlier' = Elements /\ foreign' = DOMAIN scope
      /\ UNCHANGED << scope, left >>
    BY DEF NextInChain, Elements
<1>2. AreElements(earlier')
    BY <1>1, ElementsOK
<1>3. WaitingOK'
    BY <1>1, <1>2 DEF IInv, WaitingOK
<1>4. TypedOK' /\ ScopeOK' /\ AcceptedOK'
    BY <1>1 DEF IInv, TypedOK, ScopeOK, AcceptedOK
<1> QED BY <1>3, <1>4 DEF IInv

LEMMA CloseChainOK ==
    ASSUME IInv, CloseChain
    PROVE  IInv'
<1>1. CASE Refused
    BY <1>1, Stopped
<1>2. CASE /\ stage = "typed" /\ stage' = "typed" /\ schema' = ResolveChain /\ earlier' = << >>
           /\ UNCHANGED << scope, aliases, left, asks, bare, foreign >>
    <2>1. /\ IsSignature(schema) /\ bare = schema.require_filter /\ Agrees(schema, scope, foreign)
          /\ DOMAIN scope \subseteq Name
        BY <1>2 DEF IInv, TypedOK, ScopeOK, ScopeAgrees, Agrees
    <2>2. Same(schema', schema) /\ bare' = schema'.require_filter
        BY <1>2, <2>1, ChainIs
    <2>3. IsSignature(schema') /\ Agrees(schema', scope', foreign')
        BY <1>2, <2>1, <2>2, AgreesSame DEF Same
    <2>4. TypedOK'
        BY <2>2, <2>3 DEF TypedOK, ScopeAgrees, Agrees
    <2>5. WaitingOK'
        BY <1>2, NoElements DEF IInv, WaitingOK
    <2>6. ScopeOK' /\ AcceptedOK'
        BY <1>2, <2>1 DEF ScopeOK, AcceptedOK
    <2> QED BY <2>4, <2>5, <2>6 DEF IInv
<1> QED BY <1>1, <1>2 DEF CloseChain, Operator, Becomes

LEMMA OpenJoinOK ==
    ASSUME IInv, OpenJoin
    PROVE  IInv'
<1>1. CASE Refused
    BY <1>1, Stopped
<1>2. CASE /\ stage = "typed" /\ stage' = "start"
           /\ left' = << [schema |-> schema, earlier |-> earlier] >> /\ earlier' = << >>
           /\ foreign' = DOMAIN scope /\ UNCHANGED scope
    <2>1. IsSignature(schema) /\ AreElements(earlier)
        BY <1>2 DEF IInv, TypedOK, WaitingOK
    <2>2. left'[1].schema = schema /\ left'[1].earlier = earlier
        BY <1>2
    <2>3. WaitingOK'
        BY <1>2, <2>1, <2>2, NoElements DEF WaitingOK
    <2>4. TypedOK' /\ ScopeOK' /\ AcceptedOK'
        BY <1>2 DEF IInv, TypedOK, ScopeOK, AcceptedOK
    <2> QED BY <2>3, <2>4 DEF IInv
<1> QED BY <1>1, <1>2 DEF OpenJoin, Operator

LEMMA CloseJoinOK ==
    ASSUME IInv, CloseJoin
    PROVE  IInv'
<1>1. CASE Refused
    BY <1>1, Stopped
<1>2. CASE /\ stage = "typed" /\ left # << >>
           /\ stage' = "typed" /\ schema' = Joined(left[1].schema, schema)
           /\ scope' = AddAll(Outputs(Joined(left[1].schema, schema)), << >>)
           /\ earlier' = left[1].earlier /\ left' = << >> /\ bare' = FALSE /\ foreign' = {}
    <2>1. IsSignature(schema) /\ IsSignature(left[1].schema) /\ AreElements(left[1].earlier)
        BY <1>2 DEF IInv, TypedOK, WaitingOK
    <2>2. IsSignature(schema') /\ bare' = schema'.require_filter
        BY <1>2, <2>1, JoinedIs
    <2>3. scope' = AddAll(Outputs(schema'), << >>)
        BY <1>2
    <2>4. Agrees(schema', scope', foreign')
        <3>1. DOMAIN << >> \subseteq foreign'
            OBVIOUS
        <3> QED BY <2>3, <3>1, AgreesCall
    <2>5. DOMAIN scope' \subseteq Name
        <3>1. DOMAIN scope' = OutNames(schema')
            BY <2>3 DEF AddAll, With, OutNames
        <3> QED BY <2>2, <3>1, OutputsShaped
    <2>6. TypedOK'
        BY <2>2, <2>4 DEF TypedOK, ScopeAgrees, Agrees
    <2>7. WaitingOK'
        BY <1>2, <2>1 DEF WaitingOK
    <2>8. ScopeOK' /\ AcceptedOK'
        BY <1>2, <2>5 DEF ScopeOK, AcceptedOK
    <2> QED BY <2>6, <2>7, <2>8 DEF IInv
<1> QED BY <1>1, <1>2 DEF CloseJoin, Becomes

LEMMA EndStatementOK ==
    ASSUME IInv, EndStatement
    PROVE  IInv'
<1>1. CASE Refused
    BY <1>1, Stopped
<1>2. CASE /\ stage = "typed" /\ IsStatement /\ stage' = "accepted" /\ schema' = ResolveChain
           /\ UNCHANGED << scope, aliases, earlier, left, asks, bare, foreign >>
    <2>1. IsSignature(schema) /\ AreElements(earlier) /\ AreElements(Elements)
        BY <1>2, ElementsOK DEF IInv, TypedOK, WaitingOK
    <2>2. IsSignature(schema')
        BY <1>2, <2>1, ChainIs DEF Same
    <2>3. Given(schema'.minimal_projection) \subseteq OutNames(schema')
        BY <2>2 DEF IsSignature
    <2>4. \A n \in DOMAIN Elements : ~Elements[n].bare
        BY <1>2, <2>1 DEF IsStatement, AreElements, IsElement
    <2>5. ~bare /\ \A n \in DOMAIN earlier : ~earlier[n].bare
        <3>1. IsElement([schema |-> schema, bare |-> bare])
            BY <1>2 DEF IInv, TypedOK, IsElement
        <3>2. /\ DOMAIN Elements = DOMAIN earlier \union {Len(earlier) + 1}
              /\ Elements[Len(earlier) + 1] = [schema |-> schema, bare |-> bare]
              /\ \A n \in DOMAIN earlier : Elements[n] = earlier[n]
            BY <2>1, <3>1, OneMore DEF Elements
        <3> QED BY <2>4, <3>2
    <2>6. \A n \in DOMAIN Elements' : ~Elements'[n].bare
        <3> DEFINE last == [schema |-> schema', bare |-> bare]
        <3>1. IsElement(last)
            BY <1>2, <2>1, <2>2, ChainIs DEF IInv, TypedOK, IsElement
        <3>2. Elements' = Append(earlier, last) /\ last.bare = bare
            BY <1>2 DEF Elements
        <3> HIDE DEF last
        <3>3. /\ DOMAIN Elements' = DOMAIN earlier \union {Len(earlier) + 1}
              /\ Elements'[Len(earlier) + 1] = last
              /\ \A n \in DOMAIN earlier : Elements'[n] = earlier[n]
            BY <2>1, <3>1, <3>2, OneMore
        <3> QED BY <2>5, <3>2, <3>3
    <2>7. AcceptedOK'
        BY <2>3, <2>6 DEF AcceptedOK
    <2>8. WaitingOK'
        BY <1>2 DEF IInv, WaitingOK
    <2>9. TypedOK' /\ ScopeOK'
        BY <1>2 DEF IInv, TypedOK, ScopeOK
    <2> QED BY <2>7, <2>8, <2>9 DEF IInv
<1> QED BY <1>1, <1>2 DEF EndStatement

LEMMA StepOK == IInv /\ [TypingNext]_typingVars => IInv'
<1> SUFFICES ASSUME IInv, [TypingNext]_typingVars PROVE IInv'
    OBVIOUS
<1>1. CASE UNCHANGED expression
    <2> USE <1>1 DEF expression
    <2>1. TypedOK'
        BY DEF IInv, TypedOK, ScopeAgrees
    <2>2. WaitingOK'
        BY DEF IInv, WaitingOK
    <2>3. ScopeOK'
        BY DEF IInv, ScopeOK
    <2>4. AcceptedOK'
        BY DEF IInv, AcceptedOK, Elements
    <2> QED BY <2>1, <2>2, <2>3, <2>4 DEF IInv
<1>2. CASE TypingStep
    <2>1. ASSUME NEW f \in Functions, CallFunction(f) PROVE IInv'
        BY <2>1, CallOK
    <2>2. ASSUME NEW conditions \in Conditions, CheckConditions(conditions) PROVE IInv'
        BY <2>2, CheckConditionsOK
    <2>3. ASSUME NEW projection \in Projections, Project(projection) PROVE IInv'
        BY <2>3, ProjectOK
    <2>4. ASSUME NEW name \in AliasNames, Alias(name) PROVE IInv'
        BY <2>4, AliasOK
    <2>5. ASSUME NEW aggregate \in Aggregates, Aggregate(aggregate) PROVE IInv'
        BY <2>5, AggregateOK
    <2>6. ASSUME NEW field \in SortFields, Sort(field) PROVE IInv'
        BY <2>6, SortOK
    <2> QED
        BY <1>2, <2>1, <2>2, <2>3, <2>4, <2>5, <2>6, ConditionsCheckedOK, MonitorOK, NextInChainOK,
           CloseChainOK, OpenJoinOK, CloseJoinOK, EndStatementOK DEF TypingStep
<1> QED BY <1>1, <1>2 DEF TypingNext, CheckStep, typingVars

LEMMA Invariant == TypingSpec => []IInv
BY InitOK, StepOK, PTL DEF TypingSpec

--------------------------------------------------------------------------------
(* The properties of signatures and scope.                                      *)

\* What a name of the scope stands for is what the signature says, whatever was
\* called, projected, renamed, aggregated, chained and joined: no operator of
\* typecheck.ts that changes the scope in place parts from the code that makes the
\* signature.
THEOREM ScopeKept == TypingSpec => []ScopeIsSchema
<1>1. IInv => ScopeIsSchema
    BY DEF IInv, TypedOK, ScopeIsSchema
<1> QED BY <1>1, Invariant, PTL

\* A required filter is asked for until it is given, through all signatures that
\* _cloneInternal() makes of the annotations, and no statement is accepted in which
\* an element lacks it.
THEOREM FiltersKept == TypingSpec => []FiltersAreApplied
<1>1. IInv => FiltersAreApplied
    BY DEF IInv, TypedOK, AcceptedOK, FiltersAreApplied
<1> QED BY <1>1, Invariant, PTL

\* The minimal projection of every expression names outputs of it, if that of every
\* class does.
THEOREM MinimalKept == TypingSpec => []MinimalIsOutput
<1>1. IInv => MinimalIsOutput
    BY DEF IInv, TypedOK, AcceptedOK, IsSignature, MinimalIsOutput
<1> QED BY <1>1, Invariant, PTL

--------------------------------------------------------------------------------
(* Recursive functions. What they take is measured, and what one calls itself   *)
(* with measures less.                                                          *)

\* A set that has what it has the smaller ones of is everything.
LEMMA MeasureInduction ==
    ASSUME NEW D, NEW measure \in [D -> Nat], NEW P \in SUBSET D,
           \A x \in D : (\A y \in D : measure[y] < measure[x] => y \in P) => x \in P
    PROVE  P = D
<1> SUFFICES ASSUME P # D PROVE FALSE
    OBVIOUS
<1> DEFINE bad == {measure[x] : x \in D \ P}
<1>1. bad \in SUBSET Nat /\ bad # {}
    OBVIOUS
<1>2. PICK k \in bad : \A i \in bad : k <= i
    BY <1>1, LeastExists
<1>3. PICK x \in D \ P : measure[x] = k
    BY <1>2
<1>4. \A y \in D : measure[y] < measure[x] => y \in P
    <2> SUFFICES ASSUME NEW y \in D, measure[y] < measure[x], y \notin P PROVE FALSE
        OBVIOUS
    <2>1. measure[y] \in bad
        OBVIOUS
    <2>2. measure[x] <= measure[y] /\ measure[x] \in Nat /\ measure[y] \in Nat
        BY <1>2, <1>3, <2>1
    <2> QED BY <2>2
<1> QED BY <1>3, <1>4

\* F is what is done at each argument with the function so far.
IsRecursion(D, V, measure, bound, F) ==
    /\ V # {} /\ measure \in [D -> Nat] /\ bound \in Nat /\ \A x \in D : measure[x] < bound
    /\ F \in [[D -> V] -> [D -> V]]
    /\ \A f, g \in [D -> V] : \A x \in D :
          (\A y \in D : measure[y] < measure[x] => f[y] = g[y]) => F[f][x] = F[g][x]

\* A recursive function exists if it calls itself with measures less.
LEMMA Recursion ==
    ASSUME NEW D, NEW V, NEW measure, NEW bound, NEW F, IsRecursion(D, V, measure, bound, F)
    PROVE  \E f \in [D -> V] : f = F[f]
<1> USE DEF IsRecursion
<1> DEFINE Upto(n, f) == \A x \in D : measure[x] < n => F[f][x] = f[x]
           bad == {n \in Nat : ~ \E f \in [D -> V] : Upto(n, f)}
<1>1. bad = {}
    <2> SUFFICES ASSUME bad # {} PROVE FALSE
        OBVIOUS
    <2>1. PICK n \in bad : \A i \in bad : n <= i
        <3>1. bad \in SUBSET Nat
            OBVIOUS
        <3> QED BY <3>1, LeastExists
    <2>2. CASE n = 0
        <3>1. PICK v \in V : TRUE
            OBVIOUS
        <3>2. [x \in D |-> v] \in [D -> V]
            BY <3>1
        <3>3. Upto(0, [x \in D |-> v])
            OBVIOUS
        <3> QED BY <2>1, <2>2, <3>2, <3>3
    <2>3. CASE n # 0
        <3>1. n - 1 \in Nat /\ n - 1 \notin bad
            <4>1. n \in Nat /\ ~(n <= n - 1)
                OBVIOUS
            <4>2. n - 1 \in Nat
                BY <2>3, <4>1
            <4> HIDE DEF bad
            <4> QED BY <2>1, <4>1, <4>2
        <3>2. PICK f \in [D -> V] : Upto(n - 1, f)
            BY <3>1
        <3>3. F[f] \in [D -> V]
            OBVIOUS
        <3>4. Upto(n, F[f])
            <4> SUFFICES ASSUME NEW x \in D, measure[x] < n PROVE F[F[f]][x] = F[f][x]
                OBVIOUS
            <4>1. \A y \in D : measure[y] < measure[x] => F[f][y] = f[y]
                <5>1. \A y \in D : measure[y] < measure[x] => measure[y] < n - 1
                    BY <2>1
                <5> QED BY <3>2, <5>1
            <4> QED BY <3>3, <4>1
        <3>5. n \notin bad
            BY <3>3, <3>4
        <3> QED BY <2>1, <3>5
    <2> QED BY <2>2, <2>3
<1>2. PICK f \in [D -> V] : Upto(bound, f)
    <2>1. bound \notin bad
        BY <1>1
    <2> QED BY <2>1
<1>3. F[f] \in [D -> V] /\ \A x \in D : F[f][x] = f[x]
    BY <1>2
<1> QED BY <1>2, <1>3

--------------------------------------------------------------------------------
(* Types.                                                                       *)

\* The part that begins at n.
From(type, n) == SubSeq(type, n, Len(type))

\* It is shorter by what is before n.
LEMMA FromIs ==
    ASSUME NEW type, IsType(type), NEW n \in 1 .. Len(type)
    PROVE  /\ Len(type) \in Nat
           /\ DOMAIN From(type, n) = 1 .. Len(type) - n + 1
           /\ Len(From(type, n)) = Len(type) - n + 1
           /\ From(type, n) \in Seq(Range(type))
           /\ \A i \in 1 .. Len(type) - n + 1 : From(type, n)[i] = type[n + i - 1]
<1>1. Len(type) \in Nat /\ type = [i \in 1 .. Len(type) |-> type[i]]
    BY DEF IsType
<1>2. type \in Seq(Range(type))
    <2>1. \A i \in 1 .. Len(type) : type[i] \in Range(type)
        BY <1>1 DEF Range
    <2>2. type \in [1 .. Len(type) -> Range(type)]
        BY <1>1, <2>1
    <2> QED BY <1>1, <2>2, IsASeq
<1>3. \A i \in n .. Len(type) : type[i] \in Range(type)
    BY <1>1 DEF Range
<1> QED BY <1>1, <1>2, <1>3, SubSeqProperties DEF From

\* Where the innermost elements begin.
LEMMA InnermostExists ==
    ASSUME NEW type, IsType(type)
    PROVE  \E b \in 1 .. Len(type) :
              /\ type[b] # "Array" /\ \A m \in 1 .. b - 1 : type[m] = "Array"
              /\ PartsOf(type) = {From(type, n) : n \in 1 .. b}
<1>1. PICK b \in 1 .. Len(type) : type[b] # "Array" /\ \A m \in 1 .. b - 1 : type[m] = "Array"
    BY DEF IsType
<1>2. Len(type) \in Nat /\ DOMAIN type = 1 .. Len(type)
    <2>1. Len(type) \in Nat /\ type = [i \in 1 .. Len(type) |-> type[i]]
        BY DEF IsType
    <2> QED BY <2>1
<1>3. {n \in DOMAIN type : \A m \in 1 .. n - 1 : type[m] = "Array"} = 1 .. b
    <2>1. ASSUME NEW n \in 1 .. Len(type), \A m \in 1 .. n - 1 : type[m] = "Array" PROVE n \in 1 .. b
        <3>1. b \notin 1 .. n - 1
            BY <1>1, <2>1
        <3> QED BY <1>2, <3>1
    <2>2. ASSUME NEW n \in 1 .. b PROVE n \in 1 .. Len(type) /\ \A m \in 1 .. n - 1 : type[m] = "Array"
        BY <1>1, <1>2
    <2> QED BY <1>2, <2>1, <2>2
<1>4. PartsOf(type) = {From(type, n) : n \in 1 .. b}
    BY <1>3 DEF PartsOf, From
<1> QED BY <1>1, <1>4

\* A type is a part of itself, and what follows "Array" is a shorter one.
LEMMA PartsAre ==
    ASSUME NEW type, IsType(type)
    PROVE  /\ type \in PartsOf(type)
           /\ \A part \in PartsOf(type) :
                 /\ Len(part) \in 1 .. Len(type)
                 /\ IsA(part, "Array") =>
                       Tail(part) \in PartsOf(type) /\ Len(Tail(part)) = Len(part) - 1
                 /\ IsType(part) /\ PartsOf(part) \subseteq PartsOf(type)
<1>1. PICK b \in 1 .. Len(type) :
            /\ type[b] # "Array" /\ \A m \in 1 .. b - 1 : type[m] = "Array"
            /\ PartsOf(type) = {From(type, n) : n \in 1 .. b}
    BY InnermostExists
<1>2. Len(type) \in Nat /\ type = [i \in 1 .. Len(type) |-> type[i]]
    BY DEF IsType
<1>3. type \in PartsOf(type)
    <2>1. 1 \in 1 .. b /\ 1 \in 1 .. Len(type)
        BY <1>2
    <2>2. From(type, 1) = [i \in 1 .. Len(type) |-> type[i]]
        <3>1. DOMAIN From(type, 1) = 1 .. Len(type) /\ \A i \in 1 .. Len(type) : From(type, 1)[i] = type[i]
            <4>1. /\ DOMAIN From(type, 1) = 1 .. Len(type) - 1 + 1
                  /\ \A i \in 1 .. Len(type) - 1 + 1 : From(type, 1)[i] = type[1 + i - 1]
                BY <2>1, FromIs
            <4>2. Len(type) - 1 + 1 = Len(type) /\ \A i \in 1 .. Len(type) : 1 + i - 1 = i
                BY <1>2
            <4> QED BY <4>1, <4>2
        <3>2. From(type, 1) = [i \in DOMAIN From(type, 1) |-> From(type, 1)[i]]
            <4>1. From(type, 1) \in Seq(Range(type))
                BY <2>1, FromIs
            <4> QED BY <4>1
        <3> QED BY <3>1, <3>2
    <2> QED BY <1>1, <1>2, <2>1, <2>2
<1> SUFFICES ASSUME NEW part \in PartsOf(type)
             PROVE  /\ Len(part) \in 1 .. Len(type)
                    /\ IsA(part, "Array") =>
                          Tail(part) \in PartsOf(type) /\ Len(Tail(part)) = Len(part) - 1
                    /\ IsType(part) /\ PartsOf(part) \subseteq PartsOf(type)
    BY <1>3
<1>4. PICK n \in 1 .. b : part = From(type, n)
    BY <1>1
<1>5. n \in 1 .. Len(type) /\ n <= b /\ b <= Len(type)
    BY <1>1, <1>2, <1>4
<1>6. /\ DOMAIN part = 1 .. Len(type) - n + 1 /\ Len(part) = Len(type) - n + 1
      /\ part \in Seq(Range(type))
      /\ \A i \in 1 .. Len(part) : part[i] = type[n + i - 1]
    BY <1>4, <1>5, FromIs
<1>7. Len(part) \in 1 .. Len(type)
    BY <1>2, <1>5, <1>6
<1>8. ASSUME IsA(part, "Array")
      PROVE  Tail(part) \in PartsOf(type) /\ Len(Tail(part)) = Len(part) - 1
    <2>1. type[n] = "Array"
        <3>1. 1 \in 1 .. Len(part) /\ n + 1 - 1 = n
            BY <1>7
        <3> QED BY <1>6, <1>8, <3>1 DEF IsA
    <2>2. n + 1 \in 1 .. b /\ n + 1 \in 1 .. Len(type)
        BY <1>1, <1>2, <1>5, <2>1
    <2>3. /\ DOMAIN From(type, n + 1) = 1 .. Len(type) - n /\ Len(From(type, n + 1)) = Len(type) - n
          /\ From(type, n + 1) \in Seq(Range(type))
          /\ \A i \in 1 .. Len(type) - n : From(type, n + 1)[i] = type[n + i]
        <3>1. /\ DOMAIN From(type, n + 1) = 1 .. Len(type) - (n + 1) + 1
              /\ Len(From(type, n + 1)) = Len(type) - (n + 1) + 1
              /\ From(type, n + 1) \in Seq(Range(type))
              /\ \A i \in 1 .. Len(type) - (n + 1) + 1 : From(type, n + 1)[i] = type[n + 1 + i - 1]
            BY <2>2, FromIs
        <3>2. Len(type) - (n + 1) + 1 = Len(type) - n /\ \A i \in Nat : n + 1 + i - 1 = n + i
            BY <1>2
        <3> QED BY <3>1, <3>2
    <2>4. /\ Tail(part) \in Seq(Range(type)) /\ Len(Tail(part)) = Len(part) - 1
          /\ \A i \in 1 .. Len(part) - 1 : Tail(part)[i] = part[i + 1]
        <3>1. part # << >>
            BY <1>6, <1>7
        <3> QED BY <1>6, <3>1, HeadTailProperties
    <2>5. \A i \in 1 .. Len(type) - n : Tail(part)[i] = From(type, n + 1)[i]
        <3> TAKE i \in 1 .. Len(type) - n
        <3>1. i \in 1 .. Len(part) - 1 /\ i + 1 \in 1 .. Len(part) /\ n + (i + 1) - 1 = n + i
            BY <1>2, <1>6
        <3> QED BY <1>6, <2>3, <2>4, <3>1
    <2>6. Tail(part) = From(type, n + 1)
        <3>1. Len(part) - 1 = Len(type) - n
            BY <1>2, <1>6
        <3> QED BY <2>3, <2>4, <2>5, <3>1, SeqEqual
    <2> QED BY <1>1, <2>2, <2>4, <2>6
<1>9. IsType(part)
    <2>1. part = [i \in 1 .. Len(part) |-> part[i]] /\ Len(part) \in Nat
        BY <1>6, <1>7
    <2>2. b - n + 1 \in 1 .. Len(part) /\ n + (b - n + 1) - 1 = b
        BY <1>2, <1>5, <1>6
    <2>3. part[b - n + 1] # "Array"
        BY <1>1, <1>6, <2>2
    <2>4. \A m \in 1 .. (b - n + 1) - 1 : part[m] = "Array"
        <3> TAKE m \in 1 .. (b - n + 1) - 1
        <3>1. m \in 1 .. Len(part) /\ n + m - 1 \in 1 .. b - 1
            BY <1>2, <1>5, <1>6
        <3> QED BY <1>1, <1>6, <3>1
    <2> QED BY <2>1, <2>2, <2>3, <2>4 DEF IsType
<1>10. PartsOf(part) \subseteq PartsOf(type)
    <2>1. PICK c \in 1 .. Len(part) :
                /\ part[c] # "Array" /\ \A m \in 1 .. c - 1 : part[m] = "Array"
                /\ PartsOf(part) = {From(part, k) : k \in 1 .. c}
        BY <1>9, InnermostExists
    <2>2. c <= b - n + 1
        <3>1. b - n + 1 \in 1 .. Len(part) /\ n + (b - n + 1) - 1 = b
            BY <1>2, <1>5, <1>6
        <3>2. part[b - n + 1] # "Array"
            BY <1>1, <1>6, <3>1
        <3>3. b - n + 1 \notin 1 .. c - 1
            BY <2>1, <3>2
        <3> QED BY <1>5, <3>1, <3>3
    <2> SUFFICES ASSUME NEW k \in 1 .. c PROVE From(part, k) = From(type, n + k - 1) /\ n + k - 1 \in 1 .. b
        BY <1>1, <2>1
    <2>3. n + k - 1 \in 1 .. b /\ n + k - 1 \in 1 .. Len(type) /\ k \in 1 .. Len(part)
        BY <1>2, <1>5, <1>7, <2>2
    <2>4. /\ Len(From(part, k)) = Len(part) - k + 1
          /\ From(part, k) \in Seq(Range(part))
          /\ \A i \in 1 .. Len(part) - k + 1 : From(part, k)[i] = part[k + i - 1]
        BY <1>9, <2>3, FromIs
    <2>5. /\ Len(From(type, n + k - 1)) = Len(type) - (n + k - 1) + 1
          /\ From(type, n + k - 1) \in Seq(Range(type))
          /\ \A i \in 1 .. Len(type) - (n + k - 1) + 1 : From(type, n + k - 1)[i] = type[n + k - 1 + i - 1]
        BY <2>3, FromIs
    <2>6. Len(type) - (n + k - 1) + 1 = Len(part) - k + 1
        BY <1>2, <1>6, <2>3
    <2>7. \A i \in 1 .. Len(part) - k + 1 : From(part, k)[i] = From(type, n + k - 1)[i]
        <3> TAKE i \in 1 .. Len(part) - k + 1
        <3>1. k + i - 1 \in 1 .. Len(part) /\ n + (k + i - 1) - 1 = n + k - 1 + i - 1
            BY <1>7, <2>3
        <3> QED BY <1>6, <2>4, <2>5, <2>6, <3>1
    <2> DEFINE S == Range(part) \union Range(type)
    <2>8. From(part, k) \in Seq(S) /\ From(type, n + k - 1) \in Seq(S)
        <3>1. Range(part) \subseteq S /\ Range(type) \subseteq S
            OBVIOUS
        <3> HIDE DEF S
        <3> QED BY <2>4, <2>5, <3>1, SeqMonotonic
    <2> HIDE DEF S
    <2> QED BY <2>3, <2>4, <2>5, <2>6, <2>7, <2>8, SeqEqual
<1> QED BY <1>7, <1>8, <1>9, <1>10

--------------------------------------------------------------------------------
(* The hierarchy of entities.                                                   *)

\* Part of the hierarchy.
IsPart(parents) ==
    /\ DOMAIN parents \subseteq DOMAIN Parents
    /\ \A e \in DOMAIN parents : ToSet(parents[e]) \subseteq ToSet(Parents[e])

\* Thingpedia is all of itself.
LEMMA WholeIsPart == IsPart(Parents)
BY DEF IsPart

\* With less of the hierarchy, an entity has no more parents.
LEMMA ParentsOfPart ==
    ASSUME NEW parents, IsPart(parents), NEW e
    PROVE  ToSet(ParentsIn(parents, e)) \subseteq ToSet(ParentsIn(Parents, e))
<1>1. ToSet(<< "tt:url" >>) = {"tt:url"} /\ ToSet(<< >>) = {}
    BY DEF ToSet
<1>2. CASE e \in DOMAIN parents
    BY <1>2 DEF IsPart, ParentsIn
<1>3. CASE e \notin DOMAIN parents
    <2>1. CASE e = "tt:picture"
        <3>1. ToSet(ParentsIn(parents, e)) = {"tt:url"}
            BY <1>1, <1>3, <2>1 DEF ParentsIn
        <3>2. "tt:url" \in ToSet(ParentsIn(Parents, e))
            BY <1>1, <2>1, HierarchyAssumption DEF ParentsIn
        <3> QED BY <3>1, <3>2
    <2>2. CASE e # "tt:picture"
        <3>1. ToSet(ParentsIn(parents, e)) = {}
            BY <1>1, <1>3, <2>2 DEF ParentsIn
        <3> QED BY <3>1
    <2> QED BY <2>1, <2>2
<1> QED BY <1>2, <1>3

\* Entities have heights, those not in the hierarchy too.
LEMMA HeightsExist ==
    ASSUME NEW K
    PROVE  \E bound \in Nat : \E height \in [K -> Nat] :
              \A e \in K : /\ height[e] < bound
                           /\ \A p \in ToSet(ParentsIn(Parents, e)) \intersect K : height[p] < height[e]
<1> DEFINE D == DOMAIN Parents
           N == Cardinality(D)
<1>1. N \in Nat
    BY HierarchyAssumption, FS_CardinalityType
<1>2. PICK level \in [D -> 0 .. N] : \A e \in D : \A p \in ToSet(Parents[e]) : level[p] < level[e]
    BY HierarchyAssumption
<1>3. \A e \in D : \A p \in ToSet(Parents[e]) : p \in D
    <2> TAKE e \in D
    <2>1. Parents[e] \in Seq(D)
        BY HierarchyAssumption
    <2> QED BY <2>1 DEF ToSet
<1>4. ToSet(<< "tt:url" >>) = {"tt:url"} /\ ToSet(<< >>) = {}
    BY DEF ToSet
<1> DEFINE height == [e \in K |-> IF e \in D THEN level[e] ELSE IF e = "tt:picture" THEN N + 1 ELSE 0]
<1> HIDE DEF N, D
<1>5. \A e \in K : height[e] \in Nat /\ height[e] < N + 2
    BY <1>1, <1>2
<1>6. ASSUME NEW e \in K, NEW p \in ToSet(ParentsIn(Parents, e)) \intersect K
      PROVE  height[p] < height[e]
    <2>1. CASE e \in D
        <3>1. p \in ToSet(Parents[e]) /\ p \in D
            BY <1>3, <2>1 DEF ParentsIn, D
        <3> QED BY <1>2, <2>1, <3>1
    <2>2. CASE e \notin D
        <3>1. e = "tt:picture" /\ p = "tt:url"
            BY <1>4, <2>2 DEF ParentsIn, D
        <3>2. height[e] = N + 1
            BY <2>2, <3>1
        <3>3. p # "tt:picture"
            BY <3>1
        <3>4. height[p] \in 0 .. N
            BY <1>1, <1>2, <3>3
        <3> QED BY <1>1, <3>2, <3>4
    <2> QED BY <2>1, <2>2
<1>7. height \in [K -> Nat]
    BY <1>5
<1> HIDE DEF height
<1> QED BY <1>1, <1>5, <1>6, <1>7

\* The entities that entitySubType() may get to, and itself of them.
Nearby(entity, parents) ==
    {entity, "tt:url"} \union UNION {{e} \union ToSet(parents[e]) : e \in DOMAIN parents}
IsBelow(below, entity, other, parents) ==
    below = [e \in Nearby(entity, parents) |->
                e = other \/ \E p \in ToSet(ParentsIn(parents, e)) : below[p]]

\* Going to the parents does not lead out of them.
LEMMA NearbyIs ==
    ASSUME NEW entity, NEW parents, NEW e \in Nearby(entity, parents)
    PROVE  ToSet(ParentsIn(parents, e)) \subseteq Nearby(entity, parents)
<1>1. ToSet(<< "tt:url" >>) = {"tt:url"} /\ ToSet(<< >>) = {}
    BY DEF ToSet
<1>2. CASE e \in DOMAIN parents
    BY <1>2 DEF ParentsIn, Nearby
<1>3. CASE e \notin DOMAIN parents
    BY <1>1, <1>3 DEF ParentsIn, Nearby
<1> QED BY <1>2, <1>3

\* entitySubType() is what its recursion says, which ends since no entity is
\* above itself.
LEMMA SubTypeIs ==
    ASSUME NEW parents, IsPart(parents), NEW entity, NEW other
    PROVE  \E below : /\ IsBelow(below, entity, other, parents)
                      /\ EntitySubType(entity, other, parents) = below[entity]
<1> DEFINE K == Nearby(entity, parents)
           up(e) == ToSet(ParentsIn(parents, e))
           F == [f \in [K -> BOOLEAN] |-> [e \in K |-> e = other \/ \E p \in up(e) : f[p]]]
<1>1. PICK bound \in Nat, height \in [K -> Nat] :
            \A e \in K : /\ height[e] < bound
                         /\ \A p \in ToSet(ParentsIn(Parents, e)) \intersect K : height[p] < height[e]
    <2>1. \E bound \in Nat : \E height \in [K -> Nat] :
            \A e \in K : /\ height[e] < bound
                         /\ \A p \in ToSet(ParentsIn(Parents, e)) \intersect K : height[p] < height[e]
        BY HeightsExist
    <2> QED BY <2>1
<1>2. \A e \in K : \A p \in up(e) : p \in K /\ height[p] < height[e]
    <2> TAKE e \in K
    <2>1. up(e) \subseteq K
        BY NearbyIs
    <2>2. up(e) \subseteq ToSet(ParentsIn(Parents, e))
        BY ParentsOfPart
    <2> QED BY <1>1, <2>1, <2>2
<1> HIDE DEF K, up
<1>3. F \in [[K -> BOOLEAN] -> [K -> BOOLEAN]]
    OBVIOUS
<1>4. \A f, g \in [K -> BOOLEAN] : \A x \in K :
         (\A y \in K : height[y] < height[x] => f[y] = g[y]) => F[f][x] = F[g][x]
    <2> SUFFICES ASSUME NEW f \in [K -> BOOLEAN], NEW g \in [K -> BOOLEAN], NEW x \in K,
                        \A y \in K : height[y] < height[x] => f[y] = g[y]
                 PROVE  F[f][x] = F[g][x]
        OBVIOUS
    <2>1. \A p \in up(x) : f[p] = g[p]
        BY <1>2
    <2> QED BY <2>1
<1>5. \E f \in [K -> BOOLEAN] : f = F[f]
    <2>1. IsRecursion(K, BOOLEAN, height, bound, F)
        <3>1. BOOLEAN # {} /\ height \in [K -> Nat] /\ bound \in Nat /\ \A x \in K : height[x] < bound
            BY <1>1
        <3> HIDE DEF F
        <3> QED BY <1>3, <1>4, <3>1 DEF IsRecursion
    <2> HIDE DEF F
    <2> QED BY <2>1, Recursion
<1> DEFINE Def(f) == f = [e \in K |-> e = other \/ \E p \in up(e) : f[p]]
<1>6. \E f : Def(f)
    BY <1>5
<1>7. Def(CHOOSE f : Def(f))
    <2> HIDE DEF Def
    <2> QED BY <1>6, Zenon
<1>8. EntitySubType(entity, other, parents) = (CHOOSE f : Def(f))[entity]
    BY DEF EntitySubType, K, up, Nearby
<1> QED BY <1>7, <1>8 DEF IsBelow, K, up

\* What is below an entity stays so if more of the hierarchy is known of the
\* entities above it.
LEMMA SubTypeGrows ==
    ASSUME NEW parents, IsPart(parents), NEW more, IsPart(more), NEW T, NEW entity \in T,
           \A e \in T : ToSet(ParentsIn(parents, e)) \subseteq ToSet(ParentsIn(more, e)) \intersect T,
           NEW other, EntitySubType(entity, other, parents)
    PROVE  EntitySubType(entity, other, more)
<1>1. PICK below : /\ IsBelow(below, entity, other, parents)
                   /\ EntitySubType(entity, other, parents) = below[entity]
    BY SubTypeIs
<1>2. PICK above : /\ IsBelow(above, entity, other, more)
                   /\ EntitySubType(entity, other, more) = above[entity]
    BY SubTypeIs
<1> DEFINE K == T \intersect Nearby(entity, parents) \intersect Nearby(entity, more)
           P == {e \in K : below[e] => above[e]}
<1>3. PICK bound \in Nat, height \in [K -> Nat] :
            \A e \in K : /\ height[e] < bound
                         /\ \A p \in ToSet(ParentsIn(Parents, e)) \intersect K : height[p] < height[e]
    <2>1. \E bound \in Nat : \E height \in [K -> Nat] :
            \A e \in K : /\ height[e] < bound
                         /\ \A p \in ToSet(ParentsIn(Parents, e)) \intersect K : height[p] < height[e]
        BY HeightsExist
    <2> QED BY <2>1
<1>4. ASSUME NEW e \in K, \A y \in K : height[y] < height[e] => y \in P
      PROVE  e \in P
    <2> SUFFICES ASSUME below[e] PROVE above[e]
        OBVIOUS
    <2>1. e = other \/ \E p \in ToSet(ParentsIn(parents, e)) : below[p]
        BY <1>1 DEF IsBelow
    <2>2. above[e] = (e = other \/ \E p \in ToSet(ParentsIn(more, e)) : above[p])
        BY <1>2 DEF IsBelow
    <2>3. ASSUME NEW p \in ToSet(ParentsIn(parents, e)), below[p] PROVE above[e]
        <3>1. p \in ToSet(ParentsIn(more, e)) /\ p \in T
            OBVIOUS
        <3>2. p \in Nearby(entity, parents) /\ p \in Nearby(entity, more)
            BY <3>1, NearbyIs
        <3>3. p \in ToSet(ParentsIn(Parents, e))
            BY ParentsOfPart
        <3>4. p \in P
            BY <1>3, <1>4, <3>1, <3>2, <3>3
        <3> QED BY <2>2, <2>3, <3>1, <3>4
    <2> QED BY <2>1, <2>2, <2>3
<1>5. P = K
    <2>1. P \in SUBSET K
        OBVIOUS
    <2> HIDE DEF P, K
    <2> QED BY <1>4, <2>1, MeasureInduction
<1>6. entity \in K
    BY DEF Nearby
<1> QED BY <1>1, <1>2, <1>5, <1>6

\* It is decided, whatever is known.
LEMMA SubTypeDecided ==
    ASSUME NEW parents, IsPart(parents), NEW entity, NEW other
    PROVE  EntitySubType(entity, other, parents) \in BOOLEAN
<1>1. PICK below : /\ IsBelow(below, entity, other, parents)
                   /\ EntitySubType(entity, other, parents) = below[entity]
    BY SubTypeIs
<1>2. entity \in Nearby(entity, parents)
    BY DEF Nearby
<1> QED BY <1>1, <1>2 DEF IsBelow

--------------------------------------------------------------------------------
(* Assignability.                                                               *)

\* Scopes as they are tried: variables are bound to types of values, or freed by
\* being bound to the name of an ancestor, which is not a variable's.
IsTried(env) ==
    \A v \in DOMAIN env \ {"_unit", "_entity"} :
        IsValueType(env[v]) \/ \E name : name \notin DOMAIN env /\ env[v] = Var(name)

\* Scopes as checks keep them.
IsScope(env) ==
    /\ DOMAIN env \subseteq {"a", "x", "_unit", "_entity"}
    /\ \A v \in DOMAIN env \ {"_unit", "_entity"} : IsValueType(env[v])

\* A type that is no array is its only part.
LEMMA FlatType ==
    ASSUME NEW constructor, constructor # "Array", NEW name
    PROVE  IsType(<< constructor, name >>) /\ PartsOf(<< constructor, name >>) = {<< constructor, name >>}
<1> DEFINE type == << constructor, name >>
<1>1. Len(type) = 2 /\ type = [n \in 1 .. Len(type) |-> type[n]] /\ type[1] # "Array"
    OBVIOUS
<1> HIDE DEF type
<1>2. IsType(type)
    <2>1. 1 \in 1 .. Len(type) /\ 1 .. 1 - 1 = {}
        BY <1>1
    <2> QED BY <1>1, <2>1 DEF IsType
<1>3. PICK b \in 1 .. Len(type) :
            /\ type[b] # "Array" /\ \A m \in 1 .. b - 1 : type[m] = "Array"
            /\ PartsOf(type) = {From(type, n) : n \in 1 .. b}
    BY <1>2, InnermostExists
<1>4. b = 1
    <2>1. ASSUME b # 1 PROVE FALSE
        <3>1. 1 \in 1 .. b - 1
            BY <1>1, <2>1
        <3> QED BY <1>1, <1>3, <3>1
    <2> QED BY <2>1
<1>5. \A part \in PartsOf(type) : part = From(type, 1)
    BY <1>3, <1>4
<1>6. type \in PartsOf(type)
    BY <1>2, PartsAre
<1>7. PartsOf(type) = {type}
    BY <1>5, <1>6
<1> QED BY <1>2, <1>7 DEF type

\* The pairs of types that are decided on the way, and how far each is from the end.
Intos(to, env) == Parts({to, Entity("tt:contact")}, env)
Pairs(type, to, env) == Parts({type}, Unbound) \X Intos(to, env)
Size(pair, env) ==
    2 * Len(pair[1]) + (IF IsA(pair[2], "Var") /\ pair[2][2] \in DOMAIN env THEN 1 ELSE 0)

\* No scope is looked up for a part of the type that is assigned.
LEMMA FromsAre ==
    ASSUME NEW type
    PROVE  Parts({type}, Unbound) = PartsOf(type)
<1>1. DOMAIN Unbound = {}
    BY DEF Unbound
<1> QED BY <1>1 DEF Parts

\* What a variable of the signature is bound to is a type to assign to, and not
\* bound in turn.
LEMMA IntosAre ==
    ASSUME NEW to, IsSignatureType(to), NEW env, IsTried(env), NEW into \in Intos(to, env)
    PROVE  /\ IsType(into) /\ PartsOf(into) \subseteq Intos(to, env)
           /\ IsA(into, "Var") /\ into[2] \in DOMAIN env =>
                 /\ env[into[2]] \in Intos(to, env)
                 /\ ~(IsA(env[into[2]], "Var") /\ env[into[2]][2] \in DOMAIN env)
           /\ IsA(into, "Var") /\ IsScope(env) => into[2] \in {"a", "x"}
<1> DEFINE contact == Entity("tt:contact")
           wholes == {to, contact} \union {env[v] : v \in DOMAIN env \ {"_unit", "_entity"}}
<1>1. Intos(to, env) = UNION {PartsOf(whole) : whole \in wholes}
    BY DEF Intos, Parts
<1>2. IsType(contact) /\ PartsOf(contact) = {contact} /\ contact[1] = "Entity"
    BY FlatType DEF Entity
<1>3. \A name : IsType(Var(name)) /\ PartsOf(Var(name)) = {Var(name)} /\ Var(name)[1] = "Var" /\ Var(name)[2] = name
    BY FlatType DEF Var
<1>4. \A whole \in wholes : IsType(whole)
    <2> TAKE whole \in wholes
    <2>1. CASE whole = to
        BY <2>1 DEF IsSignatureType
    <2>2. CASE whole = contact
        BY <1>2, <2>2
    <2>3. ASSUME NEW v \in DOMAIN env \ {"_unit", "_entity"}, whole = env[v] PROVE IsType(whole)
        BY <1>3, <2>3 DEF IsTried, IsValueType
    <2> QED BY <2>1, <2>2, <2>3
<1>5. PICK whole \in wholes : into \in PartsOf(whole)
    BY <1>1
<1>6. IsType(into) /\ PartsOf(into) \subseteq PartsOf(whole)
    BY <1>4, <1>5, PartsAre
<1>7. PartsOf(into) \subseteq Intos(to, env)
    BY <1>1, <1>6
<1>8. ASSUME IsA(into, "Var"), into[2] \in DOMAIN env
      PROVE  into[2] \in {"a", "x"}
    <2>1. CASE whole = to
        BY <1>5, <1>8, <2>1 DEF IsSignatureType
    <2>2. CASE whole = contact
        BY <1>2, <1>5, <1>8, <2>2 DEF IsA
    <2>3. ASSUME NEW v \in DOMAIN env \ {"_unit", "_entity"}, whole = env[v] PROVE FALSE
        <3>1. CASE IsValueType(whole)
            BY <1>5, <1>8, <3>1 DEF IsValueType
        <3>2. CASE \E name : name \notin DOMAIN env /\ whole = Var(name)
            BY <1>3, <1>5, <1>8, <3>2
        <3> QED BY <2>3, <3>1, <3>2 DEF IsTried
    <2> QED BY <2>1, <2>2, <2>3
<1>9. ASSUME NEW v \in DOMAIN env, v \in {"a", "x"}
      PROVE  env[v] \in Intos(to, env) /\ ~(IsA(env[v], "Var") /\ env[v][2] \in DOMAIN env)
    <2>1. v \in DOMAIN env \ {"_unit", "_entity"}
        BY <1>9
    <2>2. env[v] \in wholes
        BY <2>1
    <2>3. env[v] \in PartsOf(env[v])
        BY <1>4, <2>2, PartsAre
    <2>4. CASE IsValueType(env[v])
        BY <1>1, <2>2, <2>3, <2>4 DEF IsValueType
    <2>5. CASE \E name : name \notin DOMAIN env /\ env[v] = Var(name)
        BY <1>1, <1>3, <2>2, <2>3, <2>5
    <2> QED BY <2>1, <2>4, <2>5 DEF IsTried
<1>10. ASSUME IsA(into, "Var"), IsScope(env) PROVE into[2] \in {"a", "x"}
    <2>1. CASE whole = to
        BY <1>5, <1>10, <2>1 DEF IsSignatureType
    <2>2. CASE whole = contact
        BY <1>2, <1>5, <1>10, <2>2 DEF IsA
    <2>3. ASSUME NEW v \in DOMAIN env \ {"_unit", "_entity"}, whole = env[v] PROVE FALSE
        BY <1>5, <1>10, <2>3 DEF IsScope, IsValueType
    <2> QED BY <1>5, <2>1, <2>2, <2>3
<1> QED BY <1>6, <1>7, <1>8, <1>9, <1>10

\* Each pair that isAssignable() goes on with is smaller than the one before.
LEMMA PairsAre ==
    ASSUME NEW type, IsValueType(type), NEW to, IsSignatureType(to), NEW env, IsTried(env),
           NEW pair \in Pairs(type, to, env)
    PROVE  /\ Size(pair, env) \in Nat /\ Size(pair, env) < 2 * Len(type) + 2
           /\ pair[1] \in PartsOf(type) /\ pair[2] \in Intos(to, env) /\ Len(type) \in Nat
           /\ IsA(pair[1], "Array") =>
                 LET next == << Tail(pair[1]), Entity("tt:contact") >>
                 IN next \in Pairs(type, to, env) /\ Size(next, env) < Size(pair, env)
           /\ IsA(pair[1], "Array") /\ IsA(pair[2], "Array") =>
                 LET next == << Tail(pair[1]), Tail(pair[2]) >>
                 IN next \in Pairs(type, to, env) /\ Size(next, env) < Size(pair, env)
           /\ IsA(pair[2], "Var") /\ pair[2][2] \in DOMAIN env =>
                 LET next == << pair[1], env[pair[2][2]] >>
                 IN next \in Pairs(type, to, env) /\ Size(next, env) < Size(pair, env)
<1>1. PICK from \in PartsOf(type), into \in Intos(to, env) : pair = << from, into >>
    BY FromsAre DEF Pairs
<1>2. pair[1] = from /\ pair[2] = into
    BY <1>1
<1>3. Len(type) \in Nat /\ Len(from) \in 1 .. Len(type)
    BY PartsAre DEF IsValueType, IsType
<1> DEFINE free(t) == IF IsA(t, "Var") /\ t[2] \in DOMAIN env THEN 1 ELSE 0
           size(f, t) == 2 * Len(f) + free(t)
<1>4. \A f, t : Size(<< f, t >>, env) = size(f, t)
    BY DEF Size
<1>5. \A t : free(t) \in {0, 1}
    OBVIOUS
<1>6. /\ Size(pair, env) = 2 * Len(from) + free(into)
      /\ Size(pair, env) \in Nat /\ Size(pair, env) < 2 * Len(type) + 2
    BY <1>1, <1>3, <1>4, <1>5
<1>7. Pairs(type, to, env) = PartsOf(type) \X Intos(to, env)
    BY FromsAre DEF Pairs
<1> HIDE DEF free
<1>8. ASSUME IsA(from, "Array"), NEW t \in Intos(to, env)
      PROVE  /\ << Tail(from), t >> \in Pairs(type, to, env)
             /\ Size(<< Tail(from), t >>, env) < Size(pair, env)
    <2>1. Tail(from) \in PartsOf(type) /\ Len(Tail(from)) = Len(from) - 1
        BY <1>8, PartsAre DEF IsValueType
    <2>2. 2 * (Len(from) - 1) + free(t) < 2 * Len(from) + free(into)
        BY <1>3, <1>5
    <2> QED BY <1>4, <1>6, <1>7, <2>1, <2>2
<1>9. Entity("tt:contact") \in Intos(to, env)
    <2>1. Entity("tt:contact") \in PartsOf(Entity("tt:contact"))
        BY FlatType DEF Entity
    <2> QED BY <2>1 DEF Intos, Parts
<1>10. ASSUME IsA(into, "Array") PROVE Tail(into) \in Intos(to, env)
    <2>1. IsType(into) /\ PartsOf(into) \subseteq Intos(to, env)
        BY IntosAre
    <2>2. into \in PartsOf(into)
        BY <2>1, PartsAre
    <2> QED BY <1>10, <2>1, <2>2, PartsAre
<1>11. ASSUME IsA(into, "Var"), into[2] \in DOMAIN env
       PROVE  /\ << from, env[into[2]] >> \in Pairs(type, to, env)
              /\ Size(<< from, env[into[2]] >>, env) < Size(pair, env)
    <2>1. /\ env[into[2]] \in Intos(to, env)
          /\ ~(IsA(env[into[2]], "Var") /\ env[into[2]][2] \in DOMAIN env)
        BY <1>11, IntosAre
    <2>2. free(into) = 1 /\ free(env[into[2]]) = 0
        BY <1>11, <2>1 DEF free
    <2>3. 2 * Len(from) < 2 * Len(from) + 1 /\ 2 * Len(from) + 0 = 2 * Len(from)
        BY <1>3
    <2> QED BY <1>4, <1>6, <1>7, <2>1, <2>2, <2>3
<1> QED BY <1>2, <1>3, <1>6, <1>8, <1>9, <1>10, <1>11

\* What a pair may be decided to.
Bindings(type, to, env) ==
    {Bind(env, pair[2][2], pair[1]) :
        pair \in {pair \in Pairs(type, to, env) : IsA(pair[2], "Var") /\ pair[2][2] \notin DOMAIN env}}
    \union {Bind(env, name, pair[1][2]) :
               name \in {"_unit", "_entity"}, pair \in Pairs(type, to, env)}
Verdicts(type, to, env) ==
    {Verdict(ok, s) : ok \in BOOLEAN, s \in {env} \union Bindings(type, to, env)}

NamedEntity(type) == IsA(type, "Entity") /\ type[2] # ""

\* A pair is decided like a smaller one, or by the hierarchy, or by itself.
Shapes(pair, type, to, env) ==
    \/ \E next \in Pairs(type, to, env) :
          /\ Size(next, env) < Size(pair, env)
          /\ NamedEntity(pair[2]) => NamedEntity(next[2])
          /\ \A parents, fits : Fit(pair, env, parents, fits) = fits[next]
    \/ \E verdict \in Verdicts(type, to, env) :
          /\ NamedEntity(pair[2]) => verdict.scope = env
          /\ \A parents, fits : Fit(pair, env, parents, fits) = verdict
    \/ /\ IsA(pair[1], "Entity")
       /\ \A parents, fits :
             Fit(pair, env, parents, fits) = Verdict(EntitySubType(pair[1][2], pair[2][2], parents), env)

\* isAssignable() reads what is known of the hierarchy at one place only.
LEMMA FitIs ==
    ASSUME NEW type, IsValueType(type), NEW to, IsSignatureType(to), NEW env, IsTried(env),
           NEW pair \in Pairs(type, to, env)
    PROVE  Shapes(pair, type, to, env)
<1> DEFINE from == pair[1]
           into == pair[2]
           Gives(verdict) == \A parents, fits : Fit(pair, env, parents, fits) = verdict
           Like(p) == \A parents, fits : Fit(pair, env, parents, fits) = fits[p]
<1>1. ASSUME NEW ok \in BOOLEAN, Gives(Verdict(ok, env)) PROVE Shapes(pair, type, to, env)
    <2>1. Verdict(ok, env) \in Verdicts(type, to, env) /\ Verdict(ok, env).scope = env
        BY DEF Verdicts, Verdict
    <2> QED BY <1>1, <2>1 DEF Shapes
<1>2. ASSUME NEW s \in Bindings(type, to, env), Gives(Verdict(TRUE, s)), ~NamedEntity(into)
      PROVE  Shapes(pair, type, to, env)
    <2>1. Verdict(TRUE, s) \in Verdicts(type, to, env)
        <3>1. \A ok \in BOOLEAN : Verdict(ok, s) \in Verdicts(type, to, env)
            BY DEF Verdicts
        <3> QED BY <3>1
    <2> QED BY <1>2, <2>1 DEF Shapes
<1>3. ASSUME NEW next \in Pairs(type, to, env), Size(next, env) < Size(pair, env), Like(next),
             NamedEntity(into) => NamedEntity(next[2])
      PROVE  Shapes(pair, type, to, env)
    BY <1>3 DEF Shapes
<1>4. CASE IsA(into, "Var") /\ into[2] \in DOMAIN env
    <2>1. Like(<< from, env[into[2]] >>)
        BY <1>4 DEF Fit
    <2>2. ~NamedEntity(into)
        BY <1>4 DEF NamedEntity, IsA
    <2>3. /\ << from, env[into[2]] >> \in Pairs(type, to, env)
          /\ Size(<< from, env[into[2]] >>, env) < Size(pair, env)
        BY <1>4, PairsAre
    <2> QED BY <1>3, <2>1, <2>2, <2>3
<1>5. CASE IsA(into, "Var") /\ into[2] \notin DOMAIN env
    <2>1. Gives(Verdict(TRUE, Bind(env, into[2], from)))
        BY <1>5 DEF Fit, Yes
    <2>2. ~NamedEntity(into)
        BY <1>5 DEF NamedEntity, IsA
    <2>3. Bind(env, into[2], from) \in Bindings(type, to, env)
        BY <1>5 DEF Bindings
    <2> QED BY <1>2, <2>1, <2>2, <2>3
<1>6. CASE ~IsA(into, "Var") /\ from = into
    <2>1. Gives(Verdict(TRUE, env))
        BY <1>6 DEF Fit, Yes
    <2> QED BY <1>1, <2>1
<1>7. CASE ~IsA(into, "Var") /\ from # into
    <2>1. \A parents, fits : Fit(pair, env, parents, fits) = Converts(from, into, env, parents, fits)
        BY <1>7 DEF Fit
    <2> DEFINE C1 == "Unknown" \in {from[1], into[1]}
               C2 == AnyType \in {from, into}
               C3 == << from, into >> \in {<< Date, Time >>, << Number, Currency >>}
               C4 == Both(from, into, "Measure")
               C5 == Both(from, into, "Array")
               C6 == IsA(from, "Array") /\ into = Entity("tt:contact_group")
               C7 == Both(from, into, "Enum")
               C8 == Both(from, into, "Entity")
    <2>2. \A parents, fits :
             Converts(from, into, env, parents, fits) =
                IF C1 THEN No(env)
                ELSE IF C2 THEN Yes(env)
                ELSE IF C3 THEN Yes(env)
                ELSE IF C4 THEN IF into = Measure("") THEN Unify(env, "_unit", from[2]) ELSE No(env)
                ELSE IF C5 THEN IF Tail(from) = AnyType /\ ~IsA(Tail(into), "Var") THEN Yes(env)
                                ELSE fits[<< Tail(from), Tail(into) >>]
                ELSE IF C6 THEN fits[<< Tail(from), Entity("tt:contact") >>]
                ELSE IF C7 THEN Verdict(EnumFits(from, into), env)
                ELSE IF C8 THEN IF into = Entity("") THEN Unify(env, "_entity", from[2])
                                ELSE Verdict(EntitySubType(from[2], into[2], parents), env)
                ELSE No(env)
        BY DEF Converts
    <2>3. ASSUME NEW name \in {"_unit", "_entity"}, Gives(Unify(env, name, from[2])), ~NamedEntity(into)
          PROVE  Shapes(pair, type, to, env)
        <3>1. CASE name \in DOMAIN env
            <4>1. Gives(Verdict(env[name] = from[2], env))
                BY <2>3, <3>1 DEF Unify
            <4>2. (env[name] = from[2]) \in BOOLEAN
                OBVIOUS
            <4> HIDE DEF Same
            <4> QED BY <1>1, <4>1, <4>2
        <3>2. CASE name \notin DOMAIN env
            <4>1. Gives(Verdict(TRUE, Bind(env, name, from[2])))
                BY <2>3, <3>2 DEF Unify, Yes
            <4>2. Bind(env, name, from[2]) \in Bindings(type, to, env)
                BY DEF Bindings
            <4> QED BY <1>2, <2>3, <4>1, <4>2
        <3> QED BY <3>1, <3>2
    <2>4. Measure("")[1] = "Measure" /\ Entity("")[1] = "Entity" /\ Entity("")[2] = ""
          /\ Entity("tt:contact")[1] = "Entity" /\ Entity("tt:contact")[2] = "tt:contact"
        BY DEF Measure, Entity
    <2> HIDE DEF C1, C2, C3
    <2>5. CASE C1
        <3>1. Gives(Verdict(FALSE, env))
            BY <2>1, <2>2, <2>5 DEF No
        <3> QED BY <1>1, <3>1
    <2>6. CASE ~C1 /\ (C2 \/ C3)
        <3>1. Gives(Verdict(TRUE, env))
            BY <2>1, <2>2, <2>6 DEF Yes
        <3> QED BY <1>1, <3>1
    <2>7. CASE ~C1 /\ ~C2 /\ ~C3 /\ C4
        <3>1. CASE into = Measure("")
            <4>1. Gives(Unify(env, "_unit", from[2]))
                BY <2>1, <2>2, <2>7, <3>1
            <4>2. ~NamedEntity(into)
                BY <2>4, <3>1 DEF NamedEntity, IsA
            <4> QED BY <2>3, <4>1, <4>2
        <3>2. CASE into # Measure("")
            <4>1. Gives(Verdict(FALSE, env))
                BY <2>1, <2>2, <2>7, <3>2 DEF No
            <4> QED BY <1>1, <4>1
        <3> QED BY <3>1, <3>2
    <2>8. CASE ~C1 /\ ~C2 /\ ~C3 /\ ~C4 /\ C5
        <3>1. CASE Tail(from) = AnyType /\ ~IsA(Tail(into), "Var")
            <4>1. Gives(Verdict(TRUE, env))
                BY <2>1, <2>2, <2>8, <3>1 DEF Yes
            <4> QED BY <1>1, <4>1
        <3>2. CASE ~(Tail(from) = AnyType /\ ~IsA(Tail(into), "Var"))
            <4>1. Like(<< Tail(from), Tail(into) >>)
                BY <2>1, <2>2, <2>8, <3>2
            <4>2. ~NamedEntity(into)
                BY <2>8 DEF NamedEntity, Both, IsA
            <4>3. /\ << Tail(from), Tail(into) >> \in Pairs(type, to, env)
                  /\ Size(<< Tail(from), Tail(into) >>, env) < Size(pair, env)
                BY <2>8, PairsAre DEF Both
            <4> QED BY <1>3, <4>1, <4>2, <4>3
        <3> QED BY <3>1, <3>2
    <2>9. CASE ~C1 /\ ~C2 /\ ~C3 /\ ~C4 /\ ~C5 /\ C6
        <3>1. Like(<< Tail(from), Entity("tt:contact") >>)
            BY <2>1, <2>2, <2>9
        <3>2. NamedEntity(<< Tail(from), Entity("tt:contact") >>[2])
            BY <2>4 DEF NamedEntity, IsA
        <3>3. /\ << Tail(from), Entity("tt:contact") >> \in Pairs(type, to, env)
              /\ Size(<< Tail(from), Entity("tt:contact") >>, env) < Size(pair, env)
            BY <2>9, PairsAre
        <3> QED BY <1>3, <3>1, <3>2, <3>3
    <2>10. CASE ~C1 /\ ~C2 /\ ~C3 /\ ~C4 /\ ~C5 /\ ~C6 /\ C7
        <3>1. Gives(Verdict(EnumFits(from, into), env))
            BY <2>1, <2>2, <2>10
        <3>2. EnumFits(from, into) \in BOOLEAN
            BY DEF EnumFits
        <3> QED BY <1>1, <3>1, <3>2
    <2>11. CASE ~C1 /\ ~C2 /\ ~C3 /\ ~C4 /\ ~C5 /\ ~C6 /\ ~C7 /\ C8
        <3>1. CASE into = Entity("")
            <4>1. Gives(Unify(env, "_entity", from[2]))
                BY <2>1, <2>2, <2>11, <3>1
            <4>2. ~NamedEntity(into)
                BY <2>4, <3>1 DEF NamedEntity
            <4> QED BY <2>3, <4>1, <4>2
        <3>2. CASE into # Entity("")
            <4>1. \A parents, fits : Fit(pair, env, parents, fits)
                                      = Verdict(EntitySubType(from[2], into[2], parents), env)
                BY <2>1, <2>2, <2>11, <3>2
            <4> QED BY <2>11, <4>1 DEF Shapes, Both
        <3> QED BY <3>1, <3>2
    <2>12. CASE ~C1 /\ ~C2 /\ ~C3 /\ ~C4 /\ ~C5 /\ ~C6 /\ ~C7 /\ ~C8
        <3>1. Gives(Verdict(FALSE, env))
            BY <2>1, <2>2, <2>12 DEF No
        <3> QED BY <1>1, <3>1
    <2> QED BY <2>5, <2>6, <2>7, <2>8, <2>9, <2>10, <2>11, <2>12
<1> QED BY <1>4, <1>5, <1>6, <1>7

\* IsAssignable() looks up what is decided of each pair.
IsDecided(fits, type, to, env, parents) ==
    fits = [pair \in Pairs(type, to, env) |-> Fit(pair, env, parents, fits)]

\* isAssignable() is what its recursion says.
LEMMA AssignIs ==
    ASSUME NEW type, IsValueType(type), NEW to, IsSignatureType(to), NEW env, IsTried(env),
           NEW parents, IsPart(parents)
    PROVE  /\ << type, to >> \in Pairs(type, to, env)
           /\ \E fits : /\ IsDecided(fits, type, to, env, parents)
                        /\ IsAssignable(type, to, env, parents) = fits[<< type, to >>]
<1> DEFINE D == Pairs(type, to, env)
           V == Verdicts(type, to, env)
                \union {Verdict(EntitySubType(pair[1][2], pair[2][2], parents), env) : pair \in D}
           F == [f \in [D -> V] |-> [pair \in D |-> Fit(pair, env, parents, f)]]
           size == [pair \in D |-> Size(pair, env)]
           Def(f) == f = [pair \in D |-> Fit(pair, env, parents, f)]
<1>1. ASSUME NEW f \in [D -> V], NEW pair \in D
      PROVE  Fit(pair, env, parents, f) \in V
    <2>1. CASE \E next \in D : Fit(pair, env, parents, f) = f[next]
        BY <2>1
    <2>2. CASE \E verdict \in Verdicts(type, to, env) : Fit(pair, env, parents, f) = verdict
        BY <2>2
    <2>3. CASE Fit(pair, env, parents, f) = Verdict(EntitySubType(pair[1][2], pair[2][2], parents), env)
        BY <2>3
    <2>4. Shapes(pair, type, to, env)
        BY FitIs
    <2> HIDE DEF D, V
    <2> QED BY <2>1, <2>2, <2>3, <2>4 DEF Shapes, D
<1>2. ASSUME NEW f \in [D -> V], NEW g \in [D -> V], NEW pair \in D,
             \A next \in D : size[next] < size[pair] => f[next] = g[next]
      PROVE  Fit(pair, env, parents, f) = Fit(pair, env, parents, g)
    <2>1. \A next \in D : Size(next, env) < Size(pair, env) => f[next] = g[next]
        BY <1>2
    <2>2. Shapes(pair, type, to, env)
        BY FitIs
    <2>3. CASE \E next \in D :
                  /\ Size(next, env) < Size(pair, env)
                  /\ \A p, fits : Fit(pair, env, p, fits) = fits[next]
        BY <2>1, <2>3
    <2>4. CASE \E verdict \in Verdicts(type, to, env) : \A p, fits : Fit(pair, env, p, fits) = verdict
        BY <2>4
    <2>5. CASE \A p, fits :
                  Fit(pair, env, p, fits) = Verdict(EntitySubType(pair[1][2], pair[2][2], p), env)
        BY <2>5
    <2> HIDE DEF D, V
    <2> QED BY <2>2, <2>3, <2>4, <2>5 DEF Shapes, D
<1>3. F \in [[D -> V] -> [D -> V]]
    BY <1>1
<1>4. \A f, g \in [D -> V] : \A x \in D :
         (\A y \in D : size[y] < size[x] => f[y] = g[y]) => F[f][x] = F[g][x]
    <2> HIDE DEF V, D, size
    <2> QED BY <1>2
<1>5. << type, to >> \in D
    <2>1. type \in PartsOf(type) /\ to \in PartsOf(to)
        BY PartsAre DEF IsValueType, IsSignatureType
    <2>2. to \in Intos(to, env)
        BY <2>1 DEF Intos, Parts
    <2> QED BY <2>1, <2>2, FromsAre DEF Pairs
<1>6. V # {} /\ size \in [D -> Nat] /\ 2 * Len(type) + 2 \in Nat /\ \A x \in D : size[x] < 2 * Len(type) + 2
    <2>1. V # {}
        <3>1. PICK pair \in D : TRUE
            BY <1>5
        <3> QED BY <3>1
    <2>2. \A x \in D : Size(x, env) \in Nat /\ Size(x, env) < 2 * Len(type) + 2 /\ Len(type) \in Nat
        BY PairsAre
    <2>3. Len(type) \in Nat
        BY <1>5, PairsAre
    <2> HIDE DEF D, V
    <2> QED BY <2>1, <2>2, <2>3
<1>7. \E f \in [D -> V] : f = F[f]
    <2>1. IsRecursion(D, V, size, 2 * Len(type) + 2, F)
        <3> HIDE DEF F, D, V, size
        <3> QED BY <1>3, <1>4, <1>6 DEF IsRecursion
    <2> HIDE DEF F, D, V, size
    <2> QED BY <2>1, Recursion
<1>8. \E f : Def(f)
    BY <1>7
<1>9. Def(CHOOSE f : Def(f))
    <2> HIDE DEF Def
    <2> QED BY <1>8, Zenon
<1>10. IsAssignable(type, to, env, parents) = (CHOOSE f : Def(f))[<< type, to >>]
    BY DEF IsAssignable, Pairs, Intos
<1> QED BY <1>5, <1>9, <1>10 DEF IsDecided

\* More of the hierarchy changes no verdict that there is, as long as it puts the
\* entities below the same ones.
LEMMA AssignGrows ==
    ASSUME NEW type, IsValueType(type), NEW to, IsSignatureType(to), NEW env, IsTried(env),
           NEW parents, IsPart(parents), NEW more, IsPart(more),
           \A part \in PartsOf(type) : \A other :
              IsA(part, "Entity") /\ EntitySubType(part[2], other, parents) => EntitySubType(part[2], other, more),
           IsAssignable(type, to, env, parents).ok
    PROVE  IsAssignable(type, to, env, more) = IsAssignable(type, to, env, parents)
<1> DEFINE D == Pairs(type, to, env)
<1>1. << type, to >> \in D
    BY AssignIs
<1>2. PICK f : /\ IsDecided(f, type, to, env, parents)
               /\ IsAssignable(type, to, env, parents) = f[<< type, to >>]
    BY AssignIs
<1>3. PICK g : /\ IsDecided(g, type, to, env, more)
               /\ IsAssignable(type, to, env, more) = g[<< type, to >>]
    BY AssignIs
<1> DEFINE P == {pair \in D : f[pair].ok => g[pair] = f[pair]}
           size == [pair \in D |-> Size(pair, env)]
<1>4. ASSUME NEW pair \in D, \A next \in D : size[next] < size[pair] => next \in P
      PROVE  pair \in P
    <2>1. f[pair] = Fit(pair, env, parents, f) /\ g[pair] = Fit(pair, env, more, g)
        BY <1>2, <1>3 DEF IsDecided
    <2>2. Shapes(pair, type, to, env)
        BY FitIs
    <2>3. CASE \E next \in D :
                  /\ Size(next, env) < Size(pair, env)
                  /\ \A p, fits : Fit(pair, env, p, fits) = fits[next]
        <3>1. PICK next \in D :
                  /\ Size(next, env) < Size(pair, env)
                  /\ \A p, fits : Fit(pair, env, p, fits) = fits[next]
            BY <2>3
        <3>2. next \in P
            BY <1>4, <3>1
        <3> QED BY <2>1, <3>1, <3>2
    <2>4. CASE \E verdict \in Verdicts(type, to, env) : \A p, fits : Fit(pair, env, p, fits) = verdict
        BY <2>1, <2>4
    <2>5. CASE /\ IsA(pair[1], "Entity")
               /\ \A p, fits :
                  Fit(pair, env, p, fits) = Verdict(EntitySubType(pair[1][2], pair[2][2], p), env)
        <3>1. pair[1] \in PartsOf(type)
            BY PairsAre
        <3>2. /\ f[pair] = Verdict(EntitySubType(pair[1][2], pair[2][2], parents), env)
              /\ g[pair] = Verdict(EntitySubType(pair[1][2], pair[2][2], more), env)
            BY <2>1, <2>5
        <3>3. /\ EntitySubType(pair[1][2], pair[2][2], parents) \in BOOLEAN
              /\ EntitySubType(pair[1][2], pair[2][2], more) \in BOOLEAN
            BY SubTypeDecided
        <3>4. EntitySubType(pair[1][2], pair[2][2], parents) => EntitySubType(pair[1][2], pair[2][2], more)
            BY <2>5, <3>1
        <3> QED BY <3>2, <3>3, <3>4 DEF Verdict
    <2> HIDE DEF D, P
    <2> QED BY <2>2, <2>3, <2>4, <2>5 DEF Shapes, D
<1>5. P = D
    <2>1. size \in [D -> Nat]
        BY PairsAre
    <2>2. P \in SUBSET D
        OBVIOUS
    <2> HIDE DEF P, D, size
    <2> QED BY <1>4, <2>1, <2>2, MeasureInduction
<1> QED BY <1>1, <1>2, <1>3, <1>5

\* A scope that is kept can be tried.
LEMMA ScopeIsTried ==
    ASSUME NEW env, IsScope(env)
    PROVE  IsTried(env)
BY DEF IsScope, IsTried

\* The parts of a type of values are such.
LEMMA PartIsValueType ==
    ASSUME NEW type, IsValueType(type), NEW part \in PartsOf(type)
    PROVE  IsValueType(part)
<1>1. IsType(part) /\ PartsOf(part) \subseteq PartsOf(type)
    BY PartsAre DEF IsValueType
<1> QED BY <1>1 DEF IsValueType

\* What isAssignable() binds makes a scope that can be kept.
LEMMA BindingIsScope ==
    ASSUME NEW type, IsValueType(type), NEW to, IsSignatureType(to), NEW env, IsScope(env),
           NEW s \in Bindings(type, to, env)
    PROVE  IsScope(s)
<1>1. ASSUME NEW pair \in Pairs(type, to, env), IsA(pair[2], "Var"), s = Bind(env, pair[2][2], pair[1])
      PROVE  IsScope(s)
    <2>1. pair[1] \in PartsOf(type) /\ pair[2] \in Intos(to, env)
        BY PairsAre, ScopeIsTried
    <2>2. pair[2][2] \in {"a", "x"}
        BY <1>1, <2>1, IntosAre, ScopeIsTried
    <2>3. IsValueType(pair[1])
        BY <2>1, PartIsValueType
    <2>4. /\ DOMAIN s = DOMAIN env \union {pair[2][2]}
          /\ s[pair[2][2]] = pair[1] /\ \A n \in DOMAIN env \ {pair[2][2]} : s[n] = env[n]
        BY <1>1 DEF Bind
    <2> QED BY <2>2, <2>3, <2>4 DEF IsScope
<1>2. ASSUME NEW pair \in Pairs(type, to, env), NEW name \in {"_unit", "_entity"},
             s = Bind(env, name, pair[1][2])
      PROVE  IsScope(s)
    <2>1. DOMAIN s = DOMAIN env \union {name} /\ \A n \in DOMAIN env \ {name} : s[n] = env[n]
        BY <1>2 DEF Bind
    <2> QED BY <2>1 DEF IsScope
<1> QED BY <1>1, <1>2 DEF Bindings

\* What a decision gives: of a variable that is bound to an entity, the scope as
\* it was; of one that is freed, yes.
LEMMA AssignTyped ==
    ASSUME NEW type, IsValueType(type), NEW to, IsSignatureType(to), NEW env, IsTried(env),
           NEW parents, IsPart(parents)
    PROVE  LET decision == IsAssignable(type, to, env, parents)
           IN /\ decision.ok \in BOOLEAN
              /\ decision.scope \in {env} \union Bindings(type, to, env)
              /\ IsA(to, "Var") /\ to[2] \in DOMAIN env =>
                    /\ NamedEntity(env[to[2]]) => decision.scope = env
                    /\ \A name \in DOMAIN Parents \ DOMAIN env : env[to[2]] = Var(name) => decision.ok
<1> DEFINE D == Pairs(type, to, env)
<1>1. << type, to >> \in D
    BY AssignIs
<1>2. PICK f : /\ IsDecided(f, type, to, env, parents)
               /\ IsAssignable(type, to, env, parents) = f[<< type, to >>]
    BY AssignIs
<1>3. \A pair \in D : f[pair] = Fit(pair, env, parents, f)
    BY <1>2 DEF IsDecided
<1> DEFINE Fine(pair) == /\ f[pair].ok \in BOOLEAN
                         /\ f[pair].scope \in {env} \union Bindings(type, to, env)
                         /\ NamedEntity(pair[2]) => f[pair].scope = env
           P == {pair \in D : Fine(pair)}
           size == [pair \in D |-> Size(pair, env)]
<1>4. ASSUME NEW pair \in D, \A next \in D : size[next] < size[pair] => next \in P
      PROVE  pair \in P
    <2>1. f[pair] = Fit(pair, env, parents, f)
        BY <1>3
    <2>2. Shapes(pair, type, to, env)
        BY FitIs
    <2>3. ASSUME NEW next \in D,
                  Size(next, env) < Size(pair, env),
                  NamedEntity(pair[2]) => NamedEntity(next[2]),
                  \A p, fits : Fit(pair, env, p, fits) = fits[next]
          PROVE  Fine(pair)
        <3>1. next \in P
            BY <1>4, <2>3
        <3>2. f[pair] = f[next]
            BY <2>1, <2>3
        <3> QED BY <2>3, <3>1, <3>2
    <2>4. ASSUME NEW verdict \in Verdicts(type, to, env),
                 NamedEntity(pair[2]) => verdict.scope = env,
                 \A p, fits : Fit(pair, env, p, fits) = verdict
          PROVE  Fine(pair)
        <3>1. PICK ok \in BOOLEAN, s \in {env} \union Bindings(type, to, env) : verdict = Verdict(ok, s)
            BY DEF Verdicts
        <3>2. verdict.ok = ok /\ verdict.scope = s
            BY <3>1 DEF Verdict
        <3>3. f[pair] = verdict
            BY <2>1, <2>4
        <3> QED BY <2>4, <3>1, <3>2, <3>3
    <2>5. ASSUME \A p, fits :
                  Fit(pair, env, p, fits) = Verdict(EntitySubType(pair[1][2], pair[2][2], p), env)
          PROVE  Fine(pair)
        <3>1. f[pair] = Verdict(EntitySubType(pair[1][2], pair[2][2], parents), env)
            BY <2>1, <2>5
        <3>2. EntitySubType(pair[1][2], pair[2][2], parents) \in BOOLEAN
            BY SubTypeDecided
        <3> QED BY <3>1, <3>2 DEF Verdict
    <2> HIDE DEF D, Fine
    <2>6. Fine(pair)
        BY <2>2, <2>3, <2>4, <2>5 DEF Shapes, D
    <2> QED BY <2>6
<1>5. P = D
    <2>1. size \in [D -> Nat]
        BY PairsAre
    <2>2. P \in SUBSET D
        OBVIOUS
    <2> HIDE DEF P, D, size
    <2> QED BY <1>4, <2>1, <2>2, MeasureInduction
<1>6. Fine(<< type, to >>)
    BY <1>1, <1>5
<1>7. ASSUME IsA(to, "Var"), to[2] \in DOMAIN env
      PROVE  /\ NamedEntity(env[to[2]]) => IsAssignable(type, to, env, parents).scope = env
             /\ \A name \in DOMAIN Parents \ DOMAIN env :
                   env[to[2]] = Var(name) => IsAssignable(type, to, env, parents).ok
    <2> DEFINE next == << type, env[to[2]] >>
    <2>1. next \in D
        BY <1>1, <1>7, PairsAre
    <2>2. f[<< type, to >>] = f[next]
        BY <1>1, <1>3, <1>7 DEF Fit
    <2>3. f[next] = Fit(next, env, parents, f) /\ Fine(next)
        BY <1>3, <1>5, <2>1
    <2>4. ASSUME NEW name \in DOMAIN Parents \ DOMAIN env, env[to[2]] = Var(name)
          PROVE  f[next].ok
        <3>1. IsA(next[2], "Var") /\ next[2][2] \notin DOMAIN env
            BY <2>4 DEF IsA, Var
        <3> QED BY <2>3, <3>1 DEF Fit, Yes, Verdict
    <2> QED BY <1>2, <2>2, <2>3, <2>4
<1> QED BY <1>2, <1>6, <1>7

--------------------------------------------------------------------------------
(* What is known of the hierarchy.                                              *)

Entities == DOMAIN Parents

\* An entity has its parents, or none if a request for them failed.
IsKnown(map) == DOMAIN map \subseteq Entities /\ \A e \in DOMAIN map : map[e] \in {Parents[e], << >>}

\* The parents of an entity are a list of entities.
LEMMA ParentsAre ==
    ASSUME NEW e \in Entities
    PROVE  Parents[e] \in Seq(Entities) /\ ToSet(Parents[e]) \subseteq Entities
<1>1. Parents[e] \in Seq(Entities)
    BY HierarchyAssumption DEF Entities
<1> QED BY <1>1 DEF ToSet

\* What was loaded is part of the hierarchy, failures among it.
LEMMA KnownIsPart ==
    ASSUME NEW map, IsKnown(map)
    PROVE  IsPart(map)
<1>1. ToSet(<< >>) = {}
    BY DEF ToSet
<1> QED BY <1>1 DEF IsKnown, IsPart, Entities

\* What the loaded part says is above an entity is.
LEMMA SubTypeSound ==
    ASSUME NEW map, IsKnown(map), NEW entity, NEW other, EntitySubType(entity, other, map)
    PROVE  EntitySubType(entity, other, Parents)
<1> DEFINE T == {entity, "tt:url"} \union Entities
<1>1. IsPart(map) /\ IsPart(Parents)
    BY KnownIsPart, WholeIsPart
<1>2. \A e \in T : ToSet(ParentsIn(map, e)) \subseteq ToSet(ParentsIn(Parents, e)) \intersect T
    <2> TAKE e \in T
    <2>1. ToSet(ParentsIn(map, e)) \subseteq ToSet(ParentsIn(Parents, e))
        BY <1>1, ParentsOfPart
    <2>2. ToSet(<< "tt:url" >>) = {"tt:url"} /\ ToSet(<< >>) = {}
        BY DEF ToSet
    <2>3. ToSet(ParentsIn(Parents, e)) \subseteq T
        <3>1. CASE e \in Entities
            BY <3>1, ParentsAre DEF ParentsIn, Entities
        <3>2. CASE e \notin Entities
            BY <2>2, <3>2 DEF ParentsIn, Entities
        <3> QED BY <3>1, <3>2
    <2> QED BY <2>1, <2>3
<1>3. entity \in T
    OBVIOUS
<1> HIDE DEF T
<1> QED BY <1>1, <1>2, <1>3, SubTypeGrows

\* What is above these entities is loaded.
IsComplete(map) == \A e \in DOMAIN map : map[e] = Parents[e] /\ ToSet(Parents[e]) \subseteq DOMAIN map

\* If what is above a loaded entity is loaded, all of it is found.
LEMMA SubTypeComplete ==
    ASSUME NEW map, IsKnown(map), IsComplete(map), NEW entity \in DOMAIN map, NEW other,
           EntitySubType(entity, other, Parents)
    PROVE  EntitySubType(entity, other, map)
<1>1. IsPart(map) /\ IsPart(Parents)
    BY KnownIsPart, WholeIsPart
<1>2. \A e \in DOMAIN map : ToSet(ParentsIn(Parents, e)) \subseteq ToSet(ParentsIn(map, e)) \intersect DOMAIN map
    BY DEF ParentsIn, IsComplete, IsKnown, Entities
<1> QED BY <1>1, <1>2, SubTypeGrows

--------------------------------------------------------------------------------
(* Decisions. The entities that a type is made of are loaded, unless they are   *)
(* elements of an array.                                                        *)

\* Whatever is loaded, what is assignable by it is so by the whole hierarchy.
LEMMA DecisionSound ==
    ASSUME NEW type, IsValueType(type), NEW to, IsSignatureType(to), NEW env, IsTried(env),
           NEW map, IsKnown(map), IsAssignable(type, to, env, map).ok
    PROVE  IsAssignable(type, to, env, Parents) = IsAssignable(type, to, env, map)
<1>1. IsPart(map) /\ IsPart(Parents)
    BY KnownIsPart, WholeIsPart
<1>2. \A part \in PartsOf(type) : \A other :
         IsA(part, "Entity") /\ EntitySubType(part[2], other, map) => EntitySubType(part[2], other, Parents)
    BY SubTypeSound
<1> QED BY <1>1, <1>2, AssignGrows

\* With all of it loaded, the decision is that of the whole hierarchy.
LEMMA DecisionComplete ==
    ASSUME NEW type, IsValueType(type), NEW to, IsSignatureType(to), NEW env, IsTried(env),
           NEW map, IsKnown(map), IsComplete(map),
           \A part \in PartsOf(type) : IsA(part, "Entity") => part[2] \in DOMAIN map
    PROVE  /\ IsAssignable(type, to, env, map).ok = IsAssignable(type, to, env, Parents).ok
           /\ IsAssignable(type, to, env, map).ok =>
                 IsAssignable(type, to, env, map) = IsAssignable(type, to, env, Parents)
<1>1. IsPart(map) /\ IsPart(Parents)
    BY KnownIsPart, WholeIsPart
<1>2. \A part \in PartsOf(type) : \A other :
         IsA(part, "Entity") /\ EntitySubType(part[2], other, Parents) => EntitySubType(part[2], other, map)
    BY SubTypeComplete
<1>3. IsAssignable(type, to, env, Parents).ok =>
         IsAssignable(type, to, env, map) = IsAssignable(type, to, env, Parents)
    BY <1>1, <1>2, AssignGrows
<1>4. IsAssignable(type, to, env, map).ok =>
         IsAssignable(type, to, env, Parents) = IsAssignable(type, to, env, map)
    BY DecisionSound
<1>5. /\ IsAssignable(type, to, env, map).ok \in BOOLEAN
      /\ IsAssignable(type, to, env, Parents).ok \in BOOLEAN
    BY <1>1, AssignTyped
<1> QED BY <1>3, <1>4, <1>5

--------------------------------------------------------------------------------
(* Lists of ancestors.                                                          *)

\* Sequences in a row: of what they are of, and empty only if nothing is in them.
LEMMA ConcatenatedAre ==
    ASSUME NEW S, NEW seqs \in Seq(Seq(S))
    PROVE  /\ FlattenSeq(seqs) \in Seq(S)
           /\ seqs = << >> => FlattenSeq(seqs) = << >>
           /\ seqs # << >> /\ (\A n \in 1 .. Len(seqs) : seqs[n] # << >>) => FlattenSeq(seqs) # << >>
<1> DEFINE D == 1 .. Len(seqs)
           V == Seq(S)
           Body(f, i) == IF i = 1 THEN seqs[i] ELSE f[i - 1] \o seqs[i]
           F == [f \in [D -> V] |-> [i \in D |-> Body(f, i)]]
           Def(f) == f = [i \in D |-> Body(f, i)]
           measure == [i \in D |-> i]
<1>1. Len(seqs) \in Nat /\ \A i \in D : seqs[i] \in V
    BY ElementOfSeq
<1>2. CASE Len(seqs) = 0
    BY <1>2 DEF FlattenSeq
<1>3. CASE Len(seqs) # 0
    <2>1. \A f \in [D -> V] : \A i \in D : Body(f, i) \in V
        <3> TAKE f \in [D -> V]
        <3> TAKE i \in D
        <3>1. CASE i = 1
            BY <1>1, <3>1
        <3>2. CASE i # 1
            <4>1. i - 1 \in D
                BY <1>1, <3>2
            <4> QED BY <1>1, <3>2, <4>1, ConcatProperties
        <3> QED BY <3>1, <3>2
    <2>2. F \in [[D -> V] -> [D -> V]]
        BY <2>1
    <2>3. \A f, g \in [D -> V] : \A x \in D :
             (\A y \in D : measure[y] < measure[x] => f[y] = g[y]) => F[f][x] = F[g][x]
        <3> SUFFICES ASSUME NEW f \in [D -> V], NEW g \in [D -> V], NEW x \in D,
                            \A y \in D : measure[y] < measure[x] => f[y] = g[y]
                     PROVE  F[f][x] = F[g][x]
            OBVIOUS
        <3> HIDE DEF V
        <3>1. CASE x = 1
            BY <3>1
        <3>2. CASE x # 1
            <4>1. x - 1 \in D /\ measure[x - 1] < measure[x]
                BY <1>1, <3>2
            <4> QED BY <3>2, <4>1
        <3> QED BY <3>1, <3>2
    <2>4. V # {} /\ measure \in [D -> Nat] /\ Len(seqs) + 1 \in Nat /\ \A x \in D : measure[x] < Len(seqs) + 1
        BY <1>1, EmptySeq
    <2>5. \E f \in [D -> V] : f = F[f]
        <3>1. IsRecursion(D, V, measure, Len(seqs) + 1, F)
            <4> HIDE DEF F, D, V, measure
            <4> QED BY <2>2, <2>3, <2>4 DEF IsRecursion
        <3> HIDE DEF F, D, V, measure
        <3> QED BY <3>1, Recursion
    <2>6. \E f \in [D -> V] : Def(f)
        BY <2>5
    <2>7. Def(CHOOSE f : Def(f))
        <3> HIDE DEF Def
        <3> QED BY <2>6, Zenon
    <2> DEFINE flat == CHOOSE f : Def(f)
    <2>8. FlattenSeq(seqs) = flat[Len(seqs)]
        BY <1>3 DEF FlattenSeq
    <2> HIDE DEF flat
    <2> DEFINE P == {i \in D : flat[i] \in V /\ ((\A n \in D : seqs[n] # << >>) => flat[i] # << >>)}
    <2>9. ASSUME NEW i \in D, \A y \in D : measure[y] < measure[i] => y \in P PROVE i \in P
        <3>1. flat[i] = Body(flat, i)
            BY <2>7 DEF flat
        <3>2. CASE i = 1
            BY <1>1, <3>1, <3>2
        <3>3. CASE i # 1
            <4>1. i - 1 \in D /\ measure[i - 1] < measure[i]
                BY <1>1, <3>3
            <4>2. flat[i - 1] \in V /\ seqs[i] \in V
                BY <1>1, <2>9, <4>1
            <4>3. flat[i] = flat[i - 1] \o seqs[i]
                BY <3>1, <3>3
            <4>4. flat[i] \in V /\ (flat[i] = << >> => seqs[i] = << >>)
                BY <4>2, <4>3, ConcatProperties, ConcatEqualIffEmpty
            <4> QED BY <4>4
        <3> QED BY <3>2, <3>3
    <2>10. P = D
        <3>1. P \in SUBSET D /\ measure \in [D -> Nat]
            BY <2>4
        <3>2. \A i \in D : (\A y \in D : measure[y] < measure[i] => y \in P) => i \in P
            BY <2>9
        <3> HIDE DEF P, D, measure
        <3> QED BY <3>1, <3>2, MeasureInduction
    <2>11. Len(seqs) \in D
        BY <1>1, <1>3
    <2>12. Len(seqs) \in P
        BY <2>10, <2>11
    <2>13. seqs # << >>
        BY <1>3
    <2> QED BY <2>8, <2>12, <2>13
<1> QED BY <1>2, <1>3

\* The levels of entities are bounded.
LEMMA LevelsExist ==
    \E level \in [Entities -> Nat] : \E bound \in Nat :
       /\ \A e \in Entities : level[e] < bound
       /\ \A e \in Entities : \A p \in ToSet(Parents[e]) : p \in Entities /\ level[p] < level[e]
<1> DEFINE N == Cardinality(Entities)
<1>1. N \in Nat
    BY HierarchyAssumption, FS_CardinalityType DEF Entities
<1>2. PICK level \in [Entities -> 0 .. N] :
            \A e \in Entities : \A p \in ToSet(Parents[e]) : level[p] < level[e]
    BY HierarchyAssumption DEF Entities
<1>3. \A e \in Entities : \A p \in ToSet(Parents[e]) : p \in Entities
    BY ParentsAre
<1> HIDE DEF N
<1>4. level \in [Entities -> Nat] /\ N + 1 \in Nat /\ \A e \in Entities : level[e] < N + 1
    BY <1>1, <1>2
<1> QED BY <1>2, <1>3, <1>4

\* A list of ancestors is one of entities, and empty for those that have no parents.
IsCache(cache) ==
    \A e \in DOMAIN cache \intersect Entities :
        cache[e] \in Seq(Entities) /\ (cache[e] # << >> => Parents[e] # << >>)

\* _getEntityAncestors() gives lists of entities: for those that extend others,
\* unless what was known before says nothing.
LEMMA AncestorsAre ==
    ASSUME IsKnown(entitySubTypeMap), IsCache(cachedEntityAncestors)
    PROVE  /\ Ancestors \in [Entities -> Seq(Entities)]
           /\ \A e \in Entities : Ancestors[e] # << >> => Parents[e] # << >>
           /\ \A e \in Entities \intersect DOMAIN cachedEntityAncestors :
                 Ancestors[e] = cachedEntityAncestors[e]
           /\ \A e \in Entities \intersect DOMAIN entitySubTypeMap :
                 e \notin DOMAIN cachedEntityAncestors /\ entitySubTypeMap[e] # << >> => Ancestors[e] # << >>
<1> DEFINE D == Entities
           V == Seq(Entities)
           below(e) == IF e \in DOMAIN entitySubTypeMap THEN entitySubTypeMap[e] ELSE << >>
           lists(f, e) == [n \in DOMAIN below(e) |-> << below(e)[n] >> \o f[below(e)[n]]]
           Body(f, e) == IF e \in DOMAIN cachedEntityAncestors THEN cachedEntityAncestors[e]
                         ELSE FlattenSeq(lists(f, e))
           F == [f \in [D -> V] |-> [e \in D |-> Body(f, e)]]
           Def(f) == f = [e \in D |-> Body(f, e)]
<1>1. PICK level \in [D -> Nat], bound \in Nat :
         /\ \A e \in Entities : level[e] < bound
         /\ \A e \in Entities : \A p \in ToSet(Parents[e]) : p \in Entities /\ level[p] < level[e]
    <2>1. \E level \in [D -> Nat] : \E bound \in Nat :
             /\ \A e \in Entities : level[e] < bound
             /\ \A e \in Entities : \A p \in ToSet(Parents[e]) : p \in Entities /\ level[p] < level[e]
        BY LevelsExist
    <2> QED BY <2>1
<1>2. ASSUME NEW e \in D
      PROVE  /\ below(e) \in V /\ below(e) \in {Parents[e], << >>}
             /\ \A n \in DOMAIN below(e) : below(e)[n] \in D /\ level[below(e)[n]] < level[e]
    <2>1. below(e) \in {Parents[e], << >>}
        BY DEF IsKnown
    <2>2. Parents[e] \in V /\ << >> \in V
        BY ParentsAre, EmptySeq
    <2>3. ASSUME NEW n \in DOMAIN below(e) PROVE below(e)[n] \in D /\ level[below(e)[n]] < level[e]
        <3>1. n \in DOMAIN Parents[e] /\ below(e)[n] = Parents[e][n]
            <4> HIDE DEF below
            <4> QED BY <2>1
        <3>2. Parents[e][n] \in ToSet(Parents[e])
            BY <3>1 DEF ToSet
        <3> QED BY <1>1, <3>1, <3>2
    <2> QED BY <2>1, <2>2, <2>3
<1> HIDE DEF below
<1>3. ASSUME NEW f \in [D -> V], NEW e \in D
      PROVE  /\ lists(f, e) \in Seq(V)
             /\ lists(f, e) = << >> <=> below(e) = << >>
             /\ \A n \in 1 .. Len(lists(f, e)) : lists(f, e)[n] # << >>
    <2>1. below(e) \in V
        BY <1>2
    <2>2. Len(below(e)) \in Nat /\ DOMAIN below(e) = 1 .. Len(below(e))
        BY <2>1, LenProperties
    <2>3. ASSUME NEW n \in DOMAIN below(e)
          PROVE  << below(e)[n] >> \o f[below(e)[n]] \in V /\ << below(e)[n] >> \o f[below(e)[n]] # << >>
        <3>1. << below(e)[n] >> \in V /\ f[below(e)[n]] \in V /\ << below(e)[n] >> # << >>
            BY <1>2
        <3> QED BY <3>1, ConcatProperties, ConcatEqualIffEmpty
    <2>4. lists(f, e) \in Seq(V) /\ Len(lists(f, e)) = Len(below(e)) /\ DOMAIN lists(f, e) = 1 .. Len(below(e))
        <3>1. \A n \in 1 .. Len(below(e)) : << below(e)[n] >> \o f[below(e)[n]] \in V
            BY <2>2, <2>3
        <3> HIDE DEF V
        <3>2. lists(f, e) = [n \in 1 .. Len(below(e)) |-> << below(e)[n] >> \o f[below(e)[n]]]
            BY <2>2
        <3> QED BY <2>2, <3>1, <3>2
    <2>5. lists(f, e) = << >> <=> below(e) = << >>
        <3> HIDE DEF lists
        <3> QED BY <2>1, <2>2, <2>4, EmptySeq
    <2> QED BY <2>2, <2>3, <2>4, <2>5
<1>4. ASSUME NEW f \in [D -> V], NEW e \in D
      PROVE  /\ Body(f, e) \in V
             /\ e \notin DOMAIN cachedEntityAncestors => (Body(f, e) = << >> <=> below(e) = << >>)
    <2>1. CASE e \in DOMAIN cachedEntityAncestors
        BY <2>1 DEF IsCache
    <2>2. CASE e \notin DOMAIN cachedEntityAncestors
        <3> HIDE DEF lists, V
        <3>1. Body(f, e) = FlattenSeq(lists(f, e))
            BY <2>2
        <3>2. /\ FlattenSeq(lists(f, e)) \in V
              /\ FlattenSeq(lists(f, e)) = << >> <=> lists(f, e) = << >>
            BY <1>3, ConcatenatedAre DEF V
        <3> QED BY <1>3, <3>1, <3>2
    <2> QED BY <2>1, <2>2
<1>5. F \in [[D -> V] -> [D -> V]]
    <2> HIDE DEF Body
    <2> QED BY <1>4
<1>6. \A f, g \in [D -> V] : \A x \in D :
         (\A y \in D : level[y] < level[x] => f[y] = g[y]) => F[f][x] = F[g][x]
    <2> SUFFICES ASSUME NEW f \in [D -> V], NEW g \in [D -> V], NEW x \in D,
                        \A y \in D : level[y] < level[x] => f[y] = g[y]
                 PROVE  F[f][x] = F[g][x]
        OBVIOUS
    <2>1. lists(f, x) = lists(g, x)
        BY <1>2
    <2>2. Body(f, x) = Body(g, x)
        <3> HIDE DEF lists
        <3> QED BY <2>1
    <2> HIDE DEF Body, V
    <2> QED BY <2>2
<1>7. V # {}
    BY EmptySeq
<1>8. \E f \in [D -> V] : f = F[f]
    <2>1. IsRecursion(D, V, level, bound, F)
        <3> HIDE DEF F, D, V
        <3> QED BY <1>1, <1>5, <1>6, <1>7 DEF IsRecursion, D
    <2> HIDE DEF F, D, V
    <2> QED BY <2>1, Recursion
<1> HIDE DEF Body, V, D
<1>9. \E f \in [D -> V] : Def(f)
    BY <1>8
<1>10. Def(CHOOSE f : Def(f))
    <2> HIDE DEF Def
    <2> QED BY <1>9, Zenon
<1>11. Ancestors = CHOOSE f : Def(f)
    BY DEF Ancestors, Body, lists, below, D, Entities
<1> HIDE DEF Def
<1>12. Def(Ancestors)
    BY <1>10, <1>11
<1>13. Ancestors = [e \in D |-> Body(Ancestors, e)]
    BY <1>12 DEF Def
<1> DEFINE P == {e \in D : Ancestors[e] \in V}
<1>14. P = D
    <2>1. \A x \in D : (\A y \in D : level[y] < level[x] => y \in P) => x \in P
        <3> SUFFICES ASSUME NEW x \in D, \A y \in D : level[y] < level[x] => y \in P
                     PROVE  Ancestors[x] \in V
            OBVIOUS
        <3> DEFINE g == [e \in D |-> IF e \in P THEN Ancestors[e] ELSE << >>]
        <3>1. g \in [D -> V]
            BY <1>7, EmptySeq DEF V
        <3>2. Body(Ancestors, x) = Body(g, x)
            <4>1. \A n \in DOMAIN below(x) : Ancestors[below(x)[n]] = g[below(x)[n]]
                BY <1>2
            <4>2. lists(Ancestors, x) = lists(g, x)
                <5> HIDE DEF g
                <5> QED BY <4>1
            <4> HIDE DEF lists, g
            <4> QED BY <4>2 DEF Body
        <3>3. Body(g, x) \in V
            <4> HIDE DEF g
            <4> QED BY <1>4, <3>1
        <3> QED BY <1>13, <3>2, <3>3
    <2>2. P \in SUBSET D
        OBVIOUS
    <2> HIDE DEF P
    <2> QED BY <1>1, <2>1, <2>2, MeasureInduction
<1>15. Ancestors \in [D -> V]
    BY <1>13, <1>14
<1>16. ASSUME NEW e \in D
       PROVE  /\ e \in DOMAIN cachedEntityAncestors => Ancestors[e] = cachedEntityAncestors[e]
              /\ e \notin DOMAIN cachedEntityAncestors => (Ancestors[e] = << >> <=> below(e) = << >>)
    <2>1. Ancestors[e] = Body(Ancestors, e)
        BY <1>13
    <2>2. e \notin DOMAIN cachedEntityAncestors => (Body(Ancestors, e) = << >> <=> below(e) = << >>)
        BY <1>4, <1>15
    <2>3. e \in DOMAIN cachedEntityAncestors => Body(Ancestors, e) = cachedEntityAncestors[e]
        BY DEF Body
    <2> QED BY <2>1, <2>2, <2>3
<1>17. ASSUME NEW e \in D, Ancestors[e] # << >> PROVE Parents[e] # << >>
    <2>1. CASE e \in DOMAIN cachedEntityAncestors
        BY <1>16, <1>17, <2>1 DEF IsCache, D
    <2>2. CASE e \notin DOMAIN cachedEntityAncestors
        <3>1. below(e) # << >>
            BY <1>16, <1>17, <2>2
        <3>2. below(e) \in {Parents[e], << >>}
            BY <1>2
        <3> QED BY <3>1, <3>2
    <2> QED BY <2>1, <2>2
<1>18. ASSUME NEW e \in D, e \in DOMAIN entitySubTypeMap, e \notin DOMAIN cachedEntityAncestors,
              entitySubTypeMap[e] # << >>
       PROVE  Ancestors[e] # << >>
    <2>1. below(e) # << >>
        BY <1>18 DEF below
    <2> QED BY <1>16, <1>18, <2>1
<1> QED BY <1>15, <1>16, <1>17, <1>18 DEF D, V

\* The lists that are computed are those of the entity and of what is above it,
\* as far as it is loaded.
LEMMA ComputedAre ==
    ASSUME IsKnown(entitySubTypeMap)
    PROVE  \A e \in Entities :
              /\ Computed[e] \subseteq Entities
              /\ e \notin DOMAIN cachedEntityAncestors => e \in Computed[e]
              /\ e \in DOMAIN entitySubTypeMap /\ IsComplete(entitySubTypeMap) =>
                    Computed[e] \subseteq DOMAIN entitySubTypeMap
<1> DEFINE D == Entities
           V == SUBSET Entities
           above(e) == IF e \in DOMAIN entitySubTypeMap THEN ToSet(entitySubTypeMap[e]) ELSE {}
           Body(f, e) == IF e \in DOMAIN cachedEntityAncestors THEN {}
                         ELSE {e} \union UNION {f[p] : p \in above(e)}
           F == [f \in [D -> V] |-> [e \in D |-> Body(f, e)]]
           Def(f) == f = [e \in D |-> Body(f, e)]
<1>1. PICK level \in [D -> Nat], bound \in Nat :
         /\ \A e \in Entities : level[e] < bound
         /\ \A e \in Entities : \A p \in ToSet(Parents[e]) : p \in Entities /\ level[p] < level[e]
    <2>1. \E level \in [D -> Nat] : \E bound \in Nat :
             /\ \A e \in Entities : level[e] < bound
             /\ \A e \in Entities : \A p \in ToSet(Parents[e]) : p \in Entities /\ level[p] < level[e]
        BY LevelsExist
    <2> QED BY <2>1
<1>2. ASSUME NEW e \in D
      PROVE  \A p \in above(e) : p \in D /\ level[p] < level[e]
    <2>1. ToSet(<< >>) = {}
        BY DEF ToSet
    <2>2. above(e) \subseteq ToSet(Parents[e])
        BY <2>1 DEF IsKnown
    <2> QED BY <1>1, <2>2
<1>3. \A e \in DOMAIN entitySubTypeMap : IsComplete(entitySubTypeMap) => above(e) \subseteq DOMAIN entitySubTypeMap
    BY DEF IsComplete
<1> HIDE DEF above
<1>4. \A f \in [D -> V] : \A e \in D : Body(f, e) \in V
    BY <1>2
<1>5. F \in [[D -> V] -> [D -> V]]
    <2> HIDE DEF Body
    <2> QED BY <1>4
<1>6. \A f, g \in [D -> V] : \A x \in D :
         (\A y \in D : level[y] < level[x] => f[y] = g[y]) => F[f][x] = F[g][x]
    <2> SUFFICES ASSUME NEW f \in [D -> V], NEW g \in [D -> V], NEW x \in D,
                        \A y \in D : level[y] < level[x] => f[y] = g[y]
                 PROVE  F[f][x] = F[g][x]
        OBVIOUS
    <2>1. \A p \in above(x) : f[p] = g[p]
        BY <1>2
    <2>2. Body(f, x) = Body(g, x)
        BY <2>1
    <2> HIDE DEF Body, V
    <2> QED BY <2>2
<1>7. V # {}
    OBVIOUS
<1>8. \E f \in [D -> V] : f = F[f]
    <2>1. IsRecursion(D, V, level, bound, F)
        <3> HIDE DEF F, D, V
        <3> QED BY <1>1, <1>5, <1>6, <1>7 DEF IsRecursion, D
    <2> HIDE DEF F, D, V
    <2> QED BY <2>1, Recursion
<1> HIDE DEF Body, V, D
<1>9. \E f \in [D -> V] : Def(f)
    BY <1>8
<1>10. Def(CHOOSE f : Def(f))
    <2> HIDE DEF Def
    <2> QED BY <1>9, Zenon
<1>11. Computed = CHOOSE f : Def(f)
    BY DEF Computed, Body, above, D, Entities
<1> HIDE DEF Def
<1>12. Def(Computed)
    BY <1>10, <1>11
<1>13. Computed = [e \in D |-> Body(Computed, e)]
    BY <1>12 DEF Def
<1> DEFINE Fine(e) == /\ Computed[e] \subseteq Entities
                      /\ e \in DOMAIN entitySubTypeMap /\ IsComplete(entitySubTypeMap) =>
                            Computed[e] \subseteq DOMAIN entitySubTypeMap
           P == {e \in D : Fine(e)}
<1>14. P = D
    <2>1. \A x \in D : (\A y \in D : level[y] < level[x] => y \in P) => x \in P
        <3> SUFFICES ASSUME NEW x \in D, \A y \in D : level[y] < level[x] => y \in P
                     PROVE  Fine(x)
            OBVIOUS
        <3>1. \A p \in above(x) : Fine(p)
            BY <1>2
        <3>2. Computed[x] \subseteq {x} \union UNION {Computed[p] : p \in above(x)}
            BY <1>13 DEF Body
        <3>3. x \in Entities
            BY DEF D
        <3> QED BY <1>3, <3>1, <3>2, <3>3
    <2>2. P \in SUBSET D
        OBVIOUS
    <2> HIDE DEF P
    <2> QED BY <1>1, <2>1, <2>2, MeasureInduction
<1>15. ASSUME NEW e \in D, e \notin DOMAIN cachedEntityAncestors PROVE e \in Computed[e]
    <2>1. Computed[e] = {e} \union UNION {Computed[p] : p \in above(e)}
        BY <1>13, <1>15 DEF Body
    <2> QED BY <2>1
<1> QED BY <1>14, <1>15 DEF D

--------------------------------------------------------------------------------
(* What a use should be judged by.                                              *)

\* The types that variables may be bound to, and the scopes with these.
Values(j) == UNION {PartsOf(j.args[n]) \union {part[2] : part \in PartsOf(j.args[n])} : n \in DOMAIN j.args}
Scopes(j) ==
    {env \in UNION {[names -> Values(j)] : names \in SUBSET {"a", "x", "_unit", "_entity"}} : IsScope(env)}

\* The scopes of a use can be kept and be tried.
LEMMA ScopesAre ==
    ASSUME NEW j, IsUse(j)
    PROVE  /\ Unbound \in Scopes(j)
           /\ \A env \in Scopes(j) : IsScope(env) /\ IsTried(env)
<1>1. Unbound \in [{} -> Values(j)] /\ DOMAIN Unbound = {}
    BY DEF Unbound
<1>2. IsScope(Unbound)
    BY <1>1 DEF IsScope
<1>3. Unbound \in Scopes(j)
    BY <1>1, <1>2 DEF Scopes
<1> QED BY <1>3, ScopeIsTried DEF Scopes

\* The arguments of a use and its overloads are lists of known types.
LEMMA UsesAre ==
    ASSUME NEW j, IsUse(j)
    PROVE  /\ Len(j.args) \in Nat \ {0} /\ DOMAIN j.args = 1 .. Len(j.args)
           /\ Len(Overloads(j)) \in Nat /\ DOMAIN Overloads(j) = 1 .. Len(Overloads(j))
           /\ Overloads(j) = [o \in 1 .. Len(Overloads(j)) |-> Overloads(j)[o]]
           /\ \A n \in DOMAIN j.args :
                 /\ IsValueType(j.args[n])
                 /\ \A o \in DOMAIN Overloads(j) : IsSignatureType(Overloads(j)[o][n])
<1>1. Len(j.args) \in 1 .. 2 /\ DOMAIN j.args = 1 .. Len(j.args) /\ \A n \in DOMAIN j.args : IsValueType(j.args[n])
    BY DEF IsUse
<1>2. AreOverloads(Overloads(j), Len(j.args))
    BY OperatorsAssumption DEF IsUse, Overloads
<1> QED BY <1>1, <1>2 DEF AreOverloads

\* The types of an argument and of what the overload asks for there.
LEMMA UseIs ==
    ASSUME NEW j, IsUse(j), NEW o \in DOMAIN Overloads(j), NEW n \in 1 .. Len(j.args)
    PROVE  IsValueType(j.args[n]) /\ IsSignatureType(Overloads(j)[o][n])
BY UsesAre

\* A decision gives a scope of the use again.
LEMMA DecidedScope ==
    ASSUME NEW j, IsUse(j), NEW o \in DOMAIN Overloads(j), NEW n \in 1 .. Len(j.args),
           NEW env \in Scopes(j), NEW parents, IsPart(parents)
    PROVE  IsAssignable(j.args[n], Overloads(j)[o][n], env, parents).scope \in Scopes(j)
<1> DEFINE type == j.args[n]
           to == Overloads(j)[o][n]
           s == IsAssignable(type, to, env, parents).scope
<1>1. IsValueType(type) /\ IsSignatureType(to) /\ IsTried(env) /\ IsScope(env)
    BY UseIs, ScopesAre
<1>2. s \in {env} \union Bindings(type, to, env)
    BY <1>1, AssignTyped
<1> HIDE DEF s, to
<1> SUFFICES ASSUME s \in Bindings(type, to, env) PROVE s \in Scopes(j)
    BY <1>2 DEF s, to
<1>3. IsScope(s)
    BY <1>1, BindingIsScope
<1>4. \A part \in PartsOf(type) : part \in Values(j) /\ part[2] \in Values(j)
    <2>1. n \in DOMAIN j.args
        BY UsesAre
    <2> QED BY <2>1 DEF Values
<1>5. PICK names \in SUBSET {"a", "x", "_unit", "_entity"} : env \in [names -> Values(j)]
    BY DEF Scopes
<1>6. \E name, value : value \in Values(j) /\ s = Bind(env, name, value)
    <2>1. ASSUME NEW pair \in Pairs(type, to, env)
          PROVE  pair[1] \in Values(j) /\ pair[1][2] \in Values(j)
        BY <1>1, <1>4, <2>1, PairsAre
    <2> HIDE DEF type
    <2> QED BY <2>1 DEF Bindings
<1>7. PICK name, value : value \in Values(j) /\ s = Bind(env, name, value)
    BY <1>6
<1>8. s \in [names \union {name} -> Values(j)] /\ DOMAIN s = names \union {name}
    BY <1>5, <1>7 DEF Bind
<1>9. names \union {name} \in SUBSET {"a", "x", "_unit", "_entity"}
    BY <1>3, <1>8 DEF IsScope
<1> QED BY <1>3, <1>8, <1>9 DEF Scopes

\* What the arguments are judged by, one after the other.
LEMMA AfterIs ==
    ASSUME NEW j, IsUse(j), NEW o \in DOMAIN Overloads(j)
    PROVE  /\ After(j, o)[0] = {Unbound}
           /\ \A n \in 1 .. Len(j.args) :
                 After(j, o)[n] = UNION {ScopesAfter(j.args[n], Overloads(j)[o][n], env) :
                                            env \in After(j, o)[n - 1]}
           /\ \A n \in 0 .. Len(j.args) : After(j, o)[n] \subseteq Scopes(j)
<1> DEFINE D == 0 .. Len(j.args)
           V == SUBSET Scopes(j)
           after(n, env) == ScopesAfter(j.args[n], Overloads(j)[o][n], env)
           Body(f, n) == IF n = 0 THEN {Unbound} ELSE UNION {after(n, env) : env \in f[n - 1]}
           F == [f \in [D -> V] |-> [n \in D |-> Body(f, n)]]
           Def(f) == f = [n \in D |-> Body(f, n)]
           measure == [n \in D |-> n]
<1>1. Len(j.args) \in Nat
    BY UsesAre
<1>2. ASSUME NEW n \in D, n # 0, NEW env \in Scopes(j) PROVE after(n, env) \subseteq Scopes(j)
    <2>1. n \in 1 .. Len(j.args)
        BY <1>1, <1>2
    <2>2. IsAssignable(j.args[n], Overloads(j)[o][n], env, Parents).scope \in Scopes(j)
        BY <2>1, DecidedScope, WholeIsPart
    <2> QED BY <2>2 DEF ScopesAfter
<1> HIDE DEF after
<1>3. \A f \in [D -> V] : \A n \in D : Body(f, n) \in V
    <2> TAKE f \in [D -> V]
    <2> TAKE n \in D
    <2>1. CASE n = 0
        BY <2>1, ScopesAre
    <2>2. CASE n # 0
        <3>1. n - 1 \in D
            BY <1>1, <2>2
        <3> QED BY <1>2, <2>2, <3>1
    <2> QED BY <2>1, <2>2
<1>4. F \in [[D -> V] -> [D -> V]]
    <2> HIDE DEF Body
    <2> QED BY <1>3
<1>5. \A f, g \in [D -> V] : \A x \in D :
         (\A y \in D : measure[y] < measure[x] => f[y] = g[y]) => F[f][x] = F[g][x]
    <2> SUFFICES ASSUME NEW f \in [D -> V], NEW g \in [D -> V], NEW x \in D,
                        \A y \in D : measure[y] < measure[x] => f[y] = g[y]
                 PROVE  F[f][x] = F[g][x]
        OBVIOUS
    <2>1. x # 0 => x - 1 \in D /\ measure[x - 1] < measure[x]
        BY <1>1
    <2>2. Body(f, x) = Body(g, x)
        BY <2>1
    <2> HIDE DEF Body, V
    <2> QED BY <2>2
<1>6. V # {} /\ measure \in [D -> Nat] /\ Len(j.args) + 1 \in Nat /\ \A x \in D : measure[x] < Len(j.args) + 1
    <2>1. V # {}
        OBVIOUS
    <2>2. measure \in [D -> Nat] /\ Len(j.args) + 1 \in Nat /\ \A x \in D : measure[x] < Len(j.args) + 1
        BY <1>1
    <2> QED BY <2>1, <2>2
<1>7. \E f \in [D -> V] : f = F[f]
    <2>1. IsRecursion(D, V, measure, Len(j.args) + 1, F)
        <3> HIDE DEF F, D, V, measure
        <3> QED BY <1>4, <1>5, <1>6 DEF IsRecursion
    <2> HIDE DEF F, D, V, measure
    <2> QED BY <2>1, Recursion
<1> HIDE DEF Body, V
<1>8. \E f \in [D -> V] : Def(f)
    BY <1>7
<1>9. Def(CHOOSE f : Def(f))
    <2> HIDE DEF Def
    <2> QED BY <1>8, Zenon
<1>10. After(j, o) = CHOOSE f : Def(f)
    BY DEF After, Body, after
<1> HIDE DEF Def
<1>11. Def(After(j, o))
    BY <1>9, <1>10
<1>12. After(j, o) = [n \in D |-> Body(After(j, o), n)]
    BY <1>11 DEF Def
<1>13. After(j, o)[0] = {Unbound}
    BY <1>1, <1>12 DEF Body
<1>14. \A n \in 1 .. Len(j.args) : After(j, o)[n] = UNION {after(n, env) : env \in After(j, o)[n - 1]}
    <2> TAKE n \in 1 .. Len(j.args)
    <2>1. n \in D /\ n # 0
        BY <1>1
    <2> QED BY <1>12, <2>1 DEF Body
<1> DEFINE P == {n \in D : After(j, o)[n] \subseteq Scopes(j)}
<1>15. P = D
    <2>1. \A x \in D : (\A y \in D : measure[y] < measure[x] => y \in P) => x \in P
        <3> SUFFICES ASSUME NEW x \in D, \A y \in D : measure[y] < measure[x] => y \in P
                     PROVE  After(j, o)[x] \subseteq Scopes(j)
            OBVIOUS
        <3>1. CASE x = 0
            BY <1>13, <3>1, ScopesAre
        <3>2. CASE x # 0
            <4>1. x - 1 \in D /\ measure[x - 1] < measure[x] /\ x \in 1 .. Len(j.args)
                BY <1>1, <3>2
            <4>2. After(j, o)[x - 1] \subseteq Scopes(j)
                BY <4>1
            <4> QED BY <1>2, <1>14, <3>2, <4>1, <4>2
        <3> QED BY <3>1, <3>2
    <2>2. P \in SUBSET D /\ measure \in [D -> Nat]
        BY <1>6
    <2> HIDE DEF P, D, measure
    <2> QED BY <2>1, <2>2, MeasureInduction
<1> QED BY <1>13, <1>14, <1>15 DEF after

\* Where no scope is left, none comes back.
LEMMA NoneComesBack ==
    ASSUME NEW j, IsUse(j), NEW o \in DOMAIN Overloads(j), NEW n \in 0 .. Len(j.args), After(j, o)[n] = {}
    PROVE  After(j, o)[Len(j.args)] = {}
<1> DEFINE D == n .. Len(j.args)
           P == {m \in D : After(j, o)[m] = {}}
           measure == [m \in D |-> m]
<1>1. Len(j.args) \in Nat
    BY UsesAre
<1>2. \A m \in D : (\A y \in D : measure[y] < measure[m] => y \in P) => m \in P
    <2> SUFFICES ASSUME NEW m \in D, \A y \in D : measure[y] < measure[m] => y \in P
                 PROVE  After(j, o)[m] = {}
        OBVIOUS
    <2>1. CASE m = n
        BY <2>1
    <2>2. CASE m # n
        <3>1. m - 1 \in D /\ measure[m - 1] < measure[m] /\ m \in 1 .. Len(j.args)
            BY <1>1, <2>2
        <3>2. After(j, o)[m - 1] = {}
            BY <3>1
        <3> QED BY <3>1, <3>2, AfterIs
    <2> QED BY <2>1, <2>2
<1>3. P \in SUBSET D /\ measure \in [D -> Nat]
    BY <1>1
<1>4. P = D
    <2> HIDE DEF P, D, measure
    <2> QED BY <1>2, <1>3, MeasureInduction
<1>5. Len(j.args) \in D
    BY <1>1
<1> QED BY <1>4, <1>5

--------------------------------------------------------------------------------
(* A check that is running, and one that has ended.                             *)

Want(at, j) == Overloads(j)[at.overload][at.arg]

\* The scopes that free a variable bound to an entity that extends others.
Freed(want, env) ==
    {Bind(env, want[2], Var(name)) :
        name \in {name \in Entities : \E e \in ToSet(BoundEntity(want, env)) : Parents[e] # << >>}}
AreTried(alts, first, want, env) ==
    \E head \in first : \E rest \in Seq(Freed(want, env)) : alts = << head >> \o rest

\* What the argument names is loaded, or still to be.
IsRunning(at, j, loaded) ==
    /\ at = [state |-> "running", overload |-> at.overload, arg |-> at.arg, scope |-> at.scope,
             alts |-> at.alts, own |-> at.own, todo |-> at.todo, asking |-> at.asking]
    /\ at.overload \in DOMAIN Overloads(j) /\ at.arg \in 1 .. Len(j.args) /\ at.own \in BOOLEAN
    /\ at.scope \in After(j, at.overload)[at.arg - 1]
    /\ AreTried(at.alts, IF at.own THEN {at.scope} ELSE Freed(Want(at, j), at.scope), Want(at, j), at.scope)
    /\ at.todo \in Seq(Entities)
    /\ at.todo # << >> /\ ~at.asking => Head(at.todo) \in loaded
    /\ IsA(j.args[at.arg], "Entity") => j.args[at.arg][2] \in loaded \union ToSet(at.todo)

IsEnded(at, j) ==
    /\ at.state \in {"accepted", "rejected"} /\ at.todo = << >>
    /\ at.state = "accepted" => Fits(j)

\* It has left out nothing that would have fit.
IsExhaustive(at, j) ==
    /\ at.state = "running" =>
          /\ \A o \in 1 .. at.overload - 1 : After(j, o)[Len(j.args)] = {}
          /\ After(j, at.overload)[at.arg - 1] \subseteq {at.scope}
          /\ at.own /\ Len(at.alts) = 1 =>
                \A e \in ToSet(BoundEntity(Want(at, j), at.scope)) : Parents[e] = << >>
    /\ at.state = "rejected" => ~Fits(j)

\* A variable is bound to at most one entity.
LEMMA BoundIs ==
    ASSUME NEW want, IsSignatureType(want), NEW env, IsScope(env)
    PROVE  \/ BoundEntity(want, env) = << >> /\ ToSet(BoundEntity(want, env)) = {}
           \/ /\ IsA(want, "Var") /\ want[2] \in DOMAIN env /\ NamedEntity(env[want[2]])
              /\ env[want[2]][2] \in Entities
              /\ BoundEntity(want, env) = << env[want[2]][2] >>
              /\ ToSet(BoundEntity(want, env)) = {env[want[2]][2]}
<1>1. ToSet(<< >>) = {} /\ \A e : ToSet(<< e >>) = {e}
    BY DEF ToSet
<1>2. CASE ~(IsA(want, "Var") /\ want[2] \in DOMAIN env /\ IsA(env[want[2]], "Entity"))
    BY <1>1, <1>2 DEF BoundEntity
<1>3. CASE IsA(want, "Var") /\ want[2] \in DOMAIN env /\ IsA(env[want[2]], "Entity")
    <2>1. want[2] \in {"a", "x"}
        <3>1. want \in PartsOf(want)
            BY PartsAre DEF IsSignatureType
        <3> QED BY <1>3, <3>1 DEF IsSignatureType
    <2>2. IsValueType(env[want[2]])
        BY <1>3, <2>1 DEF IsScope
    <2>3. env[want[2]][2] \in Entities
        <3>1. env[want[2]] \in PartsOf(env[want[2]])
            BY <2>2, PartsAre DEF IsValueType
        <3> QED BY <1>3, <2>2, <3>1 DEF IsValueType, Entities
    <2>4. env[want[2]][2] # ""
        BY <2>3, HierarchyAssumption DEF Entities
    <2>5. BoundEntity(want, env) = << env[want[2]][2] >>
        BY <1>3 DEF BoundEntity
    <2> QED BY <1>1, <1>3, <2>3, <2>4, <2>5 DEF NamedEntity
<1> QED BY <1>2, <1>3

\* In a scope that frees a variable, what it stands for is a variable again.
LEMMA FreedIs ==
    ASSUME NEW want, IsSignatureType(want), NEW env, IsScope(env), NEW s \in Freed(want, env)
    PROVE  /\ IsTried(s) /\ IsA(want, "Var") /\ want[2] \in DOMAIN s
           /\ \E name \in DOMAIN Parents \ DOMAIN s : s[want[2]] = Var(name)
           /\ \E e \in ToSet(BoundEntity(want, env)) : Parents[e] # << >>
<1>1. PICK name \in Entities : /\ s = Bind(env, want[2], Var(name))
                               /\ \E e \in ToSet(BoundEntity(want, env)) : Parents[e] # << >>
    BY DEF Freed
<1>2. IsA(want, "Var") /\ want[2] \in DOMAIN env
    BY <1>1, BoundIs
<1>3. DOMAIN s = DOMAIN env
    BY <1>1, <1>2 DEF Bind
<1>4. name \notin DOMAIN env
    BY HierarchyAssumption DEF IsScope, Entities
<1>5. s[want[2]] = Var(name)
    BY <1>1, <1>2, <1>3 DEF Bind
<1>6. \A v \in DOMAIN env : v # want[2] => s[v] = env[v]
    BY <1>1, <1>3 DEF Bind
<1>7. IsTried(s)
    BY <1>3, <1>4, <1>5, <1>6 DEF IsTried, IsScope
<1> QED BY <1>1, <1>2, <1>3, <1>4, <1>5, <1>7 DEF Entities

\* There is always a scope to try, and those after the first free the variable.
LEMMA TriedIs ==
    ASSUME NEW want, NEW env, NEW alts, NEW first, AreTried(alts, first, want, env)
    PROVE  /\ Len(alts) \in Nat \ {0}
           /\ Head(alts) \in first
           /\ Len(alts) > 1 =>
                 AreTried(Tail(alts), Freed(want, env), want, env) /\ Freed(want, env) # {}
<1> DEFINE S == first \union Freed(want, env)
<1>1. PICK head \in first, rest \in Seq(Freed(want, env)) : alts = << head >> \o rest
    BY DEF AreTried
<1>2. head \in S /\ rest \in Seq(S)
    <2>1. Freed(want, env) \subseteq S
        OBVIOUS
    <2> HIDE DEF S
    <2>2. rest \in Seq(S)
        BY <1>1, <2>1, SeqMonotonic
    <2> QED BY <1>1, <2>2 DEF S
<1> HIDE DEF S
<1>3. << head >> \in Seq(S) /\ Len(<< head >>) = 1 /\ << head >>[1] = head
    BY <1>2
<1>4. /\ alts \in Seq(S) /\ Len(alts) = 1 + Len(rest) /\ Len(rest) \in Nat
      /\ \A i \in 1 .. 1 + Len(rest) : alts[i] = IF i <= 1 THEN << head >>[i] ELSE rest[i - 1]
    <2>1. Len(rest) \in Nat
        BY <1>2, LenProperties
    <2> QED BY <1>1, <1>2, <1>3, <2>1, ConcatProperties
<1>5. Head(alts) = head
    <2>1. alts[1] = head
        BY <1>3, <1>4
    <2> QED BY <1>4, <2>1
<1>6. Tail(alts) = rest
    <2>1. alts # << >>
        BY <1>4
    <2>2. /\ Tail(alts) \in Seq(S) /\ Len(Tail(alts)) = Len(rest)
          /\ \A i \in 1 .. Len(Tail(alts)) : Tail(alts)[i] = alts[i + 1]
        BY <1>4, <2>1, HeadTailProperties
    <2>3. \A i \in 1 .. Len(rest) : alts[i + 1] = rest[i]
        BY <1>4
    <2> QED BY <1>2, <2>2, <2>3, SeqEqual
<1>7. ASSUME Len(alts) > 1 PROVE AreTried(rest, Freed(want, env), want, env) /\ Freed(want, env) # {}
    <2>1. rest # << >>
        BY <1>4, <1>7
    <2>2. Head(rest) \in Freed(want, env) /\ Tail(rest) \in Seq(Freed(want, env))
        BY <1>1, <2>1, HeadTailProperties
    <2>3. rest = << Head(rest) >> \o Tail(rest)
        BY <1>1, <2>1
    <2> QED BY <2>2, <2>3 DEF AreTried
<1>8. Len(alts) \in Nat \ {0}
    BY <1>4
<1> QED BY <1>1, <1>5, <1>6, <1>7, <1>8

\* The scopes that are tried at an argument.
LEMMA ExpandedAre ==
    ASSUME NEW want, IsSignatureType(want), NEW env, IsScope(env),
           NEW ancestors \in [Entities -> Seq(Entities)],
           \A e \in Entities : ancestors[e] # << >> => Parents[e] # << >>
    PROVE  /\ AreTried(Expanded(want, env, ancestors), {env}, want, env)
           /\ Len(Expanded(want, env, ancestors)) = 1 =>
                 \A e \in ToSet(BoundEntity(want, env)) : ancestors[e] = << >>
<1> DEFINE bound == BoundEntity(want, env)
           rest == IF bound = << >> THEN << >>
                   ELSE LET above == ancestors[bound[1]]
                        IN [n \in DOMAIN above |-> Bind(env, want[2], Var(above[n]))]
<1>1. Expanded(want, env, ancestors) = << env >> \o rest
    BY DEF Expanded
<1>2. CASE bound = << >> /\ ToSet(bound) = {}
    <2>1. rest = << >> /\ << >> \in Seq(Freed(want, env))
        BY <1>2, EmptySeq
    <2> HIDE DEF rest
    <2> QED BY <1>1, <1>2, <2>1 DEF AreTried
<1>3. CASE \E e \in Entities : bound = << e >> /\ ToSet(bound) = {e}
    <2>1. PICK e \in Entities : bound = << e >> /\ ToSet(bound) = {e}
        BY <1>3
    <2> DEFINE above == ancestors[e]
    <2>2. above \in Seq(Entities) /\ Len(above) \in Nat /\ DOMAIN above = 1 .. Len(above)
        BY LenProperties
    <2>3. rest = [n \in 1 .. Len(above) |-> Bind(env, want[2], Var(above[n]))]
        BY <2>1, <2>2
    <2>4. \A n \in 1 .. Len(above) : Bind(env, want[2], Var(above[n])) \in Freed(want, env)
        <3> TAKE n \in 1 .. Len(above)
        <3>1. above[n] \in Entities /\ above # << >>
            BY <2>2
        <3>2. Parents[e] # << >>
            BY <3>1
        <3> HIDE DEF bound
        <3> QED BY <2>1, <3>1, <3>2 DEF Freed, bound
    <2> HIDE DEF rest, above
    <2>5. rest \in Seq(Freed(want, env)) /\ Len(rest) = Len(above)
        <3> DEFINE W == Freed(want, env)
                   val(n) == Bind(env, want[2], Var(above[n]))
        <3>1. rest = [n \in 1 .. Len(above) |-> val(n)] /\ \A n \in 1 .. Len(above) : val(n) \in W
            BY <2>3, <2>4
        <3> HIDE DEF W, val
        <3>2. rest \in Seq(W) /\ Len(rest) = Len(above)
            BY <2>2, <3>1
        <3> QED BY <3>2 DEF W
    <2>6. AreTried(<< env >> \o rest, {env}, want, env)
        BY <2>5 DEF AreTried
    <2>7. Len(<< env >> \o rest) = 1 + Len(above)
        <3> DEFINE S == {env} \union Freed(want, env)
        <3>1. Freed(want, env) \subseteq S /\ env \in S
            OBVIOUS
        <3> HIDE DEF S
        <3>2. rest \in Seq(S) /\ << env >> \in Seq(S) /\ Len(<< env >>) = 1
            BY <2>5, <3>1, SeqMonotonic
        <3> QED BY <2>5, <3>2, ConcatProperties
    <2>8. Len(above) = 0 => above = << >>
        BY <2>2
    <2>9. Len(<< env >> \o rest) = 1 => ancestors[e] = << >>
        BY <2>2, <2>7, <2>8 DEF above
    <2> QED BY <1>1, <2>1, <2>6, <2>9
<1> QED BY <1>2, <1>3, BoundIs

\* The scopes that follow an argument: that of the decision, and the one before
\* if the variable can be freed.
LEMMA ScopesAfterAre ==
    ASSUME NEW type, IsValueType(type), NEW want, IsSignatureType(want), NEW env, IsScope(env)
    PROVE  LET decision == IsAssignable(type, want, env, Parents)
               frees == \E e \in ToSet(BoundEntity(want, env)) : Parents[e] # << >>
           IN /\ decision.ok \in BOOLEAN
              /\ decision.ok => decision.scope \in ScopesAfter(type, want, env)
              /\ frees => env \in ScopesAfter(type, want, env) /\ decision.scope = env
              /\ \A s \in ScopesAfter(type, want, env) :
                    (decision.ok /\ s = decision.scope) \/ (frees /\ s = env)
<1> DEFINE decision == IsAssignable(type, want, env, Parents)
           bound == BoundEntity(want, env)
           frees == \E e \in ToSet(bound) : Parents[e] # << >>
<1>1. decision.ok \in BOOLEAN
    BY ScopeIsTried, WholeIsPart, AssignTyped
<1>2. frees => decision.scope = env
    <2>1. ASSUME frees PROVE IsA(want, "Var") /\ want[2] \in DOMAIN env /\ NamedEntity(env[want[2]])
        BY <2>1, BoundIs
    <2> QED BY <2>1, ScopeIsTried, WholeIsPart, AssignTyped
<1> HIDE DEF decision, bound
<1>3. ScopesAfter(type, want, env) =
          {decision.scope : ok \in {decision.ok} \intersect {TRUE}}
          \union {env : e \in {e \in ToSet(bound) : Parents[e] # << >>}}
    BY DEF ScopesAfter, decision, bound
<1>4. decision.ok => decision.scope \in ScopesAfter(type, want, env)
    <2>1. decision.ok => TRUE \in {decision.ok} \intersect {TRUE}
        BY <1>1
    <2> QED BY <1>3, <2>1
<1>5. frees => env \in ScopesAfter(type, want, env)
    BY <1>3
<1>6. \A s \in ScopesAfter(type, want, env) : (decision.ok /\ s = decision.scope) \/ (frees /\ s = env)
    <2>1. \A ok \in {decision.ok} \intersect {TRUE} : decision.ok
        BY <1>1
    <2> QED BY <1>3, <2>1
<1> QED BY <1>1, <1>2, <1>4, <1>5, <1>6 DEF decision, bound

\* What a running check decides on is of known types, and a scope that is not its
\* own frees a variable.
LEMMA RunningIs ==
    ASSUME NEW j, IsUse(j), NEW at, NEW loaded, IsRunning(at, j, loaded)
    PROVE  /\ IsValueType(j.args[at.arg]) /\ IsSignatureType(Want(at, j))
           /\ at.scope \in Scopes(j) /\ IsScope(at.scope) /\ IsTried(Head(at.alts))
           /\ ~at.own => /\ IsA(Want(at, j), "Var") /\ Want(at, j)[2] \in DOMAIN Head(at.alts)
                         /\ \E name \in DOMAIN Parents \ DOMAIN Head(at.alts) :
                               Head(at.alts)[Want(at, j)[2]] = Var(name)
                         /\ \E e \in ToSet(BoundEntity(Want(at, j), at.scope)) : Parents[e] # << >>
<1>1. at.overload \in DOMAIN Overloads(j) /\ at.arg \in 1 .. Len(j.args) /\ at.own \in BOOLEAN
    BY DEF IsRunning
<1>2. IsValueType(j.args[at.arg]) /\ IsSignatureType(Want(at, j))
    BY <1>1, UseIs DEF Want
<1>3. at.scope \in Scopes(j)
    <2>1. at.arg - 1 \in 0 .. Len(j.args)
        BY <1>1, UsesAre
    <2>2. at.scope \in After(j, at.overload)[at.arg - 1]
        BY DEF IsRunning
    <2> QED BY <1>1, <2>1, <2>2, AfterIs
<1>4. IsScope(at.scope) /\ IsTried(at.scope)
    BY <1>3, ScopesAre
<1>5. AreTried(at.alts, IF at.own THEN {at.scope} ELSE Freed(Want(at, j), at.scope), Want(at, j), at.scope)
    BY DEF IsRunning
<1>6. (at.own => Head(at.alts) = at.scope) /\ (~at.own => Head(at.alts) \in Freed(Want(at, j), at.scope))
    <2>1. Head(at.alts) \in IF at.own THEN {at.scope} ELSE Freed(Want(at, j), at.scope)
        BY <1>5, TriedIs
    <2> QED BY <1>1, <2>1
<1> QED BY <1>1, <1>2, <1>3, <1>4, <1>6, FreedIs

\* What is decided on an argument, against what is loaded, is right; and all that
\* there is to be said, if all that matters is loaded.
LEMMA DecidedIs ==
    ASSUME NEW j, IsUse(j), NEW at, NEW loaded, IsRunning(at, j, loaded), NEW map, IsKnown(map)
    PROVE  LET decision == IsAssignable(j.args[at.arg], Want(at, j), Head(at.alts), map)
               next == IF at.own THEN decision.scope ELSE at.scope
               before == After(j, at.overload)[at.arg - 1]
               after == After(j, at.overload)[at.arg]
           IN /\ decision.ok \in BOOLEAN
              /\ ~decision.ok => at.own
              /\ decision.ok => next \in after
              /\ /\ IsComplete(map) /\ before \subseteq {at.scope}
                 /\ \A part \in PartsOf(j.args[at.arg]) : IsA(part, "Entity") => part[2] \in DOMAIN map
                 => /\ decision.ok => after \subseteq {next}
                    /\ ~decision.ok => after \subseteq {at.scope}
                    /\ /\ ~decision.ok
                       /\ \A e \in ToSet(BoundEntity(Want(at, j), at.scope)) : Parents[e] = << >>
                       => after = {}
<1> DEFINE type == j.args[at.arg]
           want == Want(at, j)
           decision == IsAssignable(type, want, Head(at.alts), map)
           right == IsAssignable(type, want, at.scope, Parents)
           next == IF at.own THEN decision.scope ELSE at.scope
           before == After(j, at.overload)[at.arg - 1]
           after == After(j, at.overload)[at.arg]
           frees == \E e \in ToSet(BoundEntity(want, at.scope)) : Parents[e] # << >>
<1>1. /\ IsValueType(type) /\ IsSignatureType(want) /\ IsScope(at.scope) /\ IsTried(Head(at.alts))
      /\ IsTried(at.scope) /\ at.own \in BOOLEAN /\ (at.own => Head(at.alts) = at.scope)
    <2>1. /\ at.own \in BOOLEAN
          /\ AreTried(at.alts, IF at.own THEN {at.scope} ELSE Freed(want, at.scope), want, at.scope)
        BY DEF IsRunning
    <2>2. Head(at.alts) \in IF at.own THEN {at.scope} ELSE Freed(want, at.scope)
        BY <2>1, TriedIs
    <2>3. at.own => Head(at.alts) = at.scope
        BY <2>2
    <2> HIDE DEF want
    <2> QED BY <2>1, <2>3, RunningIs, ScopeIsTried DEF want
<1>2. decision.ok \in BOOLEAN
    BY <1>1, KnownIsPart, AssignTyped
<1>3. ASSUME ~at.own PROVE decision.ok /\ frees
    <2>1. /\ IsA(want, "Var") /\ want[2] \in DOMAIN Head(at.alts)
          /\ \E name \in DOMAIN Parents \ DOMAIN Head(at.alts) : Head(at.alts)[want[2]] = Var(name)
          /\ frees
        BY <1>3, RunningIs
    <2> HIDE DEF want, type, frees
    <2> QED BY <1>1, <2>1, KnownIsPart, AssignTyped
<1>4. /\ right.ok \in BOOLEAN
      /\ right.ok => right.scope \in ScopesAfter(type, want, at.scope)
      /\ frees => at.scope \in ScopesAfter(type, want, at.scope) /\ right.scope = at.scope
      /\ \A s \in ScopesAfter(type, want, at.scope) : (right.ok /\ s = right.scope) \/ (frees /\ s = at.scope)
    BY <1>1, ScopesAfterAre
<1>5. after = UNION {ScopesAfter(type, want, env) : env \in before}
    <2>1. at.arg \in 1 .. Len(j.args) /\ at.overload \in DOMAIN Overloads(j)
        BY DEF IsRunning
    <2> QED BY <2>1, AfterIs DEF Want
<1>6. at.scope \in before
    BY DEF IsRunning
<1>7. at.own /\ decision.ok => right = decision
    BY <1>1, DecisionSound
<1>8. ASSUME IsComplete(map), \A part \in PartsOf(type) : IsA(part, "Entity") => part[2] \in DOMAIN map, at.own
      PROVE  right.ok = decision.ok
    BY <1>1, <1>8, DecisionComplete
<1> HIDE DEF type, want, decision, right, before, after, frees
<1>9. decision.ok => next \in after
    <2>1. decision.ok => next \in ScopesAfter(type, want, at.scope)
        BY <1>1, <1>3, <1>4, <1>7
    <2> QED BY <1>5, <1>6, <2>1
<1>10. before \subseteq {at.scope} => after \subseteq ScopesAfter(type, want, at.scope)
    BY <1>5
<1>11. ASSUME IsComplete(map), before \subseteq {at.scope},
              \A part \in PartsOf(type) : IsA(part, "Entity") => part[2] \in DOMAIN map
       PROVE  /\ decision.ok => after \subseteq {next}
              /\ ~decision.ok => after \subseteq {at.scope}
              /\ ~decision.ok /\ ~frees => after = {}
    <2>1. CASE at.own
        <3>1. right.ok = decision.ok
            BY <1>8, <1>11, <2>1
        <3> QED BY <1>4, <1>7, <1>10, <1>11, <2>1, <3>1
    <2>2. CASE ~at.own
        BY <1>1, <1>3, <1>4, <1>10, <1>11, <2>2
    <2> QED BY <1>1, <2>1, <2>2
<1>12. (\A e \in ToSet(BoundEntity(want, at.scope)) : Parents[e] = << >>) => ~frees
    BY DEF frees
<1>13. ~decision.ok => at.own
    BY <1>1, <1>3
<1> QED BY <1>2, <1>9, <1>11, <1>12, <1>13 DEF type, want, decision, before, after

\* What is in two sequences in a row.
LEMMA ToSetConcat ==
    ASSUME NEW S, NEW s \in Seq(S), NEW t \in Seq(S)
    PROVE  ToSet(s \o t) = ToSet(s) \union ToSet(t)
<1>1. /\ Len(s) \in Nat /\ DOMAIN s = 1 .. Len(s) /\ Len(t) \in Nat /\ DOMAIN t = 1 .. Len(t)
      /\ DOMAIN (s \o t) = 1 .. Len(s) + Len(t)
      /\ \A i \in 1 .. Len(s) + Len(t) : (s \o t)[i] = IF i <= Len(s) THEN s[i] ELSE t[i - Len(s)]
    BY ConcatProperties, LenProperties
<1>2. \A i \in 1 .. Len(s) : i \in 1 .. Len(s) + Len(t) /\ (s \o t)[i] = s[i]
    BY <1>1
<1>3. \A i \in 1 .. Len(t) : Len(s) + i \in 1 .. Len(s) + Len(t) /\ (s \o t)[Len(s) + i] = t[i]
    <2> TAKE i \in 1 .. Len(t)
    <2>1. Len(s) + i \in 1 .. Len(s) + Len(t) /\ ~(Len(s) + i <= Len(s)) /\ (Len(s) + i) - Len(s) = i
        BY <1>1
    <2> QED BY <1>1, <2>1
<1>4. \A i \in 1 .. Len(s) + Len(t) : i \in 1 .. Len(s) \/ i - Len(s) \in 1 .. Len(t)
    BY <1>1
<1>5. ASSUME NEW x \in ToSet(s \o t) PROVE x \in ToSet(s) \union ToSet(t)
    <2> DEFINE u == s \o t
    <2>1. PICK i \in 1 .. Len(s) + Len(t) : x = u[i]
        BY <1>1, <1>5 DEF ToSet
    <2>3. \A k \in 1 .. Len(s) : u[k] = s[k]
        BY <1>2
    <2>4. \A k \in 1 .. Len(s) + Len(t) : ~(k <= Len(s)) => u[k] = t[k - Len(s)]
        BY <1>1
    <2> HIDE DEF u
    <2>2. (x = s[i] /\ i \in 1 .. Len(s)) \/ (x = t[i - Len(s)] /\ i - Len(s) \in 1 .. Len(t))
        <3>1. CASE i <= Len(s)
            <4>1. i \in 1 .. Len(s)
                BY <1>1, <3>1
            <4> QED BY <2>1, <2>3, <4>1
        <3>2. CASE ~(i <= Len(s))
            <4>1. i - Len(s) \in 1 .. Len(t)
                BY <1>1, <3>2
            <4> QED BY <2>1, <2>4, <3>2, <4>1
        <3> QED BY <3>1, <3>2
    <2> QED BY <1>1, <2>2 DEF ToSet
<1>6. ASSUME NEW x \in ToSet(s) \union ToSet(t) PROVE x \in ToSet(s \o t)
    <2>1. (\E i \in 1 .. Len(s) : x = s[i]) \/ (\E i \in 1 .. Len(t) : x = t[i])
        BY <1>1 DEF ToSet
    <2>2. \E i \in 1 .. Len(s) + Len(t) : x = (s \o t)[i]
        BY <1>2, <1>3, <2>1
    <2> QED BY <1>1, <2>2 DEF ToSet
<1> QED BY <1>5, <1>6

\* What is in a sequence: its head, and what is in its tail.
LEMMA ToSetTail ==
    ASSUME NEW S, NEW s \in Seq(S), s # << >>
    PROVE  /\ ToSet(s) = {Head(s)} \union ToSet(Tail(s)) /\ Tail(s) \in Seq(S)
           /\ Head(s) \in S /\ ToSet(Tail(s)) \subseteq S
<1>1. Head(s) \in S /\ Tail(s) \in Seq(S)
    BY HeadTailProperties
<1>2. << Head(s) >> \in Seq(S) /\ s = << Head(s) >> \o Tail(s)
    BY <1>1
<1>3. ToSet(<< Head(s) >>) = {Head(s)}
    BY DEF ToSet
<1>4. ToSet(s) = {Head(s)} \union ToSet(Tail(s))
    <2>1. ToSet(<< Head(s) >> \o Tail(s)) = ToSet(<< Head(s) >>) \union ToSet(Tail(s))
        BY <1>1, <1>2, ToSetConcat
    <2> QED BY <1>2, <1>3, <2>1
<1>5. ToSet(Tail(s)) \subseteq S
    BY <1>1, LenProperties DEF ToSet
<1> QED BY <1>1, <1>4, <1>5

--------------------------------------------------------------------------------
(* The invariant of the checks.                                                 *)

SharedIsKnown ==
    /\ IsKnown(entitySubTypeMap) /\ IsKnown(answered) /\ IsCache(cachedEntityAncestors) /\ failures \in Nat
    /\ failures = 0 =>
          /\ \A e \in DOMAIN entitySubTypeMap : entitySubTypeMap[e] = Parents[e]
          /\ \A e \in DOMAIN answered : answered[e] = Parents[e]

\* What is above a loaded entity is loaded, or is to be by some check.
AboveIsToCome ==
    failures = 0 =>
        \A e \in DOMAIN entitySubTypeMap : \A p \in ToSet(Parents[e]) :
            p \in DOMAIN entitySubTypeMap \/ \E c \in Checks : p \in ToSet(check[c].todo)

IsCheck(at, j, loaded) == IsRunning(at, j, loaded) \/ IsEnded(at, j)
ChecksAreChecks ==
    /\ check = [c \in Checks |-> check[c]]
    /\ \A c \in Checks : IsUse(job[c]) /\ IsCheck(check[c], job[c], DOMAIN entitySubTypeMap)

Alone(c) == Checks = {c} /\ failures = 0 /\ AncestorsKnown /\ ~NamesElements(job[c])
AloneIsExhaustive == \A c \in Checks : Alone(c) => IsExhaustive(check[c], job[c])

CInv == SharedIsKnown /\ AboveIsToCome /\ ChecksAreChecks /\ AloneIsExhaustive

\* An entity that a type names is in the hierarchy.
LEMMA EntityInIs ==
    /\ \A type : IsValueType(type) => /\ EntityIn(type) \in Seq(Entities)
                                      /\ IsA(type, "Entity") => type[2] \in ToSet(EntityIn(type))
    /\ \A type : IsSignatureType(type) => EntityIn(type) \in Seq(Entities)
<1>1. << >> \in Seq(Entities) /\ \A e \in Entities : << e >> \in Seq(Entities) /\ e \in ToSet(<< e >>)
    <2>1. \A e : ToSet(<< e >>) = {e}
        BY DEF ToSet
    <2> QED BY <2>1
<1>2. ASSUME NEW type, IsValueType(type), IsA(type, "Entity") PROVE type[2] \in Entities /\ type[2] # ""
    <2>1. type \in PartsOf(type)
        BY <1>2, PartsAre DEF IsValueType
    <2> QED BY <1>2, <2>1, HierarchyAssumption DEF IsValueType, Entities
<1>3. ASSUME NEW type, IsSignatureType(type), IsA(type, "Entity"), type[2] # "" PROVE type[2] \in Entities
    <2>1. type \in PartsOf(type)
        BY <1>3, PartsAre DEF IsSignatureType
    <2> QED BY <1>3, <2>1 DEF IsSignatureType, Entities
<1>4. ASSUME NEW type, IsValueType(type)
      PROVE  EntityIn(type) \in Seq(Entities) /\ (IsA(type, "Entity") => type[2] \in ToSet(EntityIn(type)))
    BY <1>1, <1>2, <1>4 DEF EntityIn
<1>5. ASSUME NEW type, IsSignatureType(type) PROVE EntityIn(type) \in Seq(Entities)
    BY <1>1, <1>3, <1>5 DEF EntityIn
<1> QED BY <1>4, <1>5

\* A check that goes to an argument, or to the next scope, is one that runs.
LEMMA TryingIs ==
    ASSUME NEW j, IsUse(j), NEW at, at = Trying(j, at.overload, at.arg, at.scope, at.alts, at.own),
           at.overload \in DOMAIN Overloads(j), at.arg \in 1 .. Len(j.args), at.own \in BOOLEAN,
           at.scope \in After(j, at.overload)[at.arg - 1],
           AreTried(at.alts, IF at.own THEN {at.scope} ELSE Freed(Want(at, j), at.scope), Want(at, j), at.scope)
    PROVE  IsRunning(at, j, DOMAIN entitySubTypeMap)
<1> DEFINE todo == EntityIn(j.args[at.arg]) \o EntityIn(Overloads(j)[at.overload][at.arg])
<1>1. at = [state |-> "running", overload |-> at.overload, arg |-> at.arg, scope |-> at.scope,
            alts |-> at.alts, own |-> at.own, todo |-> todo, asking |-> Asks(todo, DOMAIN entitySubTypeMap)]
    BY DEF Trying
<1>2. IsValueType(j.args[at.arg]) /\ IsSignatureType(Overloads(j)[at.overload][at.arg])
    BY UseIs
<1>3. /\ EntityIn(j.args[at.arg]) \in Seq(Entities)
      /\ EntityIn(Overloads(j)[at.overload][at.arg]) \in Seq(Entities)
      /\ IsA(j.args[at.arg], "Entity") => j.args[at.arg][2] \in ToSet(EntityIn(j.args[at.arg]))
    BY <1>2, EntityInIs
<1>4. /\ todo \in Seq(Entities)
      /\ IsA(j.args[at.arg], "Entity") => j.args[at.arg][2] \in ToSet(todo)
    BY <1>3, ConcatProperties, ToSetConcat
<1> HIDE DEF todo
<1>5. at.todo = todo /\ at.asking = Asks(todo, DOMAIN entitySubTypeMap) /\ at.state = "running"
    BY <1>1
<1>6. at.todo # << >> /\ ~at.asking => Head(at.todo) \in DOMAIN entitySubTypeMap
    BY <1>5 DEF Asks
<1> QED BY <1>1, <1>4, <1>5, <1>6 DEF IsRunning

\* So is one that goes to an overload.
LEMMA FirstIs ==
    ASSUME NEW j, IsUse(j), NEW o \in DOMAIN Overloads(j), NEW at, at = Trying(j, o, 1, Unbound, << Unbound >>, TRUE)
    PROVE  IsRunning(at, j, DOMAIN entitySubTypeMap)
<1>1. /\ at.overload = o /\ at.arg = 1 /\ at.scope = Unbound /\ at.alts = << Unbound >> /\ at.own = TRUE
    BY DEF Trying
<1>2. 1 \in 1 .. Len(j.args) /\ 1 - 1 = 0
    BY UsesAre
<1>3. Unbound \in After(j, o)[0]
    BY AfterIs
<1>4. AreTried(<< Unbound >>, {Unbound}, Want(at, j), Unbound)
    <2> DEFINE W == Freed(Want(at, j), Unbound)
    <2>1. << >> \in Seq(W)
        BY EmptySeq
    <2>2. << Unbound >> = << Unbound >> \o << >>
        <3>1. << Unbound >> \in Seq({Unbound})
            OBVIOUS
        <3> QED BY <3>1, ConcatEmptySeq
    <2> QED BY <2>1, <2>2 DEF AreTried
<1> QED BY <1>1, <1>2, <1>3, <1>4, TryingIs

\* The checks that are begun at the same time.
LEMMA StartedIs ==
    ASSUME NEW uses, NEW c \in DOMAIN uses, IsUse(uses[c])
    PROVE  /\ IsCheck(Started(uses)[c], uses[c], DOMAIN entitySubTypeMap)
           /\ IsExhaustive(Started(uses)[c], uses[c])
<1> DEFINE j == uses[c]
           at == Started(uses)[c]
<1>1. /\ Len(Overloads(j)) \in Nat /\ Overloads(j) = [o \in 1 .. Len(Overloads(j)) |-> Overloads(j)[o]]
      /\ Len(j.args) \in Nat \ {0}
    BY UsesAre
<1>2. CASE Overloads(j) = << >>
    <2>1. at = Ended("rejected", << >>)
        BY <1>2 DEF Started
    <2>2. at.state = "rejected" /\ at.todo = << >>
        BY <2>1 DEF Ended
    <2>3. ~Fits(j)
        BY <1>2 DEF Fits
    <2> QED BY <2>2, <2>3 DEF IsCheck, IsEnded, IsExhaustive
<1>3. CASE Overloads(j) # << >>
    <2>1. at = Trying(j, 1, 1, Unbound, << Unbound >>, TRUE)
        BY <1>3 DEF Started
    <2>2. 1 \in DOMAIN Overloads(j)
        <3>1. Len(Overloads(j)) # 0
            BY <1>1, <1>3
        <3> QED BY <1>1, <3>1
    <2>3. IsRunning(at, j, DOMAIN entitySubTypeMap)
        BY <2>1, <2>2, FirstIs
    <2>4. at.state = "running" /\ at.overload = 1 /\ at.arg = 1 /\ at.scope = Unbound
        BY <2>1 DEF Trying
    <2>5. BoundEntity(Want(at, j), Unbound) = << >> /\ ToSet(<< >>) = {}
        BY DEF BoundEntity, Unbound, ToSet
    <2>6. After(j, 1)[1 - 1] \subseteq {Unbound} /\ 1 .. 1 - 1 = {}
        BY <2>2, AfterIs
    <2> QED BY <2>3, <2>4, <2>5, <2>6 DEF IsCheck, IsExhaustive
<1> QED BY <1>2, <1>3

\* Checks begin with nothing loaded.
LEMMA ChecksInit == Init => CInv
<1> SUFFICES ASSUME Init PROVE CInv
    OBVIOUS
<1>1. job \in Jobs /\ entitySubTypeMap = << >> /\ cachedEntityAncestors = << >> /\ answered = << >>
      /\ failures = 0 /\ check = Started(job)
    BY DEF Init
<1>2. DOMAIN << >> = {}
    OBVIOUS
<1>3. SharedIsKnown /\ AboveIsToCome
    BY <1>1, <1>2 DEF SharedIsKnown, AboveIsToCome, IsKnown, IsCache
<1>4. \A c \in Checks : IsUse(job[c])
    BY <1>1, JobsAssumption DEF Checks
<1>5. check = [c \in Checks |-> check[c]]
    BY <1>1 DEF Started, Checks
<1>6. \A c \in Checks : /\ IsCheck(check[c], job[c], DOMAIN entitySubTypeMap)
                        /\ IsExhaustive(check[c], job[c])
    BY <1>1, <1>4, StartedIs DEF Checks
<1> QED BY <1>3, <1>4, <1>5, <1>6 DEF CInv, ChecksAreChecks, AloneIsExhaustive

--------------------------------------------------------------------------------
(* Loading. Only what is to be loaded changes.                                  *)

\* A check stays one that runs while it loads, and while others do.
LEMMA RunningKept ==
    ASSUME NEW j, NEW at, NEW loaded, IsRunning(at, j, loaded), NEW more, NEW next,
           next = [at EXCEPT !.todo = next.todo, !.asking = next.asking],
           next.todo \in Seq(Entities),
           next.todo # << >> /\ ~next.asking => Head(next.todo) \in more,
           loaded \union ToSet(at.todo) \subseteq more \union ToSet(next.todo)
    PROVE  /\ IsRunning(next, j, more)
           /\ IsExhaustive(at, j) => IsExhaustive(next, j)
<1>1. at = [state |-> "running", overload |-> at.overload, arg |-> at.arg, scope |-> at.scope,
            alts |-> at.alts, own |-> at.own, todo |-> at.todo, asking |-> at.asking]
    BY DEF IsRunning
<1>2. next = [state |-> "running", overload |-> at.overload, arg |-> at.arg, scope |-> at.scope,
              alts |-> at.alts, own |-> at.own, todo |-> next.todo, asking |-> next.asking]
    <2> DEFINE fields == {"state", "overload", "arg", "scope", "alts", "own", "todo", "asking"}
    <2>1. at = [f \in fields |-> at[f]] /\ at.state = "running"
        <3> DEFINE overload == at.overload
                   arg == at.arg
                   env == at.scope
                   alts == at.alts
                   own == at.own
                   todo == at.todo
                   asking == at.asking
                   old == [state |-> "running", overload |-> overload, arg |-> arg, scope |-> env,
                           alts |-> alts, own |-> own, todo |-> todo, asking |-> asking]
        <3>1. at = old
            BY <1>1
        <3> HIDE DEF overload, arg, env, alts, own, todo, asking
        <3>2. old = [f \in fields |-> old[f]] /\ old.state = "running"
            OBVIOUS
        <3> HIDE DEF old
        <3> QED BY <3>1, <3>2
    <2>2. /\ next = [f \in fields |-> next[f]] /\ next.state = "running"
          /\ next.overload = at.overload /\ next.arg = at.arg /\ next.scope = at.scope
          /\ next.alts = at.alts /\ next.own = at.own
        BY <2>1
    <2> QED BY <2>2
<1>3. /\ next.state = at.state /\ next.overload = at.overload /\ next.arg = at.arg
      /\ next.scope = at.scope /\ next.alts = at.alts /\ next.own = at.own
    BY <1>1, <1>2
<1>4. Want(next, j) = Want(at, j)
    BY <1>3 DEF Want
<1>5. IsRunning(next, j, more)
    BY <1>2, <1>3, <1>4 DEF IsRunning
<1>6. IsExhaustive(at, j) => IsExhaustive(next, j)
    BY <1>3, <1>4 DEF IsExhaustive
<1> QED BY <1>5, <1>6

\* A check is not disturbed by what others load.
LEMMA CheckGrows ==
    ASSUME NEW j, NEW at, NEW loaded, IsCheck(at, j, loaded), NEW more, loaded \subseteq more
    PROVE  IsCheck(at, j, more)
BY DEF IsCheck, IsRunning

\* A check that has something to load is running.
LEMMA BusyIsRunning ==
    ASSUME CInv, NEW c \in Checks, check[c].todo # << >>
    PROVE  /\ IsRunning(check[c], job[c], DOMAIN entitySubTypeMap)
           /\ Head(check[c].todo) \in Entities
           /\ Tail(check[c].todo) \in Seq(Entities)
           /\ ToSet(check[c].todo) = {Head(check[c].todo)} \union ToSet(Tail(check[c].todo))
<1>1. IsRunning(check[c], job[c], DOMAIN entitySubTypeMap)
    BY DEF CInv, ChecksAreChecks, IsCheck, IsEnded
<1>2. check[c].todo \in Seq(Entities)
    BY <1>1 DEF IsRunning
<1> QED BY <1>1, <1>2, ToSetTail

\* One check goes on with other things to load.
LEMMA GoesOn ==
    ASSUME CInv, NEW c \in Checks, check[c].todo # << >>, UNCHANGED << job, cachedEntityAncestors >>,
           NEW at, at = [check[c] EXCEPT !.todo = at.todo, !.asking = at.asking], check' = [check EXCEPT ![c] = at],
           at.todo \in Seq(Entities), at.todo # << >> /\ ~at.asking => Head(at.todo) \in DOMAIN entitySubTypeMap',
           SharedIsKnown', failures' = 0 => failures = 0,
           DOMAIN entitySubTypeMap \subseteq DOMAIN entitySubTypeMap',
           ToSet(check[c].todo) \subseteq DOMAIN entitySubTypeMap' \union ToSet(at.todo),
           failures' = 0 => \A e \in DOMAIN entitySubTypeMap' \ DOMAIN entitySubTypeMap :
                               ToSet(Parents[e]) \subseteq ToSet(at.todo)
    PROVE  CInv'
<1>1. Checks' = Checks /\ \A d \in Checks : check'[d] = IF d = c THEN at ELSE check[d]
    BY DEF Checks, CInv, ChecksAreChecks
<1>2. check' = [d \in Checks |-> check'[d]]
    BY <1>1 DEF CInv, ChecksAreChecks
<1>3. IsRunning(check[c], job[c], DOMAIN entitySubTypeMap)
    BY BusyIsRunning
<1>4. DOMAIN entitySubTypeMap \union ToSet(check[c].todo) \subseteq DOMAIN entitySubTypeMap' \union ToSet(at.todo)
    OBVIOUS
<1>5. /\ IsRunning(at, job[c], DOMAIN entitySubTypeMap')
      /\ IsExhaustive(check[c], job[c]) => IsExhaustive(at, job[c])
    BY <1>3, <1>4, RunningKept
<1>6. ChecksAreChecks'
    <2>1. \A d \in Checks : IsUse(job[d]) /\ IsCheck(check[d], job[d], DOMAIN entitySubTypeMap)
        BY DEF CInv, ChecksAreChecks
    <2>2. \A d \in Checks : IsCheck(check[d], job[d], DOMAIN entitySubTypeMap')
        BY <2>1, CheckGrows
    <2>3. \A d \in Checks : IsCheck(check'[d], job[d], DOMAIN entitySubTypeMap')
        BY <1>1, <1>5, <2>2 DEF IsCheck
    <2> QED BY <1>1, <1>2, <2>1, <2>3 DEF ChecksAreChecks
<1>7. AboveIsToCome'
    <2> SUFFICES ASSUME failures' = 0, NEW e \in DOMAIN entitySubTypeMap', NEW p \in ToSet(Parents[e])
                 PROVE  p \in DOMAIN entitySubTypeMap' \/ \E d \in Checks : p \in ToSet(check'[d].todo)
        BY <1>1 DEF AboveIsToCome
    <2>1. CASE e \in DOMAIN entitySubTypeMap
        <3>1. p \in DOMAIN entitySubTypeMap \/ \E d \in Checks : p \in ToSet(check[d].todo)
            BY <2>1 DEF CInv, AboveIsToCome
        <3> QED BY <1>1, <3>1
    <2>2. CASE e \notin DOMAIN entitySubTypeMap
        BY <1>1, <2>2
    <2> QED BY <2>1, <2>2
<1>8. AloneIsExhaustive'
    <2>1. \A d \in Checks : Alone(d)' => Alone(d)
        BY <1>1 DEF Alone, AncestorsKnown
    <2>2. \A d \in Checks : Alone(d) => IsExhaustive(check[d], job[d])
        BY DEF CInv, AloneIsExhaustive
    <2>3. \A d \in Checks : Alone(d)' => IsExhaustive(check'[d], job[d])
        BY <1>1, <1>5, <2>1, <2>2
    <2> QED BY <1>1, <2>3 DEF AloneIsExhaustive
<1> QED BY <1>6, <1>7, <1>8 DEF CInv

\* getEntityParents() answers: what is above the entity takes its place in the
\* list of what is to be loaded.
LEMMA LoadedOK ==
    ASSUME CInv, NEW c \in Checks, Loaded(c)
    PROVE  CInv'
<1> DEFINE e == Head(check[c].todo)
<1>1. check[c].todo # << >>
    BY DEF Loaded
<1>2. PICK parents \in Answers(e) :
         /\ failures' = IF parents # Parents[e] /\ e \notin DOMAIN answered THEN failures + 1 ELSE failures
         /\ answered' = Bind(answered, e, parents)
         /\ entitySubTypeMap' = Bind(entitySubTypeMap, e, parents)
         /\ check' = [check EXCEPT ![c].todo = parents \o Tail(check[c].todo),
                                   ![c].asking = Asks(parents \o Tail(check[c].todo),
                                                      DOMAIN entitySubTypeMap \union {e})]
         /\ UNCHANGED << job, cachedEntityAncestors >>
    BY DEF Loaded
<1>3. /\ IsRunning(check[c], job[c], DOMAIN entitySubTypeMap) /\ e \in Entities
      /\ Tail(check[c].todo) \in Seq(Entities)
      /\ ToSet(check[c].todo) = {e} \union ToSet(Tail(check[c].todo))
    BY <1>1, BusyIsRunning
<1> HIDE DEF e
<1>4. SharedIsKnown
    BY DEF CInv
<1>5. parents \in {Parents[e], << >>} /\ (failures = 0 /\ e \in DOMAIN answered => parents = Parents[e])
    BY <1>2, <1>4 DEF Answers, SharedIsKnown, IsKnown
<1>6. /\ DOMAIN entitySubTypeMap' = DOMAIN entitySubTypeMap \union {e}
      /\ \A x \in DOMAIN entitySubTypeMap' : entitySubTypeMap'[x] = IF x = e THEN parents ELSE entitySubTypeMap[x]
      /\ DOMAIN answered' = DOMAIN answered \union {e}
      /\ \A x \in DOMAIN answered' : answered'[x] = IF x = e THEN parents ELSE answered[x]
    BY <1>2 DEF Bind
<1>7. /\ failures' \in Nat /\ failures \in Nat
      /\ failures' = 0 => failures = 0 /\ parents = Parents[e]
    BY <1>2, <1>4, <1>5 DEF SharedIsKnown
<1>8. SharedIsKnown'
    <2>1. IsKnown(entitySubTypeMap)' /\ IsKnown(answered)'
        BY <1>3, <1>4, <1>5, <1>6 DEF SharedIsKnown, IsKnown, Entities
    <2>2. IsCache(cachedEntityAncestors)'
        BY <1>2, <1>4 DEF SharedIsKnown, IsCache
    <2>3. failures' = 0 =>
             /\ \A x \in DOMAIN entitySubTypeMap' : entitySubTypeMap'[x] = Parents[x]
             /\ \A x \in DOMAIN answered' : answered'[x] = Parents[x]
        BY <1>4, <1>6, <1>7 DEF SharedIsKnown
    <2> QED BY <1>7, <2>1, <2>2, <2>3 DEF SharedIsKnown
<1> DEFINE todo == parents \o Tail(check[c].todo)
           at == [check[c] EXCEPT !.todo = todo, !.asking = Asks(todo, DOMAIN entitySubTypeMap \union {e})]
<1>9. todo \in Seq(Entities) /\ ToSet(todo) = ToSet(parents) \union ToSet(Tail(check[c].todo))
    <2>1. parents \in Seq(Entities)
        BY <1>3, <1>5, ParentsAre, EmptySeq
    <2> DEFINE rest == Tail(check[c].todo)
    <2>2. rest \in Seq(Entities)
        BY <1>3
    <2> HIDE DEF rest
    <2>3. parents \o rest \in Seq(Entities)
        BY <2>1, <2>2
    <2>4. ToSet(parents \o rest) = ToSet(parents) \union ToSet(rest)
        BY <2>1, <2>2, ToSetConcat
    <2> QED BY <2>3, <2>4 DEF rest
<1> HIDE DEF todo
<1>10. check' = [check EXCEPT ![c] = at]
    <2>1. check = [d \in Checks |-> check[d]]
        BY DEF CInv, ChecksAreChecks
    <2> QED BY <1>2, <2>1 DEF todo
<1>11. at.todo = todo /\ at.asking = Asks(todo, DOMAIN entitySubTypeMap \union {e})
       /\ at = [check[c] EXCEPT !.todo = at.todo, !.asking = at.asking]
    <2>1. check[c] = [state |-> "running", overload |-> check[c].overload, arg |-> check[c].arg,
                      scope |-> check[c].scope, alts |-> check[c].alts, own |-> check[c].own,
                      todo |-> check[c].todo, asking |-> check[c].asking]
        BY <1>3 DEF IsRunning
    <2> DEFINE ch == check[c]
    <2>2. "todo" \in DOMAIN ch /\ "asking" \in DOMAIN ch
        BY <2>1
    <2> QED BY <2>2
<1> HIDE DEF at
<1>12. at.todo # << >> /\ ~at.asking => Head(at.todo) \in DOMAIN entitySubTypeMap'
    BY <1>6, <1>11 DEF Asks
<1>13. ToSet(check[c].todo) \subseteq DOMAIN entitySubTypeMap' \union ToSet(at.todo)
    BY <1>3, <1>6, <1>9, <1>11
<1>14. failures' = 0 => \A x \in DOMAIN entitySubTypeMap' \ DOMAIN entitySubTypeMap :
                           ToSet(Parents[x]) \subseteq ToSet(at.todo)
    BY <1>6, <1>7, <1>9, <1>11
<1>15. UNCHANGED << job, cachedEntityAncestors >>
    BY <1>2
<1>16. at.todo \in Seq(Entities)
    BY <1>9, <1>11
<1> QED BY <1>1, <1>6, <1>7, <1>8, <1>10, <1>11, <1>12, <1>13, <1>14, <1>15, <1>16, GoesOn

\* An entity is loaded already.
LEMMA NothingToLoadOK ==
    ASSUME CInv, NEW c \in Checks, NothingToLoad(c)
    PROVE  CInv'
<1>1. /\ check[c].todo # << >> /\ ~check[c].asking
      /\ check' = [check EXCEPT ![c].todo = Tail(@),
                                ![c].asking = Asks(Tail(check[c].todo), DOMAIN entitySubTypeMap)]
      /\ UNCHANGED << job, entitySubTypeMap, cachedEntityAncestors, answered, failures >>
    BY DEF NothingToLoad, shared
<1>2. /\ IsRunning(check[c], job[c], DOMAIN entitySubTypeMap)
      /\ Tail(check[c].todo) \in Seq(Entities)
      /\ ToSet(check[c].todo) = {Head(check[c].todo)} \union ToSet(Tail(check[c].todo))
    BY <1>1, BusyIsRunning
<1>3. Head(check[c].todo) \in DOMAIN entitySubTypeMap
    BY <1>1, <1>2 DEF IsRunning
<1> DEFINE todo == Tail(check[c].todo)
           at == [check[c] EXCEPT !.todo = todo, !.asking = Asks(todo, DOMAIN entitySubTypeMap)]
<1>4. check' = [check EXCEPT ![c] = at]
    <2>1. check = [d \in Checks |-> check[d]]
        BY DEF CInv, ChecksAreChecks
    <2> QED BY <1>1, <2>1
<1> HIDE DEF todo
<1>5. at.todo = todo /\ at.asking = Asks(todo, DOMAIN entitySubTypeMap)
      /\ at = [check[c] EXCEPT !.todo = at.todo, !.asking = at.asking]
    <2>1. check[c] = [state |-> "running", overload |-> check[c].overload, arg |-> check[c].arg,
                      scope |-> check[c].scope, alts |-> check[c].alts, own |-> check[c].own,
                      todo |-> check[c].todo, asking |-> check[c].asking]
        BY <1>2 DEF IsRunning
    <2> DEFINE ch == check[c]
    <2>2. "todo" \in DOMAIN ch /\ "asking" \in DOMAIN ch
        BY <2>1
    <2> QED BY <2>2
<1> HIDE DEF at
<1>6. at.todo # << >> /\ ~at.asking => Head(at.todo) \in DOMAIN entitySubTypeMap'
    BY <1>1, <1>5 DEF Asks
<1>7. SharedIsKnown'
    BY <1>1 DEF CInv, SharedIsKnown, IsCache, IsKnown
<1>8. UNCHANGED << job, cachedEntityAncestors >> /\ entitySubTypeMap' = entitySubTypeMap /\ failures' = failures
    BY <1>1
<1>9. at.todo \in Seq(Entities) /\ ToSet(check[c].todo) \subseteq DOMAIN entitySubTypeMap' \union ToSet(at.todo)
    BY <1>2, <1>3, <1>5, <1>8 DEF todo
<1> QED BY <1>1, <1>4, <1>5, <1>6, <1>7, <1>8, <1>9, GoesOn

--------------------------------------------------------------------------------
(* Deciding. A check that has nothing to load goes elsewhere, or ends.          *)

\* A check goes on after a decision, and no other does.
LEMMA ReplaceOK ==
    ASSUME CInv, NEW c \in Checks, check[c].todo = << >>, NEW at, check' = [check EXCEPT ![c] = at],
           UNCHANGED << job, entitySubTypeMap, answered, failures >>,
           IsCache(cachedEntityAncestors)', AncestorsKnown' => AncestorsKnown,
           IsCheck(at, job[c], DOMAIN entitySubTypeMap), Alone(c)' => IsExhaustive(at, job[c])
    PROVE  CInv'
<1>1. Checks' = Checks /\ \A d \in Checks : check'[d] = IF d = c THEN at ELSE check[d]
    BY DEF Checks, CInv, ChecksAreChecks
<1>2. check' = [d \in Checks |-> check'[d]]
    BY <1>1 DEF CInv, ChecksAreChecks
<1>3. SharedIsKnown'
    BY DEF CInv, SharedIsKnown, IsKnown
<1>4. AboveIsToCome'
    <2> SUFFICES ASSUME failures = 0, NEW e \in DOMAIN entitySubTypeMap, NEW p \in ToSet(Parents[e])
                 PROVE  p \in DOMAIN entitySubTypeMap \/ \E d \in Checks : p \in ToSet(check'[d].todo)
        BY <1>1 DEF AboveIsToCome
    <2>1. p \in DOMAIN entitySubTypeMap \/ \E d \in Checks : p \in ToSet(check[d].todo)
        BY DEF CInv, AboveIsToCome
    <2>2. ToSet(check[c].todo) = {}
        BY DEF ToSet
    <2> QED BY <1>1, <2>1, <2>2
<1>5. ChecksAreChecks'
    <2>1. \A d \in Checks : IsUse(job[d]) /\ IsCheck(check[d], job[d], DOMAIN entitySubTypeMap)
        BY DEF CInv, ChecksAreChecks
    <2>2. \A d \in Checks : IsCheck(check'[d], job[d], DOMAIN entitySubTypeMap)
        BY <1>1, <2>1
    <2> QED BY <1>1, <1>2, <2>1, <2>2 DEF ChecksAreChecks
<1>6. AloneIsExhaustive'
    <2>1. \A d \in Checks : Alone(d)' => Alone(d)
        BY <1>1 DEF Alone
    <2>2. \A d \in Checks : Alone(d) => IsExhaustive(check[d], job[d])
        BY DEF CInv, AloneIsExhaustive
    <2>3. \A d \in Checks : Alone(d)' => IsExhaustive(check'[d], job[d])
        BY <1>1, <2>1, <2>2
    <2> QED BY <1>1, <2>3 DEF AloneIsExhaustive
<1> QED BY <1>3, <1>4, <1>5, <1>6 DEF CInv

\* No earlier overload fits, and only with this scope can the arguments so far.
IsOnlyWay(j, o, n, env) ==
    /\ \A p \in 1 .. o - 1 : After(j, p)[Len(j.args)] = {}
    /\ After(j, o)[n - 1] \subseteq {env}

\* A check goes to an argument: it tries its scope, then those that free the
\* variable, unless the list of ancestors is cut short.
LEMMA AtArgumentOK ==
    ASSUME CInv, NEW c \in Checks, check[c].todo = << >>,
           NEW o \in DOMAIN Overloads(job[c]), NEW n \in 1 .. Len(job[c].args),
           NEW env \in After(job[c], o)[n - 1], AtArgument(c, o, n, env),
           UNCHANGED << job, entitySubTypeMap, answered, failures >>,
           Alone(c) => IsOnlyWay(job[c], o, n, env)
    PROVE  CInv'
<1> DEFINE j == job[c]
           want == Overloads(j)[o][n]
           alts == Expanded(want, env, Ancestors)
           at == Trying(j, o, n, env, alts, TRUE)
           bound == BoundEntity(want, env)
           cached == DOMAIN cachedEntityAncestors \union UNION {Computed[b] : b \in ToSet(bound)}
<1>1. check' = [check EXCEPT ![c] = at] /\ cachedEntityAncestors' = [e \in cached |-> Ancestors[e]]
    BY DEF AtArgument
<1>2. IsKnown(entitySubTypeMap) /\ IsCache(cachedEntityAncestors) /\ IsUse(j)
    BY DEF CInv, SharedIsKnown, ChecksAreChecks
<1>3. /\ Ancestors \in [Entities -> Seq(Entities)]
      /\ \A e \in Entities : Ancestors[e] # << >> => Parents[e] # << >>
      /\ \A e \in Entities \intersect DOMAIN cachedEntityAncestors : Ancestors[e] = cachedEntityAncestors[e]
    BY <1>2, AncestorsAre
<1>4. IsCache(cachedEntityAncestors)'
    BY <1>1, <1>3 DEF IsCache
<1>5. AncestorsKnown' => AncestorsKnown
    BY <1>1, <1>3 DEF AncestorsKnown, Entities
<1>6. IsSignatureType(want)
    BY <1>2, UseIs
<1>7. env \in Scopes(j) /\ IsScope(env)
    <2>1. n - 1 \in 0 .. Len(j.args)
        BY <1>2, UsesAre
    <2>2. env \in Scopes(j)
        BY <1>2, <2>1, AfterIs
    <2> QED BY <1>2, <2>2, ScopesAre
<1>8. /\ AreTried(alts, {env}, want, env)
      /\ Len(alts) = 1 => \A e \in ToSet(bound) : Ancestors[e] = << >>
    <2> DEFINE ancestors == Ancestors
    <2>1. ancestors \in [Entities -> Seq(Entities)]
        BY <1>3
    <2>2. \A e \in Entities : ancestors[e] # << >> => Parents[e] # << >>
        BY <1>3
    <2> HIDE DEF want, ancestors
    <2>3. /\ AreTried(Expanded(want, env, ancestors), {env}, want, env)
          /\ Len(Expanded(want, env, ancestors)) = 1 =>
                \A e \in ToSet(BoundEntity(want, env)) : ancestors[e] = << >>
        BY <1>6, <1>7, <2>1, <2>2, ExpandedAre
    <2> QED BY <2>3 DEF ancestors
<1> HIDE DEF alts
<1>9. /\ at.state = "running" /\ at.overload = o /\ at.arg = n /\ at.scope = env /\ at.alts = alts /\ at.own = TRUE
      /\ at = Trying(j, at.overload, at.arg, at.scope, at.alts, at.own)
    BY DEF Trying
<1>10. Want(at, j) = want
    BY <1>9 DEF Want
<1> HIDE DEF at
<1>11. IsRunning(at, j, DOMAIN entitySubTypeMap)
    <2>1. at.scope \in After(j, at.overload)[at.arg - 1]
        BY <1>9
    <2>2. AreTried(at.alts, IF at.own THEN {at.scope} ELSE Freed(Want(at, j), at.scope), Want(at, j), at.scope)
        <3> HIDE DEF want
        <3> QED BY <1>8, <1>9, <1>10
    <2>3. at.overload \in DOMAIN Overloads(j) /\ at.arg \in 1 .. Len(j.args) /\ at.own \in BOOLEAN
        BY <1>9
    <2> QED BY <1>2, <1>9, <2>1, <2>2, <2>3, TryingIs
<1>12. Alone(c)' => IsExhaustive(at, j)
    <2> SUFFICES ASSUME Alone(c)' PROVE IsExhaustive(at, j)
        OBVIOUS
    <2>1. Alone(c) /\ AncestorsKnown'
        BY <1>5 DEF Alone, Checks
    <2>2. ASSUME Len(alts) = 1, NEW e \in ToSet(bound) PROVE Parents[e] = << >>
        <3>1. e \in Entities
            <4> HIDE DEF want
            <4> QED BY <1>6, <1>7, <2>2, BoundIs
        <3>2. e \in cached
            <4>1. e \notin DOMAIN cachedEntityAncestors => e \in Computed[e]
                BY <1>2, <3>1, ComputedAre
            <4> HIDE DEF bound
            <4> QED BY <2>2, <4>1
        <3>3. Ancestors[e] = << >>
            BY <1>8, <2>2
        <3> HIDE DEF cached
        <3>4. e \in DOMAIN cachedEntityAncestors' /\ cachedEntityAncestors'[e] = << >>
            BY <1>1, <3>2, <3>3
        <3> QED BY <2>1, <3>1, <3>4 DEF AncestorsKnown, Entities
    <2> QED BY <1>9, <1>10, <2>1, <2>2 DEF IsExhaustive, IsOnlyWay
<1> HIDE DEF cached
<1> QED BY <1>1, <1>4, <1>5, <1>11, <1>12, ReplaceOK DEF IsCheck

\* What a lone check knows when it decides.
LEMMA AloneIs ==
    ASSUME CInv, NEW c \in Checks, check[c].state = "running", check[c].todo = << >>,
           IsComplete(entitySubTypeMap), ~NamesElements(job[c])
    PROVE  \A part \in PartsOf(job[c].args[check[c].arg]) : IsA(part, "Entity") => part[2] \in DOMAIN entitySubTypeMap
<1> DEFINE j == job[c]
           at == check[c]
<1>1. IsRunning(at, j, DOMAIN entitySubTypeMap) /\ IsUse(j)
    BY DEF CInv, ChecksAreChecks, IsCheck, IsEnded
<1>2. at.arg \in DOMAIN j.args
    BY <1>1, UsesAre DEF IsRunning
<1> TAKE part \in PartsOf(j.args[at.arg])
<1> HAVE IsA(part, "Entity")
<1>3. part = j.args[at.arg]
    BY <1>2 DEF NamesElements
<1>4. ToSet(at.todo) = {}
    BY DEF ToSet
<1>5. part[2] \in DOMAIN entitySubTypeMap \union ToSet(at.todo)
    BY <1>1, <1>3 DEF IsRunning
<1> QED BY <1>4, <1>5

\* Without failures, all that is above a loaded entity is loaded once no check
\* loads.
LEMMA LoadedIsComplete ==
    ASSUME CInv, failures = 0, \A d \in Checks : check[d].todo = << >>
    PROVE  IsComplete(entitySubTypeMap)
<1>1. \A d \in Checks : ToSet(check[d].todo) = {}
    BY DEF ToSet
<1> QED BY <1>1 DEF CInv, AboveIsToCome, SharedIsKnown, IsComplete

\* A check that goes on where the argument fits.
LEMMA GoOnOK ==
    ASSUME CInv, NEW c \in Checks, check[c].state = "running", check[c].todo = << >>,
           UNCHANGED << job, entitySubTypeMap, answered, failures >>,
           NEW next, next \in After(job[c], check[c].overload)[check[c].arg],
           Alone(c) => After(job[c], check[c].overload)[check[c].arg] \subseteq {next},
           check[c].arg < Len(job[c].args), AtArgument(c, check[c].overload, check[c].arg + 1, next)
    PROVE  CInv'
<1> DEFINE j == job[c]
           o == check[c].overload
           n == check[c].arg
<1>1. IsRunning(check[c], j, DOMAIN entitySubTypeMap) /\ IsUse(j)
    BY DEF CInv, ChecksAreChecks, IsCheck, IsEnded
<1>2. o \in DOMAIN Overloads(j) /\ n \in 1 .. Len(j.args)
    BY <1>1 DEF IsRunning
<1>3. n + 1 \in 1 .. Len(j.args) /\ (n + 1) - 1 = n
    <2>1. Len(j.args) \in Nat
        BY <1>1, UsesAre
    <2> QED BY <1>2, <2>1
<1>4. next \in After(j, o)[(n + 1) - 1]
    BY <1>3
<1>5. Alone(c) => IsOnlyWay(j, o, n + 1, next)
    <2> SUFFICES ASSUME Alone(c) PROVE IsOnlyWay(j, o, n + 1, next)
        OBVIOUS
    <2>1. IsExhaustive(check[c], j)
        BY DEF CInv, AloneIsExhaustive
    <2>2. \A p \in 1 .. o - 1 : After(j, p)[Len(j.args)] = {}
        BY <2>1 DEF IsExhaustive
    <2>3. After(j, o)[(n + 1) - 1] \subseteq {next}
        BY <1>3
    <2> QED BY <2>2, <2>3 DEF IsOnlyWay
<1>6. AtArgument(c, o, n + 1, next)
    OBVIOUS
<1> HIDE DEF j, o, n
<1> QED BY <1>2, <1>3, <1>4, <1>5, <1>6, AtArgumentOK DEF j

\* A check that ends.
LEMMA EndOK ==
    ASSUME CInv, NEW c \in Checks, check[c].todo = << >>,
           UNCHANGED << job, entitySubTypeMap, cachedEntityAncestors, answered, failures >>,
           NEW state \in {"accepted", "rejected"}, NEW types, check' = [check EXCEPT ![c] = Ended(state, types)],
           state = "accepted" => Fits(job[c]), state = "rejected" /\ Alone(c) => ~Fits(job[c])
    PROVE  CInv'
<1> DEFINE at == Ended(state, types)
<1>1. at.state = state /\ at.todo = << >>
    BY DEF Ended
<1> HIDE DEF at
<1>2. IsCheck(at, job[c], DOMAIN entitySubTypeMap)
    BY <1>1 DEF IsCheck, IsEnded
<1>3. Alone(c)' => Alone(c)
    BY DEF Alone, Checks, AncestorsKnown
<1>4. Alone(c)' => IsExhaustive(at, job[c])
    BY <1>1, <1>3 DEF IsExhaustive
<1>5. IsCache(cachedEntityAncestors)' /\ (AncestorsKnown' => AncestorsKnown)
    BY DEF CInv, SharedIsKnown, IsCache, AncestorsKnown
<1> QED BY <1>2, <1>4, <1>5, ReplaceOK DEF at, IsCache

\* A check that tries the argument with the next scope.
LEMMA TryNextOK ==
    ASSUME CInv, NEW c \in Checks, check[c].state = "running", check[c].todo = << >>,
           UNCHANGED << job, entitySubTypeMap, cachedEntityAncestors, answered, failures >>,
           Len(check[c].alts) > 1,
           check' = [check EXCEPT ![c] =
                       Trying(job[c], check[c].overload, check[c].arg, check[c].scope, Tail(check[c].alts), FALSE)]
    PROVE  CInv'
<1> DEFINE j == job[c]
           old == check[c]
           want == Want(old, j)
           at == Trying(j, old.overload, old.arg, old.scope, Tail(old.alts), FALSE)
<1>1. IsRunning(old, j, DOMAIN entitySubTypeMap) /\ IsUse(j)
    BY DEF CInv, ChecksAreChecks, IsCheck, IsEnded
<1>2. /\ at.state = "running" /\ at.overload = old.overload /\ at.arg = old.arg /\ at.scope = old.scope
      /\ at.alts = Tail(old.alts) /\ at.own = FALSE
      /\ at = Trying(j, at.overload, at.arg, at.scope, at.alts, at.own)
    BY DEF Trying
<1> HIDE DEF at
<1>3. Want(at, j) = want
    BY <1>2 DEF Want
<1>4. AreTried(Tail(old.alts), Freed(want, old.scope), want, old.scope)
    <2>1. AreTried(old.alts, IF old.own THEN {old.scope} ELSE Freed(want, old.scope), want, old.scope)
        BY <1>1 DEF IsRunning
    <2> HIDE DEF want, old
    <2> QED BY <2>1, TriedIs DEF old
<1>5. IsRunning(at, j, DOMAIN entitySubTypeMap)
    <2>1. old.overload \in DOMAIN Overloads(j) /\ old.arg \in 1 .. Len(j.args)
          /\ old.scope \in After(j, old.overload)[old.arg - 1]
        BY <1>1 DEF IsRunning
    <2> HIDE DEF want, old
    <2>2. AreTried(at.alts, IF at.own THEN {at.scope} ELSE Freed(Want(at, j), at.scope), Want(at, j), at.scope)
        BY <1>2, <1>3, <1>4
    <2>3. /\ at.overload \in DOMAIN Overloads(j) /\ at.arg \in 1 .. Len(j.args) /\ at.own \in BOOLEAN
          /\ at.scope \in After(j, at.overload)[at.arg - 1]
        BY <1>2, <2>1
    <2> QED BY <1>1, <1>2, <2>2, <2>3, TryingIs
<1>6. Alone(c)' => IsExhaustive(at, j)
    <2>1. Alone(c)' => Alone(c)
        BY DEF Alone, Checks, AncestorsKnown
    <2>2. Alone(c) => IsExhaustive(old, j)
        BY DEF CInv, AloneIsExhaustive
    <2> HIDE DEF old
    <2>3. old.state = "running"
        BY DEF old
    <2> QED BY <1>2, <2>1, <2>2, <2>3 DEF IsExhaustive
<1>7. IsCache(cachedEntityAncestors)' /\ (AncestorsKnown' => AncestorsKnown)
    BY DEF CInv, SharedIsKnown, IsCache, AncestorsKnown
<1>8. check' = [check EXCEPT ![c] = at]
    BY DEF at
<1> QED BY <1>5, <1>6, <1>7, <1>8, ReplaceOK DEF IsCheck, IsCache

\* A check decides, and goes to another overload if there is one.
LEMMA NextOverloadOK ==
    ASSUME CInv, NEW c \in Checks, check[c].state = "running", check[c].todo = << >>,
           UNCHANGED << job, entitySubTypeMap, answered, failures >>,
           Alone(c) => After(job[c], check[c].overload)[check[c].arg] = {},
           AtOverload(c, check[c].overload + 1)
    PROVE  CInv'
<1> DEFINE j == job[c]
           o == check[c].overload
           n == check[c].arg
           last == Len(Overloads(j))
<1>1. IsRunning(check[c], j, DOMAIN entitySubTypeMap) /\ IsUse(j)
    BY DEF CInv, ChecksAreChecks, IsCheck, IsEnded
<1>2. last \in Nat /\ DOMAIN Overloads(j) = 1 .. last /\ o \in 1 .. last /\ n \in 0 .. Len(j.args)
    BY <1>1, UsesAre DEF IsRunning
<1>3. Alone(c) => \A p \in 1 .. o : After(j, p)[Len(j.args)] = {}
    <2> SUFFICES ASSUME Alone(c) PROVE \A p \in 1 .. o : After(j, p)[Len(j.args)] = {}
        OBVIOUS
    <2>1. IsExhaustive(check[c], j)
        BY DEF CInv, AloneIsExhaustive
    <2>2. \A p \in 1 .. o - 1 : After(j, p)[Len(j.args)] = {}
        BY <2>1 DEF IsExhaustive
    <2>3. After(j, o)[n] = {}
        OBVIOUS
    <2> HIDE DEF o, n, j
    <2>4. After(j, o)[Len(j.args)] = {}
        BY <1>1, <1>2, <2>3, NoneComesBack
    <2>5. \A p \in 1 .. o : p = o \/ p \in 1 .. o - 1
        BY <1>2
    <2> QED BY <2>2, <2>4, <2>5
<1>4. CASE o + 1 <= last
    <2>1. AtArgument(c, o + 1, 1, Unbound)
        BY <1>4 DEF AtOverload
    <2>2. o + 1 \in 1 .. last /\ 1 \in 1 .. Len(j.args) /\ 1 - 1 = 0 /\ (o + 1) - 1 = o
        BY <1>1, <1>2, <1>4, UsesAre
    <2> HIDE DEF o, n, j, last
    <2>3. After(j, o + 1)[1 - 1] = {Unbound}
        BY <1>1, <1>2, <2>2, AfterIs
    <2>4. Alone(c) => IsOnlyWay(j, o + 1, 1, Unbound)
        BY <1>3, <2>2, <2>3 DEF IsOnlyWay
    <2> QED BY <1>2, <2>1, <2>2, <2>3, <2>4, AtArgumentOK DEF j
<1>5. CASE ~(o + 1 <= last)
    <2>1. check' = [check EXCEPT ![c] = Ended("rejected", << >>)] /\ UNCHANGED cachedEntityAncestors
        BY <1>5 DEF AtOverload
    <2>2. o = last
        BY <1>2, <1>5
    <2>3. Alone(c) => ~Fits(j)
        <3> HIDE DEF o, n, last
        <3> QED BY <1>2, <1>3, <2>2 DEF Fits
    <2>4. "rejected" \in {"accepted", "rejected"}
        OBVIOUS
    <2> QED BY <2>1, <2>3, <2>4, EndOK
<1> QED BY <1>4, <1>5

\* A check that finds no scope to go on with had looked at the argument's own.
LEMMA NextTryIs ==
    ASSUME CInv, NEW c \in Checks, check[c].state = "running", check[c].todo = << >>,
           ~Decision(c, entitySubTypeMap).ok, Len(check[c].alts) > 1
    PROVE  /\ check[c].own
           /\ Decision(c, entitySubTypeMap).scope = check[c].scope
<1> DEFINE j == job[c]
           at == check[c]
           want == Want(at, j)
           decision == IsAssignable(j.args[at.arg], want, Head(at.alts), entitySubTypeMap)
<1>1. IsRunning(at, j, DOMAIN entitySubTypeMap) /\ IsUse(j) /\ IsKnown(entitySubTypeMap)
    BY DEF CInv, ChecksAreChecks, IsCheck, IsEnded, SharedIsKnown
<1>2. decision = Decision(c, entitySubTypeMap)
    BY DEF Decision, Want
<1>3. at.own
    <2>1. ~IsAssignable(j.args[at.arg], Want(at, j), Head(at.alts), entitySubTypeMap).ok
        BY <1>2
    <2> HIDE DEF at, j
    <2> QED BY <1>1, <2>1, DecidedIs
<1>4. AreTried(at.alts, {at.scope}, want, at.scope)
    <2>1. AreTried(at.alts, IF at.own THEN {at.scope} ELSE Freed(Want(at, j), at.scope), Want(at, j), at.scope)
        BY <1>1 DEF IsRunning
    <2> HIDE DEF at, j
    <2> QED BY <1>3, <2>1
<1>5. Head(at.alts) = at.scope /\ Freed(want, at.scope) # {}
    <2> HIDE DEF want
    <2> QED BY <1>4, TriedIs
<1>6. IsValueType(j.args[at.arg]) /\ IsSignatureType(want) /\ IsScope(at.scope) /\ IsTried(at.scope)
    <2> HIDE DEF at, j
    <2> QED BY <1>1, RunningIs, ScopeIsTried
<1>7. IsA(want, "Var") /\ want[2] \in DOMAIN at.scope /\ NamedEntity(at.scope[want[2]])
    <2> HIDE DEF want
    <2>1. PICK s \in Freed(want, at.scope) : TRUE
        BY <1>5
    <2>2. \E e \in ToSet(BoundEntity(want, at.scope)) : Parents[e] # << >>
        BY <1>6, <2>1, FreedIs
    <2> QED BY <1>6, <2>2, BoundIs
<1>8. decision.scope = at.scope
    <2> DEFINE type == j.args[at.arg]
    <2>1. decision = IsAssignable(type, want, at.scope, entitySubTypeMap)
        BY <1>5
    <2>2. IsPart(entitySubTypeMap)
        BY <1>1, KnownIsPart
    <2> HIDE DEF want, type, decision
    <2> QED BY <1>6, <1>7, <2>1, <2>2, AssignTyped DEF type
<1> QED BY <1>2, <1>3, <1>8

LEMMA DecideOK ==
    ASSUME CInv, NEW c \in Checks, Decide(c)
    PROVE  CInv'
<1> DEFINE j == job[c]
           at == check[c]
           decision == Decision(c, entitySubTypeMap)
           next == IF at.own THEN decision.scope ELSE at.scope
           after == After(j, at.overload)[at.arg]
<1>1. /\ at.state = "running" /\ at.todo = << >>
      /\ UNCHANGED << job, entitySubTypeMap, answered, failures >>
    BY DEF Decide
<1>2. IsRunning(at, j, DOMAIN entitySubTypeMap) /\ IsUse(j) /\ IsKnown(entitySubTypeMap)
    BY <1>1 DEF CInv, ChecksAreChecks, IsCheck, IsEnded, SharedIsKnown
<1>3. decision = IsAssignable(j.args[at.arg], Want(at, j), Head(at.alts), entitySubTypeMap)
    BY DEF Decision, Want
<1>4. decision.ok => next \in after
    <2> HIDE DEF at, j
    <2> QED BY <1>2, <1>3, DecidedIs
<1>5. Alone(c) => /\ decision.ok => after \subseteq {next}
                  /\ ~decision.ok /\ Len(at.alts) = 1 => after = {}
    <2> SUFFICES ASSUME Alone(c)
                 PROVE  /\ decision.ok => after \subseteq {next}
                        /\ ~decision.ok /\ Len(at.alts) = 1 => after = {}
        OBVIOUS
    <2>1. IsExhaustive(at, j)
        BY DEF CInv, AloneIsExhaustive
    <2>2. IsComplete(entitySubTypeMap)
        BY <1>1, LoadedIsComplete DEF Alone
    <2>3. \A part \in PartsOf(j.args[at.arg]) : IsA(part, "Entity") => part[2] \in DOMAIN entitySubTypeMap
        BY <1>1, <2>2, AloneIs DEF Alone
    <2>4. After(j, at.overload)[at.arg - 1] \subseteq {at.scope}
        BY <1>1, <2>1 DEF IsExhaustive
    <2>5. at.own /\ Len(at.alts) = 1 => \A e \in ToSet(BoundEntity(Want(at, j), at.scope)) : Parents[e] = << >>
        BY <1>1, <2>1 DEF IsExhaustive
    <2> HIDE DEF at, j
    <2> DEFINE verdict == IsAssignable(j.args[at.arg], Want(at, j), Head(at.alts), entitySubTypeMap)
               onward == IF at.own THEN verdict.scope ELSE at.scope
    <2>6. ~verdict.ok => at.own
        BY <1>2, DecidedIs
    <2>7. verdict.ok => after \subseteq {onward}
        BY <1>2, <2>2, <2>3, <2>4, DecidedIs
    <2>8. ~verdict.ok /\ (\A e \in ToSet(BoundEntity(Want(at, j), at.scope)) : Parents[e] = << >>)
          => after = {}
        BY <1>2, <2>2, <2>3, <2>4, DecidedIs
    <2>9. verdict = decision /\ onward = next
        BY <1>3
    <2> HIDE DEF verdict, onward, decision, next, after
    <2> QED BY <2>5, <2>6, <2>7, <2>8, <2>9
<1>6. CASE decision.ok /\ at.arg < Len(j.args) /\ AtArgument(c, at.overload, at.arg + 1, next)
    BY <1>1, <1>4, <1>5, <1>6, GoOnOK
<1>7. CASE /\ decision.ok /\ at.arg = Len(j.args) /\ UNCHANGED cachedEntityAncestors
           /\ check' = [check EXCEPT ![c] = Ended("accepted", ResolvedTypes(Overloads(j)[at.overload], next))]
    <2>1. at.overload \in DOMAIN Overloads(j)
        BY <1>2 DEF IsRunning
    <2>2. Fits(j)
        BY <1>4, <1>7, <2>1 DEF Fits
    <2>3. "accepted" \in {"accepted", "rejected"}
        OBVIOUS
    <2> QED BY <1>1, <1>7, <2>2, <2>3, EndOK
<1>8. CASE /\ ~decision.ok /\ Len(at.alts) > 1 /\ UNCHANGED cachedEntityAncestors
           /\ check' = [check EXCEPT ![c] = Trying(j, at.overload, at.arg, next, Tail(at.alts), FALSE)]
    <2>1. next = at.scope
        BY <1>1, <1>8, NextTryIs
    <2> QED BY <1>1, <1>8, <2>1, TryNextOK
<1>9. CASE ~decision.ok /\ Len(at.alts) = 1 /\ AtOverload(c, at.overload + 1)
    BY <1>1, <1>5, <1>9, NextOverloadOK
<1> QED BY <1>6, <1>7, <1>8, <1>9 DEF Decide

--------------------------------------------------------------------------------
(* The theorems.                                                                *)

\* Every step of every check keeps the invariant.
LEMMA ChecksStep ==
    ASSUME CInv, [Next]_vars
    PROVE  CInv'
<1>1. CASE UNCHANGED vars
    BY <1>1 DEF vars, shared, CInv, SharedIsKnown, AboveIsToCome, ChecksAreChecks, AloneIsExhaustive,
                Checks, Alone, AncestorsKnown, IsCheck, IsRunning, IsEnded, IsExhaustive, IsKnown, IsCache
<1>2. ASSUME NEW c \in Checks, Step(c) PROVE CInv'
    BY <1>2, LoadedOK, NothingToLoadOK, DecideOK DEF Step
<1> QED BY <1>1, <1>2 DEF Next

\* An invariant, whatever the verdict was founded on.
LEMMA VerdictFromInvariant == CInv => VerdictIsRight
<1> SUFFICES ASSUME CInv, NEW c \in Checks
             PROVE  /\ check[c].state = "accepted" => Fits(job[c])
                    /\ (/\ check[c].state = "rejected"
                        /\ Checks = {c} /\ failures = 0 /\ AncestorsKnown
                        /\ ~NamesElements(job[c])) => ~Fits(job[c])
    BY DEF VerdictIsRight
<1>1. IsCheck(check[c], job[c], DOMAIN entitySubTypeMap)
    BY DEF CInv, ChecksAreChecks
<1>2. check[c].state = "accepted" => Fits(job[c])
    BY <1>1 DEF IsCheck, IsRunning, IsEnded
<1>3. Alone(c) => IsExhaustive(check[c], job[c])
    BY DEF CInv, AloneIsExhaustive
<1> QED BY <1>2, <1>3 DEF Alone, IsExhaustive

\* What it says of a check that is about to decide.
LEMMA MisleadsFromInvariant == CInv => OnlyLoadingMisleads
<1> SUFFICES ASSUME CInv PROVE OnlyLoadingMisleads
    OBVIOUS
<1>0. failures \in Nat
    BY DEF CInv, SharedIsKnown
<1> SUFFICES ASSUME NEW c \in Checks, check[c].state = "running", check[c].todo = << >>,
                    \A d \in Checks \ {c} : check[d].todo = << >>, failures = 0, ~NamesElements(job[c])
             PROVE  Decision(c, entitySubTypeMap).ok = Decision(c, Parents).ok
    BY <1>0 DEF OnlyLoadingMisleads
<1> DEFINE j == job[c]
           at == check[c]
<1>1. \A d \in Checks : check[d].todo = << >>
    OBVIOUS
<1>2. IsComplete(entitySubTypeMap)
    BY <1>1, LoadedIsComplete
<1>3. \A part \in PartsOf(j.args[at.arg]) : IsA(part, "Entity") => part[2] \in DOMAIN entitySubTypeMap
    BY <1>2, AloneIs
<1>4. IsRunning(at, j, DOMAIN entitySubTypeMap) /\ IsUse(j) /\ IsKnown(entitySubTypeMap)
    BY DEF CInv, ChecksAreChecks, IsCheck, IsEnded, SharedIsKnown
<1>5. /\ Decision(c, entitySubTypeMap) = IsAssignable(j.args[at.arg], Want(at, j), Head(at.alts), entitySubTypeMap)
      /\ Decision(c, Parents) = IsAssignable(j.args[at.arg], Want(at, j), Head(at.alts), Parents)
    BY DEF Decision, Want
<1> HIDE DEF j, at
<1>6. IsValueType(j.args[at.arg]) /\ IsSignatureType(Want(at, j)) /\ IsTried(Head(at.alts))
    BY <1>4, RunningIs
<1> QED BY <1>2, <1>3, <1>4, <1>5, <1>6, DecisionComplete

\* Of uses of operators that are checked at the same time, as many as there may be:
\* none is accepted that the whole hierarchy does not justify, a check alone accepts
\* all that it justifies, and only what others are loading misleads a check.
THEOREM ChecksAreRight == Spec => [](VerdictIsRight /\ OnlyLoadingMisleads)
<1>1. Init => CInv
    BY ChecksInit
<1>2. CInv /\ [Next]_vars => CInv'
    BY ChecksStep
<1>3. CInv => VerdictIsRight /\ OnlyLoadingMisleads
    BY VerdictFromInvariant, MisleadsFromInvariant
<1> QED BY <1>1, <1>2, <1>3, PTL DEF Spec

--------------------------------------------------------------------------------
(* What operators check is of known types.                                      *)

\* A type without parts, variables and entities is one of values.
LEMMA ScalarIs ==
    ASSUME NEW type, Len(type) \in Nat \ {0}, type = [n \in 1 .. Len(type) |-> type[n]],
           type[1] \notin {"Array", "Var", "Entity"}
    PROVE  IsValueType(type)
<1>1. 1 \in 1 .. Len(type) /\ 1 .. 1 - 1 = {}
    OBVIOUS
<1>2. IsType(type)
    BY <1>1 DEF IsType
<1>3. \A part \in PartsOf(type) : part[1] = type[1]
    <2> TAKE part \in PartsOf(type)
    <2>1. PICK n \in DOMAIN type : part = SubSeq(type, n, Len(type)) /\ \A m \in 1 .. n - 1 : type[m] = "Array"
        BY DEF PartsOf
    <2>2. DOMAIN type = 1 .. Len(type)
        OBVIOUS
    <2>3. n = 1
        <3>1. n # 1 => 1 \in 1 .. n - 1
            BY <2>2
        <3> QED BY <2>1, <3>1
    <2>4. SubSeq(type, 1, Len(type))[1] = type[1]
        BY <1>1
    <2> QED BY <2>1, <2>3, <2>4
<1> QED BY <1>2, <1>3 DEF IsValueType, IsA

\* A measure is a type of values, whatever its unit.
LEMMA MeasureIs ==
    ASSUME NEW unit
    PROVE  IsValueType(Measure(unit))
<1> DEFINE type == << "Measure", unit >>
<1>1. Len(type) = 2 /\ type[1] = "Measure" /\ type = [n \in 1 .. 2 |-> type[n]]
    OBVIOUS
<1> HIDE DEF type
<1>2. IsValueType(type)
    BY <1>1, ScalarIs
<1> QED BY <1>2 DEF type, Measure

\* The types that operators give.
LEMMA ScalarsAre ==
    /\ IsValueType(Number) /\ IsValueType(Boolean) /\ IsValueType(Currency) /\ IsValueType(AnyMeasure)
    /\ IsValueType(AnyType)
<1>1. \A c : Len(<< c >>) = 1 /\ << c >>[1] = c /\ << c >> = [n \in 1 .. 1 |-> << c >>[n]]
    OBVIOUS
<1>2. \A c : c \notin {"Array", "Var", "Entity"} => IsValueType(<< c >>)
    <2> TAKE c
    <2> DEFINE type == << c >>
    <2>1. Len(type) = 1 /\ type[1] = c /\ type = [n \in 1 .. 1 |-> type[n]]
        BY <1>1
    <2> HIDE DEF type
    <2> QED BY <2>1, ScalarIs DEF type
<1>3. IsValueType(AnyMeasure)
    BY MeasureIs DEF AnyMeasure
<1> QED BY <1>2, <1>3 DEF Number, Boolean, Currency, AnyType

\* An overload of an aggregation has an argument and a result.
LEMMA AggregationsAre ==
    ASSUME NEW operator \in DOMAIN Aggregations
    PROVE  \A o \in DOMAIN Aggregations[operator] :
              /\ DOMAIN Aggregations[operator][o] = 1 .. 2 /\ Len(Aggregations[operator][o]) = 2
              /\ IsValueType(Aggregations[operator][o][2])
<1>1. Aggregations[operator] = OfField \/ Aggregations[operator] = << << AnyType, Number >> >>
    BY DEF Aggregations
<1>2. \A o \in DOMAIN OfField :
         DOMAIN OfField[o] = 1 .. 2 /\ Len(OfField[o]) = 2 /\ OfField[o][2] \in {Number, Currency, AnyMeasure}
    BY DEF OfField
<1> QED BY <1>1, <1>2, ScalarsAre

\* There is an operator "==".
LEMMA EqualityIs == "==" \in DOMAIN Operators("filter")
BY DEF Operators, BinaryOps

--------------------------------------------------------------------------------
(* Signatures of known types.                                                   *)

HasTypes(arg) == IsValueType(arg.type) /\ \A path \in DOMAIN arg.fields : IsValueType(arg.fields[path])
IsTyped(f) == AreTyped(f.args) /\ AreTyped(f.extends)

\* Arguments of known types are so one by one.
LEMMA TypedAre ==
    ASSUME NEW args
    PROVE  AreTyped(args) <=> \A n \in DOMAIN args : HasTypes(args[n])
BY DEF AreTyped, HasTypes

\* A field as an argument is of the type that the compound has for it.
LEMMA FieldTyped ==
    ASSUME NEW args, Shaped(args), AreTyped(args), NEW n \in DOMAIN args, NEW path \in DOMAIN args[n].fields
    PROVE  HasTypes(Field(args[n], path))
<1> DEFINE arg == args[n]
           inside == {SubSeq(p, Len(path) + 1, Len(p)) :
                         p \in {p \in DOMAIN arg.fields : IsStrictPrefix(path, p)}}
           field == Field(arg, path)
<1>1. \A q \in DOMAIN field.fields : path \o q \in DOMAIN arg.fields
    BY FieldIs
<1>2. DOMAIN arg = {"name", "is_input", "type", "fields"}
    BY DEF Shaped
<1>3. field = [arg EXCEPT !.name = @ \o path, !.type = arg.fields[path],
                          !.fields = [p \in inside |-> arg.fields[path \o p]]]
    BY DEF Field
<1> HIDE DEF inside, field
<1>4. field.type = arg.fields[path] /\ field.fields = [p \in inside |-> arg.fields[path \o p]]
    BY <1>2, <1>3
<1>5. \A q \in DOMAIN field.fields : field.fields[q] = arg.fields[path \o q]
    BY <1>4
<1>6. \A p \in DOMAIN arg.fields : IsValueType(arg.fields[p])
    BY DEF AreTyped
<1> QED BY <1>1, <1>4, <1>5, <1>6 DEF HasTypes, field

\* _flattenCompoundArguments()
LEMMA FlattenTyped ==
    ASSUME NEW args, Shaped(args), AreTyped(args)
    PROVE  AreTyped(FlattenCompoundArguments(args))
<1> DEFINE fields == UNION {{Field(args[n], path) : path \in DOMAIN args[n].fields} : n \in DOMAIN args}
           added == [name \in {field.name : field \in fields} |-> CHOOSE field \in fields : field.name = name]
           flat == FlattenCompoundArguments(args)
<1>1. flat = With(args, added)
    BY DEF FlattenCompoundArguments
<1>2. \A field \in fields : HasTypes(field)
    <2> SUFFICES ASSUME NEW n \in DOMAIN args, NEW path \in DOMAIN args[n].fields
                 PROVE  HasTypes(Field(args[n], path))
        OBVIOUS
    <2> QED BY FieldTyped
<1>3. \A name \in DOMAIN added : added[name] \in fields
    <2> HIDE DEF fields
    <2> QED OBVIOUS
<1> HIDE DEF fields, added, flat
<1>4. /\ DOMAIN flat = DOMAIN args \union DOMAIN added
      /\ \A n \in DOMAIN args : flat[n] = args[n]
      /\ \A n \in DOMAIN added \ DOMAIN args : flat[n] = added[n]
    <2>1. /\ DOMAIN With(args, added) = DOMAIN args \union DOMAIN added
          /\ \A n \in DOMAIN args : With(args, added)[n] = args[n]
          /\ \A n \in DOMAIN added \ DOMAIN args : With(args, added)[n] = added[n]
        BY WithIs, Zenon
    <2> QED BY <1>1, <2>1
<1>5. \A n \in DOMAIN args : HasTypes(args[n])
    BY TypedAre
<1> QED BY <1>2, <1>3, <1>4, <1>5, TypedAre DEF flat

\* _cloneInternal()
LEMMA CloneTyped ==
    ASSUME NEW f, IsSignature(f), NEW args, Shaped(args), AreTyped(args), NEW extends, AreTyped(extends),
           NEW c, c = CloneWith(f, args, extends)
    PROVE  IsTyped(c)
<1>1. DOMAIN f.annotations = {"require_filter", "default_projection", "minimal_projection"}
    BY DEF IsSignature
<1>2. c.args = FlattenCompoundArguments(args) /\ c.extends = extends
    <2>1. Clones(c, f, args, extends)
        BY <1>1, CloneIs
    <2> QED BY <2>1 DEF Clones
<1> QED BY <1>2, FlattenTyped DEF IsTyped

\* clone()
LEMMA CloneDefTyped ==
    ASSUME NEW f, IsSignature(f), IsTyped(f)
    PROVE  /\ IsTyped(CloneDef(f))
           /\ DOMAIN CloneDef(f) =
                 {"functionType", "class", "extends", "qualifiers", "annotations", "args", "is_list",
                  "is_monitorable", "require_filter", "default_projection", "minimal_projection"}
<1>1. CloneDef(f) = CloneWith(f, f.args, f.extends)
    BY DEF CloneDef
<1>2. Shaped(f.args) /\ AreTyped(f.args) /\ AreTyped(f.extends)
    BY DEF IsSignature, Shaped, AreArguments, Name, IsTyped
<1> QED BY <1>1, <1>2, CloneTyped, CloneDefIs DEF IsSignature

\* What is changed of a signature other than its arguments.
LEMMA FilteredTyped ==
    ASSUME NEW f, IsSignature(f), IsTyped(f)
    PROVE  IsTyped(Filtered(f))
<1> DEFINE clone == CloneDef(f)
           c == Filtered(f)
<1>1. IsTyped(clone) /\ DOMAIN clone =
                 {"functionType", "class", "extends", "qualifiers", "annotations", "args", "is_list",
                  "is_monitorable", "require_filter", "default_projection", "minimal_projection"}
    BY CloneDefTyped
<1>2. c = [clone EXCEPT !.require_filter = FALSE, !.annotations.require_filter = FALSE]
    BY DEF Filtered
<1> HIDE DEF clone, c
<1>3. c.args = clone.args /\ c.extends = clone.extends
    BY <1>1, <1>2
<1> QED BY <1>1, <1>3 DEF IsTyped, c

\* asQuery() and the like
LEMMA AsTypeTyped ==
    ASSUME NEW f, IsSignature(f), IsTyped(f), NEW functionType
    PROVE  IsTyped(AsType(f, functionType))
<1> DEFINE clone == CloneDef(f)
           c == AsType(f, functionType)
<1>1. IsTyped(clone) /\ DOMAIN clone =
                 {"functionType", "class", "extends", "qualifiers", "annotations", "args", "is_list",
                  "is_monitorable", "require_filter", "default_projection", "minimal_projection"}
    BY CloneDefTyped
<1>2. c = [clone EXCEPT !.functionType = functionType]
    BY DEF AsType
<1> HIDE DEF clone, c
<1>3. c.args = clone.args /\ c.extends = clone.extends
    BY <1>1, <1>2
<1> QED BY <1>1, <1>3 DEF IsTyped, c

\* _resolveChain()
LEMMA ChainTyped ==
    ASSUME IsSignature(schema), IsTyped(schema)
    PROVE  IsTyped(ResolveChain)
<1> DEFINE clone == CloneDef(schema)
           c == ResolveChain
           schemas == {Elements[n].schema : n \in DOMAIN Elements}
<1>1. IsTyped(clone) /\ DOMAIN clone =
                 {"functionType", "class", "extends", "qualifiers", "annotations", "args", "is_list",
                  "is_monitorable", "require_filter", "default_projection", "minimal_projection"}
    BY CloneDefTyped
<1>2. c = [clone EXCEPT !.is_list = \E f \in schemas : f.is_list,
                        !.is_monitorable = \A f \in schemas : f.is_monitorable]
    BY DEF ResolveChain
<1> HIDE DEF clone, c, schemas
<1>3. c.args = clone.args /\ c.extends = clone.extends
    BY <1>1, <1>2
<1> QED BY <1>1, <1>3 DEF IsTyped, c

\* iterateArguments()
LEMMA IteratedTyped ==
    ASSUME NEW f, IsTyped(f)
    PROVE  /\ AreTyped(IterateArguments(f))
           /\ \A n \in OutNames(f) : HasTypes(Outputs(f)[n])
<1>1. AreTyped(IterateArguments(f))
    <2> DEFINE all == IterateArguments(f)
    <2>1. /\ DOMAIN all = DOMAIN f.args \union DOMAIN f.extends
          /\ \A n \in DOMAIN f.args : all[n] = f.args[n]
          /\ \A n \in DOMAIN f.extends \ DOMAIN f.args : all[n] = f.extends[n]
        BY ArgumentsAre
    <2> HIDE DEF all
    <2>2. (\A n \in DOMAIN f.args : HasTypes(f.args[n])) /\ (\A n \in DOMAIN f.extends : HasTypes(f.extends[n]))
        BY TypedAre DEF IsTyped
    <2>3. \A n \in DOMAIN all : HasTypes(all[n])
        BY <2>1, <2>2
    <2> QED BY <2>3, TypedAre DEF all
<1> QED BY <1>1, OutputsAre, TypedAre

\* What is added.
LEMMA AddedTyped ==
    ASSUME NEW k \in Nat, NEW list, DOMAIN list = 1 .. k, \A i \in 1 .. k : HasTypes(list[i])
    PROVE  \A n \in DOMAIN Argmap(list) : HasTypes(Argmap(list)[n])
<1> TAKE n \in DOMAIN Argmap(list)
<1> DEFINE later == {i \in DOMAIN list : list[i].name = n}
           last == CHOOSE i \in later : \A o \in later : o <= i
<1>1. DOMAIN Argmap(list) = {list[i].name : i \in 1 .. k}
    BY DEF Argmap
<1>2. later \in SUBSET (1 .. k) /\ later # {}
    BY <1>1
<1>3. \E i \in later : \A o \in later : o <= i
    <2> HIDE DEF later
    <2>1. Max(later) \in later /\ \A o \in later : Max(later) >= o
        BY <1>2, MaxExists
    <2> QED BY <1>2, <2>1
<1>4. last \in later
    <2> HIDE DEF later
    <2> QED BY <1>3
<1>5. Argmap(list)[n] = list[last]
    BY DEF Argmap
<1> HIDE DEF last
<1> QED BY <1>4, <1>5

\* An output of a known type.
LEMMA OutTyped ==
    ASSUME NEW name, NEW type, IsValueType(type)
    PROVE  HasTypes(Out(name, type))
BY DEF HasTypes, Out, ArgumentDef

\* addArguments()
LEMMA AddTyped ==
    ASSUME NEW f, IsSignature(f), IsTyped(f), NEW list,
           \A n \in DOMAIN Argmap(list) : IsAdded(Argmap(list)[n], n) /\ HasTypes(Argmap(list)[n])
    PROVE  IsTyped(AddArguments(f, list))
<1> DEFINE given == Argmap(list)
           args == With(given, f.args)
<1>1. AddArguments(f, list) = CloneWith(f, args, f.extends)
    BY DEF AddArguments
<1>2. /\ DOMAIN args = DOMAIN given \union DOMAIN f.args
      /\ \A n \in DOMAIN given : args[n] = given[n]
      /\ \A n \in DOMAIN f.args \ DOMAIN given : args[n] = f.args[n]
    BY DEF With
<1> HIDE DEF given, args
<1>3. \A n \in DOMAIN given : IsAdded(given[n], n) /\ HasTypes(given[n])
    BY DEF given
<1>4. Shaped(args)
    <2>1. Shaped(f.args)
        BY DEF IsSignature, Shaped, AreArguments, Name
    <2>2. \A n \in DOMAIN given : n \in Name /\ given[n].name = n /\ DOMAIN given[n].fields = {}
                                  /\ DOMAIN given[n] = {"name", "is_input", "type", "fields"}
        BY <1>3 DEF IsAdded
    <2> QED BY <1>2, <2>1, <2>2 DEF Shaped
<1>5. AreTyped(args)
    <2>1. \A n \in DOMAIN f.args : HasTypes(f.args[n])
        BY TypedAre DEF IsTyped
    <2> QED BY <1>2, <1>3, <2>1, TypedAre
<1> QED BY <1>1, <1>4, <1>5, CloneTyped DEF IsTyped

\* filterArguments()
LEMMA FilterTyped ==
    ASSUME NEW f, IsSignature(f), IsTyped(f), NEW kept, kept \subseteq DOMAIN IterateArguments(f),
           NEW c, c = CloneWith(f, Restrict(IterateArguments(f), kept), << >>)
    PROVE  IsTyped(c)
<1> DEFINE all == IterateArguments(f)
           args == Restrict(all, kept)
<1>1. AreArguments(all) /\ AreTyped(all)
    BY IteratedShaped, IteratedTyped DEF IsSignature
<1>2. DOMAIN args = kept /\ \A n \in kept : args[n] = all[n]
    BY DEF Restrict
<1> HIDE DEF all, args
<1>3. kept \subseteq DOMAIN all
    BY DEF all
<1>4. Shaped(args)
    BY <1>1, <1>2, <1>3 DEF Shaped, AreArguments, Name
<1>5. AreTyped(args)
    BY <1>1, <1>2, <1>3 DEF AreTyped
<1>6. AreTyped(<< >>)
    <2>1. DOMAIN << >> = {}
        OBVIOUS
    <2> QED BY <2>1 DEF AreTyped
<1> QED BY <1>4, <1>5, <1>6, CloneTyped DEF all, args

\* cleanOutput()
LEMMA CleanTyped ==
    ASSUME NEW f, IsSignature(f), IsTyped(f)
    PROVE  IsTyped(CleanOutput(f))
<1> DEFINE kept == {n \in DOMAIN IterateArguments(f) : IterateArguments(f)[n].is_input}
           filtered == CloneWith(f, Restrict(IterateArguments(f), kept), << >>)
           c == CleanOutput(f)
<1>1. c = RemoveProjections(filtered)
    BY DEF CleanOutput, FilterArguments, RestrictValues
<1>2. kept \subseteq DOMAIN IterateArguments(f)
    OBVIOUS
<1> HIDE DEF kept, c
<1>3. ReducedTo(filtered, f, kept)
    BY <1>2, FilterIs, Zenon
<1>4. IsTyped(filtered)
    BY <1>2, FilterTyped, Zenon
<1> HIDE DEF filtered
<1>5. Formed(filtered)
    BY <1>3 DEF ReducedTo
<1>6. c.args = filtered.args /\ c.extends = filtered.extends
    BY <1>1, <1>5, RemoveIs
<1> QED BY <1>4, <1>6 DEF IsTyped, c

\* _resolveNewProjection()
LEMMA SelectedTyped ==
    ASSUME IsSignature(schema), IsTyped(schema), NEW projection
    PROVE  IsTyped(Selected(projection))
<1>1. CASE projection.all
    BY <1>1 DEF Selected
<1>2. CASE ~projection.all
    <2> DEFINE all == IterateArguments(schema)
               kept == {n \in DOMAIN all : all[n].is_input \/ all[n].name \in Kept(projection)}
    <2>1. Selected(projection) = CloneWith(schema, Restrict(IterateArguments(schema), kept), << >>)
        BY <1>2 DEF Selected, FilterArguments, RestrictValues
    <2>2. kept \subseteq DOMAIN IterateArguments(schema)
        OBVIOUS
    <2> HIDE DEF kept, all
    <2> QED BY <2>1, <2>2, FilterTyped, Zenon
<1> QED BY <1>1, <1>2

\* The outputs of an operand of a join.
LEMMA SideTyped ==
    ASSUME NEW f, IsSignature(f), IsTyped(f), NEW side \in Part
    PROVE  AreTyped(OfSide(f, side))
<1> DEFINE args == OfSide(f, side)
<1>0. args = [name \in {<< side >> \o n : n \in OutNames(f)} |->
                 [Outputs(f)[Tail(name)] EXCEPT !.name = name]]
    BY DEF OfSide
<1> HIDE DEF args
<1>1. ASSUME NEW name \in DOMAIN args PROVE HasTypes(args[name])
    <2>1. PICK n \in OutNames(f) : name = << side >> \o n
        BY <1>0
    <2>2. n \in Name
        BY OutputsShaped
    <2>3. Tail(name) = n
        BY <2>1, <2>2, TailIs
    <2>4. args[name] = [Outputs(f)[n] EXCEPT !.name = name]
        BY <1>0, <2>3
    <2>5. DOMAIN Outputs(f)[n] = {"name", "is_input", "type", "fields"} /\ HasTypes(Outputs(f)[n])
        BY OutputsShaped, IteratedTyped
    <2>6. args[name].type = Outputs(f)[n].type /\ args[name].fields = Outputs(f)[n].fields
        BY <2>4, <2>5
    <2> QED BY <2>5, <2>6 DEF HasTypes
<1> QED BY <1>1, TypedAre DEF args

\* _typeCheckJoin()
LEMMA JoinedTyped ==
    ASSUME NEW lhs, IsSignature(lhs), IsTyped(lhs), NEW rhs, IsSignature(rhs), IsTyped(rhs),
           NEW c, c = Joined(lhs, rhs)
    PROVE  IsTyped(c)
<1> DEFINE first == OfSide(lhs, "first")
           second == OfSide(rhs, "second")
           args == With(first, second)
<1>1. Shaped(first) /\ Shaped(second) /\ AreTyped(first) /\ AreTyped(second)
    <2>1. "first" \in Part /\ "second" \in Part
        BY DEF Part
    <2> QED BY <2>1, SideIs, SideTyped, Zenon
<1>2. c.args = FlattenCompoundArguments(args) /\ c.extends = << >>
    BY DEF Joined, FunctionDef
<1> HIDE DEF first, second
<1>3. /\ DOMAIN args = DOMAIN first \union DOMAIN second
      /\ \A n \in DOMAIN first : args[n] = first[n]
      /\ \A n \in DOMAIN second \ DOMAIN first : args[n] = second[n]
    BY DEF With
<1> HIDE DEF args
<1>4. Shaped(args)
    BY <1>1, <1>3 DEF Shaped
<1>5. AreTyped(args)
    BY <1>1, <1>3, TypedAre
<1>6. AreTyped(<< >>)
    <2>1. DOMAIN << >> = {}
        OBVIOUS
    <2> QED BY <2>1 DEF AreTyped
<1> QED BY <1>2, <1>4, <1>5, <1>6, FlattenTyped DEF IsTyped

--------------------------------------------------------------------------------
(* The checks of a statement's conditions.                                      *)

\* What is typed is of known types, and so is what the scope has.
ScopeTyped(s) == \A n \in DOMAIN s : IsValueType(s[n])
TypesOK ==
    /\ stage \in {"typed", "filtering"} => IsTyped(schema)
    /\ left # << >> => IsTyped(left[1].schema)
    /\ ScopeTyped(scope)

\* Nothing is being checked while an operator is applied.
IdleOK == stage \in {"start", "typed"} => job = << >>

KInv == TypesOK /\ IdleOK /\ CInv

\* A condition is a use of an operator.
LEMMA ConditionsAreUses ==
    ASSUME IsTyped(schema), ScopeTyped(scope), NEW conditions \in Conditions, NEW n \in DOMAIN conditions.list,
           conditions.list[n].name \in DOMAIN scope \union DOMAIN IterateArguments(schema),
           NEW j, j = [in |-> "filter", op |-> "==",
                       args |-> << TypeOf(conditions.list[n].name), conditions.list[n].type >>]
    PROVE  IsUse(j)
<1> DEFINE name == conditions.list[n].name
           type == conditions.list[n].type
<1>1. IsValueType(TypeOf(name))
    <2> DEFINE args == IterateArguments(schema)
    <2>1. AreTyped(args)
        BY IteratedTyped
    <2> HIDE DEF args, name
    <2>2. name \in DOMAIN args => IsValueType(args[name].type)
        BY <2>1 DEF AreTyped
    <2>3. name \in DOMAIN args \/ name \in DOMAIN scope
        BY DEF args, name
    <2> QED BY <2>2, <2>3 DEF TypeOf, args, ScopeTyped
<1>2. IsValueType(type)
    BY TypingAssumption
<1>3. j.in = "filter" /\ j.op = "==" /\ j.args = << TypeOf(name), type >>
    OBVIOUS
<1> HIDE DEF name, type
<1>4. /\ Len(j.args) = 2 /\ DOMAIN j.args = 1 .. 2 /\ j.args[1] = TypeOf(name) /\ j.args[2] = type
    BY <1>3
<1>5. \A i \in 1 .. 2 : i = 1 \/ i = 2
    OBVIOUS
<1>6. \A i \in DOMAIN j.args : IsValueType(j.args[i])
    BY <1>1, <1>2, <1>4, <1>5
<1>7. j.op \in DOMAIN Operators(j.in) /\ 2 \in 1 .. 2
    BY <1>3, EqualityIs
<1> QED BY <1>3, <1>4, <1>6, <1>7 DEF IsUse

\* Nothing is loading: what is above a loaded entity is loaded.
AllAbove ==
    failures = 0 => \A e \in DOMAIN entitySubTypeMap : ToSet(Parents[e]) \subseteq DOMAIN entitySubTypeMap

LEMMA QuietIs ==
    ASSUME AboveIsToCome, \A c \in Checks : check[c].todo = << >>
    PROVE  AllAbove
<1>1. ToSet(<< >>) = {}
    BY DEF ToSet
<1> QED BY <1>1 DEF AboveIsToCome, AllAbove

\* Checks of uses can begin when no others are running.
LEMMA BeginOK ==
    ASSUME CInv, AllAbove, NEW uses, \A c \in DOMAIN uses : IsUse(uses[c]),
           job' = uses, check' = Started(uses), UNCHANGED shared
    PROVE  CInv'
<1> USE DEF shared
<1>1. SharedIsKnown'
    BY DEF CInv, SharedIsKnown
<1>2. AboveIsToCome'
    BY DEF AllAbove, AboveIsToCome
<1>3. Checks' = DOMAIN uses
    BY DEF Checks
<1>4. check' = [c \in Checks' |-> check'[c]]
    BY <1>3 DEF Started
<1>5. \A c \in Checks' : /\ IsCheck(check'[c], job'[c], DOMAIN entitySubTypeMap')
                         /\ IsExhaustive(check'[c], job'[c])
    BY <1>3, StartedIs
<1>6. ChecksAreChecks'
    BY <1>3, <1>4, <1>5 DEF ChecksAreChecks
<1>7. AloneIsExhaustive'
    BY <1>5 DEF AloneIsExhaustive
<1> QED BY <1>1, <1>2, <1>6, <1>7 DEF CInv

\* An operator is applied to what was checked.
LEMMA DoneOK ==
    ASSUME CInv, \A c \in Checks : check[c].state = "accepted",
           job' = << >>, check' = << >>, UNCHANGED shared
    PROVE  CInv'
<1>1. \A c \in Checks : check[c].todo = << >>
    <2> TAKE c \in Checks
    <2>1. IsCheck(check[c], job[c], DOMAIN entitySubTypeMap)
        BY DEF CInv, ChecksAreChecks
    <2>2. check[c].state # "running"
        BY DEF CInv
    <2> QED BY <2>1, <2>2 DEF IsCheck, IsRunning, IsEnded
<1>2. AllAbove
    BY <1>1, QuietIs DEF CInv
<1>3. DOMAIN << >> = {} /\ << >> = Started(<< >>)
    BY DEF Started
<1> QED BY <1>2, <1>3, BeginOK

--------------------------------------------------------------------------------
(* The invariant of the checks while a statement is typed.                      *)

\* A value that a name is given in the scope.
LEMMA AddAllTyped ==
    ASSUME NEW args, \A n \in DOMAIN args : HasTypes(args[n]), NEW s, ScopeTyped(s)
    PROVE  ScopeTyped(AddAll(args, s))
<1> DEFINE t == AddAll(args, s)
<1>1. /\ DOMAIN t = DOMAIN args \union DOMAIN s
      /\ \A n \in DOMAIN args : t[n] = args[n].type
      /\ \A n \in DOMAIN s \ DOMAIN args : t[n] = s[n]
    BY AddAllIs
<1> HIDE DEF t
<1>2. ScopeTyped(t)
    BY <1>1 DEF ScopeTyped, HasTypes
<1> QED BY <1>2 DEF t

\* An empty scope has nothing of an unknown type.
LEMMA NoNamesTyped == ScopeTyped(<< >>)
<1>1. DOMAIN << >> = {}
    OBVIOUS
<1> QED BY <1>1 DEF ScopeTyped

\* An operator makes a signature and a scope.
LEMMA BecomesTyped ==
    ASSUME TypesOK, IsTyped(schema'), ScopeTyped(scope'), left' = left \/ left' = << >>
    PROVE  TypesOK'
BY DEF TypesOK

\* A TypeError is thrown.
LEMMA StoppedTyped ==
    ASSUME TypesOK, Refused
    PROVE  TypesOK'
BY DEF TypesOK, Refused

\* The outputs of a function are of known types.
LEMMA CallTyped ==
    ASSUME TypesOK, NEW f \in Functions, CallFunction(f)
    PROVE  TypesOK'
<1>1. schema' = f /\ scope' = AddAll(Outputs(f), scope) /\ left' = left
    BY DEF CallFunction, Becomes
<1>2. IsTyped(f)
    BY TypingAssumption DEF IsTyped
<1>3. \A n \in DOMAIN Outputs(f) : HasTypes(Outputs(f)[n])
    BY <1>2, IteratedTyped DEF OutNames
<1>4. ScopeTyped(scope')
    BY <1>1, <1>3, AddAllTyped DEF TypesOK
<1> QED BY <1>1, <1>2, <1>4, BecomesTyped

\* Nothing but the answer to a question is added, a Boolean.
LEMMA ConditionsCheckedTyped ==
    ASSUME IInv, TypesOK, ConditionsChecked
    PROVE  TypesOK'
<1>1. CASE Refused
    BY <1>1, StoppedTyped
<1>2. CASE ~Refused
    <2>1. /\ stage = "filtering" /\ UNCHANGED << scope, left >>
          /\ schema' = Filtered(schema) \/ schema' = AddArguments(schema, << Out("__answer", Boolean) >>)
        BY <1>2 DEF ConditionsChecked, Becomes
    <2>2. IsSignature(schema) /\ IsTyped(schema) /\ ScopeTyped(scope)
        BY <2>1 DEF IInv, TypedOK, TypesOK
    <2>3. IsTyped(Filtered(schema))
        BY <2>2, FilteredTyped
    <2>4. IsTyped(AddArguments(schema, << Out("__answer", Boolean) >>))
        <3> DEFINE answer == Out("__answer", Boolean)
                   list == << answer >>
        <3>1. IsAdded(answer, answer.name)
            <4>1. "__answer" \in Part
                BY DEF Part
            <4>2. << "__answer" >> \in Name
                BY <4>1, SingleName
            <4> QED BY <4>2 DEF IsAdded, Out, ArgumentDef
        <3>2. HasTypes(answer)
            BY ScalarsAre, OutTyped
        <3>3. 1 \in Nat /\ DOMAIN list = 1 .. 1 /\ list[1] = answer
            OBVIOUS
        <3> HIDE DEF list, answer
        <3>4. \A i \in 1 .. 1 : IsAdded(list[i], list[i].name) /\ HasTypes(list[i])
            BY <3>1, <3>2, <3>3
        <3>5. \A n \in DOMAIN Argmap(list) : IsAdded(Argmap(list)[n], n) /\ HasTypes(Argmap(list)[n])
            BY <3>3, <3>4, ArgmapIs, AddedTyped
        <3>6. IsTyped(AddArguments(schema, list))
            BY <2>2, <3>5, AddTyped
        <3> QED BY <3>6 DEF list, answer
    <2> QED BY <2>1, <2>2, <2>3, <2>4, BecomesTyped
<1> QED BY <1>1, <1>2

\* A projection adds numbers to what it selects.
LEMMA ProjectTyped ==
    ASSUME IInv, TypesOK, NEW projection \in Projections, Project(projection)
    PROVE  TypesOK'
<1> DEFINE computed == [n \in DOMAIN projection.computed |-> Out(projection.computed[n].as, Number)]
           given == Argmap(computed)
           selected == Selected(projection)
           added == AddArguments(selected, computed)
           remaining == [n \in DOMAIN scope \ Hidden(projection) |-> scope[n]]
<1>1. CASE Refused
    BY <1>1, StoppedTyped
<1>2. CASE ~Refused
    <2>1. /\ stage = "typed" /\ IsProjection(projection) /\ schema' = [added EXCEPT !.default_projection = {}]
          /\ scope' = AddAll(given, remaining) /\ UNCHANGED left
        BY <1>2 DEF Project, Operator, Becomes
    <2>2. IsSignature(schema) /\ IsTyped(schema) /\ ScopeTyped(scope)
        BY <2>1 DEF IInv, TypedOK, TypesOK
    <2>3. IsSignature(selected) /\ IsTyped(selected)
        <3>1. projection.all \/ Kept(projection) \subseteq OutNames(schema)
            BY <2>1 DEF IsProjection
        <3> QED BY <2>2, <3>1, SelectedIs, SelectedTyped
    <2>4. \A n \in DOMAIN given : IsAdded(given[n], n) /\ HasTypes(given[n])
        <3>1. PICK S : S = [of : Seq(Part), as : Part]
            OBVIOUS
        <3>2. projection.computed \in Seq(S)
            BY <3>1, TypingAssumption
        <3>3. /\ Len(projection.computed) \in Nat
              /\ DOMAIN projection.computed = 1 .. Len(projection.computed)
              /\ \A n \in 1 .. Len(projection.computed) : projection.computed[n].as \in Part
            <4>1. /\ Len(projection.computed) \in Nat
                  /\ DOMAIN projection.computed = 1 .. Len(projection.computed)
                  /\ \A n \in 1 .. Len(projection.computed) : projection.computed[n] \in S
                BY <3>2
            <4>2. \A c \in S : c.as \in Part
                BY <3>1
            <4> QED BY <4>1, <4>2
        <3>4. \A n \in 1 .. Len(projection.computed) : IsAdded(computed[n], computed[n].name) /\ HasTypes(computed[n])
            <4> SUFFICES ASSUME NEW n \in 1 .. Len(projection.computed)
                         PROVE  IsAdded(computed[n], computed[n].name) /\ HasTypes(computed[n])
                OBVIOUS
            <4>1. computed[n] = Out(projection.computed[n].as, Number)
                BY <3>3
            <4>2. << projection.computed[n].as >> \in Name
                BY <3>3, SingleName
            <4>3. IsAdded(computed[n], computed[n].name)
                BY <4>1, <4>2 DEF IsAdded, Out, ArgumentDef
            <4> QED BY <4>1, <4>3, ScalarsAre, OutTyped
        <3>5. DOMAIN computed = 1 .. Len(projection.computed)
            BY <3>3
        <3> HIDE DEF computed
        <3> QED BY <3>3, <3>4, <3>5, ArgmapIs, AddedTyped
    <2>5. IsTyped(added)
        <3> HIDE DEF selected, computed
        <3> QED BY <2>3, <2>4, AddTyped
    <2>6. Extended(added, selected, given)
        <3> HIDE DEF selected, computed
        <3> QED BY <2>3, <2>4, AddIs
    <2>7. ScopeTyped(scope')
        <3>1. ScopeTyped(remaining)
            BY <2>2 DEF ScopeTyped
        <3> HIDE DEF remaining, given
        <3> QED BY <2>1, <2>4, <3>1, AddAllTyped
    <2> HIDE DEF added, selected, given
    <2>8. schema'.args = added.args /\ schema'.extends = added.extends
        BY <2>1, <2>6 DEF Extended, IsSignature
    <2> QED BY <2>1, <2>5, <2>7, <2>8, BecomesTyped DEF IsTyped
<1> QED BY <1>1, <1>2

\* A prefixed name is of the type that it had without.
LEMMA AliasTyped ==
    ASSUME IInv, TypesOK, NEW name \in AliasNames, Alias(name)
    PROVE  TypesOK'
<1>1. CASE Refused
    BY <1>1, StoppedTyped
<1>2. CASE ~Refused
    <2>1. stage = "typed" /\ schema' = schema /\ Aliased(scope', scope, name) /\ UNCHANGED left
        BY <1>2 DEF Alias, Operator, Becomes, Aliased, Prefixed
    <2>2. IsTyped(schema) /\ ScopeTyped(scope) /\ DOMAIN scope \subseteq Name /\ name \in Part
        BY <2>1, TypingAssumption DEF IInv, ScopeOK, TypesOK
    <2>3. ScopeTyped(scope')
        <3> DEFINE prefixed == Prefixed(scope, name)
        <3>1. PICK stays \in SUBSET (DOMAIN scope \intersect prefixed) :
                 scope' = [n \in DOMAIN scope \union prefixed |->
                              IF n \in prefixed \ stays THEN scope[Tail(n)] ELSE scope[n]]
            BY <2>1 DEF Aliased
        <3>2. \A n \in prefixed : Tail(n) \in DOMAIN scope
            <4> SUFFICES ASSUME NEW n \in DOMAIN scope PROVE Tail(<< name >> \o n) = n
                BY DEF Prefixed
            <4>1. n \in Name
                BY <2>2
            <4> QED BY <2>2, <4>1, TailIs, Zenon
        <3> HIDE DEF prefixed
        <3>3. ASSUME NEW n \in DOMAIN scope' PROVE IsValueType(scope'[n])
            <4>1. CASE n \in prefixed \ stays
                BY <2>2, <3>1, <3>2, <4>1 DEF ScopeTyped
            <4>2. CASE n \notin prefixed \ stays
                <5>1. n \in DOMAIN scope /\ scope'[n] = scope[n]
                    BY <3>1, <4>2
                <5> QED BY <2>2, <5>1 DEF ScopeTyped
            <4> QED BY <4>1, <4>2
        <3> QED BY <3>3 DEF ScopeTyped
    <2> QED BY <2>1, <2>2, <2>3, BecomesTyped
<1> QED BY <1>1, <1>2

\* What an aggregation gives is of a known type.
LEMMA AggregatedTyped ==
    ASSUME NEW aggregate, IsAggregation(aggregate)
    PROVE  IsValueType(Last(Aggregated(aggregate)))
<1>1. CASE aggregate.field = << >>
    <2>1. Aggregated(aggregate) = << AnyType, Number >>
        BY <1>1 DEF Aggregated
    <2>2. Last(<< AnyType, Number >>) = Number
        BY DEF Last
    <2> QED BY <2>1, <2>2, ScalarsAre
<1>2. CASE aggregate.field # << >>
    <2> DEFINE overloads == Aggregations[aggregate.operator]
               Accepted(o) == IsAssignable(FieldType(aggregate.field), overloads[o][1], Unbound, entitySubTypeMap)
               fitting == {o \in DOMAIN overloads : Accepted(o).ok}
               first == Min(fitting)
               types == [n \in DOMAIN overloads[first] |->
                            ResolveTypeVars(overloads[first][n], Accepted(first).scope)]
    <2>1. aggregate.operator \in DOMAIN Aggregations /\ Aggregated(aggregate) # << >>
        BY <1>2 DEF IsAggregation
    <2>2. Aggregated(aggregate) = IF fitting = {} THEN << >> ELSE types
        BY <1>2 DEF Aggregated
    <2>3. \A o \in DOMAIN overloads : Len(overloads[o]) = 2 /\ IsValueType(overloads[o][2])
        BY <2>1, AggregationsAre
    <2>4. \E k \in Nat : DOMAIN overloads = 1 .. k
        <3>1. overloads = OfField \/ overloads = << << AnyType, Number >> >>
            BY <2>1 DEF Aggregations
        <3>2. DOMAIN OfField = 1 .. 3
            BY DEF OfField
        <3>3. \A type : DOMAIN << type >> = 1 .. 1
            OBVIOUS
        <3> HIDE DEF overloads
        <3> QED BY <3>1, <3>2, <3>3
    <2>5. fitting \subseteq DOMAIN overloads
        OBVIOUS
    <2> HIDE DEF overloads, fitting, Accepted
    <2>6. fitting # {} /\ Aggregated(aggregate) = types
        BY <2>1, <2>2
    <2>7. first \in fitting
        <3>1. PICK k \in Nat : DOMAIN overloads = 1 .. k
            BY <2>4
        <3>2. fitting \in SUBSET Nat /\ fitting # {}
            BY <2>5, <2>6, <3>1
        <3>3. \E o \in fitting : \A p \in fitting : o <= p
            BY <3>2, LeastExists
        <3> QED BY <3>3 DEF Min
    <2>8. Len(overloads[first]) = 2 /\ IsValueType(overloads[first][2])
        BY <2>3, <2>5, <2>7
    <2>9. DOMAIN overloads[first] = 1 .. 2
        BY <2>1, <2>5, <2>7, AggregationsAre DEF overloads
    <2>10. Last(types) = ResolveTypeVars(overloads[first][2], Accepted(first).scope)
        BY <2>9 DEF Last
    <2>11. IsValueType(Last(types))
        <3>1. ASSUME NEW type, NEW env, IsValueType(type)
              PROVE  IsValueType(ResolveTypeVars(type, env))
            BY <3>1, MeasureIs DEF ResolveTypeVars
        <3> HIDE DEF first
        <3> QED BY <2>8, <2>10, <3>1
    <2> QED BY <2>6, <2>11
<1> QED BY <1>1, <1>2

\* What is left after an aggregation is its result.
LEMMA AggregateTyped ==
    ASSUME IInv, TypesOK, NEW aggregate, Aggregate(aggregate)
    PROVE  TypesOK'
<1> DEFINE output == [Out("count", Last(Aggregated(aggregate))) EXCEPT
                         !.name = IF aggregate.field = << >> THEN @ ELSE aggregate.field]
           list == << output >>
           given == Argmap(list)
           clean == CleanOutput(schema)
<1>1. CASE Refused
    BY <1>1, StoppedTyped
<1>2. CASE ~Refused
    <2>1. /\ stage = "typed" /\ IsAggregation(aggregate) /\ schema' = AddArguments(clean, list)
          /\ scope' = [name \in {output.name} |-> output.type] /\ UNCHANGED left
        BY <1>2 DEF Aggregate, Operator, Becomes
    <2>2. IsSignature(schema) /\ IsTyped(schema)
        BY <2>1 DEF IInv, TypedOK, TypesOK
    <2>3. IsSignature(clean) /\ IsTyped(clean)
        BY <2>2, CleanIs, CleanTyped
    <2>4. IsAdded(output, output.name)
        <3>1. << "count" >> \in Name
            <4>1. "count" \in Part
                BY DEF Part
            <4> QED BY <4>1, SingleName
        <3>2. aggregate.field # << >> => aggregate.field \in Name
            <4>1. aggregate.field # << >> => aggregate.field \in OutNames(schema)
                BY <2>1 DEF IsAggregation
            <4> QED BY <2>2, <4>1, OutputsShaped
        <3> QED BY <3>1, <3>2 DEF IsAdded, Out, ArgumentDef
    <2>5. output.type = Last(Aggregated(aggregate)) /\ DOMAIN output.fields = {}
        BY DEF Out, ArgumentDef
    <2> HIDE DEF output
    <2>6. HasTypes(output) /\ IsValueType(output.type)
        BY <2>1, <2>5, AggregatedTyped DEF HasTypes
    <2>7. \A n \in DOMAIN given : IsAdded(given[n], n) /\ HasTypes(given[n])
        <3>1. 1 \in Nat /\ DOMAIN list = 1 .. 1 /\ list[1] = output
            OBVIOUS
        <3> HIDE DEF list
        <3>2. \A i \in 1 .. 1 : IsAdded(list[i], list[i].name) /\ HasTypes(list[i])
            BY <2>4, <2>6, <3>1
        <3> QED BY <3>1, <3>2, ArgmapIs, AddedTyped
    <2>8. IsTyped(schema')
        <3> HIDE DEF list, clean
        <3> QED BY <2>1, <2>3, <2>7, AddTyped
    <2>9. ScopeTyped(scope')
        BY <2>1, <2>6 DEF ScopeTyped
    <2> QED BY <2>1, <2>8, <2>9, BecomesTyped
<1> QED BY <1>1, <1>2

\* Conditions change no types.
LEMMA CheckConditionsTyped ==
    ASSUME TypesOK, NEW conditions, CheckConditions(conditions)
    PROVE  TypesOK'
<1>1. CASE Refused
    BY <1>1, StoppedTyped
<1>2. CASE ~Refused
    <2>1. stage = "typed" /\ UNCHANGED << schema, scope, left >>
        BY <1>2 DEF CheckConditions, Operator
    <2> QED BY <2>1 DEF TypesOK
<1> QED BY <1>1, <1>2

\* A chain is of the types of its last element.
LEMMA CloseChainTyped ==
    ASSUME IInv, TypesOK, CloseChain
    PROVE  TypesOK'
<1>1. CASE Refused
    BY <1>1, StoppedTyped
<1>2. CASE ~Refused
    <2>1. stage = "typed" /\ schema' = ResolveChain /\ UNCHANGED << scope, left >>
        BY <1>2 DEF CloseChain, Operator, Becomes
    <2>2. IsSignature(schema) /\ IsTyped(schema) /\ ScopeTyped(scope)
        BY <2>1 DEF IInv, TypedOK, TypesOK
    <2>3. IsTyped(schema')
        BY <2>1, <2>2, ChainTyped
    <2> QED BY <2>1, <2>2, <2>3, BecomesTyped
<1> QED BY <1>1, <1>2

\* A stream has the outputs of the query.
LEMMA MonitorTyped ==
    ASSUME IInv, TypesOK, Monitor
    PROVE  TypesOK'
<1>1. CASE Refused
    BY <1>1, StoppedTyped
<1>2. CASE ~Refused
    <2>1. stage = "typed" /\ schema' = AsType(schema, "stream") /\ UNCHANGED << scope, left >>
        BY <1>2 DEF Monitor, Operator, Becomes
    <2>2. IsSignature(schema) /\ IsTyped(schema) /\ ScopeTyped(scope)
        BY <2>1 DEF IInv, TypedOK, TypesOK
    <2>3. IsTyped(schema')
        BY <2>1, <2>2, AsTypeTyped
    <2> QED BY <2>1, <2>2, <2>3, BecomesTyped
<1> QED BY <1>1, <1>2

\* The left operand waits.
LEMMA OpenJoinTyped ==
    ASSUME TypesOK, OpenJoin
    PROVE  TypesOK'
<1>1. CASE Refused
    BY <1>1, StoppedTyped
<1>2. CASE ~Refused
    <2>1. /\ stage = "typed" /\ stage' = "start" /\ UNCHANGED << schema, scope >>
          /\ left' = << [schema |-> schema, earlier |-> earlier] >>
        BY <1>2 DEF OpenJoin, Operator
    <2>2. left'[1].schema = schema
        BY <2>1
    <2> QED BY <2>1, <2>2 DEF TypesOK
<1> QED BY <1>1, <1>2

\* A join has the outputs of both.
LEMMA CloseJoinTyped ==
    ASSUME IInv, TypesOK, CloseJoin
    PROVE  TypesOK'
<1>1. CASE Refused
    BY <1>1, StoppedTyped
<1>2. CASE ~Refused
    <2>1. /\ stage = "typed" /\ left # << >> /\ left' = << >>
          /\ schema' = Joined(left[1].schema, schema)
          /\ scope' = AddAll(Outputs(Joined(left[1].schema, schema)), << >>)
        BY <1>2 DEF CloseJoin, Becomes
    <2>2. /\ IsSignature(schema) /\ IsTyped(schema)
          /\ IsSignature(left[1].schema) /\ IsTyped(left[1].schema)
        BY <2>1 DEF IInv, TypedOK, WaitingOK, TypesOK
    <2>3. IsTyped(schema')
        BY <2>1, <2>2, JoinedTyped
    <2>4. scope' = AddAll(Outputs(schema'), << >>)
        BY <2>1
    <2>5. ScopeTyped(scope')
        <3>1. \A n \in DOMAIN Outputs(schema') : HasTypes(Outputs(schema')[n])
            BY <2>3, IteratedTyped DEF OutNames
        <3> QED BY <2>4, <3>1, NoNamesTyped, AddAllTyped
    <2> QED BY <2>1, <2>3, <2>5, BecomesTyped
<1> QED BY <1>1, <1>2

\* Operators that leave signature and scope as they are, or end the statement.
LEMMA OthersTyped ==
    ASSUME TypesOK, (\E field \in SortFields : Sort(field)) \/ NextInChain \/ EndStatement
    PROVE  TypesOK'
<1>1. ASSUME NEW field, Sort(field) PROVE TypesOK'
    <2>1. Refused \/ (stage = "typed" /\ stage' = "typed" /\ UNCHANGED << schema, scope, left >>)
        BY <1>1 DEF Sort, Operator, Becomes
    <2> QED BY <2>1, StoppedTyped DEF TypesOK
<1>2. CASE NextInChain
    BY <1>2 DEF NextInChain, TypesOK
<1>3. CASE EndStatement
    <2>1. Refused \/ (stage' = "accepted" /\ UNCHANGED << scope, left >>)
        BY <1>3 DEF EndStatement
    <2> QED BY <2>1, StoppedTyped DEF TypesOK
<1> QED BY <1>1, <1>2, <1>3

--------------------------------------------------------------------------------

\* An operator that checks nothing.
NoConditions ==
    \/ \E f \in Functions : CallFunction(f)
    \/ \E projection \in Projections : Project(projection)
    \/ \E name \in AliasNames : Alias(name)
    \/ \E aggregate \in Aggregates : Aggregate(aggregate)
    \/ \E field \in SortFields : Sort(field)
    \/ Monitor \/ NextInChain \/ CloseChain \/ OpenJoin \/ CloseJoin \/ EndStatement

\* The checks and what they share stay as they are.
LEMMA NoConditionsOK ==
    ASSUME IInv, KInv, NoConditions
    PROVE  KInv'
<1>1. UNCHANGED vars /\ stage \in {"start", "typed"}
    BY DEF NoConditions, CallFunction, Project, Alias, Aggregate, Sort, Monitor, NextInChain, CloseChain,
           OpenJoin, CloseJoin, EndStatement, Operator, vars
<1>2. CInv' /\ IdleOK'
    <2>1. CInv'
        BY <1>1, ChecksStep DEF KInv
    <2>2. job' = << >>
        BY <1>1 DEF KInv, IdleOK, vars
    <2> QED BY <2>1, <2>2 DEF IdleOK
<1>3. TypesOK'
    BY CallTyped, ProjectTyped, AliasTyped, AggregateTyped, OthersTyped, MonitorTyped, CloseChainTyped,
       OpenJoinTyped, CloseJoinTyped DEF NoConditions, KInv
<1> QED BY <1>2, <1>3 DEF KInv

\* The conditions of a filter are uses of "==", and nothing else was loading.
LEMMA CheckConditionsBegins ==
    ASSUME IInv, KInv, NEW conditions \in Conditions, CheckConditions(conditions)
    PROVE  KInv'
<1> DEFINE list == conditions.list
           use(n) == [in |-> "filter", op |-> "==", args |-> << TypeOf(list[n].name), list[n].type >>]
           uses == [n \in DOMAIN list |-> use(n)]
           known == DOMAIN scope \union DOMAIN IterateArguments(schema)
<1>1. TypesOK' /\ stage = "typed" /\ job = << >>
    BY CheckConditionsTyped DEF KInv, IdleOK, CheckConditions, Operator
<1>2. CASE Refused /\ UNCHANGED << job, check, shared >>
    <2>1. CInv'
        BY <1>2, ChecksStep DEF KInv, vars
    <2> QED BY <1>1, <1>2, <2>1 DEF KInv, IdleOK, Refused
<1>3. CASE /\ \A n \in DOMAIN list : list[n].name \in known
           /\ job' = uses /\ check' = Started(uses) /\ stage' = "filtering" /\ UNCHANGED shared
    <2>1. IsTyped(schema) /\ ScopeTyped(scope)
        BY <1>1 DEF KInv, TypesOK
    <2>2. \A c \in DOMAIN uses : IsUse(uses[c])
        <3> SUFFICES ASSUME NEW n \in DOMAIN conditions.list PROVE IsUse(use(n))
            OBVIOUS
        <3>1. conditions.list[n].name \in DOMAIN scope \union DOMAIN IterateArguments(schema)
            BY <1>3
        <3> QED BY <2>1, <3>1, ConditionsAreUses
    <2>3. Checks = {}
        BY <1>1 DEF Checks
    <2>4. AllAbove
        BY <2>3, QuietIs DEF KInv, CInv
    <2> HIDE DEF uses
    <2>5. CInv'
        BY <1>3, <2>2, <2>4, BeginOK DEF KInv
    <2>6. IdleOK'
        BY <1>3 DEF IdleOK
    <2> QED BY <1>1, <2>5, <2>6 DEF KInv
<1> QED BY <1>2, <1>3 DEF CheckConditions

\* All conditions are accepted, or the others go on for nothing.
LEMMA ConditionsCheckedEnds ==
    ASSUME IInv, KInv, ConditionsChecked
    PROVE  KInv'
<1>1. TypesOK'
    BY ConditionsCheckedTyped DEF KInv
<1>2. CASE Refused /\ UNCHANGED << job, check, shared >>
    <2>1. CInv'
        BY <1>2, ChecksStep DEF KInv, vars
    <2> QED BY <1>1, <1>2, <2>1 DEF KInv, IdleOK, Refused
<1>3. CASE /\ \A c \in Checks : check[c].state = "accepted"
           /\ job' = << >> /\ check' = << >> /\ UNCHANGED shared
    <2>1. CInv'
        BY <1>3, DoneOK DEF KInv
    <2> QED BY <1>1, <1>3, <2>1 DEF KInv, IdleOK
<1> QED BY <1>2, <1>3 DEF ConditionsChecked

\* A statement begins, or a use of an operator that is checked for itself.
LEMMA KInitOK == TypingInit => KInv
<1> SUFFICES ASSUME TypingInit PROVE KInv
    OBVIOUS
<1>1. CInv
    BY ChecksInit DEF TypingInit
<1>2. stage \in {"start", "off"} /\ (stage = "start" => job = << >>) /\ left = << >> /\ scope = << >>
    BY DEF TypingInit
<1> QED BY <1>1, <1>2, NoNamesTyped DEF KInv, TypesOK, IdleOK

\* Every step of a check and of the typing of a statement.
LEMMA KStepOK == IInv /\ KInv /\ [TypingNext]_typingVars => KInv'
<1> SUFFICES ASSUME IInv, KInv, [TypingNext]_typingVars PROVE KInv'
    OBVIOUS
<1>1. CASE [Next]_vars /\ UNCHANGED expression
    <2>1. CInv'
        BY <1>1, ChecksStep DEF KInv
    <2>2. TypesOK'
        BY <1>1 DEF KInv, TypesOK, expression
    <2>3. job' = job
        BY <1>1 DEF Next, Step, Loaded, NothingToLoad, Decide, vars
    <2> QED BY <1>1, <2>1, <2>2, <2>3 DEF KInv, IdleOK, expression
<1>2. CASE TypingStep
    BY <1>2, NoConditionsOK, CheckConditionsBegins, ConditionsCheckedEnds DEF TypingStep, NoConditions
<1> QED BY <1>1, <1>2 DEF TypingNext, CheckStep, typingVars

\* So it is an invariant.
LEMMA KInvariant == TypingSpec => []KInv
BY KInitOK, StepOK, KStepOK, Invariant, PTL DEF TypingSpec

--------------------------------------------------------------------------------
(* The properties of checks, of statements as well.                             *)

\* Whatever operators the expression has and whatever its conditions compare, the
\* verdict of isAssignable() on each use is that of the whole hierarchy: never too
\* generous, and never too strict if nothing else was loading, no request failed
\* and no list of ancestors is cut short.
THEOREM VerdictRight == TypingSpec => []VerdictIsRight
<1>1. KInv => VerdictIsRight
    BY VerdictFromInvariant DEF KInv
<1> QED BY <1>1, KInvariant, PTL

\* A condition is decided against what the whole hierarchy says only while another
\* condition of the same filter loads, or after a failed request.
THEOREM LoadingMisleads == TypingSpec => []OnlyLoadingMisleads
<1>1. KInv => OnlyLoadingMisleads
    BY MisleadsFromInvariant DEF KInv
<1> QED BY <1>1, KInvariant, PTL

================================================================================
