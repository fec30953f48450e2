--------------------------- MODULE MCShiftReduce ---------------------------
(***************************************************************************)
(* Parsers for small grammars: some known ones, and all those that have a  *)
(* parser of those with two rules for S and one for A that have one or two *)
(* symbols on their right.                                                 *)
(***************************************************************************)
EXTENDS ShiftReduce, Derivations

SLR == INSTANCE SlrGenerator

rule(A, X) == [lhs |-> A, rhs |-> X]

\* Lists that recur on the left and on the right, an expression with two
\* levels of precedence, an else that could belong to two ifs, palindromes of
\* odd length, and a symbol that derives itself, for which there is no parser.
Samples ==
  <<<<rule("S", <<"S", "a">>), rule("S", <<"a">>)>>,
    <<rule("S", <<"a", "S">>), rule("S", <<"a">>)>>,
    <<rule("S", <<"S", "+", "A">>), rule("S", <<"A">>), rule("A", <<"a">>),
      rule("A", <<"(", "S", ")">>)>>,
    <<rule("S", <<"if", "S">>), rule("S", <<"if", "S", "else", "S">>), rule("S", <<"a">>)>>,
    <<rule("S", <<"a", "S", "a">>), rule("S", <<"b">>)>>,
    <<rule("S", <<"a", "A">>), rule("A", <<"A">>), rule("A", <<"b">>)>>>>

SideSymbols == <<"S", "A", "a", "b">>
Sides   == [n \in 1 .. 20 |-> IF n <= 4 THEN <<SideSymbols[n]>>
                              ELSE <<SideSymbols[(n - 5) \div 4 + 1], SideSymbols[((n - 5) % 4) + 1]>>]

\* The grammars: first the samples, then for each of 16 sides of A the pairs of a
\* side and one of the ten that come after it, the first one after the last.
Ids == 1 .. Len(Samples) + 3200

GrammarOf(n) ==
  LET m == n - Len(Samples) - 1
      i == m % 20
      d == (m \div 20) % 10
  IN  IF m < 0 THEN Samples[n]
      ELSE <<rule("S", Sides[i + 1]), rule("S", Sides[((i + d + 1) % 20) + 1]),
             rule("A", Sides[m \div 200 + 1])>>

Parsers    == [n \in Ids |-> SLR!Generate(GrammarOf(n))]
GrammarIds == {n \in Ids : ~Parsers[n].failed}

TokensOf(p) == UNION {ToSet(p.rules[r].rhs) : r \in DOMAIN p.rules}
                 \ ({p.rules[r].lhs : r \in DOMAIN p.rules} \cup {EOF})

CONSTANT MaxTokens

InputsOf == [g \in Ids |-> UNION {[1 .. n -> TokensOf(Parsers[g])] : n \in 0 .. MaxTokens}]

\* A derivation with the forms that its rules make of the start.
Sentence(p, tokens, rules) ==
  LET forms[i \in 1 .. Len(rules) + 1] ==
        IF i = Len(rules) + 1 THEN <<Start>> ELSE Undo(p, rules[i], forms[i + 1])
  IN  [tokens |-> tokens, rules |-> rules, forms |-> forms]

SentencesOf ==
  [g \in Ids |-> IF Parsers[g].failed \/ Parsers[g].warned THEN {}
                 ELSE {Sentence(Parsers[g], d[1], d[2]) :
                         d \in DerivationsOf(Parsers[g].rules, MaxTokens, 2 * MaxTokens)[Start]}]

\* The values of the constants: TLC evaluates once what they refer to.
MCGrammars  == GrammarIds
MCTable     == Parsers
MCInputs    == InputsOf
MCSentences == SentencesOf
=============================================================================
