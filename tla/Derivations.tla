---------------------------- MODULE Derivations ----------------------------
(***************************************************************************)
(* What a grammar means: the sequences of tokens that derive from each of  *)
(* its nonterminals, and by which rules.                                   *)
(***************************************************************************)
EXTENDS Naturals, Sequences, SequencesExt

\* The pairs of tokens and rules that derive from the symbols of a sequence,
\* given those of each nonterminal; a terminal derives itself.
FromSequence(symbols, from, N) ==
  FoldLeft(LAMBDA done, X :
             {<<p[1] \o d[1], p[2] \o d[2]>> :
                <<p, d>> \in {pd \in done \X (IF X \in DOMAIN from THEN from[X] ELSE {<< <<X>>, <<>> >>}) :
                                Len(pd[1][1]) + Len(pd[2][1]) <= N}},
           {<< <<>>, <<>> >>}, symbols)

\* All derivations of at most N tokens by trees of at most the given height: the
\* rules of a derivation are in the order in which its subtrees end.
DerivationsOf(rules, N, height) ==
  LET A == {rules[r].lhs : r \in DOMAIN rules}
      Higher(from, h) ==
        [X \in A |-> UNION {{<<d[1], Append(d[2], r)>> : d \in FromSequence(rules[r].rhs, from, N)} :
                              r \in {q \in DOMAIN rules : rules[q].lhs = X}}]
  IN  FoldLeft(Higher, [X \in A |-> {}], [h \in 1 .. height |-> h])
=============================================================================
