---------------------------- MODULE SlrGenerator ----------------------------
(***************************************************************************)
(* The generator of parsers, tools/generate-parser/slr_generator.ts: from  *)
(* the rules of a grammar, the states and tables of its SLR parser.        *)
(*                                                                         *)
(* A grammar is a sequence of rules [lhs, rhs], the rules of a nonterminal *)
(* together, none of them empty, and "S" where it starts.  A nonterminal   *)
(* is a symbol that has rules, and rules and states are numbered from 1.   *)
(* An item, a rule with a marker in its right side, is the pair of the     *)
(* rule's number and of how many symbols are before the marker.            *)
(***************************************************************************)
EXTENDS Integers, Sequences, SequencesExt

ROOT_NT   == "$ROOT"
EOF_TOKEN == " 1EOF"

\* The rules with that of the root behind them.
Rules(G) == Append(G, [lhs |-> ROOT_NT, rhs |-> <<"S", EOF_TOKEN>>])

NonTerminals(rules) == {rules[r].lhs : r \in DOMAIN rules}
Terminals(rules)    == (UNION {ToSet(rules[r].rhs) : r \in DOMAIN rules}) \ NonTerminals(rules)

-----------------------------------------------------------------------------
(* First and follow sets: what the loops come to when nothing changes.     *)

FirstOf(rules, first, X) == IF X \in NonTerminals(rules) THEN first[X] ELSE {X}

RECURSIVE FirstLoop(_, _)
FirstLoop(rules, first) ==
  LET next == [A \in NonTerminals(rules) |->
                 UNION {FirstOf(rules, first, rules[r].rhs[1]) :
                          r \in {q \in DOMAIN rules : rules[q].lhs = A}}]
  IN  IF next = first THEN first ELSE FirstLoop(rules, next)

FirstSets(rules) == FirstLoop(rules, [A \in NonTerminals(rules) |-> {}])

\* What the code warns of: a nonterminal that no terminal starts.
Startless(rules, first) == \E A \in NonTerminals(rules) : first[A] = {}

\* The places of a nonterminal in the rules.
Uses(rules, A) == UNION {{<<r, i>> : i \in {j \in DOMAIN rules[r].rhs : rules[r].rhs[j] = A}} :
                           r \in DOMAIN rules}

\* What can follow the symbol at place i of rule r.
FollowedBy(rules, first, follow, r, i) ==
  IF i < Len(rules[r].rhs) THEN FirstOf(rules, first, rules[r].rhs[i + 1])
  ELSE follow[rules[r].lhs]

RECURSIVE FollowLoop(_, _, _)
FollowLoop(rules, first, follow) ==
  LET next == [A \in NonTerminals(rules) |->
                 UNION {FollowedBy(rules, first, follow, use[1], use[2]) : use \in Uses(rules, A)}]
  IN  IF next = follow THEN follow ELSE FollowLoop(rules, first, next)

FollowSets(rules, first) == FollowLoop(rules, first, [A \in NonTerminals(rules) |-> {}])

-----------------------------------------------------------------------------
(* The states.  The items of a state are a sequence and states are equal   *)
(* if their sequences are: sort() leaves their order as it is, because the *)
(* items have no text to be compared by.                                   *)

\* The symbol behind the marker, if any.
NextSymbol(rules, item) ==
  IF item[2] < Len(rules[item[1]].rhs) THEN rules[item[1]].rhs[item[2] + 1] ELSE "none"

MakeItemSet(rules, A) ==
  LET own == SelectSeq([r \in DOMAIN rules |-> r], LAMBDA r : rules[r].lhs = A)
  IN  [i \in DOMAIN own |-> <<own[i], 0>>]

RECURSIVE CloseLoop(_, _, _)
CloseLoop(rules, items, open) ==
  IF open = <<>> THEN items
  ELSE LET more == SelectSeq(MakeItemSet(rules, NextSymbol(rules, Last(open))),
                             LAMBDA item : item \notin ToSet(items))
       IN  CloseLoop(rules, items \o more, Front(open) \o more)

Close(rules, items) == CloseLoop(rules, items, items)

Advance(rules, items, X) ==
  LET past == SelectSeq(items, LAMBDA item : NextSymbol(rules, item) = X)
  IN  [i \in DOMAIN past |-> <<past[i][1], past[i][2] + 1>>]

\* The symbols behind the markers of a state, in their order.
ItemSetFollowers(rules, items) ==
  FoldLeft(LAMBDA found, item :
             LET X == NextSymbol(rules, item)
             IN  IF X \in {"none", EOF_TOKEN} \cup ToSet(found) THEN found ELSE Append(found, X),
           <<>>, items)

\* The states of an automaton under construction with that which state k
\* reaches through X, which is the last one if it is new.
AddTransition(rules, automaton, k, X) ==
  LET target == Close(rules, Advance(rules, automaton.states[k], X))
      known  == {q \in DOMAIN automaton.states : automaton.states[q] = target}
      states == IF known = {} THEN Append(automaton.states, target) ELSE automaton.states
      id     == IF known = {} THEN Len(states) ELSE CHOOSE q \in known : TRUE
  IN  [states |-> states, trans |-> automaton.trans \cup {<<k, X, id>>}]

RECURSIVE ItemSetLoop(_, _, _)
ItemSetLoop(rules, automaton, k) ==
  IF k > Len(automaton.states) THEN automaton
  ELSE ItemSetLoop(rules,
                   FoldLeft(LAMBDA a, X : AddTransition(rules, a, k, X), automaton,
                            ItemSetFollowers(rules, automaton.states[k])),
                   k + 1)

GenerateAllItemSets(rules) ==
  ItemSetLoop(rules, [states |-> <<Close(rules, MakeItemSet(rules, ROOT_NT))>>, trans |-> {}], 1)

-----------------------------------------------------------------------------
(* The tables.  An entry is a record, and an entry that the code lacks is  *)
(* not in the domain of its function.                                      *)

Shift(q)  == [do |-> "shift", param |-> q]
Reduce(r) == [do |-> "reduce", param |-> r]
Accept    == [do |-> "accept", param |-> 0]

Complete(rules, items) == {item[1] : item \in {i \in ToSet(items) : NextSymbol(rules, i) = "none"}}

\* The rules that a state may reduce by before terminal t.
Reductions(rules, items, follow, t) ==
  {r \in Complete(rules, items) : t \in follow[rules[r].lhs]}

\* The transitions from a state, the state one of them leads to, and the terminals
\* that can be shifted.
Out(auto, q)            == {edge \in auto.trans : edge[1] = q}
To(auto, q, X)          == (CHOOSE edge \in Out(auto, q) : edge[2] = X)[3]
Shifted(rules, auto, q) == {edge[2] : edge \in Out(auto, q)} \ NonTerminals(rules)

GotoRow(rules, auto, q) ==
  [A \in {edge[2] : edge \in Out(auto, q)} \cap NonTerminals(rules) |-> To(auto, q, A)]

AcceptsAt(rules, items) == \E item \in ToSet(items) : NextSymbol(rules, item) = EOF_TOKEN

\* The entry of state q for terminal t, given the rules to reduce by: a terminal
\* that can be shifted is.
Act(auto, q, t, shifted, accepts, reduced) ==
  IF t \in shifted THEN Shift(To(auto, q, t))
  ELSE IF t = EOF_TOKEN /\ accepts THEN Accept
  ELSE Reduce(CHOOSE r \in reduced : TRUE)

ActionRow(rules, auto, q, shifted, accepts, reduced) ==
  [t \in {u \in Terminals(rules) : u \in shifted \/ (u = EOF_TOKEN /\ accepts) \/ reduced[u] # {}} |->
     Act(auto, q, t, shifted, accepts, reduced[t])]

\* Where a shift rules out a reduction, the code warns and ignores the reduction.
Ignores(shifted, reduced) == \E t \in shifted : reduced[t] # {}

\* Any other conflict is an error.
Conflicts(rules, shifted, accepts, reduced) ==
  \E t \in Terminals(rules) \ shifted :
    \/ \E r, s \in reduced[t] : r # s
    \/ t = EOF_TOKEN /\ accepts /\ reduced[t] # {}

\* The parts of a state that its rows of the tables are made of.
Parts(rules, auto, follow, q) ==
  [shifted |-> Shifted(rules, auto, q),
   accepts |-> AcceptsAt(rules, auto.states[q]),
   reduced |-> [t \in Terminals(rules) |-> Reductions(rules, auto.states[q], follow, t)]]

\* The tables and what they are made from, whether they were made with a warning of
\* a conflict or of a nonterminal, and whether there is no parser at all.
BuildParseTables(rules, auto, parts, first, follow) ==
  [rules  |-> rules,
   first  |-> first,
   follow |-> follow,
   items  |-> [q \in DOMAIN parts |-> ToSet(auto.states[q])],
   goto   |-> [q \in DOMAIN parts |-> GotoRow(rules, auto, q)],
   action |-> [q \in DOMAIN parts |->
                 ActionRow(rules, auto, q, parts[q].shifted, parts[q].accepts, parts[q].reduced)],
   warned |-> \E q \in DOMAIN parts : Ignores(parts[q].shifted, parts[q].reduced),
   failed |-> \E q \in DOMAIN parts :
                Conflicts(rules, parts[q].shifted, parts[q].accepts, parts[q].reduced),
   startless |-> Startless(rules, first)]

PartsOf(rules, auto, follow) == [q \in DOMAIN auto.states |-> Parts(rules, auto, follow, q)]

FromAutomaton(rules, auto, first, follow) ==
  BuildParseTables(rules, auto, PartsOf(rules, auto, follow), first, follow)

FromSets(rules, first, follow) == FromAutomaton(rules, GenerateAllItemSets(rules), first, follow)
FromFirst(rules, first)        == FromSets(rules, first, FollowSets(rules, first))
FromRules(rules)               == FromFirst(rules, FirstSets(rules))

Generate(G) == FromRules(Rules(G))
=============================================================================
