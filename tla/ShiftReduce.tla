---------------------------- MODULE ShiftReduce ----------------------------
(***************************************************************************)
(* The parser that runs the generated tables, lib/utils/sr_parser_runtime. *)
(*                                                                         *)
(* A token is its terminal.  What a token or the value of a semantic       *)
(* action is, is abstracted to the symbol that it stands for and to the    *)
(* numbers of the tokens it was made from.                                 *)
(***************************************************************************)
EXTENDS Integers, Sequences, SequencesExt

CONSTANTS
  EOF,       \* the terminal behind the last token
  Start,     \* where grammars start
  Root,      \* the nonterminal that the generator adds, Root -> Start EOF
  Grammars,  \* the grammars there are parsers for
  Table,     \* their parsers: rules, goto, action, first and follow sets, and items
  Inputs,    \* the sequences of tokens that each of them is given
  Sentences  \* derivations of sentences of each grammar

NoState == 0

States(p) == DOMAIN p.items
Rule(p, r) == p.rules[r]

\* Where the transitions of the automaton lead, by a token or by a nonterminal.
Successor(p, q, X) ==
  IF X \in DOMAIN p.goto[q] THEN p.goto[q][X]
  ELSE p.action[q][X].param

Moves(p, q) == DOMAIN p.goto[q] \cup
               {t \in DOMAIN p.action[q] : p.action[q][t].do = "shift"}

Nonterminals(p) == {Rule(p, r).lhs : r \in DOMAIN p.rules}

TableTyped(p) ==
  /\ 1 \in States(p) /\ NoState \notin States(p)
  /\ p.rules \in Seq([lhs : STRING, rhs : Seq(STRING)])
  /\ \A q \in States(p) :
       /\ \A X \in Moves(p, q) : X # EOF /\ Successor(p, q, X) \in States(p) \ {1}
       /\ DOMAIN p.goto[q] \subseteq STRING
       /\ \A t \in DOMAIN p.action[q] :
            /\ p.action[q][t].do \in {"accept", "shift", "reduce"}
            /\ p.action[q][t].do = "shift" => t \notin Nonterminals(p)
            /\ t \notin DOMAIN p.goto[q]

\* What the items of a state say: of what is on the stack, of where to go with
\* a nonterminal, and of what to do.
ItemsRight(p) ==
  /\ \A q \in States(p) : \A item \in p.items[q] :
       /\ item \in Nat \X Nat
       /\ item[1] \in DOMAIN p.rules /\ item[2] <= Len(Rule(p, item[1]).rhs)
       /\ item[2] = 0 => IF Rule(p, item[1]).lhs = Root THEN q = 1
                         ELSE Rule(p, item[1]).lhs \in DOMAIN p.goto[q]
  /\ \A item \in p.items[1] : item[2] = 0
  /\ \A q \in States(p) : \A X \in Moves(p, q) :
       \A item \in p.items[Successor(p, q, X)] :
         item[2] # 0 => /\ Rule(p, item[1]).rhs[item[2]] = X
                        /\ <<item[1], item[2] - 1>> \in p.items[q]
  /\ \A q \in States(p) : \A t \in DOMAIN p.action[q] :
       LET entry == p.action[q][t]
       IN  /\ entry.do = "reduce" =>
                /\ <<entry.param, Len(Rule(p, entry.param).rhs)>> \in p.items[q]
                /\ Rule(p, entry.param).lhs # Root /\ Rule(p, entry.param).rhs # <<>>
           /\ entry.do = "accept" =>
                /\ t = EOF
                /\ \E r \in DOMAIN p.rules :
                     Rule(p, r) = [lhs |-> Root, rhs |-> <<Start, EOF>>] /\ <<r, 1>> \in p.items[q]

\* Neither of a conflict nor of a nonterminal has the generator warned.
Unwarned(p) == ~p.warned /\ ~p.startless

\* The rules with one symbol on their right that some entry reduces by, and that
\* none of them leads back to itself: of several there is one that puts down what
\* no other of them takes.
UnitRules(p) ==
  {r \in DOMAIN p.rules :
     /\ Len(Rule(p, r).rhs) = 1
     /\ \E q \in States(p) : \E t \in DOMAIN p.action[q] :
          p.action[q][t].do = "reduce" /\ p.action[q][t].param = r}

NoUnitCycle(p) ==
  \A C \in (SUBSET UnitRules(p)) \ {{}} :
    \E r \in C : \A s \in C : Rule(p, s).rhs[1] # Rule(p, r).lhs

\* The tables are those of an LR automaton, and no token is the end.
ASSUME TableAssumption ==
  /\ \A g \in Grammars : TableTyped(Table[g]) /\ ItemsRight(Table[g])
  /\ \A g \in Grammars : \A s \in Inputs[g] : s \in Seq(STRING \ {EOF})

\* Tables made without a warning have no such cycle: the nonterminals on it are
\* followed by the same terminals, and a state where it begins has an item that
\* is not on it, which leads to a conflict with one of these terminals.
ASSUME CycleAssumption == \A g \in Grammars : Unwarned(Table[g]) => NoUnitCycle(Table[g])

\* What is in the sets that the generator makes: the terminals that start what
\* a nonterminal derives, and those that can come after it.
FirstOf(p, X) == IF X \in Nonterminals(p) THEN p.first[X] ELSE {X}

SetsRight(p) ==
  \A r \in DOMAIN p.rules :
    LET A == Rule(p, r).lhs
        rhs == Rule(p, r).rhs
    IN  /\ rhs # <<>>
        /\ FirstOf(p, rhs[1]) \subseteq p.first[A]
        /\ \A i \in 1 .. Len(rhs) :
             rhs[i] \in Nonterminals(p) =>
               IF i = Len(rhs) THEN p.follow[A] \subseteq p.follow[rhs[i]]
               ELSE FirstOf(p, rhs[i + 1]) \subseteq p.follow[rhs[i]]

\* That nothing is missing: a state has the items of all rules for a symbol that
\* one of its items awaits, a way to go on with this symbol, and an entry for
\* whatever can follow an item that awaits nothing more.
ItemsComplete(p) ==
  /\ EOF \notin Nonterminals(p)
  /\ \E r \in DOMAIN p.rules : /\ Rule(p, r) = [lhs |-> Root, rhs |-> <<Start, EOF>>]
                              /\ <<r, 0>> \in p.items[1]
  /\ \A q \in States(p) : DOMAIN p.goto[q] \subseteq Nonterminals(p)
  /\ \A q \in States(p) : \A item \in p.items[q] :
       LET rhs == Rule(p, item[1]).rhs
           X == rhs[item[2] + 1]
       IN  IF item[2] = Len(rhs) THEN
             \A t \in p.follow[Rule(p, item[1]).lhs] :
               /\ t \in DOMAIN p.action[q]
               /\ p.warned \/ p.action[q][t] = [do |-> "reduce", param |-> item[1]]
           ELSE
             /\ \A r \in DOMAIN p.rules : Rule(p, r).lhs = X => <<r, 0>> \in p.items[q]
             /\ IF X = EOF THEN EOF \in DOMAIN p.action[q] /\ p.action[q][EOF].do = "accept"
                ELSE X \in Moves(p, q) /\ <<item[1], item[2] + 1>> \in p.items[Successor(p, q, X)]

ASSUME CompleteAssumption == \A g \in Grammars : SetsRight(Table[g]) /\ ItemsComplete(Table[g])

\* Form y comes from x by rule r at place n, the place of the last nonterminal.
ExpandsAt(p, r, n, x, y) ==
  /\ n \in 1 .. Len(x) /\ x[n] = Rule(p, r).lhs
  /\ \A j \in n + 1 .. Len(x) : x[j] \notin Nonterminals(p)
  /\ y = SubSeq(x, 1, n - 1) \o Rule(p, r).rhs \o SubSeq(x, n + 1, Len(x))

\* A rightmost derivation, backwards: tokens, rules, and the forms between them.
IsDerivation(p, d) ==
  /\ d.rules \in Seq(DOMAIN p.rules)
  /\ d.forms \in Seq(Seq(STRING \ {EOF})) /\ Len(d.forms) = Len(d.rules) + 1
  /\ d.forms[1] = d.tokens /\ \A j \in 1 .. Len(d.tokens) : d.tokens[j] \notin Nonterminals(p)
  /\ d.forms[Len(d.rules) + 1] = <<Start>>
  /\ \A i \in 1 .. Len(d.rules) : \E n \in 1 .. Len(d.forms[i + 1]) :
       ExpandsAt(p, d.rules[i], n, d.forms[i + 1], d.forms[i])

ASSUME SentencesAssumption ==
  \A g \in Grammars : \A d \in Sentences[g] : IsDerivation(Table[g], d)

VARIABLES
  grammar,    \* the grammar of the parser
  input,      \* the tokens to parse
  pos,        \* number of the next token
  stack,      \* states, the last one on top
  results,    \* what the symbols on the stack stand for, one for each state
  output,     \* the rules reduced by
  outcome     \* how the parse ended

vars == <<grammar, input, pos, stack, results, output, outcome>>

Nothing == [sym |-> "none", from |-> 1, to |-> 0]

Result == [sym : STRING \cup {"none"}, from : Nat \ {0}, to : Nat]

TypeOK ==
  /\ grammar \in Grammars /\ input \in Inputs[grammar]
  /\ pos \in 1 .. Len(input) + 1
  /\ stack \in Seq(States(Table[grammar]) \cup {NoState}) /\ stack # <<>>
  /\ results \in Seq(Result) /\ Len(results) = Len(stack)
  /\ output \in Seq(DOMAIN Table[grammar].rules)
  /\ outcome \in {"running", "accepted", "error", "thrown"}

Init ==
  /\ grammar \in Grammars /\ input \in Inputs[grammar]
  /\ pos = 1
  /\ stack = <<1>> /\ results = <<Nothing>>
  /\ output = <<>>
  /\ outcome = "running"

Top == stack[Len(stack)]

NextToken == IF pos <= Len(input) THEN input[pos] ELSE EOF

\* The tokens that the parser can go on with, and that it lists if it cannot.
Expected == DOMAIN Table[grammar].action[Top]

Entry == Table[grammar].action[Top][NextToken]

Unexpected ==
  /\ outcome = "running" /\ Top # NoState
  /\ NextToken \notin Expected
  /\ outcome' = "error"
  /\ UNCHANGED <<grammar, input, pos, stack, results, output>>

AcceptInput ==
  /\ outcome = "running" /\ Top # NoState
  /\ NextToken \in Expected /\ Entry.do = "accept"
  /\ outcome' = "accepted"
  /\ UNCHANGED <<grammar, input, pos, stack, results, output>>

ShiftToken ==
  /\ outcome = "running" /\ Top # NoState
  /\ NextToken \in Expected /\ Entry.do = "shift"
  /\ stack' = Append(stack, Entry.param)
  /\ results' = Append(results, [sym |-> NextToken, from |-> pos, to |-> pos])
  /\ pos' = pos + 1
  /\ UNCHANGED <<grammar, input, output, outcome>>

\* Mutant: the element on top is not among them.
Popped_below(s, n) == SubSeq(s, IF n < Len(s) THEN Len(s) - n ELSE 1, Len(s) - 1)

\* The last n elements of a sequence, or all of it if it is shorter, and what
\* is before them.
Popped(s, n) == SubSeq(s, IF n < Len(s) THEN Len(s) - n + 1 ELSE 1, Len(s))
Rest(s, n)   == SubSeq(s, 1, Len(s) - n)

\* The state after nonterminal A, above state q.
Goto(q, A) == IF A \in DOMAIN Table[grammar].goto[q] THEN Table[grammar].goto[q][A] ELSE NoState

\* Mutants: the goto is that of the state on top; the rule is put before the
\* others; the state above the only symbol of a rule stays.
ReduceRule_goto ==
  /\ outcome = "running" /\ Top # NoState
  /\ NextToken \in Expected /\ Entry.do = "reduce"
  /\ LET rule  == Rule(Table[grammar], Entry.param)
         arity == Len(rule.rhs)
         args  == Popped(results, arity)
     IN  /\ stack' = Append(Rest(stack, arity), Goto(Top, rule.lhs))
         /\ results' = Append(Rest(results, arity),
                              [sym |-> rule.lhs, from |-> args[1].from, to |-> args[arity].to])
  /\ output' = Append(output, Entry.param)
  /\ UNCHANGED <<grammar, input, pos, outcome>>

ReduceRule_front ==
  /\ outcome = "running" /\ Top # NoState
  /\ NextToken \in Expected /\ Entry.do = "reduce"
  /\ LET rule  == Rule(Table[grammar], Entry.param)
         arity == Len(rule.rhs)
         args  == Popped(results, arity)
         below == Rest(stack, arity)
     IN  /\ stack' = Append(below, Goto(below[Len(below)], rule.lhs))
         /\ results' = Append(Rest(results, arity),
                              [sym |-> rule.lhs, from |-> args[1].from, to |-> args[arity].to])
  /\ output' = <<Entry.param>> \o output
  /\ UNCHANGED <<grammar, input, pos, outcome>>

ReduceRule_stays ==
  /\ outcome = "running" /\ Top # NoState
  /\ NextToken \in Expected /\ Entry.do = "reduce"
  /\ LET rule  == Rule(Table[grammar], Entry.param)
         arity == Len(rule.rhs)
         args  == Popped(results, arity)
         below == Rest(stack, arity)
     IN  /\ stack' = IF arity = 1 THEN stack ELSE Append(below, Goto(below[Len(below)], rule.lhs))
         /\ results' = Append(Rest(results, arity),
                              [sym |-> rule.lhs, from |-> args[1].from, to |-> args[arity].to])
  /\ output' = Append(output, Entry.param)
  /\ UNCHANGED <<grammar, input, pos, outcome>>

\* The right side of a rule is replaced by the value of its semantic action,
\* and the parser goes on from the state below.
ReduceRule ==
  /\ outcome = "running" /\ Top # NoState
  /\ NextToken \in Expected /\ Entry.do = "reduce"
  /\ LET rule  == Rule(Table[grammar], Entry.param)
         arity == Len(rule.rhs)
         args  == Popped(results, arity)
         below == Rest(stack, arity)
     IN  /\ stack' = Append(below, Goto(below[Len(below)], rule.lhs))
         /\ results' = Append(Rest(results, arity),
                              [sym |-> rule.lhs, from |-> args[1].from, to |-> args[arity].to])
  /\ output' = Append(output, Entry.param)
  /\ UNCHANGED <<grammar, input, pos, outcome>>

\* A semantic action throws, by $.error or otherwise, and ends the parse.
ActionThrows ==
  /\ outcome = "running" /\ Top # NoState
  /\ NextToken \in Expected /\ Entry.do = "reduce"
  /\ outcome' = "thrown"
  /\ UNCHANGED <<grammar, input, pos, stack, results, output>>

Next == Unexpected \/ AcceptInput \/ ShiftToken \/ ReduceRule \/ ActionThrows

Spec == Init /\ [][Next]_vars

-----------------------------------------------------------------------------
(* Correctness.                                                            *)

\* The parser never comes to a state that it has no number for.
NeverLost == Top # NoState

Tiles(rs, n) ==
  /\ \A i \in 2 .. Len(rs) : rs[i].from = rs[i - 1].to + 1 /\ rs[i].from <= rs[i].to
  /\ rs[Len(rs)].to = n

\* The symbols on the stack stand for the tokens read so far, each for some
\* of them, in their order and with none left out.
Tiled == Tiles(results, pos - 1)

\* What a semantic action is called with are the symbols of its rule, and the
\* state below them has one to go on with: GOTO has no undefined entry where the
\* parser looks.
ArgumentsFit ==
  outcome = "running" /\ Top # NoState /\ NextToken \in Expected /\ Entry.do = "reduce" =>
    LET rule == Rule(Table[grammar], Entry.param)
        rhs  == rule.rhs
    IN  /\ Len(rhs) < Len(stack)
        /\ \A i \in DOMAIN rhs : results[Len(results) - Len(rhs) + i].sym = rhs[i]
        /\ Goto(stack[Len(stack) - Len(rhs)], rule.lhs) # NoState

\* What is accepted is the whole input, as one symbol, that of the start.
WholeAccepted ==
  outcome = "accepted" => /\ pos = Len(input) + 1 /\ Len(results) = 2
                          /\ results[2] = [sym |-> Start, from |-> 1, to |-> Len(input)]

\* What symbols come from by rule r, which put its left side where the last
\* nonterminal is now.
Undo(p, r, symbols) ==
  LET rule == Rule(p, r)
      last == {i \in DOMAIN symbols :
                 /\ symbols[i] = rule.lhs
                 /\ \A j \in i + 1 .. Len(symbols) : symbols[j] \notin Nonterminals(p)}
      at   == CHOOSE i \in last : TRUE
  IN  IF last = {} THEN <<"none">>
      ELSE SubSeq(symbols, 1, at - 1) \o rule.rhs \o SubSeq(symbols, at + 1, Len(symbols))

\* What they come from by a sequence of rules, of which the last is undone first.
Undone(p, rules, symbols) ==
  LET before[i \in 1 .. Len(rules) + 1] ==
        IF i = Len(rules) + 1 THEN symbols ELSE Undo(p, rules[i], before[i + 1])
  IN  before[1]

Symbols == [i \in 1 .. Len(results) - 1 |-> results[i + 1].sym]

\* The rules put out so far are a rightmost derivation, backwards, of the tokens
\* read so far from the symbols on the stack.
OutputDerives == Undone(Table[grammar], output, Symbols) = SubSeq(input, 1, pos - 1)

\* What is accepted is the whole input; the rules put out are a derivation of it
\* from the start symbol and, without conflicts, it has no other.
OnlyDerivation ==
  outcome = "accepted" =>
    /\ WholeAccepted
    /\ Undone(Table[grammar], output, <<Start>>) = input
    /\ \/ Table[grammar].warned
       \/ \A d \in Sentences[grammar] : d.tokens = input => d.rules = output

\* The sentence that d derives goes on as the input does, as far as the parser has
\* seen it.
Agrees(d) ==
  IF pos > Len(input) THEN d.tokens = input ELSE IsPrefix(SubSeq(input, 1, pos), d.tokens)

\* Without conflicts, a parse ends with an error only if no sentence goes on
\* as the input does.
ErrorsAreReal ==
  outcome = "error" /\ ~Table[grammar].warned => \A d \in Sentences[grammar] : ~Agrees(d)

\* Without warnings no more rules are put out than a tree over the tokens read
\* so far has nodes, if no symbol is above itself without another beside it.
ReducesBounded ==
  Unwarned(Table[grammar]) =>
    Len(output) <= 2 * (pos - 1) * Len(Table[grammar].rules)
=============================================================================
