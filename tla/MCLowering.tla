----------------------------- MODULE MCLowering -----------------------------
(***************************************************************************)
(* Programs for Lowering and LoweringSemantics: every syntax tree over a   *)
(* vocabulary of statements, of at most a given number of nodes.  Trees    *)
(* are kept in sequences until the end: TLC normalises a set only once.    *)
(***************************************************************************)
EXTENDS Lowering, SequencesExt

Fragment(kind, kids, opts) ==
  [kind |-> kind, kids |-> kids, opts |-> opts,
   val  |-> IF kind \in {"case", "label", "goto"} THEN 1 ELSE 0]

Cross(Op(_, _), s, t) ==
  [i \in 1..Len(s) * Len(t) |->
     Op(s[(i - 1) \div Len(t) + 1], t[((i - 1) % Len(t)) + 1])] \o <<>>

\* Trees are tables whose kids are offsets from their parent until Absolute.
Absolute(tree, base) ==
  [n \in DOMAIN tree |->
     [tree[n] EXCEPT !.kids = [i \in DOMAIN @ |-> @[i] + n + base]]]

Leaf(kind) == <<Fragment(kind, <<>>, {})>>

\* what can stand above one statement: a for takes its init statement along
Above(kind) ==
  IF kind = "for"
  THEN [i \in 1..4 |-> <<Fragment("for", <<1, 2>>, <<{}, {"cond"}, {"post"}, Opts>>[i]),
                         Fragment("decl", <<>>, {})>>]
  ELSE <<<<Fragment(kind, <<1>>, {})>>>>

Join(s, t)    == s \o t
Pair(t, u)    == <<t, u>>
Fork(kind, p) == <<Fragment(kind, <<1, 1 + Len(p[1])>>, {})>> \o p[1] \o p[2]

\* the trees of k nodes, not counting the init statement of a for, from
\* levels[i], those of i < k nodes
Level(unary, binary, levels, k) ==
  Cross(Join, FlattenSeq([i \in DOMAIN unary |-> Above(unary[i])]), levels[k - 1])
  \o FlattenSeq([j \in 1..k - 2 |->
                   Cross(Fork, binary, Cross(Pair, levels[j], levels[k - 1 - j]))])

Bodies(leaves, unary, binary, size) ==
  LET one    == [i \in DOMAIN leaves |-> Leaf(leaves[i])] \o <<>>
      levels == FoldLeft(LAMBDA done, k : Append(done, Level(unary, binary, done, k)),
                         <<one>>, [k \in 1..size - 1 |-> k + 1])
  IN  FlattenSeq(levels)

Program1(t, r) == [node |-> Absolute(t, 0), fns |-> <<[body |-> 1, ret |-> r]>>]

Program2(p, r) ==
  [node |-> Absolute(p[1], 0) \o Absolute(p[2], Len(p[1])),
   fns  |-> <<[body |-> 1, ret |-> r[1]], [body |-> Len(p[1]) + 1, ret |-> r[2]]>>]

OneFunction(bodies) == Cross(Program1, bodies, <<"void">>)

TwoFunctions(bodies, rets) ==
  Cross(Program2, Cross(Pair, bodies, bodies), Cross(Pair, rets, rets))

-----------------------------------------------------------------------------
(* The programs of the runs.  Family is a constant and the families are     *)
(* operators so that TLC builds only the one it checks.                     *)

CONSTANT Family

\* every kind of statement
AllStatements(size) ==
  OneFunction(Bodies(<<"expr", "break", "goto", "return", "continue">>,
                     <<"switch", "case", "default", "label", "if", "while", "do", "for">>,
                     <<"if", "compound">>, size))

\* what one function leaves to the next, and how a function ends
Functions(size) ==
  TwoFunctions(Bodies(<<"expr", "return", "break">>, <<"while", "switch", "if">>, <<"if">>, size),
               <<"void", "value", "main">>)

Loops(kinds, size) ==
  OneFunction(Bodies(<<"expr", "break", "continue">>, kinds \o <<"if">>, <<"if", "compound">>, size))

Switches(size) ==
  OneFunction(Bodies(<<"expr", "break">>, <<"switch", "case", "default", "while">>,
                     <<"compound">>, size))

Labels(size) ==
  OneFunction(Bodies(<<"expr", "goto">>, <<"label", "if", "while">>, <<"if", "compound">>, size))

Listed ==
  CASE Family = "structure" -> AllStatements(4) \o Functions(3)
    [] Family = "executed"  -> FlattenSeq(<<Loops(<<"while", "do">>, 5), Loops(<<"for">>, 5),
                                            Loops(<<"while", "for", "do">>, 4),
                                            Switches(6), Labels(5)>>)
    [] Family = "continues" -> OneFunction(Bodies(<<"expr", "continue">>, <<"while">>,
                                                  <<"compound">>, 4))
    [] Family = "labels"    -> TwoFunctions(Bodies(<<"expr", "goto">>, <<"label">>, <<>>, 2),
                                            <<"void">>)

MCPrograms == ToSet(Listed)

=============================================================================
