--------------------------- MODULE MCPreprocessing ---------------------------
(* Sources and headers for TLC. *)
EXTENDS Preprocessing

X == Id("X")
Y == Id("Y")
F == Id("F")
G == Id("G")
P == Id("p")
Q == Id("q")
A == Id("a")
One == Num("1")
Two == Num("2")
Hash == Punct("#")
Comma == Punct(",")
Plus == Punct("+")
Minus == Punct("-")
SP == Whitespace
Parens(ts) == <<Punct("(")>> \o ts \o <<Punct(")")>>
Sep(l, r) == l \o <<SP>> \o r

Line(ts) == Append(ts, Newline)
Command(name, ts) == Line(<<Hash, Id(name)>> \o IF ts = <<>> THEN <<>> ELSE <<SP>> \o ts)
Define(name, body) == Command("define", <<name>> \o IF body = <<>> THEN <<>> ELSE <<SP>> \o body)
DefineFn(name, params, body) == Command("define", <<name>> \o Parens(params) \o IF body = <<>> THEN <<>> ELSE <<SP>> \o body)

\* objects that name each other
ObjectBodies == {<<>>, <<One>>, <<X>>, <<Y>>, Sep(<<A>>, <<Y>>), Sep(<<Y>>, <<X>>), <<Y, Plus, Y>>, <<Minus, Y>>}
Objects ==
  {Define(X, b) \o Define(Y, c) \o Line(u) : b \in ObjectBodies, c \in ObjectBodies, u \in {<<X>>, Sep(<<X>>, <<Y>>), <<Minus, X, Plus, X>>}}

\* functions that name each other
FBodies == {<<P>>, <<One>>, Sep(<<P>>, <<P>>), Sep(<<P>>, <<F>>), <<F>> \o Parens(<<P>>), <<X, SP, P>>, <<Hash, P>>, <<F, SP>> \o Parens(<<SP, P, SP>>), <<P, Hash, Hash, One>>,
            <<G>> \o Parens(<<P, Comma, SP, P>>), <<G>> \o Parens(<<SP, P, SP, Comma, One>>), <<G>>}
GBodies == {Sep(<<P>>, <<Q>>), <<Q, SP, F>> \o Parens(<<P>>), <<F>>, <<Hash, Q, Plus, P>>, <<P, SP, Hash, Hash, SP, Q>>}
XBodies == {<<F>>, <<A, Comma, Y>>, <<F>> \o Parens(<<Two>>), <<A, SP, F>>}
UsesOfX ==
  {<<F, SP>> \o Parens(<<X>>), <<G>> \o Parens(<<X, Comma, F>> \o Parens(<<One>>)), <<G>> \o Parens(Parens(<<One, Comma, Two>>) \o <<Comma, X>>),
   <<X>> \o Parens(<<One>>), <<G>> \o Parens(<<X>>), <<X>> \o Parens(<<One, Stray("@")>>)}
Uses ==
  {<<F>> \o Parens(<<One>>), <<F>> \o Parens(<<F>> \o Parens(<<One>>)), <<F>> \o Parens(<<F>>) \o Parens(<<One>>),
   <<G>> \o Parens(<<One, Comma, SP, Two>>), <<G>> \o Parens(<<One>>), <<F>> \o Parens(<<>>),
   <<F, Newline>> \o Parens(<<SP, One, SP, Plus, SP, Two>>), <<F, SP, One>>, <<F, Plus, F>>, <<F, Punct("("), One>>,
   <<F>> \o Parens(<<One, Stray("@")>>) \o <<A>>, <<F, Stray("@")>> \o Parens(<<One>>)}
Functions ==
  LET Source(b, c, x, u) == DefineFn(F, <<P>>, b) \o DefineFn(G, <<P, Comma, SP, Q>>, c) \o Define(X, x) \o Line(u)
  IN {Source(b, c, <<One>>, u) : b \in FBodies, c \in GBodies, u \in Uses \cup UsesOfX}
       \cup {Source(b, c, x, u) : b \in FBodies, c \in GBodies, x \in XBodies, u \in UsesOfX}

Ellipsis == Token("...", <<"...">>)
VA == Id("__VA_ARGS__")
Variadics ==
  {DefineFn(F, <<P, Comma, SP, Ellipsis>>, b) \o DefineFn(G, <<>>, c) \o Line(u) :
     b \in {<<P>>, Sep(<<P>>, <<VA>>), <<Hash, VA>>, <<G>> \o Parens(<<VA>>)}, c \in {<<One>>, <<>>, <<F>>},
     u \in {<<F>> \o Parens(<<One>>), <<F>> \o Parens(<<One, Comma, Two, Comma, A>>), <<G>> \o Parens(<<>>), <<G>> \o Parens(<<One>>), <<G>>,
            <<F>> \o Parens(<<G>> \o Parens(<<>>)), <<G>> \o Parens(<<>>) \o Parens(<<One, Comma, A>>)}}

\* files of three directives and text
MCHeaders ==
  (<<"h">> :> [local |-> TRUE, ts |-> Command("ifndef", <<Y>>) \o Define(Y, <<X>>) \o Line(Sep(<<X>>, <<A>>)) \o Command("endif", <<>>)])
    @@ (<<"e">> :> [local |-> FALSE, ts |-> Line(<<A, Stray("U+5")>>) \o Define(Y, <<One, SP, Stray("U+5")>>)])
    @@ (<<"s">> :> [local |-> FALSE, ts |-> Define(Y, <<Two>>) \o Line(<<Y, SP, X>>)])
Definitions == {Define(X, <<One>>), Define(X, <<Two>>), Define(X, <<Y>>), Command("undef", <<X>>)}
Includes ==
  {Command("include", <<Header("h", "quoted")>>), Command("include", <<Header("s", "angled")>>),
   Command("include", <<Header("s", "quoted")>>), Command("include", <<Header("x", "angled")>>)}
Text == {Line(<<X, Plus, Y>>)}
Wrong == {Line(<<Stray("@")>>), Command("undef", <<One>>), Command("x", <<>>)}
Ifs ==
  {Command("ifdef", <<X>>), Command("ifndef", <<Y>>), Command("if", <<X>>), Command("if", <<Punct("!"), Id("defined"), SP, X>>),
   Command("if", <<Id("defined")>> \o Parens(<<Y>>))}
Elses == {Command("elif", <<One>>), Command("elif", <<Punct("!"), X>>), Command("else", <<>>)}
Close_ == Command("endif", <<>>)
AnyLine == Definitions \cup Includes \cup Text \cup Wrong
Files ==
  LET use == Line(<<X, SP, Y>>)
  IN {a \o b \o c \o use : a \in AnyLine, b \in AnyLine, c \in Definitions \cup Includes \cup Text}
       \cup {a \o i \o b \o e \o c \o Close_ \o use :
               a \in Definitions \cup Includes, i \in Ifs, b \in Definitions \cup Includes, e \in Elses \cup {<<>>}, c \in Text}
       \cup {a \o b \o c \o Close_ \o use : a \in Ifs, b \in Elses \cup Ifs, c \in Elses \cup Ifs \cup {Close_}}
       \cup {Define(X, <<One>>) \o i \o j \o Text1 \o e \o Text1 \o Close_ \o f \o Text1 \o Close_ : i \in Ifs, j \in Ifs, e \in Elses, f \in Elses, Text1 \in Text}

\* conditions of one and two operators
CondOps2 == {Punct(o) : o \in {"||", "&&", "==", "<", "<<", "+", "-"}}
Operands2 == {<<Num("0")>>, <<One>>, <<X>>, <<Id("defined"), SP, Y>>}
Tests ==
  LET two == {l \o <<o>> \o r : l \in Operands2, o \in CondOps2, r \in Operands2 \cup {<<Two>>, <<Punct("!"), X>>, <<Minus, One>>, <<>>}}
      three == {l \o <<o>> \o m \o <<p>> \o r : l \in {<<Num("0")>>, <<X>>}, o \in CondOps2, m \in {<<One>>, <<Two>>}, p \in CondOps2, r \in {<<Num("0")>>, <<One>>}}
      grouped == {l \o <<o>> \o Parens(m \o <<p>> \o <<One>>) : l \in {<<Num("0")>>, <<X>>}, o \in CondOps2, m \in {<<One>>, <<Two>>}, p \in CondOps2}
      chosen == {c \o <<Punct("?")>> \o t \o <<Punct(":")>> \o e : c \in Operands2 \cup {<<X, Punct("=="), Two>>},
                   t \in Operands2, e \in Operands2 \cup {<<One, Punct("?"), Num("0"), Punct(":"), One>>, <<>>}}
  IN two \cup three \cup grouped \cup chosen
Conditions ==
  {Define(X, <<Two>>) \o Command("if", t) \o Line(<<X>>) \o Command("else", <<>>) \o Line(<<Y>>) \o Close_ : t \in Tests}

\* lines with characters that are no token, and lists that are none
Open == Punct("(")
Spoiled(c, e) ==
  {Define(X, <<One, SP, c>>), Define(X, <<c, SP, e>>), Command("define", <<X, c>>), Command("define", <<c, SP, X>>),
   DefineFn(F, <<P>>, <<P, SP, c>>), DefineFn(F, <<P, SP, c>>, <<P>>), DefineFn(F, <<c, SP, P>>, <<e>>),
   Command("pragma", <<c, SP, A>>), Command("warning", <<A, c, e>>), Command("error", <<A, c>>), Command("line", <<c>>),
   Command("undef", <<c>>), Command("undef", <<X, SP, c>>), Command("include", <<c, SP, A>>), Line(<<Hash, c, SP, X>>), Line(<<X, c, SP, e>>)}
Malformed ==
  {DefineFn(F, <<P, SP, Q>>, <<P>>), DefineFn(F, <<One, Comma, P>>, <<P>>), DefineFn(F, <<>>, <<A>>),
   Command("define", <<F, Open, P, Comma>>), Command("define", <<F, Open, P>>), Command("define", <<F, Open>>),
   Command("define", <<F, Open, P, Comma, Newline, Q, Punct(")"), SP, P>>), Command("define", <<>>), Command("define", <<One>>),
   Command("undef", <<>>), Command("include", <<>>), Line(<<Hash, One>>), Command("error", <<A>>), Command("line", <<One>>)}
Sound == {Define(X, <<A, SP, Id("b"), SP, F>>), DefineFn(F, <<P>>, <<P, SP, One>>), Command("include", <<Header("e", "angled")>>)}
ErrorUses ==
  LET m == Id("m")
      n == Id("n")
      bad == Stray("U+3")
      worse == Stray("U+4")
  IN {<<m, SP, X, SP, bad>> \o Parens(<<n>>), <<m, Newline, F>> \o Parens(<<bad, Newline, One>>) \o <<worse, Newline, n>>,
      <<X, bad>> \o Parens(<<One, worse>>) \o <<Newline, m>>}
Erroneous ==
  LET first == Spoiled(Stray("@"), Stray("$")) \cup Malformed \cup Sound
      next  == Spoiled(Stray("U+1"), Stray("U+2")) \cup Malformed \cup Sound \cup {Line(<<Hash>>)}
  IN {Line(<<Id("k")>>) \o a \o Line(<<Id("l")>>) \o b \o Line(u) : a \in first, b \in next, u \in ErrorUses}

MCSources == Erroneous \cup Objects \cup Functions \cup Variadics \cup Files \cup Conditions
=============================================================================
