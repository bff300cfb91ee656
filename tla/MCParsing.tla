----------------------------- MODULE MCParsing -----------------------------
(* The trees and the sources for TLC. *)
EXTENDS ParsingProperties

List(nodes) == N("list", "", nodes)
IdNode(name) == N("id", name, <<>>)
One == N("lit", "1", <<>>)
A == IdNode("a")
B == IdNode("b")
UnitNode(k) == N("unit", k, <<>>)
IntSpecs == List(<<UnitNode("int")>>)
TypeNode(chain) == N("type", "", <<IntSpecs, List(chain)>>)
Variable(chain, init) == N("init_declarator", "", <<List(chain), init>>)
Declaration(specs, inits) == N("declaration", "", <<List(specs), List(inits)>>)
Holding(e) == Declaration(<<UnitNode("int")>>, <<Variable(<<IdNode("v")>>, e)>>)
Pointer(quals) == N("pointer", "", <<List(quals)>>)
ArrayOf(size) == N("array", "", <<size>>)
Function(params, rest) == N("function", rest, <<List(params)>>)

\* an expression with a hole at each of its places, filled with x
OfBinaries(ks, x) ==
  FlattenSeq([i \in DOMAIN ks |-> <<N("binary", ks[i], <<x, B>>), N("binary", ks[i], <<A, x>>)>>])
OfOthers(x) ==
  <<N("?", "", <<x, A, B>>), N("?", "", <<A, x, B>>), N("?", "", <<A, B, x>>), N("sizeof", "", <<x>>),
    N("cast", "", <<TypeNode(<<>>), x>>), N("postfix", "++", <<x>>), N(".", "", <<x, B>>), N("->", "", <<x, B>>),
    N("[", "", <<x, B>>), N("[", "", <<A, x>>), N("call", "", <<x, List(<<>>)>>), N("call", "", <<A, List(<<x, One>>)>>),
    N("prefix", "-", <<x>>), N("prefix", "~", <<x>>), N("prefix", "++", <<x>>)>>
AllBinary == <<",", "=", "+=", "||", "&&", "|", "^", "&", "==", "<", "<<", "+", "-", "*", "/">>
SomeBinary == <<",", "=", "||", "+">>
\* the expressions of Fill(x) for each x
Each(xs, Fill(_)) == FlattenSeq([i \in DOMAIN xs |-> Fill(xs[i])])

Expressions ==
  Each(OfBinaries(AllBinary, One), LAMBDA x : OfBinaries(AllBinary, x))
    \o Each(OfOthers(One), LAMBDA x : OfBinaries(SomeBinary, x) \o OfOthers(x))
    \o Each(OfBinaries(SomeBinary, One), OfOthers)

\* A comma expression is no initializer.
NoComma(e) == IF LevelOf(e) = CComma THEN N("[", "", <<A, e>>) ELSE e


Fill(xs, F(_)) == LET ys == xs IN <<>> \o [i \in DOMAIN ys |-> F(ys[i])]
Pairs(xs, ys, F(_, _)) == Each(xs, LAMBDA x : Fill(ys, LAMBDA y : F(x, y)))

\* declarators, from the outside in
Plain == <<Pointer(<<>>), ArrayOf(A), Function(<<TypeNode(<<>>)>>, "")>>
Others == <<Pointer(<<UnitNode("const"), UnitNode("volatile")>>), ArrayOf(Nothing), Function(<<>>, ""),
            Function(<<TypeNode(<<Pointer(<<>>), A>>), TypeNode(<<>>)>>, "...")>>
Chains1 == Fill(Plain \o Others, LAMBDA p : <<p>>)
Chains2 == Pairs(Plain, Plain, LAMBDA p, q : <<p, q>>)
Chains3 == Pairs(Chains2, Plain, LAMBDA c, q : Append(c, q))
Named(name, chain) == Append(chain, IdNode(name))
Variables ==
  Fill(Chains1 \o Chains2 \o Chains3, LAMBDA c : Declaration(<<UnitNode("int")>>, <<Variable(Named("v", c), Nothing), Variable(<<B>>, One)>>))
AbstractUses ==
  Each(Chains1 \o Chains2, LAMBDA c : <<
    Holding(N("sizeof", "", <<TypeNode(c)>>)), Holding(N("cast", "", <<TypeNode(c), A>>)),
    Declaration(<<UnitNode("void")>>, <<Variable(<<Function(<<TypeNode(c), TypeNode(Named("a", c))>>, ""), IdNode("f")>>, Nothing)>>)>>)

\* specifiers
Field(specs, ds) == N("field", "", <<List(specs), List(ds)>>)
Member(chain, bits) == N("declarator", "", <<chain, bits>>)
TwoFields == List(<<Field(<<UnitNode("int")>>, <<Member(List(<<A>>), One), Member(List(<<Pointer(<<>>), B>>), Nothing)>>),
                    Field(<<UnitNode("char")>>, <<Member(Nothing, One)>>)>>)
Enumerators == List(<<N("enumerator", "", <<A, Nothing>>), N("enumerator", "", <<B, N("?", "", <<A, One, B>>)>>)>>)
Specifiers ==
  <<N("struct", "", <<TwoFields>>), N("struct", "s", <<TwoFields>>), N("struct", "s", <<>>), N("union", "u", <<>>),
    N("union", "", <<List(<<Field(<<N("struct", "", <<TwoFields>>)>>, <<Member(List(<<A>>), Nothing)>>)>>)>>),
    N("enum", "", <<Enumerators>>), N("enum", "e", <<Enumerators>>), N("enum", "e", <<>>)>>
OfSpecifiers ==
  Each(Specifiers, LAMBDA s : <<Declaration(<<s>>, <<>>), Declaration(<<UnitNode("static"), s>>, <<Variable(<<IdNode("v")>>, Nothing)>>),
                                Holding(N("sizeof", "", <<N("type", "", <<List(<<s>>), List(<<Pointer(<<>>)>>)>>)>>))>>)
BracesOf(es) == N("braces", "", <<List(es)>>)
Initializers ==
  Fill(<<BracesOf(<<>>), BracesOf(<<A, BracesOf(<<One, B>>)>>), BracesOf(<<BracesOf(<<BracesOf(<<A>>)>>), N("binary", "=", <<A, B>>)>>),
         N("str", "s", <<>>)>>, Holding)

\* statements
Definition(specs, chain, body) == N("definition", "", <<List(specs), Variable(chain, Nothing), N("block", "", body)>>)
InFunction(s) == Definition(<<UnitNode("void")>>, <<Function(<<>>, ""), IdNode("f")>>, <<s>>)
Leaves == <<Skip, A, N("return", "", <<Nothing>>), N("goto", "", <<A>>), Holding(One)>>
RECURSIVE OpenIf(_)
OpenIf(s) ==
  \/ s.o = "if" /\ Len(s.a) = 2
  \/ s.o \in {"if", "while", "switch", "for", "case", "default", "label"} /\ OpenIf(Last(s.a))
StatementsOf(x) ==
  <<N("block", "", <<x>>), N("block", "", <<x, x>>), N("if", "", <<A, x>>), N("if", "", <<A, Skip, x>>), N("while", "", <<A, x>>), N("switch", "", <<A, x>>),
    N("do", "", <<x, A>>), N("for", "", <<Skip, Nothing, Nothing, x>>), N("for", "", <<A, One, B, x>>),
    N("for", "", <<Holding(One), A, Nothing, x>>), N("case", "", <<One, x>>), N("default", "", <<x>>), N("label", "", <<A, x>>)>>
    \o IF OpenIf(x) THEN <<>> ELSE <<N("if", "", <<A, x, B>>)>>
Shallow == Each(Leaves, StatementsOf)
Statements == Fill(Leaves \o Shallow \o Each(StatementsOf(A), StatementsOf) \o <<N("return", "", <<A>>)>>, InFunction)
Definitions ==
  Fill(Chains1, LAMBDA c : Definition(<<UnitNode("int")>>, Named("f", c \o <<Function(<<TypeNode(<<A>>)>>, "...")>>), <<>>))

Single == Fill(Expressions, LAMBDA e : Holding(NoComma(e))) \o Variables \o AbstractUses \o OfSpecifiers \o Initializers \o Statements \o Definitions

\* typedef names
TypedefT == Declaration(<<UnitNode("typedef"), UnitNode("int")>>, <<Variable(<<IdNode("T")>>, Nothing)>>)
OfT == <<N("named", "T", <<>>)>>
WithTypedefs ==
  <<<<TypedefT, Declaration(OfT, <<Variable(<<IdNode("v")>>, Nothing)>>)>>,
    <<TypedefT, Declaration(OfT, <<Variable(<<IdNode("T")>>, Nothing)>>)>>,
    <<TypedefT, Holding(N("cast", "", <<N("type", "", <<List(OfT), List(<<>>)>>), A>>))>>,
    <<TypedefT, InFunction(Declaration(OfT, <<Variable(<<Pointer(<<>>), IdNode("v")>>, Nothing)>>))>>,
    <<InFunction(TypedefT), Holding(One)>>,
    <<TypedefT, InFunction(N("for", "", <<Declaration(OfT, <<Variable(<<A>>, One)>>), Nothing, Nothing, Skip>>))>>,
    <<TypedefT, InFunction(Declaration(<<UnitNode("int")>>, <<Variable(<<IdNode("T")>>, Nothing)>>))>>,
    <<TypedefT, Definition(<<UnitNode("int")>>, <<Function(<<TypeNode(<<IdNode("T")>>)>>, ""), IdNode("f")>>, <<>>)>>,
    <<TypedefT, Declaration(<<N("struct", "", <<List(<<Field(<<UnitNode("int")>>, <<Member(List(<<IdNode("T")>>), Nothing)>>)>>)>>)>>, <<>>)>>,
    <<TypedefT, InFunction(N("label", "", <<IdNode("T"), A>>))>>,
    <<TypedefT, TypedefT>>,
    <<InFunction(TypedefT), Declaration(<<UnitNode("int")>>, <<Variable(<<IdNode("T")>>, Nothing)>>)>>,
    <<InFunction(TypedefT), Holding(N("binary", "+", <<IdNode("T"), N(".", "", <<A, IdNode("T")>>)>>))>>>>

MCPrograms == Fill(Single, LAMBDA t : <<t>>) \o WithTypedefs

\* one or two tokens of any kind at a place where something else belongs
Alphabet ==
  Words(<<"(", ")", "{", "}", "[", "]", ";", ",", "*", "int", "=", "else", ":", "struct", "error", " ">>)
    \o <<Id("a"), Id("T"), NamedToken("lit", "1"), NamedToken("lit", "bad"), NamedToken("str", "s")>>
Strings == Fill(Alphabet, LAMBDA t : <<t>>) \o Pairs(Alphabet, Alphabet, LAMBDA t, u : <<t, u>>)
Contexts ==
  <<[before |-> <<>>, after |-> <<>>],
    [before |-> <<Word("int"), Id("a")>>, after |-> Words(<<";">>)],
    [before |-> <<Word("int"), Id("a")>> \o Words(<<"=", "{">>), after |-> Words(<<"}", ";">>)],
    [before |-> Words(<<"struct", "{">>), after |-> Words(<<"}", ";">>)],
    [before |-> <<Word("int"), Id("f")>> \o Words(<<"(", ")", "{">>), after |-> Words(<<"}">>)],
    [before |-> <<Word("int"), Id("f")>> \o Words(<<"(", ")", "{", "(">>), after |-> Words(<<")", ";", "}">>)]>>
IntZ == Declaration(<<UnitNode("int")>>, <<Variable(<<IdNode("z")>>, Nothing)>>)
\* the noise leaves the last token of its context the only semicolon
Separates(c, s) == c.after # <<>> /\ Last(c.after).k = ";" /\ \A i \in DOMAIN s : s[i].k \notin {";", "{", "}"}
InContext(c, s) ==
  [tokens |-> Sentence(TypedefT) \o c.before \o s \o c.after \o Sentence(IntZ),
   following |-> IF Separates(c, s) THEN <<IntZ>> ELSE <<>>]
\* more parentheses than the recursion guard allows
Nested == [tokens |-> <<Word("int"), Id("a"), Word("=")>> \o [i \in 1..MAX_DEPTH |-> Word("(")], following |-> <<>>]
MCNoise == Pairs(Contexts, Strings, InContext) \o <<Nested>>
MCSources == ToSet(Fill(MCPrograms, Grammatical) \o Fill(MCPrograms, Printed) \o Fill(MCNoise, Noisy))
=============================================================================
