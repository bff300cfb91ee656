------------------------------ MODULE Grammar ------------------------------
(***************************************************************************)
(* What the grammar of C11 (6.5, 6.7, 6.8) says of the syntax trees of     *)
(* parser/data/ast.rs: the tokens of each one, with the parentheses that   *)
(* its precedence levels require and no others.                            *)
(***************************************************************************)
EXTENDS Parser

Words(ks) == [i \in DOMAIN ks |-> Word(ks[i])]
Id(name) == NamedToken("id", name)
Parens(s) == <<Word("(")>> \o s \o <<Word(")")>>
Separated(parts, k) ==
  FlattenSeq([i \in DOMAIN parts |-> (IF i = 1 THEN <<>> ELSE <<Word(k)>>) \o parts[i]])

\* 6.5.17 up to 6.5.1
CLevels == << {","}, {"=", "+="}, {"?"}, {"||"}, {"&&"}, {"|"}, {"^"}, {"&"}, {"==", "!="}, {"<", ">"}, {"<<", ">>"},
              {"+", "-"}, {"*", "/", "%"}, {"cast"}, {"sizeof", "alignof", "prefix"}, {"[", "call", ".", "->", "postfix"} >>
CComma == 1
CAssignment == 2
CConditional == 3
CCast == 14
CUnary == 15
CPostfix == 16
CPrimary == 17
LevelOf(t) ==
  LET key == IF t.o = "binary" THEN t.v ELSE t.o
      places == {i \in DOMAIN CLevels : key \in CLevels[i]}
  IN IF places = {} THEN CPrimary ELSE CHOOSE i \in places : TRUE

RECURSIVE Sentence(_), Inside(_, _)

\* an expression where the grammar wants one of this level or a tighter one
Operand(t, level) == IF LevelOf(t) < level THEN Parens(Sentence(t)) ELSE Sentence(t)

All(nodes, k) == Separated([i \in DOMAIN nodes |-> Sentence(nodes[i])], k)
Sentences(nodes) == FlattenSeq([i \in DOMAIN nodes |-> Sentence(nodes[i])])
Operands(nodes) == Separated([i \in DOMAIN nodes |-> Operand(nodes[i], CAssignment)], ",")
Optional(before, t, level) == IF t = Nothing THEN <<>> ELSE Words(before) \o Operand(t, level)

\* a declarator: its parts from the i-th on, the last one the innermost
Inside(parts, i) ==
  LET part == parts[i]
      rest == Inside(parts, i + 1)
      suffixed == IF i < Len(parts) /\ parts[i + 1].o = "pointer" THEN Parens(rest) ELSE rest
      params == All(part.a[1].a, ",")
  IN IF i > Len(parts) THEN <<>>
     ELSE CASE part.o = "id"      -> <<Id(part.v)>>
            [] part.o = "pointer" -> <<Word("*")>> \o Sentences(part.a[1].a) \o rest
            [] part.o = "array"   -> suffixed \o <<Word("[")>> \o Optional(<<>>, part.a[1], CAssignment) \o <<Word("]")>>
            [] OTHER -> suffixed \o Parens(params \o IF part.v = "..." THEN Words(<<",", "...">>) ELSE <<>>)

Semicolon(s) == s \o <<Word(";")>>
AsStatement(t) == IF t = Skip THEN <<Word(";")>> ELSE IF LevelOf(t) < CPrimary \/ t.o \in {"id", "lit", "str"} THEN Semicolon(Sentence(t)) ELSE Sentence(t)

Sentence(t) ==
  LET a == t.a
      Braces(s) == <<Word("{")>> \o s \o <<Word("}")>>
      tag == IF t.v = "" THEN <<>> ELSE <<Id(t.v)>>
      OfUnary(k, level) == <<Word(k)>> \o Operand(a[1], level)
  IN CASE t.o = "id"  -> <<Id(t.v)>>
       [] t.o \in {"lit", "str"} -> <<NamedToken(t.o, t.v)>>
       [] t.o = "binary" /\ t.v \in {"=", "+="} -> Operand(a[1], CUnary) \o <<Word(t.v)>> \o Operand(a[2], CAssignment)
       [] t.o = "binary" /\ t.v \notin {"=", "+="} -> Operand(a[1], LevelOf(t)) \o <<Word(t.v)>> \o Operand(a[2], LevelOf(t) + 1)
       [] t.o = "?" -> Operand(a[1], CConditional + 1) \o <<Word("?")>> \o Sentence(a[2]) \o <<Word(":")>> \o Operand(a[3], CConditional)
       [] t.o = "cast"   -> Parens(Sentence(a[1])) \o Operand(a[2], CCast)
       [] t.o = "prefix" -> OfUnary(t.v, IF t.v \in {"++", "--"} THEN CUnary ELSE CCast)
       [] t.o \in {"sizeof", "alignof"} -> IF a[1].o = "type" THEN <<Word(t.o)>> \o Parens(Sentence(a[1])) ELSE OfUnary(t.o, CUnary)
       [] t.o = "postfix" -> Operand(a[1], CPostfix) \o <<Word(t.v)>>
       [] t.o = "["       -> Operand(a[1], CPostfix) \o <<Word("[")>> \o Sentence(a[2]) \o <<Word("]")>>
       [] t.o = "call"    -> Operand(a[1], CPostfix) \o Parens(Operands(a[2].a))
       [] t.o \in {".", "->"} -> Operand(a[1], CPostfix) \o <<Word(t.o), Id(a[2].v)>>
       [] t.o = "type"   -> Sentences(a[1].a) \o Inside(a[2].a, 1)
       [] t.o = "unit"   -> <<Word(t.v)>>
       [] t.o = "named"  -> <<Id(t.v)>>
       [] t.o \in {"struct", "union"} -> <<Word(t.o)>> \o tag \o IF a = <<>> THEN <<>> ELSE Braces(Sentences(a[1].a))
       [] t.o = "enum"       -> <<Word("enum")>> \o tag \o IF a = <<>> THEN <<>> ELSE Braces(All(a[1].a, ","))
       [] t.o = "field"      -> Semicolon(Sentences(a[1].a) \o All(a[2].a, ","))
       [] t.o = "declarator" -> (IF a[1] = Nothing THEN <<>> ELSE Inside(a[1].a, 1)) \o Optional(<<":">>, a[2], CConditional)
       [] t.o = "enumerator" -> Sentence(a[1]) \o Optional(<<"=">>, a[2], CConditional)
       [] t.o = "init_declarator" -> Inside(a[1].a, 1) \o Optional(<<"=">>, a[2], CAssignment)
       [] t.o = "braces"      -> Braces(Operands(a[1].a))
       [] t.o = "declaration" -> Semicolon(Sentences(a[1].a) \o All(a[2].a, ","))
       [] t.o = "definition"  -> Sentences(a[1].a) \o Sentence(a[2]) \o Sentence(a[3])
       [] t.o = "block"  -> Braces(FlattenSeq([i \in DOMAIN a |-> AsStatement(a[i])]))
       [] t.o \in {"while", "switch"} -> <<Word(t.o)>> \o Parens(Sentence(a[1])) \o AsStatement(a[2])
       [] t.o = "if"     -> <<Word("if")>> \o Parens(Sentence(a[1])) \o AsStatement(a[2])
                            \o IF Len(a) = 3 THEN <<Word("else")>> \o AsStatement(a[3]) ELSE <<>>
       [] t.o = "do"     -> <<Word("do")>> \o AsStatement(a[1]) \o <<Word("while")>> \o Semicolon(Parens(Sentence(a[2])))
       [] t.o = "for"    -> <<Word("for"), Word("(")>> \o AsStatement(a[1]) \o Semicolon(Optional(<<>>, a[2], CComma))
                            \o Optional(<<>>, a[3], CComma) \o <<Word(")")>> \o AsStatement(a[4])
       [] t.o = "case"    -> <<Word("case")>> \o Operand(a[1], CConditional) \o <<Word(":")>> \o AsStatement(a[2])
       [] t.o = "default" -> Words(<<"default", ":">>) \o AsStatement(a[1])
       [] t.o = "label"   -> <<Id(a[1].v), Word(":")>> \o AsStatement(a[2])
       [] t.o = "goto"    -> Semicolon(<<Word("goto"), Id(a[1].v)>>)
       [] t.o = "return"  -> Semicolon(<<Word("return")>> \o Optional(<<>>, a[1], CComma))
       [] OTHER -> Semicolon(<<Word(t.o)>>)   \* break, continue
=============================================================================
