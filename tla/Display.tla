------------------------------ MODULE Display ------------------------------
(***************************************************************************)
(* The Display implementations of parser/data/ast.rs: the tokens each part *)
(* of a syntax tree is printed as.  Layout is left out.                    *)
(***************************************************************************)
EXTENDS Grammar

RECURSIVE Display(_), DisplayStmt(_)

joined(nodes, k) == Separated([i \in DOMAIN nodes |-> Display(nodes[i])], k)
Concatenated(nodes) == FlattenSeq([i \in DOMAIN nodes |-> Display(nodes[i])])
OrNothing(t) == IF t = Nothing THEN <<>> ELSE Display(t)
Braced(s) == <<Word("{")>> \o s \o <<Word("}")>>

\* FunctionDeclarator and DeclaratorType::pretty_print.  A chain starts with the part
\* next to the specifiers, the code with the one next to the name.
Parameters(part) == Parens(joined(part.a[1].a, ",") \o IF part.v = "..." THEN Words(<<",", "...">>) ELSE <<>>)
Opening(part) == IF part.o = "pointer" THEN Words(<<"(", "*">>) \o Concatenated(part.a[1].a) ELSE <<>>
Closing(part) ==
  CASE part.o = "pointer" -> <<Word(")")>>
    [] part.o = "array"   -> <<Word("[")>> \o OrNothing(part.a[1]) \o <<Word("]")>>
    [] OTHER -> Parameters(part)
NoName == <<>>
pretty_print(parts, name) ==
  FlattenSeq([i \in DOMAIN parts |-> Opening(parts[i])]) \o name \o FlattenSeq(Reverse([i \in DOMAIN parts |-> Closing(parts[i])]))
NameOf(chain) == LET ids == Names(chain) IN IF ids = <<>> THEN NoName ELSE <<Id(ids[1].v)>>
Declarator(chain) == pretty_print(Parts(chain), NameOf(chain))

\* the declarator of a function definition, whose own part is the last one
FunctionDeclarator(chain) ==
  LET parts == Parts(chain) IN pretty_print(Front(parts), NoName) \o NameOf(chain) \o Parameters(Last(parts))

\* StructSpecifier, DeclarationSpecifier::Enum: what has a name is printed without its body
Specifier(t) ==
  <<Word(t.o)>> \o
  (IF t.v # "" THEN <<Id(t.v)>>
   ELSE IF t.a # <<>> THEN Braced(IF t.o = "enum" THEN joined(t.a[1].a, ",") ELSE Concatenated(t.a[1].a))
   ELSE IF t.o = "enum" THEN <<Word(";")>> ELSE <<>>)

\* Initial: what a for statement prints first
Initial(t) == IF t = Skip THEN <<Word(";")>> ELSE Display(t)

IsExpr(t) == LevelOf(t) < CPrimary \/ t.o \in {"id", "lit", "str"}
Bare(t) == Display(t)  \* seeded defect: operands without parentheses
Parenthesized(t) == Parens(Display(t))
\* Expr::fmt
DisplayExpr(t) ==
  LET a == t.a
  IN CASE t.o = "id" -> <<Id(t.v)>>
       [] t.o \in {"lit", "str"} -> <<NamedToken(t.o, t.v)>>
       [] t.o = "binary" /\ t.v = "," -> joined(a, ",")
       [] t.o = "binary" /\ t.v # "," -> Parenthesized(a[1]) \o <<Word(t.v)>> \o Parenthesized(a[2])
       [] t.o = "?"       -> Parenthesized(a[1]) \o <<Word("?")>> \o Parenthesized(a[2]) \o <<Word(":")>> \o Parenthesized(a[3])
       [] t.o = "prefix" /\ t.v = "~" -> Parens(<<Word("~")>> \o Display(a[1]))
       [] t.o = "prefix" /\ t.v # "~" -> <<Word(t.v)>> \o Parenthesized(a[1])
       [] t.o \in {"sizeof", "alignof"} -> <<Word(t.o)>> \o Parenthesized(a[1])
       [] t.o = "cast"    -> Parenthesized(a[1]) \o Parenthesized(a[2])
       [] t.o = "postfix" -> Parenthesized(a[1]) \o <<Word(t.v)>>
       [] t.o = "["       -> Parenthesized(a[1]) \o <<Word("[")>> \o Display(a[2]) \o <<Word("]")>>
       [] t.o = "call"    -> Parenthesized(a[1]) \o Parens(joined(a[2].a, ","))
       [] t.o \in {".", "->"} -> Parenthesized(a[1]) \o <<Word(t.o), Id(a[2].v)>>

\* StmtType::pretty_print
DisplayStmt(t) ==
  LET a == t.a
  IN CASE IsExpr(t) -> Semicolon(Display(t))
       [] t.o = "declaration" -> Display(t)
       [] t.o = "block"   -> Braced(FlattenSeq([i \in DOMAIN a |-> DisplayStmt(a[i])]))
       [] t.o = "default" -> Words(<<"default", ":">>) \o DisplayStmt(a[1])
       [] t.o = "case"    -> <<Word("case")>> \o Display(a[1]) \o <<Word(":")>> \o DisplayStmt(a[2])
       [] t.o = "goto"    -> Semicolon(<<Word("goto"), Id(a[1].v)>>)
       [] t.o = "label"   -> <<Id(a[1].v), Word(":")>> \o DisplayStmt(a[2])
       [] t.o \in {"while", "switch"} -> <<Word(t.o)>> \o Parenthesized(a[1]) \o DisplayStmt(a[2])
       [] t.o = "if"      -> <<Word("if")>> \o Parenthesized(a[1]) \o DisplayStmt(a[2])
                             \o IF Len(a) = 3 THEN <<Word("else")>> \o DisplayStmt(a[3]) ELSE <<>>
       [] t.o = "do"      -> <<Word("do")>> \o DisplayStmt(a[1]) \o <<Word("while")>> \o Semicolon(Parenthesized(a[2]))
       [] t.o = "for"     -> <<Word("for"), Word("(")>> \o (IF IsExpr(a[1]) THEN Semicolon(Display(a[1])) ELSE Initial(a[1]))
                             \o Semicolon(OrNothing(a[2])) \o OrNothing(a[3]) \o <<Word(")")>> \o DisplayStmt(a[4])
       [] t.o = "return"  -> Semicolon(<<Word("return")>> \o OrNothing(a[1]))
       [] OTHER -> Semicolon(<<Word(t.o)>>)

Display(t) ==
  LET a == t.a
  IN CASE IsExpr(t) -> DisplayExpr(t)
       [] t.o = "unit"  -> <<Word(t.v)>>
       [] t.o = "named" -> <<Id(t.v)>>
       [] t.o \in {"struct", "union", "enum"} -> Specifier(t)
       [] t.o = "field"      -> Semicolon(Concatenated(a[1].a) \o joined(a[2].a, ","))
       [] t.o = "declarator" -> (IF a[1] = Nothing THEN <<>> ELSE Declarator(a[1])) \o (IF a[2] = Nothing THEN <<>> ELSE <<Word(":")>> \o Display(a[2]))
       [] t.o = "enumerator" -> <<Id(a[1].v)>> \o (IF a[2] = Nothing THEN <<>> ELSE <<Word("=")>> \o Display(a[2]))
       [] t.o = "init_declarator" -> Declarator(a[1]) \o (IF a[2] = Nothing THEN <<>> ELSE <<Word("=")>> \o Display(a[2]))
       [] t.o = "braces"      -> Braced(joined(a[1].a, ","))
       [] t.o = "type"        -> Concatenated(a[1].a) \o Declarator(a[2])
       [] t.o = "declaration" -> Semicolon(Concatenated(a[1].a) \o joined(a[2].a, ","))
       [] t.o = "definition"  -> Concatenated(a[1].a) \o FunctionDeclarator(a[2].a[1]) \o DisplayStmt(a[3])
=============================================================================
