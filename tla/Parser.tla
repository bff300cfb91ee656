------------------------------- MODULE Parser -------------------------------
(***************************************************************************)
(* The parser of parser/parse/{mod,expr,decl,stmt}.rs as a machine.        *)
(*                                                                         *)
(* stack holds what the recursive functions still have to do, the next     *)
(* task first; vals the values they have made, the last one first.  A task *)
(* is a call, or the rest of a function from a place where it looks at the *)
(* next token: its operator gets a parser that has peeked at it.  `?` is   *)
(* Fail; Unwind then drops the tasks up to the one that handles the error. *)
(* Locations and warnings are left out.                                    *)
(***************************************************************************)
EXTENDS TokenBuffer, SequencesExt

CONSTANT MAX_DEPTH   \* of RecursionGuard

\* a node of the tree: its constructor o, a name or a flag v, and its parts a
N(o, v, a) == [o |-> o, v |-> v, a |-> a]
Nothing == N("none", "", <<>>)
Empty == N("list", "", <<>>)
Skip == N("block", "", <<>>)  \* StmtType::default

Task(f) == [f |-> f, x |-> "", v |-> "", n |-> 0, errs |-> <<>>]
With(f, x, n) == [Task(f) EXCEPT !.x = x, !.n = n]
Build(o, v, n) == [With("build", o, n) EXCEPT !.v = v]
Expect(k) == With("expect", k, 0)

Start(tokens) ==
  [tokens |-> tokens, read |-> 1, current |-> None, next |-> None,
   typedefs |-> {}, errors |-> <<>>, bad |-> {}, pending |-> <<>>, stack |-> <<>>, vals |-> <<>>,
   failed |-> "", exited |-> FALSE]

Push(m, tasks) == [m EXCEPT !.stack = tasks \o @]
Yield(m, node) == [m EXCEPT !.vals = <<node>> \o @]
Report(m, err) == [m EXCEPT !.errors = Append(@, err)]
Fail(m, err) == [m EXCEPT !.failed = err]

Qualifiers == {"const", "volatile"}
Units == Qualifiers \cup {"int", "char", "unsigned", "void", "typedef", "extern", "static"}
Records == {"struct", "union"}
StatementWords == {"if", "else", "while", "do", "for", "switch", "case", "default", "goto", "continue", "break", "return"}
Keywords == Units \cup Records \cup StatementWords \cup {"enum", "sizeof", "alignof", "usertypedef"}
is_decl_specifier(t) == t.k \in Units \cup Records \cup {"enum", "usertypedef"}

-----------------------------------------------------------------------------
(* Errors *)

Keep(m, n) == [m EXCEPT !.vals = SubSeq(@, Len(@) - n + 1, Len(@))]
Pop(m) == [m EXCEPT !.stack = Tail(@)]

\* seeded defect: the errors of a block are dropped
Forgets(m, errs) == m
\* the end of compound_statement: the last error is returned, the others are reported
BlockResult(m, errs) ==
  IF errs = <<>> THEN m ELSE Fail([m EXCEPT !.errors = @ \o Front(errs)], Last(errs))
CloseBlock(q, errs) ==
  IF Kind(q) = "}" THEN BlockResult(Take(q), errs)
  ELSE BlockResult([q EXCEPT !.bad = @ \cup IF AtEnd(q) THEN {} ELSE {"assert"}], Append(errs, "unclosed"))

\* seeded defect: a block ends at its first error
LeavesBlock(q, task) == CloseBlock(q, task.errs)
\* A block remembers the error of its statement and goes on with the next one.
Resume(q, task) == IF AtEnd(q) THEN CloseBlock(q, task.errs) ELSE Push(q, <<task>>)
AfterStatement(m) == panic(m)
Recover(m, task) ==
  Resume(peek_token(AfterStatement(Keep([m EXCEPT !.failed = ""], task.n))), [With("block", "", task.n) EXCEPT !.errs = Append(task.errs, m.failed)])

\* A cast whose type is wrong is parsed again as an expression.
NoCast(m, task) == Push(Report(Keep([m EXCEPT !.failed = ""], task.n), m.failed), <<Task("operator")>>)

Unwind(m, task) ==
  CASE task.f = "block" -> Recover(m, task)
    [] task.f = "cast"  -> NoCast(m, task)
    [] OTHER -> m

\* seeded defect: a second panic after what was not expected
PanicsTwice(q, k) == IF Kind(q) = k THEN Take(q) ELSE Fail(panic(panic(q)), "expected")
expect(q, k) == IF Kind(q) = k THEN Take(q) ELSE Fail(panic(q), "expected")

\* match_id, then expect_id
MatchesId(q) == Kind(q) \in {"id", "usertypedef"}
expect_id(q) == IF MatchesId(q) THEN Yield(Take(q), N("id", Name(q), <<>>)) ELSE Fail(panic(q), "ExpectedId")

\* RecursionGuard: the guards alive are those of the drop tasks
Guards(m) == FoldLeft(LAMBDA n, t : n + IF t.f = "drop" THEN t.n ELSE 0, 1, m.stack)
recursion_check(m, n, tasks) ==
  [Push(m, tasks \o <<With("drop", "", n)>>) EXCEPT !.exited = Guards(m) + n > MAX_DEPTH]

\* replace the n last values by one node
Built(m, o, v, n) ==
  [m EXCEPT !.vals = <<N(o, v, Reverse(SubSeq(@, 1, n)))>> \o SubSeq(@, n + 1, Len(@))]
\* the last value joins the list before it
Joined(list, x) == [list EXCEPT !.a = Append(@, x)]
Appended(m) == [m EXCEPT !.vals = <<Joined(@[2], @[1])>> \o SubSeq(@, 3, Len(@))]

-----------------------------------------------------------------------------
(* Expressions: parser/parse/expr.rs *)

Levels == << <<",">>, <<"=", "+=">>, <<"?">>, <<"||">>, <<"&&">>, <<"|">>, <<"^">>, <<"&">>, <<"==">>,
             <<"<">>, <<"<<">>, <<"+", "-">>, <<"*", "/">> >>
BinaryWords == UNION {ToSet(Levels[i]) : i \in DOMAIN Levels}
prec(k) == (CHOOSE i \in DOMAIN Levels : k \in ToSet(Levels[i])) - 1
right_associative(k) == k \in {"?", "=", "+="}

expr == <<Task("unary"), With("binary_expr", "", 0)>>
assignment_expr == <<Task("unary"), With("binary_expr", "", 1)>>
ternary_expr == <<Task("unary"), With("binary_expr", "", 2)>>

\* seeded defect: a left-associative operator takes one of its own level on its right
KeepsLevel(k) == prec(k)
RightLevel(k) == IF right_associative(k) THEN prec(k) ELSE prec(k) + 1

binary_expr(m, n) == recursion_check(m, 1, <<With("operators", "", n)>>)
operators(q, n) ==
  LET k == Kind(q)
      again == With("operators", "", n)
  IN IF k \notin BinaryWords \/ prec(k) < n THEN q
     ELSE IF k = "?" THEN Push(Take(q), expr \o <<Expect(":"), Task("unary"), With("binary_expr", "", 2), Build("?", "", 3), again>>)
     ELSE Push(Take(q), <<Task("unary"), With("binary_expr", "", RightLevel(k)), Build("binary", k, 2), again>>)

\* parenthesized_type
LookPast(q) == IF Kind(q) = "(" THEN peek_next_token(q) ELSE q
TypeFollows(q) == Kind(q) = "(" /\ is_decl_specifier(q.next)

\* unary_expr and match_prefix_operator; what they build is on the stack already
Unary(q) ==
  IF TypeFollows(q) THEN Push(Take(q), <<Task("type_name"), Expect(")"), With("cast", "", Len(q.vals))>>)
  ELSE Push(q, <<Task("operator")>>)
unary(q) == Unary(LookPast(q))

PrefixWords == {"*", "~", "!", "+", "-", "&", "++", "--"}
SizeOf(q, k) ==
  IF TypeFollows(q) THEN Push(Take(q), <<Task("type_name"), Expect(")"), Build(k, "", 1), Task("postfix")>>)
  ELSE Push(q, <<Task("unary"), Build(k, "", 1)>>)
operator(q) ==
  CASE Kind(q) \in PrefixWords -> Push(Take(q), <<Task("unary"), Build("prefix", Kind(q), 1)>>)
    [] Kind(q) \in {"sizeof", "alignof"} -> SizeOf(LookPast(peek_token(Take(q))), Kind(q))
    [] OTHER -> Push(q, <<Task("primary"), Task("postfix")>>)

Literal(r) == IF r.t.v = "bad" THEN Fail(r.m, "literal") ELSE Yield(r.m, N(r.t.k, r.t.v, <<>>))
NotLiteral(r) == Fail(unput(r.m, r.t), "MissingPrimary")
primary(q) ==
  CASE Kind(q) = "(" -> recursion_check(Take(q), 2, expr \o <<Expect(")")>>)
    [] MatchesId(q)  -> expect_id(q)
    [] Kind(q) \in {"lit", "str"} -> Literal(next_token(q))
    [] OTHER -> NotLiteral(next_token(q))

\* match_postfix_op
PostfixWords == {".", "->", "++", "--", "[", "("}
PostfixTasks(k) ==
  CASE k \in {".", "->"}  -> <<Task("expect_id"), Build(k, "", 2)>>
    [] k \in {"++", "--"} -> <<Build("postfix", k, 1)>>
    [] k = "["            -> expr \o <<Expect("]"), Build("[", "", 2)>>
    [] k = "("            -> <<Task("first_argument"), Build("call", "", 2)>>
postfix(q) == IF Kind(q) \in PostfixWords THEN Push(Take(q), Append(PostfixTasks(Kind(q)), Task("postfix"))) ELSE q

argument == ternary_expr \o <<Task("append"), Task("more_arguments")>>
first_argument(q) == IF Kind(q) = ")" THEN Yield(Take(q), Empty) ELSE Push(Yield(q, Empty), argument)
more_arguments(q) == IF Kind(q) = "," THEN Push(Take(q), argument) ELSE expect(q, ")")

-----------------------------------------------------------------------------
(* Declarations: parser/parse/decl.rs *)

\* seen is 1 after a typedef name: another one is the name declared
specifiers(q, seen) ==
  LET t == q.current
      rest == <<Task("append"), With("specifiers", "", seen)>>
  IN CASE t.k \notin Keywords -> q
       [] t.k \in Records     -> Push(Take(q), <<With("struct", t.k, 0)>> \o rest)
       [] t.k = "enum"        -> Push(Take(q), <<Task("enum")>> \o rest)
       [] t.k = "usertypedef" -> IF seen = 0 THEN Push(Yield(Take(q), N("named", t.v, <<>>)), <<Task("append"), With("specifiers", "", 1)>>)
                                 ELSE unput(Take(q), [t EXCEPT !.k = "id"])
       [] t.k \in Units       -> Push(Yield(Take(q), N("unit", t.k, <<>>)), rest)
       [] OTHER               -> Fail(Take(q), "ExpectedDeclSpecifier")

\* struct_specifier and enum_specifier: a name and members in braces, both optional
TagBody(q, o, name) ==
  IF Kind(q) = "{" THEN Push(Yield(Take(q), Empty), <<Task(IF o = "enum" THEN "enumerators" ELSE "members"), Build(o, name, 1)>>)
  ELSE Yield(q, N(o, name, <<>>))
struct_specifier(q, o) == IF MatchesId(q) THEN TagBody(peek_token(Take(q)), o, Name(q)) ELSE TagBody(q, o, "")
enum_specifier(q) == struct_specifier(q, "enum")

\* struct_declaration_list
struct_declaration_list ==
  <<With("specifiers", "", 0), Task("declarators"), Task("struct_declarators"), Build("field", "", 2), Task("append"), Task("members")>>
members(q) ==
  CASE Kind(q) = "}" -> Take(q)
    [] Kind(q) = ";" -> Push(Take(q), <<Task("members")>>)
    [] OTHER         -> Push(Yield(q, Empty), struct_declaration_list)

MemberRest == <<Task("bitfield"), Build("declarator", "", 2), Task("append"), Task("more_declarators")>>
struct_declarators(q) ==
  CASE Kind(q) = ";" -> Take(q)
    [] Kind(q) = ":" -> Push(Yield(q, Nothing), MemberRest)
    [] OTHER         -> Push(q, <<With("declarator", "abstract", 0), Task("named_member")>> \o MemberRest)
IsName(part) == part.o = "id"
Unnamed(parts) == parts # <<>> /\ ~\E i \in DOMAIN parts : IsName(parts[i])
named_member(m) == IF Unnamed(m.vals[1].a) THEN Report(m, "unnamed member") ELSE m
bitfield(q) == IF Kind(q) = ":" THEN Push(Take(q), ternary_expr) ELSE Yield(q, Nothing)
more_declarators(q) == IF Kind(q) = "," THEN Push(Take(q), <<Task("struct_declarators")>>) ELSE expect(q, ";")

enumerators(q) ==
  IF Kind(q) = "}" THEN Take(q)
  ELSE Push(q, <<Task("expect_id"), Task("enum_value"), Build("enumerator", "", 2), Task("append"), Task("more_enumerators")>>)
enum_value(q) == IF Kind(q) = "=" THEN Push(Take(q), ternary_expr) ELSE Yield(q, Nothing)
more_enumerators(q) == IF Kind(q) = "," THEN Push(Take(q), <<Task("enumerators")>>) ELSE expect(q, "}")

\* An InternalDeclarator is a list of what is declared, from the outside in; it is
\* empty for an abstract declarator that is absent.
Chain(parts) == N("list", "", parts)
Merge(chain, part) == [chain EXCEPT !.a = <<part>> \o @]
\* merge_decls: a part made of the last value joins the chain before it
merge_decls(m, o, v) == [m EXCEPT !.vals = <<Merge(@[2], N(o, v, <<@[1]>>))>> \o SubSeq(@, 3, Len(@))]
\* the same of a pointer, whose qualifiers were read before the chain
pointer(m) == [m EXCEPT !.vals = <<Merge(@[1], N("pointer", "", <<@[2]>>))>> \o SubSeq(@, 3, Len(@))]

declarator(q, kind) ==
  IF Kind(q) = "*" THEN Push(Yield(Take(q), Empty), <<With("qualifiers", kind, 0)>>)
  ELSE recursion_check(q, 1, <<With("direct_declarator", kind, 0)>>)
qualifiers(q, kind) ==
  IF Kind(q) \in Qualifiers THEN Push(Yield(Take(q), N("unit", Kind(q), <<>>)), <<Task("append"), With("qualifiers", kind, 0)>>)
  ELSE Push(q, <<With("declarator", kind, 0), Task("pointer")>>)

NoParameters == N("function", "", <<Empty>>)
Declared(m, parts, kind) == Push(Yield(m, Chain(parts)), <<With("postfix_type", kind, 0)>>)
ParenthesisedDeclarator(q, kind) ==
  CASE q.next.k = ")" -> Declared(Take(Take(q)), <<NoParameters>>, kind)
    [] kind = "abstract" /\ is_decl_specifier(q.next) -> Declared(q, <<>>, kind)
    [] OTHER -> Push(Take(q), <<With("declarator", kind, 0), Expect(")"), With("postfix_type", kind, 0)>>)
direct_declarator(q, kind) ==
  CASE Kind(q) = "id" -> Declared(Take(q), <<N("id", Name(q), <<>>)>>, kind)
    [] Kind(q) = "("  -> ParenthesisedDeclarator(peek_next_token(q), kind)
    [] Kind(q) \notin {"id", "("} /\ kind = "abstract" -> Declared(q, <<>>, kind)
    [] OTHER -> Fail(IF AtEnd(q) THEN q ELSE panic(q), "expected variable name")

ArraySize(q, kind) ==
  IF Kind(q) = "]" THEN Push(Yield(Take(q), Nothing), <<With("merge", "array", 0), With("postfix_type", kind, 0)>>)
  ELSE Push(q, expr \o <<Expect("]"), With("merge", "array", 0), With("postfix_type", kind, 0)>>)
StaticSize(q, kind) == IF kind = "abstract" THEN q ELSE Report(q, "StaticInConcreteArray")
ArrayType(q, kind) == IF Kind(q) = "static" THEN ArraySize(peek_token(StaticSize(Take(q), kind)), kind) ELSE ArraySize(q, kind)
postfix_type(q, kind) ==
  CASE Kind(q) = "[" -> ArrayType(peek_token(Take(q)), kind)
    [] Kind(q) = "(" -> Push(Yield(Take(q), Empty), <<Task("first_parameter"), With("postfix_type", kind, 0)>>)
    [] OTHER -> q

\* parameter_type_list
first_parameter(q) == IF Kind(q) = ")" THEN merge_decls(Take(q), "function", "") ELSE Push(q, <<Task("parameter")>>)
parameter(q) ==
  IF Kind(q) = "..." THEN Push(Take(q), <<Expect(")"), [With("merge", "function", 0) EXCEPT !.v = "..."]>>)
  ELSE Push(q, <<Task("type_name"), Task("append"), Task("more_parameters")>>)
more_parameters(q) ==
  IF Kind(q) = "," THEN Push(Take(q), <<Task("parameter")>>) ELSE Push(q, <<Expect(")"), With("merge", "function", 0)>>)

type_name(m) == Push(Yield(m, Empty), <<With("specifiers", "", 0), With("declarator", "abstract", 0), Task("type")>>)
type(m) == IF m.vals[1].a = <<>> /\ m.vals[2].a = <<>> THEN Fail(m, "ExpectedType") ELSE Built(m, "type", "", 2)

init_declarator == <<With("declarator", "", 0), Task("initial"), Build("init_declarator", "", 2)>>
initial(q) == IF Kind(q) = "=" THEN Push(Take(q), <<Task("initializer")>>) ELSE Yield(q, Nothing)
initializer(q) == IF Kind(q) = "{" THEN Push(Take(q), <<Task("aggregate")>>) ELSE Push(q, assignment_expr)
aggregate_initializer(m) == recursion_check(Yield(m, Empty), 1, <<Task("elements"), Build("braces", "", 1)>>)
elements(q) == IF Kind(q) = "}" THEN Take(q) ELSE Push(q, <<Task("initializer"), Task("append"), Task("more_elements")>>)
more_elements(q) == IF Kind(q) = "," THEN Push(Take(q), <<Task("elements")>>) ELSE expect(q, "}")

\* extra semicolons before a declaration
semicolons(q) == IF Kind(q) = ";" THEN Push(Take(q), <<Task("semicolons")>>) ELSE q
external_declaration(m) == Push(Yield(m, Empty), <<With("specifiers", "", 0), Task("declared")>>)
declared(q) ==
  IF Kind(q) = ";" THEN Built(Yield(Take(q), Empty), "declaration", "", 2) ELSE Push(q, init_declarator \o <<Task("function")>>)

\* compound_statement, at its brace
compound_statement(q) == Push(Yield(Take(q), Skip), <<With("block", "", Len(q.vals) + 1)>>)

\* a function has a declarator whose outermost part, before its name, is one
Parts(chain) == SelectSeq(chain.a, LAMBDA p : ~IsName(p))
Names(chain) == SelectSeq(chain.a, IsName)
IsFunction(parts) == parts # <<>> /\ Last(parts).o = "function"
function(q) ==
  CASE Kind(q) # "{" -> Push([q EXCEPT !.vals[1] = Chain(<<@>>)], <<Task("more")>>)
    [] Kind(q) = "{" /\ ~IsFunction(Parts(q.vals[1].a[1])) -> Fail(q, "NotAFunction")
    [] Kind(q) = "{" /\ IsFunction(Parts(q.vals[1].a[1])) /\ q.vals[1].a[2] # Nothing -> Fail(q, "FunctionInitializer")
    [] OTHER -> compound_statement(Push(q, <<Task("definition")>>))
definition(m) == IF Names(m.vals[2].a[1]) = <<>> THEN Fail(m, "MissingFunctionName") ELSE Built(m, "definition", "", 3)

Inserted(q, names) == [q EXCEPT !.typedefs = @ \cup names]
IsTypedef(specs) == \E i \in DOMAIN specs : specs[i] = N("unit", "typedef", <<>>)
NamesOf(decls) == {n.v : n \in UNION {ToSet(Names(decls[i].a[1])) : i \in DOMAIN decls}}
TypedefsOf(vals) == IF IsTypedef(vals[2].a) THEN NamesOf(vals[1].a) ELSE {}
more(q) ==
  IF Kind(q) = ";" THEN Built(Inserted(Take(q), TypedefsOf(q.vals)), "declaration", "", 2)
  ELSE Push(q, <<Expect(",")>> \o init_declarator \o <<Task("append"), Task("more")>>)

-----------------------------------------------------------------------------
(* Statements: parser/parse/stmt.rs *)

block(q, task) ==
  IF Kind(q) = "}" THEN CloseBlock(q, task.errs) ELSE Push(q, <<Task("statement"), Task("append"), task>>)

\* a declaration among statements: no function definition
declaration == <<Task("external_declaration"), Task("into_declaration")>>
into_declaration(m) == IF m.vals[1].o = "definition" THEN Fail(m, "FunctionNotAllowed") ELSE m

\* expressions as statements
expression_statement == expr \o <<Expect(";")>>
parenthesized == <<Expect("(")>> \o expr \o <<Expect(")")>>

\* an identifier: a label, or put back for the declaration or the expression it starts
AfterId(q, t) ==
  CASE Kind(q) = ":" -> Push(Yield(Take(q), N("id", t.v, <<>>)), <<Task("statement"), Build("label", "", 2)>>)
    [] Kind(q) # ":" /\ t.v \in q.typedefs -> Push(unput(q, t), declaration)
    [] OTHER -> Push(unput(q, t), expression_statement)

StatementTasks(k) ==
  CASE k = "if"       -> parenthesized \o <<Task("statement"), Task("else")>>
    [] k \in {"while", "switch"} -> parenthesized \o <<Task("statement"), Build(k, "", 2)>>
    [] k = "do"       -> <<Task("statement"), Expect("while")>> \o parenthesized \o <<Expect(";"), Build("do", "", 2)>>
    [] k = "for"      -> <<Expect("("), Task("for"), With("expr_opt", ";", 0), With("expr_opt", ")", 0), Task("statement"), Build("for", "", 4)>>
    [] k = "case"     -> expr \o <<Expect(":"), Task("statement"), Build("case", "", 2)>>
    [] k = "default"  -> <<Expect(":"), Task("statement"), Build("default", "", 1)>>
    [] k = "goto"     -> <<Task("expect_id"), Expect(";"), Build("goto", "", 1)>>
    [] k \in {"continue", "break"} -> <<Expect(";"), Build(k, "", 0)>>
    [] k = "return"   -> <<With("expr_opt", ";", 0), Build("return", "", 1)>>

statement(m) == recursion_check(m, 2, <<Task("any_statement")>>)
any_statement(q) ==
  CASE Kind(q) = "{" -> compound_statement(q)
    [] Kind(q) = ";" -> Yield(Take(q), Skip)
    [] Kind(q) = "else" -> Fail(q, "NotAStatement")
    [] Kind(q) \in StatementWords \ {"else"} -> Push(Take(q), StatementTasks(Kind(q)))
    [] is_decl_specifier(q.current) -> Push(q, declaration)
    [] Kind(q) = "id" -> AfterId(peek_token(Take(q)), q.current)
    [] OTHER -> Push(q, expression_statement)

else(q) == IF Kind(q) = "else" THEN Push(Take(q), <<Task("statement"), Build("if", "", 3)>>) ELSE Built(q, "if", "", 2)
for(q) ==
  CASE AtEnd(q) -> Fail(q, "EndOfFile")
    [] is_decl_specifier(q.current) \/ (Kind(q) = "id" /\ Name(q) \in q.typedefs) -> Push(q, declaration)
    [] Kind(q) = ";" -> Yield(Take(q), Skip)
    [] OTHER -> Push(q, expression_statement)
expr_opt(q, k) == IF Kind(q) = k THEN Yield(Take(q), Nothing) ELSE Push(q, expr \o <<Expect(k)>>)

-----------------------------------------------------------------------------
(* One task *)

\* those that do not look at a token
Silent == {"build", "append", "declarators", "merge", "pointer", "drop", "binary_expr", "cast", "named_member", "type_name", "type",
           "aggregate", "external_declaration", "definition", "into_declaration", "statement", "parsed"}
Perform(m, t) ==
  CASE t.f = "build"        -> Built(m, t.x, t.v, t.n)
    [] t.f = "append"       -> Appended(m)
    [] t.f = "declarators"  -> Yield(m, Empty)
    [] t.f = "merge"        -> merge_decls(m, t.x, t.v)
    [] t.f = "pointer"      -> pointer(m)
    [] t.f = "drop"         -> m
    [] t.f = "binary_expr"  -> binary_expr(m, t.n)
    [] t.f = "cast"         -> Push(m, <<Task("unary"), Build("cast", "", 2)>>)
    [] t.f = "named_member" -> named_member(m)
    [] t.f = "type_name"    -> type_name(m)
    [] t.f = "type"         -> type(m)
    [] t.f = "aggregate"    -> aggregate_initializer(m)
    [] t.f = "external_declaration" -> external_declaration(m)
    [] t.f = "definition"   -> definition(m)
    [] t.f = "into_declaration" -> into_declaration(m)
    [] t.f = "statement"    -> statement(m)
    [] t.f = "parsed"       -> [m EXCEPT !.pending = Append(@, m.vals[1]), !.vals = <<>>]

PerformAt(q, t) ==
  CASE t.f = "expect"         -> expect(q, t.x)
    [] t.f = "expect_id"      -> expect_id(q)
    [] t.f = "operators"      -> operators(q, t.n)
    [] t.f = "unary"          -> unary(q)
    [] t.f = "operator"       -> operator(q)
    [] t.f = "primary"        -> primary(q)
    [] t.f = "postfix"        -> postfix(q)
    [] t.f = "first_argument" -> first_argument(q)
    [] t.f = "more_arguments" -> more_arguments(q)
    [] t.f = "specifiers"     -> specifiers(q, t.n)
    [] t.f = "struct"         -> struct_specifier(q, t.x)
    [] t.f = "enum"           -> enum_specifier(q)
    [] t.f = "members"        -> members(q)
    [] t.f = "struct_declarators" -> struct_declarators(q)
    [] t.f = "bitfield"       -> bitfield(q)
    [] t.f = "more_declarators" -> more_declarators(q)
    [] t.f = "enumerators"    -> enumerators(q)
    [] t.f = "enum_value"     -> enum_value(q)
    [] t.f = "more_enumerators" -> more_enumerators(q)
    [] t.f = "declarator"     -> declarator(q, t.x)
    [] t.f = "qualifiers"     -> qualifiers(q, t.x)
    [] t.f = "direct_declarator" -> direct_declarator(q, t.x)
    [] t.f = "postfix_type"   -> postfix_type(q, t.x)
    [] t.f = "first_parameter" -> first_parameter(q)
    [] t.f = "parameter"      -> parameter(q)
    [] t.f = "more_parameters" -> more_parameters(q)
    [] t.f = "initial"        -> initial(q)
    [] t.f = "initializer"    -> initializer(q)
    [] t.f = "elements"       -> elements(q)
    [] t.f = "more_elements"  -> more_elements(q)
    [] t.f = "semicolons"     -> semicolons(q)
    [] t.f = "declared"       -> declared(q)
    [] t.f = "function"       -> function(q)
    [] t.f = "more"           -> more(q)
    [] t.f = "block"          -> block(q, t)
    [] t.f = "any_statement"  -> any_statement(q)
    [] t.f = "else"           -> else(q)
    [] t.f = "for"            -> for(q)
    [] OTHER                  -> expr_opt(q, t.x)

Step(m, t) == IF t.f \in Silent THEN Perform(m, t) ELSE PerformAt(peek_token(m), t)
=============================================================================
