------------------------------ MODULE Expander ------------------------------
(***************************************************************************)
(* The first preprocessor: the groups of pp/tokenizer.rs, and Macro and    *)
(* Expander of pp/expander.rs.  An operator that eats tokens yields        *)
(* [ok, v, rest]; where ok is false (None) nothing was eaten.              *)
(* __FILE__, __LINE__, the special macros of conditions, #include_next and *)
(* the pragmas that are hidden are left out.                               *)
(***************************************************************************)
EXTENDS PPTokens, Integers

Some(v, rest) == [ok |-> TRUE, v |-> v, rest |-> rest]
Nothing == [ok |-> FALSE, v |-> <<>>, rest |-> <<>>]

-----------------------------------------------------------------------------
(* Groups: pp/tokenizer.rs *)

Verbatim(ts) == [part |-> "verbatim", name |-> <<>>, ts |-> ts, then |-> <<>>, else |-> <<>>]
Directive(name, ts) == [Verbatim(ts) EXCEPT !.part = "directive", !.name = name]
IfElse(cond, groups) == [Verbatim(cond) EXCEPT !.part = "if", !.then = groups.then, !.else = groups.else]

DEFINED == Id("defined")
EmptyDirective(part, name) == part.part = "directive" /\ part.name = <<name>> /\ part.ts = <<>>

\* the end of a run of text: before the first # that may start a directive
LineStarts(ts, i) ==
  LET last == SelectLastInSeq(SubSeq(ts, 1, i), LAMBDA t : t.k # "ws") IN last = 0 \/ ts[last].k = "nl"
TextEnd(ts) ==
  LET ends == {i \in 1..(Len(ts) - 1) : ts[i + 1].k = "#" /\ LineStarts(ts, i)}
  IN IF ends = {} THEN Len(ts) ELSE CHOOSE i \in ends : \A j \in ends : i <= j

RECURSIVE group_part(_), then_else_groups(_, _), ElseGroup(_, _)
\* the line of a directive after #: its name and its other tokens
DirectiveLine(ts) ==
  LET end   == SelectInSeq(ts, LAMBDA t : t.k = "nl")
      line  == Eat(IF end = 0 THEN ts ELSE Before(ts, end), "ws")
      name  == IF Starts(line, "id") THEN Head(line).s ELSE <<>>
      other == Eat(IF name = <<>> THEN line ELSE Tail(line), "ws")
  IN Some(Directive(name, IF other # <<>> /\ Last(other).k = "ws" THEN Front(other) ELSE other),
          IF end = 0 THEN <<>> ELSE From(ts, end + 1))

Condition(d) ==
  CASE d.name = <<"ifdef">>  -> <<DEFINED, Whitespace>> \o d.ts
    [] d.name = <<"ifndef">> -> <<Punct("!"), DEFINED, Whitespace>> \o d.ts
    [] OTHER -> d.ts

OfGroups(cond, groups) == Some(IfElse(cond, groups.v), groups.rest)
OfLine(line) ==
  IF line.v.name \in {<<"if">>, <<"ifdef">>, <<"ifndef">>} THEN OfGroups(Condition(line.v), then_else_groups(<<>>, line.rest))
  ELSE line
OfText(ts, end) == Some(Verbatim(SubSeq(ts, 1, end)), From(ts, end + 1))
group_part(ts) ==
  IF ts = <<>> THEN Nothing ELSE IF Starts(ts, "#") THEN OfLine(DirectiveLine(Tail(ts))) ELSE OfText(ts, TextEnd(ts))

Groups(then, else) == [then |-> then, else |-> else]
WithElse(then, e) == Some(Groups(then, e.v), e.rest)
WithElif(then, d, e) == Some(Groups(then, <<IfElse(d.ts, e.v)>>), e.rest)
ThenPart(then, p) ==
  CASE ~p.ok \/ EmptyDirective(p.v, "endif") -> Some(Groups(then, <<>>), p.rest)
    [] p.ok /\ EmptyDirective(p.v, "else")   -> WithElse(then, ElseGroup(<<>>, p.rest))
    [] p.ok /\ p.v.part = "directive" /\ p.v.name = <<"elif">> -> WithElif(then, p.v, then_else_groups(<<>>, p.rest))
    [] OTHER -> then_else_groups(Append(then, p.v), p.rest)
then_else_groups(then, ts) == ThenPart(then, group_part(ts))
ElsePart(else, p) ==
  IF ~p.ok \/ EmptyDirective(p.v, "endif") THEN Some(else, p.rest) ELSE ElseGroup(Append(else, p.v), p.rest)
ElseGroup(else, ts) == ElsePart(else, group_part(ts))

RECURSIVE group(_)
GroupOf(p) == <<p.v>> \o group(p.rest)
group(ts) == IF ts = <<>> THEN <<>> ELSE GroupOf(group_part(ts))

-----------------------------------------------------------------------------
(* Definitions: Macro::parse *)

RECURSIVE ParamNames(_, _)
ParamNames(ts, names) ==
  IF ~Starts(ts, "id") THEN Some(names, ts)
  ELSE LET after == Eat(Tail(ts), "ws")
       IN CASE Head(ts).s \in ToSet(names) -> Nothing
            [] Starts(after, ",") -> ParamNames(Eat(Tail(after), "ws"), Append(names, Head(ts).s))
            [] OTHER -> Some(Append(names, Head(ts).s), after)
ParamList(ts) ==
  LET names    == ParamNames(Eat(Tail(ts), "ws"), <<>>)
      variadic == Starts(names.rest, "...")
      close    == IF variadic THEN Eat(Tail(names.rest), "ws") ELSE names.rest
  IN IF Starts(ts, "(") /\ names.ok /\ Starts(close, ")")
     THEN Some([names |-> names.v, variadic |-> variadic], Tail(close)) ELSE Nothing

\* a replacement: a token, a parameter, or parts of these to be concatenated
Part(r, t, i) == [r |-> r, t |-> t, i |-> i]
Tok(t) == <<Part("token", t, 0)>>
Concat(parts) == [r |-> "concat", parts |-> parts]

\* [ok, v]: the parameter that ts starts with, as it is or as a string
Param(ts, params) ==
  LET hash == Starts(ts, "#")
      name == IF hash THEN Eat(Tail(ts), "ws") ELSE ts
      i    == IF Starts(name, "id") THEN SelectInSeq(params, LAMBDA p : p = Head(name).s) ELSE 0
  IN IF i = 0 THEN Nothing ELSE Some(<<Part(IF hash THEN "stringify" ELSE "param", Head(name), i)>>, Tail(name))

WithoutSpace(reps) ==
  IF reps # <<>> /\ Last(reps).r = "token" /\ Last(reps).t.k = "ws" THEN Front(reps) ELSE reps
PartsOf(rep) == IF rep.r = "concat" THEN rep.parts ELSE <<rep>>

RECURSIVE Replacements(_, _, _)
Replacements(reps, ts, params) ==
  LET concat == Starts(ts, "#") /\ Starts(Tail(ts), "#")
      right  == IF concat THEN Eat(From(ts, 3), "ws") ELSE ts
      left   == WithoutSpace(reps)
      param  == Param(right, params)
      part   == IF param.ok THEN param.v ELSE IF right = <<>> THEN <<>> ELSE Tok(Head(right))
      rest   == IF param.ok THEN param.rest ELSE IF right = <<>> THEN <<>> ELSE Tail(right)
  IN CASE ts = <<>> -> reps
       [] ts # <<>> /\ concat ->
            Replacements(IF left = <<>> THEN <<Concat(part)>> ELSE Append(Front(left), Concat(PartsOf(Last(left)) \o part)),
                         rest, params)
       [] OTHER -> Replacements(reps \o part, rest, params)

parse(ts) ==
  LET list   == ParamList(ts)
      params == IF ~list.ok THEN <<>>
                ELSE IF list.v.variadic THEN Append(list.v.names, <<"__VA_ARGS__">>) ELSE list.v.names
  IN [fn |-> list.ok, expected |-> Len(params), variadic |-> list.ok /\ list.v.variadic,
      body |-> Replacements(<<>>, Eat(IF list.ok THEN list.rest ELSE ts, "ws"), params)]

-----------------------------------------------------------------------------
(* Expansion *)

\* the arguments of a call; ts starts after the name
Nesting(ts, i) == Cardinality({j \in 1..i : ts[j].k = "("}) - Cardinality({j \in 1..i : ts[j].k = ")"})
Pieces(ts, commas) ==
  LET cuts == <<0>> \o SetToSortSeq(commas, <) \o <<Len(ts) + 1>>
  IN [n \in 1..(Len(cuts) - 1) |-> Trim(SubSeq(ts, cuts[n] + 1, cuts[n + 1] - 1))]
\* of a variadic macro the last argument has all other commas
FirstOnes(commas, n) == {i \in commas : Cardinality({j \in commas : j < i}) < n}
Args(m, inner) ==
  LET all    == {i \in DOMAIN inner : inner[i].k = "," /\ Nesting(inner, i) = 0}
      pieces == Pieces(inner, IF m.variadic THEN FirstOnes(all, m.expected - 1) ELSE all)
  IN IF m.variadic /\ Len(pieces) = m.expected - 1 THEN Append(pieces, <<>>) ELSE pieces
Call(m, ts) ==
  LET open   == SkipSpace(ts)
      closes == {i \in DOMAIN open : Nesting(open, i) = 0}
      close  == CHOOSE i \in closes : \A j \in closes : i <= j
      inner  == SubSeq(open, 2, close - 1)
      args   == IF m.expected = 0 THEN <<>> ELSE Args(m, inner)
  IN IF Starts(open, "(") /\ closes # {} /\ Len(args) = m.expected /\ (m.expected = 0 => Trim(inner) = <<>>)
     THEN Some(args, From(open, close + 1)) ELSE Nothing

stringify_arg(arg) == String(Spelling(arg))

\* Replacement::Concat: out is finished, tok the token to be joined, if any
Joined(acc, right) ==
  CASE right = <<>>   -> acc
    [] right # <<>> /\ acc.tok = <<>> -> [acc EXCEPT !.tok = right]
    [] OTHER -> LET both == Glue(acc.tok[1], right[1]) IN [out |-> acc.out \o Front(both), tok |-> <<Last(both)>>]
\* of an argument the first token is joined, and the last one is next
Pasted(acc, part, args) ==
  CASE part.r = "token"     -> Joined(acc, <<part.t>>)
    [] part.r = "stringify" -> Joined(acc, <<stringify_arg(args[part.i])>>)
    [] OTHER -> LET arg == args[part.i]
                    one == Joined(acc, First(arg))
                IN IF Len(arg) < 2 THEN one
                   ELSE [out |-> one.out \o one.tok \o Tail(Front(arg)), tok |-> <<Last(arg)>>]
Concatenated(parts, args) ==
  LET all == FoldLeft(LAMBDA acc, part : Pasted(acc, part, args), [out |-> <<>>, tok |-> <<>>], parts)
  IN all.out \o all.tok

\* newlines in an expanded argument become spaces, and one of adjacent spaces is kept
Flat(ts) ==
  FlattenSeq([i \in DOMAIN ts |-> IF ts[i].k \notin Space THEN <<ts[i]>>
                                  ELSE IF i > 1 /\ ts[i - 1].k \in Space THEN <<>> ELSE <<Whitespace>>])

\* where tokens come from: the macros being expanded, in a condition or in text
File == [cond |-> FALSE, names |-> {}]
Cond == [cond |-> TRUE, names |-> {}]

\* defined X, defined(X)
DefinedName(ts) ==
  LET a == Eat(ts, "ws")
      b == Eat(Tail(a), "ws")
      c == Eat(Tail(b), "ws")
  IN CASE Starts(a, "id") -> Some(Head(a).s, Tail(a))
       [] Starts(a, "(") /\ Starts(b, "id") /\ Starts(c, ")") -> Some(Head(b).s, Tail(c))
       [] OTHER -> Nothing

RECURSIVE expand_macros(_, _, _)

Within(outer, name) == [outer EXCEPT !.names = @ \cup {name}]
InCall(outer, name) == Within(outer, name)  \* seeded defect: arguments are expanded as part of the call
InArgument(outer, name) == outer
Substituted(rep, args, name, defines, outer) ==
  CASE rep.r = "token"     -> <<rep.t>>
    [] rep.r = "param"     -> Flat(expand_macros(args[rep.i], defines, InArgument(outer, name)))
    [] rep.r = "stringify" -> <<stringify_arg(args[rep.i])>>
    [] rep.r = "concat"    -> Concatenated(rep.parts, args)
Expansion(body, args, name, defines, outer) ==
  expand_macros(FlattenSeq([i \in DOMAIN body |-> Substituted(body[i], args, name, defines, outer)]), defines, Within(outer, name))
OfCall(m, call, name, defines, outer) ==
  IF call.ok THEN Some(Expansion(m.body, call.v, name, defines, outer), call.rest) ELSE Nothing
CallTo(m, rest) == IF m.fn THEN Call(m, rest) ELSE Some(<<>>, rest)
try_expand(name, rest, defines, outer) ==
  IF name \in outer.names \/ name \notin DOMAIN defines THEN Nothing
  ELSE OfCall(defines[name], CallTo(defines[name], rest), name, defines, outer)

Bit(b) == Num(IF b THEN "1" ELSE "0")
Onward(expn, defines, outer) == expn.v \o expand_macros(expn.rest, defines, outer)
OrSelf(expn, t, rest) == IF expn.ok THEN expn ELSE Some(<<t>>, rest)
OfDefined(def, defines) == Some(<<Bit(def.v \in DOMAIN defines)>>, def.rest)
ExpandOne(t, rest, defines, outer) ==
  LET def == IF outer.cond /\ t = DEFINED THEN DefinedName(rest) ELSE Nothing
  IN CASE def.ok -> OfDefined(def, defines)
       [] t.k = "id" /\ ~def.ok -> OrSelf(try_expand(t.s, rest, defines, outer), t, rest)
       [] OTHER -> Some(<<t>>, rest)
expand_macros(ts, defines, outer) ==
  IF ts = <<>> THEN <<>> ELSE Onward(ExpandOne(Head(ts), Tail(ts), defines, outer), defines, outer)

-----------------------------------------------------------------------------
(* Conditions and groups *)

\* CondEval, on tokens without white space; && and its like are one token here.  Every operand
\* is evaluated, and of comparisons and shifts at most one is taken.
Number(t) == CASE t.s = <<"0">> -> 0 [] t.s = <<"1">> -> 1 [] OTHER -> 2
Truth(b) == IF b THEN 1 ELSE 0
Operate(op, a, b) ==
  CASE op = "||" -> Truth(a # 0 \/ b # 0)
    [] op = "&&" -> Truth(a # 0 /\ b # 0)
    [] op = "==" -> Truth(a = b)
    [] op = "!=" -> Truth(a # b)
    [] op = "<"  -> Truth(a < b)
    [] op = ">"  -> Truth(a > b)
    [] op = "+"  -> a + b
    [] op = "-"  -> a - b
    [] op = "<<" -> a * 2^b
CondOps == <<{"||"}, {"&&"}, {"==", "!=", "<", ">"}, {"<<"}, {"+", "-"}>>
Repeats(n) == n \notin {3, 4}
Followed(e, kinds) == e.ok /\ e.rest # <<>> /\ Head(e.rest).k \in kinds
After(e) == Tail(e.rest)

RECURSIVE ternary(_), unary(_), binary(_, _), Operands(_, _)
Closed(e) == IF Followed(e, {")"}) THEN Some(e.v, After(e)) ELSE Nothing
primary(ts) ==
  CASE Starts(ts, "(")   -> Closed(ternary(Tail(ts)))
    [] Starts(ts, "id")  -> Some(Truth(Head(ts).s = <<"true">>), Tail(ts))
    [] Starts(ts, "num") -> Some(Number(Head(ts)), Tail(ts))
    [] OTHER -> Nothing
Negated(e) == IF e.ok THEN Some(Truth(e.v = 0), e.rest) ELSE Nothing
unary(ts) == IF Starts(ts, "!") THEN Negated(unary(Tail(ts))) ELSE primary(ts)
\* additive, shift, relational, logical_and, logical_or
Combined(n, op, l, r) ==
  CASE ~r.ok \/ (op = "<<" /\ r.v < 0) -> Nothing
    [] Repeats(n) /\ r.ok -> Operands(n, Some(Operate(op, l.v, r.v), r.rest))
    [] OTHER -> Some(Operate(op, l.v, r.v), r.rest)
Operands(n, l) == IF Followed(l, CondOps[n]) THEN Combined(n, Head(l.rest).k, l, binary(n + 1, After(l))) ELSE l
binary(n, ts) == IF n > Len(CondOps) THEN unary(ts) ELSE Operands(n, binary(n + 1, ts))
Either(c, then, else) == IF else.ok THEN Some(IF c.v # 0 THEN then.v ELSE else.v, else.rest) ELSE Nothing
Alternative(c, then) == IF Followed(then, {":"}) THEN Either(c, then, binary(1, After(then))) ELSE Nothing
OfChoice(c) == IF Followed(c, {"?"}) THEN Alternative(c, binary(1, After(c))) ELSE c
ternary(ts) == OfChoice(binary(1, ts))
eval(ts) == LET e == ternary(Visible(ts)) IN e.ok /\ e.rest = <<>> /\ e.v # 0

Shown(d) ==
  <<Punct("#")>> \o (IF d.name = <<>> THEN <<>> ELSE <<Token("id", d.name)>>)
    \o (IF d.ts = <<>> THEN <<>> ELSE <<Whitespace>>) \o d.ts
Inline(d)  == Shown(d)   \* seeded defect: no newline
Printed(d) == Append(Shown(d), Newline)
Defining(defines, name, m) == [n \in DOMAIN defines \cup {name} |-> IF n = name THEN m ELSE defines[n]]
Undefining(defines, name) == [n \in DOMAIN defines \ {name} |-> defines[n]]

\* a header next to the source is expanded here, any other one left to the second preprocessor
Found(ts) == Len(ts) = 1 /\ ts[1].k = "quoted" /\ ts[1].s \in DOMAIN Headers /\ Headers[ts[1].s].local

RECURSIVE expand_group(_, _)
Out(state, ts) == [state EXCEPT !.out = @ \o ts]
IsDirective(d, name) == d.part = "directive" /\ d.name = <<name>>
Chosen(state, d) == IF eval(expand_macros(d.ts, state.defines, Cond)) THEN d.then ELSE d.else
expand_part(state, d) ==
  CASE d.part = "verbatim" -> Out(state, expand_macros(d.ts, state.defines, File))
    [] d.part = "if" -> expand_group(state, Chosen(state, d))
    [] IsDirective(d, "include") /\ Found(d.ts) -> expand_group(state, group(Headers[d.ts[1].s].ts))
    [] IsDirective(d, "define") /\ Starts(d.ts, "id") ->
         [state EXCEPT !.defines = Defining(@, Head(d.ts).s, parse(Tail(d.ts)))]
    [] IsDirective(d, "undef") /\ Len(d.ts) = 1 /\ Starts(d.ts, "id") ->
         [state EXCEPT !.defines = Undefining(@, d.ts[1].s)]
    [] OTHER -> Out(state, Printed(d))
expand_group(state, parts) == FoldLeft(expand_part, state, parts)

\* preprocess_v1
NoDefines == [n \in {} |-> <<>>]
preprocess_v1(ts) == expand_group([defines |-> NoDefines, out |-> <<>>], group(ts)).out
=============================================================================
