------------------------------- MODULE CMacros -------------------------------
(***************************************************************************)
(* The reference: C11 6.10.1 to 6.10.3 by hide sets.  A token carries the  *)
(* set h of names that it came from; depth d is 0 in the source.           *)
(*                                                                         *)
(* Beside the tokens the reference yields notes: that the source breaks a  *)
(* rule, or that it has one of the situations that the preprocessors are   *)
(* known to get wrong.  Nothing here translates the compiler.              *)
(***************************************************************************)
EXTENDS PPTokens, Integers

CToken(t) == [k |-> t.k, s |-> t.s, h |-> {}, d |-> 0, x |-> FALSE]
Plain(t)  == Token(t.k, t.s)
PlainAll(ts) == [i \in DOMAIN ts |-> Plain(ts[i])]
Of(k, ts) == [i \in DOMAIN ts |-> [CToken(Token(k, ts[i].s)) EXCEPT !.h = ts[i].h, !.d = ts[i].d]]

NoSpaces(ts) == SelectSeq(ts, LAMBDA t : t.k \notin Space)
NextVisible(ts) == LET v == NoSpaces(ts) IN IF v = <<>> THEN CToken(Token("", <<>>)) ELSE Head(v)

-----------------------------------------------------------------------------
(* Definitions *)

IsHash(t) == t.k = "#"
\* the operators of a body: ## without the spaces around it, and # with its parameter
Operators(body) ==
  LET Paste(i) == i \in 1..(Len(body) - 1) /\ IsHash(body[i]) /\ IsHash(body[i + 1])
      Beside(i) == body[i].k = "ws" /\ (Paste(i + 1) \/ Paste(i - 2))
  IN FlattenSeq([i \in DOMAIN body |-> CASE Paste(i) -> <<CToken(Token("##", <<"##">>))>>
                                         [] Paste(i - 1) \/ Beside(i) -> <<>>
                                         [] OTHER -> <<CToken(body[i])>>])
Close(ts) == SelectInSeq(ts, LAMBDA t : t.k = ")")
Macro(ts) ==
  LET close == Close(ts)
      list  == SubSeq(ts, 2, close - 1)
      names == SelectSeq(list, LAMBDA t : t.k = "id")
      variadic == \E i \in DOMAIN list : list[i].k = "..."
  IN IF Starts(ts, "(")
     THEN [fn |-> TRUE, variadic |-> variadic, body |-> Operators(Trim(From(ts, close + 1))),
           params |-> [i \in DOMAIN names |-> names[i].s] \o IF variadic THEN << <<"__VA_ARGS__">> >> ELSE <<>>]
     ELSE [fn |-> FALSE, variadic |-> FALSE, body |-> Operators(Trim(ts)), params |-> <<>>]

-----------------------------------------------------------------------------
(* 6.10.3 *)

Level(ts, i) == Cardinality({j \in 1..i : ts[j].k = "("}) - Cardinality({j \in 1..i : ts[j].k = ")"})

\* the arguments between the parentheses; the last one of a variadic macro has all other commas
Arguments(ts, m) ==
  LET all  == {i \in DOMAIN ts : ts[i].k = "," /\ Level(ts, i) = 0}
      cut  == {i \in all : m.variadic => Cardinality({j \in all : j < i}) < Len(m.params) - 1}
      cuts == <<0>> \o SetToSortSeq(cut, <) \o <<Len(ts) + 1>>
      some == [n \in 1..(Len(cuts) - 1) |-> Trim(SubSeq(ts, cuts[n] + 1, cuts[n + 1] - 1))]
  IN CASE m.params = <<>> /\ some = << <<>> >> -> <<>>
       [] m.variadic /\ Len(some) = Len(m.params) - 1 -> Append(some, <<>>)
       [] OTHER -> some

\* state of an expansion: the tokens done, the notes, and the names used for the current token
Acc(out, notes, used) == [out |-> out, notes |-> notes, used |-> used]
NoteIf(cond, name) == IF cond THEN {name} ELSE {}
Noted(acc, names) == [acc EXCEPT !.notes = @ \cup names]
Use(acc, names) ==
  [acc EXCEPT !.used = @ \cup names, !.notes = @ \cup NoteIf(names \cap acc.used # {}, "repeated")]
Emit(acc, t) == [acc EXCEPT !.out = Append(@, t)]

Marker == Token("marker", <<>>)
\* 6.10.3.3: [out, open, bad], open when the next token is to be joined
Join2(acc, t) ==
  IF t.k = "##" THEN [acc EXCEPT !.open = TRUE]
  ELSE IF ~acc.open THEN [acc EXCEPT !.out = Append(@, t)]
  ELSE LET l == Last(acc.out)
           both == Glue(Plain(l), Plain(t))
           one == CASE l.k = "marker" -> t [] t.k = "marker" -> l
                    [] OTHER -> [l EXCEPT !.k = both[1].k, !.s = both[1].s, !.h = l.h \cap t.h, !.x = l.x \/ t.x]
       IN [out |-> Append(Front(acc.out), one), open |-> FALSE,
           bad |-> acc.bad \/ ("marker" \notin {l.k, t.k} /\ Len(both) > 1)]
Pasting(ts) ==
  LET all == FoldLeft(Join2, [out |-> <<>>, open |-> FALSE, bad |-> FALSE], ts)
  IN [all EXCEPT !.out = SelectSeq(@, LAMBDA t : t.k # "marker")]
HasPaste(body) == \E i \in DOMAIN body : body[i].k = "##"

HasHash(body) == \E i \in DOMAIN body : body[i].k \in {"#", "##"}
\* the tokens of an argument that expansion changed
Marked(before, after) ==
  IF PlainAll(before) = PlainAll(after) THEN after ELSE [i \in DOMAIN after |-> [after[i] EXCEPT !.x = TRUE]]

\* what stands at place i of the body of m
Is(m, i, kind)   == i \in DOMAIN m.body /\ m.body[i].k = kind
ParamAt(m, i)    == IF Is(m, i, "id") THEN SelectInSeq(m.params, LAMBDA p : p = m.body[i].s) ELSE 0
Raw(m, i)        == Is(m, i - 1, "##") \/ Is(m, i + 1, "##")
HashAt(m, i)       == m.fn /\ Is(m, i, "#")
Operand(m, i)    == IF Is(m, i + 1, "ws") THEN i + 2 ELSE i + 1   \* what the # at i applies to
OfHash(m, i)     == \E j \in {i - 1, i - 2} : HashAt(m, j) /\ i <= Operand(m, j)
Replaced(m, i)   == ParamAt(m, i) # 0 /\ ~OfHash(m, i) /\ ~Raw(m, i)
NoOperand(m)     == \E i \in DOMAIN m.body : HashAt(m, i) /\ ParamAt(m, Operand(m, i)) = 0

\* 6.10.3.1: an argument is completely expanded first, unless it is an operand of # or ##
Item(m, i, args, full) ==
  CASE HashAt(m, i)     -> <<CToken(String(Spelling(args[ParamAt(m, Operand(m, i))])))>>
    [] OfHash(m, i)   -> <<>>
    [] Replaced(m, i) -> Marked(args[ParamAt(m, i)], full[ParamAt(m, i)].out)
    [] ParamAt(m, i) # 0 /\ Raw(m, i) /\ ~OfHash(m, i) ->
         IF args[ParamAt(m, i)] = <<>> THEN <<CToken(Marker)>> ELSE args[ParamAt(m, i)]
    [] OTHER -> <<m.body[i]>>
Gap(ts) == \E i \in 1..(Len(ts) - 1) : ts[i].k \in Space /\ ts[i + 1].k \in Space
Placed(t, m, pasted, acc, hide) ==
  [ts |-> [i \in DOMAIN pasted.out |-> [pasted.out[i] EXCEPT !.h = @ \cup hide, !.d = t.d + 1]],
   acc |-> Noted(acc, NoteIf(Gap(pasted.out), "gap") \cup NoteIf(pasted.bad, "bad") \cup NoteIf(HasPaste(m.body), "paste"))]
Counted(acc, m, full) ==
  FoldLeft(LAMBDA a, i : IF Replaced(m, i) THEN Use(Noted(a, full[ParamAt(m, i)].notes), full[ParamAt(m, i)].used) ELSE a,
           acc, [i \in DOMAIN m.body |-> i])
Replacement(t, m, args, full, acc, hide) ==
  IF NoOperand(m) THEN [ts |-> <<>>, acc |-> Noted(acc, {"bad"})]
  ELSE Placed(t, m, Pasting(FlattenSeq([i \in DOMAIN m.body |-> Item(m, i, args, full)])), Counted(acc, m, full), hide)

RECURSIVE Expand(_, _, _, _)
Then(sub, rest, macros, inArg) == Expand(sub.ts \o rest, macros, sub.acc, inArg)
Replacing(t, m, args, rest, macros, acc, inArg, hide) ==
  Then(Replacement(t, m, args, [n \in DOMAIN args |-> Expand(args[n], macros, Acc(<<>>, {}, {}), TRUE)], Use(acc, {t.s}), hide),
       rest, macros, inArg)

\* a call from the ( at from to the ) at close
Passed(m, call) == \E i \in DOMAIN call : call[i].x /\ (HasHash(m.body) \/ call[i].k \in {"(", ")", ","})
CallOf(t, m, args, call, rest, macros, acc, inArg) ==
  IF Len(args) # Len(m.params)
  THEN Expand(call \o rest, macros, Noted(Emit(acc, t), {"bad"} \cup NoteIf(Passed(m, call), "passed")), inArg)
  ELSE Replacing(t, m, args, rest, macros,
                 Noted(acc, NoteIf(Last(call).d < t.d, "escapes") \cup NoteIf(m.variadic, "variadic") \cup NoteIf(Passed(m, call), "passed")),
                 inArg, (t.h \cap Last(call).h) \cup {t.s})
ClosesAt(ts) ==
  LET open   == SelectInSeq(ts, LAMBDA t : t.k = "(")
      closes == {i \in open..Len(ts) : Level(ts, i) = 0}
  IN IF closes = {} THEN 0 ELSE CHOOSE i \in closes : \A j \in closes : i <= j
Invoked(t, m, rest, close, macros, acc, inArg) ==
  IF close = 0 THEN Expand(rest, macros, Noted(Emit(acc, t), {"unterminated"}), inArg)
  ELSE CallOf(t, m, Arguments(Tail(SkipSpace(Before(rest, close))), m), SkipSpace(SubSeq(rest, 1, close)),
              From(rest, close + 1), macros, acc, inArg)

Fresh(t, acc, inArg) == IF t.d = 0 /\ ~inArg THEN [acc EXCEPT !.used = {}] ELSE acc
Names(t, macros) == t.k = "id" /\ t.s \in DOMAIN macros
Expanded(t, rest, macros, acc, inArg) ==
  CASE ~Names(t, macros) -> Expand(rest, macros, Emit(acc, t), inArg)
    [] Names(t, macros) /\ t.s \in t.h -> Expand(rest, macros, Noted(Emit(acc, t), NoteIf(inArg, "painted")), inArg)
    [] Names(t, macros) /\ t.s \notin t.h /\ ~macros[t.s].fn ->
         Replacing(t, macros[t.s], <<>>, rest, macros, acc, inArg, t.h \cup {t.s})
    [] OTHER ->
         IF NextVisible(rest).k # "(" THEN Expand(rest, macros, Emit(IF inArg THEN acc ELSE Use(acc, {t.s}), t), inArg)
         ELSE Invoked(t, macros[t.s], rest, ClosesAt(rest), macros, acc, inArg)
Expand(ts, macros, acc, inArg) ==
  IF ts = <<>> THEN acc ELSE Expanded(Head(ts), Tail(ts), macros, Fresh(Head(ts), acc, inArg), inArg)

-----------------------------------------------------------------------------
(* Lines *)

RECURSIVE Lines(_)
Lines(ts) ==
  LET end == SelectInSeq(ts, LAMBDA t : t.k = "nl")
  IN CASE ts = <<>> -> <<>>
       [] end = 0   -> <<ts>>
       [] OTHER     -> <<Before(ts, end)>> \o Lines(From(ts, end + 1))

\* [v, ok, odd]: 6.10.1 and 6.5, by the operator that binds least.  Odd are the expressions that
\* the first preprocessor is not made for: two comparisons or ?: without parentheses, and a sign.
Valid(v, odd) == [ok |-> TRUE, v |-> v, odd |-> odd]
Invalid == [ok |-> FALSE, v |-> 0, odd |-> FALSE]
Binding == <<{"?"}, {"||"}, {"&&"}, {"==", "!="}, {"<", ">"}, {"<<"}, {"+", "-"}>>
EndsOperand(ts, i) == i > 0 /\ ts[i].k \in Words \cup {")"}
PlacesOf(ts, ops) == {i \in DOMAIN ts : ts[i].k \in ops /\ Level(ts, i) = 0 /\ EndsOperand(ts, i - 1)}
Colon(ts, q) ==
  LET after(i) == {j \in q..i : ts[j].k = "?" /\ Level(ts, j) = 0}
      colons == {i \in q..Len(ts) : ts[i].k = ":" /\ Level(ts, i) = 0
                   /\ Cardinality(after(i)) = Cardinality({j \in q..i : ts[j].k = ":" /\ Level(ts, j) = 0})}
  IN IF colons = {} THEN 0 ELSE CHOOSE i \in colons : \A j \in colons : i <= j
Bindings(ts) == {n \in DOMAIN Binding : PlacesOf(ts, Binding[n]) # {}}
LeastOf(S) == CHOOSE i \in S : \A j \in S : i <= j
GreatestOf(S) == CHOOSE i \in S : \A j \in S : i >= j
Crowded(ts) == Cardinality(PlacesOf(ts, {"==", "!=", "<", ">"})) > 1 \/ Cardinality(PlacesOf(ts, {"<<"})) > 1 \/ Cardinality(PlacesOf(ts, {"?"})) > 1

RECURSIVE ValueOf(_)
Negative(e) == [e EXCEPT !.v = 0 - @, !.odd = TRUE]
Not(e) == [e EXCEPT !.v = IF @ = 0 THEN 1 ELSE 0]
Both(op, l, r, odd) ==
  IF ~l.ok \/ ~r.ok \/ (op = "<<" /\ r.v < 0) THEN Invalid
  ELSE Valid(CASE op = "||" -> IF l.v # 0 \/ r.v # 0 THEN 1 ELSE 0
               [] op = "&&" -> IF l.v # 0 /\ r.v # 0 THEN 1 ELSE 0
               [] op = "==" -> IF l.v = r.v THEN 1 ELSE 0
               [] op = "!=" -> IF l.v # r.v THEN 1 ELSE 0
               [] op = "<"  -> IF l.v < r.v THEN 1 ELSE 0
               [] op = ">"  -> IF l.v > r.v THEN 1 ELSE 0
               [] op = "+"  -> l.v + r.v
               [] op = "-"  -> l.v - r.v
               [] op = "<<" -> l.v * 2^r.v, l.odd \/ r.odd \/ odd)
Choice(c, then, else, odd) ==
  IF c.ok /\ then.ok /\ else.ok THEN Valid(IF c.v # 0 THEN then.v ELSE else.v, c.odd \/ then.odd \/ else.odd \/ odd) ELSE Invalid
SplitAt(ts, i) == Both(ts[i].k, ValueOf(Before(ts, i)), ValueOf(From(ts, i + 1)), Crowded(ts))
ChoiceAt(ts, q, c) ==
  IF c = 0 THEN Invalid ELSE Choice(ValueOf(Before(ts, q)), ValueOf(SubSeq(ts, q + 1, c - 1)), ValueOf(From(ts, c + 1)), Crowded(ts))
Simple(ts) ==
  CASE ts = <<>> -> Invalid
    [] Starts(ts, "!") -> Not(ValueOf(Tail(ts)))
    [] Starts(ts, "-") -> Negative(ValueOf(Tail(ts)))
    [] Starts(ts, "(") /\ Last(ts).k = ")" -> ValueOf(SubSeq(ts, 2, Len(ts) - 1))
    [] Len(ts) = 1 /\ Starts(ts, "id") -> Valid(0, FALSE)
    [] Len(ts) = 1 /\ Starts(ts, "num") ->
         Valid(CASE ts[1].s = <<"0">> -> 0 [] ts[1].s = <<"1">> -> 1 [] OTHER -> 2, FALSE)
    [] OTHER -> Invalid
Split(ts, n) ==
  IF n = 1 THEN ChoiceAt(ts, LeastOf(PlacesOf(ts, {"?"})), Colon(ts, LeastOf(PlacesOf(ts, {"?"}))))
  ELSE SplitAt(ts, GreatestOf(PlacesOf(ts, Binding[n])))
ValueOf(ts) == IF Bindings(ts) = {} THEN Simple(ts) ELSE Split(ts, LeastOf(Bindings(ts)))

RECURSIVE Decided(_, _)
Decided(ts, macros) ==
  LET name == SelectInSeq(ts, LAMBDA t : t.k = "id" /\ t.s # <<"defined">>)
      end  == IF Starts(SkipSpace(Tail(ts)), "(") THEN Close(ts) ELSE name
  IN CASE ts = <<>> -> <<>>
       [] ts # <<>> /\ Head(ts).s = <<"defined">> ->
            <<CToken(Num(IF ts[name].s \in DOMAIN macros THEN "1" ELSE "0"))>> \o Decided(From(ts, end + 1), macros)
       [] OTHER -> <<Head(ts)>> \o Decided(Tail(ts), macros)
OfCondition(e, r) == [v |-> r.ok /\ r.v # 0, notes |-> e.notes \cup NoteIf(~r.ok, "bad") \cup NoteIf(r.odd, "odd")]
Valued(e) == OfCondition(e, ValueOf(NoSpaces(e.out)))
Value(ts, macros) == Valued(Expand(Decided(ts, macros), macros, Acc(<<>>, {}, {}), FALSE))

If(live, taken, else) == [live |-> live, taken |-> taken, else |-> else]
Live(ifs) == ifs = <<>> \/ Last(ifs).live
Outer(ifs) == Live(Front(ifs))

Bad(c, cond) == [c EXCEPT !.notes = @ \cup IF cond THEN {"bad"} ELSE {}]
\* the text before a directive is expanded with the macros defined there
Flushed(c, e) == [c EXCEPT !.text = <<>>, !.out = @ \o PlainAll(NoSpaces(e.out)), !.notes = @ \cup e.notes]
Flush(c) == Flushed(c, Expand(c.text, c.macros, Acc(<<>>, {}, {}), FALSE))
Enter(c, cond) ==
  IF Live(c.ifs) THEN [c EXCEPT !.ifs = Append(@, If(cond.v, cond.v, FALSE)), !.notes = @ \cup cond.notes]
  ELSE [c EXCEPT !.ifs = Append(@, If(FALSE, TRUE, FALSE))]
Switch(c, cond, else) ==
  LET top == Last(c.ifs)
      chosen == Outer(c.ifs) /\ ~top.taken /\ cond.v
  IN IF c.ifs = <<>> THEN Bad(c, TRUE)
     ELSE [Bad(c, top.else) EXCEPT !.ifs = Append(Front(@), If(chosen, top.taken \/ chosen, else)),
                                   !.notes = @ \cup IF Outer(c.ifs) /\ ~top.taken THEN cond.notes ELSE {}]
Known(v) == [v |-> v, notes |-> {}]
\* what is no token at all is left out
Good(ts) == SelectSeq(ts, LAMBDA t : t.k # "error")

Enlisted(c, name, macro) ==
  IF name \in DOMAIN c.macros THEN Bad(c, c.macros[name] # macro)
  ELSE [c EXCEPT !.macros = [n \in DOMAIN @ \cup {name} |-> IF n = name THEN macro ELSE @[n]]]
\* names with commas between them, ... as the last of them
GoodList(v) ==
  /\ v = <<>> \/ Len(v) % 2 = 1
  /\ \A i \in DOMAIN v : IF i % 2 = 0 THEN v[i].k = "," ELSE v[i].k = "id" \/ (v[i].k = "..." /\ i = Len(v))
GoodDefine(ts) ==
  /\ Starts(ts, "id")
  /\ Starts(Tail(ts), "(") => Close(ts) # 0 /\ GoodList(NoSpaces(SubSeq(ts, 3, Close(ts) - 1)))
\* A body with a character that is no token is spoiled.  The line is reported, and what it
\* would define is left to the compiler: here, nothing.
DefineLine(c, ts) ==
  CASE ~GoodDefine(ts) -> Bad(c, TRUE)
    [] GoodDefine(ts) /\ Good(ts) # ts -> [c EXCEPT !.notes = @ \cup {"spoiled"}]
    [] OTHER -> Enlisted(c, Head(ts).s, Macro(Tail(ts)))
UndefLine(c, ts) ==
  IF ~Starts(ts, "id") \/ Len(ts) > 1 THEN Bad(c, TRUE) ELSE [c EXCEPT !.macros = [n \in DOMAIN @ \ {Head(ts).s} |-> @[n]]]
Unheeded == {"pragma", "line", "warning"}
IfDefined(c, ts, yes) == Known(ts # <<>> /\ ((Head(ts).s \in DOMAIN c.macros) = yes))
IfTrue(c, ts) == Value([i \in DOMAIN ts |-> CToken(ts[i])], c.macros)
EndIf(c) == IF c.ifs = <<>> THEN Bad(c, TRUE) ELSE [c EXCEPT !.ifs = Front(@)]

RECURSIVE Obey(_, _)
Directed(c, name, ts) ==
  CASE name = "if"     -> Enter(c, IfTrue(c, ts))
    [] name = "ifdef"  -> Enter(c, IfDefined(c, ts, TRUE))
    [] name = "ifndef" -> Enter(c, IfDefined(c, ts, FALSE))
    [] name = "elif"   -> Switch(c, IfTrue(c, ts), FALSE)
    [] name = "else"   -> Switch(c, Known(TRUE), TRUE)
    [] name = "endif"  -> EndIf(c)
    [] name = "define" /\ Live(c.ifs)  -> DefineLine(c, ts)
    [] name = "undef" /\ Live(c.ifs)   -> UndefLine(c, ts)
    [] name = "include" /\ Live(c.ifs) ->
         IF ts # <<>> /\ Head(ts).s \in DOMAIN Headers THEN Flush(Obey(c, Lines(Headers[Head(ts).s].ts))) ELSE Bad(c, TRUE)
    [] OTHER -> Bad(c, Live(c.ifs) /\ name \notin Unheeded)
Parted(ts) == \E i \in 2..Len(ts) : ts[i - 1].k = "ws" /\ ts[i].k = "error" /\ NextVisible(From(ts, i + 1)).k = "("
Written(c, ts) ==
  [c EXCEPT !.text = @ \o [i \in DOMAIN Good(ts) |-> CToken(Good(ts)[i])] \o <<CToken(Newline)>>,
            !.notes = @ \cup NoteIf(Good(ts) # ts, "stray") \cup NoteIf(Parted(ts), "parted")]
Obeyed(c, ts) == IF ts = <<>> THEN c ELSE Directed(c, Head(ts).s[1], SkipSpace(Tail(ts)))
CLine(c, line) ==
  CASE NextVisible(line).k = "#" -> Obeyed(Flush(c), Trim(Tail(SkipSpace(line))))
    [] OTHER -> IF Live(c.ifs) THEN Written(c, line) ELSE c
Obey(c, lines) == FoldLeft(CLine, c, lines)

Start == [macros |-> [n \in {} |-> 0], text |-> <<>>, out |-> <<>>, notes |-> {}, ifs |-> <<>>]
Finished(c) == [out |-> c.out, notes |-> c.notes \cup IF c.ifs # <<>> THEN {"bad"} ELSE {}]
Meaning(ts) == Finished(Flush(Obey(Start, Lines(ts))))
=============================================================================
