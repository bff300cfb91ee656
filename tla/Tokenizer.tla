------------------------------- MODULE Tokenizer -------------------------------
(***************************************************************************)
(* The first preprocessor on text without macros: lines are joined         *)
(* (pp/line_joiner.rs), cut into tokens (pp/tokenizer.rs), and printed     *)
(* again (GroupPart, pp/expander.rs).                                      *)
(***************************************************************************)
EXTENDS Chars

\* LineJoiner
Spliced(text, i) == i \in 1..(Len(text) - 1) /\ text[i] = "\\" /\ text[i + 1] = "nl"
LineJoiner(text) ==
  LET kept == SelectSeq([i \in 1..Len(text) |-> i], LAMBDA i : ~Spliced(text, i) /\ ~Spliced(text, i - 1))
  IN [n \in DOMAIN kept |-> text[kept[n]]]

At(cs, i) == IF i <= Len(cs) THEN cs[i] ELSE None
\* the first position from i on that is in S, or the end
FirstFrom(cs, i, Stops(_)) ==
  LET S == {k \in i..Len(cs) : Stops(k)} IN IF S = {} THEN Len(cs) + 1 ELSE CHOOSE k \in S : \A l \in S : k <= l

RECURSIVE BlankEnd(_, _), LiteralEnd(_, _, _), NumberEnd(_, _)
\* eat_whitespace, as often as it can
BlankEnd(cs, i) ==
  LET Newline(k) == cs[k] = "nl"
      Close(k) == cs[k] = "*" /\ At(cs, k + 1) = "/"
      close == FirstFrom(cs, i + 2, Close)
  IN CASE At(cs, i) = " " -> BlankEnd(cs, i + 1)
       [] At(cs, i) = "/" /\ At(cs, i + 1) = "/" -> BlankEnd(cs, FirstFrom(cs, i + 2, Newline))
       [] At(cs, i) = "/" /\ At(cs, i + 1) = "*" -> IF close > Len(cs) THEN close ELSE BlankEnd(cs, close + 2)
       [] OTHER -> i
LiteralEnd(cs, i, quote) ==
  CASE i > Len(cs) -> i
    [] i <= Len(cs) /\ cs[i] = quote -> i + 1
    [] i <= Len(cs) /\ cs[i] = "\\" -> IF i = Len(cs) THEN i + 1 ELSE LiteralEnd(cs, i + 2, quote)
    [] OTHER -> LiteralEnd(cs, i + 1, quote)
NumberEnd(cs, i) ==
  CASE At(cs, i) \in {"e", "p"} /\ At(cs, i + 1) \in {"+", "-"} -> NumberEnd(cs, i + 2)
    [] At(cs, i) \in Alnum \cup {"."} -> NumberEnd(cs, i + 1)
    [] At(cs, i) = "'" /\ At(cs, i + 1) \in Alnum -> NumberEnd(cs, i + 2)
    [] OTHER -> i
IdEnd(cs, i) == LET Other(k) == cs[k] \notin Alnum IN FirstFrom(cs, i, Other)

\* Tokenizer::next: the kind of the token at i and where it ends
Piece(kind, end) == [k |-> kind, end |-> end]
TokenAt(cs, i) ==
  CASE BlankEnd(cs, i) > i -> Piece("ws", BlankEnd(cs, i))
    [] BlankEnd(cs, i) = i ->
       CASE cs[i] = "nl"          -> Piece("nl", i + 1)
         [] cs[i] \in Letters     -> Piece("id", IdEnd(cs, i))
         [] cs[i] \in Digits \/ (cs[i] = "." /\ At(cs, i + 1) \in Digits) -> Piece("literal", NumberEnd(cs, i + 1))
         [] cs[i] \in {"'", "\""} -> Piece("literal", LiteralEnd(cs, i + 1, cs[i]))
         [] cs[i] = "#"           -> Piece("#", i + 1)
         [] OTHER                  -> Piece("punct", i + 1)   \* or Error, printed alike
Vanished(p, s) == IF p.k = "ws" THEN <<>> ELSE s   \* seeded defect: comments leave nothing
Text(p, s)     == IF p.k = "ws" THEN <<" ">> ELSE s
RECURSIVE Pieces(_, _)
Pieces(cs, i) ==
  IF i > Len(cs) THEN <<>>
  ELSE LET p == TokenAt(cs, i) IN <<[k |-> p.k, s |-> Text(p, SubSeq(cs, i, p.end - 1))]>> \o Pieces(cs, p.end)
Spelled(ts) == FlattenSeq([i \in DOMAIN ts |-> ts[i].s])

\* group_part: a directive begins with a # at the start of a line, and is printed anew
EatBlank(ts) == IF ts # <<>> /\ Head(ts).k = "ws" THEN Tail(ts) ELSE ts
DropBlank(ts) == IF ts # <<>> /\ Last(ts).k = "ws" THEN Front(ts) ELSE ts
Directive(ts) ==   \* a line, without its end
  LET named == ts # <<>> /\ Head(ts).k = "id"
      tokens == DropBlank(EatBlank(IF named THEN Tail(ts) ELSE ts))
  IN <<"#">> \o (IF named THEN Head(ts).s ELSE <<>>) \o (IF tokens # <<>> THEN <<" ">> \o Spelled(tokens) ELSE <<>>) \o <<"nl">>
RECURSIVE Printed(_)
Printed(ts) ==   \* ts starts a line
  LET end == SelectInSeq(ts, LAMBDA t : t.k = "nl")
      line == IF end = 0 THEN ts ELSE SubSeq(ts, 1, end - 1)
      rest == IF end = 0 THEN <<>> ELSE SubSeq(ts, end + 1, Len(ts))
      blank == IF line # EatBlank(line) THEN <<" ">> ELSE <<>>
  IN IF ts = <<>> THEN <<>>
     ELSE (IF EatBlank(line) # <<>> /\ Head(EatBlank(line)).k = "#" THEN blank \o Directive(EatBlank(Tail(EatBlank(line))))
           ELSE Spelled(line) \o IF end = 0 THEN <<>> ELSE <<"nl">>)
            \o Printed(rest)

preprocess_v1(text) == Printed(Pieces(LineJoiner(text), 1))
=============================================================================
