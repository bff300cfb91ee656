------------------------------ MODULE PPTokens ------------------------------
(***************************************************************************)
(* Preprocessing tokens, and how their text is cut into tokens: pp/token.rs *)
(* and pp/tokenizer.rs for the first preprocessor, parser/lex/mod.rs for   *)
(* the second.  A token has a kind k and a spelling s, the sequence of the *)
(* pieces it was put together from.                                        *)
(***************************************************************************)
EXTENDS Naturals, FiniteSets, SequencesExt

CONSTANT Headers   \* of a name: whether the file stands next to the source, and its tokens

Token(k, s) == [k |-> k, s |-> s]
Id(name)    == Token("id", <<name>>)
Num(n)      == Token("num", <<n>>)
Punct(c)    == Token(c, <<c>>)       \* one character, but "..." is one too
Header(name, quote) == Token(quote, <<name>>)   \* "h" or <h>
Whitespace  == Token("ws", <<" ">>)
Newline     == Token("nl", <<" ">>)  \* where it is spelled it is a space
Stray(c)    == Token("error", <<c>>)  \* a character no token begins with

Space == {"ws", "nl"}
Words == {"id", "num"}

Starts(ts, kind) == ts # <<>> /\ Head(ts).k = kind
\* Eat::eat, of at most one token
Eat(ts, kind) == IF Starts(ts, kind) THEN Tail(ts) ELSE ts
First(ts) == IF ts = <<>> THEN <<>> ELSE <<Head(ts)>>
From(ts, i) == SubSeq(ts, i, Len(ts))
Before(ts, i) == SubSeq(ts, 1, i - 1)

SkipSpace(ts) == LET i == SelectInSeq(ts, LAMBDA t : t.k \notin Space) IN IF i = 0 THEN <<>> ELSE From(ts, i)
Trim(ts) == SubSeq(SkipSpace(ts), 1, SelectLastInSeq(SkipSpace(ts), LAMBDA t : t.k \notin Space))
Visible(ts) == SelectSeq(ts, LAMBDA t : t.k \notin Space)

\* a run of white space is spelled as one space
Spelling(ts) ==
  FlattenSeq([i \in DOMAIN ts |-> IF ts[i].k \in Space /\ i > 1 /\ ts[i - 1].k \in Space THEN <<>> ELSE ts[i].s])
\* a string: quotes inside it are escaped
String(pieces) == Token("str", <<"'">> \o [i \in DOMAIN pieces |-> IF pieces[i] = "'" THEN "\\'" ELSE pieces[i]] \o <<"'">>)

-----------------------------------------------------------------------------
(* Text *)

\* Tokenizer on the text of two tokens: one token, or the two of them
Glue(l, r) ==
  CASE l.k = "id" /\ r.k \in Words   -> <<Token("id", l.s \o r.s)>>
    [] l.k = "num" /\ r.k \in Words  -> <<Token("num", l.s \o r.s)>>
    [] OTHER                         -> <<l, r>>

\* the lexer of the second preprocessor reads -- as one token and white space as one, ends a
\* number at a letter, and knows which # is the first token of its line
Joins(l, r) == (l.k = "id" /\ r.k \in Words) \/ (l.k = r.k /\ r.k \in {"num", "-"})
Join(l, r) == IF l.k = "-" THEN Token("--", <<"--">>) ELSE Glue(l, r)[1]
Blank(l, r) == IF "nl" \in {l.k, r.k} THEN Newline ELSE Whitespace
NoLineToken == {"ws", "#", "directive", "error"}   \* they leave seen_line_token as it is
AtLineStart(ts) == LET i == SelectLastInSeq(ts, LAMBDA t : t.k \notin NoLineToken) IN i = 0 \/ ts[i].k = "nl"

Lexed(ts) ==
  FoldLeft(LAMBDA done, t :
             CASE t.k \in Space /\ done # <<>> /\ Last(done).k \in Space -> Append(Front(done), Blank(Last(done), t))
               [] t.k \notin Space /\ done # <<>> /\ Joins(Last(done), t) -> Append(Front(done), Join(Last(done), t))
               [] t.k = "#" /\ AtLineStart(done) -> Append(done, Token("directive", <<"#">>))
               [] OTHER -> Append(done, t),
           <<>>, ts)
=============================================================================
