-------------------------------- MODULE MCLexing --------------------------------
(* Texts for TLC. *)
EXTENDS Lexing

\* every text of at most n characters of S
UpTo(S, n) == UNION {[1..m -> S] : m \in 0..n}
Line(cs) == cs \o <<"nl">>

\* comments, lines that are joined, directives: after a token, a # or a name
Layout == {"d", "/", "*", "\\", "nl", " ", "#"}
Starts == {<<>>, <<"d">>, <<"#">>, <<"#", "d">>, <<"d", "/", "*">>, <<"#", "d", "/", "/">>}
Ends   == {<<>>, <<"d">>, <<"#", "d", " ", "d">>, <<"nl", "#", "d", " ", "d">>, <<"*", "/", "#", "d">>}
Layouts == UpTo(Layout, 4) \cup {s \o m \o e : s \in Starts, m \in UpTo(Layout, 3), e \in Ends}

\* numbers, and the characters that may end them
Numeric  == {"0", "1", "8", "x", "e", "u", "l", ".", "-"}
Prefixed == {<<"0", "b">>, <<"0", "x">>, <<"0", "x", "1", ".">>, <<"1", "e">>, <<"1", "'">>}
Numbers  == UpTo(Numeric, 4) \cup {p \o t : p \in Prefixed, t \in UpTo({"1", "8", "p", "-", ".", "u", "'"}, 3)}

Operators == UpTo({"+", "-", "=", ">", "<", "&", ".", "!", "/", "1"}, 3) \cup UpTo({"<", ">", "=", ".", "-"}, 4)

\* characters and strings, closed or not, and what follows them
Inside  == {"a", "x", "n", "0", "7", "8", "\\", "'", "\"", "~"}
Literals == {<<q>> \o t \o e : q \in {"'", "\""}, t \in UpTo(Inside, 3), e \in {<<"'">>, <<"\"">>, <<"'", "a">>, <<"\"", "#">>}}
              \cup {<<q, "\\">> \o t \o <<q>> : q \in {"'", "\""}, t \in {<<"x">> \o h : h \in UpTo({"0", "7", "f"}, 4)} \cup UpTo({"0", "2", "7"}, 4)}

\* a line that is joined in the middle of a token
Cuttable == {<<"d", "d">>, <<"0", "x", "8", "u">>, <<"1", ".", "8", "e", "-", "1">>, <<">", ">", "=">>, <<".", ".", ".">>, <<"\"", "a", "\\", "x", "7", "\"">>,
            <<"'", "\\", "n", "'">>, <<"d", "/", "/", "d">>, <<"/", "*", "*", "/", "d">>, <<"#", "d", " ", "1", "\"", "\"">>}
JoinedInside == UNION {{SubSeq(t, 1, i) \o <<"\\", "nl">> \o b \o SubSeq(t, i + 1, Len(t)) : i \in 0..Len(t)} : t \in Cuttable, b \in {<<>>, <<" ">>, <<"\\", "nl">>, <<"nl">>}}

MCTexts == {Line(t) : t \in Layouts \cup Numbers \cup Operators \cup Literals \cup JoinedInside} \cup UpTo(Layout, 2)
MCDirectives == {<<"d">>}
=============================================================================
