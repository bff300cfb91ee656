--------------------------------- MODULE Lexing ---------------------------------
(***************************************************************************)
(* A text is read to its end: by the second preprocessor's lexer alone, or *)
(* after the first preprocessor has cut it into tokens and printed them.   *)
(* Then its literals are read again, as the parser does.                   *)
(***************************************************************************)
EXTENDS Lexer, Tokenizer, CText

CONSTANT Texts   \* a set of sequences of characters

VARIABLES
  text, way,   \* what is read, and whether by "lexer" alone or by "both"
  lexer,       \* the lexer, and none before the first preprocessor is done
  out,         \* the tokens and errors it has returned
  parsed,      \* whether the literals have been read again
  meant        \* what C says of the text

vars == <<text, way, lexer, out, parsed, meant>>

Unread == Reader(<<>>, FALSE)
Init ==
  /\ text \in Texts /\ way \in {"lexer", "both"}
  /\ lexer = IF way = "both" THEN Unread ELSE Reader(text, TRUE)
  /\ out = <<>> /\ parsed = FALSE
  /\ meant = Meaning(text)

PreprocessV1 ==
  /\ lexer = Unread /\ way = "both"
  /\ lexer' = Reader(preprocess_v1(text), TRUE)
  /\ UNCHANGED <<text, way, out, parsed, meant>>

Step(r, items) == lexer' = [r EXCEPT !.tok = NoToken] /\ out' = out \o items /\ UNCHANGED <<text, way, parsed, meant>>

ReadToken(r) ==
  /\ r.tok.k \notin {"none", "directive"}
  /\ Step(r, IF r.tok.k = "ws" THEN <<>> ELSE <<r.tok>>)

\* #error and its tokens, or the first error among them
ReadDirective(d) ==
  /\ d.tok.k = "directive"
  /\ \E l \in {tokens_until_newline(d)} :
       LET errors == SelectSeq(l.tokens, LAMBDA t : t.k = "error")
       IN Step(l.r, IF errors # <<>> THEN <<Head(errors)>> ELSE <<d.tok>> \o l.tokens)

ParseLiterals(r) ==
  /\ r.tok.k = "none"
  /\ parsed' = TRUE /\ out' = [i \in DOMAIN out |-> parse(out[i])]
  /\ UNCHANGED <<text, way, lexer, meant>>

Read ==
  /\ lexer # Unread /\ ~parsed
  /\ \E r \in {next_cpp_token(lexer)} : ReadToken(r) \/ ReadDirective(r) \/ ParseLiterals(r)

Stopped == parsed /\ UNCHANGED vars

Next == PreprocessV1 \/ Read \/ Stopped
Spec == Init /\ [][Next]_vars

-----------------------------------------------------------------------------
\* What a token is, first its kind: literals of different kinds have different values
Content(t) == <<t.k, t.in>> \o t.v
Contents(ts) == [i \in DOMAIN ts |-> Content(ts[i])]
Places(ts) == [i \in DOMAIN ts |-> <<ts[i].from, ts[i].to>>]
Errors(ts) == {i \in DOMAIN ts : ts[i].k = "error"}

\* Not C, or C leaves it to the implementation
Outside == {"bad", "number", "escape", "multichar", "nonascii", "eof"}
\* Known departures: suffixes lu, large constants without u, 01.9; literals are read alike by both
ReadAlike == {"unsigned", "suffix", "octal"}
\* joined lines, # on its own line, comments of several lines
LexerDeparts == Outside \cup ReadAlike \cup {"split", "swallow", "null", "comment"}
PipelineDeparts == Outside \cup ReadAlike \cup {"null", "quote"}
Without(notes) == meant.notes \cap notes = {}

-----------------------------------------------------------------------------
(* Properties *)

\* The lexer cuts a text into the tokens C does, at the places where they stand, with the values of
\* the literals, and knows a # that starts a line: whatever was peeked, and with comments and lines
\* that are joined between the tokens (lex/mod.rs, tokens_until_newline).
LexerFollowsC ==
  parsed /\ way = "lexer" /\ Without(LexerDeparts)
    => Contents(out) = Contents(meant.tokens) /\ Places(out) = Places(meant.tokens)

\* After the first preprocessor has joined the lines and printed the tokens, the second one cuts the
\* text it printed into the same tokens, also where a line was joined inside of one (pp/tokenizer.rs).
PrintedFollowsC ==
  parsed /\ way = "both" /\ Without(PipelineDeparts) => Contents(out) = Contents(meant.tokens)

\* What is no token, no constant and no comment is reported; but the first preprocessor takes the
\* end of the file for the end of a comment, and drops the space between a backslash and a newline.
MalformedReported ==
  parsed /\ "bad" \in meant.notes /\ Without((LexerDeparts \cup PipelineDeparts) \ {"bad"}) /\ (way = "lexer" \/ Without({"open", "backslash"}))
    => Errors(out) # {}

\* The cursor never drops what was peeked (_next_char), and a literal that was accepted is accepted
\* when it is read again (the unwrap()s of LiteralToken::parse), unless lines were joined inside it.
NoPanic ==
  /\ ~lexer.panicked
  /\ Without({"split"}) => \A i \in DOMAIN out : out[i].k # "panic"
=============================================================================
