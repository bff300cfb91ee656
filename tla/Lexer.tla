--------------------------------- MODULE Lexer ---------------------------------
(***************************************************************************)
(* The lexer of the second preprocessor, parser/lex/mod.rs: a cursor with  *)
(* up to two characters of lookahead, white space and comments, literals,  *)
(* punctuators; the second reading of literals by PseudoLexer; and what    *)
(* reads lines through it (tokens_until_newline, next_cpp_token).          *)
(***************************************************************************)
EXTENDS Chars

\* Lexer (joins) and PseudoLexer.  c, ws, saw, err and tok are what the last operation returned.
NoToken == [k |-> "none", v |-> <<>>, from |-> 0, to |-> 0, in |-> FALSE]
Reader(text, joins) ==
  [text |-> text, joins |-> joins, at |-> 0, current |-> None, lookahead |-> None, line |-> 0, seen |-> FALSE, errors |-> <<>>,
   c |-> None, ws |-> FALSE, saw |-> FALSE, err |-> None, tok |-> NoToken, panicked |-> FALSE]

CharAt(r, i) == IF i < Len(r.text) THEN r.text[i + 1] ELSE None
Slice(r, from) == SubSeq(r.text, from + 1, r.at)
Failed(r, e) == [r EXCEPT !.err = e]

-----------------------------------------------------------------------------
(* The cursor *)

\* _next_char, with its assertion
Take(r) ==
  LET c == IF r.current # None THEN r.current ELSE CharAt(r, r.at)
  IN [r EXCEPT !.c = c, !.at = IF c = None THEN @ ELSE @ + 1,
               !.current = IF @ = None THEN None ELSE r.lookahead,
               !.lookahead = IF r.current = None THEN @ ELSE None,
               !.panicked = @ \/ (r.current = None /\ r.lookahead # None)]

peek(r) ==
  IF r.current # None THEN r
  ELSE [r EXCEPT !.current = IF r.lookahead # None THEN r.lookahead ELSE CharAt(r, r.at), !.lookahead = None]
StalePeek(r) == [r EXCEPT !.lookahead = CharAt(r, r.at)]   \* seeded defect: chars().next()
peek_next(r) == IF r.lookahead # None THEN r ELSE [r EXCEPT !.lookahead = CharAt(r, r.at + 1)]

RECURSIVE next_char(_), JoinLines(_), LineComment(_), BlockComment(_), Blanks(_, _)

\* Advance, and every operator on p: the next character has been peeked
Advance(r) == peek(next_char(r))
Eat(p, x) == IF p.current = x THEN next_char(p) ELSE p
match_next(r, x) == Eat(peek(r), x)

\* consume_whitespace_full: comments are white space, a line comment leaves none
consume_whitespace(r, stop) == Blanks(peek([r EXCEPT !.ws = FALSE]), stop)

\* discard a backslash and its newline, and all white space behind them
AfterBackslash(p) ==
  IF p.current # "nl" THEN p ELSE JoinLines(Take([consume_whitespace(Take(p), FALSE) EXCEPT !.ws = p.ws]))
JoinLines(r) == IF r.joins /\ r.c = "\\" THEN AfterBackslash(peek(r)) ELSE r
CountLine(r) == IF r.joins /\ r.c = "nl" THEN [r EXCEPT !.seen = FALSE, !.line = @ + 1] ELSE r
next_char(r) == CountLine(JoinLines(Take(r)))

LineComment(p) == IF p.current \in {None, "nl"} THEN p ELSE LineComment(Advance(p))
Ignored(r) == r   \* seeded defect: the end of the file ends a comment
Unclosed(r) == [r EXCEPT !.errors = Append(@, "UnterminatedComment")]
AfterStar(p) == IF p.current = "/" THEN [next_char(p) EXCEPT !.ws = TRUE] ELSE BlockComment(next_char(p))
BlockComment(r) ==
  CASE r.c = None -> Unclosed(r)
    [] r.c = "*"  -> AfterStar(peek(r))
    [] OTHER      -> BlockComment(next_char(r))
Slash(q, stop) ==   \* two characters have been peeked
  CASE q.lookahead = "/" -> Blanks(LineComment(q), stop)
    [] q.lookahead = "*" -> Blanks(peek(BlockComment(next_char(next_char(next_char(q))))), stop)
    [] OTHER -> q
Blanks(p, stop) ==
  CASE p.current = " " \/ (p.current = "nl" /\ ~stop) -> Blanks([Advance(p) EXCEPT !.ws = TRUE], stop)
    [] p.current = "/" -> Slash(peek_next(p), stop)
    [] OTHER -> p

RECURSIVE SkipWhile(_, _)
SkipWhile(p, cs) == IF p.current \in cs THEN SkipWhile(Advance(p), cs) ELSE p

-----------------------------------------------------------------------------
(* Numbers *)

Token(r, kind, from) == [r EXCEPT !.tok = [NoToken EXCEPT !.k = kind, !.v = Slice(r, from), !.from = from, !.to = r.at]]
RadixDigits(radix) == {d \in DOMAIN HexValue : HexValue[d] < radix}

\* parse_int; 14, an e, ends the number whatever the radix
RECURSIVE DigitsOf(_, _)
DigitsOf(p, radix) ==
  CASE p.current \in RadixDigits(radix) -> DigitsOf([Advance(p) EXCEPT !.saw = TRUE], radix)
    [] p.current \in DOMAIN HexValue \ (RadixDigits(radix) \cup {"e"}) -> Failed(p, "InvalidDigit")
    [] OTHER -> p
parse_int(p, radix) == DigitsOf([p EXCEPT !.saw = FALSE], radix)

AfterMark(p) == IF p.current \in Digits \cup {"+", "-"} THEN SkipWhile(Advance(p), Digits) ELSE Failed(p, "ExponentMissingDigits")
parse_exponent(p, hex) == IF p.current = IF hex THEN "p" ELSE "e" THEN AfterMark(Advance(p)) ELSE SkipWhile(p, Digits)
FloatToken(p, from) ==
  CASE p.err # None -> p
    [] OTHER -> Token(IF p.current \in {"f", "l"} THEN next_char(p) ELSE p, "float", from)
parse_float(p, radix, from) == FloatToken(parse_exponent(SkipWhile(p, RadixDigits(radix)), radix = 16), from)

\* the suffixes: one u, then up to two l that belong to no literal
Long(t) == LET Ends(r) == [r EXCEPT !.tok.to = r.at] IN Ends(IF t.current = "l" THEN Eat(Advance(t), "l") ELSE t)
IntToken(p, from) == Long(IF p.current = "u" THEN peek(Token(next_char(p), "uint", from)) ELSE Token(p, "int", from))
AfterDigits(p, radix, from) ==
  CASE p.err # None -> p
    [] p.err = None /\ ~p.saw /\ radix \notin {8, 10} /\ p.current # "." -> Failed(p, "MissingDigits")
    [] OTHER ->
         CASE p.current = "." -> parse_float(Advance(p), radix, from)
           [] p.current \in {"e", "p"} -> FloatToken(parse_exponent(p, radix = 16), from)
           [] OTHER -> IntToken(p, from)
parse_num(p, from) ==   \* the first digit is p.c
  LET radix == CASE p.c # "0" \/ p.current = "." -> 10 [] p.c = "0" /\ p.current = "b" -> 2 [] p.c = "0" /\ p.current = "x" -> 16 [] OTHER -> 8
  IN AfterDigits(parse_int(IF radix \in {2, 16} THEN Advance(p) ELSE p, radix), radix, from)

-----------------------------------------------------------------------------
(* Characters and strings.  bytes: what has been read *)

Byte(r, b) == [byte |-> b, err |-> None, r |-> r]
NoByte(r, e) == [byte |-> 0, err |-> e, r |-> r]

Octal == {"0", "1", "2", "7"}
RECURSIVE OctalEscape(_, _, _), HexEscape(_, _)
OctalEscape(p, base, left) ==
  CASE left > 0 /\ p.current \in Octal -> OctalEscape(Advance(p), 8 * base + Decimal[p.current], left - 1)
    [] OTHER -> IF base > 255 THEN NoByte(Eat(p, "'"), "OctalTooLarge") ELSE Byte(p, base)
\* a value that is too large stays so
HexEscape(p, base) ==
  CASE p.current \in DOMAIN HexValue -> HexEscape(Advance(p), IF base > 255 THEN base ELSE 16 * base + HexValue[p.current])
    [] OTHER -> IF base > 255 THEN NoByte(Eat(p, "'"), "HexTooLarge") ELSE Byte(p, base)
Escape(p) ==   \* of p.c
  CASE p.c = None   -> NoByte(p, "Eof")
    [] p.c = "nl"   -> NoByte([p EXCEPT !.panicked = TRUE], "Newline")   \* unreachable!
    [] p.c = "n"    -> Byte(p, NewlineByte)
    [] p.c \in DOMAIN ControlBytes -> Byte(p, ControlBytes[p.c])
    [] p.c \in Digits -> OctalEscape(p, Decimal[p.c], 2)
    [] p.c = "x"    -> HexEscape(p, 0)
    [] p.c = "~"    -> NoByte(p, "MultiByte")
    [] OTHER        -> Byte(p, Code[p.c])   \* itself; a warning if it is no quote or backslash
Single(r, terminator) ==
  CASE r.c = None       -> NoByte(r, "Eof")
    [] r.c = "\\"       -> Escape(Advance(r))
    [] r.c = "nl"       -> NoByte(r, "Newline")
    [] r.c = terminator -> NoByte(r, "Terminator")
    [] r.c = "~"        -> NoByte(r, "MultiByte")
    [] OTHER            -> Byte(r, Code[r.c])
parse_single_char(r, terminator) == Single(next_char(r), terminator)

RECURSIVE UntilQuote(_), StringBytes(_, _)
UntilQuote(b) == IF b.err # None \/ b.byte = Code["'"] THEN b.r ELSE UntilQuote(parse_single_char(b.r, "'"))
CharErrors ==
  "Eof" :> "MissingEndQuote" @@ "Newline" :> "NewlineInChar" @@ "Terminator" :> "EmptyChar" @@ "HexTooLarge" :> "CharEscapeOutOfRange"
    @@ "OctalTooLarge" :> "CharEscapeOutOfRange" @@ "MultiByte" :> "MultiByteCharLiteral"
AfterByte(r, byte) ==
  CASE r.c = "'"  -> Byte(r, byte)
    [] r.c = "nl" -> NoByte(r, "NewlineInChar")
    [] r.c = None -> NoByte(r, "MissingEndQuote")
    [] OTHER      -> NoByte(UntilQuote(parse_single_char(r, "'")), "MultiByteCharLiteral")
OneChar(b) == IF b.err # None THEN NoByte(b.r, CharErrors[b.err]) ELSE AfterByte(next_char(b.r), b.byte)
parse_char_raw(r) == OneChar(parse_single_char(r, "'"))
StringBytes(b, bytes) ==
  CASE b.err = None         -> StringBytes(parse_single_char(b.r, "\""), Append(bytes, b.byte))
    [] b.err = "Terminator" -> [bytes |-> Append(bytes, 0), err |-> None, r |-> b.r]
    [] OTHER                -> [bytes |-> bytes, err |-> b.err, r |-> b.r]
parse_string_raw(r) == StringBytes(parse_single_char(r, "\""), <<>>)

Quoted(raw, kind, from) == IF raw.err # None THEN Failed(raw.r, raw.err) ELSE Token(raw.r, kind, from)

-----------------------------------------------------------------------------
(* Lexer::next *)

Twice   == {"+", "-", "&", "|"}
Assigns == {"+", "-", "*", "/", "%", "^", "=", "!", ">", "<", "&", "|"}   \* those that = may follow
Ellipsis(l) == IF l.lookahead = "." THEN next_char(next_char(l)) ELSE l
PunctuatorEnd(p) ==   \* the first character is p.c
  CASE \/ p.c \in Assigns /\ p.current = "="
       \/ p.c = "-" /\ p.current = ">"
       \/ p.c \in Twice /\ p.current = p.c -> next_char(p)
    [] p.c \in {"<", ">"} /\ p.current = p.c -> match_next(next_char(p), "=")
    [] p.c = "." /\ p.current = "." -> Ellipsis(peek_next(p))
    [] OTHER -> p

Cut(p, from) ==   \* the token that begins with p.c
  CASE p.c \in Letters -> Token(SkipWhile(p, Alnum), "id", from)
    [] p.c \in Digits  -> parse_num(p, from)
    [] p.c = "." /\ p.current \in Digits -> parse_float(p, 10, from)
    [] p.c = "'"  -> Quoted(parse_char_raw(p), "char", from)
    [] p.c = "\"" -> Quoted(parse_string_raw(p), "str", from)
    [] p.c \in Assigns \cup {"#", "(", ")", ";", ","} \/ (p.c = "." /\ p.current \notin Digits) -> Token(PunctuatorEnd(p), "punct", from)
    [] OTHER -> Failed(p, "UnknownToken")

ErrorToken(r, e, from) == [r EXCEPT !.tok = [NoToken EXCEPT !.k = "error", !.v = <<e>>, !.from = from, !.to = r.at], !.err = None]
QueuedError(r) == IF r.errors = <<>> THEN [r EXCEPT !.tok = NoToken] ELSE [ErrorToken(r, Head(r.errors), r.at) EXCEPT !.errors = Tail(@)]
IsHash(t) == t.k = "punct" /\ t.v = <<"#">>

AtEnd(r) == r.at = Len(r.text)
\* check_no_newline
Checked(r) == IF AtEnd(r) /\ Last(r.text) # "nl" THEN [r EXCEPT !.errors = Append(@, "NoNewlineAtEOF")] ELSE r
Return(t, from) == IF t.err # None THEN ErrorToken(t, t.err, from) ELSE [t EXCEPT !.seen = @ \/ ~IsHash(t.tok)]
CutNext(r) == IF r.c = None THEN QueuedError(r) ELSE Return(Cut(peek([r EXCEPT !.err = None]), r.at - 1), r.at - 1)
AfterBlanks(r, from) == IF r.ws THEN Token(r, "ws", from) ELSE CutNext(next_char(r))
next(r) ==
  CASE r.errors # <<>> -> QueuedError(r)
    [] r.errors = <<>> /\ AtEnd(r) -> [r EXCEPT !.tok = NoToken]
    [] OTHER -> AfterBlanks(Checked(consume_whitespace(r, FALSE)), r.at)

-----------------------------------------------------------------------------
(* Lines: lex/files.rs and lex/cpp.rs *)

RECURSIVE Visible(_), LineTokens(_, _)
Visible(r) == IF r.tok.k = "ws" THEN Visible(next(r)) ELSE r   \* next_non_whitespace

\* tokens_until_newline, without the white space
LineTokens(r, tokens) ==   \* r.tok has been read
  LET EndOfLine(p) == [p EXCEPT !.tok = IF p.current \in {None, "nl"} THEN NoToken ELSE @]
      More(p) == IF p.current \in {None, "nl"} THEN EndOfLine(p) ELSE next(p)
  IN IF r.tok.k = "none" THEN [r |-> r, tokens |-> tokens]
     ELSE LineTokens(More(peek(consume_whitespace(r, TRUE))), IF r.tok.k \in {"ws", "directive"} THEN tokens ELSE Append(tokens, [r.tok EXCEPT !.in = TRUE]))
tokens_until_newline(r) == LineTokens(r, <<>>)

\* a # that is the first token of its line begins a directive, if the name is on the same line
Name(n, line) ==
  CASE n.tok.k \in {"none", "error"} \/ n.line # line -> n
    [] n.line = line /\ n.tok.k = "id" /\ n.tok.v \in DirectiveNames -> [n EXCEPT !.tok.k = "directive"]
    [] OTHER -> ErrorToken(n, "InvalidDirective", n.tok.from)
AfterNext(n) == IF IsHash(n.tok) /\ ~n.seen THEN Name(Visible(next(n)), n.line) ELSE n
next_cpp_token(r) == AfterNext(next(r))

-----------------------------------------------------------------------------
(* LiteralToken::parse: the text of the token is read again, by PseudoLexer *)

RECURSIVE Accumulate(_, _, _)
Base == 2 ^ IntBits
Accumulate(cs, radix, acc) ==   \* Base: overflow
  IF cs = <<>> \/ acc >= Base \/ Head(cs) \notin RadixDigits(radix) THEN acc
  ELSE Accumulate(Tail(cs), radix, LET n == acc * radix + HexValue[Head(cs)] IN IF n >= Base THEN Base ELSE n)
parse_int_raw(cs) ==
  CASE Len(cs) > 1 /\ cs[1] = "0" /\ cs[2] = "b" -> Accumulate(SubSeq(cs, 3, Len(cs)), 2, 0)
    [] Len(cs) > 1 /\ cs[1] = "0" /\ cs[2] = "x" -> Accumulate(SubSeq(cs, 3, Len(cs)), 16, 0)
    [] OTHER -> Accumulate(cs, IF cs[1] = "0" THEN 8 ELSE 10, 0)

Unquoted(v) == Reader(v, FALSE)   \* seeded defect: the quote is read as a part of it
Reread(v) == Take(Reader(v, FALSE))   \* start_quote: the quote has been checked
parse(t) ==   \* v, or "panic"
  CASE t.k = "int" -> LET n == parse_int_raw(t.v) IN IF n >= Base \div 2 THEN [t EXCEPT !.k = "error", !.v = <<"IntegerOverflow">>] ELSE [t EXCEPT !.v = <<n>>]
    [] t.k = "uint" -> LET n == parse_int_raw(t.v) IN IF n >= Base THEN [t EXCEPT !.k = "error", !.v = <<"IntegerOverflow">>] ELSE [t EXCEPT !.v = <<n>>]
    [] t.k = "char" ->
         LET b == parse_char_raw(Reread(t.v)) IN IF b.err # None \/ b.r.panicked THEN [t EXCEPT !.k = "panic"] ELSE [t EXCEPT !.v = <<b.byte>>]
    [] t.k = "str" ->
         LET b == parse_string_raw(Reread(t.v)) IN IF b.err # None \/ b.r.panicked THEN [t EXCEPT !.k = "panic"] ELSE [t EXCEPT !.v = b.bytes]
    [] OTHER -> t
=============================================================================
