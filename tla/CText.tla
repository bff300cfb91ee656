---------------------------------- MODULE CText ----------------------------------
(***************************************************************************)
(* The reference: what C11 5.1.1.2 and 6.4 say of a text, by the longest   *)
(* sequence of characters that can be a token.  It translates nothing.     *)
(*                                                                         *)
(* Meaning(text).tokens is what there is in the text, with the values of   *)
(* the literals; .notes says in what way it lies outside C, or in which    *)
(* known departure of the code.                                            *)
(***************************************************************************)
EXTENDS Chars

\* phase 2: the positions that are left when the lines are joined
Splice(text, i) == i \in 1..(Len(text) - 1) /\ text[i] = "\\" /\ text[i + 1] = "nl"
Left(text) == SelectSeq([i \in 1..Len(text) |-> i], LAMBDA i : ~Splice(text, i) /\ ~Splice(text, i - 1))

Sub(cs, i, j) == SubSeq(cs, i, j)
AllIn(s, S) == \A i \in DOMAIN s : s[i] \in S
Least(S) == CHOOSE n \in S : \A m \in S : n <= m
Greatest(S) == CHOOSE n \in S : \A m \in S : n >= m

(* Which sequences are tokens *)
Identifier(s) == s[1] \in Letters /\ AllIn(s, Alnum)
Number(s) ==   \* a preprocessing number
  /\ s[1] \in Digits \/ (s[1] = "." /\ Len(s) > 1 /\ s[2] \in Digits)
  /\ \A i \in 2..Len(s) : s[i] \in Alnum \cup {"."} \/ (s[i] \in {"+", "-"} /\ s[i - 1] \in {"e", "p"})
Puncts ==
  {<<c>> : c \in {"+", "-", "*", "/", "=", "!", ">", "<", "&", ".", "#", "(", ")", ";", ","}}
    \cup {<<c, "=">> : c \in {"+", "-", "*", "/", "=", "!", ">", "<", "&"}} \cup {<<c, c>> : c \in {"+", "-", ">", "<", "&"}}
    \cup {<<"-", ">">>, <<">", ">", "=">>, <<"<", "<", "=">>, <<".", ".", ".">>}
\* a character of a literal or an escape sequence
Element(s) ==
  \/ Len(s) = 1 /\ s[1] \notin {"\\", "nl"}
  \/ Len(s) = 2 /\ s[1] = "\\" /\ s[2] # "nl"
  \/ Len(s) \in 3..4 /\ s[1] = "\\" /\ \A i \in 2..Len(s) : s[i] \in {"0", "1", "2", "7"}
  \/ Len(s) > 2 /\ s[1] = "\\" /\ s[2] = "x" /\ \A i \in 3..Len(s) : s[i] \in DOMAIN HexValue
RECURSIVE Elements(_)
Elements(s) ==   \* of the inside of a literal
  IF s = <<>> THEN <<>>
  ELSE LET fits == {n \in 1..Len(s) : Element(Sub(s, 1, n))}
       IN IF fits = {} THEN <<s>> ELSE <<Sub(s, 1, Greatest(fits))>> \o Elements(Sub(s, Greatest(fits) + 1, Len(s)))
Literal(s, quote) ==
  /\ Len(s) > 1 /\ s[1] = quote /\ s[Len(s)] = quote
  /\ LET es == Elements(Sub(s, 2, Len(s) - 1)) IN \A i \in DOMAIN es : Element(es[i]) /\ es[i] # <<quote>>
IsToken(s) == Identifier(s) \/ Number(s) \/ s \in Puncts \/ Literal(s, "'") \/ Literal(s, "\"")

(* Values *)
RECURSIVE Value(_, _)
Value(s, radix) == IF s = <<>> THEN 0 ELSE Value(Front(s), radix) * radix + HexValue[Last(s)]
ElementValue(e) ==
  CASE Len(e) = 1 -> Code[e[1]]
    [] e[2] = "x" /\ Len(e) > 2 -> Value(Sub(e, 3, Len(e)), 16)
    [] e[2] \in {"0", "1", "2", "7"} -> Value(Tail(e), 8)
    [] e[2] = "n" -> NewlineByte
    [] e[2] \in DOMAIN ControlBytes -> ControlBytes[e[2]]
    [] OTHER -> Code[e[2]]
LongSuffixes == {<<>>, <<"l">>, <<"l", "l">>}
UnsignedSuffixes == {<<"u">> \o l : l \in LongSuffixes} \cup {l \o <<"u">> : l \in LongSuffixes}
\* prefix, radix and digits
Radices == {<<<<>>, 10>>, <<<<>>, 8>>, <<<<"0", "x">>, 16>>, <<<<"0", "b">>, 2>>}
DigitsBelow(radix) == {d \in DOMAIN HexValue : HexValue[d] < radix}
Integers(s) ==   \* the ways to read s as an integer constant: at most one
  {[radix |-> r[2], digits |-> Sub(s, Len(r[1]) + 1, n), u |-> Sub(s, n + 1, Len(s)) \in UnsignedSuffixes, suffix |-> Sub(s, n + 1, Len(s))] :
     <<r, n>> \in {<<r, n>> \in Radices \X (1..Len(s)) :
        /\ n > Len(r[1]) /\ Sub(s, 1, Len(r[1])) = r[1]
        /\ AllIn(Sub(s, Len(r[1]) + 1, n), DigitsBelow(r[2]))
        /\ r[1] = <<>> => (s[1] = "0") = (r[2] = 8)
        /\ Sub(s, n + 1, Len(s)) \in LongSuffixes \cup UnsignedSuffixes}}
\* digits, a point or an exponent, a suffix; in base 16 the exponent is required
DigitSeq(s) == AllIn(s, Digits)
Mantissa(s) == \E n \in 0..Len(s) : DigitSeq(Sub(s, 1, n)) /\ (n = Len(s) \/ (s[n + 1] = "." /\ DigitSeq(Sub(s, n + 2, Len(s)))))
Float(s) ==
  LET body == IF Last(s) \in {"f", "l"} THEN Front(s) ELSE s
      Exponent(e) == e # <<>> /\ DigitSeq(IF e[1] \in {"+", "-"} THEN Tail(e) ELSE e) /\ Last(e) \in Digits
  IN \/ Mantissa(body) /\ \E i \in DOMAIN body : body[i] = "."
     \/ \E n \in 1..Len(body) : body[n] = "e" /\ Mantissa(Sub(body, 1, n - 1)) /\ n > 1 /\ Exponent(Sub(body, n + 1, Len(body)))

UMax == 2 ^ IntBits - 1
Item(k, v) == [k |-> k, v |-> v, notes |-> {}]
Noted(item, note) == [item EXCEPT !.notes = {note}]
IntegerItem(i) ==
  LET n == Value(i.digits, i.radix)
      large == n > UMax \/ (n > UMax \div 2 /\ ~i.u /\ i.radix = 10)
      item == Item(IF i.u \/ n > UMax \div 2 THEN "uint" ELSE "int", <<n>>)
  IN CASE large -> Noted(item, "bad")
       [] ~large /\ n > UMax \div 2 /\ ~i.u -> Noted(item, "unsigned")
       [] ~large /\ i.u /\ Head(i.suffix) = "l" -> Noted(item, "suffix")
       [] OTHER -> item
Bytes(s) == LET es == Elements(Sub(s, 2, Len(s) - 1)) IN [i \in DOMAIN es |-> ElementValue(es[i])]
ElementNotes(e) ==
  CASE Len(e) = 1 -> IF e[1] = "~" THEN {"nonascii"} ELSE {}
    [] e[2] = "~" -> {"bad"}
    [] e[2] \in {"8", "9", "d", "e", "l", "p", "u", " "} \/ e = <<"\\", "x">> -> {"escape"}
    [] OTHER -> IF ElementValue(e) > 255 THEN {"bad"} ELSE {}
LiteralItem(s) ==
  LET es == Elements(Sub(s, 2, Len(s) - 1))
      notes == UNION {ElementNotes(es[i]) : i \in DOMAIN es} \cup IF s[1] = "'" /\ Len(es) # 1 THEN {IF es = <<>> THEN "bad" ELSE "multichar"} ELSE {}
  IN [k |-> IF s[1] = "'" THEN "char" ELSE "str", notes |-> notes,
      v |-> IF notes # {} THEN <<>> ELSE IF s[1] = "'" THEN Bytes(s) ELSE Append(Bytes(s), 0)]
NumberItem(s) ==
  CASE Integers(s) # {} -> IntegerItem(CHOOSE i \in Integers(s) : TRUE)
    [] Integers(s) = {} /\ Float(s) -> IF Len(s) > 1 /\ s[1] = "0" /\ s[2] \in Digits THEN Noted(Item("float", s), "octal") ELSE Item("float", s)
    [] OTHER -> Noted(Item("float", s), "number")
ItemOf(s) ==
  CASE Identifier(s) -> Item("id", s)
    [] Number(s)     -> NumberItem(s)
    [] s \in Puncts  -> Item("punct", s)
    [] Len(s) > 1 /\ s[1] \in {"'", "\""} -> LiteralItem(s)
    [] OTHER         -> Noted(Item("other", s), "bad")

(* Phase 3: the text is cut from the left.  A piece has its first and last position. *)
BlankPiece(cs, i) ==   \* where the white space or comment at i ends; 0: none is there
  LET closes == {k \in (i + 2)..(Len(cs) - 1) : cs[k] = "*" /\ cs[k + 1] = "/"}
      ends == {k \in i..Len(cs) : cs[k] = "nl"}
  IN CASE cs[i] \in Blank -> i
       [] cs[i] = "/" /\ i < Len(cs) /\ cs[i + 1] = "/" -> IF ends = {} THEN Len(cs) ELSE Least(ends) - 1
       [] cs[i] = "/" /\ i < Len(cs) /\ cs[i + 1] = "*" -> IF closes = {} THEN Len(cs) ELSE Least(closes) + 1
       [] OTHER -> 0
RECURSIVE Cuts(_, _)
Cuts(cs, i) ==
  IF i > Len(cs) THEN <<>>
  ELSE LET b == BlankPiece(cs, i)
           fits == {n \in i..Len(cs) : IsToken(Sub(cs, i, n))}
           end == IF b > 0 THEN b ELSE IF fits = {} THEN i ELSE Greatest(fits)
       IN <<[from |-> i, to |-> end, blank |-> b > 0]>> \o Cuts(cs, end + 1)

(* The text as a whole *)
Judged(text, P, cs, cuts) ==   \* P: the places of cs in the text
  LET Is(n, c) == n \in DOMAIN cuts /\ cs[cuts[n].from] = c
      Comment(n) == cuts[n].blank /\ cs[cuts[n].from] = "/"
      Lines(n) == ~Comment(n) /\ \E i \in cuts[n].from..cuts[n].to : cs[i] = "nl"   \* ends its line
      Multi(n) == Comment(n) /\ \E i \in cuts[n].from..cuts[n].to : cs[i] = "nl"
      SameLine(m, n) == \A k \in m..n : ~Lines(k)
      Tokens == {n \in DOMAIN cuts : ~cuts[n].blank}
      Before(n) == {m \in Tokens : m < n /\ SameLine(m, n)}
      Hash(n) == n \in Tokens /\ Is(n, "#") /\ Before(n) = {}
      Named(n) == n \in Tokens /\ Cardinality(Before(n)) = 1 /\ \E h \in Before(n) : Hash(h)   \* the name of a directive
      Of(n) == Sub(cs, cuts[n].from, cuts[n].to)
      ItemAt(n) ==
        LET i == ItemOf(Of(n))
        IN [k |-> IF Named(n) THEN "directive" ELSE i.k, v |-> i.v, in |-> \E h \in Before(n) : Hash(h) /\ ~Named(n),
            from |-> P[cuts[n].from] - 1, to |-> P[cuts[n].to]]
      order == SelectSeq([n \in DOMAIN cuts |-> n], LAMBDA n : n \in Tokens /\ ~Hash(n))
      Splits(n) == /\ Comment(n) \/ ~cuts[n].blank
                   /\ \/ P[cuts[n].to] - P[cuts[n].from] # cuts[n].to - cuts[n].from
                      \/ Of(n) \in {<<"'">>, <<"\"">>} /\ \E i \in DOMAIN text : i > P[cuts[n].from] /\ Splice(text, i)   \* never closed
                      \/ Comment(n) /\ Splice(text, P[cuts[n].to] + 1)
      \* a splice before piece n, in a directive with nothing behind it
      Swallows(n) == n > 1 /\ P[cuts[n].from] - P[cuts[n - 1].to] > 1 /\ \E h \in Tokens : /\ Hash(h) /\ h < n /\ SameLine(h, n - 1)
                       /\ \A t \in Tokens : t >= n => ~SameLine(n, t)
      Null(n) == Hash(n) /\ \E m \in Tokens : m > n /\ ~SameLine(n, m) /\ Hash(m) /\ \A k \in Tokens : k <= n \/ k >= m
      Breaks(n) ==   \* a comment of several lines in front of # or of the name of a directive
        Multi(n) /\ \E m, t \in Tokens : m < n /\ n < t /\ SameLine(m, t) /\ (\A k \in Tokens : ~(m < k /\ k < t)) /\ (Named(t) \/ (Is(t, "#") /\ ~\E h \in Before(t) : Hash(h)))
      Open(n) == Comment(n) /\ cs[cuts[n].from + 1] = "*" /\ (cuts[n].to < cuts[n].from + 3 \/ cs[cuts[n].to] # "/" \/ cs[cuts[n].to - 1] # "*")
      open == \E n \in DOMAIN cuts : Open(n)
      misnamed == \E n \in Tokens : Named(n) /\ Of(n) \notin DirectiveNames
      Note(holds, name) == IF holds THEN {name} ELSE {}
  IN [tokens |-> [i \in DOMAIN order |-> ItemAt(order[i])],
      notes |-> UNION {ItemOf(Of(n)).notes : n \in Tokens}
                  \cup Note(open \/ misnamed, "bad") \cup Note(open, "open") \cup Note(\E n \in Tokens : Of(n) = <<"\\">>, "backslash") \cup Note(text = <<>> \/ Last(text) # "nl" \/ Splice(text, Len(text) - 1), "eof")
                  \cup Note(\E n \in DOMAIN cuts : Splits(n), "split") \cup Note(\E n \in DOMAIN cuts : Swallows(n), "swallow")
                  \cup Note(\E n \in Tokens : Null(n), "null") \cup Note(\E n \in DOMAIN cuts : Breaks(n), "comment")
                  \cup Note(\E n \in Tokens : cs[cuts[n].from] \in Digits \cup {"."} /\ Number(Of(n)) /\ Is(n + 1, "'"), "quote")]
WithCuts(text, P, cs) == Judged(text, P, cs, Cuts(cs, 1))
OnLines(text, P) == WithCuts(text, P, [n \in DOMAIN P |-> text[P[n]]])
Meaning(text) == OnLines(text, Left(text))
=============================================================================
