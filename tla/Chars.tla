--------------------------------- MODULE Chars ---------------------------------
(***************************************************************************)
(* Characters.  A text is a sequence of them; the end of a line is "nl",   *)
(* and "~" stands for a character outside ASCII.                           *)
(***************************************************************************)
EXTENDS Naturals, FiniteSets, TLC, SequencesExt

CONSTANTS IntBits,          \* of the integers literals are read into: 64 in parse_int_raw
          DirectiveNames    \* identifiers that name a directive

None == ""   \* no character

Decimal  == [d \in {"0", "1", "2", "7", "8", "9"} |->
               CASE d = "0" -> 0 [] d = "1" -> 1 [] d = "2" -> 2 [] d = "7" -> 7 [] d = "8" -> 8 [] d = "9" -> 9]
HexValue == Decimal @@ ("a" :> 10 @@ "b" :> 11 @@ "d" :> 13 @@ "e" :> 14 @@ "f" :> 15)
Digits   == DOMAIN Decimal
Letters  == {"a", "b", "d", "e", "f", "l", "n", "p", "u", "x"}
Alnum    == Digits \cup Letters
Blank    == {" ", "nl"}

\* the byte of a character (ASCII)
Code == [d \in Digits |-> 48 + Decimal[d]] @@ [h \in DOMAIN HexValue |-> 87 + HexValue[h]]
          @@ ("l" :> 108 @@ "n" :> 110 @@ "p" :> 112 @@ "u" :> 117 @@ "x" :> 120)
          @@ (" " :> 32 @@ "\"" :> 34 @@ "#" :> 35 @@ "'" :> 39 @@ "*" :> 42 @@ "-" :> 45 @@ "." :> 46 @@ "/" :> 47 @@ "\\" :> 92)
NewlineByte == 10
\* the bytes of \a \b \f
ControlBytes == "a" :> 7 @@ "b" :> 8 @@ "f" :> 12
=============================================================================
