------------------------- MODULE ParsingProperties -------------------------
(***************************************************************************)
(* What is parsed, compared with the syntax tree that the source was made  *)
(* from: by the grammar of C, or by the Display implementations.           *)
(***************************************************************************)
EXTENDS Parsing, Display

RECURSIVE Nodes(_)
Nodes(t) == {t} \cup UNION {Nodes(t.a[i]) : i \in DOMAIN t.a}

IsAssignment(t) == t.o = "binary" /\ t.v \in {"=", "+="}
\* f(x = 1) is not parsed: match_postfix_op reads arguments with ternary_expr.
RejectedArgument(n) == n.o = "call" /\ \E i \in DOMAIN n.a[2].a : IsAssignment(n.a[2].a[i])

\* A name that was a typedef name once is not parsed as the name that is declared,
\* unless a typedef name stands before it.
ChainsOf(n) ==
  CASE n.o = "declaration" -> {d.a[1] : d \in ToSet(n.a[2].a)}
    [] n.o = "field"       -> {d.a[1] : d \in ToSet(n.a[2].a)}
    [] n.o = "definition"  -> {n.a[2].a[1]}
    [] n.o = "type"        -> {n.a[2]}
    [] OTHER -> {}
NamesIn(n) == {id.v : id \in UNION {ToSet(Names(chain)) : chain \in ChainsOf(n)}}
HasNamed(n) == \E i \in DOMAIN n.a[1].a : n.a[1].a[i].o = "named"
TypedefsIn(tree) == UNION {NamesIn(n) : n \in {d \in Nodes(tree) : d.o = "declaration" /\ IsTypedef(d.a[1].a)}}
Hides(tree, names) ==
  \E n \in Nodes(tree) :
     \/ NamesIn(n) \cap names # {} /\ ~HasNamed(n)
     \/ n.o = "label" /\ n.a[1].v \in names

Rejected(unit) ==
  \/ \E i \in DOMAIN unit : \E n \in Nodes(unit[i]) : RejectedArgument(n)
  \/ \E i, j \in DOMAIN unit : i < j /\ Hides(unit[j], TypedefsIn(unit[i]))

Grammatical(unit) == [kind |-> "grammar", tokens |-> Sentences(unit), unit |-> unit]
Printed(unit) == [kind |-> "display", tokens |-> Concatenated(unit), unit |-> unit]
Noisy(noise) == [kind |-> "noise", tokens |-> noise.tokens, unit |-> noise.following]

-----------------------------------------------------------------------------
Parsed == returned = origin.unit /\ ~refused

\* What the grammar of C makes of a unit is parsed as that unit, each operator with the
\* operands its precedence gives it: except where Rejected says so, and there it is not.
\* It is about binary_expr, the two tokens of lookahead and the typedef names.
ParsesGrammar == done /\ origin.kind = "grammar" => (Parsed <=> ~Rejected(origin.unit))

IsComma(t) == t.o = "binary" /\ t.v = ","
MisprintedNode(n) ==
  \/ n.o = "call" /\ \E i \in DOMAIN n.a[2].a : IsComma(n.a[2].a[i])
  \/ n.o \in {"init_declarator", "enumerator", "declarator"} /\ IsComma(n.a[2])
  \/ n.o \in {"enumerator", "declarator"} /\ IsAssignment(n.a[2])
  \/ n.o = "braces" /\ \E i \in DOMAIN n.a[1].a : IsComma(n.a[1].a[i])
  \/ IsComma(n) /\ IsComma(n.a[2])
  \/ n.o = "prefix" /\ n.v = "~" /\ n.a[1].o \in {"binary", "?"}
  \/ n.o = "definition" /\ Len(Parts(n.a[2].a[1])) > 1
  \/ n.o \in {"struct", "union", "enum"} /\ n.v # "" /\ n.a # <<>>
\* (T) + (b) is a cast of +b once T has been a typedef name.
AsCast(tree, names) ==
  \E n \in Nodes(tree) : n.o = "binary" /\ \E i \in DOMAIN n.a : n.a[i].o = "id" /\ n.a[i].v \in names
Misprinted(unit) ==
  \/ \E i \in DOMAIN unit : \E n \in Nodes(unit[i]) : MisprintedNode(n)
  \/ \E i, j \in DOMAIN unit : i < j /\ AsCast(unit[j], TypedefsIn(unit[i]))

\* The text that Display prints for a unit is parsed as that unit again, except where
\* Misprinted says so, and there it is not.
DisplayReparses ==
  done /\ origin.kind = "display" /\ ~Rejected(origin.unit) => (Parsed <=> ~Misprinted(origin.unit))

Punctuation == {"(", ")", "{", "}", ",", ";"}
Essence(s) == LET kept == SelectSeq(s, LAMBDA t : t.k \notin Punctuation) IN [i \in DOMAIN kept |-> <<kept[i].k, kept[i].v>>]

\* the tokens of the source that the grammar sees
Seen == LET places == SelectSeq([i \in DOMAIN origin.tokens |-> i], LAMBDA i : i \in Visible(origin.tokens))
        IN [i \in DOMAIN places |-> origin.tokens[places[i]]]

\* Nothing of an accepted source is lost or made up: but for separators, the declarations
\* returned have the tokens of the source.
TokensKept ==
  done /\ ~refused => Essence(FlattenSeq([i \in DOMAIN returned |-> Sentence(returned[i])])) = Essence(Seen)
=============================================================================
