----------------------------- MODULE TokenBuffer -----------------------------
(***************************************************************************)
(* The two tokens of lookahead of parser/parse/mod.rs.                     *)
(*                                                                         *)
(* A parser m reads the tokens of its source lazily: read is the place of  *)
(* the first one it has not read, current and next hold what it has peeked *)
(* at.  A token keeps the place it stands at.                              *)
(***************************************************************************)
EXTENDS Naturals, Sequences, FiniteSets

\* a token: its kind, and the name or value of an identifier or a literal
Word(k) == [k |-> k, v |-> "", at |-> 0]
NamedToken(k, v) == [k |-> k, v |-> v, at |-> 0]
None == Word("<none>")
\* a sequence of tokens; None is the end of one and never in it
Source(s) == s \in Seq({s[i] : i \in DOMAIN s}) /\ \A i \in DOMAIN s : s[i].k # None.k

Blank == {" ", "error"}       \* what the grammar does not see
StringParts == Blank \cup {"str"}

\* where the run of tokens of these kinds ends that starts at place i
RunEnd(source, i, kinds) ==
  CHOOSE j \in i..(Len(source) + 1) :
     /\ \A n \in i..(j - 1) : source[n].k \in kinds
     /\ j <= Len(source) => source[j].k \notin kinds

\* A name is a typedef name or not at the moment it is read.
Classified(t, typedefs) == IF t.k = "id" /\ t.v \in typedefs THEN "usertypedef" ELSE t.k

Errors(source, from, to) ==
  [i \in 1..Cardinality({n \in from..to : source[n].k = "error"}) |-> "lexer"]

\* __impl_next_token: [t, m].  The errors of the lexer are reported, blanks dropped,
\* adjacent strings joined.
ReadTo(m, after) == [m EXCEPT !.read = after, !.errors = @ \o Errors(m.tokens, m.read, after - 1)]
Delivered(m, t, first) ==
  [t |-> [k |-> Classified(t, m.typedefs), v |-> t.v, at |-> first],
   m |-> ReadTo(m, IF t.k = "str" THEN RunEnd(m.tokens, first, StringParts) ELSE first + 1)]
ReadAt(m, first) ==
  IF first > Len(m.tokens) THEN [t |-> None, m |-> ReadTo(m, first)] ELSE Delivered(m, m.tokens[first], first)
impl_next_token(m) == ReadAt(m, RunEnd(m.tokens, m.read, Blank))

Consume(r, next) ==
  [t |-> r.t,
   m |-> [r.m EXCEPT !.current = next, !.next = None]]
next_token(m) == Consume(IF m.current # None THEN [t |-> m.current, m |-> m] ELSE impl_next_token(m), m.next)

AsCurrent(r) == [r.m EXCEPT !.current = r.t]
AsNext(r) == [r.m EXCEPT !.next = r.t]
peek_token(m) ==
  IF m.current # None THEN m
  ELSE IF m.next # None THEN [m EXCEPT !.current = m.next, !.next = None]
  ELSE AsCurrent(impl_next_token(m))

Forgotten(m) == FALSE  \* seeded defect: a token already peeked at is overwritten

HasNext(m) == m.next # None
peek_next_token(m) ==
  IF HasNext(m) THEN m
  ELSE AsNext(impl_next_token(IF m.current = None THEN AsCurrent(impl_next_token(m)) ELSE m))

\* unput(item) asserts that there is room for it.
unput(m, t) ==
  [m EXCEPT !.next = m.current, !.current = t,
            !.bad = @ \cup IF m.next = None THEN {} ELSE {"unput"}]

\* panic: next_token up to the end of a statement
StatementEnd == {";", "}"}
SkipFrom(m, kinds) ==
  LET to == RunEnd(m.tokens, m.read, kinds)
  IN [ReadTo(m, IF to > Len(m.tokens) THEN to ELSE to + 1) EXCEPT !.current = None, !.next = None]
panic(m) ==
  CASE m.current.k \in StatementEnd -> next_token(m).m
    [] m.current.k \notin StatementEnd /\ m.next.k \in StatementEnd -> [m EXCEPT !.current = None, !.next = None]
    [] OTHER -> SkipFrom(m, {m.tokens[i].k : i \in DOMAIN m.tokens} \ StatementEnd)

Take(m) == next_token(m).m
Kind(m) == m.current.k
Name(m) == m.current.v
AtEnd(m) == m.current = None
=============================================================================
