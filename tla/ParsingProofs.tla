---------------------------- MODULE ParsingProofs ----------------------------
(***************************************************************************)
(* For every source, whatever its tokens are: no assertion of the parser   *)
(* fails, it reads the tokens in their order, and it ends, within a bound  *)
(* that grows with the length of the source.                               *)
(*                                                                         *)
(* The bound: what the parser does is paid for by the tokens.  First come  *)
(* the steps a task costs up to the next token it takes, what the tokens   *)
(* that are left pay, and what a task may make of both; then that each     *)
(* task keeps to what it is allowed, so the account of the steps that are  *)
(* done and of those that are to come is never overdrawn.                  *)
(***************************************************************************)
EXTENDS Parsing, WellFoundedInduction, FiniteSetTheorems, SequenceTheorems, TLAPS

-----------------------------------------------------------------------------
(* The next place where something holds *)

Less == {ss \in Nat \X Nat : ss[1] < ss[2]}

LEMMA LessWellFounded == IsWellFoundedOn(Less, Nat)
<1>1. Less = OpToRel(<, Nat) BY DEF Less, OpToRel
<1>2. QED BY <1>1, NatLessThanWellFounded

\* A set of numbers that is not empty has a least one.
LEMMA LeastNumber ==
  ASSUME NEW S, S \subseteq Nat, S # {}
  PROVE  \E least \in S : \A k \in S : least <= k
<1>1. PICK least \in S : \A k \in S : <<k, least>> \notin Less BY LessWellFounded, WFMin
<1>2. SUFFICES ASSUME NEW k \in S PROVE least <= k OBVIOUS
<1>3. ~(k < least) BY <1>1 DEF Less
<1>4. k \in Nat /\ least \in Nat OBVIOUS
<1>5. QED BY <1>3, <1>4

\* The run of tokens of some kinds that starts at a place has an end.
LEMMA RunEnds ==
  ASSUME NEW source, Source(source), NEW i \in 1..(Len(source) + 1), NEW kinds
  PROVE  /\ RunEnd(source, i, kinds) \in i..(Len(source) + 1)
         /\ \A n \in i..(RunEnd(source, i, kinds) - 1) : source[n].k \in kinds
         /\ RunEnd(source, i, kinds) <= Len(source) => source[RunEnd(source, i, kinds)].k \notin kinds
<1> DEFINE Ends == {j \in i..(Len(source) + 1) : j <= Len(source) => source[j].k \notin kinds}
<1>1. Ends \subseteq Nat /\ Len(source) + 1 \in Ends BY DEF Source
<1>2. PICK least \in Ends : \A j \in Ends : least <= j BY <1>1, LeastNumber
<1>3. \A n \in i..(least - 1) : source[n].k \in kinds BY <1>2
<1>4. QED BY <1>2, <1>3 DEF RunEnd

-----------------------------------------------------------------------------
(* The invariant *)

Fields == DOMAIN Start(<<>>)

\* The adjacent strings before a place are joined without those behind it.
Fresh(source, place) ==
  \/ place > Len(source)
  \/ source[place].k \notin StringParts
  \/ ~\E j \in 1..(place - 1) : source[j].k = "str" /\ \A n \in j..(place - 1) : source[n].k \in StringParts

\* a parser between two tokens of its source
Placed(m) ==
  /\ DOMAIN m = Fields
  /\ Source(m.tokens)
  /\ m.read \in 1..(Len(m.tokens) + 1)
  /\ Fresh(m.tokens, m.read)

\* t is a token that has been read
Known(m, t) == DOMAIN t = DOMAIN None /\ t.k # None.k /\ t.at \in Visible(m.tokens) /\ t.at < m.read

\* what is peeked at stands in the order of the source
Queued(m) ==
  /\ m.current = None => m.next = None
  /\ m.current # None => Known(m, m.current)
  /\ m.next # None => Known(m, m.next) /\ m.current.at < m.next.at

Good(m) ==
  /\ Placed(m)
  /\ Queued(m)
  /\ m.bad = {}
  /\ m.exited \in BOOLEAN

\* n reads on where m stands: what it has consumed comes before what it has not
Onward(m, n) ==
  Good(m) =>
     /\ Good(n)
     /\ n.tokens = m.tokens
     /\ Ahead(n) \subseteq Ahead(m)
     /\ \A gone \in Ahead(m) \ Ahead(n), left \in Ahead(n) : gone < left

\* what is peeked at, place by place
LEMMA PeekedIs ==
  ASSUME NEW m
  PROVE  LET p == Peeked(m)
         IN /\ m.current = None /\ m.next = None => DOMAIN p = {}
            /\ m.current # None /\ m.next = None => DOMAIN p = {1} /\ p[1] = m.current.at
            /\ m.current = None /\ m.next # None => DOMAIN p = {1} /\ p[1] = m.next.at
            /\ m.current # None /\ m.next # None => DOMAIN p = {1, 2} /\ p[1] = m.current.at /\ p[2] = m.next.at
<1> DEFINE a == m.current.at
           b == m.next.at
           S == {a, b}
<1>1. a \in S /\ b \in S OBVIOUS
<1>2. Held(m.current) = IF m.current = None THEN <<>> ELSE <<a>> BY DEF Held
<1>3. Held(m.next) = IF m.next = None THEN <<>> ELSE <<b>> BY DEF Held
<1> HIDE DEF a, b, S
<1>4. <<>> \in Seq(S) /\ <<a>> \in Seq(S) /\ <<b>> \in Seq(S) /\ Len(<<a>>) = 1 /\ Len(<<b>>) = 1 /\ Len(<<>>) = 0 BY <1>1
<1>5. CASE m.current = None /\ m.next = None
  <2>1. Peeked(m) = <<>> BY <1>2, <1>3, <1>5 DEF Peeked
  <2>2. QED BY <1>5, <2>1
<1>6. CASE m.current # None /\ m.next = None
  <2>1. Peeked(m) = <<a>> BY <1>2, <1>3, <1>4, <1>6 DEF Peeked
  <2>2. DOMAIN Peeked(m) = {1} /\ Peeked(m)[1] = a BY <1>4, <2>1
  <2>3. QED BY <1>6, <2>2 DEF a
<1>7. CASE m.current = None /\ m.next # None
  <2>1. Peeked(m) = <<b>> BY <1>2, <1>3, <1>4, <1>7 DEF Peeked
  <2>2. DOMAIN Peeked(m) = {1} /\ Peeked(m)[1] = b BY <1>4, <2>1
  <2>3. QED BY <1>7, <2>2 DEF b
<1>8. CASE m.current # None /\ m.next # None
  <2>1. Peeked(m) = <<a>> \o <<b>> BY <1>2, <1>3, <1>8 DEF Peeked
  <2>2. <<a>> \o <<b>> \in Seq(S) /\ Len(<<a>> \o <<b>>) = 2 BY <1>4
  <2>3. (<<a>> \o <<b>>)[1] = a /\ (<<a>> \o <<b>>)[2] = b BY <1>4
  <2>4. DOMAIN Peeked(m) = {1, 2} BY <2>1, <2>2
  <2>5. QED BY <1>8, <2>1, <2>3, <2>4 DEF a, b
<1>9. QED BY <1>5, <1>6, <1>7, <1>8

\* the places ahead, without the sequences of Peeked
LEMMA AheadIs ==
  ASSUME NEW m, NEW i
  PROVE  i \in Ahead(m) <=>
           \/ m.current # None /\ i = m.current.at
           \/ m.next # None /\ i = m.next.at
           \/ i \in Visible(m.tokens) /\ i >= m.read
<1> DEFINE p == Peeked(m)
<1> HIDE DEF p
<1>1. i \in Ahead(m) <=> (\E n \in DOMAIN p : i = p[n]) \/ (i \in Visible(m.tokens) /\ i >= m.read)
  BY DEF Ahead, p
<1>2. /\ m.current = None /\ m.next = None => DOMAIN p = {}
      /\ m.current # None /\ m.next = None => DOMAIN p = {1} /\ p[1] = m.current.at
      /\ m.current = None /\ m.next # None => DOMAIN p = {1} /\ p[1] = m.next.at
      /\ m.current # None /\ m.next # None => DOMAIN p = {1, 2} /\ p[1] = m.current.at /\ p[2] = m.next.at
  BY PeekedIs DEF p
<1>3. QED BY <1>1, <1>2

\* a visible place is one of the source
LEMMA VisibleIs ==
  ASSUME NEW source, Source(source), NEW i \in Visible(source)
  PROVE  i \in 1..Len(source)
BY DEF Visible, Source

LEMMA OnwardReflexive == ASSUME NEW m PROVE Onward(m, m)
BY DEF Onward

LEMMA OnwardTransitive ==
  ASSUME NEW m, NEW n, NEW p, Onward(m, n), Onward(n, p)
  PROVE  Onward(m, p)
BY DEF Onward

-----------------------------------------------------------------------------
(* Reading a token *)

\* __impl_next_token passes over one token that the grammar sees, or over none at the end.
LEMMA ReadFacts ==
  ASSUME NEW m, Placed(m)
  PROVE  LET r == impl_next_token(m)
         IN /\ Placed(r.m)
            /\ \A f \in Fields \ {"read", "errors"} : r.m[f] = m[f]
            /\ m.read <= r.m.read
            /\ \/ r.t = None /\ \A v \in Visible(m.tokens) : v < m.read
               \/ /\ Known(r.m, r.t)
                  /\ m.read <= r.t.at
                  /\ \A v \in Visible(m.tokens) : m.read <= v /\ v < r.m.read => v = r.t.at
<1> DEFINE first == RunEnd(m.tokens, m.read, Blank)
           t == m.tokens[first]
           after == IF t.k = "str" THEN RunEnd(m.tokens, first, StringParts) ELSE first + 1
           V == Visible(m.tokens)
<1>1. Source(m.tokens) /\ Len(m.tokens) \in Nat /\ DOMAIN m.tokens = 1..Len(m.tokens) /\ m.read \in 1..(Len(m.tokens) + 1) /\ Fresh(m.tokens, m.read) /\ DOMAIN m = Fields
  BY DEF Placed, Source
<1>2. /\ first \in m.read..(Len(m.tokens) + 1)
      /\ \A n \in m.read..(first - 1) : m.tokens[n].k \in Blank
      /\ first <= Len(m.tokens) => t.k \notin Blank
  BY <1>1, RunEnds
<1>3. \A v \in V : v \in 1..Len(m.tokens) /\ m.tokens[v].k \notin Blank BY <1>1 DEF Visible
<1>4. \A v \in V : m.read <= v => first <= v BY <1>1, <1>2, <1>3
<1>5. CASE first > Len(m.tokens)
  <2>1. impl_next_token(m) = [t |-> None, m |-> ReadTo(m, first)] BY <1>5 DEF impl_next_token, ReadAt
  <2>2. ReadTo(m, first).read = first /\ (\A f \in Fields \ {"read", "errors"} : ReadTo(m, first)[f] = m[f]) /\ DOMAIN ReadTo(m, first) = Fields
    BY <1>1 DEF ReadTo, Fields, Start
  <2>3. Placed(ReadTo(m, first)) BY <1>1, <1>2, <1>5, <2>2 DEF Placed, Fresh, Fields, Start
  <2>4. \A v \in V : v < m.read BY <1>1, <1>2, <1>3, <1>4, <1>5
  <2>5. QED BY <1>1, <1>2, <2>1, <2>2, <2>3, <2>4
<1>6. CASE first <= Len(m.tokens)
  <2> DEFINE u == [k |-> Classified(t, m.typedefs), v |-> t.v, at |-> first]
  <2>1. impl_next_token(m) = [t |-> u, m |-> ReadTo(m, after)] BY <1>1, <1>2, <1>6 DEF impl_next_token, ReadAt, Delivered
  <2>2. first \in 1..Len(m.tokens) /\ t.k # None.k BY <1>1, <1>2, <1>6 DEF Source
  <2>3. after \in (first + 1)..(Len(m.tokens) + 1) /\ Fresh(m.tokens, after) /\ \A v \in V : first <= v /\ v < after => v = first
    <3>1. CASE t.k = "str"
      <4>1. /\ after \in first..(Len(m.tokens) + 1)
            /\ \A n \in first..(after - 1) : m.tokens[n].k \in StringParts
            /\ after <= Len(m.tokens) => m.tokens[after].k \notin StringParts
        BY <1>1, <2>2, <3>1, RunEnds
      <4>2. after # first BY <2>2, <3>1, <4>1 DEF StringParts
      <4>3. ASSUME NEW v \in V, first <= v, v < after PROVE v = first
        <5>1. SUFFICES ASSUME first < v PROVE FALSE BY <1>1, <1>3, <2>2, <4>3
        <5>2. v \in 1..Len(m.tokens) /\ m.tokens[v].k = "str"
          <6>1. v \in 1..Len(m.tokens) /\ m.tokens[v].k \notin Blank BY <1>3
          <6>2. v \in first..(after - 1) BY <2>2, <4>1, <4>3, <6>1
          <6>3. QED BY <4>1, <6>1, <6>2 DEF StringParts
        <5>3. Continues(m.tokens, v)
          <6>1. first \in 1..(v - 1) /\ m.tokens[first].k = "str" BY <2>2, <3>1, <5>1, <5>2
          <6>2. \A n \in first..(v - 1) : m.tokens[n].k \in StringParts BY <2>2, <4>1, <4>3, <5>2
          <6>3. QED BY <5>2, <6>1, <6>2 DEF Continues
        <5>4. QED BY <4>3, <5>3 DEF Visible
      <4>4. \A v \in V : first <= v /\ v < after => v = first BY <4>3
      <4>5. QED BY <2>2, <4>1, <4>2, <4>4 DEF Fresh
    <3>2. CASE t.k # "str"
      <4>1. after = first + 1 BY <3>2
      <4>2. t.k \notin StringParts BY <1>2, <1>6, <3>2 DEF StringParts
      <4>3. Fresh(m.tokens, after) BY <1>1, <2>2, <4>1, <4>2 DEF Fresh
      <4>4. QED BY <1>1, <1>3, <2>2, <4>1, <4>3
    <3>3. QED BY <3>1, <3>2
  <2>4. ReadTo(m, after).read = after /\ (\A f \in Fields \ {"read", "errors"} : ReadTo(m, after)[f] = m[f]) /\ DOMAIN ReadTo(m, after) = Fields
    BY <1>1 DEF ReadTo, Fields, Start
  <2>5. Placed(ReadTo(m, after)) BY <1>1, <2>2, <2>3, <2>4 DEF Placed, Fields, Start
  <2>6. first \in V
    <3>1. t.k \notin Blank BY <1>2, <1>6
    <3>2. ~Continues(m.tokens, first)
      <4>1. SUFFICES ASSUME t.k = "str", NEW j \in 1..(first - 1), m.tokens[j].k = "str", \A n \in j..(first - 1) : m.tokens[n].k \in StringParts
                     PROVE FALSE
        BY DEF Continues
      <4>2. j < m.read
        <5>1. "str" \notin Blank BY DEF Blank
        <5>2. QED BY <1>1, <1>2, <2>2, <4>1, <5>1
      <4>3. m.tokens[m.read].k \in StringParts BY <1>1, <1>2, <2>2, <4>1 DEF StringParts
      <4>4. QED BY <1>1, <1>2, <2>2, <4>1, <4>2, <4>3, SMTT(20) DEF Fresh
    <3>3. QED BY <1>1, <2>2, <3>1, <3>2 DEF Visible
  <2>7. DOMAIN u = DOMAIN None /\ u.k # None.k
    <3>1. None.k = "<none>" BY DEF None, Word
    <3>2. Classified(t, m.typedefs) # None.k BY <2>2, <3>1 DEF Classified
    <3>3. DOMAIN u = DOMAIN None BY DEF None, Word
    <3>4. QED BY <3>2, <3>3
  <2>8. u.at = first OBVIOUS
  <2> HIDE DEF u, after, first
  <2>9. Known(ReadTo(m, after), u) BY <1>1, <2>2, <2>3, <2>4, <2>6, <2>7, <2>8 DEF Known, Fields, Start
  <2>10. QED BY <1>1, <1>2, <1>4, <2>1, <2>2, <2>3, <2>4, <2>5, <2>8, <2>9
<1>7. QED BY <1>1, <1>2, <1>5, <1>6

-----------------------------------------------------------------------------
(* What each operation does to the lookahead *)

LEMMA FieldsAre ==
  Fields = {"tokens", "read", "current", "next", "typedefs", "errors", "bad", "pending", "stack", "vals", "failed", "exited"}
BY DEF Fields, Start

\* A step that neither reads nor moves a token leaves the parser where it is.
LEMMA StaysOnward ==
  ASSUME NEW m, NEW n,
         DOMAIN m = Fields => DOMAIN n = Fields /\ \A f \in {"tokens", "read", "current", "next", "bad"} : n[f] = m[f],
         Good(m) => n.exited \in BOOLEAN
  PROVE  Onward(m, n)
<1>1. SUFFICES ASSUME Good(m) PROVE Onward(m, n) BY DEF Onward
<1>2. DOMAIN n = Fields /\ n.tokens = m.tokens /\ n.read = m.read /\ n.current = m.current /\ n.next = m.next /\ n.bad = m.bad
  BY <1>1 DEF Good, Placed
<1>3. Good(n) BY <1>1, <1>2 DEF Good, Placed, Queued, Known
<1>4. Ahead(n) = Ahead(m) BY <1>2 DEF Ahead, Peeked
<1>5. QED BY <1>2, <1>3, <1>4 DEF Onward

\* the numbers among what a good parser holds
LEMMA GoodFacts ==
  ASSUME NEW m, Good(m)
  PROVE  /\ DOMAIN m = Fields
         /\ m.read \in Nat
         /\ \A v \in Visible(m.tokens) : v \in Nat
         /\ m.current # None => m.current.at \in Visible(m.tokens) /\ m.current.at < m.read /\ m.current.at \in Nat
         /\ m.next # None => m.current # None /\ m.next.at \in Visible(m.tokens) /\ m.next.at < m.read /\ m.next.at \in Nat /\ m.current.at < m.next.at
<1>1. \A v \in Visible(m.tokens) : v \in Nat BY VisibleIs DEF Good, Placed, Source
<1>2. m.read \in Nat BY DEF Good, Placed, Source
<1>3. QED BY <1>1, <1>2 DEF Good, Placed, Queued, Known

LEMMA TakeFacts ==
  ASSUME NEW m, Good(m)
  PROVE  LET n == Take(m)
         IN /\ Onward(m, n)
            /\ n.next = None
            /\ m.current # None => n.current = m.next /\ n.read = m.read
            /\ m.current # None => \A i : i \in Ahead(m) <=> i = m.current.at \/ i \in Ahead(n)
            /\ m.current # None => \A left \in Ahead(n) : m.current.at < left
<1> DEFINE V == Visible(m.tokens)
           n == Take(m)
<1>2. CASE m.current # None
  <2>1. n = [m EXCEPT !.current = m.next, !.next = None] BY <1>2 DEF Take, next_token, Consume
  <2>2. /\ DOMAIN n = Fields /\ n.current = m.next /\ n.next = None
        /\ n.tokens = m.tokens /\ n.read = m.read /\ n.bad = m.bad /\ n.exited = m.exited
    BY <2>1, GoodFacts, FieldsAre
  <2> HIDE DEF n
  <2>3. Good(n) BY <2>2 DEF Good, Placed, Queued, Known
  <2>4. \A i : i \in Ahead(n) <=> (m.next # None /\ i = m.next.at) \/ (i \in V /\ i >= m.read) BY <2>2, AheadIs
  <2>5. \A i : i \in Ahead(m) <=> i = m.current.at \/ (m.next # None /\ i = m.next.at) \/ (i \in V /\ i >= m.read) BY <1>2, AheadIs
  <2>6. \A left \in Ahead(n) : m.current.at < left BY <1>2, <2>4, GoodFacts
  <2>7. Onward(m, n) BY <2>2, <2>3, <2>4, <2>5, <2>6 DEF Onward
  <2>8. QED BY <1>2, <2>2, <2>4, <2>5, <2>6, <2>7 DEF n
<1>3. CASE m.current = None
  <2> DEFINE r == impl_next_token(m)
  <2>1. m.next = None BY <1>3 DEF Good, Queued
  <2>2. n = [r.m EXCEPT !.current = None, !.next = None] BY <1>3, <2>1 DEF Take, next_token, Consume
  <2>3. /\ Placed(r.m) /\ m.read <= r.m.read
        /\ \A f \in Fields \ {"read", "errors"} : r.m[f] = m[f]
        /\ \/ \A v \in V : v < m.read
           \/ Known(r.m, r.t) /\ m.read <= r.t.at /\ \A v \in V : m.read <= v /\ v < r.m.read => v = r.t.at
    BY ReadFacts DEF Good
  <2> HIDE DEF r
  <2>4. DOMAIN r.m = Fields /\ r.m.tokens = m.tokens /\ r.m.bad = m.bad /\ r.m.exited = m.exited
    BY <2>3, FieldsAre DEF Placed
  <2>5. /\ DOMAIN n = Fields /\ n.current = None /\ n.next = None
        /\ n.tokens = m.tokens /\ n.read = r.m.read /\ n.bad = m.bad /\ n.exited = m.exited
    BY <2>2, <2>4, FieldsAre
  <2> HIDE DEF n
  <2>6. Good(n) BY <2>3, <2>4, <2>5 DEF Good, Placed, Queued
  <2>7. \A i : i \in Ahead(n) <=> i \in V /\ i >= r.m.read BY <2>5, AheadIs
  <2>8. \A i : i \in Ahead(m) <=> i \in V /\ i >= m.read BY <1>3, <2>1, AheadIs
  <2>9. r.m.read \in Nat BY <2>5, <2>6, GoodFacts
  <2>10. \A i \in Ahead(n) : i \in Ahead(m) BY <2>3, <2>7, <2>8, <2>9, GoodFacts
  <2>11. \A gone \in Ahead(m), left \in Ahead(n) : gone \notin Ahead(n) => gone < left BY <2>3, <2>7, <2>8, <2>9, GoodFacts
  <2>12. Onward(m, n) BY <2>5, <2>6, <2>10, <2>11 DEF Onward
  <2>13. QED BY <1>3, <2>5, <2>12 DEF n
<1>4. QED BY <1>2, <1>3

LEMMA Consumed ==
  ASSUME NEW m, Good(m), m.current # None
  PROVE  /\ \A i : i \in Ahead(m) <=> i = m.current.at \/ i \in Ahead(Take(m))
         /\ \A left \in Ahead(Take(m)) : m.current.at < left
BY TakeFacts

LEMMA TakeOnward == ASSUME NEW m PROVE Onward(m, Take(m))
<1>1. ~Good(m) => Onward(m, Take(m)) BY DEF Onward
<1>2. QED BY <1>1, TakeFacts

\* reading the token behind what is held
LEMMA FetchCurrent ==
  ASSUME NEW m, Good(m), m.current = None
  PROVE  LET n == AsCurrent(impl_next_token(m))
         IN /\ Onward(m, n)
            /\ n.next = None
            /\ n.current = None => Ahead(n) = {}
            /\ Ahead(n) = Ahead(m) /\ m.read <= n.read
<1> DEFINE V == Visible(m.tokens)
           r == impl_next_token(m)
           n == AsCurrent(r)
<1>1. m.next = None BY DEF Good, Queued
<1>2. /\ Placed(r.m) /\ m.read <= r.m.read
      /\ \A f \in Fields \ {"read", "errors"} : r.m[f] = m[f]
      /\ \/ r.t = None /\ \A v \in V : v < m.read
         \/ Known(r.m, r.t) /\ m.read <= r.t.at /\ \A v \in V : m.read <= v /\ v < r.m.read => v = r.t.at
  BY ReadFacts DEF Good
<1>3. n = [r.m EXCEPT !.current = r.t] BY DEF AsCurrent
<1> HIDE DEF r, n
<1>4. DOMAIN r.m = Fields /\ r.m.tokens = m.tokens /\ r.m.next = m.next /\ r.m.bad = m.bad /\ r.m.exited = m.exited
  BY <1>2, FieldsAre DEF Placed
<1>5. /\ DOMAIN n = Fields /\ n.current = r.t /\ n.next = None
      /\ n.tokens = m.tokens /\ n.read = r.m.read /\ n.bad = m.bad /\ n.exited = m.exited
  BY <1>1, <1>3, <1>4, FieldsAre
<1>6. Good(n) BY <1>2, <1>4, <1>5 DEF Good, Placed, Queued, Known
<1>7. \A i : i \in Ahead(n) <=> (r.t # None /\ i = r.t.at) \/ (i \in V /\ i >= r.m.read) BY <1>5, AheadIs
<1>8. \A i : i \in Ahead(m) <=> i \in V /\ i >= m.read BY <1>1, AheadIs
<1>9. r.m.read \in Nat BY <1>5, <1>6, GoodFacts
<1>10. r.t # None => r.t.at \in V /\ m.read <= r.t.at /\ r.t.at < r.m.read /\ \A v \in V : m.read <= v /\ v < r.m.read => v = r.t.at
  BY <1>2, <1>4 DEF Known
<1>11. r.t = None => \A v \in V : v < m.read
  <2>1. Known(r.m, r.t) => r.t # None BY DEF Known
  <2>2. QED BY <1>2, <2>1
<1>12. m.read \in Nat /\ \A v \in V : v \in Nat BY GoodFacts
<1>13. \A i : i \in Ahead(n) => i \in Ahead(m) BY <1>2, <1>7, <1>8, <1>9, <1>10, <1>12
<1>14. \A i : i \in Ahead(m) => i \in Ahead(n)
  <2>1. CASE r.t = None BY <1>7, <1>8, <1>9, <1>11, <1>12, <2>1
  <2>2. CASE r.t # None BY <1>7, <1>8, <1>9, <1>10, <1>12, <2>2
  <2>3. QED BY <2>1, <2>2
<1>15. Onward(m, n) BY <1>5, <1>6, <1>13, <1>14 DEF Onward
<1>16. n.current = None => Ahead(n) = {}
  <2>1. SUFFICES ASSUME r.t = None, NEW i \in Ahead(n) PROVE FALSE BY <1>5
  <2>2. QED BY <1>2, <1>7, <1>9, <1>11, <1>12, <2>1
<1>17. QED BY <1>2, <1>5, <1>13, <1>14, <1>15, <1>16 DEF n, r

LEMMA FetchNext ==
  ASSUME NEW m, Good(m), m.next = None, m.current = None => Ahead(m) = {}
  PROVE  Onward(m, AsNext(impl_next_token(m)))
<1> DEFINE V == Visible(m.tokens)
           r == impl_next_token(m)
           n == AsNext(r)
<1>1. /\ Placed(r.m) /\ m.read <= r.m.read
      /\ \A f \in Fields \ {"read", "errors"} : r.m[f] = m[f]
      /\ \/ r.t = None /\ \A v \in V : v < m.read
         \/ Known(r.m, r.t) /\ m.read <= r.t.at /\ \A v \in V : m.read <= v /\ v < r.m.read => v = r.t.at
  BY ReadFacts DEF Good
<1>2. n = [r.m EXCEPT !.next = r.t] BY DEF AsNext
<1> HIDE DEF r, n
<1>3. DOMAIN r.m = Fields /\ r.m.tokens = m.tokens /\ r.m.current = m.current /\ r.m.bad = m.bad /\ r.m.exited = m.exited
  BY <1>1, FieldsAre DEF Placed
<1>4. /\ DOMAIN n = Fields /\ n.current = m.current /\ n.next = r.t
      /\ n.tokens = m.tokens /\ n.read = r.m.read /\ n.bad = m.bad /\ n.exited = m.exited
  BY <1>2, <1>3, FieldsAre
<1>5. m.read \in Nat /\ r.m.read \in Nat /\ \A v \in V : v \in Nat
  <2>1. r.m.read \in Nat BY <1>1 DEF Placed, Source
  <2>2. QED BY <2>1, GoodFacts
<1>6. r.t # None => Known(n, r.t) /\ r.t.at \in V /\ m.read <= r.t.at /\ r.t.at < r.m.read /\ \A v \in V : m.read <= v /\ v < r.m.read => v = r.t.at
  BY <1>1, <1>3, <1>4 DEF Known
<1>7. r.t = None => \A v \in V : v < m.read
  <2>1. Known(r.m, r.t) => r.t # None BY DEF Known
  <2>2. QED BY <1>1, <2>1
<1>8. \A i : i \in Ahead(m) <=> (m.current # None /\ i = m.current.at) \/ (i \in V /\ i >= m.read) BY AheadIs
<1>9. \A i : i \in Ahead(n) <=> (m.current # None /\ i = m.current.at) \/ (r.t # None /\ i = r.t.at) \/ (i \in V /\ i >= r.m.read)
  BY <1>4, AheadIs
<1>10. m.current = None => r.t = None
  <2>1. SUFFICES ASSUME m.current = None, r.t # None PROVE FALSE OBVIOUS
  <2>2. r.t.at \in Ahead(m) BY <1>5, <1>6, <1>8, <2>1
  <2>3. QED BY <2>1, <2>2
<1>11. m.current # None => Known(n, m.current) /\ m.current.at < m.read
  BY <1>1, <1>3, <1>4, <1>5, GoodFacts DEF Good, Queued, Known
<1>12. Good(n)
  <2>1. Queued(n)
    <3>1. r.t # None => m.current.at < r.t.at BY <1>5, <1>6, <1>10, GoodFacts
    <3>2. QED BY <1>4, <1>6, <1>10, <1>11, <3>1 DEF Queued
  <2>2. Placed(n) BY <1>1, <1>3, <1>4 DEF Placed
  <2>3. QED BY <1>4, <2>1, <2>2 DEF Good
<1>13. \A i : i \in Ahead(n) => i \in Ahead(m) BY <1>1, <1>5, <1>6, <1>8, <1>9
<1>14. \A i : i \in Ahead(m) => i \in Ahead(n)
  <2>1. CASE r.t = None BY <1>5, <1>7, <1>8, <1>9, <2>1
  <2>2. CASE r.t # None BY <1>5, <1>6, <1>8, <1>9, <2>2
  <2>3. QED BY <2>1, <2>2
<1>15. QED BY <1>4, <1>12, <1>13, <1>14 DEF Onward, n, r

LEMMA PeekFacts ==
  ASSUME NEW m, Good(m)
  PROVE  LET n == peek_token(m)
         IN /\ Onward(m, n)
            /\ m.next = None => n.next = None
            /\ n.current = None => Ahead(n) = {}
            /\ Ahead(n) = Ahead(m) /\ m.read <= n.read
<1>1. CASE m.current # None
  <2>1. peek_token(m) = m BY <1>1 DEF peek_token
  <2>2. QED BY <1>1, <2>1, OnwardReflexive, GoodFacts
<1>2. CASE m.current = None
  <2>1. peek_token(m) = AsCurrent(impl_next_token(m)) BY <1>2 DEF peek_token, Good, Queued
  <2>2. QED BY <1>2, <2>1, FetchCurrent
<1>3. QED BY <1>1, <1>2

LEMMA PeekOnward == ASSUME NEW m PROVE Onward(m, peek_token(m))
<1>1. ~Good(m) => Onward(m, peek_token(m)) BY DEF Onward
<1>2. QED BY <1>1, PeekFacts

LEMMA PeekNextOnward == ASSUME NEW m PROVE Onward(m, peek_next_token(m))
<1>1. SUFFICES ASSUME Good(m) PROVE Onward(m, peek_next_token(m)) BY DEF Onward
<1>2. CASE m.next # None BY <1>2, OnwardReflexive DEF peek_next_token, HasNext
<1>3. CASE m.next = None /\ m.current # None
  <2>1. peek_next_token(m) = AsNext(impl_next_token(m)) BY <1>3 DEF peek_next_token, HasNext
  <2>2. QED BY <1>1, <1>3, <2>1, FetchNext
<1>4. CASE m.next = None /\ m.current = None
  <2> DEFINE n == AsCurrent(impl_next_token(m))
  <2>1. peek_next_token(m) = AsNext(impl_next_token(n)) BY <1>4 DEF peek_next_token, HasNext
  <2>2. Onward(m, n) /\ n.next = None /\ (n.current = None => Ahead(n) = {}) BY <1>1, <1>4, FetchCurrent
  <2>3. Good(n) BY <1>1, <2>2 DEF Onward
  <2> HIDE DEF n
  <2>4. Onward(n, AsNext(impl_next_token(n))) BY <2>2, <2>3, FetchNext
  <2>5. QED BY <2>1, <2>2, <2>4, OnwardTransitive
<1>5. QED BY <1>2, <1>3, <1>4

\* A parser may forget what it has peeked at and skip tokens.
LEMMA DropOnward ==
  ASSUME NEW m, Good(m), NEW n,
         DOMAIN n = Fields, n.tokens = m.tokens, n.bad = m.bad, n.exited = m.exited,
         n.current = None, n.next = None,
         n.read \in m.read..(Len(m.tokens) + 1), Fresh(m.tokens, n.read)
  PROVE  Onward(m, n)
<1> DEFINE V == Visible(m.tokens)
<1>1. Good(n) BY DEF Good, Placed, Queued
<1>2. \A i : i \in Ahead(n) <=> i \in V /\ i >= n.read BY AheadIs
<1>3. \A i : i \in Ahead(m) <=> (m.current # None /\ i = m.current.at) \/ (m.next # None /\ i = m.next.at) \/ (i \in V /\ i >= m.read)
  BY AheadIs
<1>4. n.read \in Nat /\ m.read \in Nat /\ m.read <= n.read BY <1>1, GoodFacts
<1>5. \A left \in Ahead(n) : left \in Ahead(m) BY <1>2, <1>3, <1>4, GoodFacts
<1>6. \A gone \in Ahead(m) : gone \in V BY <1>3, GoodFacts
<1>7. \A v \in V : v \in Nat BY GoodFacts
<1>8. \A gone \in Ahead(m), left \in Ahead(n) : gone \notin Ahead(n) => gone < left BY <1>2, <1>4, <1>6, <1>7
<1>9. QED BY <1>1, <1>5, <1>8 DEF Onward

LEMMA PanicOnward == ASSUME NEW m PROVE Onward(m, panic(m))
<1>1. SUFFICES ASSUME Good(m) PROVE Onward(m, panic(m)) BY DEF Onward
<1>2. /\ Source(m.tokens) /\ Len(m.tokens) \in Nat /\ DOMAIN m.tokens = 1..Len(m.tokens)
      /\ m.read \in 1..(Len(m.tokens) + 1) /\ Fresh(m.tokens, m.read) /\ DOMAIN m = Fields
  BY <1>1 DEF Good, Placed, Source
<1>3. CASE m.current.k \in StatementEnd
  <2>1. panic(m) = Take(m) BY <1>3 DEF panic, Take
  <2>2. QED BY <2>1, TakeOnward
<1>4. CASE m.current.k \notin StatementEnd /\ m.next.k \in StatementEnd
  <2> DEFINE n == [m EXCEPT !.current = None, !.next = None]
  <2>1. panic(m) = n BY <1>4 DEF panic
  <2>2. /\ DOMAIN n = Fields /\ n.tokens = m.tokens /\ n.bad = m.bad /\ n.exited = m.exited /\ n.current = None /\ n.next = None
        /\ n.read = m.read
    BY <1>2, FieldsAre
  <2> HIDE DEF n
  <2>3. n.read \in m.read..(Len(m.tokens) + 1) BY <1>2, <2>2
  <2>4. QED BY <1>1, <1>2, <2>1, <2>2, <2>3, DropOnward
<1>5. CASE m.current.k \notin StatementEnd /\ m.next.k \notin StatementEnd
  <2> DEFINE kinds == {m.tokens[i].k : i \in DOMAIN m.tokens} \ StatementEnd
             to == RunEnd(m.tokens, m.read, kinds)
             place == IF to > Len(m.tokens) THEN to ELSE to + 1
             n == [ReadTo(m, place) EXCEPT !.current = None, !.next = None]
  <2>1. panic(m) = n BY <1>5 DEF panic, SkipFrom
  <2>2. /\ to \in m.read..(Len(m.tokens) + 1)
        /\ to <= Len(m.tokens) => m.tokens[to].k \notin kinds
    BY <1>2, RunEnds
  <2>3. to <= Len(m.tokens) => m.tokens[to].k \in StatementEnd
    <3>1. to <= Len(m.tokens) => to \in DOMAIN m.tokens BY <1>2, <2>2
    <3>2. QED BY <2>2, <3>1
  <2>4. place \in m.read..(Len(m.tokens) + 1) BY <1>2, <2>2
  <2>5. Fresh(m.tokens, place)
    <3>1. CASE to > Len(m.tokens) BY <3>1 DEF Fresh
    <3>2. CASE to <= Len(m.tokens)
      <4>1. m.tokens[to].k \notin StringParts BY <2>3, <3>2 DEF StatementEnd, StringParts, Blank
      <4>2. place = to + 1 /\ to \in 1..Len(m.tokens) BY <1>2, <2>2, <3>2
      <4>3. \A j \in 1..(place - 1) : to \in j..(place - 1) BY <4>2
      <4>4. QED BY <4>1, <4>3 DEF Fresh
    <3>3. QED BY <1>2, <2>2, <3>1, <3>2
  <2> HIDE DEF kinds, to, place
  <2>6. /\ DOMAIN ReadTo(m, place) = Fields
        /\ ReadTo(m, place).read = place
        /\ \A f \in Fields \ {"read", "errors"} : ReadTo(m, place)[f] = m[f]
    BY <1>2 DEF ReadTo, Fields, Start
  <2>7. /\ DOMAIN n = Fields /\ n.tokens = m.tokens /\ n.bad = m.bad /\ n.exited = m.exited /\ n.current = None /\ n.next = None
        /\ n.read = place
    BY <2>6, FieldsAre
  <2> HIDE DEF n
  <2>8. QED BY <1>1, <2>1, <2>4, <2>5, <2>7, DropOnward
<1>6. QED BY <1>3, <1>4, <1>5

\* putting back the first of the tokens that are ahead
LEMMA UnputOnward ==
  ASSUME NEW m, Good(m), NEW n, Good(n), n.tokens = m.tokens, n.next = None,
         NEW t, Known(n, t),
         \A i : i \in Ahead(m) <=> i = t.at \/ i \in Ahead(n),
         \A left \in Ahead(n) : t.at < left
  PROVE  Onward(m, unput(n, t))
<1> DEFINE p == unput(n, t)
<1>1. DOMAIN n = Fields BY DEF Good, Placed
<1>2. /\ DOMAIN p = Fields /\ p.current = t /\ p.next = n.current /\ p.bad = n.bad
      /\ p.tokens = n.tokens /\ p.read = n.read /\ p.exited = n.exited
  BY <1>1, FieldsAre DEF unput
<1> HIDE DEF p
<1>3. t # None BY DEF Known
<1>4. n.current # None => Known(n, n.current) /\ t.at < n.current.at
  <2>1. n.current # None => n.current.at \in Ahead(n) BY AheadIs
  <2>2. QED BY <2>1 DEF Good, Queued
<1>5. Good(p) BY <1>2, <1>3, <1>4 DEF Good, Placed, Queued, Known
<1>6. \A i : i \in Ahead(n) <=> (n.current # None /\ i = n.current.at) \/ (i \in Visible(n.tokens) /\ i >= n.read) BY AheadIs
<1>7. \A i : i \in Ahead(p) <=> i = t.at \/ (n.current # None /\ i = n.current.at) \/ (i \in Visible(n.tokens) /\ i >= n.read)
  BY <1>2, <1>3, AheadIs
<1>8. Ahead(p) = Ahead(m) BY <1>6, <1>7
<1>9. QED BY <1>2, <1>5, <1>8 DEF Onward, p

-----------------------------------------------------------------------------
(* Steps that do not look at the tokens *)

LEMMA PushOnward == ASSUME NEW m, NEW tasks PROVE Onward(m, Push(m, tasks))
<1>1. Good(m) => Push(m, tasks).exited \in BOOLEAN BY FieldsAre DEF Push, Good, Placed
<1>2. QED BY <1>1, StaysOnward, FieldsAre DEF Push

LEMMA YieldOnward == ASSUME NEW m, NEW node PROVE Onward(m, Yield(m, node))
<1>1. Good(m) => Yield(m, node).exited \in BOOLEAN BY FieldsAre DEF Yield, Good, Placed
<1>2. QED BY <1>1, StaysOnward, FieldsAre DEF Yield

LEMMA ReportOnward == ASSUME NEW m, NEW err PROVE Onward(m, Report(m, err))
<1>1. Good(m) => Report(m, err).exited \in BOOLEAN BY FieldsAre DEF Report, Good, Placed
<1>2. QED BY <1>1, StaysOnward, FieldsAre DEF Report

LEMMA FailOnward == ASSUME NEW m, NEW err PROVE Onward(m, Fail(m, err))
<1>1. Good(m) => Fail(m, err).exited \in BOOLEAN BY FieldsAre DEF Fail, Good, Placed
<1>2. QED BY <1>1, StaysOnward, FieldsAre DEF Fail

LEMMA KeepOnward == ASSUME NEW m, NEW n PROVE Onward(m, Keep(m, n))
<1>1. Good(m) => Keep(m, n).exited \in BOOLEAN BY FieldsAre DEF Keep, Good, Placed
<1>2. QED BY <1>1, StaysOnward, FieldsAre DEF Keep

LEMMA PopOnward == ASSUME NEW m PROVE Onward(m, Pop(m))
<1>1. Good(m) => Pop(m).exited \in BOOLEAN BY FieldsAre DEF Pop, Good, Placed
<1>2. QED BY <1>1, StaysOnward, FieldsAre DEF Pop

LEMMA BuiltOnward == ASSUME NEW m, NEW o, NEW v, NEW n PROVE Onward(m, Built(m, o, v, n))
<1>1. Good(m) => Built(m, o, v, n).exited \in BOOLEAN BY FieldsAre DEF Built, Good, Placed
<1>2. QED BY <1>1, StaysOnward, FieldsAre DEF Built

LEMMA AppendedOnward == ASSUME NEW m PROVE Onward(m, Appended(m))
<1>1. Good(m) => Appended(m).exited \in BOOLEAN BY FieldsAre DEF Appended, Good, Placed
<1>2. QED BY <1>1, StaysOnward, FieldsAre DEF Appended

LEMMA MergeOnward == ASSUME NEW m, NEW o, NEW v PROVE Onward(m, merge_decls(m, o, v))
<1>1. Good(m) => merge_decls(m, o, v).exited \in BOOLEAN BY FieldsAre DEF merge_decls, Good, Placed
<1>2. QED BY <1>1, StaysOnward, FieldsAre DEF merge_decls

LEMMA PointerOnward == ASSUME NEW m PROVE Onward(m, pointer(m))
<1>1. Good(m) => pointer(m).exited \in BOOLEAN BY FieldsAre DEF pointer, Good, Placed
<1>2. QED BY <1>1, StaysOnward, FieldsAre DEF pointer

LEMMA InsertedOnward == ASSUME NEW m, NEW names PROVE Onward(m, Inserted(m, names))
<1>1. Good(m) => Inserted(m, names).exited \in BOOLEAN BY FieldsAre DEF Inserted, Good, Placed
<1>2. QED BY <1>1, StaysOnward, FieldsAre DEF Inserted

LEMMA RecoveredOnward == ASSUME NEW m PROVE Onward(m, [m EXCEPT !.failed = ""])
<1>1. Good(m) => [m EXCEPT !.failed = ""].exited \in BOOLEAN BY FieldsAre DEF Good, Placed
<1>2. QED BY <1>1, StaysOnward, FieldsAre

LEMMA RecursionOnward == ASSUME NEW m, NEW n, NEW tasks PROVE Onward(m, recursion_check(m, n, tasks))
<1> DEFINE p == Push(m, tasks \o <<With("drop", "", n)>>)
           deep == Guards(m) + n > MAX_DEPTH
<1>1. recursion_check(m, n, tasks) = [p EXCEPT !.exited = deep] BY DEF recursion_check
<1>2. deep \in BOOLEAN OBVIOUS
<1> HIDE DEF p, deep
<1>3. Onward(m, p) BY PushOnward DEF p
<1>4. Onward(p, [p EXCEPT !.exited = deep])
  <2>1. Good(p) => [p EXCEPT !.exited = deep].exited \in BOOLEAN BY <1>2, FieldsAre DEF Good, Placed
  <2>2. QED BY <2>1, StaysOnward, FieldsAre
<1>5. QED BY <1>1, <1>3, <1>4, OnwardTransitive

\* All of these may follow any others.
LEMMA Moves ==
  \A m, n : Onward(m, n) =>
     /\ Onward(m, Take(n))
     /\ Onward(m, peek_token(n))
     /\ Onward(m, peek_next_token(n))
     /\ Onward(m, panic(n))
BY TakeOnward, PeekOnward, PeekNextOnward, PanicOnward, OnwardTransitive

LEMMA Pushes == \A m, n, tasks : Onward(m, n) => Onward(m, Push(n, tasks))
BY PushOnward, OnwardTransitive
LEMMA Yields == \A m, n, node : Onward(m, n) => Onward(m, Yield(n, node))
BY YieldOnward, OnwardTransitive
LEMMA Reports == \A m, n, err : Onward(m, n) => Onward(m, Report(n, err))
BY ReportOnward, OnwardTransitive
LEMMA Fails == \A m, n, err : Onward(m, n) => Onward(m, Fail(n, err))
BY FailOnward, OnwardTransitive
LEMMA Builds == \A m, n, o, v, i : Onward(m, n) => Onward(m, Built(n, o, v, i))
BY BuiltOnward, OnwardTransitive
LEMMA Merges == \A m, n, o, v : Onward(m, n) => Onward(m, merge_decls(n, o, v))
BY MergeOnward, OnwardTransitive
LEMMA Recurses == \A m, n, i, tasks : Onward(m, n) => Onward(m, recursion_check(n, i, tasks))
BY RecursionOnward, OnwardTransitive
LEMMA Starts == \A m : Onward(m, m)
BY OnwardReflexive

-----------------------------------------------------------------------------
(* Putting a token back *)

\* specifiers: a typedef name that was taken is put back as the name declared
LEMMA UnputName ==
  ASSUME NEW q, q.current # None
  PROVE  Onward(q, unput(Take(q), [q.current EXCEPT !.k = "id"]))
<1>1. SUFFICES ASSUME Good(q) PROVE Onward(q, unput(Take(q), [q.current EXCEPT !.k = "id"])) BY DEF Onward
<1> DEFINE n == Take(q)
           t == [q.current EXCEPT !.k = "id"]
<1>2. Good(n) /\ n.tokens = q.tokens /\ n.next = None /\ n.read = q.read BY <1>1, TakeFacts DEF Onward
<1>3. (\A i : i \in Ahead(q) <=> i = q.current.at \/ i \in Ahead(n)) /\ \A left \in Ahead(n) : q.current.at < left
  BY <1>1, Consumed
<1>4. DOMAIN q.current = DOMAIN None /\ Known(q, q.current) BY <1>1 DEF Good, Queued, Known
<1>5. t.at = q.current.at /\ DOMAIN t = DOMAIN None /\ t.k # None.k BY <1>4 DEF None, Word
<1> HIDE DEF n, t
<1>6. Known(n, t) BY <1>2, <1>4, <1>5 DEF Known
<1>7. QED BY <1>1, <1>2, <1>3, <1>5, <1>6, UnputOnward DEF n, t

\* statement: a name is put back after the token behind it was peeked at
LEMMA UnputAhead ==
  ASSUME NEW q, q.current # None
  PROVE  Onward(q, unput(peek_token(Take(q)), q.current))
<1>1. SUFFICES ASSUME Good(q) PROVE Onward(q, unput(peek_token(Take(q)), q.current)) BY DEF Onward
<1> DEFINE n == Take(q)
           p == peek_token(n)
           t == q.current
<1>2. Good(n) /\ n.tokens = q.tokens /\ n.next = None /\ n.read = q.read BY <1>1, TakeFacts DEF Onward
<1>3. (\A i : i \in Ahead(q) <=> i = t.at \/ i \in Ahead(n)) /\ \A left \in Ahead(n) : t.at < left
  BY <1>1, Consumed
<1>4. Good(p) /\ p.tokens = n.tokens /\ p.next = None /\ Ahead(p) = Ahead(n) /\ n.read <= p.read BY <1>2, PeekFacts DEF Onward
<1>5. Known(p, t)
  <2>1. Known(q, t) BY <1>1 DEF Good, Queued
  <2>2. t.at \in Nat /\ q.read \in Nat /\ p.read \in Nat BY <1>1, <1>4, GoodFacts
  <2> HIDE DEF n, p, t
  <2>3. QED BY <1>2, <1>4, <2>1, <2>2 DEF Known
<1> HIDE DEF n, p, t
<1>6. QED BY <1>1, <1>2, <1>3, <1>4, <1>5, UnputOnward DEF n, p, t

\* match_literal: what is no literal is put back, the end of the source too
LEMMA UnputAny ==
  ASSUME NEW q, q.current = None => Ahead(q) = {}
  PROVE  Onward(q, unput(next_token(q).m, next_token(q).t))
<1>1. SUFFICES ASSUME Good(q) PROVE Onward(q, unput(next_token(q).m, next_token(q).t)) BY DEF Onward
<1> DEFINE n == Take(q)
           t == next_token(q).t
<1>2. Good(n) /\ n.tokens = q.tokens /\ n.next = None /\ Onward(q, n) BY <1>1, TakeFacts DEF Onward
<1>3. CASE q.current # None
  <2>1. t = q.current BY <1>3 DEF next_token, Consume
  <2>2. (\A i : i \in Ahead(q) <=> i = t.at \/ i \in Ahead(n)) /\ (\A left \in Ahead(n) : t.at < left) /\ n.read = q.read
    <3>1. (\A i : i \in Ahead(q) <=> i = q.current.at \/ i \in Ahead(n)) /\ \A left \in Ahead(n) : q.current.at < left
      BY <1>1, <1>3, Consumed
    <3>2. n.read = q.read BY <1>1, <1>3, TakeFacts
    <3> HIDE DEF n
    <3>3. QED BY <2>1, <3>1, <3>2
  <2>3. Known(n, t) BY <1>1, <1>2, <1>3, <2>1, <2>2 DEF Good, Queued, Known
  <2>4. n = next_token(q).m BY DEF Take
  <2> HIDE DEF n, t
  <2>5. Onward(q, unput(n, t)) BY <1>1, <1>2, <2>2, <2>3, UnputOnward
  <2>6. QED BY <2>4, <2>5 DEF t
<1>4. CASE q.current = None
  <2> DEFINE r == impl_next_token(q)
             p == unput(n, t)
  <2>1. t = r.t /\ n = [r.m EXCEPT !.current = q.next, !.next = None] BY <1>4 DEF next_token, Consume, Take
  <2>2. Ahead(q) = {} BY <1>4
  <2>3. t = None
    <3>1. \/ r.t = None
          \/ Known(r.m, r.t) /\ q.read <= r.t.at /\ r.m.tokens = q.tokens
      BY <1>1, ReadFacts, FieldsAre DEF Good
    <3>2. SUFFICES ASSUME r.t.at \in Visible(q.tokens), q.read <= r.t.at PROVE FALSE BY <2>1, <3>1 DEF Known
    <3>3. r.t.at \in Ahead(q)
      <4> HIDE DEF r
      <4>1. r.t.at >= q.read BY <1>1, <3>2, GoodFacts
      <4>2. QED BY <3>2, <4>1, AheadIs
    <3>4. QED BY <2>2, <3>3
  <2>4. n.current = None
    <3>1. DOMAIN r.m = Fields BY <1>1, ReadFacts DEF Good, Placed
    <3>2. q.next = None BY <1>1, <1>4 DEF Good, Queued
    <3>3. QED BY <2>1, <3>1, <3>2, FieldsAre
  <2>5. DOMAIN n = Fields BY <1>2 DEF Good, Placed
  <2>6. n = next_token(q).m BY DEF Take
  <2> HIDE DEF n, t, r
  <2>7. DOMAIN p = Fields /\ \A f \in {"tokens", "read", "current", "next", "bad", "exited"} : p[f] = n[f]
    BY <1>2, <2>3, <2>4, <2>5, FieldsAre DEF unput, Good
  <2> HIDE DEF p
  <2>8. Onward(n, p)
    <3>1. Good(n) => p.exited \in BOOLEAN BY <2>7 DEF Good
    <3>2. QED BY <2>7, <3>1, StaysOnward
  <2>9. Onward(q, p) BY <1>2, <2>8, OnwardTransitive
  <2>10. QED BY <2>6, <2>9 DEF p, t
<1>5. QED BY <1>3, <1>4

-----------------------------------------------------------------------------
(* The functions of the parser *)

\* a word that is no end of file is a token
LEMMA KindIsToken == ASSUME NEW m, Kind(m) # "<none>" PROVE m.current # None
<1>1. None.k = "<none>" BY DEF None, Word
<1>2. QED BY <1>1 DEF Kind

\* panic, expect and the end of a block
LEMMA ErrorsOnward ==
  ASSUME NEW q, NEW k, NEW errs, NEW task
  PROVE  /\ Onward(q, expect(q, k))
         /\ Onward(q, expect_id(q))
         /\ Kind(q) = "}" \/ AtEnd(q) => Onward(q, CloseBlock(q, errs))
         /\ Onward(q, Resume(q, task))
         /\ Onward(q, Recover(q, task))
         /\ Onward(q, NoCast(q, task))
         /\ Onward(q, Unwind(q, task))
<1> USE Starts, Moves, Pushes, Yields, Reports, Fails
<1>1. Onward(q, expect(q, k)) BY DEF expect
<1>2. Onward(q, expect_id(q)) BY DEF expect_id
<1>3. \A m, es : Onward(q, m) => Onward(q, BlockResult(m, es))
  <2>1. SUFFICES ASSUME NEW m, NEW es, Onward(q, m) PROVE Onward(q, BlockResult(m, es)) OBVIOUS
  <2> DEFINE n == [m EXCEPT !.errors = @ \o Front(es)]
  <2>2. Onward(m, n)
    <3>1. Good(m) => n.exited \in BOOLEAN BY FieldsAre DEF Good, Placed
    <3>2. QED BY <3>1, StaysOnward, FieldsAre
  <2>3. Onward(q, n) BY <2>1, <2>2, OnwardTransitive
  <2> HIDE DEF n
  <2>4. Onward(q, Fail(n, Last(es))) BY <2>3
  <2>5. QED BY <2>1, <2>4 DEF BlockResult, n
<1>4. \A m, es : Onward(q, m) /\ (Kind(m) = "}" \/ AtEnd(m)) => Onward(q, CloseBlock(m, es))
  <2>1. SUFFICES ASSUME NEW m, NEW es, Onward(q, m), Kind(m) = "}" \/ AtEnd(m) PROVE Onward(q, CloseBlock(m, es)) OBVIOUS
  <2>2. CASE Kind(m) = "}"
    <3>1. Onward(q, BlockResult(Take(m), es)) BY <1>3, <2>1
    <3>2. QED BY <2>2, <3>1 DEF CloseBlock
  <2>3. CASE Kind(m) # "}"
    <3> DEFINE n == [m EXCEPT !.bad = @ \cup {}]
    <3>1. CloseBlock(m, es) = BlockResult(n, Append(es, "unclosed")) BY <2>1, <2>3 DEF CloseBlock
    <3>2. Onward(m, n)
      <4>1. Good(m) => n.exited \in BOOLEAN BY FieldsAre DEF Good, Placed
      <4>2. QED BY <4>1, StaysOnward, FieldsAre
    <3> HIDE DEF n
    <3>3. QED BY <1>3, <2>1, <3>1, <3>2, OnwardTransitive
  <2>4. QED BY <2>2, <2>3
<1>5. \A m, t : Onward(q, m) => Onward(q, Resume(m, t)) BY <1>4 DEF Resume
<1>6. \A m : Onward(q, m) => Onward(q, AfterStatement(m)) BY DEF AfterStatement
<1>7. \A m, n : Onward(q, m) => Onward(q, Keep(m, n)) BY KeepOnward, OnwardTransitive
<1>8. Onward(q, [q EXCEPT !.failed = ""]) BY RecoveredOnward
<1>9. Onward(q, Recover(q, task))
  <2> DEFINE n == Keep([q EXCEPT !.failed = ""], task.n)
  <2>1. Onward(q, n) BY <1>7, <1>8
  <2>2. Recover(q, task) = Resume(peek_token(AfterStatement(n)), [With("block", "", task.n) EXCEPT !.errs = Append(task.errs, q.failed)]) BY DEF Recover
  <2> HIDE DEF n
  <2>3. Onward(q, peek_token(AfterStatement(n))) BY <1>6, <2>1
  <2>4. QED BY <1>5, <2>2, <2>3
<1>10. Onward(q, NoCast(q, task)) BY <1>7, <1>8 DEF NoCast
<1>11. Onward(q, Unwind(q, task)) BY <1>9, <1>10 DEF Unwind
<1>12. QED BY <1>1, <1>2, <1>4, <1>5, <1>9, <1>10, <1>11

\* parser/parse/expr.rs
LEMMA ExpressionsOnward ==
  ASSUME NEW q, NEW n, NEW k
  PROVE  /\ Onward(q, binary_expr(q, n))
         /\ Onward(q, operators(q, n))
         /\ Onward(q, unary(q))
         /\ Onward(q, operator(q))
         /\ (q.current = None => Ahead(q) = {}) => Onward(q, primary(q))
         /\ Onward(q, postfix(q))
         /\ Onward(q, first_argument(q))
         /\ Onward(q, more_arguments(q))
<1> USE Starts, Moves, Pushes, Yields, Reports, Fails, Recurses
<1>1. Onward(q, binary_expr(q, n)) BY DEF binary_expr
<1>2. Onward(q, operators(q, n)) BY DEF operators
<1>3. \A m : Onward(q, m) => Onward(q, LookPast(m)) BY DEF LookPast
<1>4. Onward(q, unary(q)) BY <1>3 DEF unary, Unary
<1>5. \A m, x : Onward(q, m) => Onward(q, SizeOf(m, x)) BY DEF SizeOf
<1>6. Onward(q, operator(q)) BY <1>3, <1>5 DEF operator
<1>7. (q.current = None => Ahead(q) = {}) => Onward(q, primary(q))
  <2>1. SUFFICES ASSUME q.current = None => Ahead(q) = {} PROVE Onward(q, primary(q)) OBVIOUS
  <2>2. Onward(q, Literal(next_token(q))) BY DEF Literal, Take
  <2>3. Onward(q, NotLiteral(next_token(q))) BY <2>1, UnputAny DEF NotLiteral
  <2>4. QED BY <2>2, <2>3, ErrorsOnward DEF primary
<1>8. Onward(q, postfix(q)) BY DEF postfix
<1>9. Onward(q, first_argument(q)) BY DEF first_argument
<1>10. Onward(q, more_arguments(q)) BY ErrorsOnward DEF more_arguments
<1>11. QED BY <1>1, <1>2, <1>4, <1>6, <1>7, <1>8, <1>9, <1>10

\* parser/parse/decl.rs: specifiers, structs and enumerations
LEMMA SpecifiersOnward ==
  ASSUME NEW q, NEW n, NEW o
  PROVE  /\ Onward(q, specifiers(q, n))
         /\ Onward(q, struct_specifier(q, o))
         /\ Onward(q, enum_specifier(q))
         /\ Onward(q, members(q))
         /\ Onward(q, struct_declarators(q))
         /\ Onward(q, named_member(q))
         /\ Onward(q, bitfield(q))
         /\ Onward(q, more_declarators(q))
         /\ Onward(q, enumerators(q))
         /\ Onward(q, enum_value(q))
         /\ Onward(q, more_enumerators(q))
<1> USE Starts, Moves, Pushes, Yields, Reports, Fails, ErrorsOnward
<1>1. Onward(q, specifiers(q, n))
  <2>1. q.current.k = "usertypedef" => q.current # None BY KindIsToken DEF Kind
  <2>2. q.current.k = "usertypedef" => Onward(q, unput(Take(q), [q.current EXCEPT !.k = "id"])) BY <2>1, UnputName
  <2>3. QED BY <2>2 DEF specifiers
<1>2. \A m, x, name : Onward(q, m) => Onward(q, TagBody(m, x, name)) BY DEF TagBody
<1>3. \A x : Onward(q, struct_specifier(q, x)) BY <1>2 DEF struct_specifier
<1>4. Onward(q, enum_specifier(q)) BY <1>3 DEF enum_specifier
<1>5. Onward(q, members(q)) BY DEF members
<1>6. Onward(q, struct_declarators(q)) BY DEF struct_declarators
<1>7. Onward(q, named_member(q)) BY DEF named_member
<1>8. Onward(q, bitfield(q)) BY DEF bitfield
<1>9. Onward(q, more_declarators(q)) BY DEF more_declarators
<1>10. Onward(q, enumerators(q)) BY DEF enumerators
<1>11. Onward(q, enum_value(q)) BY DEF enum_value
<1>12. Onward(q, more_enumerators(q)) BY DEF more_enumerators
<1>13. QED BY <1>1, <1>3, <1>4, <1>5, <1>6, <1>7, <1>8, <1>9, <1>10, <1>11, <1>12

\* declarators and types
LEMMA DeclaratorsOnward ==
  ASSUME NEW q, NEW kind
  PROVE  /\ Onward(q, declarator(q, kind))
         /\ Onward(q, qualifiers(q, kind))
         /\ Onward(q, direct_declarator(q, kind))
         /\ Onward(q, postfix_type(q, kind))
         /\ Onward(q, first_parameter(q))
         /\ Onward(q, parameter(q))
         /\ Onward(q, more_parameters(q))
         /\ Onward(q, type_name(q))
         /\ Onward(q, type(q))
<1> USE Starts, Moves, Pushes, Yields, Reports, Fails, Builds, Merges, Recurses
<1>1. Onward(q, declarator(q, kind)) BY DEF declarator
<1>2. Onward(q, qualifiers(q, kind)) BY DEF qualifiers
<1>3. \A m, parts : Onward(q, m) => Onward(q, Declared(m, parts, kind)) BY DEF Declared
<1>4. \A m : Onward(q, m) => Onward(q, ParenthesisedDeclarator(m, kind)) BY <1>3 DEF ParenthesisedDeclarator
<1>5. Onward(q, direct_declarator(q, kind)) BY <1>3, <1>4 DEF direct_declarator
<1>6. \A m : Onward(q, m) => Onward(q, ArraySize(m, kind)) BY DEF ArraySize
<1>7. \A m : Onward(q, m) => Onward(q, StaticSize(m, kind)) BY DEF StaticSize
<1>8. \A m : Onward(q, m) => Onward(q, ArrayType(m, kind)) BY <1>6, <1>7 DEF ArrayType
<1>9. Onward(q, postfix_type(q, kind)) BY <1>8 DEF postfix_type
<1>10. Onward(q, first_parameter(q)) BY DEF first_parameter
<1>11. Onward(q, parameter(q)) BY DEF parameter
<1>12. Onward(q, more_parameters(q)) BY DEF more_parameters
<1>13. Onward(q, type_name(q)) BY DEF type_name
<1>14. Onward(q, type(q)) BY DEF type
<1>15. QED BY <1>1, <1>2, <1>5, <1>9, <1>10, <1>11, <1>12, <1>13, <1>14

\* the body of a function, and any block
LEMMA Compounds == \A m, n : Onward(m, n) => Onward(m, compound_statement(n))
BY Moves, Yields, Pushes DEF compound_statement

\* initialisers and external declarations
LEMMA DeclarationsOnward ==
  ASSUME NEW q
  PROVE  /\ Onward(q, initial(q))
         /\ Onward(q, initializer(q))
         /\ Onward(q, aggregate_initializer(q))
         /\ Onward(q, elements(q))
         /\ Onward(q, more_elements(q))
         /\ Onward(q, semicolons(q))
         /\ Onward(q, external_declaration(q))
         /\ Onward(q, declared(q))
         /\ Onward(q, function(q))
         /\ Onward(q, definition(q))
         /\ Onward(q, more(q))
         /\ Onward(q, into_declaration(q))
<1> USE Starts, Moves, Pushes, Yields, Reports, Fails, Builds, Recurses, ErrorsOnward
<1>1. Onward(q, initial(q)) BY DEF initial
<1>2. Onward(q, initializer(q)) BY DEF initializer
<1>3. Onward(q, aggregate_initializer(q)) BY DEF aggregate_initializer
<1>4. Onward(q, elements(q)) BY DEF elements
<1>5. Onward(q, more_elements(q)) BY DEF more_elements
<1>6. Onward(q, semicolons(q)) BY DEF semicolons
<1>7. Onward(q, external_declaration(q)) BY DEF external_declaration
<1>8. Onward(q, declared(q)) BY DEF declared
<1>9. Onward(q, function(q))
  <2> DEFINE n == [q EXCEPT !.vals[1] = Chain(<<@>>)]
  <2>1. Onward(q, n)
    <3>1. Good(q) => n.exited \in BOOLEAN BY FieldsAre DEF Good, Placed
    <3>2. QED BY <3>1, StaysOnward, FieldsAre
  <2> HIDE DEF n
  <2>2. Onward(q, Push(n, <<Task("more")>>)) BY <2>1
  <2>3. Onward(q, compound_statement(Push(q, <<Task("definition")>>))) BY Compounds
  <2>4. QED BY <2>2, <2>3 DEF function, n
<1>10. Onward(q, definition(q)) BY DEF definition
<1>11. \A m, names : Onward(q, m) => Onward(q, Inserted(m, names)) BY InsertedOnward, OnwardTransitive
<1>12. Onward(q, more(q)) BY <1>11 DEF more
<1>13. Onward(q, into_declaration(q)) BY DEF into_declaration
<1>14. QED BY <1>1, <1>2, <1>3, <1>4, <1>5, <1>6, <1>7, <1>8, <1>9, <1>10, <1>12, <1>13

\* parser/parse/stmt.rs
LEMMA StatementsOnward ==
  ASSUME NEW q, NEW task, NEW k
  PROVE  /\ Onward(q, block(q, task))
         /\ Onward(q, statement(q))
         /\ Onward(q, any_statement(q))
         /\ Onward(q, else(q))
         /\ Onward(q, for(q))
         /\ Onward(q, expr_opt(q, k))
<1> USE Starts, Moves, Pushes, Yields, Reports, Fails, Builds, Recurses
<1>1. Onward(q, compound_statement(q)) BY Compounds
<1>2. Onward(q, block(q, task)) BY ErrorsOnward DEF block
<1>3. Onward(q, statement(q)) BY DEF statement
<1>4. Kind(q) = "id" => Onward(q, AfterId(peek_token(Take(q)), q.current))
  <2>1. SUFFICES ASSUME Kind(q) = "id" PROVE Onward(q, AfterId(peek_token(Take(q)), q.current)) OBVIOUS
  <2>2. q.current # None BY <2>1, KindIsToken
  <2>3. Onward(q, unput(peek_token(Take(q)), q.current)) BY <2>2, UnputAhead
  <2>4. QED BY <2>3 DEF AfterId
<1>5. Onward(q, any_statement(q)) BY <1>1, <1>4 DEF any_statement
<1>6. Onward(q, else(q)) BY DEF else
<1>7. Onward(q, for(q)) BY DEF for
<1>8. Onward(q, expr_opt(q, k)) BY DEF expr_opt
<1>9. QED BY <1>2, <1>3, <1>5, <1>6, <1>7, <1>8

LEMMA PerformOnward == ASSUME NEW m, NEW t, t.f \in Silent PROVE Onward(m, Perform(m, t))
<1> USE Starts, Pushes, Yields, Builds, Merges
<1>1. Onward(m, Appended(m)) BY AppendedOnward
<1>2. Onward(m, pointer(m)) BY PointerOnward
<1>3. Onward(m, binary_expr(m, t.n)) BY ExpressionsOnward
<1>4. Onward(m, named_member(m)) BY SpecifiersOnward
<1>5. Onward(m, type_name(m)) /\ Onward(m, type(m)) BY DeclaratorsOnward
<1>6. /\ Onward(m, aggregate_initializer(m)) /\ Onward(m, external_declaration(m))
      /\ Onward(m, definition(m)) /\ Onward(m, into_declaration(m))
  BY DeclarationsOnward
<1>7. Onward(m, statement(m)) BY StatementsOnward
<1> DEFINE n == [m EXCEPT !.pending = Append(@, m.vals[1]), !.vals = <<>>]
<1>8. Onward(m, n)
  <2>1. Good(m) => n.exited \in BOOLEAN BY FieldsAre DEF Good, Placed
  <2>2. QED BY <2>1, StaysOnward, FieldsAre
<1> HIDE DEF n
<1>9. QED BY <1>1, <1>2, <1>3, <1>4, <1>5, <1>6, <1>7, <1>8 DEF Perform, Silent, n

LEMMA PerformAtOnward ==
  ASSUME NEW q, q.current = None => Ahead(q) = {}, NEW t
  PROVE  Onward(q, PerformAt(q, t))
<1>1. Onward(q, expect(q, t.x)) /\ Onward(q, expect_id(q)) BY ErrorsOnward
<1>2. /\ Onward(q, operators(q, t.n)) /\ Onward(q, unary(q)) /\ Onward(q, operator(q)) /\ Onward(q, primary(q))
      /\ Onward(q, postfix(q)) /\ Onward(q, first_argument(q)) /\ Onward(q, more_arguments(q))
  BY ExpressionsOnward
<1>3. /\ Onward(q, specifiers(q, t.n)) /\ Onward(q, struct_specifier(q, t.x)) /\ Onward(q, enum_specifier(q))
      /\ Onward(q, members(q)) /\ Onward(q, struct_declarators(q)) /\ Onward(q, bitfield(q)) /\ Onward(q, more_declarators(q))
      /\ Onward(q, enumerators(q)) /\ Onward(q, enum_value(q)) /\ Onward(q, more_enumerators(q))
  BY SpecifiersOnward
<1>4. /\ Onward(q, declarator(q, t.x)) /\ Onward(q, qualifiers(q, t.x)) /\ Onward(q, direct_declarator(q, t.x))
      /\ Onward(q, postfix_type(q, t.x)) /\ Onward(q, first_parameter(q)) /\ Onward(q, parameter(q)) /\ Onward(q, more_parameters(q))
  BY DeclaratorsOnward
<1>5. /\ Onward(q, initial(q)) /\ Onward(q, initializer(q)) /\ Onward(q, elements(q)) /\ Onward(q, more_elements(q))
      /\ Onward(q, semicolons(q)) /\ Onward(q, declared(q)) /\ Onward(q, function(q)) /\ Onward(q, more(q))
  BY DeclarationsOnward
<1>6. /\ Onward(q, block(q, t)) /\ Onward(q, any_statement(q))
      /\ Onward(q, else(q)) /\ Onward(q, for(q)) /\ Onward(q, expr_opt(q, t.x))
  BY StatementsOnward
<1>7. QED BY <1>1, <1>2, <1>3, <1>4, <1>5, <1>6 DEF PerformAt

\* A step of any function of the parser reads onward.
LEMMA StepOnward == ASSUME NEW m, NEW t PROVE Onward(m, Step(m, t))
<1>1. SUFFICES ASSUME Good(m) PROVE Onward(m, Step(m, t)) BY DEF Onward
<1>2. CASE t.f \in Silent BY <1>2, PerformOnward DEF Step
<1>3. CASE t.f \notin Silent
  <2>1. Onward(m, peek_token(m)) /\ (peek_token(m).current = None => Ahead(peek_token(m)) = {}) BY <1>1, PeekFacts
  <2>2. Onward(peek_token(m), PerformAt(peek_token(m), t)) BY <2>1, PerformAtOnward
  <2>3. QED BY <1>3, <2>1, <2>2, OnwardTransitive DEF Step
<1>4. QED BY <1>2, <1>3

-----------------------------------------------------------------------------
(* Parser::next *)

IInv ==
  /\ Good(parser)
  /\ parser.tokens = origin.tokens
  /\ done => parser.stack = <<>>

LEMMA InitGood == Init => IInv
<1>1. SUFFICES ASSUME Init PROVE IInv OBVIOUS
<1>2. Source(origin.tokens) BY <1>1, SourcesAssumption DEF Init
<1>3. /\ DOMAIN parser = Fields /\ parser.tokens = origin.tokens /\ parser.read = 1 /\ parser.current = None /\ parser.next = None
      /\ parser.bad = {} /\ parser.exited = FALSE /\ parser.stack = <<>>
  BY <1>1 DEF Init, Start, Fields
<1>4. 1 \in 1..(Len(origin.tokens) + 1) BY <1>2 DEF Source
<1>5. Fresh(origin.tokens, 1) BY DEF Fresh
<1>6. QED BY <1>2, <1>3, <1>4, <1>5 DEF IInv, Good, Placed, Queued

LEMMA PeekKeepsStack == ASSUME NEW m, Good(m) PROVE peek_token(m).stack = m.stack
<1>1. CASE m.current # None BY <1>1 DEF peek_token
<1>2. CASE m.current = None
  <2> DEFINE r == impl_next_token(m)
  <2>1. peek_token(m) = [r.m EXCEPT !.current = r.t] BY <1>2 DEF peek_token, Good, Queued, AsCurrent
  <2>2. r.m.stack = m.stack /\ DOMAIN r.m = Fields BY ReadFacts, FieldsAre DEF Good, Placed
  <2> HIDE DEF r
  <2>3. QED BY <2>1, <2>2, FieldsAre
<1>3. QED BY <1>1, <1>2

LEMMA PopErrorOnward == ASSUME NEW m PROVE Onward(m, [m EXCEPT !.errors = Tail(@)])
<1>1. Good(m) => [m EXCEPT !.errors = Tail(@)].exited \in BOOLEAN BY FieldsAre DEF Good, Placed
<1>2. QED BY <1>1, StaysOnward, FieldsAre

\* Every step of the parser reads onward, and is one of a parser that has not ended.
LEMMA NextOnward ==
  ASSUME IInv, Next
  PROVE  /\ Onward(parser, parser')
         /\ UNCHANGED origin
         /\ ~done /\ ~parser.exited
         /\ \/ UNCHANGED done
            \/ /\ done' = TRUE /\ parser' = peek_token(parser)
               /\ peek_token(parser).current = None /\ parser.stack = <<>>
<1> USE DEF IInv
<1>1. CASE ReturnError
  <2>1. Onward(parser, parser') BY <1>1, PopErrorOnward DEF ReturnError, PopError
  <2>2. QED BY <1>1, <2>1 DEF ReturnError, Ready, InNext
<1>2. CASE ReturnDeclaration
  <2>1. Onward(parser, [parser EXCEPT !.pending = Tail(@)])
    <3>1. Good(parser) => [parser EXCEPT !.pending = Tail(@)].exited \in BOOLEAN BY FieldsAre DEF Good, Placed
    <3>2. QED BY <3>1, StaysOnward, FieldsAre
  <2>2. QED BY <1>2, <2>1 DEF ReturnDeclaration, Ready, InNext
<1>3. CASE EndOfFile
  <2> DEFINE m == peek_token(parser)
  <2>1. Onward(parser, m) BY PeekOnward
  <2>2. AtEnd(m) /\ AtEndOfFile(m) /\ UNCHANGED origin /\ ~done /\ ~parser.exited /\ parser.stack = <<>>
    BY <1>3 DEF EndOfFile, Idle, Ready, InNext
  <2>3. CASE PopError(m) /\ UNCHANGED done
    <3>1. Onward(m, parser') BY <2>3, PopErrorOnward DEF PopError
    <3>2. Onward(parser, parser') BY <2>1, <3>1, OnwardTransitive
    <3>3. QED BY <2>2, <2>3, <3>2
  <2>4. CASE done' = TRUE /\ parser' = m BY <2>1, <2>2, <2>4 DEF AtEnd
  <2>5. QED BY <2>2, <2>3, <2>4 DEF AtEndOfFile
<1>4. CASE ParseDeclaration
  <2>1. Onward(parser, parser') BY <1>4, Starts, Moves, Pushes DEF ParseDeclaration
  <2>2. QED BY <1>4, <2>1 DEF ParseDeclaration, Idle, Ready, InNext
<1>5. CASE Proceed
  <2>1. Onward(Pop(parser), parser') BY <1>5, StepOnward DEF Proceed
  <2>2. Onward(parser, parser') BY <2>1, PopOnward, OnwardTransitive
  <2>3. QED BY <1>5, <2>2 DEF Proceed, Running
<1>6. CASE Propagate
  <2>1. Onward(Pop(parser), parser') BY <1>6, ErrorsOnward DEF Propagate
  <2>2. Onward(parser, parser') BY <2>1, PopOnward, OnwardTransitive
  <2>3. QED BY <1>6, <2>2 DEF Propagate, Running
<1>7. CASE KeepError
  <2> DEFINE n == Report(parser, parser.failed)
  <2>1. Onward(parser, n) BY ReportOnward
  <2> HIDE DEF n
  <2>2. Onward(n, [n EXCEPT !.failed = "", !.vals = <<>>])
    <3>1. Good(n) => [n EXCEPT !.failed = "", !.vals = <<>>].exited \in BOOLEAN BY FieldsAre DEF Good, Placed
    <3>2. QED BY <3>1, StaysOnward, FieldsAre
  <2>3. Onward(parser, parser') BY <1>7, <2>1, <2>2, OnwardTransitive DEF KeepError, n
  <2>4. QED BY <1>7, <2>3 DEF KeepError, InNext
<1>8. QED BY <1>1, <1>2, <1>3, <1>4, <1>5, <1>6, <1>7 DEF Next

LEMMA StepKeeps == IInv /\ [Next]_vars => IInv'
<1>1. SUFFICES ASSUME IInv, [Next]_vars PROVE IInv' OBVIOUS
<1>2. CASE Next
  <2>1. /\ Onward(parser, parser') /\ UNCHANGED origin /\ ~done
        /\ UNCHANGED done \/ (parser' = peek_token(parser) /\ parser.stack = <<>>)
    BY <1>1, <1>2, NextOnward
  <2>2. Good(parser') /\ parser'.tokens = origin'.tokens BY <1>1, <2>1 DEF IInv, Onward
  <2>3. done' => parser'.stack = <<>> BY <1>1, <2>1, PeekKeepsStack DEF IInv
  <2>4. QED BY <2>2, <2>3 DEF IInv
<1>3. CASE UNCHANGED vars BY <1>1, <1>3 DEF vars, IInv
<1>4. QED BY <1>1, <1>2, <1>3

\* No assertion of the parser fails: unput finds room in the lookahead, and a block ends
\* at a brace or at the end of the file.
THEOREM NeverPanics == Spec => []NoPanic
<1>1. IInv => NoPanic BY DEF IInv, Good, NoPanic
<1>2. QED BY InitGood, StepKeeps, <1>1, PTL DEF Spec

-----------------------------------------------------------------------------
(* Parsing implements Cursor *)

\* what is peeked at comes first of what is ahead
LEMMA PeekedFirst == ASSUME NEW m, Good(m) PROVE Tokens!FirstOf(Peeked(m), Ahead(m))
<1> DEFINE p == Peeked(m)
<1>1. /\ m.current = None /\ m.next = None => DOMAIN p = {}
      /\ m.current # None /\ m.next = None => DOMAIN p = {1} /\ p[1] = m.current.at
      /\ m.current # None /\ m.next # None => DOMAIN p = {1, 2} /\ p[1] = m.current.at /\ p[2] = m.next.at
      /\ m.current = None => m.next = None
  BY PeekedIs DEF Good, Queued
<1>2. \A i : i \in Ahead(m) <=> (m.current # None /\ i = m.current.at) \/ (m.next # None /\ i = m.next.at) \/ (i \in Visible(m.tokens) /\ i >= m.read)
  BY AheadIs
<1> HIDE DEF p
<1>3. SUFFICES ASSUME NEW i \in DOMAIN p
               PROVE  p[i] \in Ahead(m) /\ {place \in Ahead(m) : place < p[i]} = {p[j] : j \in 1..(i - 1)}
  BY DEF Tokens!FirstOf, p
<1>4. m.current # None /\ m.current.at \in Nat /\ m.current.at < m.read /\ m.read \in Nat BY <1>1, <1>3, GoodFacts
<1>5. \A v \in Visible(m.tokens) : v \in Nat BY GoodFacts
<1>6. CASE i = 1
  <2>1. p[i] = m.current.at BY <1>1, <1>4, <1>6
  <2>2. p[i] \in Ahead(m) BY <1>2, <1>4, <2>1
  <2>3. \A place \in Ahead(m) : ~(place < p[i]) BY <1>2, <1>4, <1>5, <2>1, GoodFacts
  <2>4. 1..(i - 1) = {} BY <1>6
  <2>5. QED BY <2>2, <2>3, <2>4
<1>7. CASE i = 2
  <2>1. m.next # None /\ p[1] = m.current.at /\ p[2] = m.next.at BY <1>1, <1>3, <1>4, <1>7
  <2>2. m.next.at \in Nat /\ m.next.at < m.read /\ m.current.at < m.next.at BY <2>1, GoodFacts
  <2>3. p[i] \in Ahead(m) BY <1>2, <1>7, <2>1
  <2>4. \A place \in Ahead(m) : place < p[i] <=> place = p[1] BY <1>2, <1>4, <1>5, <1>7, <2>1, <2>2
  <2>5. p[1] \in Ahead(m) BY <1>2, <1>4, <2>1
  <2>6. 1..(i - 1) = {1} BY <1>7
  <2>7. QED BY <2>3, <2>4, <2>5, <2>6
<1>8. QED BY <1>1, <1>3, <1>6, <1>7

LEMMA RefinesInit == Init => Tokens!Init
<1>1. SUFFICES ASSUME Init PROVE Tokens!Init OBVIOUS
<1>2. parser.tokens = origin.tokens /\ parser.read = 1 /\ parser.current = None /\ parser.next = None /\ parser.exited = FALSE /\ done = FALSE
  BY <1>1 DEF Init, Start
<1>3. Peeked(parser) = <<>> BY <1>2 DEF Peeked, Held
<1>4. Ahead(parser) = Visible(origin.tokens)
  <2>1. Good(parser) BY <1>1, InitGood DEF IInv
  <2>2. \A i \in Visible(parser.tokens) : i \in 1..Len(parser.tokens) /\ Len(parser.tokens) \in Nat BY <2>1, VisibleIs DEF Good, Placed, Source
  <2>3. \A i \in Visible(parser.tokens) : i >= parser.read BY <1>2, <2>2
  <2>4. \A i : i \in Ahead(parser) <=> i \in Visible(parser.tokens)
    <3>1. \A i : i \in Ahead(parser) <=> (parser.current # None /\ i = parser.current.at) \/ (parser.next # None /\ i = parser.next.at) \/ (i \in Visible(parser.tokens) /\ i >= parser.read)
      BY AheadIs
    <3>2. QED BY <1>2, <2>3, <3>1
  <2>5. QED BY <1>2, <2>4
<1>5. QED BY <1>2, <1>3, <1>4 DEF Tokens!Init

LEMMA RefinesNext == IInv /\ [Next]_vars => [Tokens!Next]_(Tokens!vars)
<1>1. SUFFICES ASSUME IInv, [Next]_vars PROVE [Tokens!Next]_(Tokens!vars) OBVIOUS
<1>2. CASE Next
  <2>1. /\ Onward(parser, parser') /\ UNCHANGED origin /\ ~done /\ ~parser.exited
        /\ \/ UNCHANGED done
           \/ /\ done' = TRUE /\ parser' = peek_token(parser)
              /\ peek_token(parser).current = None
    BY <1>1, <1>2, NextOnward
  <2>2. Good(parser) /\ Good(parser') BY <1>1, <2>1 DEF IInv, Onward
  <2>3. CASE UNCHANGED done
    <3>1. Tokens!FirstOf(Peeked(parser'), Ahead(parser')) BY <2>2, PeekedFirst
    <3>2. Ahead(parser') \subseteq Ahead(parser) /\ \A gone \in Ahead(parser) \ Ahead(parser'), left \in Ahead(parser') : gone < left
      BY <2>1, <2>2 DEF Onward
    <3>3. parser'.exited \in BOOLEAN BY <2>2 DEF Good
    <3>4. Tokens!Advance BY <2>1, <2>3, <3>1, <3>2, <3>3 DEF Tokens!Advance
    <3>5. QED BY <2>1, <3>4 DEF Tokens!Next
  <2>4. CASE done' = TRUE /\ parser' = peek_token(parser) /\ peek_token(parser).current = None
    <3>1. Ahead(parser') = {} /\ Ahead(parser) = {} BY <2>2, <2>4, PeekFacts
    <3>2. parser.current = None /\ parser.next = None /\ parser'.current = None /\ parser'.next = None BY <2>2, <2>4, <3>1, AheadIs
    <3>3. Peeked(parser) = <<>> /\ Peeked(parser') = <<>> BY <3>2 DEF Peeked, Held
    <3>4. parser'.exited = parser.exited
      <4> DEFINE r == impl_next_token(parser)
      <4>1. parser' = [r.m EXCEPT !.current = r.t] BY <2>4, <3>2 DEF peek_token, AsCurrent
      <4>2. r.m.exited = parser.exited /\ DOMAIN r.m = Fields BY <2>2, ReadFacts, FieldsAre DEF Good, Placed
      <4> HIDE DEF r
      <4>3. QED BY <4>1, <4>2, FieldsAre
    <3>5. Tokens!Finish BY <2>1, <2>4, <3>1, <3>3, <3>4 DEF Tokens!Finish
    <3>6. QED BY <2>1, <3>5 DEF Tokens!Next
  <2>5. QED BY <2>1, <2>3, <2>4
<1>3. CASE UNCHANGED vars BY <1>3 DEF vars, Tokens!vars
<1>4. QED BY <1>1, <1>2, <1>3

\* Through peek_token, peek_next_token and unput, and when panic skips tokens, the grammar
\* reads the tokens of the source in their order, none twice once it is consumed, and ends
\* behind the last one.
THEOREM ReadsTokensInOrder == Spec => ReadsInOrder
BY InitGood, StepKeeps, RefinesInit, RefinesNext, PTL DEF Spec, ReadsInOrder, Tokens!Spec

-----------------------------------------------------------------------------
(* What a task costs *)

Listed(s) == s \in Seq({s[i] : i \in DOMAIN s})

\* the steps of a task and of those it pushes, up to the next token that one of them takes
Cost(f) ==
  CASE f \in {"semicolons", "operators", "postfix", "specifiers", "struct", "enum", "members", "bitfield", "enum_value",
              "postfix_type", "initial", "more", "else", "build", "append", "declarators", "merge", "pointer", "drop"} -> 1
    [] f \in {"block", "parsed", "named_member"} -> 2
    [] f \in {"expect", "expect_id", "more_arguments", "more_declarators", "more_enumerators", "more_elements",
              "binary_expr", "primary", "direct_declarator", "type", "definition", "into_declaration"} -> 3
    [] f \in {"operator", "declarator", "more_parameters", "function"} -> 5
    [] f = "unary" -> 6
    [] f = "qualifiers" -> 7
    [] f = "cast" -> 8
    [] f \in {"initializer", "type_name", "enumerators"} -> 10
    [] f = "declared" -> 13
    [] f \in {"first_argument", "struct_declarators"} -> 14
    [] f \in {"elements", "external_declaration"} -> 15
    [] f = "parameter" -> 17
    [] f \in {"first_parameter", "aggregate"} -> 18
    [] f \in {"any_statement", "for"} -> 19
    [] f = "statement" -> 21
    [] OTHER -> 13

\* A task costs a step at least, and 21 at most.
LEMMA CostIs == \A f : Cost(f) \in 1..21
BY DEF Cost

\* a block returns the errors that it has kept
Weight(t) == Cost(t.f) + Len(t.errs)

\* the tasks of s cost v in all: sum[d] is what the d last ones do
Costs(s, v) ==
  /\ Listed(s)
  /\ \A i \in DOMAIN s : Listed(s[i].errs)
  /\ \E sum \in [0..Len(s) -> Nat] :
        /\ sum[0] = 0
        /\ sum[Len(s)] = v
        /\ \A d \in 1..Len(s) : sum[d] = sum[d - 1] + Weight(s[Len(s) + 1 - d])

\* A task weighs what it costs and the errors that it has kept.
LEMMA WeightIs == ASSUME NEW t, Listed(t.errs) PROVE Weight(t) \in Nat /\ Weight(t) >= Cost(t.f) /\ Weight(t) >= 1
<1>1. Cost(t.f) \in 1..21 BY CostIs
<1>2. Len(t.errs) \in Nat BY DEF Listed
<1> DEFINE c == Cost(t.f)
           l == Len(t.errs)
<1>3. Weight(t) = c + l BY DEF Weight
<1>4. c \in 1..21 /\ l \in Nat BY <1>1, <1>2
<1> HIDE DEF c, l
<1>5. c + l \in Nat /\ c + l >= c /\ c + l >= 1 BY <1>4
<1>6. QED BY <1>3, <1>5 DEF c

\* A list is a sequence over its own elements, whatever they are.
LEMMA ListedIs == \A s : Listed(s) => Len(s) \in Nat /\ DOMAIN s = 1..Len(s)
BY DEF Listed

\* A list with one more element.
LEMMA ListedAppend == ASSUME NEW s, NEW e, Listed(s) PROVE Listed(Append(s, e)) /\ Len(Append(s, e)) = Len(s) + 1
<1> DEFINE S == {s[i] : i \in DOMAIN s} \cup {e}
           a == Append(s, e)
<1>1. s \in Seq(S) BY DEF Listed
<1>2. a \in Seq(S) /\ Len(a) = Len(s) + 1 BY <1>1
<1> HIDE DEF a
<1>3. a \in Seq({a[i] : i \in DOMAIN a}) BY <1>2
<1>4. QED BY <1>2, <1>3 DEF a, Listed

\* Two lists, one behind the other.
LEMMA ListedJoin ==
  ASSUME NEW s, NEW t, Listed(s), Listed(t)
  PROVE  /\ Listed(s \o t)
         /\ Len(s \o t) = Len(s) + Len(t)
         /\ \A i \in 1..Len(s) : (s \o t)[i] = s[i]
         /\ \A i \in 1..Len(t) : (s \o t)[Len(s) + i] = t[i]
<1> DEFINE S == {s[i] : i \in DOMAIN s} \cup {t[i] : i \in DOMAIN t}
           a == s \o t
<1>1. s \in Seq(S) /\ t \in Seq(S) BY DEF Listed
<1>2. a \in Seq(S) /\ Len(a) = Len(s) + Len(t) BY <1>1
<1>3. (\A i \in 1..Len(s) : a[i] = s[i]) /\ \A i \in 1..Len(t) : a[Len(s) + i] = t[i] BY <1>1
<1> HIDE DEF a
<1>4. a \in Seq({a[i] : i \in DOMAIN a}) BY <1>2
<1>5. QED BY <1>2, <1>3, <1>4 DEF a, Listed

\* A list without its first element.
LEMMA ListedTail ==
  ASSUME NEW s, Listed(s), s # <<>>
  PROVE  /\ Listed(Tail(s)) /\ Len(Tail(s)) = Len(s) - 1 /\ Len(s) >= 1
         /\ \A i \in 1..(Len(s) - 1) : Tail(s)[i] = s[i + 1]
         /\ Head(s) = s[1] /\ s = <<Head(s)>> \o Tail(s)
<1> DEFINE S == {s[i] : i \in DOMAIN s}
           a == Tail(s)
<1>1. s \in Seq(S) BY DEF Listed
<1>2. Len(s) \in Nat /\ Len(s) # 0 BY <1>1, EmptySeq
<1>3. a \in Seq(S) /\ Len(a) = Len(s) - 1 /\ \A i \in 1..(Len(s) - 1) : a[i] = s[i + 1] BY <1>1, <1>2
<1>4. s = <<Head(s)>> \o Tail(s) BY <1>1
<1> HIDE DEF a
<1>5. a \in Seq({a[i] : i \in DOMAIN a}) BY <1>3
<1>6. Head(s) = s[1] BY <1>1, <1>2
<1>7. QED BY <1>2, <1>3, <1>4, <1>5, <1>6 DEF a, Listed

\* A list without its last element.
LEMMA ListedFront ==
  ASSUME NEW s, Listed(s), s # <<>>
  PROVE  Listed(Front(s)) /\ Len(Front(s)) = Len(s) - 1
<1> DEFINE S == {s[i] : i \in DOMAIN s}
           a == Front(s)
<1>1. s \in Seq(S) BY DEF Listed
<1>2. Len(s) \in Nat /\ Len(s) # 0 BY <1>1, EmptySeq
<1>3. a \in Seq(S) /\ Len(a) = Len(s) - 1
  <2> DEFINE n == Len(s) - 1
  <2>1. 1 \in Int /\ n \in Int /\ \A i \in 1..n : s[i] \in S BY <1>1, <1>2
  <2>2. a = SubSeq(s, 1, n) BY DEF Front
  <2> HIDE DEF a, n, S
  <2>3. SubSeq(s, 1, n) \in Seq(S) /\ Len(SubSeq(s, 1, n)) = IF 1 <= n THEN n - 1 + 1 ELSE 0
        BY <1>1, <2>1, SubSeqProperties
  <2>4. n \in Nat BY <1>2 DEF n
  <2>5. Len(a) = n BY <2>2, <2>3, <2>4
  <2>6. QED BY <2>2, <2>3, <2>5 DEF n
<1> HIDE DEF a
<1>4. a \in Seq({a[i] : i \in DOMAIN a}) BY <1>3
<1>5. QED BY <1>3, <1>4 DEF a, Listed

\* Nothing to do costs nothing.
LEMMA CostsNone == Costs(<<>>, 0) /\ Listed(<<>>)
<1>1. Listed(<<>>) /\ Len(<<>>) = 0 /\ DOMAIN <<>> = {} BY DEF Listed
<1> DEFINE sum == [d \in 0..0 |-> 0]
<1>2. sum \in [0..0 -> Nat] /\ sum[0] = 0 /\ \A d \in 1..0 : FALSE OBVIOUS
<1> HIDE DEF sum
<1>3. QED BY <1>1, <1>2 DEF Costs

\* What a list of tasks costs is a number.
LEMMA CostsNat == ASSUME NEW s, NEW v, Costs(s, v) PROVE v \in Nat /\ Len(s) \in Nat
BY DEF Costs, Listed

\* what is left when the next task is done
LEMMA CostsPop ==
  ASSUME NEW s, NEW v, Costs(s, v), s # <<>>
  PROVE  /\ Listed(Head(s).errs)
         /\ \E w \in Nat : Costs(Tail(s), w) /\ v = w + Weight(Head(s))
<1>1. PICK sum \in [0..Len(s) -> Nat] :
         sum[0] = 0 /\ sum[Len(s)] = v /\ \A d \in 1..Len(s) : sum[d] = sum[d - 1] + Weight(s[Len(s) + 1 - d])
  BY DEF Costs
<1>2. Listed(s) /\ \A i \in DOMAIN s : Listed(s[i].errs) BY DEF Costs
<1> DEFINE t == Tail(s)
           n == Len(s) - 1
           rest == [d \in 0..n |-> sum[d]]
<1>3. Listed(t) /\ Len(t) = n /\ Len(s) >= 1 /\ (\A i \in 1..n : t[i] = s[i + 1]) /\ Head(s) = s[1]
      BY <1>2, ListedTail
<1>4. Len(s) \in Nat /\ DOMAIN s = 1..Len(s) /\ n \in Nat /\ DOMAIN t = 1..n BY <1>2, <1>3, ListedIs
<1> HIDE DEF t
<1>5. rest \in [0..n -> Nat] /\ rest[0] = 0 /\ rest[n] = sum[n] BY <1>1, <1>4
<1>6. \A d \in 1..n : rest[d] = rest[d - 1] + Weight(t[n + 1 - d])
  <2>1. SUFFICES ASSUME NEW d \in 1..n PROVE rest[d] = rest[d - 1] + Weight(t[n + 1 - d]) OBVIOUS
  <2>2. d \in 1..Len(s) /\ d - 1 \in 0..n /\ d \in 0..n /\ n + 1 - d \in 1..n /\ Len(s) + 1 - d = (n + 1 - d) + 1
        BY <1>4
  <2>3. t[n + 1 - d] = s[Len(s) + 1 - d] BY <1>3, <2>2
  <2>4. QED BY <1>1, <2>2, <2>3
<1>7. \A i \in 1..n : Listed(t[i].errs) BY <1>2, <1>3, <1>4
<1>8. sum[n] \in Nat /\ v = sum[n] + Weight(s[1])
  <2>1. Len(s) \in 1..Len(s) /\ Len(s) + 1 - Len(s) = 1 /\ n \in 0..Len(s) BY <1>3, <1>4
  <2>2. sum[Len(s)] = sum[Len(s) - 1] + Weight(s[Len(s) + 1 - Len(s)]) BY <1>1, <2>1
  <2>3. sum[n] \in Nat BY <1>1, <2>1
  <2>4. QED BY <1>1, <2>1, <2>2, <2>3
<1> HIDE DEF rest
<1>9. Costs(t, sum[n])
  <2>1. \A i \in DOMAIN t : Listed(t[i].errs) BY <1>4, <1>7
  <2>2. rest \in [0..Len(t) -> Nat] /\ rest[0] = 0 /\ rest[Len(t)] = sum[n] BY <1>3, <1>5
  <2>3. \A d \in 1..Len(t) : rest[d] = rest[d - 1] + Weight(t[Len(t) + 1 - d]) BY <1>3, <1>6
  <2> HIDE DEF n
  <2>4. QED BY <1>3, <2>1, <2>2, <2>3, SMTT(30) DEF Costs
<1>10. QED BY <1>2, <1>3, <1>4, <1>8, <1>9 DEF t

\* Two lists of tasks cost the sum of both.
LEMMA CostsJoin ==
  ASSUME NEW s, NEW t, NEW v, NEW w, Costs(s, v), Costs(t, w)
  PROVE  Costs(s \o t, v + w)
<1>1. PICK above \in [0..Len(s) -> Nat] :
         above[0] = 0 /\ above[Len(s)] = v /\ \A d \in 1..Len(s) : above[d] = above[d - 1] + Weight(s[Len(s) + 1 - d])
  BY DEF Costs
<1>2. PICK below \in [0..Len(t) -> Nat] :
         below[0] = 0 /\ below[Len(t)] = w /\ \A d \in 1..Len(t) : below[d] = below[d - 1] + Weight(t[Len(t) + 1 - d])
  BY DEF Costs
<1>3. Listed(s) /\ Listed(t) /\ (\A i \in DOMAIN s : Listed(s[i].errs)) /\ (\A i \in DOMAIN t : Listed(t[i].errs))
      BY DEF Costs
<1>4. Len(s) \in Nat /\ DOMAIN s = 1..Len(s) /\ Len(t) \in Nat /\ DOMAIN t = 1..Len(t) BY <1>3, ListedIs
<1> DEFINE a == s \o t
           n == Len(s) + Len(t)
           sum == [d \in 0..n |-> IF d <= Len(t) THEN below[d] ELSE above[d - Len(t)] + w]
<1>5. Listed(a) /\ Len(a) = n /\ (\A i \in 1..Len(s) : a[i] = s[i]) /\ \A i \in 1..Len(t) : a[Len(s) + i] = t[i]
      BY <1>3, ListedJoin
<1> HIDE DEF a
<1>6. w \in Nat /\ v \in Nat BY <1>1, <1>2, <1>4
<1>7. sum \in [0..n -> Nat]
  <2>1. SUFFICES ASSUME NEW d \in 0..n PROVE sum[d] \in Nat OBVIOUS
  <2>2. CASE d <= Len(t)
    <3>1. d \in 0..Len(t) BY <1>4, <2>2
    <3>2. below[d] \in Nat BY <1>2, <3>1
    <3>3. QED BY <2>1, <2>2, <3>2
  <2>3. CASE d > Len(t)
    <3>1. d - Len(t) \in 0..Len(s) /\ ~(d <= Len(t)) BY <1>4, <2>3
    <3>2. above[d - Len(t)] \in Nat BY <1>1, <3>1
    <3>3. sum[d] = above[d - Len(t)] + w BY <2>1, <3>1
    <3>4. QED BY <1>6, <3>2, <3>3
  <2>4. QED BY <1>4, <2>2, <2>3
<1>8. sum[0] = 0 BY <1>2, <1>4
<1>9. sum[n] = v + w
  <2>1. CASE Len(s) = 0 BY <1>1, <1>2, <1>4, <2>1
  <2>2. CASE Len(s) # 0
    <3>1. n - Len(t) = Len(s) /\ ~(n <= Len(t)) /\ n \in 0..n BY <1>4, <2>2
    <3>2. QED BY <1>1, <1>4, <1>6, <3>1
  <2>3. QED BY <2>1, <2>2
<1>10. \A d \in 1..n : sum[d] = sum[d - 1] + Weight(a[n + 1 - d])
  <2>1. SUFFICES ASSUME NEW d \in 1..n PROVE sum[d] = sum[d - 1] + Weight(a[n + 1 - d]) OBVIOUS
  <2>2. d \in 0..n /\ d - 1 \in 0..n BY <1>4
  <2>3. CASE d <= Len(t)
    <3>1. d \in 1..Len(t) /\ Len(t) + 1 - d \in 1..Len(t) /\ n + 1 - d = Len(s) + (Len(t) + 1 - d) /\ d - 1 <= Len(t)
          BY <1>4, <2>3
    <3>2. a[n + 1 - d] = t[Len(t) + 1 - d] BY <1>5, <3>1
    <3>3. QED BY <1>2, <2>2, <2>3, <3>1, <3>2
  <2>4. CASE d > Len(t)
    <3> DEFINE e == d - Len(t)
    <3>1. e \in 1..Len(s) /\ Len(s) + 1 - e \in 1..Len(s) /\ n + 1 - d = Len(s) + 1 - e BY <1>4, <2>4
    <3>2. a[n + 1 - d] = s[Len(s) + 1 - e] BY <1>5, <3>1
    <3>3. sum[d] = above[e] + w BY <2>2, <2>4
    <3>4. sum[d - 1] = above[e - 1] + w
      <4>1. CASE d - 1 <= Len(t)
        <5>1. e - 1 = 0 /\ d - 1 = Len(t) BY <1>4, <2>4, <4>1
        <5>2. sum[d - 1] = below[Len(t)] BY <2>2, <5>1, <4>1
        <5>3. QED BY <1>1, <1>2, <1>6, <5>1, <5>2
      <4>2. CASE d - 1 > Len(t)
        <5>1. (d - 1) - Len(t) = e - 1 /\ ~(d - 1 <= Len(t)) BY <1>4, <4>2
        <5>2. QED BY <2>2, <5>1
      <4>3. QED BY <1>4, <4>1, <4>2
    <3> HIDE DEF sum
    <3>5. above[e] = above[e - 1] + Weight(s[Len(s) + 1 - e]) BY <1>1, <3>1
    <3>6. above[e - 1] \in Nat /\ above[e] \in Nat
      <4>1. e - 1 \in 0..Len(s) /\ e \in 0..Len(s) BY <1>4, <3>1
      <4>2. QED BY <1>1, <4>1
    <3>7. Listed(s[Len(s) + 1 - e].errs) BY <1>3, <1>4, <3>1
    <3>8. Weight(s[Len(s) + 1 - e]) \in Nat BY <3>7, WeightIs
    <3> HIDE DEF e, n
    <3>9. QED BY <1>6, <3>2, <3>3, <3>4, <3>5, <3>6, <3>8, SMTT(30)
  <2>5. QED BY <1>4, <2>3, <2>4
<1>11. \A i \in 1..n : Listed(a[i].errs)
  <2>1. SUFFICES ASSUME NEW i \in 1..n PROVE Listed(a[i].errs) OBVIOUS
  <2>2. CASE i <= Len(s)
    <3>1. i \in 1..Len(s) BY <1>4, <2>2
    <3>2. QED BY <1>3, <1>4, <1>5, <3>1
  <2>3. CASE i > Len(s)
    <3>1. i - Len(s) \in 1..Len(t) /\ i = Len(s) + (i - Len(s)) BY <1>4, <2>3
    <3>2. a[i] = t[i - Len(s)] BY <1>5, <3>1
    <3>3. QED BY <1>3, <1>4, <3>1, <3>2
  <2>4. QED BY <1>4, <2>2, <2>3
<1> HIDE DEF sum
<1>12. DOMAIN a = 1..n BY <1>5, ListedIs
<1>13. /\ sum \in [0..Len(a) -> Nat] /\ sum[0] = 0 /\ sum[Len(a)] = v + w
       /\ \A d \in 1..Len(a) : sum[d] = sum[d - 1] + Weight(a[Len(a) + 1 - d])
  <2> HIDE DEF n
  <2>1. QED BY <1>5, <1>7, <1>8, <1>9, <1>10
<1>14. \A i \in DOMAIN a : Listed(a[i].errs) BY <1>11, <1>12
<1>15. Costs(a, v + w) BY <1>5, <1>13, <1>14 DEF Costs
<1>16. QED BY <1>15 DEF a

\* A task alone costs its weight.
LEMMA CostsOne == ASSUME NEW t, Listed(t.errs) PROVE Costs(<<t>>, Weight(t))
<1> DEFINE s == <<t>>
           sum == [d \in 0..1 |-> IF d = 0 THEN 0 ELSE Weight(t)]
<1>1. Listed(s) /\ Len(s) = 1 /\ DOMAIN s = 1..1 /\ s[1] = t BY DEF Listed
<1>2. Weight(t) \in Nat BY WeightIs
<1>3. sum \in [0..1 -> Nat] /\ sum[0] = 0 /\ sum[1] = Weight(t) BY <1>2
<1>4. \A d \in 1..1 : d = 1 OBVIOUS
<1> HIDE DEF sum, s
<1>5. \A d \in 1..1 : sum[d] = sum[d - 1] + Weight(s[1 + 1 - d]) BY <1>1, <1>2, <1>3, <1>4
<1>6. QED BY <1>1, <1>3, <1>5 DEF Costs, s

-----------------------------------------------------------------------------
(* What the tokens pay *)

Holds(t) == IF t = None THEN 0 ELSE 1
\* the tokens that are not consumed yet, those peeked at among them
Left(m) == (Len(m.tokens) + 1 - m.read) + Holds(m.current) + Holds(m.next)
\* the steps that they pay, and those that return what is kept for next()
Owed(m) == STEPS_PER_TOKEN * Left(m) + Len(m.errors) + Len(m.pending)

Sound(m) == Good(m) /\ Listed(m.errors) /\ Listed(m.pending)

\* n has the same to do as m; the tokens it has consumed pay for gain steps
Spends(m, n, gain) ==
  Sound(m) =>
     /\ Sound(n)
     /\ n.stack = m.stack /\ n.failed = m.failed
     /\ Left(n) <= Left(m)
     /\ Owed(n) + gain <= Owed(m)

\* The tokens that are left are counted; none is left only at the end.
LEMMA LeftIs ==
  ASSUME NEW m, Good(m)
  PROVE  /\ Len(m.tokens) \in Nat /\ m.read \in 1..(Len(m.tokens) + 1)
         /\ Holds(m.current) \in {0, 1} /\ Holds(m.next) \in {0, 1}
         /\ Left(m) \in Nat
         /\ Left(m) = 0 => m.read = Len(m.tokens) + 1 /\ m.current = None /\ m.next = None
<1>1. Len(m.tokens) \in Nat /\ m.read \in 1..(Len(m.tokens) + 1) BY DEF Good, Placed, Source
<1>2. /\ Holds(m.current) \in {0, 1} /\ Holds(m.next) \in {0, 1}
      /\ (Holds(m.current) = 0 <=> m.current = None) /\ (Holds(m.next) = 0 <=> m.next = None)
  BY DEF Holds
<1> DEFINE size == Len(m.tokens)
           read == m.read
           one == Holds(m.current)
           two == Holds(m.next)
<1>3. Left(m) = (size + 1 - read) + one + two BY DEF Left
<1>4. size \in Nat /\ read \in 1..(size + 1) /\ one \in {0, 1} /\ two \in {0, 1} BY <1>1, <1>2
<1> HIDE DEF size, read, one, two
<1>5. Left(m) \in Nat /\ (Left(m) = 0 => read = size + 1 /\ one = 0 /\ two = 0) BY <1>3, <1>4
<1>6. QED BY <1>1, <1>2, <1>5 DEF size, read, one, two

\* What the tokens that are left pay is a number.
LEMMA OwedIs ==
  ASSUME NEW m, Sound(m)
  PROVE  /\ Left(m) \in Nat /\ Len(m.errors) \in Nat /\ Len(m.pending) \in Nat
         /\ Owed(m) = 80 * Left(m) + Len(m.errors) + Len(m.pending)
         /\ Owed(m) \in Nat
<1>1. Left(m) \in Nat BY LeftIs DEF Sound
<1>2. Len(m.errors) \in Nat /\ Len(m.pending) \in Nat BY ListedIs DEF Sound
<1>3. Owed(m) = 80 * Left(m) + Len(m.errors) + Len(m.pending) BY DEF Owed, STEPS_PER_TOKEN
<1>4. QED BY <1>1, <1>2, <1>3

\* Doing nothing spends nothing.
LEMMA SpendsReflexive == ASSUME NEW m PROVE Spends(m, m, 0)
<1>1. SUFFICES ASSUME Sound(m) PROVE Left(m) <= Left(m) /\ Owed(m) + 0 <= Owed(m) BY DEF Spends
<1>2. QED BY <1>1, OwedIs

\* What is gained twice adds up.
LEMMA SpendsTransitive ==
  ASSUME NEW m, NEW n, NEW p, NEW a \in Nat, NEW b \in Nat, Spends(m, n, a), Spends(n, p, b)
  PROVE  Spends(m, p, a + b)
<1>1. SUFFICES ASSUME Sound(m) PROVE Spends(m, p, a + b) BY DEF Spends
<1>2. Sound(n) /\ n.stack = m.stack /\ n.failed = m.failed /\ Left(n) <= Left(m) /\ Owed(n) + a <= Owed(m)
      BY <1>1 DEF Spends
<1>3. Sound(p) /\ p.stack = n.stack /\ p.failed = n.failed /\ Left(p) <= Left(n) /\ Owed(p) + b <= Owed(n)
      BY <1>2 DEF Spends
<1>4. /\ Left(m) \in Nat /\ Left(n) \in Nat /\ Left(p) \in Nat
      /\ Owed(m) \in Nat /\ Owed(n) \in Nat /\ Owed(p) \in Nat
  BY <1>1, <1>2, <1>3, OwedIs
<1>5. Left(p) <= Left(m) /\ Owed(p) + (a + b) <= Owed(m) BY <1>2, <1>3, <1>4
<1>6. QED BY <1>2, <1>3, <1>5 DEF Spends

\* The lexer reports an error for a token that it passes over, and not for one it delivers.
LEMMA ErrorsCount ==
  ASSUME NEW source, NEW from \in Nat, NEW to \in Nat, from <= to + 1
  PROVE  /\ Listed(Errors(source, from, to))
         /\ Len(Errors(source, from, to)) <= to + 1 - from
         /\ \A n \in from..to : source[n].k # "error" => Len(Errors(source, from, to)) + 1 <= to + 1 - from
<1> DEFINE E == {n \in from..to : source[n].k = "error"}
           s == Errors(source, from, to)
<1>1. IsFiniteSet(from..to) /\ Cardinality(from..to) = to + 1 - from
  <2>1. IsFiniteSet(from..to) /\ Cardinality(from..to) = IF from > to THEN 0 ELSE to - from + 1 BY FS_Interval
  <2>2. QED BY <2>1
<1>2. E \in SUBSET (from..to) OBVIOUS
<1> HIDE DEF E
<1>3. IsFiniteSet(E) /\ Cardinality(E) <= to + 1 - from /\ Cardinality(E) \in Nat
      BY <1>1, <1>2, FS_Subset, FS_CardinalityType
<1>4. \A n \in from..to : source[n].k # "error" => Cardinality(E) + 1 <= to + 1 - from
  <2>1. SUFFICES ASSUME NEW n \in from..to, source[n].k # "error" PROVE Cardinality(E) + 1 <= to + 1 - from OBVIOUS
  <2> DEFINE D == (from..to) \ {n}
  <2>2. E \in SUBSET D BY <2>1 DEF E
  <2>3. IsFiniteSet(D) /\ Cardinality(D) = to + 1 - from - 1
    <3>1. IsFiniteSet(D) /\ Cardinality(D) = IF n \in from..to THEN Cardinality(from..to) - 1 ELSE Cardinality(from..to)
      BY <1>1, FS_RemoveElement
    <3>2. QED BY <1>1, <2>1, <3>1
  <2> HIDE DEF D
  <2>4. Cardinality(E) <= Cardinality(D) BY <2>2, <2>3, FS_Subset
  <2>5. QED BY <1>3, <2>3, <2>4
<1>5. s = [i \in 1..Cardinality(E) |-> "lexer"] BY DEF Errors, E
<1>6. s \in Seq({"lexer"}) /\ Len(s) = Cardinality(E)
  <2> DEFINE c == Cardinality(E)
  <2>1. c \in Nat /\ s = [i \in 1..c |-> "lexer"] BY <1>3, <1>5
  <2> HIDE DEF c, s
  <2>2. s \in Seq({"lexer"}) /\ Len(s) = c BY <2>1
  <2>3. QED BY <2>2 DEF c
<1> HIDE DEF s
<1>7. Listed(s)
  <2>1. s \in Seq({s[i] : i \in DOMAIN s}) BY <1>6
  <2>2. QED BY <2>1 DEF Listed
<1>8. QED BY <1>3, <1>4, <1>6, <1>7 DEF s

\* Reading up to a token keeps an error for each error token that is passed.
LEMMA ReadToCost ==
  ASSUME NEW m, Sound(m), NEW after \in m.read..(Len(m.tokens) + 1)
  PROVE  LET n == ReadTo(m, after)
         IN /\ Listed(n.errors) /\ n.read = after /\ DOMAIN n = Fields
            /\ Len(n.errors) <= Len(m.errors) + (after - m.read)
            /\ \A i \in m.read..(after - 1) : m.tokens[i].k # "error" => Len(n.errors) + 1 <= Len(m.errors) + (after - m.read)
<1> DEFINE n == ReadTo(m, after)
           e == Errors(m.tokens, m.read, after - 1)
           from == m.read
           to == after - 1
<1>1. Len(m.tokens) \in Nat /\ from \in 1..(Len(m.tokens) + 1) /\ DOMAIN m = Fields
      BY LeftIs DEF Sound, Good, Placed
<1>2. from \in Nat /\ to \in Nat /\ from <= to + 1 /\ to + 1 = after /\ to + 1 - from = after - from BY <1>1
<1>3. n.errors = m.errors \o e /\ n.read = after /\ DOMAIN n = Fields BY <1>1, FieldsAre DEF ReadTo
<1> HIDE DEF n, from, to
<1>4. /\ Listed(Errors(m.tokens, from, to)) /\ Len(Errors(m.tokens, from, to)) <= to + 1 - from
      /\ \A i \in from..to : m.tokens[i].k # "error" => Len(Errors(m.tokens, from, to)) + 1 <= to + 1 - from
  BY <1>2, ErrorsCount
<1>5. e = Errors(m.tokens, from, to) BY DEF from, to
<1> HIDE DEF e
<1>6. Listed(m.errors) BY DEF Sound
<1>7. Listed(n.errors) /\ Len(n.errors) = Len(m.errors) + Len(e) BY <1>3, <1>4, <1>5, <1>6, ListedJoin
<1>8. Len(e) \in Nat /\ Len(m.errors) \in Nat BY <1>4, <1>5, <1>6, ListedIs
<1>9. Len(e) <= after - from /\ \A i \in from..to : m.tokens[i].k # "error" => Len(e) + 1 <= after - from
      BY <1>2, <1>4, <1>5
<1> DEFINE a == Len(e)
           b == Len(m.errors)
           c == Len(n.errors)
           d == after - from
<1>10. a \in Nat /\ b \in Nat /\ c = b + a /\ d \in Int BY <1>2, <1>7, <1>8
<1>11. a <= d /\ \A i \in from..to : m.tokens[i].k # "error" => a + 1 <= d BY <1>9
<1> HIDE DEF a, b, c, d
<1>12. c <= b + d /\ \A i \in from..to : m.tokens[i].k # "error" => c + 1 <= b + d BY <1>10, <1>11
<1>13. QED BY <1>3, <1>7, <1>12 DEF n, from, to, a, b, c, d

\* __impl_next_token passes over one token more than it reports
LEMMA ReadCost ==
  ASSUME NEW m, Sound(m)
  PROVE  LET r == impl_next_token(m)
         IN /\ r.m.read \in m.read..(Len(m.tokens) + 1)
            /\ Listed(r.m.errors)
            /\ r.t = None => r.m.read = Len(m.tokens) + 1 /\ Len(r.m.errors) <= Len(m.errors) + (r.m.read - m.read)
            /\ r.t # None => Len(r.m.errors) + 1 <= Len(m.errors) + (r.m.read - m.read)
<1> DEFINE first == RunEnd(m.tokens, m.read, Blank)
           t == m.tokens[first]
           after == IF t.k = "str" THEN RunEnd(m.tokens, first, StringParts) ELSE first + 1
<1>1. Source(m.tokens) /\ Len(m.tokens) \in Nat /\ DOMAIN m.tokens = 1..Len(m.tokens) /\ m.read \in 1..(Len(m.tokens) + 1)
  BY DEF Sound, Good, Placed, Source
<1>2. first \in m.read..(Len(m.tokens) + 1) /\ (first <= Len(m.tokens) => t.k \notin Blank)
  BY <1>1, RunEnds
<1>3. CASE first > Len(m.tokens)
  <2>1. impl_next_token(m) = [t |-> None, m |-> ReadTo(m, first)] BY <1>3 DEF impl_next_token, ReadAt
  <2>2. first = Len(m.tokens) + 1 BY <1>1, <1>2, <1>3
  <2> HIDE DEF first
  <2>3. Listed(ReadTo(m, first).errors) /\ ReadTo(m, first).read = first /\ Len(ReadTo(m, first).errors) <= Len(m.errors) + (first - m.read)
    BY <1>2, ReadToCost
  <2>4. QED BY <1>2, <2>1, <2>2, <2>3
<1>4. CASE first <= Len(m.tokens)
  <2> DEFINE u == [k |-> Classified(t, m.typedefs), v |-> t.v, at |-> first]
  <2>1. impl_next_token(m) = [t |-> u, m |-> ReadTo(m, after)]
        BY <1>1, <1>2, <1>4 DEF impl_next_token, ReadAt, Delivered
  <2>2. first \in 1..Len(m.tokens) /\ t.k # "error" 
    <3>1. t.k \notin Blank BY <1>2, <1>4
    <3>2. first \in 1..Len(m.tokens) BY <1>1, <1>2, <1>4
    <3>3. QED BY <3>1, <3>2 DEF Blank
  <2>3. after \in (first + 1)..(Len(m.tokens) + 1)
    <3>1. CASE t.k = "str"
      <4>1. after \in first..(Len(m.tokens) + 1) /\ (after <= Len(m.tokens) => m.tokens[after].k \notin StringParts)
        BY <1>1, <2>2, <3>1, RunEnds
      <4>2. after # first BY <2>2, <3>1, <4>1 DEF StringParts
      <4>3. QED BY <2>2, <4>1, <4>2
    <3>2. CASE t.k # "str" BY <1>1, <2>2, <3>2
    <3>3. QED BY <3>1, <3>2
  <2> HIDE DEF first, after, u
  <2>4. after \in m.read..(Len(m.tokens) + 1) /\ first \in m.read..(after - 1) BY <1>1, <1>2, <2>2, <2>3
  <2>5. /\ Listed(ReadTo(m, after).errors) /\ ReadTo(m, after).read = after
        /\ Len(ReadTo(m, after).errors) + 1 <= Len(m.errors) + (after - m.read)
        /\ Len(ReadTo(m, after).errors) <= Len(m.errors) + (after - m.read)
    <3>1. /\ Listed(ReadTo(m, after).errors) /\ ReadTo(m, after).read = after
          /\ Len(ReadTo(m, after).errors) <= Len(m.errors) + (after - m.read)
          /\ \A i \in m.read..(after - 1) : m.tokens[i].k # "error" => Len(ReadTo(m, after).errors) + 1 <= Len(m.errors) + (after - m.read)
      BY <2>4, ReadToCost
    <3>2. QED BY <2>2, <2>4, <3>1
  <2>6. u # None
    <3>1. u.at = first /\ None.at = 0 BY DEF u, None, Word
    <3>2. QED BY <2>2, <3>1
  <2>7. QED BY <2>1, <2>4, <2>5, <2>6
<1>5. QED BY <1>1, <1>2, <1>3, <1>4

\* the sum, place by place
LEMMA OwedSum ==
  ASSUME NEW m, Sound(m)
  PROVE  /\ Len(m.tokens) \in Nat /\ m.read \in Nat /\ m.read <= Len(m.tokens) + 1
         /\ Len(m.errors) \in Nat /\ Len(m.pending) \in Nat
         /\ Left(m) = (Len(m.tokens) + 1 - m.read) + Holds(m.current) + Holds(m.next)
         /\ Owed(m) = 80 * Left(m) + Len(m.errors) + Len(m.pending)
<1>1. Len(m.tokens) \in Nat /\ m.read \in 1..(Len(m.tokens) + 1) BY LeftIs DEF Sound
<1>2. m.read \in Nat /\ m.read <= Len(m.tokens) + 1 BY <1>1
<1>3. QED BY <1>1, <1>2, OwedIs DEF Left

\* What is read pays, as long as the tokens left are counted.
LEMMA Paid ==
  ASSUME NEW m, Sound(m), NEW n, Good(n), n.tokens = m.tokens, n.stack = m.stack, n.failed = m.failed, n.pending = m.pending,
         Listed(n.errors), NEW k \in Nat, NEW gain \in Nat,
         n.read = m.read + k,
         k + Holds(m.current) + Holds(m.next) - Holds(n.current) - Holds(n.next) \in Nat,
         Len(n.errors) + gain <= Len(m.errors) + 80 * (k + Holds(m.current) + Holds(m.next) - Holds(n.current) - Holds(n.next))
  PROVE  Spends(m, n, gain)
<1> DEFINE size == Len(m.tokens)
           used == k + Holds(m.current) + Holds(m.next) - Holds(n.current) - Holds(n.next)
<1>1. Sound(n) BY DEF Sound
<1>2. /\ size \in Nat /\ m.read \in Nat /\ Len(m.errors) \in Nat /\ Len(m.pending) \in Nat
      /\ Left(m) = (size + 1 - m.read) + Holds(m.current) + Holds(m.next)
      /\ Owed(m) = 80 * Left(m) + Len(m.errors) + Len(m.pending)
  BY OwedSum
<1>3. /\ Len(n.errors) \in Nat
      /\ Left(n) = (size + 1 - n.read) + Holds(n.current) + Holds(n.next)
      /\ Owed(n) = 80 * Left(n) + Len(n.errors) + Len(m.pending)
  BY <1>1, OwedSum
<1>4. Holds(m.current) \in {0, 1} /\ Holds(m.next) \in {0, 1} /\ Holds(n.current) \in {0, 1} /\ Holds(n.next) \in {0, 1}
      BY DEF Holds
<1>5. Left(m) = Left(n) + used
  <2> DEFINE a == Holds(m.current)
             b == Holds(m.next)
             c == Holds(n.current)
             d == Holds(n.next)
             read == m.read
  <2>1. a \in {0, 1} /\ b \in {0, 1} /\ c \in {0, 1} /\ d \in {0, 1} BY <1>4
  <2>4. size \in Nat /\ read \in Nat BY <1>2
  <2>2. Left(m) = (size + 1 - read) + a + b /\ Left(n) = (size + 1 - (read + k)) + c + d /\ used = k + a + b - c - d
        BY <1>2, <1>3
  <2> HIDE DEF a, b, c, d, size, read, used
  <2>3. QED BY <2>1, <2>2, <2>4
<1> HIDE DEF size
<1>6. Left(m) \in Nat /\ Left(n) \in Nat /\ used \in Nat BY <1>1, OwedIs
<1>7. Len(n.errors) + gain <= Len(m.errors) + 80 * used OBVIOUS
<1> HIDE DEF used
<1> DEFINE a == Len(n.errors)
           b == Len(m.errors)
           p == Len(m.pending)
           l == Left(n)
<1>8. a \in Nat /\ b \in Nat /\ p \in Nat /\ l \in Nat /\ Owed(n) = 80 * l + a + p /\ Owed(m) = 80 * Left(m) + b + p /\ a + gain <= b + 80 * used
  BY <1>2, <1>3, <1>6, <1>7
<1>9. Left(m) = l + used BY <1>5
<1> HIDE DEF a, b, p, l
<1>10. Owed(m) = 80 * l + 80 * used + b + p BY <1>6, <1>8, <1>9
<1>11. Owed(n) + gain <= Owed(m) BY <1>6, <1>8, <1>10
<1>12. Left(n) <= Left(m) BY <1>5, <1>6
<1>13. QED BY <1>1, <1>11, <1>12 DEF Spends

\* what __impl_next_token leaves alone
LEMMA ReadKeeps ==
  ASSUME NEW m, Sound(m)
  PROVE  LET r == impl_next_token(m)
         IN /\ DOMAIN r.m = Fields
            /\ \A f \in Fields \ {"read", "errors"} : r.m[f] = m[f]
            /\ r.m.tokens = m.tokens /\ r.m.stack = m.stack /\ r.m.failed = m.failed /\ r.m.pending = m.pending
            /\ r.m.current = m.current /\ r.m.next = m.next
<1> DEFINE r == impl_next_token(m)
<1>1. DOMAIN r.m = Fields /\ \A f \in Fields \ {"read", "errors"} : r.m[f] = m[f]
      BY ReadFacts DEF Placed, Good, Sound
<1> HIDE DEF r
<1>2. QED BY <1>1, FieldsAre DEF r

\* A token that is taken pays for 80 steps.
LEMMA TakeSpends ==
  ASSUME NEW m
  PROVE  /\ Spends(m, Take(m), 0)
         /\ m.current # None => Spends(m, Take(m), 80)
<1>1. SUFFICES ASSUME Sound(m) PROVE Spends(m, Take(m), IF m.current # None THEN 80 ELSE 0) /\ Spends(m, Take(m), 0)
      BY DEF Spends
<1> DEFINE n == Take(m)
<1>2. Good(n) /\ n.tokens = m.tokens BY <1>1, TakeFacts DEF Sound, Onward
<1>3. DOMAIN m = Fields /\ Listed(m.errors) /\ Len(m.errors) \in Nat /\ m.read \in Nat
      BY <1>1, OwedSum DEF Sound, Good, Placed
<1>4. CASE m.current # None
  <2>1. n = [m EXCEPT !.current = m.next, !.next = None] BY <1>4 DEF Take, next_token, Consume
  <2>2. n.stack = m.stack /\ n.failed = m.failed /\ n.pending = m.pending /\ n.errors = m.errors /\ n.read = m.read /\ n.current = m.next /\ n.next = None
    BY <1>3, <2>1, FieldsAre
  <2> HIDE DEF n
  <2>3. Holds(m.current) = 1 /\ Holds(n.next) = 0 /\ Holds(n.current) = Holds(m.next) /\ Holds(m.next) \in {0, 1}
        BY <1>4, <2>2 DEF Holds
  <2>4. 0 + Holds(m.current) + Holds(m.next) - Holds(n.current) - Holds(n.next) = 1 BY <2>3
  <2>5. n.read = m.read + 0 /\ Len(n.errors) + 80 <= Len(m.errors) + 80 * 1 /\ Len(n.errors) + 0 <= Len(m.errors) + 80 * 1
        BY <1>3, <2>2
  <2>6. Spends(m, n, 80) BY <1>1, <1>2, <1>3, <2>2, <2>4, <2>5, Paid, SMTT(30)
  <2>7. Spends(m, n, 0) BY <1>1, <1>2, <1>3, <2>2, <2>4, <2>5, Paid
  <2>8. QED BY <1>4, <2>6, <2>7 DEF n
<1>5. CASE m.current = None
  <2> DEFINE r == impl_next_token(m)
             k == r.m.read - m.read
  <2>1. m.next = None BY <1>1, <1>5 DEF Sound, Good, Queued
  <2>2. n = [r.m EXCEPT !.current = None, !.next = None] BY <1>5, <2>1 DEF Take, next_token, Consume
  <2>3. DOMAIN r.m = Fields /\ r.m.stack = m.stack /\ r.m.failed = m.failed /\ r.m.pending = m.pending
        BY <1>1, ReadKeeps
  <2>4. r.m.read \in m.read..(Len(m.tokens) + 1) /\ Listed(r.m.errors) /\ Len(r.m.errors) <= Len(m.errors) + (r.m.read - m.read)
    <3>1. /\ r.m.read \in m.read..(Len(m.tokens) + 1) /\ Listed(r.m.errors)
          /\ r.t = None => Len(r.m.errors) <= Len(m.errors) + (r.m.read - m.read)
          /\ r.t # None => Len(r.m.errors) + 1 <= Len(m.errors) + (r.m.read - m.read)
      BY <1>1, ReadCost
    <3> HIDE DEF r
    <3>2. Len(r.m.errors) \in Nat BY <3>1, ListedIs
    <3>3. m.read \in Nat /\ r.m.read \in Int BY <1>3, <3>1
    <3>4. QED BY <1>3, <3>1, <3>2, <3>3, SMTT(30)
  <2> HIDE DEF r
  <2>5. n.stack = m.stack /\ n.failed = m.failed /\ n.pending = m.pending /\ n.errors = r.m.errors /\ n.read = r.m.read /\ n.current = None /\ n.next = None
    BY <2>2, <2>3, FieldsAre
  <2> HIDE DEF n
  <2>6. Holds(m.current) = 0 /\ Holds(m.next) = 0 /\ Holds(n.current) = 0 /\ Holds(n.next) = 0
        BY <1>5, <2>1, <2>5 DEF Holds
  <2>7. k \in Nat /\ r.m.read = m.read + k BY <1>3, <2>4
  <2>8. k + Holds(m.current) + Holds(m.next) - Holds(n.current) - Holds(n.next) = k BY <2>6, <2>7
  <2>9. Len(n.errors) + 0 <= Len(m.errors) + 80 * k
    <3>1. Len(n.errors) \in Nat /\ Len(n.errors) <= Len(m.errors) + k BY <2>4, <2>5, ListedIs
    <3> HIDE DEF k
    <3>2. QED BY <1>3, <2>7, <3>1
  <2> HIDE DEF k
  <2>10. Spends(m, n, 0) BY <1>1, <1>2, <2>4, <2>5, <2>7, <2>8, <2>9, Paid
  <2>11. QED BY <1>5, <2>10 DEF n
<1>6. QED BY <1>4, <1>5

\* a token that is peeked at is still to be consumed
LEMMA FetchSpends ==
  ASSUME NEW m, Sound(m), NEW n, Good(n), n.tokens = m.tokens,
         \/ m.current = None /\ m.next = None /\ n = AsCurrent(impl_next_token(m))
         \/ m.next = None /\ n = AsNext(impl_next_token(m))
  PROVE  Spends(m, n, 0) /\ (impl_next_token(m).t = None => n.read = Len(m.tokens) + 1)
<1> DEFINE r == impl_next_token(m)
           k == r.m.read - m.read
           h == Holds(r.t)
<1>1. Len(m.errors) \in Nat /\ m.read \in Nat BY OwedSum
<1>2. DOMAIN r.m = Fields /\ r.m.stack = m.stack /\ r.m.failed = m.failed /\ r.m.pending = m.pending /\ r.m.current = m.current /\ r.m.next = m.next
  BY ReadKeeps
<1>3. /\ r.m.read \in m.read..(Len(m.tokens) + 1) /\ Listed(r.m.errors)
      /\ r.t = None => r.m.read = Len(m.tokens) + 1 /\ Len(r.m.errors) <= Len(m.errors) + (r.m.read - m.read)
      /\ r.t # None => Len(r.m.errors) + 1 <= Len(m.errors) + (r.m.read - m.read)
  BY ReadCost
<1>4. \/ n = [r.m EXCEPT !.current = r.t] /\ m.current = None /\ m.next = None
      \/ n = [r.m EXCEPT !.next = r.t] /\ m.next = None BY DEF AsCurrent, AsNext
<1> HIDE DEF r
<1>5. n.stack = m.stack /\ n.failed = m.failed /\ n.pending = m.pending /\ n.errors = r.m.errors /\ n.read = r.m.read
  BY <1>2, <1>4, FieldsAre
<1>6. Holds(n.current) + Holds(n.next) = Holds(m.current) + Holds(m.next) + h
  <2>1. Holds(m.next) = 0 /\ Holds(m.current) \in {0, 1} /\ h \in {0, 1} BY <1>4 DEF Holds
  <2>2. CASE n = [r.m EXCEPT !.current = r.t] /\ m.current = None
    <3>1. n.current = r.t /\ n.next = m.next BY <1>2, <2>2, FieldsAre
    <3>2. Holds(m.current) = 0 BY <2>2 DEF Holds
    <3>3. QED BY <2>1, <3>1, <3>2
  <2>3. CASE n = [r.m EXCEPT !.next = r.t]
    <3>1. n.current = m.current /\ n.next = r.t BY <1>2, <2>3, FieldsAre
    <3>2. QED BY <2>1, <3>1
  <2>4. QED BY <1>4, <2>2, <2>3
<1>7. k \in Nat /\ n.read = m.read + k BY <1>1, <1>3, <1>5
<1>8. Len(n.errors) \in Nat /\ Len(n.errors) + h <= Len(m.errors) + k /\ h \in {0, 1}
  <2>1. Len(n.errors) \in Nat BY <1>3, <1>5, ListedIs
  <2>2. CASE r.t = None
    <3>1. h = 0 BY <2>2 DEF Holds
    <3>2. QED BY <1>3, <1>5, <2>1, <2>2, <3>1
  <2>3. CASE r.t # None
    <3>1. h = 1 BY <2>3 DEF Holds
    <3>2. QED BY <1>3, <1>5, <2>3, <2>1, <3>1
  <2>4. QED BY <2>2, <2>3
<1>9. h <= k
  <2>1. CASE r.t = None BY <1>7, <2>1 DEF Holds
  <2>2. CASE r.t # None
    <3>1. r.t.at < r.m.read /\ m.read <= r.t.at /\ r.t.at \in Nat
      <4>1. Known(r.m, r.t) /\ m.read <= r.t.at BY <2>2, ReadFacts DEF r, Sound, Good
      <4>2. r.m.tokens = m.tokens BY ReadKeeps DEF r
      <4>3. QED BY <4>1, <4>2, GoodFacts DEF Known, Sound
    <3>2. r.m.read \in Nat BY <1>1, <1>3
    <3>3. h = 1 BY <2>2 DEF Holds
    <3>4. QED BY <1>1, <3>1, <3>2, <3>3
  <2>3. QED BY <2>1, <2>2
<1> HIDE DEF k, h
<1>10. k + Holds(m.current) + Holds(m.next) - Holds(n.current) - Holds(n.next) = k - h
  <2>1. Holds(m.current) \in {0, 1} /\ Holds(m.next) \in {0, 1} /\ Holds(n.current) \in {0, 1} /\ Holds(n.next) \in {0, 1}
        BY DEF Holds
  <2>2. QED BY <1>6, <1>7, <1>8, <2>1
<1>11. k - h \in Nat /\ Len(n.errors) + 0 <= Len(m.errors) + 80 * (k - h)
  <2> DEFINE a == Len(n.errors)
             b == Len(m.errors)
             d == k - h
  <2>1. a \in Nat /\ b \in Nat /\ d \in Nat /\ a <= b + d
    <3>1. a \in Nat /\ b \in Nat /\ k \in Nat /\ h \in {0, 1} /\ h <= k /\ a + h <= b + k
          BY <1>1, <1>7, <1>8, <1>9
    <3> HIDE DEF a, b
    <3>2. QED BY <3>1
  <2> HIDE DEF a, b, d
  <2>2. a + 0 <= b + 80 * d BY <2>1
  <2>3. QED BY <2>1, <2>2 DEF a, b, d
<1>12. Spends(m, n, 0) BY <1>3, <1>5, <1>7, <1>10, <1>11, Paid
<1>13. QED BY <1>3, <1>5, <1>12 DEF r

\* Looking at the current token spends nothing; there is none only at the end.
LEMMA PeekSpends ==
  ASSUME NEW m
  PROVE  /\ Spends(m, peek_token(m), 0)
         /\ Sound(m) /\ peek_token(m).current = None => Left(peek_token(m)) = 0
<1>1. SUFFICES ASSUME Sound(m) PROVE Spends(m, peek_token(m), 0) /\ (peek_token(m).current = None => Left(peek_token(m)) = 0)
      BY DEF Spends
<1>2. CASE m.current # None
  <2>1. peek_token(m) = m BY <1>2 DEF peek_token
  <2>2. QED BY <1>2, <2>1, SpendsReflexive
<1>3. CASE m.current = None
  <2> DEFINE r == impl_next_token(m)
             n == AsCurrent(r)
  <2>1. m.next = None BY <1>1, <1>3 DEF Sound, Good, Queued
  <2>2. peek_token(m) = n BY <1>3, <2>1 DEF peek_token
  <2>3. Good(n) /\ n.tokens = m.tokens BY <1>1, <1>3, FetchCurrent DEF Sound, Onward
  <2>4. Spends(m, n, 0) /\ (r.t = None => n.read = Len(m.tokens) + 1) BY <1>1, <1>3, <2>1, <2>3, FetchSpends
  <2>5. n.current = r.t /\ n.next = None
    <3>1. DOMAIN r.m = Fields /\ r.m.next = m.next BY <1>1, ReadKeeps
    <3>2. n = [r.m EXCEPT !.current = r.t] BY DEF AsCurrent
    <3> HIDE DEF r, n
    <3>3. QED BY <2>1, <3>1, <3>2, FieldsAre
  <2> HIDE DEF r, n
  <2>6. n.current = None => Left(n) = 0
    <3>1. SUFFICES ASSUME n.current = None PROVE Left(n) = 0 OBVIOUS
    <3>2. Holds(n.current) = 0 /\ Holds(n.next) = 0 /\ n.read = Len(n.tokens) + 1
          BY <2>3, <2>4, <2>5, <3>1 DEF Holds
    <3>3. Len(n.tokens) \in Nat BY <2>3, LeftIs
    <3>4. QED BY <3>2, <3>3 DEF Left
  <2>7. QED BY <2>2, <2>4, <2>6
<1>4. QED BY <1>2, <1>3

\* Nor does looking at the one behind it.
LEMMA PeekNextSpends == ASSUME NEW m PROVE Spends(m, peek_next_token(m), 0)
<1>1. SUFFICES ASSUME Sound(m) PROVE Spends(m, peek_next_token(m), 0) BY DEF Spends
<1>2. Good(peek_next_token(m)) /\ peek_next_token(m).tokens = m.tokens
      BY <1>1, PeekNextOnward DEF Sound, Onward
<1>3. CASE m.next # None
  <2>1. peek_next_token(m) = m BY <1>3 DEF peek_next_token, HasNext
  <2>2. QED BY <2>1, SpendsReflexive
<1>4. CASE m.next = None /\ m.current # None
  <2>1. peek_next_token(m) = AsNext(impl_next_token(m)) BY <1>4 DEF peek_next_token, HasNext
  <2>2. QED BY <1>1, <1>2, <1>4, <2>1, FetchSpends
<1>5. CASE m.next = None /\ m.current = None
  <2> DEFINE n == AsCurrent(impl_next_token(m))
  <2>1. peek_next_token(m) = AsNext(impl_next_token(n)) BY <1>5 DEF peek_next_token, HasNext
  <2>2. Good(n) /\ n.tokens = m.tokens /\ n.next = None BY <1>1, <1>5, FetchCurrent DEF Sound, Onward
  <2>3. Spends(m, n, 0) BY <1>1, <1>5, <2>2, FetchSpends
  <2> HIDE DEF n
  <2>4. Sound(n) BY <1>1, <2>3 DEF Spends
  <2>5. Spends(n, peek_next_token(m), 0) BY <1>2, <2>1, <2>2, <2>4, FetchSpends
  <2>6. Spends(m, peek_next_token(m), 0 + 0) BY <2>3, <2>5, SpendsTransitive
  <2>7. QED BY <2>6
<1>6. QED BY <1>3, <1>4, <1>5

\* a smaller gain
LEMMA SpendsLess == ASSUME NEW m, NEW n, NEW a \in Nat, NEW b \in Nat, b <= a, Spends(m, n, a) PROVE Spends(m, n, b)
<1>1. SUFFICES ASSUME Sound(m) PROVE Spends(m, n, b) BY DEF Spends
<1>2. Sound(n) /\ n.stack = m.stack /\ n.failed = m.failed /\ Left(n) <= Left(m) /\ Owed(n) + a <= Owed(m)
      BY <1>1 DEF Spends
<1>3. Owed(n) \in Nat /\ Owed(m) \in Nat BY <1>1, <1>2, OwedIs
<1>4. Owed(n) + b <= Owed(m) BY <1>2, <1>3
<1>5. QED BY <1>2, <1>4 DEF Spends

\* panic skips a token where there is one
LEMMA PanicSpends ==
  ASSUME NEW m
  PROVE  /\ Spends(m, panic(m), 0)
         /\ Left(m) # 0 => Spends(m, panic(m), 79)
<1>1. SUFFICES ASSUME Sound(m) PROVE Spends(m, panic(m), 0) /\ (Left(m) # 0 => Spends(m, panic(m), 79))
      BY DEF Spends
<1>2. Good(panic(m)) /\ panic(m).tokens = m.tokens BY <1>1, PanicOnward DEF Sound, Onward
<1>3. /\ Len(m.tokens) \in Nat /\ m.read \in 1..(Len(m.tokens) + 1) /\ Source(m.tokens) /\ DOMAIN m.tokens = 1..Len(m.tokens)
      /\ DOMAIN m = Fields /\ Len(m.errors) \in Nat /\ Listed(m.errors)
      /\ Holds(m.current) \in {0, 1} /\ Holds(m.next) \in {0, 1}
  <2>1. Good(m) /\ Listed(m.errors) BY <1>1 DEF Sound
  <2>2. Source(m.tokens) /\ DOMAIN m = Fields BY <2>1 DEF Good, Placed
  <2>3. DOMAIN m.tokens = 1..Len(m.tokens) BY <2>2 DEF Source
  <2>4. Len(m.errors) \in Nat BY <1>1, OwedIs
  <2>5. Len(m.tokens) \in Nat /\ m.read \in 1..(Len(m.tokens) + 1) /\ Holds(m.current) \in {0, 1} /\ Holds(m.next) \in {0, 1}
        BY <2>1, LeftIs
  <2>6. QED BY <2>1, <2>2, <2>3, <2>4, <2>5
<1>4. "<none>" \notin StatementEnd /\ None.k = "<none>" BY DEF StatementEnd, None, Word
<1>5. CASE m.current.k \in StatementEnd
  <2>1. panic(m) = Take(m) BY <1>5 DEF panic, Take
  <2>2. m.current # None BY <1>4, <1>5
  <2>3. Spends(m, panic(m), 80) BY <2>1, <2>2, TakeSpends
  <2>4. QED BY <2>3, SpendsLess
<1>6. CASE m.current.k \notin StatementEnd /\ m.next.k \in StatementEnd
  <2> DEFINE n == [m EXCEPT !.current = None, !.next = None]
  <2>1. panic(m) = n BY <1>6 DEF panic
  <2>2. n.stack = m.stack /\ n.failed = m.failed /\ n.pending = m.pending /\ n.errors = m.errors /\ n.read = m.read /\ n.current = None /\ n.next = None
    BY <1>3, FieldsAre
  <2> HIDE DEF n
  <2>3. Holds(n.current) = 0 /\ Holds(n.next) = 0 /\ Holds(m.next) = 1 BY <1>4, <1>6, <2>2 DEF Holds
  <2> DEFINE u == 0 + Holds(m.current) + Holds(m.next) - Holds(n.current) - Holds(n.next)
  <2>4. u \in {1, 2} BY <1>3, <2>3
  <2>5. n.read = m.read + 0 /\ u \in Nat /\ Len(n.errors) + 79 <= Len(m.errors) + 80 * u BY <1>3, <2>2, <2>4
  <2>6. Spends(m, n, 79) BY <1>1, <1>2, <1>3, <2>1, <2>2, <2>5, Paid
  <2>7. QED BY <2>1, <2>6, SpendsLess
<1>7. CASE m.current.k \notin StatementEnd /\ m.next.k \notin StatementEnd
  <2> DEFINE kinds == {m.tokens[i].k : i \in DOMAIN m.tokens} \ StatementEnd
             to == RunEnd(m.tokens, m.read, kinds)
             place == IF to > Len(m.tokens) THEN to ELSE to + 1
             e == ReadTo(m, place)
             n == [e EXCEPT !.current = None, !.next = None]
             k == place - m.read
  <2>1. panic(m) = n BY <1>7 DEF panic, SkipFrom
  <2>2. to \in m.read..(Len(m.tokens) + 1) BY <1>3, RunEnds
  <2>3. place \in m.read..(Len(m.tokens) + 1) /\ (m.read <= Len(m.tokens) => place > m.read) BY <1>3, <2>2
  <2> HIDE DEF to, kinds, place
  <2>4. Listed(e.errors) /\ e.read = place /\ DOMAIN e = Fields /\ Len(e.errors) <= Len(m.errors) + k
        BY <1>1, <2>3, ReadToCost
  <2>5. e.stack = m.stack /\ e.failed = m.failed /\ e.pending = m.pending BY <1>3, FieldsAre DEF ReadTo
  <2> HIDE DEF e
  <2>6. n.stack = m.stack /\ n.failed = m.failed /\ n.pending = m.pending /\ n.errors = e.errors /\ n.read = place /\ n.current = None /\ n.next = None
    BY <2>4, <2>5, FieldsAre
  <2> HIDE DEF n
  <2>7. Holds(n.current) = 0 /\ Holds(n.next) = 0 BY <2>6 DEF Holds
  <2>8. k \in Nat /\ place = m.read + k BY <1>3, <2>3
  <2>9. Len(e.errors) \in Nat BY <2>4, ListedIs
  <2> DEFINE u == k + Holds(m.current) + Holds(m.next) - Holds(n.current) - Holds(n.next)
  <2>10. u = k + Holds(m.current) + Holds(m.next) /\ u \in Nat /\ u >= k BY <1>3, <2>7, <2>8
  <2>11. Left(m) # 0 => u >= 1
    <3>1. SUFFICES ASSUME Left(m) # 0, u = 0 PROVE FALSE BY <2>10
    <3>2. k = 0 /\ Holds(m.current) = 0 /\ Holds(m.next) = 0 BY <1>3, <2>8, <2>10, <3>1
    <3>3. m.read = Len(m.tokens) + 1 BY <1>3, <2>3, <2>8, <3>2
    <3>4. Left(m) = 0 BY <1>3, <3>2, <3>3 DEF Left
    <3>5. QED BY <3>1, <3>4
  <2> HIDE DEF k
  <2>12. Len(n.errors) + 0 <= Len(m.errors) + 80 * u /\ (u >= 1 => Len(n.errors) + 79 <= Len(m.errors) + 80 * u)
    <3> DEFINE a == Len(n.errors)
               b == Len(m.errors)
    <3>1. a \in Nat /\ b \in Nat /\ u \in Nat /\ a <= b + k /\ k \in Nat /\ u >= k
          BY <1>3, <2>4, <2>6, <2>8, <2>9, <2>10
    <3> HIDE DEF a, b, u
    <3>2. a + 0 <= b + 80 * u /\ (u >= 1 => a + 79 <= b + 80 * u) BY <3>1
    <3>3. QED BY <3>2 DEF a, b
  <2>13. n.read = m.read + k /\ Listed(n.errors) BY <2>4, <2>6, <2>8
  <2>14. Spends(m, n, 0)
    <3>1. u \in Nat /\ Len(n.errors) + 0 <= Len(m.errors) + 80 * u BY <2>10, <2>12
    <3>2. QED BY <1>1, <1>2, <2>1, <2>6, <2>8, <2>13, <3>1, Paid
  <2>15. ASSUME Left(m) # 0 PROVE Spends(m, n, 79)
    <3>1. u \in Nat /\ Len(n.errors) + 79 <= Len(m.errors) + 80 * u BY <2>10, <2>11, <2>12, <2>15
    <3>2. QED BY <1>1, <1>2, <2>1, <2>6, <2>8, <2>13, <3>1, Paid
  <2>16. QED BY <2>1, <2>14, <2>15
<1>8. QED BY <1>5, <1>6, <1>7

\* A step that neither reads nor reports costs nothing.
LEMMA StaysSpends ==
  ASSUME NEW m, NEW n,
         DOMAIN m = Fields =>
            DOMAIN n = Fields /\ \A f \in {"tokens", "read", "current", "next", "bad", "errors", "pending", "stack", "failed"} : n[f] = m[f],
         Good(m) => n.exited \in BOOLEAN
  PROVE  Spends(m, n, 0)
<1>1. SUFFICES ASSUME Sound(m) PROVE Spends(m, n, 0) BY DEF Spends
<1>2. DOMAIN m = Fields BY <1>1 DEF Sound, Good, Placed
<1>3. /\ n.tokens = m.tokens /\ n.read = m.read /\ n.current = m.current /\ n.next = m.next
      /\ n.errors = m.errors /\ n.pending = m.pending /\ n.stack = m.stack /\ n.failed = m.failed
  BY <1>2
<1>4. Good(n)
  <2>1. Onward(m, n) BY StaysOnward
  <2>2. QED BY <1>1, <2>1 DEF Sound, Onward
<1>5. Sound(n) BY <1>1, <1>3, <1>4 DEF Sound
<1>6. Left(n) = Left(m) /\ Owed(n) = Owed(m) BY <1>3 DEF Left, Owed
<1>7. Left(m) \in Nat /\ Owed(m) \in Nat BY <1>1, OwedIs
<1>8. QED BY <1>3, <1>5, <1>6, <1>7 DEF Spends

\* What one more token pays.
LEMMA OwedShift ==
  \A p, n, l, k, h, a, b :
     l \in Nat /\ h \in Nat /\ a \in Nat /\ b \in Nat /\ k = l + h /\ n = 80 * l + a + b /\ p = 80 * k + a + b => p = n + 80 * h
OBVIOUS

\* A token that is put back is to be consumed again.
LEMMA UnputSpends ==
  ASSUME NEW m, Sound(m), NEW n, Sound(n), n.next = None, n.stack = m.stack, n.failed = m.failed,
         NEW t, Good(unput(n, t)), Left(n) + Holds(t) <= Left(m), Owed(n) + 80 * Holds(t) <= Owed(m)
  PROVE  Spends(m, unput(n, t), 0)
<1> DEFINE p == unput(n, t)
<1>1. DOMAIN n = Fields BY DEF Sound, Good, Placed
<1>2. /\ p.current = t /\ p.next = n.current /\ p.tokens = n.tokens /\ p.read = n.read
      /\ p.errors = n.errors /\ p.pending = n.pending /\ p.stack = n.stack /\ p.failed = n.failed
  BY <1>1, FieldsAre DEF unput
<1> HIDE DEF p
<1>3. Sound(p) BY <1>2 DEF Sound, p
<1>4. Left(n) \in Nat /\ Left(p) \in Nat /\ Left(m) \in Nat /\ Holds(t) \in {0, 1} BY <1>3, OwedIs DEF Holds
<1>5. Left(p) = Left(n) + Holds(t)
  <2> DEFINE a == Holds(n.current)
             b == Len(n.tokens) + 1 - n.read
             c == Holds(t)
  <2>1. Left(n) = b + a + 0 /\ Left(p) = b + c + a BY <1>2 DEF Left, Holds
  <2>2. a \in {0, 1} /\ c \in {0, 1} BY DEF Holds
  <2>3. b \in Nat
    <3>1. Len(n.tokens) \in Nat /\ n.read \in 1..(Len(n.tokens) + 1) BY LeftIs DEF Sound
    <3>2. QED BY <3>1
  <2> HIDE DEF a, b, c
  <2>4. Left(p) = Left(n) + c BY <2>1, <2>2, <2>3
  <2>5. QED BY <2>4 DEF c
<1>6. Owed(p) = Owed(n) + 80 * Holds(t)
  <2>1. Owed(n) = 80 * Left(n) + Len(n.errors) + Len(n.pending) /\ Len(n.errors) \in Nat /\ Len(n.pending) \in Nat
        BY OwedIs
  <2>2. Owed(p) = 80 * Left(p) + Len(n.errors) + Len(n.pending) BY <1>2, <1>3, OwedIs
  <2> DEFINE h == Holds(t)
             a == Len(n.errors)
             b == Len(n.pending)
  <2>3. Left(p) = Left(n) + h /\ h \in Nat /\ a \in Nat /\ b \in Nat BY <1>4, <1>5, <2>1
  <2> HIDE DEF h, a, b
  <2>4. Owed(p) = Owed(n) + 80 * h
    <3>1. Left(n) \in Nat BY <1>3, <1>4, OwedIs
    <3>2. Owed(n) = 80 * Left(n) + a + b /\ Owed(p) = 80 * Left(p) + a + b BY <2>1, <2>2 DEF a, b
    <3>3. QED BY <2>3, <3>1, <3>2, OwedShift
  <2>5. QED BY <2>4 DEF h
<1>7. Owed(p) \in Nat BY <1>3, OwedIs
<1>8. Left(p) <= Left(m) /\ Owed(p) + 0 <= Owed(m) BY <1>5, <1>6, <1>7
<1>9. QED BY <1>2, <1>3, <1>8 DEF Spends, p

\* One token less is left when one is taken.
LEMMA TakeLeft == ASSUME NEW m, Sound(m), m.current # None PROVE Left(Take(m)) + 1 <= Left(m)
<1> DEFINE n == Take(m)
<1>1. n = [m EXCEPT !.current = m.next, !.next = None] BY DEF Take, next_token, Consume
<1>2. DOMAIN m = Fields BY DEF Sound, Good, Placed
<1>3. n.current = m.next /\ n.next = None /\ n.tokens = m.tokens /\ n.read = m.read BY <1>1, <1>2, FieldsAre
<1> HIDE DEF n
<1> DEFINE a == Holds(m.next)
           b == Len(m.tokens) + 1 - m.read
<1>4. Left(m) = b + 1 + a /\ Left(n) = b + a + 0 BY <1>3 DEF Left, Holds
<1>5. a \in {0, 1} BY DEF Holds
<1>6. b \in Nat
  <2>1. Len(m.tokens) \in Nat /\ m.read \in 1..(Len(m.tokens) + 1) BY LeftIs DEF Sound
  <2>2. QED BY <2>1
<1> HIDE DEF a, b
<1>7. Left(n) + 1 <= Left(m) BY <1>4, <1>5, <1>6
<1>8. QED BY <1>7 DEF n

\* A name that is put back as an identifier is paid for by its token.
LEMMA UnputNameSpends == ASSUME NEW q, q.current # None PROVE Spends(q, unput(Take(q), [q.current EXCEPT !.k = "id"]), 0)
<1> DEFINE n == Take(q)
           t == [q.current EXCEPT !.k = "id"]
<1>1. SUFFICES ASSUME Sound(q) PROVE Spends(q, unput(n, t), 0) BY DEF Spends
<1>2. Good(unput(n, t)) BY <1>1, UnputName DEF Sound, Onward
<1>3. n.next = None BY <1>1, TakeFacts DEF Sound
<1>4. Spends(q, n, 80) BY TakeSpends
<1>5. Left(n) + 1 <= Left(q) BY <1>1, TakeLeft
<1> HIDE DEF n, t
<1>6. Sound(n) /\ n.stack = q.stack /\ n.failed = q.failed /\ Owed(n) + 80 <= Owed(q) BY <1>1, <1>4 DEF Spends
<1>7. Holds(t) \in {0, 1} BY DEF Holds
<1>8. Left(n) + Holds(t) <= Left(q) /\ Owed(n) + 80 * Holds(t) <= Owed(q)
  <2>1. Left(n) \in Nat /\ Owed(n) \in Nat /\ Left(q) \in Nat /\ Owed(q) \in Nat BY <1>1, <1>6, OwedIs
  <2>2. QED BY <1>5, <1>6, <1>7, <2>1
<1>9. QED BY <1>1, <1>2, <1>3, <1>6, <1>8, UnputSpends

\* So is a token that is put back once the next one was looked at.
LEMMA UnputAheadSpends == ASSUME NEW q, q.current # None PROVE Spends(q, unput(peek_token(Take(q)), q.current), 0)
<1> DEFINE n == Take(q)
           p == peek_token(n)
           t == q.current
<1>1. SUFFICES ASSUME Sound(q) PROVE Spends(q, unput(p, t), 0) BY DEF Spends
<1>2. Good(unput(p, t)) BY <1>1, UnputAhead DEF Sound, Onward
<1>3. n.next = None /\ Good(n) BY <1>1, TakeFacts DEF Sound, Onward
<1>4. p.next = None BY <1>3, PeekFacts
<1>5. Spends(q, n, 80) BY TakeSpends
<1>6. Left(n) + 1 <= Left(q) BY <1>1, TakeLeft
<1>7. Spends(n, p, 0) BY PeekSpends
<1> HIDE DEF n, p, t
<1>8. Sound(n) /\ n.stack = q.stack /\ n.failed = q.failed /\ Owed(n) + 80 <= Owed(q) BY <1>1, <1>5 DEF Spends
<1>9. Sound(p) /\ p.stack = q.stack /\ p.failed = q.failed /\ Owed(p) + 0 <= Owed(n) /\ Left(p) <= Left(n)
      BY <1>7, <1>8 DEF Spends
<1>10. Holds(t) \in {0, 1} BY DEF Holds
<1>11. Left(p) + Holds(t) <= Left(q) /\ Owed(p) + 80 * Holds(t) <= Owed(q)
  <2>1. Left(n) \in Nat /\ Owed(n) \in Nat /\ Left(p) \in Nat /\ Owed(p) \in Nat /\ Left(q) \in Nat /\ Owed(q) \in Nat
    BY <1>1, <1>8, <1>9, OwedIs
  <2>2. QED BY <1>6, <1>8, <1>9, <1>10, <2>1
<1>12. QED BY <1>1, <1>2, <1>4, <1>9, <1>11, UnputSpends

\* And what is put back directly after it was taken.
LEMMA UnputAnySpends ==
  ASSUME NEW q, Sound(q) /\ q.current = None => Left(q) = 0
  PROVE  Spends(q, unput(next_token(q).m, next_token(q).t), 0)
<1> DEFINE n == Take(q)
           t == next_token(q).t
<1>1. SUFFICES ASSUME Sound(q) PROVE Spends(q, unput(n, t), 0) BY DEF Spends, Take
<1>2. Good(unput(n, t))
  <2>1. q.current = None => Ahead(q) = {}
    <3>1. SUFFICES ASSUME q.current = None, NEW i \in Ahead(q) PROVE FALSE OBVIOUS
    <3>2. q.read = Len(q.tokens) + 1 /\ q.next = None /\ Len(q.tokens) \in Nat BY <1>1, <3>1, LeftIs DEF Sound
    <3>3. i \in Visible(q.tokens) /\ i >= q.read BY <3>1, <3>2, AheadIs
    <3>4. i \in 1..Len(q.tokens) BY <1>1, <3>3, VisibleIs DEF Sound, Good, Placed
    <3>5. QED BY <3>2, <3>3, <3>4
  <2>2. QED BY <1>1, <2>1, UnputAny DEF Sound, Onward, Take
<1>3. n.next = None BY <1>1, TakeFacts DEF Sound
<1>4. CASE q.current # None
  <2>1. Spends(q, n, 80) BY <1>4, TakeSpends
  <2>2. Left(n) + 1 <= Left(q) BY <1>1, <1>4, TakeLeft
  <2> HIDE DEF n, t
  <2>3. Sound(n) /\ n.stack = q.stack /\ n.failed = q.failed /\ Owed(n) + 80 <= Owed(q)
        BY <1>1, <2>1 DEF Spends
  <2>4. Holds(t) \in {0, 1} BY DEF Holds
  <2>5. Left(n) + Holds(t) <= Left(q) /\ Owed(n) + 80 * Holds(t) <= Owed(q)
    <3>1. Left(n) \in Nat /\ Owed(n) \in Nat /\ Left(q) \in Nat /\ Owed(q) \in Nat BY <1>1, <2>3, OwedIs
    <3>2. QED BY <2>2, <2>3, <2>4, <3>1
  <2>6. QED BY <1>1, <1>2, <1>3, <2>3, <2>5, UnputSpends
<1>5. CASE q.current = None
  <2>1. Spends(q, n, 0) BY TakeSpends
  <2>2. t = None
    <3> DEFINE r == impl_next_token(q)
    <3>1. t = r.t BY <1>5 DEF next_token, Consume
    <3>2. r.t # None => Known(r.m, r.t) /\ q.read <= r.t.at /\ r.m.tokens = q.tokens
      <4>1. \/ r.t = None
            \/ Known(r.m, r.t) /\ q.read <= r.t.at
        BY <1>1, ReadFacts DEF Sound, Good
      <4>2. r.m.tokens = q.tokens BY <1>1, ReadKeeps
      <4>3. QED BY <4>1, <4>2
    <3> HIDE DEF r, t
    <3>3. SUFFICES ASSUME r.t # None PROVE FALSE BY <3>1
    <3>4. r.t.at \in 1..Len(q.tokens) BY <1>1, <3>2, <3>3, VisibleIs DEF Known, Sound, Good, Placed
    <3>5. q.read = Len(q.tokens) + 1 /\ Len(q.tokens) \in Nat BY <1>1, <1>5, LeftIs DEF Sound
    <3>6. QED BY <3>2, <3>3, <3>4, <3>5
  <2>3. Holds(t) = 0 BY <2>2 DEF Holds
  <2> HIDE DEF n, t
  <2>4. Sound(n) /\ n.stack = q.stack /\ n.failed = q.failed /\ Owed(n) + 0 <= Owed(q) /\ Left(n) <= Left(q)
        BY <1>1, <2>1 DEF Spends
  <2>5. Left(n) + Holds(t) <= Left(q) /\ Owed(n) + 80 * Holds(t) <= Owed(q)
    <3>1. Left(n) \in Nat /\ Owed(n) \in Nat /\ Left(q) \in Nat /\ Owed(q) \in Nat BY <1>1, <2>4, OwedIs
    <3>2. QED BY <2>3, <2>4, <3>1
  <2>6. QED BY <1>1, <1>2, <1>3, <2>4, <2>5, UnputSpends
<1>6. QED BY <1>4, <1>5

-----------------------------------------------------------------------------
(* What costs nothing *)

\* A node that is returned costs no token.
LEMMA YieldSpends == ASSUME NEW m, NEW node PROVE Spends(m, Yield(m, node), 0)
<1>1. Good(m) => Yield(m, node).exited \in BOOLEAN BY FieldsAre DEF Yield, Good, Placed
<1>2. QED BY <1>1, StaysSpends, FieldsAre DEF Yield

\* Nor do nodes that are dropped.
LEMMA KeepSpends == ASSUME NEW m, NEW n PROVE Spends(m, Keep(m, n), 0)
<1>1. Good(m) => Keep(m, n).exited \in BOOLEAN BY FieldsAre DEF Keep, Good, Placed
<1>2. QED BY <1>1, StaysSpends, FieldsAre DEF Keep

\* Nor does building a node.
LEMMA BuiltSpends == ASSUME NEW m, NEW o, NEW v, NEW n PROVE Spends(m, Built(m, o, v, n), 0)
<1>1. Good(m) => Built(m, o, v, n).exited \in BOOLEAN BY FieldsAre DEF Built, Good, Placed
<1>2. QED BY <1>1, StaysSpends, FieldsAre DEF Built

\* Nor does appending one to a list.
LEMMA AppendedSpends == ASSUME NEW m PROVE Spends(m, Appended(m), 0)
<1>1. Good(m) => Appended(m).exited \in BOOLEAN BY FieldsAre DEF Appended, Good, Placed
<1>2. QED BY <1>1, StaysSpends, FieldsAre DEF Appended

\* Nor does merging declarators.
LEMMA MergeSpends == ASSUME NEW m, NEW o, NEW v PROVE Spends(m, merge_decls(m, o, v), 0)
<1>1. Good(m) => merge_decls(m, o, v).exited \in BOOLEAN BY FieldsAre DEF merge_decls, Good, Placed
<1>2. QED BY <1>1, StaysSpends, FieldsAre DEF merge_decls

\* Nor does a pointer declarator.
LEMMA PointerSpends == ASSUME NEW m PROVE Spends(m, pointer(m), 0)
<1>1. Good(m) => pointer(m).exited \in BOOLEAN BY FieldsAre DEF pointer, Good, Placed
<1>2. QED BY <1>1, StaysSpends, FieldsAre DEF pointer

\* Nor do typedefs that enter the scope.
LEMMA InsertedSpends == ASSUME NEW m, NEW names PROVE Spends(m, Inserted(m, names), 0)
<1>1. Good(m) => Inserted(m, names).exited \in BOOLEAN BY FieldsAre DEF Inserted, Good, Placed
<1>2. QED BY <1>1, StaysSpends, FieldsAre DEF Inserted

\* Nor does the recursion guard.
LEMMA DeepSpends == ASSUME NEW m, NEW deep \in BOOLEAN PROVE Spends(m, [m EXCEPT !.exited = deep], 0)
<1>1. Good(m) => [m EXCEPT !.exited = deep].exited \in BOOLEAN BY FieldsAre DEF Good, Placed
<1>2. QED BY <1>1, StaysSpends, FieldsAre

\* What spends nothing may follow what gains.
LEMMA SpendsOn == ASSUME NEW m, NEW n, NEW p, NEW gain \in Nat, Spends(m, n, gain), Spends(n, p, 0) PROVE Spends(m, p, gain)
<1>1. Spends(m, p, gain + 0) BY SpendsTransitive
<1>2. QED BY <1>1

\* All of these may follow what has paid.
LEMMA SpendsRead ==
  \A m, n, gain : gain \in Nat /\ Spends(m, n, gain) =>
     /\ Spends(m, Take(n), gain)
     /\ Spends(m, peek_token(n), gain)
     /\ Spends(m, peek_next_token(n), gain)
     /\ Spends(m, panic(n), gain)
BY TakeSpends, PeekSpends, PeekNextSpends, PanicSpends, SpendsOn

\* A node may be returned after tokens were consumed.
LEMMA SpendsYield == \A m, n, gain, node : gain \in Nat /\ Spends(m, n, gain) => Spends(m, Yield(n, node), gain)
BY YieldSpends, SpendsOn

\* A node may be built after it.
LEMMA SpendsBuilt == \A m, n, gain, o, v, i : gain \in Nat /\ Spends(m, n, gain) => Spends(m, Built(n, o, v, i), gain)
BY BuiltSpends, SpendsOn

\* Declarators may be merged after it.
LEMMA SpendsMerge == \A m, n, gain, o, v : gain \in Nat /\ Spends(m, n, gain) => Spends(m, merge_decls(n, o, v), gain)
BY MergeSpends, SpendsOn

\* Typedefs may enter the scope after it.
LEMMA SpendsInserted == \A m, n, gain, names : gain \in Nat /\ Spends(m, n, gain) => Spends(m, Inserted(n, names), gain)
BY InsertedSpends, SpendsOn

\* The step that takes a token leaves 79 of it.
LEMMA TakePays == \A m : m.current # None => Spends(m, Take(m), 79)
BY TakeSpends, SpendsLess

\* panic consumes a token where one is left.
LEMMA PanicPays == \A m : Left(m) # 0 => Spends(m, panic(m), 79)
BY PanicSpends

\* Doing nothing spends nothing, for every parser.
LEMMA SpendsNone == \A m : Spends(m, m, 0)
BY SpendsReflexive

\* an error that is reported is returned later
LEMMA ReportSpends == ASSUME NEW m, NEW n, NEW err, NEW gain \in Nat, Spends(m, n, gain + 1) PROVE Spends(m, Report(n, err), gain)
<1> DEFINE p == Report(n, err)
<1>1. SUFFICES ASSUME Sound(m) PROVE Spends(m, p, gain) BY DEF Spends
<1>2. Sound(n) /\ n.stack = m.stack /\ n.failed = m.failed /\ Left(n) <= Left(m) /\ Owed(n) + (gain + 1) <= Owed(m)
      BY <1>1 DEF Spends
<1>3. Good(p) BY <1>2, ReportOnward DEF Sound, Onward
<1>4. /\ p.errors = Append(n.errors, err) /\ p.stack = n.stack /\ p.failed = n.failed /\ p.pending = n.pending
      /\ p.tokens = n.tokens /\ p.read = n.read /\ p.current = n.current /\ p.next = n.next
  <2>1. DOMAIN n = Fields BY <1>2 DEF Sound, Good, Placed
  <2>2. QED BY <2>1, FieldsAre DEF Report
<1> HIDE DEF p
<1>5. Listed(p.errors) /\ Len(p.errors) = Len(n.errors) + 1 BY <1>2, <1>4, ListedAppend DEF Sound
<1>6. Sound(p) BY <1>2, <1>3, <1>4, <1>5 DEF Sound
<1>7. Left(p) = Left(n) BY <1>4 DEF Left
<1>8. Owed(p) = Owed(n) + 1
  <2> DEFINE a == Len(n.errors)
             b == Len(n.pending)
  <2>1. Owed(n) = 80 * Left(n) + a + b /\ Left(n) \in Nat /\ a \in Nat /\ b \in Nat BY <1>2, OwedIs
  <2>2. Owed(p) = 80 * Left(n) + (a + 1) + b BY <1>4, <1>5, <1>6, <1>7, OwedIs
  <2> HIDE DEF a, b
  <2>3. QED BY <2>1, <2>2
<1>9. Owed(n) \in Nat /\ Owed(m) \in Nat BY <1>1, <1>2, OwedIs
<1>10. Owed(p) + gain <= Owed(m) BY <1>2, <1>8, <1>9
<1>11. QED BY <1>2, <1>4, <1>6, <1>7, <1>10 DEF Spends

-----------------------------------------------------------------------------
(* What is owed to a token that is still to come *)

\* the tasks that may end without a token
Transparent == {"semicolons", "expect", "specifiers", "declarators", "declarator", "direct_declarator", "postfix_type", "drop",
                "named_member", "bitfield", "build", "append"}
\* those that do not: in a block a statement consumes one, or its error does
Needs(t, nested) ==
  \/ t.f \in {"external_declaration", "declared", "struct_declarators", "more_declarators"}
  \/ t.f \in {"declarator", "direct_declarator"} /\ t.x = ""
  \/ nested /\ t.f \in {"statement", "any_statement", "unary", "operator", "primary"}
Leaves == {"operator", "primary"}

HasBlock(s) == \E i \in DOMAIN s : s[i].f = "block"
Open(s) == \A i \in DOMAIN s : s[i].f \in Transparent
\* what is next on the stack does not end without a token
Reaches(s, nested) == \E i \in DOMAIN s : Needs(s[i], nested) /\ \A j \in 1..(i - 1) : s[j].f \in Transparent

\* A block in two lists is in one of them.
LEMMA HasBlockJoin == ASSUME NEW s, NEW t, Listed(s), Listed(t) PROVE HasBlock(s \o t) <=> HasBlock(s) \/ HasBlock(t)
<1> DEFINE a == s \o t
<1>1. /\ Listed(a) /\ Len(a) = Len(s) + Len(t)
      /\ \A i \in 1..Len(s) : a[i] = s[i]
      /\ \A i \in 1..Len(t) : a[Len(s) + i] = t[i]
  BY ListedJoin
<1> HIDE DEF a
<1>2. Len(s) \in Nat /\ DOMAIN s = 1..Len(s) /\ Len(t) \in Nat /\ DOMAIN t = 1..Len(t) /\ DOMAIN a = 1..(Len(s) + Len(t))
      BY <1>1, ListedIs
<1>3. ASSUME HasBlock(s) PROVE HasBlock(a)
  <2>1. PICK i \in DOMAIN s : s[i].f = "block" BY <1>3 DEF HasBlock
  <2>2. i \in DOMAIN a /\ a[i] = s[i] BY <1>1, <1>2
  <2>3. QED BY <2>1, <2>2 DEF HasBlock
<1>4. ASSUME HasBlock(t) PROVE HasBlock(a)
  <2>1. PICK i \in DOMAIN t : t[i].f = "block" BY <1>4 DEF HasBlock
  <2>2. Len(s) + i \in DOMAIN a /\ a[Len(s) + i] = t[i] BY <1>1, <1>2
  <2>3. QED BY <2>1, <2>2 DEF HasBlock
<1>5. ASSUME HasBlock(a) PROVE HasBlock(s) \/ HasBlock(t)
  <2>1. PICK i \in DOMAIN a : a[i].f = "block" BY <1>5 DEF HasBlock
  <2>2. CASE i <= Len(s)
    <3>1. i \in DOMAIN s /\ a[i] = s[i] BY <1>1, <1>2, <2>2
    <3>2. QED BY <2>1, <3>1 DEF HasBlock
  <2>3. CASE i > Len(s)
    <3> DEFINE j == i - Len(s)
    <3>1. j \in DOMAIN t /\ i = Len(s) + j BY <1>2, <2>3
    <3>2. a[i] = t[j] BY <1>1, <1>2, <3>1
    <3> HIDE DEF j
    <3>3. QED BY <2>1, <3>1, <3>2 DEF HasBlock
  <2>4. QED BY <1>2, <2>2, <2>3
<1>6. QED BY <1>3, <1>4, <1>5 DEF a

\* What reaches a token does so in front of anything, and behind what may end without one.
LEMMA ReachesJoin ==
  ASSUME NEW s, NEW t, Listed(s), Listed(t), NEW nested, Reaches(s, nested) \/ (Open(s) /\ Reaches(t, nested))
  PROVE  Reaches(s \o t, nested)
<1> DEFINE a == s \o t
<1>1. /\ Listed(a) /\ Len(a) = Len(s) + Len(t)
      /\ \A i \in 1..Len(s) : a[i] = s[i]
      /\ \A i \in 1..Len(t) : a[Len(s) + i] = t[i]
  BY ListedJoin
<1> HIDE DEF a
<1>2. Len(s) \in Nat /\ DOMAIN s = 1..Len(s) /\ Len(t) \in Nat /\ DOMAIN t = 1..Len(t) /\ DOMAIN a = 1..(Len(s) + Len(t))
      BY <1>1, ListedIs
<1>3. CASE Reaches(s, nested)
  <2>1. PICK i \in DOMAIN s : Needs(s[i], nested) /\ \A j \in 1..(i - 1) : s[j].f \in Transparent
        BY <1>3 DEF Reaches
  <2>2. i \in DOMAIN a /\ a[i] = s[i] BY <1>1, <1>2
  <2>3. \A j \in 1..(i - 1) : a[j] = s[j] BY <1>1, <1>2
  <2>4. QED BY <2>1, <2>2, <2>3 DEF Reaches, a
<1>4. CASE Open(s) /\ Reaches(t, nested)
  <2>1. PICK i \in DOMAIN t : Needs(t[i], nested) /\ \A j \in 1..(i - 1) : t[j].f \in Transparent
        BY <1>4 DEF Reaches
  <2> DEFINE k == Len(s) + i
  <2>2. k \in DOMAIN a /\ a[k] = t[i] BY <1>1, <1>2
  <2>3. \A j \in 1..(k - 1) : a[j].f \in Transparent
    <3>1. SUFFICES ASSUME NEW j \in 1..(k - 1) PROVE a[j].f \in Transparent OBVIOUS
    <3>2. CASE j <= Len(s)
      <4>1. j \in DOMAIN s /\ a[j] = s[j] BY <1>1, <1>2, <3>2
      <4>2. QED BY <1>4, <4>1 DEF Open
    <3>3. CASE j > Len(s)
      <4> DEFINE l == j - Len(s)
      <4>1. l \in 1..(i - 1) /\ l \in 1..Len(t) /\ j = Len(s) + l BY <1>2, <3>3
      <4>2. a[j] = t[l] BY <1>1, <4>1
      <4> HIDE DEF l
      <4>3. QED BY <2>1, <4>1, <4>2
    <3>4. QED BY <1>2, <3>2, <3>3
  <2> HIDE DEF k
  <2>4. QED BY <2>1, <2>2, <2>3 DEF Reaches, a
<1>5. QED BY <1>3, <1>4

\* A task in front of a list.
LEMMA HeadOf == ASSUME NEW t, NEW s, Listed(s) PROVE LET a == <<t>> \o s IN a # <<>> /\ Listed(a) /\ a[1] = t /\ Head(a) = t /\ Tail(a) = s
<1> DEFINE S == {s[i] : i \in DOMAIN s} \cup {t}
           a == <<t>> \o s
<1>1. s \in Seq(S) /\ <<t>> \in Seq(S) /\ Len(<<t>>) = 1 BY DEF Listed
<1> HIDE DEF S
<1>2. a \in Seq(S) /\ Len(a) = Len(s) + 1 /\ a[1] = t /\ \A i \in 1..Len(s) : a[i + 1] = s[i] BY <1>1
<1>3. Len(s) \in Nat BY <1>1
<1> HIDE DEF a
<1>4. a # <<>> BY <1>2, <1>3
<1>5. Head(a) = t BY <1>2, <1>4
<1>6. Tail(a) = s
  <2>1. Tail(a) \in Seq(S) /\ Len(Tail(a)) = Len(s) /\ \A i \in 1..Len(s) : Tail(a)[i] = a[i + 1]
        BY <1>2, <1>3, <1>4
  <2>2. DOMAIN Tail(a) = 1..Len(s) /\ DOMAIN s = 1..Len(s) BY <1>1, <2>1
  <2> DEFINE b == Tail(a)
  <2> HIDE DEF b
  <2>3. \A i \in 1..Len(s) : b[i] = s[i] BY <1>2, <2>1 DEF b
  <2>4. b \in Seq(S) /\ Len(b) = Len(s) BY <2>1 DEF b
  <2>5. b = s BY <1>1, <1>3, <2>3, <2>4, SeqEqual
  <2>6. QED BY <2>5 DEF b
<1>7. Listed(a)
  <2>1. a \in Seq({a[i] : i \in DOMAIN a}) BY <1>2
  <2>2. QED BY <2>1 DEF Listed
<1>8. QED BY <1>2, <1>4, <1>5, <1>6, <1>7 DEF a

\* What reaches a token does so with its first task or behind it.
LEMMA HeadReaches ==
  ASSUME NEW s, Listed(s), s # <<>>, NEW nested, Reaches(s, nested)
  PROVE  Needs(Head(s), nested) \/ (Head(s).f \in Transparent /\ Reaches(Tail(s), nested))
<1> DEFINE t == Tail(s)
<1>1. Listed(t) /\ Len(t) = Len(s) - 1 /\ Len(s) >= 1 /\ (\A i \in 1..(Len(s) - 1) : t[i] = s[i + 1]) /\ Head(s) = s[1]
      BY ListedTail
<1>2. Len(s) \in Nat /\ DOMAIN s = 1..Len(s) /\ DOMAIN t = 1..(Len(s) - 1) BY <1>1, ListedIs
<1> HIDE DEF t
<1>3. PICK i \in DOMAIN s : Needs(s[i], nested) /\ \A j \in 1..(i - 1) : s[j].f \in Transparent BY DEF Reaches
<1>4. CASE i = 1 BY <1>1, <1>3, <1>4
<1>5. CASE i # 1
  <2> DEFINE k == i - 1
  <2>1. k \in DOMAIN t /\ t[k] = s[i] BY <1>1, <1>2, <1>5
  <2>2. \A j \in 1..(k - 1) : t[j] = s[j + 1] /\ j + 1 \in 1..(i - 1) BY <1>1, <1>2
  <2>3. \A j \in 1..(k - 1) : t[j].f \in Transparent BY <1>3, <2>2
  <2>4. 1 \in 1..(i - 1) BY <1>2, <1>5
  <2> HIDE DEF k
  <2>5. Reaches(t, nested) BY <1>3, <2>1, <2>3 DEF Reaches
  <2>6. QED BY <1>1, <1>3, <2>4, <2>5 DEF t
<1>6. QED BY <1>4, <1>5

\* A block is the first task or behind it.
LEMMA HeadBlock == ASSUME NEW s, Listed(s), s # <<>> PROVE HasBlock(s) <=> Head(s).f = "block" \/ HasBlock(Tail(s))
<1> DEFINE t == Tail(s)
<1>1. Listed(t) /\ Len(t) = Len(s) - 1 /\ Len(s) >= 1 /\ (\A i \in 1..(Len(s) - 1) : t[i] = s[i + 1]) /\ Head(s) = s[1]
      BY ListedTail
<1>2. Len(s) \in Nat /\ DOMAIN s = 1..Len(s) /\ DOMAIN t = 1..(Len(s) - 1) BY <1>1, ListedIs
<1> HIDE DEF t
<1>3. ASSUME HasBlock(s) PROVE s[1].f = "block" \/ HasBlock(t)
  <2>1. PICK i \in DOMAIN s : s[i].f = "block" BY <1>3 DEF HasBlock
  <2>2. CASE i = 1 BY <2>1, <2>2
  <2>3. CASE i # 1
    <3> DEFINE k == i - 1
    <3>1. k \in DOMAIN t /\ t[k] = s[i] BY <1>1, <1>2, <2>3
    <3> HIDE DEF k
    <3>2. QED BY <2>1, <3>1 DEF HasBlock
  <2>4. QED BY <2>2, <2>3
<1>4. ASSUME HasBlock(t) PROVE HasBlock(s)
  <2>1. PICK i \in DOMAIN t : t[i].f = "block" BY <1>4 DEF HasBlock
  <2> DEFINE k == i + 1
  <2>2. k \in DOMAIN s /\ s[k] = t[i] BY <1>1, <1>2
  <2> HIDE DEF k
  <2>3. QED BY <2>1, <2>2 DEF HasBlock
<1>5. s[1].f = "block" => HasBlock(s)
  <2>1. 1 \in DOMAIN s BY <1>1, <1>2
  <2>2. QED BY <2>1 DEF HasBlock
<1>6. QED BY <1>1, <1>3, <1>4, <1>5 DEF t

-----------------------------------------------------------------------------
(* The price of a list of tasks *)

\* what a function pushes: no block, and what it costs
Plan(s, c) == Costs(s, c) /\ ~HasBlock(s)
Priced(t, c) == t.errs = <<>> /\ t.f # "block" /\ Cost(t.f) = c

\* Nothing is a plan that costs nothing.
LEMMA PlanNone == Plan(<<>>, 0)
<1>1. Costs(<<>>, 0) BY CostsNone
<1>2. ~HasBlock(<<>>) BY DEF HasBlock
<1>3. QED BY <1>1, <1>2 DEF Plan

\* Two plans are a plan.
LEMMA PlanJoin == ASSUME NEW s, NEW t, NEW c, NEW d, Plan(s, c), Plan(t, d) PROVE Plan(s \o t, c + d)
<1>1. Costs(s \o t, c + d) BY CostsJoin DEF Plan
<1>2. Listed(s) /\ Listed(t) BY DEF Plan, Costs
<1>3. QED BY <1>1, <1>2, HasBlockJoin DEF Plan

\* What a task that keeps no errors weighs.
LEMMA PricedNat == ASSUME NEW t, NEW c, Priced(t, c) PROVE c \in 1..21 /\ Listed(t.errs) /\ Weight(t) = c
<1>1. c \in 1..21 BY CostIs DEF Priced
<1>2. t.errs = <<>> /\ Cost(t.f) = c BY DEF Priced
<1>3. Listed(<<>>) /\ Len(<<>>) = 0 BY CostsNone
<1>4. Weight(t) = c + 0 BY <1>2, <1>3 DEF Weight
<1>5. QED BY <1>1, <1>2, <1>3, <1>4

\* A plan of one task.
LEMMA Plan1 == ASSUME NEW a, NEW i, Priced(a, i) PROVE Plan(<<a>>, i)
<1>1. Costs(<<a>>, i) BY PricedNat, CostsOne
<1>2. ~HasBlock(<<a>>)
  <2>1. DOMAIN <<a>> = {1} /\ <<a>>[1] = a OBVIOUS
  <2>2. QED BY <2>1 DEF HasBlock, Priced
<1>3. QED BY <1>1, <1>2 DEF Plan

\* Two tasks as a list in front of another.
LEMMA Join2 == ASSUME NEW a, NEW b PROVE <<a, b>> = <<a>> \o <<b>>
<1> DEFINE S == {a, b}
           p == <<a>>
           q == <<b>>
           s == <<a, b>>
<1>1. p \in Seq(S) /\ Len(p) = 1 /\ p[1] = a /\ q \in Seq(S) /\ Len(q) = 1 /\ q[1] = b /\ s \in Seq(S) /\ Len(s) = 2 /\ s[1] = a /\ s[2] = b OBVIOUS
<1> HIDE DEF p, q, s, S
<1> DEFINE r == p \o q
<1>6. /\ r \in Seq(S) /\ Len(r) = Len(p) + Len(q)
      /\ \A i \in 1..Len(p) : r[i] = p[i]
      /\ \A i \in 1..Len(q) : r[Len(p) + i] = q[i]
  <2>1. p \in Seq(S) /\ q \in Seq(S) BY <1>1
  <2>2. Listed(p) /\ Listed(q) BY <2>1 DEF Listed
  <2>3. r \in Seq(S) BY <2>1
  <2>4. QED BY <2>2, <2>3, ListedJoin
<1> HIDE DEF r
<1>7. r[1] = a BY <1>1, <1>6
<1>8. r[1 + 1] = b BY <1>1, <1>6
<1>2. p \o q \in Seq(S) /\ Len(p \o q) = 2 /\ (p \o q)[1] = a /\ (p \o q)[2] = b
      BY <1>1, <1>6, <1>7, <1>8 DEF r
<1>3. \A i \in 1..2 : (p \o q)[i] = s[i] BY <1>1, <1>2
<1>4. s = p \o q BY <1>1, <1>2, <1>3, SeqEqual
<1>5. QED BY <1>4 DEF p, q, s

\* Three tasks.
LEMMA Join3 == ASSUME NEW a, NEW b, NEW c PROVE <<a, b, c>> = <<a>> \o <<b, c>>
<1> DEFINE S == {a, b, c}
<1>1. <<a>> \in Seq(S) /\ <<b, c>> \in Seq(S) /\ <<a, b, c>> \in Seq(S) OBVIOUS
<1>2. QED BY <1>1

\* Four tasks.
LEMMA Join4 == ASSUME NEW a, NEW b, NEW c, NEW d PROVE <<a, b, c, d>> = <<a, b>> \o <<c, d>>
<1> DEFINE S == {a, b, c, d}
<1>1. <<a, b>> \in Seq(S) /\ <<c, d>> \in Seq(S) /\ <<a, b, c, d>> \in Seq(S) OBVIOUS
<1>2. QED BY <1>1

\* Five tasks.
LEMMA Join5 == ASSUME NEW a, NEW b, NEW c, NEW d, NEW e PROVE <<a, b, c, d, e>> = <<a, b>> \o <<c, d, e>>
<1> DEFINE S == {a, b, c, d, e}
<1>1. <<a, b>> \in Seq(S) /\ <<c, d, e>> \in Seq(S) /\ <<a, b, c, d, e>> \in Seq(S) OBVIOUS
<1>2. QED BY <1>1

\* Six tasks.
LEMMA Join6 == ASSUME NEW a, NEW b, NEW c, NEW d, NEW e, NEW f PROVE <<a, b, c, d, e, f>> = <<a, b, c>> \o <<d, e, f>>
<1> DEFINE S == {a, b, c, d, e, f}
<1>1. <<a, b, c>> \in Seq(S) /\ <<d, e, f>> \in Seq(S) /\ <<a, b, c, d, e, f>> \in Seq(S) OBVIOUS
<1>2. QED BY <1>1

\* A plan of two tasks.
LEMMA Plan2 == ASSUME NEW a, NEW b, NEW i, NEW j, Priced(a, i), Priced(b, j) PROVE Plan(<<a, b>>, i + j)
<1>1. Plan(<<a>>, i) /\ Plan(<<b>>, j) BY Plan1
<1>2. Plan(<<a>> \o <<b>>, i + j) BY <1>1, PlanJoin
<1>3. QED BY <1>2, Join2

\* A plan of three tasks.
LEMMA Plan3 ==
  ASSUME NEW a, NEW b, NEW c, NEW i, NEW j, NEW k, Priced(a, i), Priced(b, j), Priced(c, k)
  PROVE  Plan(<<a, b, c>>, i + (j + k))
<1>1. Plan(<<a>>, i) /\ Plan(<<b, c>>, j + k) BY Plan1, Plan2
<1>2. Plan(<<a>> \o <<b, c>>, i + (j + k)) BY <1>1, PlanJoin
<1>3. QED BY <1>2, Join3

\* A plan with one more task.
LEMMA PlanAppend == ASSUME NEW s, NEW c, NEW t, NEW i, Plan(s, c), Priced(t, i) PROVE Plan(Append(s, t), c + i)
<1>1. Plan(s \o <<t>>, c + i) BY Plan1, PlanJoin
<1>2. Append(s, t) = s \o <<t>>
  <2> DEFINE S == {s[k] : k \in DOMAIN s} \cup {t}
  <2>1. s \in Seq(S) BY DEF Plan, Costs, Listed
  <2>2. QED BY <2>1
<1>3. QED BY <1>1, <1>2

\* What each task costs.
LEMMA CostTable ==
  /\ Cost("aggregate") = 18 /\ Cost("any_statement") = 19 /\ Cost("append") = 1 /\ Cost("binary_expr") = 3 /\ Cost("bitfield") = 1
  /\ Cost("block") = 2 /\ Cost("build") = 1 /\ Cost("cast") = 8 /\ Cost("declarator") = 5 /\ Cost("declarators") = 1
  /\ Cost("declared") = 13 /\ Cost("definition") = 3 /\ Cost("direct_declarator") = 3 /\ Cost("drop") = 1 /\ Cost("elements") = 15
  /\ Cost("else") = 1 /\ Cost("enum") = 1 /\ Cost("enum_value") = 1 /\ Cost("enumerators") = 10 /\ Cost("expect") = 3
  /\ Cost("expect_id") = 3 /\ Cost("expr_opt") = 13 /\ Cost("external_declaration") = 15 /\ Cost("first_argument") = 14 /\ Cost("first_parameter") = 18
  /\ Cost("for") = 19 /\ Cost("function") = 5 /\ Cost("initial") = 1 /\ Cost("initializer") = 10 /\ Cost("into_declaration") = 3
  /\ Cost("members") = 1 /\ Cost("merge") = 1 /\ Cost("more") = 1 /\ Cost("more_arguments") = 3 /\ Cost("more_declarators") = 3
  /\ Cost("more_elements") = 3 /\ Cost("more_enumerators") = 3 /\ Cost("more_parameters") = 5 /\ Cost("named_member") = 2 /\ Cost("operator") = 5
  /\ Cost("operators") = 1 /\ Cost("parameter") = 17 /\ Cost("parsed") = 2 /\ Cost("pointer") = 1 /\ Cost("postfix") = 1
  /\ Cost("postfix_type") = 1 /\ Cost("primary") = 3 /\ Cost("qualifiers") = 7 /\ Cost("semicolons") = 1 /\ Cost("specifiers") = 1
  /\ Cost("statement") = 21 /\ Cost("struct") = 1 /\ Cost("struct_declarators") = 14 /\ Cost("type") = 3 /\ Cost("type_name") = 10
  /\ Cost("unary") = 6
<1>1. Cost("aggregate") = 18 /\ Cost("any_statement") = 19 /\ Cost("append") = 1 /\ Cost("binary_expr") = 3 /\ Cost("bitfield") = 1
      BY DEF Cost
<1>2. Cost("block") = 2 /\ Cost("build") = 1 /\ Cost("cast") = 8 /\ Cost("declarator") = 5 /\ Cost("declarators") = 1
      BY DEF Cost
<1>3. Cost("declared") = 13 /\ Cost("definition") = 3 /\ Cost("direct_declarator") = 3 /\ Cost("drop") = 1 /\ Cost("elements") = 15
      BY DEF Cost
<1>4. Cost("else") = 1 /\ Cost("enum") = 1 /\ Cost("enum_value") = 1 /\ Cost("enumerators") = 10 /\ Cost("expect") = 3
      BY DEF Cost
<1>5. Cost("expect_id") = 3 /\ Cost("expr_opt") = 13 /\ Cost("external_declaration") = 15 /\ Cost("first_argument") = 14 /\ Cost("first_parameter") = 18
      BY DEF Cost
<1>6. Cost("for") = 19 /\ Cost("function") = 5 /\ Cost("initial") = 1 /\ Cost("initializer") = 10 /\ Cost("into_declaration") = 3
      BY DEF Cost
<1>7. Cost("members") = 1 /\ Cost("merge") = 1 /\ Cost("more") = 1 /\ Cost("more_arguments") = 3 /\ Cost("more_declarators") = 3
      BY DEF Cost
<1>8. Cost("more_elements") = 3 /\ Cost("more_enumerators") = 3 /\ Cost("more_parameters") = 5 /\ Cost("named_member") = 2 /\ Cost("operator") = 5
      BY DEF Cost
<1>9. Cost("operators") = 1 /\ Cost("parameter") = 17 /\ Cost("parsed") = 2 /\ Cost("pointer") = 1 /\ Cost("postfix") = 1
      BY DEF Cost
<1>10. Cost("postfix_type") = 1 /\ Cost("primary") = 3 /\ Cost("qualifiers") = 7 /\ Cost("semicolons") = 1 /\ Cost("specifiers") = 1
      BY DEF Cost
<1>11. Cost("statement") = 21 /\ Cost("struct") = 1 /\ Cost("struct_declarators") = 14 /\ Cost("type") = 3 /\ Cost("type_name") = 10
      BY DEF Cost
<1>12. Cost("unary") = 6 BY DEF Cost
<1>13. QED BY <1>1, <1>2, <1>3, <1>4, <1>5, <1>6, <1>7, <1>8, <1>9, <1>10, <1>11, <1>12

\* the records that the functions push
LEMMA PricedTask ==
  ASSUME NEW f, f # "block"
  PROVE  Priced(Task(f), Cost(f)) /\ \A x, n : Priced(With(f, x, n), Cost(f))
<1>1. Task(f).errs = <<>> /\ Task(f).f = f BY DEF Task
<1>2. \A x, n : With(f, x, n).errs = <<>> /\ With(f, x, n).f = f BY DEF With, Task
<1>3. QED BY <1>1, <1>2 DEF Priced

\* The tasks with a node to build or a token to expect.
LEMMA PricedOthers == \A o, v, n, k : Priced(Build(o, v, n), 1) /\ Priced(Expect(k), 3) /\ Priced([With("merge", o, n) EXCEPT !.v = v], 1)
<1>1. Cost("build") = 1 /\ Cost("expect") = 3 /\ Cost("merge") = 1 BY CostTable
<1>2. \A o, v, n : Build(o, v, n).errs = <<>> /\ Build(o, v, n).f = "build" BY DEF Build, With, Task
<1>3. \A k : Expect(k).errs = <<>> /\ Expect(k).f = "expect" BY DEF Expect, With, Task
<1>4. \A o, v, n : [With("merge", o, n) EXCEPT !.v = v].errs = <<>> /\ [With("merge", o, n) EXCEPT !.v = v].f = "merge"
      BY DEF With, Task
<1>5. QED BY <1>1, <1>2, <1>3, <1>4 DEF Priced

\* All the others that the functions push.
LEMMA Prices ==
  \A x, n :
    /\ Priced(Task("aggregate"), 18) /\ Priced(Task("any_statement"), 19) /\ Priced(Task("append"), 1) /\ Priced(Task("bitfield"), 1)
    /\ Priced(Task("declarators"), 1) /\ Priced(Task("declared"), 13) /\ Priced(Task("definition"), 3) /\ Priced(Task("elements"), 15)
    /\ Priced(Task("else"), 1) /\ Priced(Task("enum"), 1) /\ Priced(Task("enum_value"), 1) /\ Priced(Task("enumerators"), 10)
    /\ Priced(Task("expect_id"), 3) /\ Priced(Task("external_declaration"), 15) /\ Priced(Task("first_argument"), 14) /\ Priced(Task("first_parameter"), 18)
    /\ Priced(Task("for"), 19) /\ Priced(Task("function"), 5) /\ Priced(Task("initial"), 1) /\ Priced(Task("initializer"), 10)
    /\ Priced(Task("into_declaration"), 3) /\ Priced(Task("members"), 1) /\ Priced(Task("more"), 1) /\ Priced(Task("more_arguments"), 3)
    /\ Priced(Task("more_declarators"), 3) /\ Priced(Task("more_elements"), 3) /\ Priced(Task("more_enumerators"), 3) /\ Priced(Task("more_parameters"), 5)
    /\ Priced(Task("named_member"), 2) /\ Priced(Task("operator"), 5) /\ Priced(Task("parameter"), 17) /\ Priced(Task("parsed"), 2)
    /\ Priced(Task("pointer"), 1) /\ Priced(Task("postfix"), 1) /\ Priced(Task("primary"), 3) /\ Priced(Task("semicolons"), 1)
    /\ Priced(Task("statement"), 21) /\ Priced(Task("struct_declarators"), 14) /\ Priced(Task("type"), 3) /\ Priced(Task("type_name"), 10)
    /\ Priced(Task("unary"), 6) /\ Priced(With("merge", x, n), 1) /\ Priced(With("binary_expr", x, n), 3) /\ Priced(With("operators", x, n), 1)
    /\ Priced(With("cast", x, n), 8) /\ Priced(With("specifiers", x, n), 1) /\ Priced(With("struct", x, n), 1) /\ Priced(With("declarator", x, n), 5)
    /\ Priced(With("direct_declarator", x, n), 3) /\ Priced(With("qualifiers", x, n), 7) /\ Priced(With("postfix_type", x, n), 1) /\ Priced(With("expr_opt", x, n), 13)
    /\ Priced(With("drop", x, n), 1)
<1>1. SUFFICES ASSUME NEW x, NEW n PROVE
    /\ Priced(Task("aggregate"), 18) /\ Priced(Task("any_statement"), 19) /\ Priced(Task("append"), 1) /\ Priced(Task("bitfield"), 1)
    /\ Priced(Task("declarators"), 1) /\ Priced(Task("declared"), 13) /\ Priced(Task("definition"), 3) /\ Priced(Task("elements"), 15)
    /\ Priced(Task("else"), 1) /\ Priced(Task("enum"), 1) /\ Priced(Task("enum_value"), 1) /\ Priced(Task("enumerators"), 10)
    /\ Priced(Task("expect_id"), 3) /\ Priced(Task("external_declaration"), 15) /\ Priced(Task("first_argument"), 14) /\ Priced(Task("first_parameter"), 18)
    /\ Priced(Task("for"), 19) /\ Priced(Task("function"), 5) /\ Priced(Task("initial"), 1) /\ Priced(Task("initializer"), 10)
    /\ Priced(Task("into_declaration"), 3) /\ Priced(Task("members"), 1) /\ Priced(Task("more"), 1) /\ Priced(Task("more_arguments"), 3)
    /\ Priced(Task("more_declarators"), 3) /\ Priced(Task("more_elements"), 3) /\ Priced(Task("more_enumerators"), 3) /\ Priced(Task("more_parameters"), 5)
    /\ Priced(Task("named_member"), 2) /\ Priced(Task("operator"), 5) /\ Priced(Task("parameter"), 17) /\ Priced(Task("parsed"), 2)
    /\ Priced(Task("pointer"), 1) /\ Priced(Task("postfix"), 1) /\ Priced(Task("primary"), 3) /\ Priced(Task("semicolons"), 1)
    /\ Priced(Task("statement"), 21) /\ Priced(Task("struct_declarators"), 14) /\ Priced(Task("type"), 3) /\ Priced(Task("type_name"), 10)
    /\ Priced(Task("unary"), 6) /\ Priced(With("merge", x, n), 1) /\ Priced(With("binary_expr", x, n), 3) /\ Priced(With("operators", x, n), 1)
    /\ Priced(With("cast", x, n), 8) /\ Priced(With("specifiers", x, n), 1) /\ Priced(With("struct", x, n), 1) /\ Priced(With("declarator", x, n), 5)
    /\ Priced(With("direct_declarator", x, n), 3) /\ Priced(With("qualifiers", x, n), 7) /\ Priced(With("postfix_type", x, n), 1) /\ Priced(With("expr_opt", x, n), 13)
    /\ Priced(With("drop", x, n), 1)
  OBVIOUS
<1>2. Priced(Task("aggregate"), 18) /\ Priced(Task("any_statement"), 19) /\ Priced(Task("append"), 1) /\ Priced(Task("bitfield"), 1)
      BY PricedTask, CostTable
<1>3. Priced(Task("declarators"), 1) /\ Priced(Task("declared"), 13) /\ Priced(Task("definition"), 3) /\ Priced(Task("elements"), 15)
      BY PricedTask, CostTable
<1>4. Priced(Task("else"), 1) /\ Priced(Task("enum"), 1) /\ Priced(Task("enum_value"), 1) /\ Priced(Task("enumerators"), 10)
      BY PricedTask, CostTable
<1>5. Priced(Task("expect_id"), 3) /\ Priced(Task("external_declaration"), 15) /\ Priced(Task("first_argument"), 14) /\ Priced(Task("first_parameter"), 18)
      BY PricedTask, CostTable
<1>6. Priced(Task("for"), 19) /\ Priced(Task("function"), 5) /\ Priced(Task("initial"), 1) /\ Priced(Task("initializer"), 10)
      BY PricedTask, CostTable
<1>7. Priced(Task("into_declaration"), 3) /\ Priced(Task("members"), 1) /\ Priced(Task("more"), 1) /\ Priced(Task("more_arguments"), 3)
      BY PricedTask, CostTable
<1>8. Priced(Task("more_declarators"), 3) /\ Priced(Task("more_elements"), 3) /\ Priced(Task("more_enumerators"), 3) /\ Priced(Task("more_parameters"), 5)
      BY PricedTask, CostTable
<1>9. Priced(Task("named_member"), 2) /\ Priced(Task("operator"), 5) /\ Priced(Task("parameter"), 17) /\ Priced(Task("parsed"), 2)
      BY PricedTask, CostTable
<1>10. Priced(Task("pointer"), 1) /\ Priced(Task("postfix"), 1) /\ Priced(Task("primary"), 3) /\ Priced(Task("semicolons"), 1)
      BY PricedTask, CostTable
<1>11. Priced(Task("statement"), 21) /\ Priced(Task("struct_declarators"), 14) /\ Priced(Task("type"), 3) /\ Priced(Task("type_name"), 10)
      BY PricedTask, CostTable
<1>12. Priced(Task("unary"), 6) /\ Priced(With("merge", x, n), 1) /\ Priced(With("binary_expr", x, n), 3) /\ Priced(With("operators", x, n), 1)
      BY PricedTask, CostTable
<1>13. Priced(With("cast", x, n), 8) /\ Priced(With("specifiers", x, n), 1) /\ Priced(With("struct", x, n), 1) /\ Priced(With("declarator", x, n), 5)
      BY PricedTask, CostTable
<1>14. Priced(With("direct_declarator", x, n), 3) /\ Priced(With("qualifiers", x, n), 7) /\ Priced(With("postfix_type", x, n), 1) /\ Priced(With("expr_opt", x, n), 13)
      BY PricedTask, CostTable
<1>15. Priced(With("drop", x, n), 1) BY PricedTask, CostTable
<1>16. QED BY <1>2, <1>3, <1>4, <1>5, <1>6, <1>7, <1>8, <1>9, <1>10, <1>11, <1>12, <1>13, <1>14, <1>15

\* A plan of four tasks.
LEMMA Plan4 ==
  ASSUME NEW a, NEW b, NEW c, NEW d, NEW i, NEW j, NEW k, NEW l, Priced(a, i), Priced(b, j), Priced(c, k), Priced(d, l)
  PROVE  Plan(<<a, b, c, d>>, (i + j) + (k + l))
<1>1. Plan(<<a, b>>, i + j) /\ Plan(<<c, d>>, k + l) BY Plan2
<1>2. Plan(<<a, b>> \o <<c, d>>, (i + j) + (k + l)) BY <1>1, PlanJoin
<1>3. <<a, b, c, d>> = <<a, b>> \o <<c, d>> BY Join4
<1>4. QED BY <1>2, <1>3, Zenon

\* A plan of five tasks.
LEMMA Plan5 ==
  ASSUME NEW a, NEW b, NEW c, NEW d, NEW e, NEW i, NEW j, NEW k, NEW l, NEW m,
         Priced(a, i), Priced(b, j), Priced(c, k), Priced(d, l), Priced(e, m)
  PROVE  Plan(<<a, b, c, d, e>>, (i + j) + (k + (l + m)))
<1>1. Plan(<<a, b>>, i + j) /\ Plan(<<c, d, e>>, k + (l + m)) BY Plan2, Plan3
<1>2. Plan(<<a, b>> \o <<c, d, e>>, (i + j) + (k + (l + m))) BY <1>1, PlanJoin
<1>3. <<a, b, c, d, e>> = <<a, b>> \o <<c, d, e>> BY Join5
<1>4. QED BY <1>2, <1>3, Zenon

\* A plan of six tasks.
LEMMA Plan6 ==
  ASSUME NEW a, NEW b, NEW c, NEW d, NEW e, NEW f, NEW i, NEW j, NEW k, NEW l, NEW m, NEW n,
         Priced(a, i), Priced(b, j), Priced(c, k), Priced(d, l), Priced(e, m), Priced(f, n)
  PROVE  Plan(<<a, b, c, d, e, f>>, (i + (j + k)) + (l + (m + n)))
<1>1. Plan(<<a, b, c>>, i + (j + k)) /\ Plan(<<d, e, f>>, l + (m + n)) BY Plan3
<1>2. Plan(<<a, b, c>> \o <<d, e, f>>, (i + (j + k)) + (l + (m + n))) BY <1>1, PlanJoin
<1>3. <<a, b, c, d, e, f>> = <<a, b, c>> \o <<d, e, f>> BY Join6
<1>4. QED BY <1>2, <1>3, Zenon

-----------------------------------------------------------------------------
(* What the functions push *)

\* parser/parse/expr.rs
LEMMA ExpressionPlans ==
  ASSUME NEW k, NEW n, NEW m
  PROVE  /\ Plan(expr, 9)
         /\ Plan(assignment_expr, 9)
         /\ Plan(ternary_expr, 9)
         /\ Plan(<<With("operators", "", n)>>, 1)
         /\ Plan(expr \o <<Expect(":"), Task("unary"), With("binary_expr", "", 2), Build("?", "", 3), With("operators", "", n)>>, 23)
         /\ Plan(<<Task("unary"), With("binary_expr", "", m), Build("binary", k, 2), With("operators", "", n)>>, 11)
         /\ Plan(<<Task("type_name"), Expect(")"), With("cast", "", n)>>, 21)
         /\ Plan(<<Task("operator")>>, 5)
         /\ Plan(<<Task("type_name"), Expect(")"), Build(k, "", 1), Task("postfix")>>, 15)
         /\ Plan(<<Task("unary"), Build(k, "", 1)>>, 7)
         /\ Plan(<<Task("unary"), Build("prefix", k, 1)>>, 7)
         /\ Plan(<<Task("unary"), Build("cast", "", 2)>>, 7)
         /\ Plan(<<Task("primary"), Task("postfix")>>, 4)
         /\ Plan(expr \o <<Expect(")")>>, 12)
         /\ Plan(<<Task("expect_id"), Build(k, "", 2)>>, 4)
         /\ Plan(<<Build("postfix", k, 1)>>, 1)
         /\ Plan(expr \o <<Expect("]"), Build("[", "", 2)>>, 13)
         /\ Plan(<<Task("first_argument"), Build("call", "", 2)>>, 15)
         /\ Plan(argument, 13)
<1>1. Plan(expr, 9)
  <2>1. Plan(<<Task("unary"), With("binary_expr", "", 0)>>, 9)
    <3>1. Priced(Task("unary"), 6) /\ Priced(With("binary_expr", "", 0), 3) BY Prices, PricedOthers
    <3>2. Plan(<<Task("unary"), With("binary_expr", "", 0)>>, 6 + 3) BY <3>1, Plan2, Zenon
    <3>3. 6 + 3 = 9 OBVIOUS
    <3>4. QED BY <3>2, <3>3, Zenon
  <2>2. QED BY <2>1 DEF expr
<1>2. Plan(assignment_expr, 9)
  <2>1. Plan(<<Task("unary"), With("binary_expr", "", 1)>>, 9)
    <3>1. Priced(Task("unary"), 6) /\ Priced(With("binary_expr", "", 1), 3) BY Prices, PricedOthers
    <3>2. Plan(<<Task("unary"), With("binary_expr", "", 1)>>, 6 + 3) BY <3>1, Plan2, Zenon
    <3>3. 6 + 3 = 9 OBVIOUS
    <3>4. QED BY <3>2, <3>3, Zenon
  <2>2. QED BY <2>1 DEF assignment_expr
<1>3. Plan(ternary_expr, 9)
  <2>1. Plan(<<Task("unary"), With("binary_expr", "", 2)>>, 9)
    <3>1. Priced(Task("unary"), 6) /\ Priced(With("binary_expr", "", 2), 3) BY Prices, PricedOthers
    <3>2. Plan(<<Task("unary"), With("binary_expr", "", 2)>>, 6 + 3) BY <3>1, Plan2, Zenon
    <3>3. 6 + 3 = 9 OBVIOUS
    <3>4. QED BY <3>2, <3>3, Zenon
  <2>2. QED BY <2>1 DEF ternary_expr
<1>4. Plan(<<With("operators", "", n)>>, 1)
  <2>1. Priced(With("operators", "", n), 1) BY Prices, PricedOthers
  <2>2. QED BY <2>1, Plan1
<1>5. Plan(expr \o <<Expect(":"), Task("unary"), With("binary_expr", "", 2), Build("?", "", 3), With("operators", "", n)>>, 23)
  <2>1. Plan(<<Expect(":"), Task("unary"), With("binary_expr", "", 2), Build("?", "", 3), With("operators", "", n)>>, 14)
    <3>1. Priced(Expect(":"), 3) /\ Priced(Task("unary"), 6) /\ Priced(With("binary_expr", "", 2), 3) /\ Priced(Build("?", "", 3), 1) /\ Priced(With("operators", "", n), 1)
          BY Prices, PricedOthers
    <3>2. Plan(<<Expect(":"), Task("unary"), With("binary_expr", "", 2), Build("?", "", 3), With("operators", "", n)>>, (3 + 6) + (3 + (1 + 1)))
          BY <3>1, Plan5, Zenon
    <3>3. (3 + 6) + (3 + (1 + 1)) = 14 OBVIOUS
    <3>4. QED BY <3>2, <3>3, Zenon
  <2>2. Plan(expr \o <<Expect(":"), Task("unary"), With("binary_expr", "", 2), Build("?", "", 3), With("operators", "", n)>>, 9 + 14)
        BY <1>1, <2>1, PlanJoin, Zenon
  <2>3. 9 + 14 = 23 OBVIOUS
  <2>4. QED BY <2>2, <2>3, Zenon
<1>6. Plan(<<Task("unary"), With("binary_expr", "", m), Build("binary", k, 2), With("operators", "", n)>>, 11)
  <2>1. Priced(Task("unary"), 6) /\ Priced(With("binary_expr", "", m), 3) /\ Priced(Build("binary", k, 2), 1) /\ Priced(With("operators", "", n), 1)
        BY Prices, PricedOthers
  <2>2. Plan(<<Task("unary"), With("binary_expr", "", m), Build("binary", k, 2), With("operators", "", n)>>, (6 + 3) + (1 + 1))
        BY <2>1, Plan4, Zenon
  <2>3. (6 + 3) + (1 + 1) = 11 OBVIOUS
  <2>4. QED BY <2>2, <2>3, Zenon
<1>7. Plan(<<Task("type_name"), Expect(")"), With("cast", "", n)>>, 21)
  <2>1. Priced(Task("type_name"), 10) /\ Priced(Expect(")"), 3) /\ Priced(With("cast", "", n), 8)
        BY Prices, PricedOthers
  <2>2. Plan(<<Task("type_name"), Expect(")"), With("cast", "", n)>>, 10 + (3 + 8)) BY <2>1, Plan3, Zenon
  <2>3. 10 + (3 + 8) = 21 OBVIOUS
  <2>4. QED BY <2>2, <2>3, Zenon
<1>8. Plan(<<Task("operator")>>, 5)
  <2>1. Priced(Task("operator"), 5) BY Prices, PricedOthers
  <2>2. QED BY <2>1, Plan1
<1>9. Plan(<<Task("type_name"), Expect(")"), Build(k, "", 1), Task("postfix")>>, 15)
  <2>1. Priced(Task("type_name"), 10) /\ Priced(Expect(")"), 3) /\ Priced(Build(k, "", 1), 1) /\ Priced(Task("postfix"), 1)
        BY Prices, PricedOthers
  <2>2. Plan(<<Task("type_name"), Expect(")"), Build(k, "", 1), Task("postfix")>>, (10 + 3) + (1 + 1))
        BY <2>1, Plan4, Zenon
  <2>3. (10 + 3) + (1 + 1) = 15 OBVIOUS
  <2>4. QED BY <2>2, <2>3, Zenon
<1>10. Plan(<<Task("unary"), Build(k, "", 1)>>, 7)
  <2>1. Priced(Task("unary"), 6) /\ Priced(Build(k, "", 1), 1) BY Prices, PricedOthers
  <2>2. Plan(<<Task("unary"), Build(k, "", 1)>>, 6 + 1) BY <2>1, Plan2, Zenon
  <2>3. 6 + 1 = 7 OBVIOUS
  <2>4. QED BY <2>2, <2>3, Zenon
<1>11. Plan(<<Task("unary"), Build("prefix", k, 1)>>, 7)
  <2>1. Priced(Task("unary"), 6) /\ Priced(Build("prefix", k, 1), 1) BY Prices, PricedOthers
  <2>2. Plan(<<Task("unary"), Build("prefix", k, 1)>>, 6 + 1) BY <2>1, Plan2, Zenon
  <2>3. 6 + 1 = 7 OBVIOUS
  <2>4. QED BY <2>2, <2>3, Zenon
<1>12. Plan(<<Task("unary"), Build("cast", "", 2)>>, 7)
  <2>1. Priced(Task("unary"), 6) /\ Priced(Build("cast", "", 2), 1) BY Prices, PricedOthers
  <2>2. Plan(<<Task("unary"), Build("cast", "", 2)>>, 6 + 1) BY <2>1, Plan2, Zenon
  <2>3. 6 + 1 = 7 OBVIOUS
  <2>4. QED BY <2>2, <2>3, Zenon
<1>13. Plan(<<Task("primary"), Task("postfix")>>, 4)
  <2>1. Priced(Task("primary"), 3) /\ Priced(Task("postfix"), 1) BY Prices, PricedOthers
  <2>2. Plan(<<Task("primary"), Task("postfix")>>, 3 + 1) BY <2>1, Plan2, Zenon
  <2>3. 3 + 1 = 4 OBVIOUS
  <2>4. QED BY <2>2, <2>3, Zenon
<1>14. Plan(expr \o <<Expect(")")>>, 12)
  <2>1. Plan(<<Expect(")")>>, 3)
    <3>1. Priced(Expect(")"), 3) BY Prices, PricedOthers
    <3>2. QED BY <3>1, Plan1
  <2>2. Plan(expr \o <<Expect(")")>>, 9 + 3) BY <1>1, <2>1, PlanJoin, Zenon
  <2>3. 9 + 3 = 12 OBVIOUS
  <2>4. QED BY <2>2, <2>3, Zenon
<1>15. Plan(<<Task("expect_id"), Build(k, "", 2)>>, 4)
  <2>1. Priced(Task("expect_id"), 3) /\ Priced(Build(k, "", 2), 1) BY Prices, PricedOthers
  <2>2. Plan(<<Task("expect_id"), Build(k, "", 2)>>, 3 + 1) BY <2>1, Plan2, Zenon
  <2>3. 3 + 1 = 4 OBVIOUS
  <2>4. QED BY <2>2, <2>3, Zenon
<1>16. Plan(<<Build("postfix", k, 1)>>, 1)
  <2>1. Priced(Build("postfix", k, 1), 1) BY Prices, PricedOthers
  <2>2. QED BY <2>1, Plan1
<1>17. Plan(expr \o <<Expect("]"), Build("[", "", 2)>>, 13)
  <2>1. Plan(<<Expect("]"), Build("[", "", 2)>>, 4)
    <3>1. Priced(Expect("]"), 3) /\ Priced(Build("[", "", 2), 1) BY Prices, PricedOthers
    <3>2. Plan(<<Expect("]"), Build("[", "", 2)>>, 3 + 1) BY <3>1, Plan2, Zenon
    <3>3. 3 + 1 = 4 OBVIOUS
    <3>4. QED BY <3>2, <3>3, Zenon
  <2>2. Plan(expr \o <<Expect("]"), Build("[", "", 2)>>, 9 + 4) BY <1>1, <2>1, PlanJoin, Zenon
  <2>3. 9 + 4 = 13 OBVIOUS
  <2>4. QED BY <2>2, <2>3, Zenon
<1>18. Plan(<<Task("first_argument"), Build("call", "", 2)>>, 15)
  <2>1. Priced(Task("first_argument"), 14) /\ Priced(Build("call", "", 2), 1) BY Prices, PricedOthers
  <2>2. Plan(<<Task("first_argument"), Build("call", "", 2)>>, 14 + 1) BY <2>1, Plan2, Zenon
  <2>3. 14 + 1 = 15 OBVIOUS
  <2>4. QED BY <2>2, <2>3, Zenon
<1>19. Plan(argument, 13)
  <2>1. Plan(<<Task("append"), Task("more_arguments")>>, 4)
    <3>1. Priced(Task("append"), 1) /\ Priced(Task("more_arguments"), 3) BY Prices, PricedOthers
    <3>2. Plan(<<Task("append"), Task("more_arguments")>>, 1 + 3) BY <3>1, Plan2, Zenon
    <3>3. 1 + 3 = 4 OBVIOUS
    <3>4. QED BY <3>2, <3>3, Zenon
  <2>2. Plan(ternary_expr \o <<Task("append"), Task("more_arguments")>>, 9 + 4) BY <1>3, <2>1, PlanJoin, Zenon
  <2>3. 9 + 4 = 13 OBVIOUS
  <2>4. QED BY <2>2, <2>3, Zenon DEF argument
<1>20. QED BY <1>1, <1>2, <1>3, <1>4, <1>5, <1>6, <1>7, <1>8, <1>9, <1>10, <1>11, <1>12, <1>13, <1>14,
              <1>15, <1>16, <1>17, <1>18, <1>19

\* parser/parse/decl.rs: specifiers
LEMMA SpecifierPlans ==
  ASSUME NEW k, NEW n, NEW o, NEW name
  PROVE  /\ Plan(<<With("struct", k, 0)>> \o <<Task("append"), With("specifiers", "", n)>>, 3)
         /\ Plan(<<Task("enum")>> \o <<Task("append"), With("specifiers", "", n)>>, 3)
         /\ Plan(<<Task("append"), With("specifiers", "", n)>>, 2)
         /\ Plan(<<Task("enumerators"), Build(o, name, 1)>>, 11)
         /\ Plan(<<Task("members"), Build(o, name, 1)>>, 2)
         /\ Plan(<<Task("members")>>, 1)
         /\ Plan(struct_declaration_list, 19)
         /\ Plan(MemberRest, 6)
         /\ Plan(<<With("declarator", "abstract", 0), Task("named_member")>> \o MemberRest, 13)
         /\ Plan(<<Task("struct_declarators")>>, 14)
         /\ Plan(<<Task("expect_id"), Task("enum_value"), Build("enumerator", "", 2), Task("append"), Task("more_enumerators")>>, 9)
         /\ Plan(<<Task("enumerators")>>, 10)
<1>1. Plan(<<With("struct", k, 0)>> \o <<Task("append"), With("specifiers", "", n)>>, 3)
  <2>1. Plan(<<With("struct", k, 0)>>, 1)
    <3>1. Priced(With("struct", k, 0), 1) BY Prices, PricedOthers
    <3>2. QED BY <3>1, Plan1
  <2>2. Plan(<<Task("append"), With("specifiers", "", n)>>, 2)
    <3>1. Priced(Task("append"), 1) /\ Priced(With("specifiers", "", n), 1) BY Prices, PricedOthers
    <3>2. Plan(<<Task("append"), With("specifiers", "", n)>>, 1 + 1) BY <3>1, Plan2, Zenon
    <3>3. 1 + 1 = 2 OBVIOUS
    <3>4. QED BY <3>2, <3>3, Zenon
  <2>3. Plan(<<With("struct", k, 0)>> \o <<Task("append"), With("specifiers", "", n)>>, 1 + 2)
        BY <2>1, <2>2, PlanJoin, Zenon
  <2>4. 1 + 2 = 3 OBVIOUS
  <2>5. QED BY <2>3, <2>4, Zenon
<1>2. Plan(<<Task("enum")>> \o <<Task("append"), With("specifiers", "", n)>>, 3)
  <2>1. Plan(<<Task("enum")>>, 1)
    <3>1. Priced(Task("enum"), 1) BY Prices, PricedOthers
    <3>2. QED BY <3>1, Plan1
  <2>2. Plan(<<Task("append"), With("specifiers", "", n)>>, 2)
    <3>1. Priced(Task("append"), 1) /\ Priced(With("specifiers", "", n), 1) BY Prices, PricedOthers
    <3>2. Plan(<<Task("append"), With("specifiers", "", n)>>, 1 + 1) BY <3>1, Plan2, Zenon
    <3>3. 1 + 1 = 2 OBVIOUS
    <3>4. QED BY <3>2, <3>3, Zenon
  <2>3. Plan(<<Task("enum")>> \o <<Task("append"), With("specifiers", "", n)>>, 1 + 2)
        BY <2>1, <2>2, PlanJoin, Zenon
  <2>4. 1 + 2 = 3 OBVIOUS
  <2>5. QED BY <2>3, <2>4, Zenon
<1>3. Plan(<<Task("append"), With("specifiers", "", n)>>, 2)
  <2>1. Priced(Task("append"), 1) /\ Priced(With("specifiers", "", n), 1) BY Prices, PricedOthers
  <2>2. Plan(<<Task("append"), With("specifiers", "", n)>>, 1 + 1) BY <2>1, Plan2, Zenon
  <2>3. 1 + 1 = 2 OBVIOUS
  <2>4. QED BY <2>2, <2>3, Zenon
<1>4. Plan(<<Task("enumerators"), Build(o, name, 1)>>, 11)
  <2>1. Priced(Task("enumerators"), 10) /\ Priced(Build(o, name, 1), 1) BY Prices, PricedOthers
  <2>2. Plan(<<Task("enumerators"), Build(o, name, 1)>>, 10 + 1) BY <2>1, Plan2, Zenon
  <2>3. 10 + 1 = 11 OBVIOUS
  <2>4. QED BY <2>2, <2>3, Zenon
<1>5. Plan(<<Task("members"), Build(o, name, 1)>>, 2)
  <2>1. Priced(Task("members"), 1) /\ Priced(Build(o, name, 1), 1) BY Prices, PricedOthers
  <2>2. Plan(<<Task("members"), Build(o, name, 1)>>, 1 + 1) BY <2>1, Plan2, Zenon
  <2>3. 1 + 1 = 2 OBVIOUS
  <2>4. QED BY <2>2, <2>3, Zenon
<1>6. Plan(<<Task("members")>>, 1)
  <2>1. Priced(Task("members"), 1) BY Prices, PricedOthers
  <2>2. QED BY <2>1, Plan1
<1>7. Plan(struct_declaration_list, 19)
  <2>1. Plan(<<With("specifiers", "", 0), Task("declarators"), Task("struct_declarators"), Build("field", "", 2), Task("append"), Task("members")>>, 19)
    <3>1. Priced(With("specifiers", "", 0), 1) /\ Priced(Task("declarators"), 1) /\ Priced(Task("struct_declarators"), 14) /\ Priced(Build("field", "", 2), 1) /\ Priced(Task("append"), 1) /\ Priced(Task("members"), 1)
          BY Prices, PricedOthers
    <3>2. Plan(<<With("specifiers", "", 0), Task("declarators"), Task("struct_declarators"), Build("field", "", 2), Task("append"), Task("members")>>, (1 + (1 + 14)) + (1 + (1 + 1)))
          BY <3>1, Plan6, Zenon
    <3>3. (1 + (1 + 14)) + (1 + (1 + 1)) = 19 OBVIOUS
    <3>4. QED BY <3>2, <3>3, Zenon
  <2>2. QED BY <2>1 DEF struct_declaration_list
<1>8. Plan(MemberRest, 6)
  <2>1. Plan(<<Task("bitfield"), Build("declarator", "", 2), Task("append"), Task("more_declarators")>>, 6)
    <3>1. Priced(Task("bitfield"), 1) /\ Priced(Build("declarator", "", 2), 1) /\ Priced(Task("append"), 1) /\ Priced(Task("more_declarators"), 3)
          BY Prices, PricedOthers
    <3>2. Plan(<<Task("bitfield"), Build("declarator", "", 2), Task("append"), Task("more_declarators")>>, (1 + 1) + (1 + 3))
          BY <3>1, Plan4, Zenon
    <3>3. (1 + 1) + (1 + 3) = 6 OBVIOUS
    <3>4. QED BY <3>2, <3>3, Zenon
  <2>2. QED BY <2>1 DEF MemberRest
<1>9. Plan(<<With("declarator", "abstract", 0), Task("named_member")>> \o MemberRest, 13)
  <2>1. Plan(<<With("declarator", "abstract", 0), Task("named_member")>>, 7)
    <3>1. Priced(With("declarator", "abstract", 0), 5) /\ Priced(Task("named_member"), 2)
          BY Prices, PricedOthers
    <3>2. Plan(<<With("declarator", "abstract", 0), Task("named_member")>>, 5 + 2) BY <3>1, Plan2, Zenon
    <3>3. 5 + 2 = 7 OBVIOUS
    <3>4. QED BY <3>2, <3>3, Zenon
  <2>2. Plan(<<With("declarator", "abstract", 0), Task("named_member")>> \o MemberRest, 7 + 6)
        BY <2>1, <1>8, PlanJoin, Zenon
  <2>3. 7 + 6 = 13 OBVIOUS
  <2>4. QED BY <2>2, <2>3, Zenon
<1>10. Plan(<<Task("struct_declarators")>>, 14)
  <2>1. Priced(Task("struct_declarators"), 14) BY Prices, PricedOthers
  <2>2. QED BY <2>1, Plan1
<1>11. Plan(<<Task("expect_id"), Task("enum_value"), Build("enumerator", "", 2), Task("append"), Task("more_enumerators")>>, 9)
  <2>1. Priced(Task("expect_id"), 3) /\ Priced(Task("enum_value"), 1) /\ Priced(Build("enumerator", "", 2), 1) /\ Priced(Task("append"), 1) /\ Priced(Task("more_enumerators"), 3)
        BY Prices, PricedOthers
  <2>2. Plan(<<Task("expect_id"), Task("enum_value"), Build("enumerator", "", 2), Task("append"), Task("more_enumerators")>>, (3 + 1) + (1 + (1 + 3)))
        BY <2>1, Plan5, Zenon
  <2>3. (3 + 1) + (1 + (1 + 3)) = 9 OBVIOUS
  <2>4. QED BY <2>2, <2>3, Zenon
<1>12. Plan(<<Task("enumerators")>>, 10)
  <2>1. Priced(Task("enumerators"), 10) BY Prices, PricedOthers
  <2>2. QED BY <2>1, Plan1
<1>13. QED BY <1>1, <1>2, <1>3, <1>4, <1>5, <1>6, <1>7, <1>8, <1>9, <1>10, <1>11, <1>12

\* parser/parse/decl.rs: declarators
LEMMA DeclaratorPlans ==
  ASSUME NEW kind
  PROVE  /\ Plan(<<With("qualifiers", kind, 0)>>, 7)
         /\ Plan(<<With("direct_declarator", kind, 0)>>, 3)
         /\ Plan(<<Task("append"), With("qualifiers", kind, 0)>>, 8)
         /\ Plan(<<With("declarator", kind, 0), Task("pointer")>>, 6)
         /\ Plan(<<With("postfix_type", kind, 0)>>, 1)
         /\ Plan(<<With("declarator", kind, 0), Expect(")"), With("postfix_type", kind, 0)>>, 9)
         /\ Plan(<<With("merge", "array", 0), With("postfix_type", kind, 0)>>, 2)
         /\ Plan(expr \o <<Expect("]"), With("merge", "array", 0), With("postfix_type", kind, 0)>>, 14)
         /\ Plan(<<Task("first_parameter"), With("postfix_type", kind, 0)>>, 19)
         /\ Plan(<<Task("parameter")>>, 17)
         /\ Plan(<<Expect(")"), [With("merge", "function", 0) EXCEPT !.v = "..."]>>, 4)
         /\ Plan(<<Task("type_name"), Task("append"), Task("more_parameters")>>, 16)
         /\ Plan(<<Expect(")"), With("merge", "function", 0)>>, 4)
         /\ Plan(<<With("specifiers", "", 0), With("declarator", "abstract", 0), Task("type")>>, 9)
<1>1. Plan(<<With("qualifiers", kind, 0)>>, 7)
  <2>1. Priced(With("qualifiers", kind, 0), 7) BY Prices, PricedOthers
  <2>2. QED BY <2>1, Plan1
<1>2. Plan(<<With("direct_declarator", kind, 0)>>, 3)
  <2>1. Priced(With("direct_declarator", kind, 0), 3) BY Prices, PricedOthers
  <2>2. QED BY <2>1, Plan1
<1>3. Plan(<<Task("append"), With("qualifiers", kind, 0)>>, 8)
  <2>1. Priced(Task("append"), 1) /\ Priced(With("qualifiers", kind, 0), 7) BY Prices, PricedOthers
  <2>2. Plan(<<Task("append"), With("qualifiers", kind, 0)>>, 1 + 7) BY <2>1, Plan2, Zenon
  <2>3. 1 + 7 = 8 OBVIOUS
  <2>4. QED BY <2>2, <2>3, Zenon
<1>4. Plan(<<With("declarator", kind, 0), Task("pointer")>>, 6)
  <2>1. Priced(With("declarator", kind, 0), 5) /\ Priced(Task("pointer"), 1) BY Prices, PricedOthers
  <2>2. Plan(<<With("declarator", kind, 0), Task("pointer")>>, 5 + 1) BY <2>1, Plan2, Zenon
  <2>3. 5 + 1 = 6 OBVIOUS
  <2>4. QED BY <2>2, <2>3, Zenon
<1>5. Plan(<<With("postfix_type", kind, 0)>>, 1)
  <2>1. Priced(With("postfix_type", kind, 0), 1) BY Prices, PricedOthers
  <2>2. QED BY <2>1, Plan1
<1>6. Plan(<<With("declarator", kind, 0), Expect(")"), With("postfix_type", kind, 0)>>, 9)
  <2>1. Priced(With("declarator", kind, 0), 5) /\ Priced(Expect(")"), 3) /\ Priced(With("postfix_type", kind, 0), 1)
        BY Prices, PricedOthers
  <2>2. Plan(<<With("declarator", kind, 0), Expect(")"), With("postfix_type", kind, 0)>>, 5 + (3 + 1))
        BY <2>1, Plan3, Zenon
  <2>3. 5 + (3 + 1) = 9 OBVIOUS
  <2>4. QED BY <2>2, <2>3, Zenon
<1>7. Plan(<<With("merge", "array", 0), With("postfix_type", kind, 0)>>, 2)
  <2>1. Priced(With("merge", "array", 0), 1) /\ Priced(With("postfix_type", kind, 0), 1)
        BY Prices, PricedOthers
  <2>2. Plan(<<With("merge", "array", 0), With("postfix_type", kind, 0)>>, 1 + 1) BY <2>1, Plan2, Zenon
  <2>3. 1 + 1 = 2 OBVIOUS
  <2>4. QED BY <2>2, <2>3, Zenon
<1>8. Plan(expr \o <<Expect("]"), With("merge", "array", 0), With("postfix_type", kind, 0)>>, 14)
  <2>1. Plan(<<Expect("]"), With("merge", "array", 0), With("postfix_type", kind, 0)>>, 5)
    <3>1. Priced(Expect("]"), 3) /\ Priced(With("merge", "array", 0), 1) /\ Priced(With("postfix_type", kind, 0), 1)
          BY Prices, PricedOthers
    <3>2. Plan(<<Expect("]"), With("merge", "array", 0), With("postfix_type", kind, 0)>>, 3 + (1 + 1))
          BY <3>1, Plan3, Zenon
    <3>3. 3 + (1 + 1) = 5 OBVIOUS
    <3>4. QED BY <3>2, <3>3, Zenon
  <2>2. Plan(expr \o <<Expect("]"), With("merge", "array", 0), With("postfix_type", kind, 0)>>, 9 + 5)
        BY ExpressionPlans, <2>1, PlanJoin, Zenon
  <2>3. 9 + 5 = 14 OBVIOUS
  <2>4. QED BY <2>2, <2>3, Zenon
<1>9. Plan(<<Task("first_parameter"), With("postfix_type", kind, 0)>>, 19)
  <2>1. Priced(Task("first_parameter"), 18) /\ Priced(With("postfix_type", kind, 0), 1)
        BY Prices, PricedOthers
  <2>2. Plan(<<Task("first_parameter"), With("postfix_type", kind, 0)>>, 18 + 1) BY <2>1, Plan2, Zenon
  <2>3. 18 + 1 = 19 OBVIOUS
  <2>4. QED BY <2>2, <2>3, Zenon
<1>10. Plan(<<Task("parameter")>>, 17)
  <2>1. Priced(Task("parameter"), 17) BY Prices, PricedOthers
  <2>2. QED BY <2>1, Plan1
<1>11. Plan(<<Expect(")"), [With("merge", "function", 0) EXCEPT !.v = "..."]>>, 4)
  <2>1. Priced(Expect(")"), 3) /\ Priced([With("merge", "function", 0) EXCEPT !.v = "..."], 1)
        BY Prices, PricedOthers
  <2>2. Plan(<<Expect(")"), [With("merge", "function", 0) EXCEPT !.v = "..."]>>, 3 + 1) BY <2>1, Plan2, Zenon
  <2>3. 3 + 1 = 4 OBVIOUS
  <2>4. QED BY <2>2, <2>3, Zenon
<1>12. Plan(<<Task("type_name"), Task("append"), Task("more_parameters")>>, 16)
  <2>1. Priced(Task("type_name"), 10) /\ Priced(Task("append"), 1) /\ Priced(Task("more_parameters"), 5)
        BY Prices, PricedOthers
  <2>2. Plan(<<Task("type_name"), Task("append"), Task("more_parameters")>>, 10 + (1 + 5))
        BY <2>1, Plan3, Zenon
  <2>3. 10 + (1 + 5) = 16 OBVIOUS
  <2>4. QED BY <2>2, <2>3, Zenon
<1>13. Plan(<<Expect(")"), With("merge", "function", 0)>>, 4)
  <2>1. Priced(Expect(")"), 3) /\ Priced(With("merge", "function", 0), 1) BY Prices, PricedOthers
  <2>2. Plan(<<Expect(")"), With("merge", "function", 0)>>, 3 + 1) BY <2>1, Plan2, Zenon
  <2>3. 3 + 1 = 4 OBVIOUS
  <2>4. QED BY <2>2, <2>3, Zenon
<1>14. Plan(<<With("specifiers", "", 0), With("declarator", "abstract", 0), Task("type")>>, 9)
  <2>1. Priced(With("specifiers", "", 0), 1) /\ Priced(With("declarator", "abstract", 0), 5) /\ Priced(Task("type"), 3)
        BY Prices, PricedOthers
  <2>2. Plan(<<With("specifiers", "", 0), With("declarator", "abstract", 0), Task("type")>>, 1 + (5 + 3))
        BY <2>1, Plan3, Zenon
  <2>3. 1 + (5 + 3) = 9 OBVIOUS
  <2>4. QED BY <2>2, <2>3, Zenon
<1>15. QED BY <1>1, <1>2, <1>3, <1>4, <1>5, <1>6, <1>7, <1>8, <1>9, <1>10, <1>11, <1>12, <1>13, <1>14

\* parser/parse/decl.rs: declarations
LEMMA DeclarationPlans ==
         /\ Plan(init_declarator, 7)
         /\ Plan(<<Task("initializer")>>, 10)
         /\ Plan(<<Task("aggregate")>>, 18)
         /\ Plan(<<Task("elements"), Build("braces", "", 1)>>, 16)
         /\ Plan(<<Task("initializer"), Task("append"), Task("more_elements")>>, 14)
         /\ Plan(<<Task("elements")>>, 15)
         /\ Plan(<<Task("semicolons")>>, 1)
         /\ Plan(<<With("specifiers", "", 0), Task("declared")>>, 14)
         /\ Plan(init_declarator \o <<Task("function")>>, 12)
         /\ Plan(<<Task("more")>>, 1)
         /\ Plan(<<Task("definition")>>, 3)
         /\ Plan(<<Expect(",")>> \o init_declarator \o <<Task("append"), Task("more")>>, 12)
         /\ Plan(<<Task("semicolons"), Task("external_declaration"), Task("parsed")>>, 18)
<1>1. Plan(init_declarator, 7)
  <2>1. Plan(<<With("declarator", "", 0), Task("initial"), Build("init_declarator", "", 2)>>, 7)
    <3>1. Priced(With("declarator", "", 0), 5) /\ Priced(Task("initial"), 1) /\ Priced(Build("init_declarator", "", 2), 1)
          BY Prices, PricedOthers
    <3>2. Plan(<<With("declarator", "", 0), Task("initial"), Build("init_declarator", "", 2)>>, 5 + (1 + 1))
          BY <3>1, Plan3, Zenon
    <3>3. 5 + (1 + 1) = 7 OBVIOUS
    <3>4. QED BY <3>2, <3>3, Zenon
  <2>2. QED BY <2>1 DEF init_declarator
<1>2. Plan(<<Task("initializer")>>, 10)
  <2>1. Priced(Task("initializer"), 10) BY Prices, PricedOthers
  <2>2. QED BY <2>1, Plan1
<1>3. Plan(<<Task("aggregate")>>, 18)
  <2>1. Priced(Task("aggregate"), 18) BY Prices, PricedOthers
  <2>2. QED BY <2>1, Plan1
<1>4. Plan(<<Task("elements"), Build("braces", "", 1)>>, 16)
  <2>1. Priced(Task("elements"), 15) /\ Priced(Build("braces", "", 1), 1) BY Prices, PricedOthers
  <2>2. Plan(<<Task("elements"), Build("braces", "", 1)>>, 15 + 1) BY <2>1, Plan2, Zenon
  <2>3. 15 + 1 = 16 OBVIOUS
  <2>4. QED BY <2>2, <2>3, Zenon
<1>5. Plan(<<Task("initializer"), Task("append"), Task("more_elements")>>, 14)
  <2>1. Priced(Task("initializer"), 10) /\ Priced(Task("append"), 1) /\ Priced(Task("more_elements"), 3)
        BY Prices, PricedOthers
  <2>2. Plan(<<Task("initializer"), Task("append"), Task("more_elements")>>, 10 + (1 + 3))
        BY <2>1, Plan3, Zenon
  <2>3. 10 + (1 + 3) = 14 OBVIOUS
  <2>4. QED BY <2>2, <2>3, Zenon
<1>6. Plan(<<Task("elements")>>, 15)
  <2>1. Priced(Task("elements"), 15) BY Prices, PricedOthers
  <2>2. QED BY <2>1, Plan1
<1>7. Plan(<<Task("semicolons")>>, 1)
  <2>1. Priced(Task("semicolons"), 1) BY Prices, PricedOthers
  <2>2. QED BY <2>1, Plan1
<1>8. Plan(<<With("specifiers", "", 0), Task("declared")>>, 14)
  <2>1. Priced(With("specifiers", "", 0), 1) /\ Priced(Task("declared"), 13) BY Prices, PricedOthers
  <2>2. Plan(<<With("specifiers", "", 0), Task("declared")>>, 1 + 13) BY <2>1, Plan2, Zenon
  <2>3. 1 + 13 = 14 OBVIOUS
  <2>4. QED BY <2>2, <2>3, Zenon
<1>9. Plan(init_declarator \o <<Task("function")>>, 12)
  <2>1. Plan(<<Task("function")>>, 5)
    <3>1. Priced(Task("function"), 5) BY Prices, PricedOthers
    <3>2. QED BY <3>1, Plan1
  <2>2. Plan(init_declarator \o <<Task("function")>>, 7 + 5) BY <1>1, <2>1, PlanJoin, Zenon
  <2>3. 7 + 5 = 12 OBVIOUS
  <2>4. QED BY <2>2, <2>3, Zenon
<1>10. Plan(<<Task("more")>>, 1)
  <2>1. Priced(Task("more"), 1) BY Prices, PricedOthers
  <2>2. QED BY <2>1, Plan1
<1>11. Plan(<<Task("definition")>>, 3)
  <2>1. Priced(Task("definition"), 3) BY Prices, PricedOthers
  <2>2. QED BY <2>1, Plan1
<1>12. Plan(<<Expect(",")>> \o init_declarator \o <<Task("append"), Task("more")>>, 12)
  <2>1. Plan(<<Expect(",")>>, 3)
    <3>1. Priced(Expect(","), 3) BY Prices, PricedOthers
    <3>2. QED BY <3>1, Plan1
  <2>2. Plan(<<Task("append"), Task("more")>>, 2)
    <3>1. Priced(Task("append"), 1) /\ Priced(Task("more"), 1) BY Prices, PricedOthers
    <3>2. Plan(<<Task("append"), Task("more")>>, 1 + 1) BY <3>1, Plan2, Zenon
    <3>3. 1 + 1 = 2 OBVIOUS
    <3>4. QED BY <3>2, <3>3, Zenon
  <2>3. Plan(<<Expect(",")>> \o init_declarator, 3 + 7) BY <2>1, <1>1, <2>2, PlanJoin, Zenon
  <2>4. Plan((<<Expect(",")>> \o init_declarator) \o <<Task("append"), Task("more")>>, (3 + 7) + 2)
        BY <2>3, <2>1, <1>1, <2>2, PlanJoin, Zenon
  <2>5. (3 + 7) + 2 = 12 OBVIOUS
  <2>6. QED BY <2>4, <2>5, Zenon
<1>13. Plan(<<Task("semicolons"), Task("external_declaration"), Task("parsed")>>, 18)
  <2>1. Priced(Task("semicolons"), 1) /\ Priced(Task("external_declaration"), 15) /\ Priced(Task("parsed"), 2)
        BY Prices, PricedOthers
  <2>2. Plan(<<Task("semicolons"), Task("external_declaration"), Task("parsed")>>, 1 + (15 + 2))
        BY <2>1, Plan3, Zenon
  <2>3. 1 + (15 + 2) = 18 OBVIOUS
  <2>4. QED BY <2>2, <2>3, Zenon
<1>14. QED BY <1>1, <1>2, <1>3, <1>4, <1>5, <1>6, <1>7, <1>8, <1>9, <1>10, <1>11, <1>12, <1>13

\* parser/parse/stmt.rs
LEMMA StatementPlans ==
  ASSUME NEW k
  PROVE  /\ Plan(declaration, 18)
         /\ Plan(expression_statement, 12)
         /\ Plan(parenthesized, 15)
         /\ Plan(<<Task("statement"), Build("label", "", 2)>>, 22)
         /\ Plan(parenthesized \o <<Task("statement"), Task("else")>>, 37)
         /\ Plan(parenthesized \o <<Task("statement"), Build(k, "", 2)>>, 37)
         /\ Plan(<<Task("statement"), Expect("while")>> \o parenthesized \o <<Expect(";"), Build("do", "", 2)>>, 43)
         /\ Plan(<<Expect("("), Task("for"), With("expr_opt", ";", 0), With("expr_opt", ")", 0), Task("statement"), Build("for", "", 4)>>, 70)
         /\ Plan(expr \o <<Expect(":"), Task("statement"), Build("case", "", 2)>>, 34)
         /\ Plan(<<Expect(":"), Task("statement"), Build("default", "", 1)>>, 25)
         /\ Plan(<<Task("expect_id"), Expect(";"), Build("goto", "", 1)>>, 7)
         /\ Plan(<<Expect(";"), Build(k, "", 0)>>, 4)
         /\ Plan(<<With("expr_opt", ";", 0), Build("return", "", 1)>>, 14)
         /\ Plan(<<Task("any_statement")>>, 19)
         /\ Plan(<<Task("statement"), Build("if", "", 3)>>, 22)
         /\ Plan(expr \o <<Expect(k)>>, 12)
<1>1. Plan(declaration, 18)
  <2>1. Plan(<<Task("external_declaration"), Task("into_declaration")>>, 18)
    <3>1. Priced(Task("external_declaration"), 15) /\ Priced(Task("into_declaration"), 3)
          BY Prices, PricedOthers
    <3>2. Plan(<<Task("external_declaration"), Task("into_declaration")>>, 15 + 3) BY <3>1, Plan2, Zenon
    <3>3. 15 + 3 = 18 OBVIOUS
    <3>4. QED BY <3>2, <3>3, Zenon
  <2>2. QED BY <2>1 DEF declaration
<1>2. Plan(expression_statement, 12)
  <2>1. Plan(<<Expect(";")>>, 3)
    <3>1. Priced(Expect(";"), 3) BY Prices, PricedOthers
    <3>2. QED BY <3>1, Plan1
  <2>2. Plan(expr \o <<Expect(";")>>, 9 + 3) BY ExpressionPlans, <2>1, PlanJoin, Zenon
  <2>3. 9 + 3 = 12 OBVIOUS
  <2>4. QED BY <2>2, <2>3, Zenon DEF expression_statement
<1>3. Plan(parenthesized, 15)
  <2>1. Plan(<<Expect("(")>>, 3)
    <3>1. Priced(Expect("("), 3) BY Prices, PricedOthers
    <3>2. QED BY <3>1, Plan1
  <2>2. Plan(<<Expect(")")>>, 3)
    <3>1. Priced(Expect(")"), 3) BY Prices, PricedOthers
    <3>2. QED BY <3>1, Plan1
  <2>3. Plan(<<Expect("(")>> \o expr, 3 + 9) BY <2>1, ExpressionPlans, <2>2, PlanJoin, Zenon
  <2>4. Plan((<<Expect("(")>> \o expr) \o <<Expect(")")>>, (3 + 9) + 3)
        BY <2>3, <2>1, ExpressionPlans, <2>2, PlanJoin, Zenon
  <2>5. (3 + 9) + 3 = 15 OBVIOUS
  <2>6. QED BY <2>4, <2>5, Zenon DEF parenthesized
<1>4. Plan(<<Task("statement"), Build("label", "", 2)>>, 22)
  <2>1. Priced(Task("statement"), 21) /\ Priced(Build("label", "", 2), 1) BY Prices, PricedOthers
  <2>2. Plan(<<Task("statement"), Build("label", "", 2)>>, 21 + 1) BY <2>1, Plan2, Zenon
  <2>3. 21 + 1 = 22 OBVIOUS
  <2>4. QED BY <2>2, <2>3, Zenon
<1>5. Plan(parenthesized \o <<Task("statement"), Task("else")>>, 37)
  <2>1. Plan(<<Task("statement"), Task("else")>>, 22)
    <3>1. Priced(Task("statement"), 21) /\ Priced(Task("else"), 1) BY Prices, PricedOthers
    <3>2. Plan(<<Task("statement"), Task("else")>>, 21 + 1) BY <3>1, Plan2, Zenon
    <3>3. 21 + 1 = 22 OBVIOUS
    <3>4. QED BY <3>2, <3>3, Zenon
  <2>2. Plan(parenthesized \o <<Task("statement"), Task("else")>>, 15 + 22) BY <1>3, <2>1, PlanJoin, Zenon
  <2>3. 15 + 22 = 37 OBVIOUS
  <2>4. QED BY <2>2, <2>3, Zenon
<1>6. Plan(parenthesized \o <<Task("statement"), Build(k, "", 2)>>, 37)
  <2>1. Plan(<<Task("statement"), Build(k, "", 2)>>, 22)
    <3>1. Priced(Task("statement"), 21) /\ Priced(Build(k, "", 2), 1) BY Prices, PricedOthers
    <3>2. Plan(<<Task("statement"), Build(k, "", 2)>>, 21 + 1) BY <3>1, Plan2, Zenon
    <3>3. 21 + 1 = 22 OBVIOUS
    <3>4. QED BY <3>2, <3>3, Zenon
  <2>2. Plan(parenthesized \o <<Task("statement"), Build(k, "", 2)>>, 15 + 22) BY <1>3, <2>1, PlanJoin, Zenon
  <2>3. 15 + 22 = 37 OBVIOUS
  <2>4. QED BY <2>2, <2>3, Zenon
<1>7. Plan(<<Task("statement"), Expect("while")>> \o parenthesized \o <<Expect(";"), Build("do", "", 2)>>, 43)
  <2>1. Plan(<<Task("statement"), Expect("while")>>, 24)
    <3>1. Priced(Task("statement"), 21) /\ Priced(Expect("while"), 3) BY Prices, PricedOthers
    <3>2. Plan(<<Task("statement"), Expect("while")>>, 21 + 3) BY <3>1, Plan2, Zenon
    <3>3. 21 + 3 = 24 OBVIOUS
    <3>4. QED BY <3>2, <3>3, Zenon
  <2>2. Plan(<<Expect(";"), Build("do", "", 2)>>, 4)
    <3>1. Priced(Expect(";"), 3) /\ Priced(Build("do", "", 2), 1) BY Prices, PricedOthers
    <3>2. Plan(<<Expect(";"), Build("do", "", 2)>>, 3 + 1) BY <3>1, Plan2, Zenon
    <3>3. 3 + 1 = 4 OBVIOUS
    <3>4. QED BY <3>2, <3>3, Zenon
  <2>3. Plan(<<Task("statement"), Expect("while")>> \o parenthesized, 24 + 15)
        BY <2>1, <1>3, <2>2, PlanJoin, Zenon
  <2>4. Plan((<<Task("statement"), Expect("while")>> \o parenthesized) \o <<Expect(";"), Build("do", "", 2)>>, (24 + 15) + 4)
        BY <2>3, <2>2, PlanJoin, ZenonT(60)
  <2>5. (24 + 15) + 4 = 43 OBVIOUS
  <2>6. QED BY <2>4, <2>5, Zenon
<1>8. Plan(<<Expect("("), Task("for"), With("expr_opt", ";", 0), With("expr_opt", ")", 0), Task("statement"), Build("for", "", 4)>>, 70)
  <2>1. Priced(Expect("("), 3) /\ Priced(Task("for"), 19) /\ Priced(With("expr_opt", ";", 0), 13) /\ Priced(With("expr_opt", ")", 0), 13) /\ Priced(Task("statement"), 21) /\ Priced(Build("for", "", 4), 1)
        BY Prices, PricedOthers
  <2>2. Plan(<<Expect("("), Task("for"), With("expr_opt", ";", 0), With("expr_opt", ")", 0), Task("statement"), Build("for", "", 4)>>, (3 + (19 + 13)) + (13 + (21 + 1)))
        BY <2>1, Plan6, ZenonT(60)
  <2>3. (3 + (19 + 13)) + (13 + (21 + 1)) = 70 OBVIOUS
  <2>4. QED BY <2>2, <2>3, Zenon
<1>9. Plan(expr \o <<Expect(":"), Task("statement"), Build("case", "", 2)>>, 34)
  <2>1. Plan(<<Expect(":"), Task("statement"), Build("case", "", 2)>>, 25)
    <3>1. Priced(Expect(":"), 3) /\ Priced(Task("statement"), 21) /\ Priced(Build("case", "", 2), 1)
          BY Prices, PricedOthers
    <3>2. Plan(<<Expect(":"), Task("statement"), Build("case", "", 2)>>, 3 + (21 + 1)) BY <3>1, Plan3, Zenon
    <3>3. 3 + (21 + 1) = 25 OBVIOUS
    <3>4. QED BY <3>2, <3>3, Zenon
  <2>2. Plan(expr \o <<Expect(":"), Task("statement"), Build("case", "", 2)>>, 9 + 25)
        BY ExpressionPlans, <2>1, PlanJoin, Zenon
  <2>3. 9 + 25 = 34 OBVIOUS
  <2>4. QED BY <2>2, <2>3, Zenon
<1>10. Plan(<<Expect(":"), Task("statement"), Build("default", "", 1)>>, 25)
  <2>1. Priced(Expect(":"), 3) /\ Priced(Task("statement"), 21) /\ Priced(Build("default", "", 1), 1)
        BY Prices, PricedOthers
  <2>2. Plan(<<Expect(":"), Task("statement"), Build("default", "", 1)>>, 3 + (21 + 1)) BY <2>1, Plan3, Zenon
  <2>3. 3 + (21 + 1) = 25 OBVIOUS
  <2>4. QED BY <2>2, <2>3, Zenon
<1>11. Plan(<<Task("expect_id"), Expect(";"), Build("goto", "", 1)>>, 7)
  <2>1. Priced(Task("expect_id"), 3) /\ Priced(Expect(";"), 3) /\ Priced(Build("goto", "", 1), 1)
        BY Prices, PricedOthers
  <2>2. Plan(<<Task("expect_id"), Expect(";"), Build("goto", "", 1)>>, 3 + (3 + 1)) BY <2>1, Plan3, Zenon
  <2>3. 3 + (3 + 1) = 7 OBVIOUS
  <2>4. QED BY <2>2, <2>3, Zenon
<1>12. Plan(<<Expect(";"), Build(k, "", 0)>>, 4)
  <2>1. Priced(Expect(";"), 3) /\ Priced(Build(k, "", 0), 1) BY Prices, PricedOthers
  <2>2. Plan(<<Expect(";"), Build(k, "", 0)>>, 3 + 1) BY <2>1, Plan2, Zenon
  <2>3. 3 + 1 = 4 OBVIOUS
  <2>4. QED BY <2>2, <2>3, Zenon
<1>13. Plan(<<With("expr_opt", ";", 0), Build("return", "", 1)>>, 14)
  <2>1. Priced(With("expr_opt", ";", 0), 13) /\ Priced(Build("return", "", 1), 1) BY Prices, PricedOthers
  <2>2. Plan(<<With("expr_opt", ";", 0), Build("return", "", 1)>>, 13 + 1) BY <2>1, Plan2, Zenon
  <2>3. 13 + 1 = 14 OBVIOUS
  <2>4. QED BY <2>2, <2>3, Zenon
<1>14. Plan(<<Task("any_statement")>>, 19)
  <2>1. Priced(Task("any_statement"), 19) BY Prices, PricedOthers
  <2>2. QED BY <2>1, Plan1
<1>15. Plan(<<Task("statement"), Build("if", "", 3)>>, 22)
  <2>1. Priced(Task("statement"), 21) /\ Priced(Build("if", "", 3), 1) BY Prices, PricedOthers
  <2>2. Plan(<<Task("statement"), Build("if", "", 3)>>, 21 + 1) BY <2>1, Plan2, Zenon
  <2>3. 21 + 1 = 22 OBVIOUS
  <2>4. QED BY <2>2, <2>3, Zenon
<1>16. Plan(expr \o <<Expect(k)>>, 12)
  <2>1. Plan(<<Expect(k)>>, 3)
    <3>1. Priced(Expect(k), 3) BY Prices, PricedOthers
    <3>2. QED BY <3>1, Plan1
  <2>2. Plan(expr \o <<Expect(k)>>, 9 + 3) BY ExpressionPlans, <2>1, PlanJoin, Zenon
  <2>3. 9 + 3 = 12 OBVIOUS
  <2>4. QED BY <2>2, <2>3, Zenon
<1>17. QED BY <1>1, <1>2, <1>3, <1>4, <1>5, <1>6, <1>7, <1>8, <1>9, <1>10, <1>11, <1>12, <1>13, <1>14,
              <1>15, <1>16

-----------------------------------------------------------------------------
(* What a task may do *)

\* the debt of a task is handed on to those it pushes
Keeps(t, ts) ==
  /\ \A b \in BOOLEAN : Needs(t, b) => Reaches(ts, b)
  /\ t.f \in Transparent => Open(ts) \/ \A b \in BOOLEAN : Reaches(ts, b)
  /\ t.f \in Leaves => ts # <<>> /\ Head(ts).f \in Leaves
\* it fails without a token: nothing is owed to one
Calm(t) == t.f \notin Transparent /\ ~Needs(t, FALSE)
\* nothing is owed to a token below it either
Settled(t) == t.f \notin Transparent \cup Leaves /\ \A b \in BOOLEAN : ~Needs(t, b)

\* the tokens consumed pay for all it pushes, and for any debt
Consumes(q, t, n) == \E ts, c : Costs(ts, c) /\ n.stack = ts \o q.stack /\ Owed(n) + c + 26 <= Owed(q) + Cost(t.f)
\* its own price pays
Proceeds(q, t, n) ==
  \E ts, c : Plan(ts, c) /\ n.stack = ts \o q.stack /\ n.failed = "" /\ Owed(n) + c + 1 <= Owed(q) + Cost(t.f) /\ Keeps(t, ts)
\* a token that is to come pays
Opens(q, t, n) ==
  /\ Settled(t)
  /\ \E ts, c : /\ Plan(ts, c) /\ n.stack = ts \o q.stack /\ n.failed = "" /\ Owed(n) + c + 1 <= Owed(q) + Cost(t.f) + 23
                /\ \A b \in BOOLEAN : Reaches(ts, b)
GivesUp(q, t, n) == n.stack = q.stack /\ n.failed # "" /\ Owed(n) + 3 <= Owed(q) + Cost(t.f) /\ (Left(n) = 0 \/ Calm(t))

Outcome(q, t, n) ==
  Sound(q) /\ Listed(q.stack) /\ q.failed = "" =>
     /\ Sound(n) /\ Left(n) <= Left(q)
     /\ Consumes(q, t, n) \/ Proceeds(q, t, n) \/ Opens(q, t, n) \/ GivesUp(q, t, n)

\* a parser that has looked ahead
Looked(q) == q.current = None => Left(q) = 0

\* what a token pays for, and what the task itself does
Small(ts) == \E c \in Nat : Plan(ts, c) /\ c <= 53
Fits(t, ts) == \E c \in Nat : Plan(ts, c) /\ c + 1 <= Cost(t.f)
FitsDeep(t, ts) == \E c \in Nat : Plan(ts, c) /\ c + 2 <= Cost(t.f)

\* What a plan costs is a number.
LEMMA PlanNat == ASSUME NEW ts, NEW c, Plan(ts, c) PROVE c \in Nat /\ Listed(ts)
BY CostsNat DEF Plan, Costs

\* A list with nothing in front of it or behind it.
LEMMA JoinNone == ASSUME NEW s, Listed(s) PROVE <<>> \o s = s /\ s \o <<>> = s
<1> DEFINE S == {s[i] : i \in DOMAIN s}
<1>1. s \in Seq(S) BY DEF Listed
<1>2. QED BY <1>1

\* Push, Fail and the recursion guard leave what has been read
LEMMA PushIs ==
  ASSUME NEW m, Sound(m), NEW ts
  PROVE  LET n == Push(m, ts)
         IN Sound(n) /\ Left(n) = Left(m) /\ Owed(n) = Owed(m) /\ n.stack = ts \o m.stack /\ n.failed = m.failed
<1> DEFINE n == Push(m, ts)
<1>1. DOMAIN m = Fields BY DEF Sound, Good, Placed
<1>2. n = [m EXCEPT !.stack = ts \o m.stack] BY DEF Push
<1>3. /\ n.tokens = m.tokens /\ n.read = m.read /\ n.current = m.current /\ n.next = m.next
      /\ n.errors = m.errors /\ n.pending = m.pending /\ n.stack = ts \o m.stack /\ n.failed = m.failed
      /\ n.bad = m.bad /\ n.exited = m.exited /\ DOMAIN n = Fields
  BY <1>1, <1>2, FieldsAre
<1> HIDE DEF n
<1>4. Good(n) BY <1>3 DEF Sound, Good, Placed, Queued, Known
<1>5. Sound(n) BY <1>3, <1>4 DEF Sound
<1>6. Left(n) = Left(m) BY <1>3 DEF Left
<1>7. Owed(n) = Owed(m) BY <1>3, <1>6 DEF Owed
<1>8. QED BY <1>3, <1>5, <1>6, <1>7 DEF n

\* A failure costs no token.
LEMMA FailIs ==
  ASSUME NEW m, Sound(m), NEW err
  PROVE  LET n == Fail(m, err)
         IN Sound(n) /\ Left(n) = Left(m) /\ Owed(n) = Owed(m) /\ n.stack = m.stack /\ n.failed = err
<1> DEFINE n == Fail(m, err)
<1>1. DOMAIN m = Fields BY DEF Sound, Good, Placed
<1>2. n = [m EXCEPT !.failed = err] BY DEF Fail
<1>3. /\ n.tokens = m.tokens /\ n.read = m.read /\ n.current = m.current /\ n.next = m.next
      /\ n.errors = m.errors /\ n.pending = m.pending /\ n.stack = m.stack /\ n.failed = err
      /\ n.bad = m.bad /\ n.exited = m.exited /\ DOMAIN n = Fields
  BY <1>1, <1>2, FieldsAre
<1> HIDE DEF n
<1>4. Good(n) BY <1>3 DEF Sound, Good, Placed, Queued, Known
<1>5. Sound(n) BY <1>3, <1>4 DEF Sound
<1>6. Left(n) = Left(m) BY <1>3 DEF Left
<1>7. Owed(n) = Owed(m) BY <1>3, <1>6 DEF Owed
<1>8. QED BY <1>3, <1>5, <1>6, <1>7 DEF n

\* Pushing tasks with the recursion guard set costs no token.
LEMMA DeepIs ==
  ASSUME NEW m, Sound(m), NEW ts, NEW deep \in BOOLEAN
  PROVE  LET n == [Push(m, ts) EXCEPT !.exited = deep]
         IN Sound(n) /\ Left(n) = Left(m) /\ Owed(n) = Owed(m) /\ n.stack = ts \o m.stack /\ n.failed = m.failed
<1> DEFINE p == Push(m, ts)
           n == [p EXCEPT !.exited = deep]
<1>1. Sound(p) /\ Left(p) = Left(m) /\ Owed(p) = Owed(m) /\ p.stack = ts \o m.stack /\ p.failed = m.failed
      BY PushIs
<1> HIDE DEF p
<1>2. DOMAIN p = Fields BY <1>1 DEF Sound, Good, Placed
<1>3. /\ n.tokens = p.tokens /\ n.read = p.read /\ n.current = p.current /\ n.next = p.next
      /\ n.errors = p.errors /\ n.pending = p.pending /\ n.stack = p.stack /\ n.failed = p.failed
      /\ n.bad = p.bad /\ n.exited = deep /\ DOMAIN n = Fields
  BY <1>2, FieldsAre
<1> HIDE DEF n
<1>4. Good(n) BY <1>1, <1>3 DEF Sound, Good, Placed, Queued, Known
<1>5. Sound(n) BY <1>1, <1>3, <1>4 DEF Sound
<1>6. Left(n) = Left(p) BY <1>3 DEF Left
<1>7. Owed(n) = Owed(p) BY <1>3, <1>6 DEF Owed
<1>8. QED BY <1>1, <1>3, <1>5, <1>6, <1>7 DEF n, p

-----------------------------------------------------------------------------
(* How each outcome comes about *)

\* What a task costs, as a number.
LEMMA CostNat == \A f : Cost(f) \in Nat /\ 1 <= Cost(f)
<1>1. SUFFICES ASSUME NEW f PROVE Cost(f) \in Nat /\ 1 <= Cost(f) OBVIOUS
<1>2. Cost(f) \in 1..21 BY CostIs
<1>3. QED BY <1>2

\* The sums that the outcomes of a task rest on.
LEMMA Budgets ==
  /\ \A a, b, k \in Nat : a + 0 <= b /\ 3 <= k => a + 3 <= b + k
  /\ \A a, b, c, k \in Nat : a + 0 <= b /\ c + 1 <= k => a + c + 1 <= b + k
  /\ \A a, b, c, k \in Nat : a + 0 <= b /\ c <= 22 + k => a + c + 1 <= b + k + 23
  /\ \A a, b, c, k \in Nat : a + 79 <= b /\ c <= 53 + k => a + c + 26 <= b + k
OBVIOUS

\* what the tokens consumed pay for
LEMMA SpentPlan ==
  ASSUME NEW q, NEW t, NEW m, NEW n, NEW ts, NEW c, Spends(q, m, 79), Plan(ts, c), c <= 53 + Cost(t.f),
         Sound(m) => Sound(n) /\ Left(n) = Left(m) /\ Owed(n) = Owed(m) /\ n.stack = ts \o m.stack
  PROVE  Outcome(q, t, n)
<1>1. SUFFICES ASSUME Sound(q) PROVE Sound(n) /\ Left(n) <= Left(q) /\ Consumes(q, t, n) BY DEF Outcome
<1>2. Sound(m) /\ m.stack = q.stack /\ Left(m) <= Left(q) /\ Owed(m) + 79 <= Owed(q) BY <1>1 DEF Spends
<1>3. c \in Nat /\ Costs(ts, c) BY PlanNat DEF Plan
<1>4. Owed(q) \in Nat /\ Owed(n) \in Nat BY <1>1, <1>2, OwedIs
<1>5. Cost(t.f) \in Nat BY CostNat
<1>6. Owed(n) + c + 26 <= Owed(q) + Cost(t.f)
  <2>1. Owed(n) + 79 <= Owed(q) BY <1>2
  <2>2. QED BY <1>3, <1>4, <1>5, <2>1, Budgets
<1>7. Consumes(q, t, n) BY <1>2, <1>3, <1>6 DEF Consumes
<1>8. QED BY <1>2, <1>7

\* A task that has consumed a token may push a small plan.
LEMMA SpentPush == ASSUME NEW q, NEW t, NEW m, NEW ts, Spends(q, m, 79), Small(ts) PROVE Outcome(q, t, Push(m, ts))
<1>1. PICK c \in Nat : Plan(ts, c) /\ c <= 53 BY DEF Small
<1>2. c <= 53 + Cost(t.f) BY <1>1, CostIs
<1> DEFINE n == Push(m, ts)
<1>3. Sound(m) => Sound(n) /\ Left(n) = Left(m) /\ Owed(n) = Owed(m) /\ n.stack = ts \o m.stack BY PushIs
<1> HIDE DEF n
<1>4. Outcome(q, t, n) BY <1>1, <1>2, <1>3, SpentPlan
<1>5. QED BY <1>4 DEF n

\* It may do so under the recursion guard.
LEMMA SpentDeep == ASSUME NEW q, NEW t, NEW m, NEW ts, NEW i, Spends(q, m, 79), Small(ts) PROVE Outcome(q, t, recursion_check(m, i, ts))
<1>1. PICK c \in Nat : Plan(ts, c) /\ c <= 53 BY DEF Small
<1> DEFINE d == With("drop", "", i)
           all == ts \o <<d>>
           deep == Guards(m) + i > MAX_DEPTH
           n == [Push(m, all) EXCEPT !.exited = deep]
<1>2. Plan(<<d>>, 1) BY Prices, Plan1
<1>3. Plan(all, c + 1) BY <1>1, <1>2, PlanJoin
<1>4. c + 1 <= 53 + Cost(t.f) BY <1>1, CostIs
<1>5. deep \in BOOLEAN OBVIOUS
<1> HIDE DEF deep, all
<1>6. Sound(m) => Sound(n) /\ Left(n) = Left(m) /\ Owed(n) = Owed(m) /\ n.stack = all \o m.stack
      BY <1>5, DeepIs
<1>7. recursion_check(m, i, ts) = n BY DEF recursion_check, all, deep
<1> HIDE DEF n
<1>8. Outcome(q, t, n) BY <1>3, <1>4, <1>6, SpentPlan
<1>9. QED BY <1>7, <1>8

\* It may end.
LEMMA SpentDone == ASSUME NEW q, NEW t, NEW m, Spends(q, m, 79) PROVE Outcome(q, t, m)
<1>1. SUFFICES ASSUME Sound(q), Listed(q.stack) PROVE Sound(m) /\ Left(m) <= Left(q) /\ Consumes(q, t, m)
      BY DEF Outcome
<1>2. Sound(m) /\ m.stack = q.stack /\ Left(m) <= Left(q) /\ Owed(m) + 79 <= Owed(q) BY <1>1 DEF Spends
<1>3. Owed(q) \in Nat /\ Owed(m) \in Nat /\ Cost(t.f) \in Nat
  <2>1. Cost(t.f) \in Nat BY CostNat
  <2>2. Owed(q) \in Nat /\ Owed(m) \in Nat BY <1>1, <1>2, OwedIs
  <2>3. QED BY <2>1, <2>2
<1>4. Owed(m) + 0 + 26 <= Owed(q) + Cost(t.f)
  <2>1. Owed(m) + 79 <= Owed(q) /\ 0 \in Nat /\ 0 <= 53 + Cost(t.f) BY <1>2, <1>3
  <2>2. QED BY <1>3, <2>1, Budgets
<1>5. Costs(<<>>, 0) /\ m.stack = <<>> \o q.stack BY <1>1, <1>2, CostsNone, JoinNone
<1>6. QED BY <1>2, <1>4, <1>5 DEF Consumes

\* It may fail.
LEMMA SpentFail == ASSUME NEW q, NEW t, NEW m, NEW err, Spends(q, m, 79) PROVE Outcome(q, t, Fail(m, err))
<1> DEFINE n == Fail(m, err)
<1>1. SUFFICES ASSUME Sound(q), Listed(q.stack) PROVE Sound(n) /\ Left(n) <= Left(q) /\ Consumes(q, t, n)
      BY DEF Outcome
<1>2. Sound(m) /\ m.stack = q.stack /\ Left(m) <= Left(q) /\ Owed(m) + 79 <= Owed(q) BY <1>1 DEF Spends
<1>3. Sound(n) /\ Left(n) = Left(m) /\ Owed(n) = Owed(m) /\ n.stack = m.stack BY <1>2, FailIs
<1> HIDE DEF n
<1>4. Owed(q) \in Nat /\ Owed(n) \in Nat /\ Cost(t.f) \in Nat
  <2>1. Cost(t.f) \in Nat BY CostNat
  <2>2. Owed(q) \in Nat /\ Owed(n) \in Nat BY <1>1, <1>3, OwedIs
  <2>3. QED BY <2>1, <2>2
<1>5. Owed(n) + 0 + 26 <= Owed(q) + Cost(t.f)
  <2>1. Owed(n) + 79 <= Owed(q) /\ 0 \in Nat /\ 0 <= 53 + Cost(t.f) BY <1>2, <1>3, <1>4
  <2>2. QED BY <1>4, <2>1, Budgets
<1>6. Costs(<<>>, 0) /\ n.stack = <<>> \o q.stack BY <1>1, <1>2, <1>3, CostsNone, JoinNone
<1>7. QED BY <1>2, <1>3, <1>5, <1>6 DEF Consumes

\* what a task pays for itself
LEMMA FreePlan ==
  ASSUME NEW q, NEW t, NEW m, NEW n, NEW ts, NEW c, Spends(q, m, 0), Plan(ts, c), c + 1 <= Cost(t.f), Keeps(t, ts),
         Sound(m) => Sound(n) /\ Left(n) = Left(m) /\ Owed(n) = Owed(m) /\ n.stack = ts \o m.stack /\ n.failed = m.failed
  PROVE  Outcome(q, t, n)
<1>1. SUFFICES ASSUME Sound(q), q.failed = "" PROVE Sound(n) /\ Left(n) <= Left(q) /\ Proceeds(q, t, n)
      BY DEF Outcome
<1>2. Sound(m) /\ m.stack = q.stack /\ m.failed = "" /\ Left(m) <= Left(q) /\ Owed(m) + 0 <= Owed(q)
      BY <1>1 DEF Spends
<1>3. c \in Nat BY PlanNat
<1>4. Owed(q) \in Nat /\ Owed(n) \in Nat BY <1>1, <1>2, OwedIs
<1>5. Cost(t.f) \in Nat BY CostIs
<1>6. Owed(n) + c + 1 <= Owed(q) + Cost(t.f)
  <2>1. Owed(n) + 0 <= Owed(q) BY <1>2
  <2>2. QED BY <1>3, <1>4, <1>5, <2>1, Budgets
<1>7. Proceeds(q, t, n) BY <1>2, <1>6 DEF Proceeds
<1>8. QED BY <1>2, <1>7

\* A task that has consumed none pushes what its own price pays.
LEMMA FreePush ==
  ASSUME NEW q, NEW t, NEW m, NEW ts, Spends(q, m, 0), Fits(t, ts), Keeps(t, ts)
  PROVE  Outcome(q, t, Push(m, ts))
<1>1. PICK c \in Nat : Plan(ts, c) /\ c + 1 <= Cost(t.f) BY DEF Fits
<1> DEFINE n == Push(m, ts)
<1>2. Sound(m) => Sound(n) /\ Left(n) = Left(m) /\ Owed(n) = Owed(m) /\ n.stack = ts \o m.stack /\ n.failed = m.failed
      BY PushIs
<1> HIDE DEF n
<1>3. Outcome(q, t, n) BY <1>1, <1>2, FreePlan
<1>4. QED BY <1>3 DEF n

\* It ends only where no token is owed.
LEMMA FreeDone == ASSUME NEW q, NEW t, NEW m, Spends(q, m, 0), Keeps(t, <<>>) PROVE Outcome(q, t, m)
<1>1. SUFFICES ASSUME Sound(q), Listed(q.stack), q.failed = "" PROVE Sound(m) /\ Left(m) <= Left(q) /\ Proceeds(q, t, m)
      BY DEF Outcome
<1>2. Sound(m) /\ m.stack = q.stack /\ m.failed = "" /\ Left(m) <= Left(q) /\ Owed(m) + 0 <= Owed(q)
      BY <1>1 DEF Spends
<1>3. Owed(q) \in Nat /\ Owed(m) \in Nat /\ Cost(t.f) \in 1..21 BY <1>1, <1>2, OwedIs, CostIs
<1>4. Owed(m) + 0 + 1 <= Owed(q) + Cost(t.f)
  <2>1. Owed(m) + 0 <= Owed(q) BY <1>2
  <2>2. Cost(t.f) \in Nat /\ 0 \in Nat /\ 0 + 1 <= Cost(t.f) BY CostNat
  <2>3. QED BY <1>3, <2>1, <2>2, Budgets
<1>5. Plan(<<>>, 0) /\ m.stack = <<>> \o q.stack BY <1>1, <1>2, PlanNone, JoinNone
<1>6. QED BY <1>2, <1>4, <1>5 DEF Proceeds

\* The debt is kept when the guard is dropped behind the plan.
LEMMA KeepsDeep ==
  ASSUME NEW t, NEW ts, NEW d, Listed(ts), ts # <<>>, Keeps(t, ts), d.f = "drop"
  PROVE  Keeps(t, ts \o <<d>>)
<1> DEFINE a == ts \o <<d>>
<1>1. Listed(<<d>>) /\ Len(<<d>>) = 1 BY DEF Listed
<1>2. \A b : Reaches(ts, b) => Reaches(a, b) BY <1>1, ReachesJoin
<1>3. Len(ts) \in Nat /\ Len(ts) >= 1 /\ DOMAIN ts = 1..Len(ts) /\ Head(ts) = ts[1]
  BY ListedTail, ListedIs
<1>4. /\ Listed(a) /\ Len(a) = Len(ts) + 1
      /\ \A i \in 1..Len(ts) : a[i] = ts[i]
      /\ a[Len(ts) + 1] = d
  <2>1. /\ Listed(a) /\ Len(a) = Len(ts) + Len(<<d>>)
        /\ \A i \in 1..Len(ts) : a[i] = ts[i]
        /\ \A i \in 1..Len(<<d>>) : a[Len(ts) + i] = <<d>>[i]
    BY <1>1, ListedJoin
  <2>2. 1 \in 1..Len(<<d>>) /\ <<d>>[1] = d BY <1>1
  <2>3. QED BY <1>1, <2>1, <2>2
<1> HIDE DEF a
<1>5. DOMAIN a = 1..(Len(ts) + 1) BY <1>4, ListedIs
<1>6. Open(ts) => Open(a)
  <2>1. SUFFICES ASSUME Open(ts), NEW i \in 1..(Len(ts) + 1) PROVE a[i].f \in Transparent BY <1>5 DEF Open
  <2>2. CASE i \in 1..Len(ts) BY <1>3, <1>4, <2>1, <2>2 DEF Open
  <2>3. CASE i = Len(ts) + 1 BY <1>4, <2>3 DEF Transparent
  <2>4. QED BY <1>3, <2>2, <2>3
<1>7. a # <<>> /\ Head(a) = Head(ts)
  <2>1. a # <<>> BY <1>3, <1>4
  <2>2. Head(a) = a[1] BY <1>4, <2>1, ListedTail
  <2>3. 1 \in 1..Len(ts) BY <1>3
  <2>4. QED BY <1>3, <1>4, <2>1, <2>2, <2>3
<1>8. QED BY <1>2, <1>6, <1>7 DEF Keeps, a

\* A task that has consumed none may push a plan under the recursion guard.
LEMMA FreeDeep ==
  ASSUME NEW q, NEW t, NEW m, NEW ts, NEW i, Spends(q, m, 0), FitsDeep(t, ts), ts # <<>>, Keeps(t, ts)
  PROVE  Outcome(q, t, recursion_check(m, i, ts))
<1>1. PICK c \in Nat : Plan(ts, c) /\ c + 2 <= Cost(t.f) BY DEF FitsDeep
<1> DEFINE d == With("drop", "", i)
           all == ts \o <<d>>
           deep == Guards(m) + i > MAX_DEPTH
           n == [Push(m, all) EXCEPT !.exited = deep]
<1>2. Plan(<<d>>, 1) BY Prices, Plan1
<1>3. Plan(all, c + 1) BY <1>1, <1>2, PlanJoin
<1>4. (c + 1) + 1 <= Cost(t.f) BY <1>1, CostIs
<1>5. deep \in BOOLEAN OBVIOUS
<1>6. Keeps(t, all)
  <2>1. d.f = "drop" BY DEF With, Task
  <2>2. Listed(ts) BY <1>1, PlanNat
  <2> HIDE DEF d
  <2>3. QED BY <2>1, <2>2, KeepsDeep
<1> HIDE DEF deep, all
<1>7. Sound(m) => Sound(n) /\ Left(n) = Left(m) /\ Owed(n) = Owed(m) /\ n.stack = all \o m.stack /\ n.failed = m.failed
      BY <1>5, DeepIs
<1>8. recursion_check(m, i, ts) = n BY DEF recursion_check, all, deep
<1> HIDE DEF n
<1>9. Outcome(q, t, n) BY <1>3, <1>4, <1>6, <1>7, FreePlan
<1>10. QED BY <1>8, <1>9

\* an error that no token pays for
LEMMA FreeFail ==
  ASSUME NEW q, NEW t, NEW m, NEW err, err # "", Spends(q, m, 0), 3 <= Cost(t.f), Sound(m) => Left(m) = 0 \/ Calm(t)
  PROVE  Outcome(q, t, Fail(m, err))
<1> DEFINE n == Fail(m, err)
<1>1. ASSUME Sound(q) PROVE Sound(n) /\ Left(n) <= Left(q) /\ GivesUp(q, t, n)
  <2>1. Sound(m) /\ m.stack = q.stack /\ Left(m) <= Left(q) /\ Owed(m) + 0 <= Owed(q) BY <1>1 DEF Spends
  <2>2. Sound(n) /\ Left(n) = Left(m) /\ Owed(n) = Owed(m) /\ n.stack = m.stack /\ n.failed = err
        BY <2>1, FailIs
  <2> HIDE DEF n
  <2>3. Owed(q) \in Nat /\ Owed(n) \in Nat /\ Cost(t.f) \in Nat
    <3>1. Cost(t.f) \in Nat BY CostNat
    <3>2. Owed(q) \in Nat /\ Owed(n) \in Nat BY <1>1, <2>2, OwedIs
    <3>3. QED BY <3>1, <3>2
  <2>4. Owed(n) + 3 <= Owed(q) + Cost(t.f)
    <3>1. Owed(n) + 0 <= Owed(q) BY <2>1, <2>2
    <3>2. QED BY <2>3, <3>1, Budgets
  <2>5. Left(n) = 0 \/ Calm(t) BY <2>1, <2>2
  <2>6. QED BY <2>1, <2>2, <2>4, <2>5 DEF GivesUp
<1> HIDE DEF n
<1>2. Outcome(q, t, n) BY <1>1, Zenon DEF Outcome
<1>3. QED BY <1>2 DEF n

\* a task that owes to a token that is to come
LEMMA Advances ==
  ASSUME NEW q, NEW t, NEW m, NEW ts, NEW c, Spends(q, m, 0), Plan(ts, c), c <= 22 + Cost(t.f), Settled(t),
         \A b \in BOOLEAN : Reaches(ts, b)
  PROVE  Outcome(q, t, Push(m, ts))
<1> DEFINE n == Push(m, ts)
<1>1. SUFFICES ASSUME Sound(q), q.failed = "" PROVE Sound(n) /\ Left(n) <= Left(q) /\ Opens(q, t, n)
      BY DEF Outcome
<1>2. Sound(m) /\ m.stack = q.stack /\ m.failed = "" /\ Left(m) <= Left(q) /\ Owed(m) + 0 <= Owed(q)
      BY <1>1 DEF Spends
<1>3. Sound(n) /\ Left(n) = Left(m) /\ Owed(n) = Owed(m) /\ n.stack = ts \o m.stack /\ n.failed = m.failed
      BY <1>2, PushIs
<1> HIDE DEF n
<1>4. c \in Nat BY PlanNat
<1>5. Owed(q) \in Nat /\ Owed(n) \in Nat BY <1>1, <1>3, OwedIs
<1>6. Cost(t.f) \in Nat BY CostIs
<1>7. Owed(n) + c + 1 <= Owed(q) + Cost(t.f) + 23
  <2>1. Owed(n) + 0 <= Owed(q) BY <1>2, <1>3
  <2>2. QED BY <1>4, <1>5, <1>6, <2>1, Budgets
<1>8. Opens(q, t, n) BY <1>2, <1>3, <1>7 DEF Opens
<1>9. QED BY <1>2, <1>3, <1>8

-----------------------------------------------------------------------------
(* The rules, and what they ask for *)

\* a token that is there pays
LEMMA Pays == \A m : Kind(m) # "<none>" => Spends(m, Take(m), 79)
BY KindIsToken, TakePays

\* What is gained after looking ahead.
LEMMA SpendsVia == \A q, p, n : Spends(q, p, 0) /\ Spends(p, n, 79) => Spends(q, n, 79)
<1>1. 0 \in Nat /\ 79 \in Nat /\ 0 + 79 = 79 OBVIOUS
<1>2. SUFFICES ASSUME NEW q, NEW p, NEW n, Spends(q, p, 0), Spends(p, n, 79) PROVE Spends(q, n, 79) OBVIOUS
<1>3. Spends(q, n, 0 + 79) BY <1>1, <1>2, SpendsTransitive
<1>4. QED BY <1>1, <1>3

\* the tasks by which nothing is owed, and those that hand it on
LEMMA SettledIs ==
  ASSUME NEW t,
         t.f \notin Transparent \cup Leaves \cup {"external_declaration", "declared", "struct_declarators", "more_declarators",
                                                  "statement", "any_statement", "unary"}
  PROVE  Settled(t) /\ Calm(t) /\ \A ts : Keeps(t, ts)
<1>1. \A b : ~Needs(t, b) BY DEF Needs, Transparent, Leaves
<1>2. QED BY <1>1 DEF Settled, Calm, Keeps

\* A task that owes no token may end without one.
LEMMA KeepsNone == ASSUME NEW t, t.f \notin Leaves, \A b \in BOOLEAN : ~Needs(t, b) PROVE Keeps(t, <<>>)
<1>1. Open(<<>>) BY DEF Open
<1>2. QED BY <1>1 DEF Keeps

\* What costs 53 at most is small.
LEMMA SmallIs == \A ts, c : Plan(ts, c) /\ c <= 53 => Small(ts)
BY PlanNat DEF Small

\* What costs less than the task fits it.
LEMMA FitsIs == \A t, ts, c : Plan(ts, c) /\ c + 1 <= Cost(t.f) => Fits(t, ts)
BY PlanNat DEF Fits

\* With the guard to drop it costs one less.
LEMMA FitsDeepIs == \A t, ts, c : Plan(ts, c) /\ c + 2 <= Cost(t.f) => FitsDeep(t, ts)
BY PlanNat DEF FitsDeep

\* where a list reaches a token
LEMMA ReachesHead == ASSUME NEW a, NEW s, Listed(s), NEW b, Needs(a, b) PROVE Reaches(<<a>>, b) /\ Reaches(<<a>> \o s, b)
<1>1. DOMAIN <<a>> = {1} /\ <<a>>[1] = a /\ Listed(<<a>>) /\ \A j \in 1..(1 - 1) : FALSE BY DEF Listed
<1>2. Reaches(<<a>>, b) BY <1>1 DEF Reaches
<1>3. QED BY <1>1, <1>2, ReachesJoin

\* A task that may end without a token, as a list.
LEMMA OpenOne == ASSUME NEW a, a.f \in Transparent PROVE Open(<<a>>) /\ Listed(<<a>>)
BY DEF Open, Listed

\* What reaches a token does so behind such a task.
LEMMA ReachesTail == ASSUME NEW a, NEW s, Listed(s), NEW b, a.f \in Transparent, Reaches(s, b) PROVE Reaches(<<a>> \o s, b)
BY OpenOne, ReachesJoin

\* The fields of the tasks that the functions push.
LEMMA TaskIs ==
  /\ \A f : Task(f).f = f /\ Task(f).x = "" /\ Task(f).errs = <<>>
  /\ \A f, x, n : With(f, x, n).f = f /\ With(f, x, n).x = x /\ With(f, x, n).errs = <<>>
  /\ \A o, v, n : Build(o, v, n).f = "build"
  /\ \A k : Expect(k).f = "expect"
BY DEF Task, With, Build, Expect

\* Tuples of tasks are lists.
LEMMA ListedTuples ==
  /\ \A a : Listed(<<a>>)
  /\ \A a, b : Listed(<<a, b>>)
  /\ \A a, b, c : Listed(<<a, b, c>>)
  /\ \A a, b, c, d : Listed(<<a, b, c, d>>)
<1>1. ASSUME NEW a PROVE Listed(<<a>>) BY DEF Listed
<1>2. ASSUME NEW a, NEW b PROVE Listed(<<a, b>>) BY <1>1, Join2, ListedJoin
<1>3. ASSUME NEW a, NEW b, NEW c PROVE Listed(<<a, b, c>>) BY <1>1, <1>2, Join3, ListedJoin
<1>4. ASSUME NEW a, NEW b, NEW c, NEW d PROVE Listed(<<a, b, c, d>>)
  <2>1. Listed(<<a, b>> \o <<c, d>>) BY <1>2, ListedJoin
  <2>2. <<a, b, c, d>> = <<a, b>> \o <<c, d>> BY Join4
  <2>3. QED BY <2>1, <2>2, Zenon
<1>5. QED BY <1>1, <1>2, <1>3, <1>4

-----------------------------------------------------------------------------
(* The tasks that do not look at a token *)

\* The tasks that only work on what has been parsed.
LEMMA SimpleOutcomes ==
  ASSUME NEW q, NEW t
  PROVE  /\ t.f = "build" => Outcome(q, t, Built(q, t.x, t.v, t.n))
         /\ t.f = "append" => Outcome(q, t, Appended(q))
         /\ t.f = "declarators" => Outcome(q, t, Yield(q, Empty))
         /\ t.f = "merge" => Outcome(q, t, merge_decls(q, t.x, t.v))
         /\ t.f = "pointer" => Outcome(q, t, pointer(q))
         /\ t.f = "drop" => Outcome(q, t, q)
<1>1. t.f \in {"build", "append", "declarators", "merge", "pointer", "drop"} => Keeps(t, <<>>)
  <2>1. SUFFICES ASSUME t.f \in {"build", "append", "declarators", "merge", "pointer", "drop"} PROVE Keeps(t, <<>>) OBVIOUS
  <2>2. t.f \notin Leaves /\ \A b : ~Needs(t, b) BY <2>1 DEF Leaves, Needs
  <2>3. QED BY <2>2, KeepsNone
<1>2. t.f = "build" => Outcome(q, t, Built(q, t.x, t.v, t.n)) BY <1>1, BuiltSpends, FreeDone
<1>3. t.f = "append" => Outcome(q, t, Appended(q)) BY <1>1, AppendedSpends, FreeDone
<1>4. t.f = "declarators" => Outcome(q, t, Yield(q, Empty)) BY <1>1, YieldSpends, FreeDone
<1>5. t.f = "merge" => Outcome(q, t, merge_decls(q, t.x, t.v)) BY <1>1, MergeSpends, FreeDone
<1>6. t.f = "pointer" => Outcome(q, t, pointer(q)) BY <1>1, PointerSpends, FreeDone
<1>7. t.f = "drop" => Outcome(q, t, q) BY <1>1, SpendsNone, FreeDone
<1>8. QED BY <1>2, <1>3, <1>4, <1>5, <1>6, <1>7

\* The tasks that only push others.
LEMMA SilentOutcomes ==
  ASSUME NEW q, NEW t
  PROVE  /\ t.f = "binary_expr" => Outcome(q, t, binary_expr(q, t.n))
         /\ t.f = "cast" => Outcome(q, t, Push(q, <<Task("unary"), Build("cast", "", 2)>>))
         /\ t.f = "type_name" => Outcome(q, t, type_name(q))
         /\ t.f = "type" => Outcome(q, t, type(q))
         /\ t.f = "aggregate" => Outcome(q, t, aggregate_initializer(q))
         /\ t.f = "external_declaration" => Outcome(q, t, external_declaration(q))
         /\ t.f = "definition" => Outcome(q, t, definition(q))
         /\ t.f = "into_declaration" => Outcome(q, t, into_declaration(q))
         /\ t.f = "statement" => Outcome(q, t, statement(q))
<1>1. ASSUME t.f = "binary_expr" PROVE Outcome(q, t, binary_expr(q, t.n))
  <2> DEFINE ts == <<With("operators", "", t.n)>>
  <2>1. Plan(ts, 1) BY ExpressionPlans
  <2>2. 1 + 2 <= Cost(t.f) BY <1>1, CostTable
  <2>3. FitsDeep(t, ts) BY <2>1, <2>2, FitsDeepIs
  <2>4. Keeps(t, ts) BY <1>1, SettledIs DEF Transparent, Leaves
  <2>5. ts # <<>> OBVIOUS
  <2> HIDE DEF ts
  <2>6. Outcome(q, t, recursion_check(q, 1, ts)) BY <2>3, <2>4, <2>5, SpendsNone, FreeDeep
  <2>7. QED BY <2>6 DEF binary_expr, ts
<1>2. ASSUME t.f = "cast" PROVE Outcome(q, t, Push(q, <<Task("unary"), Build("cast", "", 2)>>))
  <2> DEFINE ts == <<Task("unary"), Build("cast", "", 2)>>
  <2>1. Plan(ts, 7) BY ExpressionPlans
  <2> HIDE DEF ts
  <2>2. 7 + 1 <= Cost(t.f) BY <1>2, CostTable
  <2>3. Fits(t, ts) BY <2>1, <2>2, FitsIs
  <2>4. Keeps(t, ts) BY <1>2, SettledIs DEF Transparent, Leaves
  <2>5. QED BY <2>3, <2>4, SpendsNone, FreePush DEF ts
<1>3. ASSUME t.f = "type_name" PROVE Outcome(q, t, type_name(q))
  <2> DEFINE ts == <<With("specifiers", "", 0), With("declarator", "abstract", 0), Task("type")>>
  <2>1. Plan(ts, 9) BY DeclaratorPlans
  <2> HIDE DEF ts
  <2>2. 9 + 1 <= Cost(t.f) BY <1>3, CostTable
  <2>3. Fits(t, ts) BY <2>1, <2>2, FitsIs
  <2>4. Keeps(t, ts) BY <1>3, SettledIs DEF Transparent, Leaves
  <2>5. Outcome(q, t, Push(Yield(q, Empty), ts)) BY <2>3, <2>4, YieldSpends, FreePush
  <2>6. QED BY <2>5 DEF ts, type_name
<1>4. ASSUME t.f = "type" PROVE Outcome(q, t, type(q))
  <2>1. Calm(t) /\ Keeps(t, <<>>) BY <1>4, SettledIs DEF Transparent, Leaves
  <2>2. 3 <= Cost(t.f) BY <1>4, CostTable
  <2>3. Outcome(q, t, Fail(q, "ExpectedType")) BY <2>1, <2>2, SpendsNone, FreeFail
  <2>4. Outcome(q, t, Built(q, "type", "", 2)) BY <2>1, BuiltSpends, FreeDone
  <2>5. QED BY <2>3, <2>4 DEF type
<1>5. ASSUME t.f = "aggregate" PROVE Outcome(q, t, aggregate_initializer(q))
  <2> DEFINE ts == <<Task("elements"), Build("braces", "", 1)>>
  <2>1. Plan(ts, 16) BY DeclarationPlans
  <2>5. ts # <<>> OBVIOUS
  <2> HIDE DEF ts
  <2>2. 16 + 2 <= Cost(t.f) BY <1>5, CostTable
  <2>3. FitsDeep(t, ts) BY <2>1, <2>2, FitsDeepIs
  <2>4. Keeps(t, ts) BY <1>5, SettledIs DEF Transparent, Leaves
  <2>6. Outcome(q, t, recursion_check(Yield(q, Empty), 1, ts)) BY <2>3, <2>4, <2>5, YieldSpends, FreeDeep
  <2>7. QED BY <2>6 DEF aggregate_initializer, ts
<1>6. ASSUME t.f = "external_declaration" PROVE Outcome(q, t, external_declaration(q))
  <2> DEFINE a == With("specifiers", "", 0)
             d == Task("declared")
             ts == <<a, d>>
  <2>1. Plan(ts, 14) BY DeclarationPlans
  <2>2. 14 + 1 <= Cost(t.f) BY <1>6, CostTable
  <2>3. \A b : Reaches(ts, b)
    <3>1. a.f \in Transparent
      <4>1. a.f = "specifiers" BY DEF With, Task
      <4>2. QED BY <4>1 DEF Transparent
    <3>2. \A b : Needs(d, b) BY TaskIs DEF Needs
    <3> HIDE DEF a, d
    <3>3. \A b : Reaches(<<d>>, b) BY <3>2, ReachesHead, ListedTuples
    <3>4. \A b : Reaches(<<a>> \o <<d>>, b) BY <3>1, <3>3, ReachesTail, ListedTuples
    <3>5. QED BY <3>4, Join2
  <2>4. Keeps(t, ts) BY <1>6, <2>3 DEF Keeps, Transparent, Leaves
  <2> HIDE DEF ts
  <2>5. Fits(t, ts) BY <2>1, <2>2, FitsIs
  <2>6. Outcome(q, t, Push(Yield(q, Empty), ts)) BY <2>4, <2>5, YieldSpends, FreePush
  <2>7. QED BY <2>6 DEF ts, external_declaration
<1>7. ASSUME t.f = "definition" PROVE Outcome(q, t, definition(q))
  <2>1. Calm(t) /\ Keeps(t, <<>>) BY <1>7, SettledIs DEF Transparent, Leaves
  <2>2. 3 <= Cost(t.f) BY <1>7, CostTable
  <2>3. Outcome(q, t, Fail(q, "MissingFunctionName")) BY <2>1, <2>2, SpendsNone, FreeFail
  <2>4. Outcome(q, t, Built(q, "definition", "", 3)) BY <2>1, BuiltSpends, FreeDone
  <2>5. QED BY <2>3, <2>4 DEF definition
<1>8. ASSUME t.f = "into_declaration" PROVE Outcome(q, t, into_declaration(q))
  <2>1. Calm(t) /\ Keeps(t, <<>>) BY <1>8, SettledIs DEF Transparent, Leaves
  <2>2. 3 <= Cost(t.f) BY <1>8, CostTable
  <2>3. Outcome(q, t, Fail(q, "FunctionNotAllowed")) BY <2>1, <2>2, SpendsNone, FreeFail
  <2>4. Outcome(q, t, q) BY <2>1, SpendsNone, FreeDone
  <2>5. QED BY <2>3, <2>4 DEF into_declaration
<1>9. ASSUME t.f = "statement" PROVE Outcome(q, t, statement(q))
  <2> DEFINE a == Task("any_statement")
             ts == <<a>>
  <2>1. Plan(ts, 19) BY StatementPlans
  <2>2. 19 + 2 <= Cost(t.f) BY <1>9, CostTable
  <2>3. \A b : Needs(t, b) => Needs(a, b) BY <1>9, TaskIs DEF Needs
  <2>4. ts # <<>> OBVIOUS
  <2> HIDE DEF a
  <2>5. \A b : Needs(t, b) => Reaches(ts, b) BY <2>3, ReachesHead, ListedTuples
  <2>6. Keeps(t, ts) BY <1>9, <2>5 DEF Keeps, Transparent, Leaves
  <2> HIDE DEF ts
  <2>7. FitsDeep(t, ts) BY <2>1, <2>2, FitsDeepIs
  <2>8. Outcome(q, t, recursion_check(q, 2, ts)) BY <2>4, <2>6, <2>7, SpendsNone, FreeDeep
  <2>9. QED BY <2>8 DEF statement, ts, a
<1>10. QED BY <1>1, <1>2, <1>3, <1>4, <1>5, <1>6, <1>7, <1>8, <1>9

\* an error that is reported is paid for by the task that finds it
LEMMA NamedMemberOutcome == ASSUME NEW q, NEW t, t.f = "named_member" PROVE Outcome(q, t, named_member(q))
<1>1. Keeps(t, <<>>)
  <2>1. t.f \notin Leaves /\ \A b : ~Needs(t, b) BY DEF Leaves, Needs
  <2>2. QED BY <2>1, KeepsNone
<1>2. Outcome(q, t, q) BY <1>1, SpendsNone, FreeDone
<1>3. Outcome(q, t, Report(q, "unnamed member"))
  <2> DEFINE n == Report(q, "unnamed member")
  <2>1. SUFFICES ASSUME Sound(q), Listed(q.stack), q.failed = "" PROVE Sound(n) /\ Left(n) <= Left(q) /\ Proceeds(q, t, n)
        BY DEF Outcome
  <2>2. DOMAIN q = Fields BY <2>1 DEF Sound, Good, Placed
  <2>3. /\ n.tokens = q.tokens /\ n.read = q.read /\ n.current = q.current /\ n.next = q.next
        /\ n.errors = Append(q.errors, "unnamed member") /\ n.pending = q.pending /\ n.stack = q.stack /\ n.failed = q.failed
        /\ n.bad = q.bad /\ n.exited = q.exited /\ DOMAIN n = Fields
    BY <2>2, FieldsAre DEF Report
  <2> HIDE DEF n
  <2>4. Listed(n.errors) /\ Len(n.errors) = Len(q.errors) + 1 BY <2>1, <2>3, ListedAppend DEF Sound
  <2>5. Good(n) BY <2>1, <2>3 DEF Sound, Good, Placed, Queued, Known
  <2>6. Sound(n) BY <2>1, <2>3, <2>4, <2>5 DEF Sound
  <2>7. Left(n) = Left(q) /\ Left(q) \in Nat BY <2>1, <2>3, OwedIs DEF Left
  <2>8. Owed(n) = Owed(q) + 1
    <3> DEFINE l == Left(q)
               e == Len(q.errors)
               p == Len(q.pending)
    <3>1. Owed(q) = 80 * l + e + p /\ l \in Nat /\ e \in Nat /\ p \in Nat BY <2>1, OwedIs
    <3>2. Owed(n) = 80 * l + (e + 1) + p BY <2>3, <2>4, <2>6, <2>7, OwedIs
    <3> HIDE DEF l, e, p
    <3>3. QED BY <3>1, <3>2
  <2>9. Cost(t.f) = 2 BY CostTable
  <2>10. Owed(n) + 0 + 1 <= Owed(q) + Cost(t.f)
    <3> DEFINE o == Owed(q)
    <3>1. o \in Nat BY <2>1, OwedIs
    <3> HIDE DEF o
    <3>2. (o + 1) + 0 + 1 <= o + 2 BY <3>1
    <3>3. QED BY <2>8, <2>9, <3>2, Zenon DEF o
  <2>11. Plan(<<>>, 0) /\ n.stack = <<>> \o q.stack BY <2>1, <2>3, PlanNone, JoinNone
  <2>12. n.failed = "" BY <2>1, <2>3
  <2>13. Proceeds(q, t, n) BY <1>1, <2>10, <2>11, <2>12, Zenon DEF Proceeds
  <2>14. Left(n) <= Left(q) BY <2>7
  <2>15. QED BY <2>6, <2>13, <2>14
<1>4. QED BY <1>2, <1>3 DEF named_member

\* what was parsed is returned later
LEMMA ParsedOutcome ==
  ASSUME NEW q, NEW t, t.f = "parsed"
  PROVE  Outcome(q, t, [q EXCEPT !.pending = Append(@, q.vals[1]), !.vals = <<>>])
<1> DEFINE n == [q EXCEPT !.pending = Append(@, q.vals[1]), !.vals = <<>>]
<1>1. SUFFICES ASSUME Sound(q), Listed(q.stack), q.failed = "" PROVE Sound(n) /\ Left(n) <= Left(q) /\ Proceeds(q, t, n)
      BY DEF Outcome
<1>2. DOMAIN q = Fields BY <1>1 DEF Sound, Good, Placed
<1>3. /\ n.tokens = q.tokens /\ n.read = q.read /\ n.current = q.current /\ n.next = q.next
      /\ n.errors = q.errors /\ n.pending = Append(q.pending, q.vals[1]) /\ n.stack = q.stack /\ n.failed = q.failed
      /\ n.bad = q.bad /\ n.exited = q.exited /\ DOMAIN n = Fields
  BY <1>2, FieldsAre
<1> HIDE DEF n
<1>4. Listed(n.pending) /\ Len(n.pending) = Len(q.pending) + 1 BY <1>1, <1>3, ListedAppend DEF Sound
<1>5. Good(n) BY <1>1, <1>3 DEF Sound, Good, Placed, Queued, Known
<1>6. Sound(n) BY <1>1, <1>3, <1>4, <1>5 DEF Sound
<1>7. Left(n) = Left(q) /\ Left(q) \in Nat BY <1>1, <1>3, OwedIs DEF Left
<1>8. Owed(n) = Owed(q) + 1
  <2> DEFINE l == Left(q)
             e == Len(q.errors)
             p == Len(q.pending)
  <2>1. Owed(q) = 80 * l + e + p /\ l \in Nat /\ e \in Nat /\ p \in Nat BY <1>1, OwedIs
  <2>2. Owed(n) = 80 * l + e + (p + 1) BY <1>3, <1>4, <1>6, <1>7, OwedIs
  <2> HIDE DEF l, e, p
  <2>3. QED BY <2>1, <2>2
<1>9. Cost(t.f) = 2 BY CostTable
<1>10. Owed(n) + 0 + 1 <= Owed(q) + Cost(t.f)
  <2> DEFINE o == Owed(q)
  <2>1. o \in Nat BY <1>1, OwedIs
  <2> HIDE DEF o
  <2>2. (o + 1) + 0 + 1 <= o + 2 BY <2>1
  <2>3. QED BY <1>8, <1>9, <2>2, Zenon DEF o
<1>11. Plan(<<>>, 0) /\ n.stack = <<>> \o q.stack BY <1>1, <1>3, PlanNone, JoinNone
<1>12. Keeps(t, <<>>) BY SettledIs DEF Transparent, Leaves
<1>13. n.failed = "" BY <1>1, <1>3
<1>14. Proceeds(q, t, n) BY <1>10, <1>11, <1>12, <1>13, Zenon DEF Proceeds
<1>15. Left(n) <= Left(q) BY <1>7
<1>16. QED BY <1>6, <1>14, <1>15

\* Every task that looks at no token keeps to what it may do.
LEMMA PerformOutcome == ASSUME NEW q, NEW t, t.f \in Silent PROVE Outcome(q, t, Perform(q, t))
BY SimpleOutcomes, SilentOutcomes, NamedMemberOutcome, ParsedOutcome DEF Silent, Perform

\* what a token pays for
LEMMA SmallCosts ==
  \A ts :
     /\ (Plan(ts, 1) => Small(ts)) /\ (Plan(ts, 2) => Small(ts)) /\ (Plan(ts, 3) => Small(ts)) /\ (Plan(ts, 4) => Small(ts))
     /\ (Plan(ts, 5) => Small(ts)) /\ (Plan(ts, 6) => Small(ts)) /\ (Plan(ts, 7) => Small(ts)) /\ (Plan(ts, 8) => Small(ts))
     /\ (Plan(ts, 9) => Small(ts)) /\ (Plan(ts, 10) => Small(ts)) /\ (Plan(ts, 11) => Small(ts)) /\ (Plan(ts, 12) => Small(ts))
     /\ (Plan(ts, 13) => Small(ts)) /\ (Plan(ts, 14) => Small(ts)) /\ (Plan(ts, 15) => Small(ts)) /\ (Plan(ts, 16) => Small(ts))
     /\ (Plan(ts, 17) => Small(ts)) /\ (Plan(ts, 18) => Small(ts)) /\ (Plan(ts, 19) => Small(ts)) /\ (Plan(ts, 21) => Small(ts))
     /\ (Plan(ts, 22) => Small(ts)) /\ (Plan(ts, 23) => Small(ts)) /\ (Plan(ts, 25) => Small(ts)) /\ (Plan(ts, 34) => Small(ts))
     /\ (Plan(ts, 37) => Small(ts)) /\ (Plan(ts, 43) => Small(ts))
<1>1. SUFFICES ASSUME NEW ts PROVE
     /\ (Plan(ts, 1) => Small(ts)) /\ (Plan(ts, 2) => Small(ts)) /\ (Plan(ts, 3) => Small(ts)) /\ (Plan(ts, 4) => Small(ts))
     /\ (Plan(ts, 5) => Small(ts)) /\ (Plan(ts, 6) => Small(ts)) /\ (Plan(ts, 7) => Small(ts)) /\ (Plan(ts, 8) => Small(ts))
     /\ (Plan(ts, 9) => Small(ts)) /\ (Plan(ts, 10) => Small(ts)) /\ (Plan(ts, 11) => Small(ts)) /\ (Plan(ts, 12) => Small(ts))
     /\ (Plan(ts, 13) => Small(ts)) /\ (Plan(ts, 14) => Small(ts)) /\ (Plan(ts, 15) => Small(ts)) /\ (Plan(ts, 16) => Small(ts))
     /\ (Plan(ts, 17) => Small(ts)) /\ (Plan(ts, 18) => Small(ts)) /\ (Plan(ts, 19) => Small(ts)) /\ (Plan(ts, 21) => Small(ts))
     /\ (Plan(ts, 22) => Small(ts)) /\ (Plan(ts, 23) => Small(ts)) /\ (Plan(ts, 25) => Small(ts)) /\ (Plan(ts, 34) => Small(ts))
     /\ (Plan(ts, 37) => Small(ts)) /\ (Plan(ts, 43) => Small(ts))
  OBVIOUS
<1>2. QED BY SmallIs

\* The plans of the expressions are paid for by a token.
LEMMA ExpressionSmall ==
  ASSUME NEW k, NEW n, NEW m
  PROVE  /\ Small(expr)
         /\ Small(assignment_expr)
         /\ Small(ternary_expr)
         /\ Small(<<With("operators", "", n)>>)
         /\ Small(expr \o <<Expect(":"), Task("unary"), With("binary_expr", "", 2), Build("?", "", 3), With("operators", "", n)>>)
         /\ Small(<<Task("unary"), With("binary_expr", "", m), Build("binary", k, 2), With("operators", "", n)>>)
         /\ Small(<<Task("type_name"), Expect(")"), With("cast", "", n)>>)
         /\ Small(<<Task("operator")>>)
         /\ Small(<<Task("type_name"), Expect(")"), Build(k, "", 1), Task("postfix")>>)
         /\ Small(<<Task("unary"), Build(k, "", 1)>>)
         /\ Small(<<Task("unary"), Build("prefix", k, 1)>>)
         /\ Small(<<Task("unary"), Build("cast", "", 2)>>)
         /\ Small(<<Task("primary"), Task("postfix")>>)
         /\ Small(expr \o <<Expect(")")>>)
         /\ Small(<<Task("expect_id"), Build(k, "", 2)>>)
         /\ Small(<<Build("postfix", k, 1)>>)
         /\ Small(expr \o <<Expect("]"), Build("[", "", 2)>>)
         /\ Small(<<Task("first_argument"), Build("call", "", 2)>>)
         /\ Small(argument)
<1>1. Small(expr) /\ Small(assignment_expr) /\ Small(ternary_expr) /\ Small(<<With("operators", "", n)>>)
      BY ExpressionPlans, SmallCosts, Zenon
<1>2. Small(expr \o <<Expect(":"), Task("unary"), With("binary_expr", "", 2), Build("?", "", 3), With("operators", "", n)>>) /\ Small(<<Task("unary"), With("binary_expr", "", m), Build("binary", k, 2), With("operators", "", n)>>) /\ Small(<<Task("type_name"), Expect(")"), With("cast", "", n)>>) /\ Small(<<Task("operator")>>)
      BY ExpressionPlans, SmallCosts, Zenon
<1>3. Small(<<Task("type_name"), Expect(")"), Build(k, "", 1), Task("postfix")>>) /\ Small(<<Task("unary"), Build(k, "", 1)>>) /\ Small(<<Task("unary"), Build("prefix", k, 1)>>) /\ Small(<<Task("unary"), Build("cast", "", 2)>>)
      BY ExpressionPlans, SmallCosts, Zenon
<1>4. Small(<<Task("primary"), Task("postfix")>>) /\ Small(expr \o <<Expect(")")>>) /\ Small(<<Task("expect_id"), Build(k, "", 2)>>) /\ Small(<<Build("postfix", k, 1)>>)
      BY ExpressionPlans, SmallCosts, Zenon
<1>5. Small(expr \o <<Expect("]"), Build("[", "", 2)>>) /\ Small(<<Task("first_argument"), Build("call", "", 2)>>) /\ Small(argument)
      BY ExpressionPlans, SmallCosts, Zenon
<1>6. QED BY <1>1, <1>2, <1>3, <1>4, <1>5, Zenon

\* So are those of struct and enum specifiers.
LEMMA SpecifierSmall ==
  ASSUME NEW k, NEW n, NEW o, NEW name
  PROVE  /\ Small(<<With("struct", k, 0)>> \o <<Task("append"), With("specifiers", "", n)>>)
         /\ Small(<<Task("enum")>> \o <<Task("append"), With("specifiers", "", n)>>)
         /\ Small(<<Task("append"), With("specifiers", "", n)>>)
         /\ Small(<<Task("enumerators"), Build(o, name, 1)>>)
         /\ Small(<<Task("members"), Build(o, name, 1)>>)
         /\ Small(<<Task("members")>>)
         /\ Small(struct_declaration_list)
         /\ Small(MemberRest)
         /\ Small(<<With("declarator", "abstract", 0), Task("named_member")>> \o MemberRest)
         /\ Small(<<Task("struct_declarators")>>)
         /\ Small(<<Task("expect_id"), Task("enum_value"), Build("enumerator", "", 2), Task("append"), Task("more_enumerators")>>)
         /\ Small(<<Task("enumerators")>>)
<1>1. Small(<<With("struct", k, 0)>> \o <<Task("append"), With("specifiers", "", n)>>) /\ Small(<<Task("enum")>> \o <<Task("append"), With("specifiers", "", n)>>) /\ Small(<<Task("append"), With("specifiers", "", n)>>) /\ Small(<<Task("enumerators"), Build(o, name, 1)>>)
      BY SpecifierPlans, SmallCosts, Zenon
<1>2. Small(<<Task("members"), Build(o, name, 1)>>) /\ Small(<<Task("members")>>) /\ Small(struct_declaration_list) /\ Small(MemberRest)
      BY SpecifierPlans, SmallCosts, Zenon
<1>3. Small(<<With("declarator", "abstract", 0), Task("named_member")>> \o MemberRest) /\ Small(<<Task("struct_declarators")>>) /\ Small(<<Task("expect_id"), Task("enum_value"), Build("enumerator", "", 2), Task("append"), Task("more_enumerators")>>) /\ Small(<<Task("enumerators")>>)
      BY SpecifierPlans, SmallCosts, Zenon
<1>4. QED BY <1>1, <1>2, <1>3, Zenon

\* So are those of declarators and types.
LEMMA DeclaratorSmall ==
  ASSUME NEW kind
  PROVE  /\ Small(<<With("qualifiers", kind, 0)>>)
         /\ Small(<<With("direct_declarator", kind, 0)>>)
         /\ Small(<<Task("append"), With("qualifiers", kind, 0)>>)
         /\ Small(<<With("declarator", kind, 0), Task("pointer")>>)
         /\ Small(<<With("postfix_type", kind, 0)>>)
         /\ Small(<<With("declarator", kind, 0), Expect(")"), With("postfix_type", kind, 0)>>)
         /\ Small(<<With("merge", "array", 0), With("postfix_type", kind, 0)>>)
         /\ Small(expr \o <<Expect("]"), With("merge", "array", 0), With("postfix_type", kind, 0)>>)
         /\ Small(<<Task("first_parameter"), With("postfix_type", kind, 0)>>)
         /\ Small(<<Task("parameter")>>)
         /\ Small(<<Expect(")"), [With("merge", "function", 0) EXCEPT !.v = "..."]>>)
         /\ Small(<<Task("type_name"), Task("append"), Task("more_parameters")>>)
         /\ Small(<<Expect(")"), With("merge", "function", 0)>>)
         /\ Small(<<With("specifiers", "", 0), With("declarator", "abstract", 0), Task("type")>>)
<1>1. Small(<<With("qualifiers", kind, 0)>>) /\ Small(<<With("direct_declarator", kind, 0)>>) /\ Small(<<Task("append"), With("qualifiers", kind, 0)>>) /\ Small(<<With("declarator", kind, 0), Task("pointer")>>)
      BY DeclaratorPlans, SmallCosts, ZenonT(60)
<1>2. Small(<<With("postfix_type", kind, 0)>>) /\ Small(<<With("declarator", kind, 0), Expect(")"), With("postfix_type", kind, 0)>>) /\ Small(<<With("merge", "array", 0), With("postfix_type", kind, 0)>>) /\ Small(expr \o <<Expect("]"), With("merge", "array", 0), With("postfix_type", kind, 0)>>)
      BY DeclaratorPlans, SmallCosts, ZenonT(60)
<1>3. Small(<<Task("first_parameter"), With("postfix_type", kind, 0)>>) /\ Small(<<Task("parameter")>>) /\ Small(<<Expect(")"), [With("merge", "function", 0) EXCEPT !.v = "..."]>>) /\ Small(<<Task("type_name"), Task("append"), Task("more_parameters")>>)
      BY DeclaratorPlans, SmallCosts, ZenonT(60)
<1>4. Small(<<Expect(")"), With("merge", "function", 0)>>) /\ Small(<<With("specifiers", "", 0), With("declarator", "abstract", 0), Task("type")>>)
      BY DeclaratorPlans, SmallCosts, ZenonT(60)
<1>5. QED BY <1>1, <1>2, <1>3, <1>4, Zenon

\* So are those of declarations and initialisers.
LEMMA DeclarationSmall ==
         /\ Small(init_declarator)
         /\ Small(<<Task("initializer")>>)
         /\ Small(<<Task("aggregate")>>)
         /\ Small(<<Task("elements"), Build("braces", "", 1)>>)
         /\ Small(<<Task("initializer"), Task("append"), Task("more_elements")>>)
         /\ Small(<<Task("elements")>>)
         /\ Small(<<Task("semicolons")>>)
         /\ Small(<<With("specifiers", "", 0), Task("declared")>>)
         /\ Small(init_declarator \o <<Task("function")>>)
         /\ Small(<<Task("more")>>)
         /\ Small(<<Task("definition")>>)
         /\ Small(<<Expect(",")>> \o init_declarator \o <<Task("append"), Task("more")>>)
         /\ Small(<<Task("semicolons"), Task("external_declaration"), Task("parsed")>>)
<1>1. Small(init_declarator) /\ Small(<<Task("initializer")>>) /\ Small(<<Task("aggregate")>>) /\ Small(<<Task("elements"), Build("braces", "", 1)>>)
      BY DeclarationPlans, SmallCosts, Zenon
<1>2. Small(<<Task("initializer"), Task("append"), Task("more_elements")>>) /\ Small(<<Task("elements")>>) /\ Small(<<Task("semicolons")>>) /\ Small(<<With("specifiers", "", 0), Task("declared")>>)
      BY DeclarationPlans, SmallCosts, Zenon
<1>3. Small(init_declarator \o <<Task("function")>>) /\ Small(<<Task("more")>>) /\ Small(<<Task("definition")>>) /\ Small(<<Expect(",")>> \o init_declarator \o <<Task("append"), Task("more")>>)
      BY DeclarationPlans, SmallCosts, Zenon
<1>4. Small(<<Task("semicolons"), Task("external_declaration"), Task("parsed")>>)
      BY DeclarationPlans, SmallCosts, Zenon
<1>5. QED BY <1>1, <1>2, <1>3, <1>4, Zenon

\* So are those of statements.
LEMMA StatementSmall ==
  ASSUME NEW k
  PROVE  /\ Small(declaration)
         /\ Small(expression_statement)
         /\ Small(parenthesized)
         /\ Small(<<Task("statement"), Build("label", "", 2)>>)
         /\ Small(parenthesized \o <<Task("statement"), Task("else")>>)
         /\ Small(parenthesized \o <<Task("statement"), Build(k, "", 2)>>)
         /\ Small(<<Task("statement"), Expect("while")>> \o parenthesized \o <<Expect(";"), Build("do", "", 2)>>)
         /\ Small(expr \o <<Expect(":"), Task("statement"), Build("case", "", 2)>>)
         /\ Small(<<Expect(":"), Task("statement"), Build("default", "", 1)>>)
         /\ Small(<<Task("expect_id"), Expect(";"), Build("goto", "", 1)>>)
         /\ Small(<<Expect(";"), Build(k, "", 0)>>)
         /\ Small(<<With("expr_opt", ";", 0), Build("return", "", 1)>>)
         /\ Small(<<Task("any_statement")>>)
         /\ Small(<<Task("statement"), Build("if", "", 3)>>)
         /\ Small(expr \o <<Expect(k)>>)
<1>1. Small(declaration) /\ Small(expression_statement) /\ Small(parenthesized) /\ Small(<<Task("statement"), Build("label", "", 2)>>)
      BY StatementPlans, SmallCosts, ZenonT(60)
<1>2. Small(parenthesized \o <<Task("statement"), Task("else")>>) /\ Small(parenthesized \o <<Task("statement"), Build(k, "", 2)>>) /\ Small(<<Task("statement"), Expect("while")>> \o parenthesized \o <<Expect(";"), Build("do", "", 2)>>) /\ Small(expr \o <<Expect(":"), Task("statement"), Build("case", "", 2)>>)
      BY StatementPlans, SmallCosts, ZenonT(60)
<1>3. Small(<<Expect(":"), Task("statement"), Build("default", "", 1)>>) /\ Small(<<Task("expect_id"), Expect(";"), Build("goto", "", 1)>>) /\ Small(<<Expect(";"), Build(k, "", 0)>>) /\ Small(<<With("expr_opt", ";", 0), Build("return", "", 1)>>)
      BY StatementPlans, SmallCosts, ZenonT(60)
<1>4. Small(<<Task("any_statement")>>) /\ Small(<<Task("statement"), Build("if", "", 3)>>) /\ Small(expr \o <<Expect(k)>>)
      BY StatementPlans, SmallCosts, ZenonT(60)
<1>5. QED BY <1>1, <1>2, <1>3, <1>4, Zenon

-----------------------------------------------------------------------------
(* Expressions *)

\* expect fails without a token only at the end
LEMMA ExpectOutcome ==
  ASSUME NEW q, NEW t, NEW k, Looked(q), 3 <= Cost(t.f), k # "<none>" \/ Keeps(t, <<>>)
  PROVE  Outcome(q, t, expect(q, k))
<1>1. ASSUME Kind(q) = k PROVE Outcome(q, t, Take(q))
  <2>1. CASE k # "<none>"
    <3>1. Spends(q, Take(q), 79) BY <1>1, <2>1, Pays
    <3>2. QED BY <3>1, SpentDone
  <2>2. CASE Keeps(t, <<>>)
    <3>1. Spends(q, Take(q), 0) BY TakeSpends
    <3>2. QED BY <2>2, <3>1, FreeDone
  <2>3. QED BY <2>1, <2>2
<1>2. Outcome(q, t, Fail(panic(q), "expected"))
  <2>1. CASE Left(q) # 0
    <3>1. Spends(q, panic(q), 79) BY <2>1, PanicPays
    <3>2. QED BY <3>1, SpentFail
  <2>2. CASE Left(q) = 0
    <3>1. Spends(q, panic(q), 0) BY PanicSpends
    <3>2. ASSUME Sound(q) PROVE Outcome(q, t, Fail(panic(q), "expected"))
      <4>1. Sound(panic(q)) => Left(panic(q)) = 0
        <5>1. Sound(panic(q)) /\ Left(panic(q)) <= 0 BY <2>2, <3>1, <3>2 DEF Spends
        <5>2. Left(panic(q)) \in Nat BY <5>1, OwedIs
        <5>3. QED BY <5>1, <5>2
      <4>2. QED BY <3>1, <4>1, FreeFail
    <3>3. ASSUME ~Sound(q) PROVE Outcome(q, t, Fail(panic(q), "expected")) BY <3>3 DEF Outcome
    <3>4. QED BY <3>2, <3>3
  <2>3. QED BY <2>1, <2>2
<1>3. QED BY <1>1, <1>2 DEF expect

\* expect_id fails without a token only at the end, or where none is owed.
LEMMA ExpectIdOutcome ==
  ASSUME NEW q, NEW t, 3 <= Cost(t.f), Calm(t) \/ MatchesId(q)
  PROVE  Outcome(q, t, expect_id(q))
<1>1. ASSUME MatchesId(q) PROVE Outcome(q, t, Yield(Take(q), N("id", Name(q), <<>>)))
  <2>1. Spends(q, Take(q), 79) BY <1>1, Pays DEF MatchesId
  <2>2. QED BY <2>1, SpendsYield, SpentDone
<1>2. ASSUME Calm(t) PROVE Outcome(q, t, Fail(panic(q), "ExpectedId"))
  <2>1. Spends(q, panic(q), 0) BY PanicSpends
  <2>2. QED BY <1>2, <2>1, FreeFail
<1>3. QED BY <1>1, <1>2 DEF expect_id

\* the end of the source is no operator
LEMMA OperatorsAreTokens == "<none>" \notin BinaryWords
<1>1. \A i \in DOMAIN Levels : "<none>" \notin ToSet(Levels[i])
  <2> DEFINE S == {",", "=", "+=", "?", "||", "&&", "|", "^", "&", "==", "<", "<<", "+", "-", "*", "/"}
  <2>1. Levels \in Seq(Seq(S)) BY DEF Levels
  <2>2. ASSUME NEW i \in DOMAIN Levels PROVE ToSet(Levels[i]) \subseteq S
    <3>1. Levels[i] \in Seq(S)
      <4> DEFINE T == Seq(S)
                 all == Levels
      <4>1. all \in Seq(T) /\ i \in DOMAIN all BY <2>1, <2>2
      <4> HIDE DEF T, all
      <4>2. all[i] \in T BY <4>1
      <4>3. QED BY <4>2 DEF T, all
    <3> DEFINE l == Levels[i]
    <3> HIDE DEF l, S
    <3>2. l \in Seq(S) => \A j \in DOMAIN l : l[j] \in S OBVIOUS
    <3>3. l \in Seq(S) => \A x \in ToSet(l) : x \in S BY <3>2 DEF ToSet
    <3>4. QED BY <3>1, <3>3 DEF l
  <2>3. "<none>" \notin S OBVIOUS
  <2>4. QED BY <2>2, <2>3
<1>2. QED BY <1>1 DEF BinaryWords

\* The operators of an expression.
LEMMA OperatorsOutcome == ASSUME NEW q, NEW t, t.f = "operators" PROVE Outcome(q, t, operators(q, t.n))
<1>1. Outcome(q, t, q)
  <2>1. Keeps(t, <<>>) BY SettledIs DEF Transparent, Leaves
  <2>2. QED BY <2>1, SpendsNone, FreeDone
<1>2. ASSUME Kind(q) \in BinaryWords PROVE Spends(q, Take(q), 79) BY <1>2, OperatorsAreTokens, Pays
<1> DEFINE again == With("operators", "", t.n)
           ternary == expr \o <<Expect(":"), Task("unary"), With("binary_expr", "", 2), Build("?", "", 3), again>>
           binary(k) == <<Task("unary"), With("binary_expr", "", RightLevel(k)), Build("binary", k, 2), again>>
<1>3. Small(ternary) BY ExpressionSmall, Zenon
<1>4. \A k : Small(binary(k)) BY ExpressionSmall, Zenon
<1> HIDE DEF again
<1>5. CASE Kind(q) \notin BinaryWords \/ prec(Kind(q)) < t.n
  <2>1. operators(q, t.n) = q BY <1>5 DEF operators
  <2>2. QED BY <1>1, <2>1
<1>6. CASE ~(Kind(q) \notin BinaryWords \/ prec(Kind(q)) < t.n)
  <2>1. Spends(q, Take(q), 79) BY <1>2, <1>6
  <2>2. Outcome(q, t, Push(Take(q), ternary)) BY <1>3, <2>1, SpentPush
  <2>3. Outcome(q, t, Push(Take(q), binary(Kind(q)))) BY <1>4, <2>1, SpentPush
  <2>4. operators(q, t.n) = IF Kind(q) = "?" THEN Push(Take(q), ternary) ELSE Push(Take(q), binary(Kind(q)))
    BY <1>6 DEF operators, again
  <2> HIDE DEF ternary, binary
  <2>5. QED BY <2>2, <2>3, <2>4
<1>7. QED BY <1>5, <1>6

\* Looking past a token spends nothing.
LEMMA LookPastSpends == ASSUME NEW m, NEW n, NEW gain \in Nat, Spends(m, n, gain) PROVE Spends(m, LookPast(n), gain)
BY SpendsRead DEF LookPast

\* Where a type follows, the parenthesis before it is taken.
LEMMA TypeFollowsPays == ASSUME NEW q, NEW p, Spends(q, p, 0), TypeFollows(p) PROVE Spends(q, Take(p), 79)
<1>1. Spends(p, Take(p), 79) BY Pays DEF TypeFollows
<1>2. QED BY <1>1, SpendsVia

\* A unary expression.
LEMMA UnaryOutcome == ASSUME NEW q, NEW t, t.f = "unary" PROVE Outcome(q, t, unary(q))
<1> DEFINE p == LookPast(q)
           a == Task("operator")
<1>1. Spends(q, p, 0) BY SpendsNone, LookPastSpends
<1>2. ASSUME TypeFollows(p) PROVE Outcome(q, t, Push(Take(p), <<Task("type_name"), Expect(")"), With("cast", "", Len(p.vals))>>))
  <2>1. Spends(q, Take(p), 79) BY <1>1, <1>2, TypeFollowsPays
  <2>2. Small(<<Task("type_name"), Expect(")"), With("cast", "", Len(p.vals))>>) BY ExpressionSmall
  <2>3. QED BY <2>1, <2>2, SpentPush
<1>3. Outcome(q, t, Push(p, <<a>>))
  <2>1. Plan(<<a>>, 5) BY ExpressionPlans
  <2>2. 5 + 1 <= Cost(t.f) BY CostTable
  <2>3. \A b : Needs(t, b) => Needs(a, b) BY TaskIs DEF Needs
  <2> HIDE DEF a, p
  <2>4. \A b : Needs(t, b) => Reaches(<<a>>, b) BY <2>3, ReachesHead, ListedTuples
  <2>5. Keeps(t, <<a>>) BY <2>4 DEF Keeps, Transparent, Leaves
  <2>6. QED BY <1>1, <2>1, <2>2, <2>5, FitsIs, FreePush
<1>4. QED BY <1>2, <1>3 DEF unary, Unary

\* The operand of sizeof.
LEMMA SizeOfOutcome == ASSUME NEW q, NEW t, NEW p, NEW k, Spends(q, p, 79) PROVE Outcome(q, t, SizeOf(p, k))
<1>1. Spends(q, Take(p), 79) BY SpendsRead
<1>2. Small(<<Task("type_name"), Expect(")"), Build(k, "", 1), Task("postfix")>>) BY ExpressionSmall
<1>3. Small(<<Task("unary"), Build(k, "", 1)>>) BY ExpressionSmall
<1>4. Outcome(q, t, Push(Take(p), <<Task("type_name"), Expect(")"), Build(k, "", 1), Task("postfix")>>))
      BY <1>1, <1>2, SpentPush
<1>5. Outcome(q, t, Push(p, <<Task("unary"), Build(k, "", 1)>>)) BY <1>3, SpentPush
<1>6. QED BY <1>4, <1>5 DEF SizeOf

\* A prefix operator, or what it is not.
LEMMA OperatorOutcome == ASSUME NEW q, NEW t, t.f = "operator" PROVE Outcome(q, t, operator(q))
<1>1. ASSUME Kind(q) \in PrefixWords PROVE Outcome(q, t, Push(Take(q), <<Task("unary"), Build("prefix", Kind(q), 1)>>))
  <2>1. Spends(q, Take(q), 79) BY <1>1, Pays DEF PrefixWords
  <2>2. Small(<<Task("unary"), Build("prefix", Kind(q), 1)>>) BY ExpressionSmall
  <2>3. QED BY <2>1, <2>2, SpentPush
<1>2. ASSUME Kind(q) \in {"sizeof", "alignof"} PROVE Outcome(q, t, SizeOf(LookPast(peek_token(Take(q))), Kind(q)))
  <2>1. Spends(q, Take(q), 79) BY <1>2, Pays
  <2>2. Spends(q, LookPast(peek_token(Take(q))), 79) BY <2>1, SpendsRead, LookPastSpends
  <2>3. QED BY <2>2, SizeOfOutcome
<1>3. Outcome(q, t, Push(q, <<Task("primary"), Task("postfix")>>))
  <2> DEFINE a == Task("primary")
             d == Task("postfix")
             ts == <<a, d>>
  <2>1. Plan(ts, 4) BY ExpressionPlans
  <2>2. 4 + 1 <= Cost(t.f) BY CostTable
  <2>3. (\A b : Needs(t, b) => Needs(a, b)) /\ a.f \in Leaves BY TaskIs DEF Needs, Leaves
  <2> HIDE DEF a, d
  <2>4. ts = <<a>> \o <<d>> /\ ts # <<>> /\ Head(ts) = a BY Join2
  <2>5. \A b : Needs(t, b) => Reaches(ts, b) BY <2>3, <2>4, ReachesHead, ListedTuples
  <2> HIDE DEF ts
  <2>6. Keeps(t, ts) BY <2>3, <2>4, <2>5 DEF Keeps, Transparent
  <2>7. Outcome(q, t, Push(q, ts)) BY <2>1, <2>2, <2>6, SpendsNone, FitsIs, FreePush
  <2>8. QED BY <2>7 DEF ts, a, d
<1>4. QED BY <1>1, <1>2, <1>3 DEF operator

\* A primary expression; where it fails without a token, panic takes it.
LEMMA PrimaryOutcome == ASSUME NEW q, NEW t, t.f = "primary", Looked(q) PROVE Outcome(q, t, primary(q))
<1>1. 3 <= Cost(t.f) /\ Calm(t) BY CostTable DEF Calm, Needs, Transparent
<1>2. ASSUME Kind(q) = "(" PROVE Outcome(q, t, recursion_check(Take(q), 2, expr \o <<Expect(")")>>))
  <2>1. Spends(q, Take(q), 79) BY <1>2, Pays
  <2>2. Small(expr \o <<Expect(")")>>) BY ExpressionSmall
  <2>3. QED BY <2>1, <2>2, SpentDeep
<1>3. Outcome(q, t, expect_id(q)) BY <1>1, ExpectIdOutcome
<1>4. ASSUME Kind(q) \in {"lit", "str"} PROVE Outcome(q, t, Literal(next_token(q)))
  <2>1. Spends(q, next_token(q).m, 79) BY <1>4, Pays DEF Take
  <2>2. QED BY <2>1, SpendsYield, SpentDone, SpentFail DEF Literal
<1>5. Outcome(q, t, NotLiteral(next_token(q)))
  <2>1. ASSUME Sound(q) PROVE Spends(q, unput(next_token(q).m, next_token(q).t), 0)
        BY UnputAnySpends DEF Looked
  <2>2. Spends(q, unput(next_token(q).m, next_token(q).t), 0) BY <2>1 DEF Spends
  <2>3. QED BY <1>1, <2>2, FreeFail DEF NotLiteral
<1>6. QED BY <1>2, <1>3, <1>4, <1>5 DEF primary

\* The postfix operators.
LEMMA PostfixOutcome == ASSUME NEW q, NEW t, t.f = "postfix" PROVE Outcome(q, t, postfix(q))
<1>1. Outcome(q, t, q)
  <2>1. Keeps(t, <<>>) BY SettledIs DEF Transparent, Leaves
  <2>2. QED BY <2>1, SpendsNone, FreeDone
<1>2. ASSUME Kind(q) \in PostfixWords PROVE Small(Append(PostfixTasks(Kind(q)), Task("postfix")))
  <2> DEFINE k == Kind(q)
             ts == PostfixTasks(k)
  <2>1. \E c \in {1, 4, 13, 15} : Plan(ts, c)
    <3>1. CASE k \in {".", "->"}
      <4>1. Plan(<<Task("expect_id"), Build(k, "", 2)>>, 4) BY ExpressionPlans
      <4>2. QED BY <3>1, <4>1 DEF PostfixTasks
    <3>2. CASE k \in {"++", "--"}
      <4>1. Plan(<<Build("postfix", k, 1)>>, 1) BY ExpressionPlans
      <4>2. QED BY <3>2, <4>1 DEF PostfixTasks
    <3>3. CASE k = "["
      <4>1. Plan(expr \o <<Expect("]"), Build("[", "", 2)>>, 13) BY ExpressionPlans
      <4>2. QED BY <3>3, <4>1 DEF PostfixTasks
    <3>4. CASE k = "("
      <4>1. Plan(<<Task("first_argument"), Build("call", "", 2)>>, 15) BY ExpressionPlans
      <4>2. QED BY <3>4, <4>1 DEF PostfixTasks
    <3>5. QED BY <1>2, <3>1, <3>2, <3>3, <3>4 DEF PostfixWords
  <2> HIDE DEF ts
  <2>2. PICK c \in {1, 4, 13, 15} : Plan(ts, c) BY <2>1
  <2>3. Plan(Append(ts, Task("postfix")), c + 1) BY <2>2, Prices, PlanAppend
  <2>4. c + 1 <= 53 BY <2>2
  <2>5. QED BY <2>3, <2>4, SmallIs DEF ts
<1>3. ASSUME Kind(q) \in PostfixWords PROVE Spends(q, Take(q), 79) BY <1>3, Pays DEF PostfixWords
<1>4. QED BY <1>1, <1>2, <1>3, SpentPush DEF postfix

\* The arguments of a call.
LEMMA ArgumentOutcomes ==
  ASSUME NEW q, NEW t, Looked(q)
  PROVE  /\ t.f = "first_argument" => Outcome(q, t, first_argument(q))
         /\ t.f = "more_arguments" => Outcome(q, t, more_arguments(q))
<1>1. ASSUME t.f = "first_argument" PROVE Outcome(q, t, first_argument(q))
  <2>1. Kind(q) = ")" => Outcome(q, t, Yield(Take(q), Empty)) BY Pays, SpendsYield, SpentDone
  <2>2. 13 + 1 <= Cost(t.f) BY <1>1, CostTable
  <2>3. Plan(argument, 13) BY ExpressionPlans
  <2>4. Keeps(t, argument) BY <1>1, SettledIs DEF Transparent, Leaves
  <2>5. Outcome(q, t, Push(Yield(q, Empty), argument)) BY <2>2, <2>3, <2>4, YieldSpends, FitsIs, FreePush
  <2>6. QED BY <2>1, <2>5 DEF first_argument
<1>2. ASSUME t.f = "more_arguments" PROVE Outcome(q, t, more_arguments(q))
  <2>1. Small(argument) BY ExpressionSmall
  <2>2. Kind(q) = "," => Outcome(q, t, Push(Take(q), argument)) BY <2>1, Pays, SpentPush
  <2>3. 3 <= Cost(t.f) BY <1>2, CostTable
  <2>4. Outcome(q, t, expect(q, ")")) BY <2>3, ExpectOutcome
  <2>5. QED BY <2>2, <2>4 DEF more_arguments
<1>3. QED BY <1>1, <1>2

-----------------------------------------------------------------------------
(* Declarations *)

\* A function that takes its token may go on with a small plan, end or fail.
LEMMA Taken ==
  ASSUME NEW q, NEW t, Kind(q) # "<none>"
  PROVE  /\ \A ts, node : Small(ts) => Outcome(q, t, Push(Take(q), ts)) /\ Outcome(q, t, Push(Yield(Take(q), node), ts))
         /\ \A node : Outcome(q, t, Take(q)) /\ Outcome(q, t, Yield(Take(q), node))
         /\ \A err : Outcome(q, t, Fail(Take(q), err))
<1>1. Spends(q, Take(q), 79) BY Pays
<1>2. 79 \in Nat OBVIOUS
<1>3. \A node : Spends(q, Yield(Take(q), node), 79) BY <1>1, <1>2, SpendsYield
<1>4. QED BY <1>1, <1>3, SpentPush, SpentDone, SpentFail

\* A function that takes none is paid for by its task.
LEMMA Untaken ==
  ASSUME NEW q, NEW t
  PROVE  /\ \A ts, node : Fits(t, ts) /\ Keeps(t, ts) => Outcome(q, t, Push(q, ts)) /\ Outcome(q, t, Push(Yield(q, node), ts))
         /\ \A node : Keeps(t, <<>>) => Outcome(q, t, q) /\ Outcome(q, t, Yield(q, node))
<1>1. Spends(q, q, 0) BY SpendsNone
<1>2. \A node : Spends(q, Yield(q, node), 0) BY YieldSpends
<1>3. QED BY <1>1, <1>2, FreePush, FreeDone

\* Declaration specifiers.
LEMMA SpecifiersOutcome == ASSUME NEW q, NEW t, t.f = "specifiers" PROVE Outcome(q, t, specifiers(q, t.n))
<1>1. Keeps(t, <<>>)
  <2>1. t.f \notin Leaves /\ \A b \in BOOLEAN : ~Needs(t, b) BY DEF Leaves, Needs
  <2>2. QED BY <2>1, KeepsNone
<1> DEFINE k == Kind(q)
           seen == t.n
           struct == <<With("struct", k, 0)>> \o <<Task("append"), With("specifiers", "", seen)>>
           enum == <<Task("enum")>> \o <<Task("append"), With("specifiers", "", seen)>>
           rest == <<Task("append"), With("specifiers", "", seen)>>
           named == <<Task("append"), With("specifiers", "", 1)>>
<1>2. Small(struct) /\ Small(enum) /\ Small(rest) /\ Small(named) BY SpecifierSmall, Zenon
<1>3. specifiers(q, seen) =
        CASE k \notin Keywords -> q
          [] k \in Records -> Push(Take(q), struct)
          [] k = "enum" -> Push(Take(q), enum)
          [] k = "usertypedef" -> IF seen = 0 THEN Push(Yield(Take(q), N("named", q.current.v, <<>>)), named)
                                  ELSE unput(Take(q), [q.current EXCEPT !.k = "id"])
          [] k \in Units -> Push(Yield(Take(q), N("unit", k, <<>>)), rest)
          [] OTHER -> Fail(Take(q), "ExpectedDeclSpecifier")
  BY DEF specifiers, Kind
<1> HIDE DEF struct, enum, rest, named
<1>4. Outcome(q, t, q) BY <1>1, Untaken
<1>5. ASSUME k \in Keywords
      PROVE  /\ Outcome(q, t, Push(Take(q), struct)) /\ Outcome(q, t, Push(Take(q), enum))
             /\ Outcome(q, t, Push(Yield(Take(q), N("named", q.current.v, <<>>)), named))
             /\ Outcome(q, t, Push(Yield(Take(q), N("unit", k, <<>>)), rest))
             /\ Outcome(q, t, Fail(Take(q), "ExpectedDeclSpecifier"))
             /\ Outcome(q, t, unput(Take(q), [q.current EXCEPT !.k = "id"]))
  <2>1. Kind(q) # "<none>" BY <1>5 DEF Keywords, Units, Qualifiers, Records, StatementWords
  <2>2. q.current # None
    <3>1. None.k = "<none>" BY DEF None, Word
    <3>2. QED BY <2>1, <3>1 DEF Kind
  <2>3. Outcome(q, t, unput(Take(q), [q.current EXCEPT !.k = "id"])) BY <1>1, <2>2, UnputNameSpends, FreeDone
  <2> HIDE DEF k
  <2>4. Outcome(q, t, Push(Take(q), struct)) /\ Outcome(q, t, Push(Take(q), enum)) BY <1>2, <2>1, Taken
  <2>5. Outcome(q, t, Push(Yield(Take(q), N("named", q.current.v, <<>>)), named)) BY <1>2, <2>1, Taken
  <2>6. Outcome(q, t, Push(Yield(Take(q), N("unit", k, <<>>)), rest)) BY <1>2, <2>1, Taken
  <2>7. Outcome(q, t, Fail(Take(q), "ExpectedDeclSpecifier")) BY <2>1, Taken
  <2>8. QED BY <2>3, <2>4, <2>5, <2>6, <2>7
<1> HIDE DEF k
<1>6. CASE k \notin Keywords BY <1>3, <1>4, <1>6 DEF Keywords, Records, Units
<1>7. CASE k \in Keywords BY <1>3, <1>5, <1>7 DEF Keywords, Records, Units
<1>8. QED BY <1>6, <1>7

\* The body of a struct or enum, or its tag alone.
LEMMA TagBodyOutcome ==
  ASSUME NEW q, NEW t, NEW p, NEW o, NEW name, t.f \in {"struct", "enum"}, Spends(q, p, 0)
  PROVE  Outcome(q, t, TagBody(p, o, name))
<1> DEFINE enum == <<Task("enumerators"), Build(o, name, 1)>>
           struct == <<Task("members"), Build(o, name, 1)>>
           chosen == <<Task(IF o = "enum" THEN "enumerators" ELSE "members"), Build(o, name, 1)>>
<1>1. Small(enum) /\ Small(struct) BY SpecifierSmall, Zenon
<1>2. chosen \in {enum, struct} OBVIOUS
<1>3. Keeps(t, <<>>) BY SettledIs DEF Transparent, Leaves
<1>4. Small(chosen)
  <2> HIDE DEF enum, struct, chosen
  <2>1. QED BY <1>1, <1>2
<1>5. ASSUME Kind(p) = "{" PROVE Outcome(q, t, Push(Yield(Take(p), Empty), chosen))
  <2>1. Spends(p, Take(p), 79) BY <1>5, Pays
  <2>2. Spends(q, Yield(Take(p), Empty), 79) BY <2>1, SpendsVia, SpendsYield
  <2> HIDE DEF chosen
  <2>3. QED BY <1>4, <2>2, SpentPush
<1>6. Outcome(q, t, Yield(p, N(o, name, <<>>)))
  <2>1. Spends(q, Yield(p, N(o, name, <<>>)), 0) BY SpendsYield
  <2>2. QED BY <1>3, <2>1, FreeDone
<1>7. QED BY <1>5, <1>6 DEF TagBody

\* struct_specifier.
LEMMA StructOutcome == ASSUME NEW q, NEW t, t.f \in {"struct", "enum"}, NEW o PROVE Outcome(q, t, struct_specifier(q, o))
<1>1. Spends(q, q, 0) BY SpendsNone
<1>2. Spends(q, peek_token(Take(q)), 0) BY <1>1, SpendsRead
<1>3. \A name : Outcome(q, t, TagBody(peek_token(Take(q)), o, name)) BY <1>2, TagBodyOutcome
<1>4. \A name : Outcome(q, t, TagBody(q, o, name)) BY <1>1, TagBodyOutcome
<1>5. QED BY <1>3, <1>4 DEF struct_specifier

\* The members of a struct.
LEMMA MembersOutcome == ASSUME NEW q, NEW t, t.f = "members" PROVE Outcome(q, t, members(q))
<1>1. Kind(q) = "}" => Outcome(q, t, Take(q)) BY Taken
<1>2. Kind(q) = ";" => Outcome(q, t, Push(Take(q), <<Task("members")>>)) BY SpecifierSmall, Taken
<1>3. Outcome(q, t, Push(Yield(q, Empty), struct_declaration_list))
  <2> DEFINE a == With("specifiers", "", 0)
             b == Task("declarators")
             c == Task("struct_declarators")
             d == Build("field", "", 2)
             e == Task("append")
             f == Task("members")
             rest == <<d, e, f>>
             ts == struct_declaration_list
  <2>1. a.f \in Transparent /\ b.f \in Transparent /\ \A n : Needs(c, n)
    <3>1. a.f = "specifiers" BY DEF With, Task
    <3>2. b.f = "declarators" BY TaskIs
    <3>3. c.f = "struct_declarators" BY TaskIs
    <3> HIDE DEF a, b, c
    <3>4. QED BY <3>1, <3>2, <3>3 DEF Transparent, Needs
  <2>2. ts = <<a>> \o (<<b>> \o (<<c>> \o rest)) /\ Listed(rest)
    <3>1. Listed(rest) BY ListedTuples
    <3>2. ts = <<a, b, c>> \o rest
      <4>1. ts = <<a, b, c, d, e, f>> BY DEF struct_declaration_list
      <4> HIDE DEF a, b, c, d, e, f, ts
      <4>2. <<a, b, c, d, e, f>> = <<a, b, c>> \o <<d, e, f>> BY Join6
      <4>3. QED BY <4>1, <4>2 DEF rest
    <3>3. <<a, b, c>> = <<a>> \o <<b, c>> /\ <<b, c>> = <<b>> \o <<c>> BY Join2, Join3
    <3> HIDE DEF a, b, c, d, e, f, rest, ts
    <3>4. <<a, b, c>> \o rest = <<a>> \o (<<b>> \o (<<c>> \o rest))
      <4> DEFINE S == {a, b, c} \cup {rest[i] : i \in DOMAIN rest}
      <4>1. rest \in Seq(S) BY <3>1 DEF Listed
      <4>2. <<a>> \in Seq(S) /\ <<b>> \in Seq(S) /\ <<c>> \in Seq(S) OBVIOUS
      <4> HIDE DEF S
      <4>3. QED BY <3>3, <4>1, <4>2
    <3>5. QED BY <3>1, <3>2, <3>4
  <2>3. Plan(ts, 19) BY SpecifierPlans
  <2> HIDE DEF a, b, c, d, e, f, rest, ts
  <2>4. \A n \in BOOLEAN : Reaches(ts, n)
    <3>1. \A n : Reaches(<<c>> \o rest, n) /\ Listed(<<c>> \o rest)
          BY <2>1, <2>2, ReachesHead, ListedTuples, ListedJoin
    <3>2. \A n : Reaches(<<b>> \o (<<c>> \o rest), n) /\ Listed(<<b>> \o (<<c>> \o rest))
          BY <2>1, <3>1, ReachesTail, ListedTuples, ListedJoin
    <3>3. QED BY <2>1, <2>2, <3>2, ReachesTail
  <2>5. Settled(t) BY SettledIs DEF Transparent, Leaves
  <2>6. 19 <= 22 + Cost(t.f) BY CostTable
  <2>7. Outcome(q, t, Push(Yield(q, Empty), ts)) BY <2>3, <2>4, <2>5, <2>6, YieldSpends, Advances
  <2>8. QED BY <2>7 DEF ts
<1>4. QED BY <1>1, <1>2, <1>3 DEF members

\* the tasks by which nothing is owed push what they pay for
LEMMA Settles ==
  ASSUME NEW q, NEW t,
         t.f \notin Transparent \cup Leaves \cup {"external_declaration", "declared", "struct_declarators", "more_declarators",
                                                  "statement", "any_statement", "unary"}
  PROVE  /\ \A ts, node : Fits(t, ts) => Outcome(q, t, Push(q, ts)) /\ Outcome(q, t, Push(Yield(q, node), ts))
         /\ \A node : Outcome(q, t, q) /\ Outcome(q, t, Yield(q, node))
<1>1. \A ts : Keeps(t, ts) BY SettledIs
<1>2. QED BY <1>1, Untaken

\* A member takes a token.
LEMMA MembersReach ==
  /\ \A n : Reaches(MemberRest, n)
  /\ \A n : Reaches(<<With("declarator", "abstract", 0), Task("named_member")>> \o MemberRest, n)
<1> DEFINE a == Task("bitfield")
           b == Build("declarator", "", 2)
           c == Task("append")
           d == Task("more_declarators")
           e == With("declarator", "abstract", 0)
           f == Task("named_member")
           s == MemberRest
<1>1. a.f \in Transparent /\ c.f \in Transparent /\ f.f \in Transparent /\ \A n : Needs(d, n)
      BY TaskIs DEF Transparent, Needs
<1>2. b.f \in Transparent /\ e.f \in Transparent
  <2>1. b.f = "build" BY DEF Build, With, Task
  <2>2. e.f = "declarator" BY DEF With, Task
  <2> HIDE DEF b, e
  <2>3. QED BY <2>1, <2>2 DEF Transparent
<1>3. s = <<a, b, c, d>> BY DEF MemberRest
<1> HIDE DEF a, b, c, d, e, f, s
<1>4. s = <<a, b>> \o <<c, d>> /\ <<c, d>> = <<c>> \o <<d>>
  <2>1. <<a, b, c, d>> = <<a, b>> \o <<c, d>> BY Join4
  <2>2. <<c, d>> = <<c>> \o <<d>> BY Join2
  <2>3. QED BY <1>3, <2>1, <2>2
<1>5. \A n : Reaches(<<d>>, n) BY <1>1, ReachesHead, ListedTuples
<1>6. \A n : Reaches(<<c, d>>, n)
  <2>1. Listed(<<d>>) BY ListedTuples
  <2>2. \A n : Reaches(<<c>> \o <<d>>, n) BY <1>1, <1>5, <2>1, ReachesTail
  <2>3. QED BY <1>4, <2>2
<1>7. \A x, y : x.f \in Transparent /\ y.f \in Transparent => Open(<<x, y>>) /\ Listed(<<x, y>>)
  <2>1. \A x, y : Listed(<<x, y>>) BY ListedTuples
  <2>2. QED BY <2>1 DEF Open
<1>8. \A n : Reaches(s, n) BY <1>1, <1>2, <1>4, <1>6, <1>7, ReachesJoin, ListedTuples
<1>9. Listed(s) BY <1>3, ListedTuples
<1>10. \A n : Reaches(<<e, f>> \o s, n) BY <1>1, <1>2, <1>7, <1>8, <1>9, ReachesJoin
<1>11. QED BY <1>8, <1>10 DEF e, f, s

\* The declarators of a member.
LEMMA StructDeclaratorsOutcome == ASSUME NEW q, NEW t, t.f = "struct_declarators" PROVE Outcome(q, t, struct_declarators(q))
<1> DEFINE ts == <<With("declarator", "abstract", 0), Task("named_member")>> \o MemberRest
<1>1. Kind(q) = ";" => Outcome(q, t, Take(q)) BY Taken
<1>2. \A n : Reaches(MemberRest, n) /\ Reaches(ts, n) BY MembersReach
<1>3. Plan(MemberRest, 6) /\ Plan(ts, 13) BY SpecifierPlans
<1> HIDE DEF ts
<1>4. Keeps(t, MemberRest) /\ Keeps(t, ts) BY <1>2 DEF Keeps, Transparent, Leaves
<1>5. 6 + 1 <= Cost(t.f) /\ 13 + 1 <= Cost(t.f) BY CostTable
<1>6. Fits(t, MemberRest) /\ Fits(t, ts) BY <1>3, <1>5, FitsIs
<1>7. Outcome(q, t, Push(Yield(q, Nothing), MemberRest)) /\ Outcome(q, t, Push(q, ts)) BY <1>4, <1>6, Untaken
<1>8. QED BY <1>1, <1>7 DEF struct_declarators, ts

\* The enumerators of an enum.
LEMMA EnumeratorsOutcome == ASSUME NEW q, NEW t, t.f = "enumerators" PROVE Outcome(q, t, enumerators(q))
<1> DEFINE ts == <<Task("expect_id"), Task("enum_value"), Build("enumerator", "", 2), Task("append"), Task("more_enumerators")>>
<1>1. Kind(q) = "}" => Outcome(q, t, Take(q)) BY Taken
<1>2. Fits(t, ts)
  <2>1. Plan(ts, 9) BY SpecifierPlans
  <2>2. 9 + 1 <= Cost(t.f) BY CostTable
  <2> HIDE DEF ts
  <2>3. QED BY <2>1, <2>2, FitsIs
<1> HIDE DEF ts
<1>3. Outcome(q, t, Push(q, ts)) BY <1>2, Settles DEF Transparent, Leaves
<1>4. QED BY <1>1, <1>3 DEF enumerators, ts

\* The value of an enumerator, and those that follow.
LEMMA EnumeratorOutcomes ==
  ASSUME NEW q, NEW t, Looked(q)
  PROVE  /\ t.f = "enum_value" => Outcome(q, t, enum_value(q))
         /\ t.f = "more_enumerators" => Outcome(q, t, more_enumerators(q))
<1>1. ASSUME t.f = "enum_value" PROVE Outcome(q, t, enum_value(q))
  <2>1. Small(ternary_expr) BY ExpressionSmall
  <2>2. Kind(q) = "=" => Outcome(q, t, Push(Take(q), ternary_expr)) BY <2>1, Taken
  <2>3. Outcome(q, t, Yield(q, Nothing)) BY <1>1, Settles DEF Transparent, Leaves
  <2>4. QED BY <2>2, <2>3 DEF enum_value
<1>2. ASSUME t.f = "more_enumerators" PROVE Outcome(q, t, more_enumerators(q))
  <2>1. Small(<<Task("enumerators")>>) BY SpecifierSmall
  <2>2. Kind(q) = "," => Outcome(q, t, Push(Take(q), <<Task("enumerators")>>)) BY <2>1, Taken
  <2>3. 3 <= Cost(t.f) BY <1>2, CostTable
  <2>4. Outcome(q, t, expect(q, "}")) BY <2>3, ExpectOutcome
  <2>5. QED BY <2>2, <2>4 DEF more_enumerators
<1>3. QED BY <1>1, <1>2

\* The width of a member.
LEMMA BitfieldOutcome == ASSUME NEW q, NEW t, t.f = "bitfield" PROVE Outcome(q, t, bitfield(q))
<1>1. Small(ternary_expr) BY ExpressionSmall
<1>2. Kind(q) = ":" => Outcome(q, t, Push(Take(q), ternary_expr)) BY <1>1, Taken
<1>3. Keeps(t, <<>>)
  <2>1. t.f \notin Leaves /\ \A b \in BOOLEAN : ~Needs(t, b) BY DEF Leaves, Needs
  <2>2. QED BY <2>1, KeepsNone
<1>4. Outcome(q, t, Yield(q, Nothing)) BY <1>3, Untaken
<1>5. QED BY <1>2, <1>4 DEF bitfield

\* The declarators that follow in a member.
LEMMA MoreDeclaratorsOutcome == ASSUME NEW q, NEW t, Looked(q), t.f = "more_declarators" PROVE Outcome(q, t, more_declarators(q))
<1>1. Small(<<Task("struct_declarators")>>) BY SpecifierSmall
<1>2. Kind(q) = "," => Outcome(q, t, Push(Take(q), <<Task("struct_declarators")>>)) BY <1>1, Taken
<1>3. 3 <= Cost(t.f) BY CostTable
<1>4. Outcome(q, t, expect(q, ";")) BY <1>3, ExpectOutcome
<1>5. QED BY <1>2, <1>4 DEF more_declarators

\* A declarator.
LEMMA DeclaratorOutcome == ASSUME NEW q, NEW t, t.f = "declarator" PROVE Outcome(q, t, declarator(q, t.x))
<1> DEFINE a == With("direct_declarator", t.x, 0)
           ts == <<With("qualifiers", t.x, 0)>>
<1>1. Small(ts) BY DeclaratorSmall
<1>2. Kind(q) = "*" => Outcome(q, t, Push(Yield(Take(q), Empty), ts)) BY <1>1, Taken
<1>3. Plan(<<a>>, 3) BY DeclaratorPlans
<1>4. 3 + 2 <= Cost(t.f) BY CostTable
<1>5. a.f = "direct_declarator" /\ a.x = t.x BY DEF With, Task
<1> HIDE DEF a, ts
<1>6. Keeps(t, <<a>>)
  <2>1. Open(<<a>>) BY <1>5, OpenOne DEF Transparent
  <2>2. \A b : Needs(t, b) => Needs(a, b) BY <1>5 DEF Needs
  <2>3. \A b : Needs(t, b) => Reaches(<<a>>, b) BY <2>2, ReachesHead, ListedTuples
  <2>4. QED BY <2>1, <2>3 DEF Keeps, Leaves
<1>7. FitsDeep(t, <<a>>) BY <1>3, <1>4, FitsDeepIs
<1>8. Outcome(q, t, recursion_check(q, 1, <<a>>)) BY <1>6, <1>7, SpendsNone, FreeDeep
<1>9. QED BY <1>2, <1>8 DEF declarator, a, ts

\* The qualifiers of a pointer.
LEMMA QualifiersOutcome == ASSUME NEW q, NEW t, t.f = "qualifiers" PROVE Outcome(q, t, qualifiers(q, t.x))
<1> DEFINE extra == <<Task("append"), With("qualifiers", t.x, 0)>>
           ts == <<With("declarator", t.x, 0), Task("pointer")>>
<1>1. Small(extra) BY DeclaratorSmall
<1>2. Kind(q) \in Qualifiers => Outcome(q, t, Push(Yield(Take(q), N("unit", Kind(q), <<>>)), extra))
  <2> HIDE DEF extra
  <2>1. Kind(q) \in Qualifiers => Kind(q) # "<none>" BY DEF Qualifiers
  <2>2. QED BY <1>1, <2>1, Taken
<1>3. Plan(ts, 6) BY DeclaratorPlans
<1>4. 6 + 1 <= Cost(t.f) BY CostTable
<1> HIDE DEF extra, ts
<1>5. Outcome(q, t, Push(q, ts)) BY <1>3, <1>4, FitsIs, Settles DEF Transparent, Leaves
<1>6. QED BY <1>2, <1>5 DEF qualifiers, extra, ts

\* The second token is looked at with the first one in place.
LEMMA LooksAhead == ASSUME NEW q, Sound(q), q.current # None PROVE peek_next_token(q).current = q.current /\ Left(q) # 0
<1> DEFINE r == impl_next_token(q)
<1>1. DOMAIN r.m = Fields /\ r.m.current = q.current BY ReadKeeps
<1>2. AsNext(r).current = q.current BY <1>1, FieldsAre DEF AsNext
<1>3. peek_next_token(q).current = q.current BY <1>2 DEF peek_next_token
<1>4. Sound(Take(q)) BY TakeSpends DEF Spends
<1> DEFINE a == Left(Take(q))
           b == Left(q)
<1>5. a \in Nat /\ b \in Nat BY <1>4, OwedIs
<1>6. a + 1 <= b BY TakeLeft
<1> HIDE DEF a, b
<1>7. b # 0 BY <1>5, <1>6
<1>8. QED BY <1>3, <1>7 DEF b

\* A direct declarator.
LEMMA DirectDeclaratorOutcome ==
  ASSUME NEW q, NEW t, t.f = "direct_declarator", Looked(q)
  PROVE  Outcome(q, t, direct_declarator(q, t.x))
<1> DEFINE kind == t.x
           ts == <<With("postfix_type", kind, 0)>>
           inner == <<With("declarator", kind, 0), Expect(")"), With("postfix_type", kind, 0)>>
           p == peek_next_token(q)
           bad == IF AtEnd(q) THEN q ELSE panic(q)
<1>1. Small(ts) /\ Small(inner) BY DeclaratorSmall
<1>2. kind = "abstract" => Fits(t, ts) /\ Keeps(t, ts)
  <2>1. Plan(ts, 1) BY DeclaratorPlans
  <2>2. 1 + 1 <= Cost(t.f) BY CostTable
  <2>3. Open(ts)
    <3>1. With("postfix_type", kind, 0).f = "postfix_type" BY DEF With, Task
    <3>2. QED BY <3>1, OpenOne DEF Transparent
  <2> HIDE DEF ts
  <2>4. kind = "abstract" => \A b : ~Needs(t, b) BY DEF Needs
  <2>5. kind = "abstract" => Keeps(t, ts) BY <2>3, <2>4 DEF Keeps, Leaves
  <2>6. QED BY <2>1, <2>2, <2>5, FitsIs
<1>3. \A m, parts : Declared(m, parts, kind) = Push(Yield(m, Chain(parts)), ts) BY DEF Declared
<1> HIDE DEF ts, inner
<1>4. \A parts : Kind(q) = "id" => Outcome(q, t, Declared(Take(q), parts, kind)) BY <1>1, <1>3, Taken
<1>5. \A m, parts : Spends(q, m, 0) /\ kind = "abstract" => Outcome(q, t, Declared(m, parts, kind))
  <2>1. SUFFICES ASSUME NEW m, NEW parts, Spends(q, m, 0), kind = "abstract" PROVE Outcome(q, t, Push(Yield(m, Chain(parts)), ts))
        BY <1>3
  <2>2. Spends(q, Yield(m, Chain(parts)), 0) BY <2>1, SpendsYield
  <2>3. QED BY <1>2, <2>1, <2>2, FreePush
<1>6. Spends(q, q, 0) /\ Spends(q, p, 0) BY SpendsNone, PeekNextSpends
<1>7. ASSUME Sound(q), Kind(q) = "(" PROVE Outcome(q, t, ParenthesisedDeclarator(p, kind))
  <2>1. q.current # None
    <3>1. None.k = "<none>" BY DEF None, Word
    <3>2. QED BY <1>7, <3>1 DEF Kind
  <2>2. Kind(p) = "(" BY <1>7, <2>1, LooksAhead DEF Kind
  <2>3. Spends(q, Take(p), 79) BY <1>6, <2>2, Pays, SpendsVia
  <2>4. Spends(q, Take(Take(p)), 79) BY <2>3, SpendsRead
  <2>5. \A parts : Outcome(q, t, Declared(Take(Take(p)), parts, kind))
    <3>1. \A parts : Spends(q, Yield(Take(Take(p)), Chain(parts)), 79) BY <2>4, SpendsYield
    <3>2. QED BY <1>1, <1>3, <3>1, SpentPush
  <2>6. Outcome(q, t, Push(Take(p), inner)) BY <1>1, <2>3, SpentPush
  <2>7. kind = "abstract" => \A parts : Outcome(q, t, Declared(p, parts, kind)) BY <1>5, <1>6
  <2> HIDE DEF p
  <2>8. QED BY <2>5, <2>6, <2>7 DEF ParenthesisedDeclarator, inner
<1>8. ASSUME Sound(q) PROVE Outcome(q, t, Fail(bad, "expected variable name"))
  <2>1. CASE AtEnd(q)
    <3>1. Left(q) = 0 BY <2>1 DEF Looked, AtEnd
    <3>2. 3 <= Cost(t.f) BY CostTable
    <3>3. QED BY <1>6, <2>1, <3>1, <3>2, FreeFail
  <2>2. CASE ~AtEnd(q)
    <3>1. Left(q) # 0 BY <1>8, <2>2, LooksAhead DEF AtEnd
    <3>2. Spends(q, panic(q), 79) BY <3>1, PanicPays
    <3>3. QED BY <2>2, <3>2, SpentFail
  <2>3. QED BY <2>1, <2>2
<1>9. ASSUME ~Sound(q) PROVE Outcome(q, t, direct_declarator(q, kind)) BY <1>9 DEF Outcome
<1>10. ASSUME Sound(q) PROVE Outcome(q, t, direct_declarator(q, kind))
  <2>1. kind = "abstract" => Outcome(q, t, Declared(q, <<>>, kind)) BY <1>5, <1>6
  <2>2. Kind(q) = "(" => Outcome(q, t, ParenthesisedDeclarator(peek_next_token(q), kind)) BY <1>7, <1>10
  <2>3. Outcome(q, t, Fail(IF AtEnd(q) THEN q ELSE panic(q), "expected variable name")) BY <1>8, <1>10
  <2> HIDE DEF kind
  <2>4. QED BY <1>4, <2>1, <2>2, <2>3 DEF direct_declarator
<1>11. QED BY <1>9, <1>10

\* The size of an array.
LEMMA ArraySizeOutcome == ASSUME NEW q, NEW t, NEW p, NEW kind, Spends(q, p, 79) PROVE Outcome(q, t, ArraySize(p, kind))
<1> DEFINE none == <<With("merge", "array", 0), With("postfix_type", kind, 0)>>
           some == expr \o <<Expect("]"), With("merge", "array", 0), With("postfix_type", kind, 0)>>
<1>1. Small(none) /\ Small(some) BY DeclaratorSmall, Zenon
<1>2. Spends(q, Take(p), 79) BY SpendsRead
<1>3. Spends(q, Yield(Take(p), Nothing), 79) BY <1>2, SpendsYield
<1> HIDE DEF none, some
<1>4. Outcome(q, t, Push(Yield(Take(p), Nothing), none)) /\ Outcome(q, t, Push(p, some))
      BY <1>1, <1>3, SpentPush
<1>5. QED BY <1>4 DEF ArraySize, none, some

\* The arrays and functions behind a declarator.
LEMMA PostfixTypeOutcome == ASSUME NEW q, NEW t, t.f = "postfix_type", NEW kind PROVE Outcome(q, t, postfix_type(q, kind))
<1> DEFINE ts == <<Task("first_parameter"), With("postfix_type", kind, 0)>>
<1>1. Small(ts) BY DeclaratorSmall
<1> HIDE DEF ts
<1>2. Kind(q) = "(" => Outcome(q, t, Push(Yield(Take(q), Empty), ts)) BY <1>1, Taken
<1>3. Outcome(q, t, q)
  <2>1. t.f \notin Leaves /\ \A b \in BOOLEAN : ~Needs(t, b) BY DEF Leaves, Needs
  <2>2. QED BY <2>1, KeepsNone, Untaken
<1>4. ASSUME Kind(q) = "[" PROVE Outcome(q, t, ArrayType(peek_token(Take(q)), kind))
  <2> DEFINE p == peek_token(Take(q))
             s == StaticSize(Take(p), kind)
  <2>1. q.current # None
    <3>1. None.k = "<none>" BY DEF None, Word
    <3>2. QED BY <1>4, <3>1 DEF Kind
  <2>2. Spends(q, Take(q), 80) /\ 80 \in Nat BY <2>1, TakeSpends
  <2>3. Spends(q, p, 80) BY <2>2, SpendsRead
  <2>4. Spends(q, Take(p), 80) BY <2>2, <2>3, SpendsRead
  <2>5. 79 \in Nat /\ 79 + 1 = 80 /\ 79 <= 80 OBVIOUS
  <2> HIDE DEF p
  <2>6. Spends(q, p, 79) BY <2>2, <2>3, <2>5, SpendsLess
  <2>7. Spends(q, s, 79)
    <3>1. Spends(q, Take(p), 79) BY <2>2, <2>4, <2>5, SpendsLess
    <3>2. Spends(q, Take(p), 79 + 1) BY <2>4, <2>5
    <3>3. Spends(q, Report(Take(p), "StaticInConcreteArray"), 79) BY <2>5, <3>2, ReportSpends
    <3>4. QED BY <3>1, <3>3 DEF StaticSize
  <2>8. Spends(q, peek_token(s), 79) BY <2>5, <2>7, SpendsRead
  <2>9. Outcome(q, t, ArraySize(peek_token(s), kind)) /\ Outcome(q, t, ArraySize(p, kind))
        BY <2>6, <2>8, ArraySizeOutcome
  <2>10. QED BY <2>9 DEF ArrayType, p
<1>5. QED BY <1>2, <1>3, <1>4 DEF postfix_type, ts

\* The parameters of a function.
LEMMA ParameterOutcomes ==
  ASSUME NEW q, NEW t
  PROVE  /\ t.f = "first_parameter" => Outcome(q, t, first_parameter(q))
         /\ t.f = "parameter" => Outcome(q, t, parameter(q))
         /\ t.f = "more_parameters" => Outcome(q, t, more_parameters(q))
<1> DEFINE one == <<Task("parameter")>>
           dots == <<Expect(")"), [With("merge", "function", 0) EXCEPT !.v = "..."]>>
           named == <<Task("type_name"), Task("append"), Task("more_parameters")>>
           last == <<Expect(")"), With("merge", "function", 0)>>
<1>1. Small(one) /\ Small(dots) BY DeclaratorSmall, Zenon
<1>2. Plan(one, 17) /\ Plan(named, 16) /\ Plan(last, 4) BY DeclaratorPlans, Zenon
<1> HIDE DEF one, dots, named, last
<1>3. ASSUME t.f = "first_parameter" PROVE Outcome(q, t, first_parameter(q))
  <2>1. ASSUME Kind(q) = ")" PROVE Outcome(q, t, merge_decls(Take(q), "function", ""))
    <3>1. Spends(q, Take(q), 79) /\ 79 \in Nat BY <2>1, Pays
    <3>2. QED BY <3>1, SpendsMerge, SpentDone
  <2>2. 17 + 1 <= Cost(t.f) BY <1>3, CostTable
  <2>3. Outcome(q, t, Push(q, one)) BY <1>2, <1>3, <2>2, FitsIs, Settles DEF Transparent, Leaves
  <2>4. QED BY <2>1, <2>3 DEF first_parameter, one
<1>4. ASSUME t.f = "parameter" PROVE Outcome(q, t, parameter(q))
  <2>1. Kind(q) = "..." => Outcome(q, t, Push(Take(q), dots)) BY <1>1, Taken
  <2>2. 16 + 1 <= Cost(t.f) BY <1>4, CostTable
  <2>3. Outcome(q, t, Push(q, named)) BY <1>2, <1>4, <2>2, FitsIs, Settles DEF Transparent, Leaves
  <2>4. QED BY <2>1, <2>3 DEF parameter, dots, named
<1>5. ASSUME t.f = "more_parameters" PROVE Outcome(q, t, more_parameters(q))
  <2>1. Kind(q) = "," => Outcome(q, t, Push(Take(q), one)) BY <1>1, Taken
  <2>2. 4 + 1 <= Cost(t.f) BY <1>5, CostTable
  <2>3. Outcome(q, t, Push(q, last)) BY <1>2, <1>5, <2>2, FitsIs, Settles DEF Transparent, Leaves
  <2>4. QED BY <2>1, <2>3 DEF more_parameters, one, last
<1>6. QED BY <1>3, <1>4, <1>5

\* Initialisers, and the semicolons before a declaration.
LEMMA InitialOutcomes ==
  ASSUME NEW q, NEW t, Looked(q)
  PROVE  /\ t.f = "initial" => Outcome(q, t, initial(q))
         /\ t.f = "initializer" => Outcome(q, t, initializer(q))
         /\ t.f = "elements" => Outcome(q, t, elements(q))
         /\ t.f = "more_elements" => Outcome(q, t, more_elements(q))
         /\ t.f = "semicolons" => Outcome(q, t, semicolons(q))
<1> DEFINE one == <<Task("initializer")>>
           braces == <<Task("aggregate")>>
           first == <<Task("initializer"), Task("append"), Task("more_elements")>>
           others == <<Task("elements")>>
           again == <<Task("semicolons")>>
<1>1. Small(one) /\ Small(braces) /\ Small(others) /\ Small(again) BY DeclarationSmall, Zenon
<1>2. Plan(first, 14) /\ Plan(assignment_expr, 9) BY DeclarationPlans, ExpressionPlans, Zenon
<1> HIDE DEF one, braces, first, others, again
<1>3. ASSUME t.f = "initial" PROVE Outcome(q, t, initial(q))
  <2>1. Kind(q) = "=" => Outcome(q, t, Push(Take(q), one)) BY <1>1, Taken
  <2>2. Outcome(q, t, Yield(q, Nothing)) BY <1>3, Settles DEF Transparent, Leaves
  <2>3. QED BY <2>1, <2>2 DEF initial, one
<1>4. ASSUME t.f = "initializer" PROVE Outcome(q, t, initializer(q))
  <2>1. Kind(q) = "{" => Outcome(q, t, Push(Take(q), braces)) BY <1>1, Taken
  <2>2. 9 + 1 <= Cost(t.f) BY <1>4, CostTable
  <2>3. Outcome(q, t, Push(q, assignment_expr)) BY <1>2, <1>4, <2>2, FitsIs, Settles DEF Transparent, Leaves
  <2>4. QED BY <2>1, <2>3 DEF initializer, braces
<1>5. ASSUME t.f = "elements" PROVE Outcome(q, t, elements(q))
  <2>1. Kind(q) = "}" => Outcome(q, t, Take(q)) BY Taken
  <2>2. 14 + 1 <= Cost(t.f) BY <1>5, CostTable
  <2>3. Outcome(q, t, Push(q, first)) BY <1>2, <1>5, <2>2, FitsIs, Settles DEF Transparent, Leaves
  <2>4. QED BY <2>1, <2>3 DEF elements, first
<1>6. ASSUME t.f = "more_elements" PROVE Outcome(q, t, more_elements(q))
  <2>1. Kind(q) = "," => Outcome(q, t, Push(Take(q), others)) BY <1>1, Taken
  <2>2. 3 <= Cost(t.f) BY <1>6, CostTable
  <2>3. Outcome(q, t, expect(q, "}")) BY <2>2, ExpectOutcome
  <2>4. QED BY <2>1, <2>3 DEF more_elements, others
<1>7. ASSUME t.f = "semicolons" PROVE Outcome(q, t, semicolons(q))
  <2>1. Kind(q) = ";" => Outcome(q, t, Push(Take(q), again)) BY <1>1, Taken
  <2>2. t.f \notin Leaves /\ \A b \in BOOLEAN : ~Needs(t, b) BY <1>7 DEF Leaves, Needs
  <2>3. Outcome(q, t, q) BY <2>2, KeepsNone, Untaken
  <2>4. QED BY <2>1, <2>3 DEF semicolons, again
<1>8. QED BY <1>3, <1>4, <1>5, <1>6, <1>7

\* A declarator that is not abstract takes a token.
LEMMA DeclaratorReaches ==
  /\ \A b : Reaches(init_declarator \o <<Task("function")>>, b)
  /\ \A b : Reaches(<<Expect(",")>> \o init_declarator \o <<Task("append"), Task("more")>>, b)
<1> DEFINE a == With("declarator", "", 0)
           c == Task("initial")
           d == Build("init_declarator", "", 2)
           e == Expect(",")
           s == init_declarator
           one == <<Task("function")>>
           two == <<Task("append"), Task("more")>>
<1>1. s = <<a, c, d>> BY DEF init_declarator
<1>2. a.f = "declarator" /\ a.x = "" BY DEF With, Task
<1>3. e.f \in Transparent BY TaskIs DEF Transparent
<1>4. Listed(one) /\ Listed(two) BY ListedTuples
<1> HIDE DEF a, c, d, e, s, one, two
<1>5. \A b : Needs(a, b) BY <1>2 DEF Needs
<1>6. s = <<a>> \o <<c, d>>
  <2>1. <<a, c, d>> = <<a>> \o <<c, d>> BY Join3
  <2>2. QED BY <1>1, <2>1
<1>7. \A b : Reaches(s, b)
  <2>1. Listed(<<c, d>>) BY ListedTuples
  <2>2. \A b : Reaches(<<a>> \o <<c, d>>, b) BY <1>5, <2>1, ReachesHead
  <2>3. QED BY <1>6, <2>2
<1>8. Listed(s) BY <1>1, ListedTuples
<1>9. \A b : Reaches(s \o one, b) BY <1>4, <1>7, <1>8, ReachesJoin
<1>10. \A b : Reaches(<<e>> \o s, b) BY <1>3, <1>7, <1>8, ReachesTail
<1>11. Listed(<<e>> \o s)
  <2>1. Listed(<<e>>) BY ListedTuples
  <2>2. QED BY <1>8, <2>1, ListedJoin
<1>12. \A b : Reaches((<<e>> \o s) \o two, b) BY <1>4, <1>10, <1>11, ReachesJoin
<1>13. QED BY <1>9, <1>12 DEF e, s, one, two

\* What follows the specifiers of a declaration.
LEMMA DeclaredOutcome == ASSUME NEW q, NEW t, t.f = "declared" PROVE Outcome(q, t, declared(q))
<1> DEFINE ts == init_declarator \o <<Task("function")>>
<1>1. ASSUME Kind(q) = ";" PROVE Outcome(q, t, Built(Yield(Take(q), Empty), "declaration", "", 2))
  <2>1. Spends(q, Take(q), 79) /\ 79 \in Nat BY <1>1, Pays
  <2>2. Spends(q, Yield(Take(q), Empty), 79) BY <2>1, SpendsYield
  <2>3. Spends(q, Built(Yield(Take(q), Empty), "declaration", "", 2), 79) BY <2>1, <2>2, SpendsBuilt
  <2>4. QED BY <2>3, SpentDone
<1>2. Plan(ts, 12) /\ \A b : Reaches(ts, b) BY DeclarationPlans, DeclaratorReaches
<1>3. 12 + 1 <= Cost(t.f) BY CostTable
<1> HIDE DEF ts
<1>4. Keeps(t, ts) BY <1>2 DEF Keeps, Transparent, Leaves
<1>5. Outcome(q, t, Push(q, ts)) BY <1>2, <1>3, <1>4, FitsIs, Untaken
<1>6. QED BY <1>1, <1>5 DEF declared, ts

\* The declarators that follow in a declaration.
LEMMA MoreOutcome == ASSUME NEW q, NEW t, t.f = "more" PROVE Outcome(q, t, more(q))
<1> DEFINE ts == <<Expect(",")>> \o init_declarator \o <<Task("append"), Task("more")>>
           names == TypedefsOf(q.vals)
           n == Built(Inserted(Take(q), names), "declaration", "", 2)
<1>1. ASSUME Kind(q) = ";" PROVE Outcome(q, t, n)
  <2>1. Spends(q, Take(q), 79) /\ 79 \in Nat BY <1>1, Pays
  <2> HIDE DEF names
  <2>2. Spends(q, Inserted(Take(q), names), 79) BY <2>1, SpendsInserted
  <2>3. Spends(q, n, 79) BY <2>1, <2>2, SpendsBuilt
  <2>4. QED BY <2>3, SpentDone
<1>2. Plan(ts, 12) /\ \A b : Reaches(ts, b) BY DeclarationPlans, DeclaratorReaches
<1>3. 12 <= 22 + Cost(t.f) BY CostTable
<1> HIDE DEF ts
<1>4. Settled(t) BY SettledIs DEF Transparent, Leaves
<1>5. Outcome(q, t, Push(q, ts)) BY <1>2, <1>3, <1>4, SpendsNone, Advances
<1>6. QED BY <1>1, <1>5 DEF more, ts

-----------------------------------------------------------------------------
(* Statements *)

\* Three lists, one behind the other.
LEMMA ListedGroup == ASSUME NEW a, NEW b, NEW c, Listed(a), Listed(b), Listed(c) PROVE a \o (b \o c) = (a \o b) \o c
<1> DEFINE S == ({a[i] : i \in DOMAIN a} \cup {b[i] : i \in DOMAIN b}) \cup {c[i] : i \in DOMAIN c}
<1>1. a \in Seq(S) /\ b \in Seq(S) /\ c \in Seq(S) BY DEF Listed
<1> HIDE DEF S
<1>2. QED BY <1>1

Above(s, a, b, c) == s = a \o (b \o c)
Beside(s, a, b, c) == s = (a \o b) \o c

\* The block of a function is on top of the stack it was.
LEMMA BlockStack == \A s, a, b, c : Listed(a) /\ Listed(b) /\ Listed(c) /\ Above(s, a, b, c) => Beside(s, a, b, c)
BY ListedGroup DEF Above, Beside

\* A block and what is pushed below it are paid for by its brace.
LEMMA BlockBudget == \A i, k : i \in Nat /\ i <= 40 /\ k \in Nat => 2 + i \in Nat /\ 2 + i <= 53 + k
OBVIOUS

\* A block that has just begun costs two steps.
LEMMA BlockCosts == ASSUME NEW b, b.f = "block", b.errs = <<>> PROVE Costs(<<b>>, 2)
<1>1. Listed(b.errs) /\ Len(b.errs) = 0 BY CostsNone
<1>2. Cost(b.f) = 2 BY CostTable
<1>3. Weight(b) = 2 BY <1>1, <1>2 DEF Weight
<1>4. Costs(<<b>>, Weight(b)) BY <1>1, CostsOne
<1>5. QED BY <1>3, <1>4

\* the brace of a block pays for the block
LEMMA BlockOutcome ==
  ASSUME NEW q, NEW t, NEW m, NEW ts, NEW c, Plan(ts, c), c <= 40,
         Sound(q) => Sound(m) /\ Left(m) = Left(q) /\ Owed(m) = Owed(q) /\ m.stack = ts \o q.stack,
         Kind(m) = "{"
  PROVE  Outcome(q, t, compound_statement(m))
<1> DEFINE b == With("block", "", Len(m.vals) + 1)
           y == Yield(Take(m), Skip)
           n == Push(y, <<b>>)
<1>1. SUFFICES ASSUME Sound(q), Listed(q.stack) PROVE Sound(n) /\ Left(n) <= Left(q) /\ Consumes(q, t, n)
      BY DEF Outcome, compound_statement
<1>2. Spends(m, y, 79)
  <2>1. Spends(m, Take(m), 79) /\ 79 \in Nat BY Pays
  <2>2. QED BY <2>1, SpendsYield
<1>3. b.f = "block" /\ b.errs = <<>> BY DEF With, Task
<1> HIDE DEF b, y
<1>4. Costs(<<b>>, 2) BY <1>3, BlockCosts
<1>5. Sound(y) /\ y.stack = ts \o q.stack /\ Left(y) <= Left(q) /\ Owed(y) + 79 <= Owed(q)
      BY <1>1, <1>2 DEF Spends
<1>6. Sound(n) /\ Left(n) = Left(y) /\ Owed(n) = Owed(y) /\ n.stack = <<b>> \o (ts \o q.stack) BY <1>5, PushIs
<1> DEFINE all == <<b>> \o ts
           d == 2 + c
<1> HIDE DEF d
<1>7. Costs(all, 2 + c) BY <1>4, CostsJoin DEF Plan
<1>8. n.stack = all \o q.stack
  <2>1. Listed(<<b>>) /\ Listed(ts) BY ListedTuples, PlanNat
  <2>2. Listed(q.stack) BY <1>1
  <2>3. Above(n.stack, <<b>>, ts, q.stack) BY <1>6 DEF Above
  <2> HIDE DEF n
  <2>4. Beside(n.stack, <<b>>, ts, q.stack) BY <2>1, <2>2, <2>3, BlockStack
  <2>5. QED BY <2>4 DEF Beside
<1>9. d \in Nat /\ d <= 53 + Cost(t.f)
  <2>1. c \in Nat BY PlanNat
  <2>2. Cost(t.f) \in Nat BY CostNat
  <2>3. QED BY <2>1, <2>2, BlockBudget DEF d
<1> HIDE DEF n, all, d
<1>10. Owed(n) + d + 26 <= Owed(q) + Cost(t.f)
  <2>1. Owed(q) \in Nat /\ Owed(n) \in Nat BY <1>1, <1>6, OwedIs
  <2>2. Cost(t.f) \in Nat BY CostNat
  <2>3. Owed(n) + 79 <= Owed(q) BY <1>5, <1>6
  <2>4. QED BY <1>9, <2>1, <2>2, <2>3, Budgets
<1>11. Consumes(q, t, n) BY <1>7, <1>8, <1>10 DEF Consumes, d
<1>12. QED BY <1>5, <1>6, <1>11

\* The body of a function.
LEMMA FunctionOutcome == ASSUME NEW q, NEW t, t.f = "function" PROVE Outcome(q, t, function(q))
<1> DEFINE m == [q EXCEPT !.vals[1] = Chain(<<@>>)]
           extra == <<Task("more")>>
           ts == <<Task("definition")>>
           p == Push(q, ts)
<1>1. Spends(q, m, 0)
  <2>1. DOMAIN q = Fields =>
           DOMAIN m = Fields /\ \A f \in {"tokens", "read", "current", "next", "bad", "errors", "pending", "stack", "failed"} : m[f] = q[f]
    BY FieldsAre
  <2>2. Good(q) => m.exited \in BOOLEAN
    <3>1. ASSUME Good(q) PROVE m.exited = q.exited BY <3>1, FieldsAre DEF Good, Placed
    <3>2. QED BY <3>1 DEF Good, Placed
  <2> HIDE DEF m
  <2>3. QED BY <2>1, <2>2, StaysSpends
<1>2. Plan(extra, 1) /\ Plan(ts, 3) BY DeclarationPlans
<1>3. 1 + 1 <= Cost(t.f) /\ 3 <= Cost(t.f) BY CostTable
<1>4. Calm(t) /\ \A l : Keeps(t, l) BY SettledIs DEF Transparent, Leaves
<1>5. Outcome(q, t, Push(m, extra))
  <2> HIDE DEF m, extra
  <2>1. QED BY <1>1, <1>2, <1>3, <1>4, FitsIs, FreePush
<1>6. Outcome(q, t, Fail(q, "NotAFunction")) /\ Outcome(q, t, Fail(q, "FunctionInitializer"))
      BY <1>3, <1>4, SpendsNone, FreeFail
<1>7. ASSUME Kind(q) = "{" PROVE Outcome(q, t, compound_statement(p))
  <2> HIDE DEF ts
  <2>1. Sound(q) => Sound(p) /\ Left(p) = Left(q) /\ Owed(p) = Owed(q) /\ p.stack = ts \o q.stack BY PushIs
  <2>2. ASSUME Sound(q) PROVE Outcome(q, t, compound_statement(p))
    <3>1. Kind(p) = "{"
      <4>1. DOMAIN q = Fields BY <2>2 DEF Sound, Good, Placed
      <4>2. p.current = q.current BY <4>1, FieldsAre DEF Push
      <4>3. QED BY <1>7, <4>2 DEF Kind
    <3>2. 3 <= 40 OBVIOUS
    <3> HIDE DEF p
    <3>3. QED BY <1>2, <2>1, <3>1, <3>2, BlockOutcome
  <2>3. ASSUME ~Sound(q) PROVE Outcome(q, t, compound_statement(p)) BY <2>3 DEF Outcome
  <2>4. QED BY <2>2, <2>3
<1> HIDE DEF m, extra
<1>8. function(q) = CASE Kind(q) # "{" -> Push(m, extra)
                      [] Kind(q) = "{" /\ ~IsFunction(Parts(q.vals[1].a[1])) -> Fail(q, "NotAFunction")
                      [] Kind(q) = "{" /\ IsFunction(Parts(q.vals[1].a[1])) /\ q.vals[1].a[2] # Nothing -> Fail(q, "FunctionInitializer")
                      [] OTHER -> compound_statement(p)
  BY DEF function, m, extra
<1> HIDE DEF p
<1>9. QED BY <1>5, <1>6, <1>7, <1>8

\* The else of an if.
LEMMA ElseOutcome == ASSUME NEW q, NEW t, t.f = "else" PROVE Outcome(q, t, else(q))
<1> DEFINE ts == <<Task("statement"), Build("if", "", 3)>>
<1>1. Small(ts) BY StatementSmall
<1> HIDE DEF ts
<1>2. Kind(q) = "else" => Outcome(q, t, Push(Take(q), ts)) BY <1>1, Taken
<1>3. Keeps(t, <<>>) BY SettledIs DEF Transparent, Leaves
<1>4. Outcome(q, t, Built(q, "if", "", 2)) BY <1>3, BuiltSpends, FreeDone
<1>5. QED BY <1>2, <1>4 DEF else, ts

\* The head of a for.
LEMMA ForOutcome == ASSUME NEW q, NEW t, t.f = "for" PROVE Outcome(q, t, for(q))
<1>1. Plan(declaration, 18) /\ Plan(expression_statement, 12) BY StatementPlans
<1>2. 18 + 1 <= Cost(t.f) /\ 12 + 1 <= Cost(t.f) /\ 3 <= Cost(t.f) BY CostTable
<1>3. Calm(t) BY SettledIs DEF Transparent, Leaves
<1>4. Outcome(q, t, Fail(q, "EndOfFile")) BY <1>2, <1>3, SpendsNone, FreeFail
<1>5. Outcome(q, t, Push(q, declaration)) /\ Outcome(q, t, Push(q, expression_statement))
  BY <1>1, <1>2, FitsIs, Settles DEF Transparent, Leaves
<1>6. Kind(q) = ";" => Outcome(q, t, Yield(Take(q), Skip)) BY Taken
<1>7. QED BY <1>4, <1>5, <1>6 DEF for

\* An optional expression, up to its token.
LEMMA ExprOptOutcome ==
  ASSUME NEW q, NEW t, NEW k, Cost(t.f) = 13, \A ts : Keeps(t, ts)
  PROVE  Outcome(q, t, expr_opt(q, k))
<1> DEFINE ts == expr \o <<Expect(k)>>
<1>1. Plan(ts, 12) BY StatementPlans
<1>2. 12 + 1 <= Cost(t.f) OBVIOUS
<1> HIDE DEF ts
<1>3. Outcome(q, t, Push(q, ts)) BY <1>1, <1>2, FitsIs, Untaken
<1>4. Outcome(q, t, Yield(Take(q), Nothing))
  <2>1. Spends(q, Take(q), 0) /\ 0 \in Nat BY TakeSpends
  <2>2. Spends(q, Yield(Take(q), Nothing), 0) BY <2>1, SpendsYield
  <2>3. QED BY <2>2, FreeDone
<1>5. QED BY <1>3, <1>4 DEF expr_opt, ts

\* what a statement takes first pays for the rest of it
LEMMA StatementTasksOutcome ==
  ASSUME NEW q, NEW t, NEW k, Kind(q) # "<none>", t.f = "any_statement", k \in StatementWords \ {"else"}
  PROVE  Outcome(q, t, Push(Take(q), StatementTasks(k)))
<1> DEFINE ts == StatementTasks(k)
           loop == <<Expect("("), Task("for"), With("expr_opt", ";", 0), With("expr_opt", ")", 0), Task("statement"), Build("for", "", 4)>>
           m == Take(q)
<1>1. ASSUME k # "for" PROVE Small(ts)
  <2> DEFINE if == parenthesized \o <<Task("statement"), Task("else")>>
             while == parenthesized \o <<Task("statement"), Build(k, "", 2)>>
             do == <<Task("statement"), Expect("while")>> \o parenthesized \o <<Expect(";"), Build("do", "", 2)>>
             case == expr \o <<Expect(":"), Task("statement"), Build("case", "", 2)>>
             default == <<Expect(":"), Task("statement"), Build("default", "", 1)>>
             goto == <<Task("expect_id"), Expect(";"), Build("goto", "", 1)>>
             jump == <<Expect(";"), Build(k, "", 0)>>
             return == <<With("expr_opt", ";", 0), Build("return", "", 1)>>
  <2>1. Small(if) /\ Small(while) /\ Small(do) /\ Small(case) BY StatementSmall, Zenon
  <2>2. Small(default) /\ Small(goto) /\ Small(jump) /\ Small(return) BY StatementSmall, Zenon
  <2>3. ts = CASE k = "if" -> if
               [] k \in {"while", "switch"} -> while
               [] k = "do" -> do
               [] k = "for" -> loop
               [] k = "case" -> case
               [] k = "default" -> default
               [] k = "goto" -> goto
               [] k \in {"continue", "break"} -> jump
               [] k = "return" -> return
    BY DEF StatementTasks
  <2> HIDE DEF if, while, do, case, default, goto, jump, return, ts, loop
  <2>4. ts \in {if, while, do, case, default, goto, jump, return} BY <1>1, <2>3 DEF StatementWords
  <2>5. QED BY <2>1, <2>2, <2>4
<1>2. Spends(q, m, 79) BY Pays
<1>3. ASSUME k # "for" PROVE Outcome(q, t, Push(m, ts))
  <2> HIDE DEF ts, m
  <2>1. QED BY <1>1, <1>2, <1>3, SpentPush
<1>4. ASSUME k = "for" PROVE Outcome(q, t, Push(m, ts))
  <2>1. ts = loop BY <1>4 DEF StatementTasks
  <2>2. Plan(loop, 70) BY StatementPlans
  <2>3. 70 <= 53 + Cost(t.f) BY CostTable
  <2> HIDE DEF ts, loop, m
  <2> DEFINE n == Push(m, ts)
  <2>4. Sound(m) => Sound(n) /\ Left(n) = Left(m) /\ Owed(n) = Owed(m) /\ n.stack = ts \o m.stack BY PushIs
  <2> HIDE DEF n
  <2>5. Plan(ts, 70) BY <2>1, <2>2
  <2>6. Outcome(q, t, n) BY <1>2, <2>3, <2>4, <2>5, SpentPlan
  <2>7. QED BY <2>6 DEF n
<1>5. QED BY <1>3, <1>4

\* a statement that starts with an expression or a declaration
LEMMA StartsStatement ==
  ASSUME NEW t, t.f = "any_statement"
  PROVE  /\ Fits(t, declaration) /\ Keeps(t, declaration)
         /\ Fits(t, expression_statement) /\ Keeps(t, expression_statement)
<1>1. Plan(declaration, 18) /\ Plan(expression_statement, 12) BY StatementPlans
<1>2. 18 + 1 <= Cost(t.f) /\ 12 + 1 <= Cost(t.f) BY CostTable
<1>3. Fits(t, declaration) /\ Fits(t, expression_statement) BY <1>1, <1>2, FitsIs
<1>4. \A b : Needs(t, b) => \A a : a.f \in {"external_declaration", "unary"} => Needs(a, b) BY DEF Needs
<1>5. ASSUME NEW ts, NEW a, NEW rest, ts = <<a>> \o rest, Listed(rest), a.f \in {"external_declaration", "unary"} PROVE Keeps(t, ts)
  <2>1. \A b : Needs(t, b) => Reaches(ts, b) BY <1>4, <1>5, ReachesHead
  <2>2. QED BY <2>1 DEF Keeps, Transparent, Leaves
<1>6. Keeps(t, declaration)
  <2> DEFINE a == Task("external_declaration")
             b == Task("into_declaration")
             ts == declaration
  <2>1. a.f = "external_declaration" BY TaskIs
  <2>2. ts = <<a, b>> BY DEF declaration
  <2> HIDE DEF a, b, ts
  <2>3. ts = <<a>> \o <<b>> BY <2>2, Join2
  <2>4. Listed(<<b>>) BY ListedTuples
  <2>5. Keeps(t, ts) BY <1>5, <2>1, <2>3, <2>4
  <2>6. QED BY <2>5 DEF ts
<1>7. Keeps(t, expression_statement)
  <2> DEFINE a == Task("unary")
             b == With("binary_expr", "", 0)
             c == Expect(";")
             e == expr
             ts == expression_statement
  <2>1. a.f = "unary" BY TaskIs
  <2>2. e = <<a, b>> BY DEF expr
  <2>3. ts = e \o <<c>> BY DEF expression_statement
  <2> HIDE DEF a, b, c, e, ts
  <2>4. e = <<a>> \o <<b>> BY <2>2, Join2
  <2>5. Listed(<<a>>) /\ Listed(<<b>>) /\ Listed(<<c>>) BY ListedTuples
  <2>6. ts = <<a>> \o (<<b>> \o <<c>>) BY <2>3, <2>4, <2>5, ListedGroup
  <2>7. Listed(<<b>> \o <<c>>) BY <2>5, ListedJoin
  <2>8. Keeps(t, ts)
    <3> DEFINE rest == <<b>> \o <<c>>
    <3>1. ts = <<a>> \o rest /\ Listed(rest) BY <2>6, <2>7
    <3> HIDE DEF rest
    <3>2. QED BY <1>5, <2>1, <3>1
  <2>9. QED BY <2>8 DEF ts
<1>8. QED BY <1>3, <1>6, <1>7

\* A label, or an expression that begins with a name.
LEMMA AfterIdOutcome ==
  ASSUME NEW q, NEW t, Kind(q) = "id", t.f = "any_statement"
  PROVE  Outcome(q, t, AfterId(peek_token(Take(q)), q.current))
<1> DEFINE p == peek_token(Take(q))
           label == <<Task("statement"), Build("label", "", 2)>>
           u == unput(p, q.current)
<1>1. Small(label) BY StatementSmall
<1>2. Spends(q, Take(q), 79) /\ 79 \in Nat BY Pays
<1>3. Spends(q, p, 79) BY <1>2, SpendsRead
<1>4. q.current # None
  <2>1. None.k = "<none>" BY DEF None, Word
  <2>2. QED BY <2>1 DEF Kind
<1>5. Spends(q, u, 0) BY <1>4, UnputAheadSpends
<1>6. Spends(q, Take(p), 79) BY <1>2, <1>3, SpendsRead
<1> HIDE DEF p, label, u
<1>7. \A node : Spends(q, Yield(Take(p), node), 79) BY <1>2, <1>6, SpendsYield
<1>8. \A node : Outcome(q, t, Push(Yield(Take(p), node), label)) BY <1>1, <1>7, SpentPush
<1>9. Outcome(q, t, Push(u, declaration)) /\ Outcome(q, t, Push(u, expression_statement))
      BY <1>5, StartsStatement, FreePush
<1>10. Outcome(q, t, AfterId(p, q.current)) BY <1>8, <1>9 DEF AfterId, label, u
<1>11. QED BY <1>10 DEF p

\* A statement, by its first token.
LEMMA AnyStatementOutcome == ASSUME NEW q, NEW t, t.f = "any_statement" PROVE Outcome(q, t, any_statement(q))
<1>1. 3 <= Cost(t.f) BY CostTable
<1>2. Calm(t) BY DEF Calm, Needs, Transparent
<1>3. ASSUME Kind(q) = "{" PROVE Outcome(q, t, compound_statement(q))
  <2>1. Plan(<<>>, 0) /\ 0 <= 40 BY PlanNone
  <2>2. ASSUME Listed(q.stack) PROVE Outcome(q, t, compound_statement(q))
    <3>1. q.stack = <<>> \o q.stack BY <2>2, JoinNone
    <3>2. QED BY <1>3, <2>1, <3>1, BlockOutcome
  <2>3. ASSUME ~Listed(q.stack) PROVE Outcome(q, t, compound_statement(q)) BY <2>3 DEF Outcome
  <2>4. QED BY <2>2, <2>3
<1>4. Kind(q) = ";" => Outcome(q, t, Yield(Take(q), Skip)) BY Taken
<1>5. Outcome(q, t, Fail(q, "NotAStatement")) BY <1>1, <1>2, SpendsNone, FreeFail
<1>6. Kind(q) \in StatementWords \ {"else"} => Outcome(q, t, Push(Take(q), StatementTasks(Kind(q))))
  <2>1. "<none>" \notin StatementWords BY DEF StatementWords
  <2>2. QED BY <2>1, StatementTasksOutcome
<1>7. Outcome(q, t, Push(q, declaration)) /\ Outcome(q, t, Push(q, expression_statement))
      BY StartsStatement, Untaken
<1>8. Kind(q) = "id" => Outcome(q, t, AfterId(peek_token(Take(q)), q.current)) BY AfterIdOutcome
<1> DEFINE n == any_statement(q)
<1>9. \/ Kind(q) = "{" /\ n = compound_statement(q)
      \/ Kind(q) = ";" /\ n = Yield(Take(q), Skip)
      \/ n = Fail(q, "NotAStatement")
      \/ Kind(q) \in StatementWords \ {"else"} /\ n = Push(Take(q), StatementTasks(Kind(q)))
      \/ n = Push(q, declaration)
      \/ Kind(q) = "id" /\ n = AfterId(peek_token(Take(q)), q.current)
      \/ n = Push(q, expression_statement)
  <2> DEFINE k == Kind(q)
             words == StatementWords \ {"else"}
             a == compound_statement(q)
             b == Yield(Take(q), Skip)
             c == Fail(q, "NotAStatement")
             d == Push(Take(q), StatementTasks(k))
             e == Push(q, declaration)
             f == AfterId(peek_token(Take(q)), q.current)
             g == Push(q, expression_statement)
  <2>1. n = CASE k = "{" -> a [] k = ";" -> b [] k = "else" -> c [] k \in words -> d [] is_decl_specifier(q.current) -> e [] k = "id" -> f [] OTHER -> g
    BY DEF any_statement
  <2> HIDE DEF n, k, words, a, b, c, d, e, f, g
  <2>2. (k = "{" /\ n = a) \/ (k = ";" /\ n = b) \/ n = c \/ (k \in words /\ n = d) \/ n = e \/ (k = "id" /\ n = f) \/ n = g
    <3>1. k \in words => k \notin {"{", ";", "else", "id"} BY DEF words, StatementWords
    <3>2. is_decl_specifier(q.current) => k \notin words /\ k \notin {"{", ";", "else", "id"}
      BY DEF k, Kind, words, StatementWords, is_decl_specifier, Units, Qualifiers, Records
    <3>3. CASE k \in {"{", ";", "else", "id"} BY <2>1, <3>1, <3>2, <3>3
    <3>4. CASE k \in words BY <2>1, <3>1, <3>2, <3>4
    <3>5. CASE k \notin words /\ k \notin {"{", ";", "else", "id"} BY <2>1, <3>5
    <3>6. QED BY <3>3, <3>4, <3>5
  <2>3. QED BY <2>2 DEF k, words, a, b, c, d, e, f, g
<1> HIDE DEF n
<1>10. Outcome(q, t, n) BY <1>3, <1>4, <1>5, <1>6, <1>7, <1>8, <1>9
<1>11. QED BY <1>10 DEF n

-----------------------------------------------------------------------------
(* Every task but a block *)

\* expect and expect_id as tasks.
LEMMA ExpectTaskOutcome ==
  ASSUME NEW q, NEW t, Looked(q)
  PROVE  /\ t.f = "expect" => Outcome(q, t, expect(q, t.x))
         /\ t.f = "expect_id" => Outcome(q, t, expect_id(q))
<1>1. ASSUME t.f = "expect" PROVE Outcome(q, t, expect(q, t.x))
  <2>1. t.f \notin Leaves /\ \A b \in BOOLEAN : ~Needs(t, b) BY <1>1 DEF Leaves, Needs
  <2>2. Keeps(t, <<>>) BY <2>1, KeepsNone
  <2>3. 3 <= Cost(t.f) BY <1>1, CostTable
  <2>4. QED BY <2>2, <2>3, ExpectOutcome
<1>2. ASSUME t.f = "expect_id" PROVE Outcome(q, t, expect_id(q))
  <2>1. Calm(t) BY <1>2, SettledIs DEF Transparent, Leaves
  <2>2. 3 <= Cost(t.f) BY <1>2, CostTable
  <2>3. QED BY <2>1, <2>2, ExpectIdOutcome
<1>3. QED BY <1>1, <1>2

\* Every task that looks at the current token keeps to what it may do.
LEMMA PerformAtOutcome == ASSUME NEW q, NEW t, Looked(q), t.f \notin Silent \cup {"block"} PROVE Outcome(q, t, PerformAt(q, t))
<1>1. ASSUME t.f = "expect" PROVE Outcome(q, t, PerformAt(q, t)) BY <1>1, ExpectTaskOutcome DEF PerformAt
<1>2. ASSUME t.f = "expect_id" PROVE Outcome(q, t, PerformAt(q, t)) BY <1>2, ExpectTaskOutcome DEF PerformAt
<1>3. ASSUME t.f = "operators" PROVE Outcome(q, t, PerformAt(q, t)) BY <1>3, OperatorsOutcome DEF PerformAt
<1>4. ASSUME t.f = "unary" PROVE Outcome(q, t, PerformAt(q, t)) BY <1>4, UnaryOutcome DEF PerformAt
<1>5. ASSUME t.f = "operator" PROVE Outcome(q, t, PerformAt(q, t)) BY <1>5, OperatorOutcome DEF PerformAt
<1>6. ASSUME t.f = "primary" PROVE Outcome(q, t, PerformAt(q, t)) BY <1>6, PrimaryOutcome DEF PerformAt
<1>7. ASSUME t.f = "postfix" PROVE Outcome(q, t, PerformAt(q, t)) BY <1>7, PostfixOutcome DEF PerformAt
<1>8. ASSUME t.f = "first_argument" PROVE Outcome(q, t, PerformAt(q, t))
      BY <1>8, ArgumentOutcomes DEF PerformAt
<1>9. ASSUME t.f = "more_arguments" PROVE Outcome(q, t, PerformAt(q, t))
      BY <1>9, ArgumentOutcomes DEF PerformAt
<1>10. ASSUME t.f = "specifiers" PROVE Outcome(q, t, PerformAt(q, t))
      BY <1>10, SpecifiersOutcome DEF PerformAt
<1>11. ASSUME t.f = "struct" PROVE Outcome(q, t, PerformAt(q, t)) BY <1>11, StructOutcome DEF PerformAt
<1>12. ASSUME t.f = "enum" PROVE Outcome(q, t, PerformAt(q, t))
      BY <1>12, StructOutcome DEF PerformAt, enum_specifier
<1>13. ASSUME t.f = "members" PROVE Outcome(q, t, PerformAt(q, t)) BY <1>13, MembersOutcome DEF PerformAt
<1>14. ASSUME t.f = "struct_declarators" PROVE Outcome(q, t, PerformAt(q, t))
      BY <1>14, StructDeclaratorsOutcome DEF PerformAt
<1>15. ASSUME t.f = "bitfield" PROVE Outcome(q, t, PerformAt(q, t)) BY <1>15, BitfieldOutcome DEF PerformAt
<1>16. ASSUME t.f = "more_declarators" PROVE Outcome(q, t, PerformAt(q, t))
      BY <1>16, MoreDeclaratorsOutcome DEF PerformAt
<1>17. ASSUME t.f = "enumerators" PROVE Outcome(q, t, PerformAt(q, t))
      BY <1>17, EnumeratorsOutcome DEF PerformAt
<1>18. ASSUME t.f = "enum_value" PROVE Outcome(q, t, PerformAt(q, t))
      BY <1>18, EnumeratorOutcomes DEF PerformAt
<1>19. ASSUME t.f = "more_enumerators" PROVE Outcome(q, t, PerformAt(q, t))
      BY <1>19, EnumeratorOutcomes DEF PerformAt
<1>20. ASSUME t.f = "declarator" PROVE Outcome(q, t, PerformAt(q, t))
      BY <1>20, DeclaratorOutcome DEF PerformAt
<1>21. ASSUME t.f = "qualifiers" PROVE Outcome(q, t, PerformAt(q, t))
      BY <1>21, QualifiersOutcome DEF PerformAt
<1>22. ASSUME t.f = "direct_declarator" PROVE Outcome(q, t, PerformAt(q, t))
      BY <1>22, DirectDeclaratorOutcome DEF PerformAt
<1>23. ASSUME t.f = "postfix_type" PROVE Outcome(q, t, PerformAt(q, t))
      BY <1>23, PostfixTypeOutcome DEF PerformAt
<1>24. ASSUME t.f = "first_parameter" PROVE Outcome(q, t, PerformAt(q, t))
      BY <1>24, ParameterOutcomes DEF PerformAt
<1>25. ASSUME t.f = "parameter" PROVE Outcome(q, t, PerformAt(q, t)) BY <1>25, ParameterOutcomes DEF PerformAt
<1>26. ASSUME t.f = "more_parameters" PROVE Outcome(q, t, PerformAt(q, t))
      BY <1>26, ParameterOutcomes DEF PerformAt
<1>27. ASSUME t.f = "initial" PROVE Outcome(q, t, PerformAt(q, t)) BY <1>27, InitialOutcomes DEF PerformAt
<1>28. ASSUME t.f = "initializer" PROVE Outcome(q, t, PerformAt(q, t)) BY <1>28, InitialOutcomes DEF PerformAt
<1>29. ASSUME t.f = "elements" PROVE Outcome(q, t, PerformAt(q, t)) BY <1>29, InitialOutcomes DEF PerformAt
<1>30. ASSUME t.f = "more_elements" PROVE Outcome(q, t, PerformAt(q, t))
      BY <1>30, InitialOutcomes DEF PerformAt
<1>31. ASSUME t.f = "semicolons" PROVE Outcome(q, t, PerformAt(q, t)) BY <1>31, InitialOutcomes DEF PerformAt
<1>32. ASSUME t.f = "declared" PROVE Outcome(q, t, PerformAt(q, t)) BY <1>32, DeclaredOutcome DEF PerformAt
<1>33. ASSUME t.f = "function" PROVE Outcome(q, t, PerformAt(q, t)) BY <1>33, FunctionOutcome DEF PerformAt
<1>34. ASSUME t.f = "more" PROVE Outcome(q, t, PerformAt(q, t)) BY <1>34, MoreOutcome DEF PerformAt
<1>35. ASSUME t.f = "any_statement" PROVE Outcome(q, t, PerformAt(q, t))
      BY <1>35, AnyStatementOutcome DEF PerformAt
<1>36. ASSUME t.f = "else" PROVE Outcome(q, t, PerformAt(q, t)) BY <1>36, ElseOutcome DEF PerformAt
<1>37. ASSUME t.f = "for" PROVE Outcome(q, t, PerformAt(q, t)) BY <1>37, ForOutcome DEF PerformAt
<1> DEFINE looking == {"expect", "expect_id", "operators", "unary", "operator", "primary", "postfix", "first_argument", "more_arguments", "specifiers", "struct", "enum", "members", "struct_declarators", "bitfield", "more_declarators", "enumerators", "enum_value", "more_enumerators"}
                    \cup {"declarator", "qualifiers", "direct_declarator", "postfix_type", "first_parameter", "parameter", "more_parameters", "initial", "initializer", "elements", "more_elements", "semicolons", "declared", "function", "more", "any_statement", "else", "for"}
<1>38. ASSUME t.f \notin looking PROVE Outcome(q, t, PerformAt(q, t))
  <2>1. Cost(t.f) = 13 BY <1>38 DEF Cost, Silent
  <2>2. \A ts : Keeps(t, ts) BY <1>38, SettledIs DEF Transparent, Leaves, Silent
  <2>3. Outcome(q, t, expr_opt(q, t.x)) BY <2>1, <2>2, ExprOptOutcome
  <2>4. PerformAt(q, t) = expr_opt(q, t.x) BY <1>38 DEF PerformAt
  <2>5. QED BY <2>3, <2>4
<1>39. QED BY <1>1, <1>2, <1>3, <1>4, <1>5, <1>6, <1>7, <1>8, <1>9, <1>10, <1>11, <1>12, <1>13, <1>14,
              <1>15, <1>16, <1>17, <1>18, <1>19,
  <1>20, <1>21, <1>22, <1>23, <1>24, <1>25, <1>26, <1>27, <1>28, <1>29, <1>30, <1>31, <1>32, <1>33, <1>34, <1>35, <1>36, <1>37, <1>38

\* The sums behind a look at the current token.
LEMMA Sums ==
  /\ \A a, b \in Nat : a + 0 <= b => a <= b
  /\ \A a, b, c \in Nat : a <= b /\ b <= c => a <= c
  /\ \A a, b, c, k, v \in Nat : b <= c /\ a + v + 26 <= b + k => a + v + 26 <= c + k
  /\ \A a, b, c, k, v \in Nat : b <= c /\ a + v + 1 <= b + k => a + v + 1 <= c + k
  /\ \A a, b, c, k, v \in Nat : b <= c /\ a + v + 1 <= b + k + 23 => a + v + 1 <= c + k + 23
  /\ \A a, b, c, k \in Nat : b <= c /\ a + 3 <= b + k => a + 3 <= c + k
OBVIOUS

\* Every task but a block keeps to what it may do.
LEMMA StepOutcome == ASSUME NEW m, NEW t, t.f # "block" PROVE Outcome(m, t, Step(m, t))
<1> DEFINE q == peek_token(m)
           n == PerformAt(q, t)
<1>1. ASSUME t.f \in Silent PROVE Outcome(m, t, Step(m, t)) BY <1>1, PerformOutcome DEF Step
<1>2. ASSUME t.f \notin Silent PROVE Outcome(m, t, Step(m, t))
  <2>1. Spends(m, q, 0) /\ (Sound(m) => Looked(q)) BY PeekSpends DEF Looked
  <2>2. Looked(q) => Outcome(q, t, n) BY <1>2, PerformAtOutcome
  <2> HIDE DEF q, n
  <2>3. SUFFICES ASSUME Sound(m), Listed(m.stack), m.failed = ""
        PROVE  /\ Sound(n) /\ Left(n) <= Left(m)
               /\ Consumes(m, t, n) \/ Proceeds(m, t, n) \/ Opens(m, t, n) \/ GivesUp(m, t, n)
    BY <1>2 DEF Outcome, Step, q, n
  <2>4. Sound(q) /\ q.stack = m.stack /\ q.failed = "" /\ Left(q) <= Left(m) /\ Owed(q) + 0 <= Owed(m)
        BY <2>1, <2>3 DEF Spends
  <2>5. Sound(n) /\ Left(n) <= Left(q) /\ (Consumes(q, t, n) \/ Proceeds(q, t, n) \/ Opens(q, t, n) \/ GivesUp(q, t, n))
    BY <2>1, <2>2, <2>3, <2>4 DEF Outcome
  <2>6. Left(n) <= Left(m)
    <3>1. Left(n) \in Nat /\ Left(q) \in Nat /\ Left(m) \in Nat BY <2>3, <2>4, <2>5, OwedIs
    <3>2. QED BY <2>4, <2>5, <3>1, Sums
  <2> DEFINE a == Owed(n)
             b == Owed(q)
             c == Owed(m)
             k == Cost(t.f)
  <2>7. a \in Nat /\ b \in Nat /\ c \in Nat /\ k \in Nat /\ b <= c
    <3>1. Owed(n) \in Nat /\ Owed(q) \in Nat /\ Owed(m) \in Nat BY <2>3, <2>4, <2>5, OwedIs
    <3>2. Cost(t.f) \in Nat BY CostNat
    <3>3. QED BY <2>4, <3>1, <3>2, Sums
  <2>8. Consumes(q, t, n) => Consumes(m, t, n)
    <3>1. SUFFICES ASSUME NEW ts, NEW v, Costs(ts, v), n.stack = ts \o q.stack, a + v + 26 <= b + k PROVE Consumes(m, t, n)
      BY DEF Consumes
    <3>2. v \in Nat BY <3>1, CostsNat
    <3> HIDE DEF a, b, c, k
    <3>3. a + v + 26 <= c + k BY <2>7, <3>1, <3>2, Sums
    <3>4. QED BY <2>4, <3>1, <3>3 DEF Consumes, a, c, k
  <2>9. Proceeds(q, t, n) => Proceeds(m, t, n)
    <3>1. SUFFICES ASSUME NEW ts, NEW v, Plan(ts, v), n.stack = ts \o q.stack, n.failed = "", a + v + 1 <= b + k, Keeps(t, ts) PROVE Proceeds(m, t, n)
      BY DEF Proceeds
    <3>2. v \in Nat BY <3>1, PlanNat
    <3> HIDE DEF a, b, c, k
    <3>3. a + v + 1 <= c + k BY <2>7, <3>1, <3>2, Sums
    <3>4. QED BY <2>4, <3>1, <3>3 DEF Proceeds, a, c, k
  <2>10. Opens(q, t, n) => Opens(m, t, n)
    <3>1. SUFFICES ASSUME Settled(t), NEW ts, NEW v, Plan(ts, v), n.stack = ts \o q.stack, n.failed = "", a + v + 1 <= b + k + 23,
                          \A x \in BOOLEAN : Reaches(ts, x)
          PROVE  Opens(m, t, n)
      BY DEF Opens
    <3>2. v \in Nat BY <3>1, PlanNat
    <3> HIDE DEF a, b, c, k
    <3>3. a + v + 1 <= c + k + 23 BY <2>7, <3>1, <3>2, Sums
    <3>4. QED BY <2>4, <3>1, <3>3 DEF Opens, a, c, k
  <2>11. GivesUp(q, t, n) => GivesUp(m, t, n)
    <3>1. SUFFICES ASSUME n.stack = q.stack, n.failed # "", a + 3 <= b + k, Left(n) = 0 \/ Calm(t) PROVE GivesUp(m, t, n)
          BY DEF GivesUp
    <3> HIDE DEF a, b, c, k
    <3>2. a + 3 <= c + k BY <2>7, <3>1, Sums
    <3>3. QED BY <2>4, <3>1, <3>2 DEF GivesUp, a, c, k
  <2>12. QED BY <2>5, <2>6, <2>8, <2>9, <2>10, <2>11
<1>3. QED BY <1>1, <1>2

-----------------------------------------------------------------------------
(* The account of a parser *)

\* An error that is propagated is reported in the end.
Lost(m) == IF m.failed = "" THEN 0 ELSE 2
\* what m does next takes a token, or there is none
MayOwe(m) ==
  \/ m.failed = "" /\ Reaches(m.stack, HasBlock(m.stack))
  \/ m.failed # "" /\ HasBlock(m.stack)
  \/ /\ Left(m) = 0 /\ ~HasBlock(m.stack)
     /\ m.failed # "" \/ m.stack = <<>> \/ Head(m.stack).f \in Leaves
\* what m still has to do is paid for, but for a debt to its next token
Account(m, spent, budget) ==
  /\ Sound(m)
  /\ \E v \in Nat, debt \in 0..23 :
        Costs(m.stack, v) /\ (debt = 0 \/ MayOwe(m)) /\ Owed(m) + v + Lost(m) + spent <= budget + debt

\* An error that is propagated costs two steps.
LEMMA LostIs == \A m : Lost(m) \in Nat /\ Lost(m) <= 2 /\ (m.failed = "" => Lost(m) = 0) /\ (m.failed # "" => Lost(m) = 2)
<1>1. SUFFICES ASSUME NEW m PROVE Lost(m) \in Nat /\ Lost(m) <= 2 /\ (m.failed = "" => Lost(m) = 0) /\ (m.failed # "" => Lost(m) = 2) OBVIOUS
<1>2. 0 \in Nat /\ 2 \in Nat /\ 0 <= 2 /\ 2 <= 2 OBVIOUS
<1>3. m.failed = "" => Lost(m) = 0 BY DEF Lost
<1>4. m.failed # "" => Lost(m) = 2 BY DEF Lost
<1>5. QED BY <1>2, <1>3, <1>4, Zenon

\* Taking a task off the stack costs no token.
LEMMA PopIs ==
  ASSUME NEW m, Sound(m)
  PROVE  LET n == Pop(m)
         IN Sound(n) /\ Left(n) = Left(m) /\ Owed(n) = Owed(m) /\ n.stack = Tail(m.stack) /\ n.failed = m.failed
<1> DEFINE n == Pop(m)
<1>1. DOMAIN m = Fields BY DEF Sound, Good, Placed
<1>2. n = [m EXCEPT !.stack = Tail(m.stack)] BY DEF Pop
<1>3. /\ n.tokens = m.tokens /\ n.read = m.read /\ n.current = m.current /\ n.next = m.next
      /\ n.errors = m.errors /\ n.pending = m.pending /\ n.stack = Tail(m.stack) /\ n.failed = m.failed
      /\ n.bad = m.bad /\ n.exited = m.exited /\ DOMAIN n = Fields
  BY <1>1, <1>2, FieldsAre
<1> HIDE DEF n
<1>4. Good(n) BY <1>3 DEF Sound, Good, Placed, Queued, Known
<1>5. Sound(n) BY <1>3, <1>4 DEF Sound
<1>6. Left(n) = Left(m) BY <1>3 DEF Left
<1>7. Owed(n) = Owed(m) BY <1>3, <1>6 DEF Owed
<1>8. QED BY <1>3, <1>5, <1>6, <1>7 DEF n

\* what a task leaves to pay, by what it does
LEMMA Sums2 ==
  /\ \A o, r, w, h, k, c, l, s, b, d \in Nat :
        r + c + 26 <= o + k /\ k <= h /\ l <= 2 /\ d <= 23 /\ o + (w + h) + 0 + s <= b + d => r + (c + w) + l + (s + 1) <= b + 0
  /\ \A o, r, w, h, k, c, s, b, d \in Nat :
        r + c + 1 <= o + k /\ k <= h /\ o + (w + h) + 0 + s <= b + d => r + (c + w) + 0 + (s + 1) <= b + d
  /\ \A o, r, w, h, k, c, s, b \in Nat :
        r + c + 1 <= o + k + 23 /\ k <= h /\ o + (w + h) + 0 + s <= b + 0 => r + (c + w) + 0 + (s + 1) <= b + 23
  /\ \A o, r, w, h, k, s, b, d \in Nat :
        r + 3 <= o + k /\ k <= h /\ o + (w + h) + 0 + s <= b + d => r + w + 2 + (s + 1) <= b + d
  /\ \A c, w \in Nat : c + w \in Nat
OBVIOUS

\* The debts there may be.
LEMMA Debts == 0 \in 0..23 /\ 23 \in 0..23 /\ \A d \in 0..23 : d \in Nat /\ d <= 23
OBVIOUS

\* p is what is left to do when t is done
LEMMA ConsumesAccount ==
  ASSUME NEW p, NEW t, NEW n, Sound(p), Sound(n), NEW w \in Nat, Costs(p.stack, w), Consumes(p, t, n),
         NEW spent \in Nat, NEW budget \in Nat, NEW debt \in 0..23, NEW h \in Nat, Cost(t.f) <= h,
         Owed(p) + (w + h) + 0 + spent <= budget + debt
  PROVE  Account(n, spent + 1, budget)
<1>1. PICK ts, c : Costs(ts, c) /\ n.stack = ts \o p.stack /\ Owed(n) + c + 26 <= Owed(p) + Cost(t.f)
      BY DEF Consumes
<1>2. c \in Nat BY <1>1, CostsNat
<1>3. Costs(n.stack, c + w) BY <1>1, CostsJoin
<1>4. Owed(p) \in Nat /\ Owed(n) \in Nat BY OwedIs
<1>5. Cost(t.f) \in Nat BY CostNat
<1>6. Lost(n) \in Nat /\ Lost(n) <= 2 BY LostIs
<1>7. debt \in Nat /\ debt <= 23 /\ 0 \in 0..23 BY Debts
<1>8. Owed(n) + (c + w) + Lost(n) + (spent + 1) <= budget + 0
  <2> DEFINE o == Owed(p)
             r == Owed(n)
             k == Cost(t.f)
             l == Lost(n)
  <2>1. o \in Nat /\ r \in Nat /\ k \in Nat /\ l \in Nat /\ debt \in Nat BY <1>4, <1>5, <1>6, <1>7
  <2>2. r + c + 26 <= o + k /\ k <= h /\ l <= 2 /\ debt <= 23 /\ o + (w + h) + 0 + spent <= budget + debt
        BY <1>1, <1>6, <1>7
  <2> HIDE DEF o, r, k, l
  <2>3. r + (c + w) + l + (spent + 1) <= budget + 0 BY <1>2, <2>1, <2>2, Sums2
  <2>4. QED BY <2>3 DEF r, l
<1>9. c + w \in Nat BY <1>2, Sums2
<1>10. QED BY <1>3, <1>7, <1>8, <1>9 DEF Account

\* A task that fails hands its price to the report of the error.
LEMMA GivesUpAccount ==
  ASSUME NEW p, NEW t, NEW n, Sound(p), Sound(n), NEW w \in Nat, Costs(p.stack, w), GivesUp(p, t, n),
         NEW spent \in Nat, NEW budget \in Nat, NEW debt \in 0..23, NEW h \in Nat, Cost(t.f) <= h,
         Owed(p) + (w + h) + 0 + spent <= budget + debt, debt = 0 \/ MayOwe(n)
  PROVE  Account(n, spent + 1, budget)
<1>1. n.stack = p.stack /\ n.failed # "" /\ Owed(n) + 3 <= Owed(p) + Cost(t.f) BY DEF GivesUp
<1>2. Owed(p) \in Nat /\ Owed(n) \in Nat BY OwedIs
<1>3. Cost(t.f) \in Nat /\ debt \in Nat BY CostNat, Debts
<1>4. Lost(n) = 2 BY <1>1, LostIs
<1>5. Owed(n) + w + 2 + (spent + 1) <= budget + debt BY <1>1, <1>2, <1>3, Sums2
<1>6. QED BY <1>1, <1>4, <1>5 DEF Account

\* A task that goes on hands its price to what it pushes.
LEMMA ProceedsAccount ==
  ASSUME NEW p, NEW n, Sound(p), Sound(n), NEW w \in Nat, Costs(p.stack, w), NEW ts, NEW c, Plan(ts, c), n.stack = ts \o p.stack,
         n.failed = "", NEW k \in Nat, Owed(n) + c + 1 <= Owed(p) + k,
         NEW spent \in Nat, NEW budget \in Nat, NEW debt \in 0..23, NEW h \in Nat, k <= h,
         Owed(p) + (w + h) + 0 + spent <= budget + debt, debt = 0 \/ MayOwe(n)
  PROVE  Account(n, spent + 1, budget)
<1>1. c \in Nat BY PlanNat
<1>2. Costs(n.stack, c + w) BY CostsJoin DEF Plan
<1>3. Owed(p) \in Nat /\ Owed(n) \in Nat BY OwedIs
<1>4. debt \in Nat BY Debts
<1>5. Lost(n) = 0 BY LostIs
<1>6. Owed(n) + (c + w) + 0 + (spent + 1) <= budget + debt BY <1>1, <1>3, <1>4, Sums2
<1>7. c + w \in Nat BY <1>1, Sums2
<1>8. QED BY <1>2, <1>5, <1>6, <1>7 DEF Account

\* A statement runs into debt with a token that is to come.
LEMMA OpensAccount ==
  ASSUME NEW p, NEW n, Sound(p), Sound(n), NEW w \in Nat, Costs(p.stack, w), NEW ts, NEW c, Plan(ts, c), n.stack = ts \o p.stack,
         n.failed = "", NEW k \in Nat, Owed(n) + c + 1 <= Owed(p) + k + 23,
         NEW spent \in Nat, NEW budget \in Nat, NEW h \in Nat, k <= h,
         Owed(p) + (w + h) + 0 + spent <= budget + 0, MayOwe(n)
  PROVE  Account(n, spent + 1, budget)
<1>1. c \in Nat BY PlanNat
<1>2. Costs(n.stack, c + w) BY CostsJoin DEF Plan
<1>3. Owed(p) \in Nat /\ Owed(n) \in Nat BY OwedIs
<1>4. 23 \in 0..23 BY Debts
<1>5. Lost(n) = 0 BY LostIs
<1>6. Owed(n) + (c + w) + 0 + (spent + 1) <= budget + 23 BY <1>1, <1>3, Sums2
<1>7. c + w \in Nat BY <1>1, Sums2
<1>8. QED BY <1>2, <1>4, <1>5, <1>6, <1>7 DEF Account

\* What is owed to a token is owed by what is next on the stack.
LEMMA OwesNot ==
  ASSUME NEW m, Listed(m.stack), m.stack # <<>>, m.failed = "", Settled(Head(m.stack)) \/ Head(m.stack).f = "block"
  PROVE  ~MayOwe(m)
<1> DEFINE t == Head(m.stack)
           b == HasBlock(m.stack)
<1>1. b \in BOOLEAN BY DEF HasBlock
<1>2. t.f \notin Transparent \cup Leaves /\ ~Needs(t, b)
  <2>1. CASE Settled(t) BY <1>1, <2>1 DEF Settled
  <2>2. CASE t.f = "block" BY <2>2 DEF Transparent, Leaves, Needs
  <2>3. QED BY <2>1, <2>2
<1> HIDE DEF t, b
<1>3. ~Reaches(m.stack, b) BY <1>2, HeadReaches DEF t
<1>4. QED BY <1>2, <1>3 DEF MayOwe, t, b

\* Nothing is owed when the stack is empty, but at the end.
LEMMA OwesNone == ASSUME NEW m, m.stack = <<>>, MayOwe(m) PROVE Left(m) = 0
<1>1. DOMAIN <<>> = {} OBVIOUS
<1>2. ~HasBlock(<<>>) /\ ~Reaches(<<>>, HasBlock(<<>>)) BY <1>1 DEF HasBlock, Reaches
<1>3. QED BY <1>2 DEF MayOwe

\* The head of two lists is that of the first one.
LEMMA HeadJoin ==
  ASSUME NEW a, NEW b, Listed(a), Listed(b), a # <<>>
  PROVE  a \o b # <<>> /\ Head(a \o b) = Head(a)
<1> DEFINE s == a \o b
<1>1. /\ Listed(s) /\ Len(s) = Len(a) + Len(b)
      /\ \A i \in 1..Len(a) : s[i] = a[i]
  BY ListedJoin
<1>2. Len(a) \in Nat /\ Len(b) \in Nat /\ Len(a) >= 1 /\ Head(a) = a[1] BY ListedTail, ListedIs
<1> HIDE DEF s
<1>3. Len(s) >= 1 /\ 1 \in 1..Len(a) BY <1>1, <1>2
<1>4. s # <<>> BY <1>3
<1>5. Head(s) = s[1] BY <1>1, <1>4, ListedTail
<1>6. s[1] = a[1] BY <1>1, <1>3
<1>7. QED BY <1>2, <1>4, <1>5, <1>6 DEF s

\* a task that goes on hands on what it owes
LEMMA OwesOn ==
  ASSUME NEW m, NEW n, NEW ts, NEW c, Listed(m.stack), m.stack # <<>>, m.failed = "", MayOwe(m), Head(m.stack).f # "block",
         Plan(ts, c), n.stack = ts \o Tail(m.stack), n.failed = "", Keeps(Head(m.stack), ts), Left(m) = 0 => Left(n) = 0
  PROVE  MayOwe(n)
<1> DEFINE t == Head(m.stack)
           rest == Tail(m.stack)
           b == HasBlock(m.stack)
<1>1. Listed(ts) /\ Listed(rest) /\ ~HasBlock(ts) BY PlanNat, ListedTail DEF Plan
<1>2. HasBlock(n.stack) <=> b
  <2>1. b <=> HasBlock(rest) BY HeadBlock
  <2> HIDE DEF rest, b
  <2>2. HasBlock(ts \o rest) <=> HasBlock(ts) \/ HasBlock(rest) BY <1>1, HasBlockJoin
  <2>3. QED BY <1>1, <2>1, <2>2 DEF rest
<1>3. b \in BOOLEAN BY DEF HasBlock
<1>4. HasBlock(n.stack) = b
  <2>1. HasBlock(n.stack) \in BOOLEAN BY DEF HasBlock
  <2> HIDE DEF b
  <2>2. QED BY <1>2, <1>3, <2>1
<1>5. Reaches(m.stack, b) => Needs(t, b) \/ (t.f \in Transparent /\ Reaches(rest, b)) BY HeadReaches
<1> HIDE DEF t, rest, b
<1>6. n.stack = ts \o rest /\ Keeps(t, ts) BY DEF rest, t
<1>7. ASSUME Reaches(m.stack, b) PROVE MayOwe(n)
  <2>1. Reaches(ts, b) \/ (Open(ts) /\ Reaches(rest, b))
    <3>1. CASE Needs(t, b) BY <1>3, <1>6, <3>1 DEF Keeps
    <3>2. CASE t.f \in Transparent /\ Reaches(rest, b) BY <1>3, <1>6, <3>2 DEF Keeps
    <3>3. QED BY <1>5, <1>7, <3>1, <3>2
  <2>2. Reaches(ts \o rest, b) BY <1>1, <2>1, ReachesJoin
  <2>3. QED BY <1>4, <1>6, <2>2 DEF MayOwe
<1>8. ASSUME Left(m) = 0, ~b, t.f \in Leaves PROVE MayOwe(n)
  <2>1. ts # <<>> /\ Head(ts).f \in Leaves BY <1>6, <1>8 DEF Keeps
  <2>2. Head(ts \o rest) = Head(ts) /\ ts \o rest # <<>> BY <1>1, <2>1, HeadJoin
  <2>3. Head(n.stack).f \in Leaves BY <1>6, <2>1, <2>2
  <2>4. Left(n) = 0 BY <1>8
  <2>5. ~HasBlock(n.stack) BY <1>2, <1>8
  <2>6. QED BY <2>3, <2>4, <2>5 DEF MayOwe
<1>9. QED BY <1>7, <1>8 DEF MayOwe, t, b

\* a task that gives up leaves it to the block, or there is no token
LEMMA OwesUp ==
  ASSUME NEW m, NEW n, Listed(m.stack), m.stack # <<>>, m.failed = "", MayOwe(m), Head(m.stack).f # "block",
         n.stack = Tail(m.stack), n.failed # "", Left(n) = 0 \/ Calm(Head(m.stack)), Left(m) = 0 => Left(n) = 0
  PROVE  MayOwe(n)
<1> DEFINE t == Head(m.stack)
           b == HasBlock(m.stack)
<1>1. b <=> HasBlock(n.stack) BY HeadBlock
<1>2. Reaches(m.stack, b) => Needs(t, b) \/ t.f \in Transparent BY HeadReaches
<1>3. b \in BOOLEAN BY DEF HasBlock
<1>4. Left(n) = 0 \/ Calm(t) OBVIOUS
<1>5. (Reaches(m.stack, b) \/ (Left(m) = 0 /\ ~b)) BY DEF MayOwe
<1> HIDE DEF t, b
<1>6. CASE Left(n) = 0 BY <1>6 DEF MayOwe
<1>7. CASE Calm(t) /\ Reaches(m.stack, b)
  <2>1. Needs(t, b) BY <1>2, <1>7 DEF Calm
  <2>2. b BY <1>3, <1>7, <2>1 DEF Calm
  <2>3. QED BY <1>1, <2>2 DEF MayOwe
<1>8. QED BY <1>4, <1>5, <1>6, <1>7

-----------------------------------------------------------------------------
(* The account of every step *)

\* The sums of a task that fails.
LEMMA Ends ==
  /\ \A o, r, v, k, s, b, d \in Nat : r + 2 <= o + v /\ k <= 2 /\ o + v + 0 + s <= b + d => r + k + (s + 1) <= b + d + 2
  /\ \A o, r \in Nat : r <= o /\ o = 0 => r = 0
OBVIOUS

\* the account, without its next task
LEMMA AccountPop ==
  ASSUME NEW m, NEW spent \in Nat, NEW budget \in Nat, Account(m, spent, budget), m.stack # <<>>
  PROVE  /\ Sound(m) /\ Listed(m.stack) /\ Listed(Tail(m.stack)) /\ Listed(Head(m.stack).errs)
         /\ Sound(Pop(m)) /\ Left(Pop(m)) = Left(m) /\ Pop(m).stack = Tail(m.stack) /\ Pop(m).failed = m.failed
         /\ \E w \in Nat, debt \in 0..23 :
               /\ Costs(Tail(m.stack), w) /\ (debt = 0 \/ MayOwe(m))
               /\ Owed(Pop(m)) + (w + Weight(Head(m.stack))) + Lost(m) + spent <= budget + debt
<1>1. PICK v \in Nat, debt \in 0..23 : Costs(m.stack, v) /\ (debt = 0 \/ MayOwe(m)) /\ Owed(m) + v + Lost(m) + spent <= budget + debt
  BY DEF Account
<1>2. PICK w \in Nat : Costs(Tail(m.stack), w) /\ v = w + Weight(Head(m.stack)) BY <1>1, CostsPop
<1>3. Listed(m.stack) /\ Listed(Tail(m.stack)) /\ Listed(Head(m.stack).errs) BY <1>1, <1>2, CostsPop DEF Costs
<1>4. Sound(m) BY DEF Account
<1>5. Sound(Pop(m)) /\ Left(Pop(m)) = Left(m) /\ Owed(Pop(m)) = Owed(m) /\ Pop(m).stack = Tail(m.stack) /\ Pop(m).failed = m.failed
  BY <1>4, PopIs
<1>6. QED BY <1>1, <1>2, <1>3, <1>4, <1>5

\* Every task but a block keeps the account.
LEMMA TaskAccount ==
  ASSUME NEW m, NEW spent \in Nat, NEW budget \in Nat, Account(m, spent, budget), m.stack # <<>>, m.failed = "", Head(m.stack).f # "block"
  PROVE  Account(Step(Pop(m), Head(m.stack)), spent + 1, budget)
<1> DEFINE t == Head(m.stack)
           p == Pop(m)
           n == Step(p, t)
           h == Weight(t)
<1>1. /\ Sound(m) /\ Listed(m.stack) /\ Listed(p.stack) /\ Listed(t.errs)
      /\ Sound(p) /\ Left(p) = Left(m) /\ p.stack = Tail(m.stack) /\ p.failed = ""
  BY AccountPop
<1>2. PICK w \in Nat, debt \in 0..23 :
         Costs(p.stack, w) /\ (debt = 0 \/ MayOwe(m)) /\ Owed(p) + (w + h) + Lost(m) + spent <= budget + debt
  BY <1>1, AccountPop
<1>3. Lost(m) = 0 BY LostIs
<1>4. h \in Nat /\ Cost(t.f) <= h
  <2>1. Weight(t) \in Nat /\ Weight(t) >= Cost(t.f) BY <1>1, WeightIs
  <2>2. Cost(t.f) \in Nat BY CostNat
  <2>3. QED BY <2>1, <2>2
<1>5. Outcome(p, t, n) BY StepOutcome
<1>a. SUFFICES Account(n, spent + 1, budget) OBVIOUS
<1> HIDE DEF p, n
<1>6. Sound(n) /\ Left(n) <= Left(m) /\ (Consumes(p, t, n) \/ Proceeds(p, t, n) \/ Opens(p, t, n) \/ GivesUp(p, t, n))
  BY <1>1, <1>5 DEF Outcome
<1>7. Left(m) = 0 => Left(n) = 0
  <2>1. Left(m) \in Nat /\ Left(n) \in Nat BY <1>1, <1>6, OwedIs
  <2>2. QED BY <1>6, <2>1, Ends
<1>8. Owed(p) + (w + h) + 0 + spent <= budget + debt BY <1>2, <1>3
<1>9. Cost(t.f) \in Nat BY CostNat
<1> HIDE DEF h
<1>10. CASE Consumes(p, t, n) BY <1>1, <1>2, <1>4, <1>6, <1>8, <1>10, ConsumesAccount
<1>11. CASE Proceeds(p, t, n)
  <2>1. PICK ts, c : Plan(ts, c) /\ n.stack = ts \o p.stack /\ n.failed = "" /\ Owed(n) + c + 1 <= Owed(p) + Cost(t.f) /\ Keeps(t, ts)
    BY <1>11 DEF Proceeds
  <2>2. ASSUME MayOwe(m) PROVE MayOwe(n)
    <3>1. n.stack = ts \o Tail(m.stack) BY <1>1, <2>1
    <3>2. QED BY <1>1, <1>7, <2>1, <2>2, <3>1, OwesOn
  <2>3. debt = 0 \/ MayOwe(n) BY <1>2, <2>2
  <2>4. QED BY <1>1, <1>2, <1>4, <1>6, <1>8, <1>9, <2>1, <2>3, ProceedsAccount
<1>12. CASE Opens(p, t, n)
  <2>1. PICK ts, c : /\ Plan(ts, c) /\ n.stack = ts \o p.stack /\ n.failed = "" /\ Owed(n) + c + 1 <= Owed(p) + Cost(t.f) + 23
                     /\ \A b \in BOOLEAN : Reaches(ts, b)
    BY <1>12 DEF Opens
  <2>2. debt = 0
    <3>1. Settled(t) BY <1>12 DEF Opens
    <3>2. ~MayOwe(m) BY <1>1, <3>1, OwesNot
    <3>3. QED BY <1>2, <3>2
  <2>3. MayOwe(n)
    <3> DEFINE b == HasBlock(n.stack)
    <3>1. b \in BOOLEAN BY DEF HasBlock
    <3> HIDE DEF b
    <3>2. Reaches(ts, b) /\ Listed(ts) BY <2>1, <3>1, PlanNat
    <3>3. Reaches(ts \o p.stack, b) BY <1>1, <3>2, ReachesJoin
    <3>4. QED BY <2>1, <3>3 DEF MayOwe, b
  <2>4. Owed(p) + (w + h) + 0 + spent <= budget + 0 BY <1>8, <2>2
  <2>5. QED BY <1>1, <1>2, <1>4, <1>6, <1>9, <2>1, <2>3, <2>4, OpensAccount
<1>13. CASE GivesUp(p, t, n)
  <2>1. ASSUME MayOwe(m) PROVE MayOwe(n)
    <3>1. n.stack = Tail(m.stack) /\ n.failed # "" /\ (Left(n) = 0 \/ Calm(t)) BY <1>1, <1>13 DEF GivesUp
    <3>2. QED BY <1>1, <1>7, <2>1, <3>1, OwesUp
  <2>2. debt = 0 \/ MayOwe(n) BY <1>2, <2>1
  <2>3. QED BY <1>1, <1>2, <1>4, <1>6, <1>8, <1>13, <2>2, GivesUpAccount
<1>14. QED BY <1>6, <1>10, <1>11, <1>12, <1>13

\* A block that returns its errors.
LEMMA KeptErrors ==
  ASSUME NEW m, Sound(m), NEW extra, Listed(extra)
  PROVE  LET n == [m EXCEPT !.errors = m.errors \o extra]
         IN Sound(n) /\ Left(n) = Left(m) /\ Owed(n) = Owed(m) + Len(extra) /\ n.stack = m.stack /\ n.failed = m.failed
<1> DEFINE n == [m EXCEPT !.errors = m.errors \o extra]
<1>1. DOMAIN m = Fields BY DEF Sound, Good, Placed
<1>2. /\ n.tokens = m.tokens /\ n.read = m.read /\ n.current = m.current /\ n.next = m.next
      /\ n.errors = m.errors \o extra /\ n.pending = m.pending /\ n.stack = m.stack /\ n.failed = m.failed
      /\ n.bad = m.bad /\ n.exited = m.exited /\ DOMAIN n = Fields
  BY <1>1, FieldsAre
<1> HIDE DEF n
<1>3. Good(n) BY <1>2 DEF Sound, Good, Placed, Queued, Known
<1>4. Listed(m.errors) BY DEF Sound
<1>5. Listed(n.errors) /\ Len(n.errors) = Len(m.errors) + Len(extra) BY <1>2, <1>4, ListedJoin
<1>6. Sound(n) BY <1>2, <1>3, <1>5 DEF Sound
<1>7. Left(n) = Left(m) BY <1>2 DEF Left
<1>8. Owed(n) = Owed(m) + Len(extra)
  <2> DEFINE x == Len(m.errors)
             y == Len(n.errors)
             z == Len(m.pending)
             l == Left(m)
             f == Len(extra)
  <2>1. Owed(m) = 80 * l + x + z /\ l \in Nat /\ x \in Nat /\ z \in Nat BY OwedIs
  <2>2. Owed(n) = 80 * l + y + z BY <1>2, <1>6, <1>7, OwedIs
  <2>3. y = x + f BY <1>5
  <2>4. f \in Nat BY ListedIs
  <2> HIDE DEF x, y, z, l, f
  <2>5. Owed(n) = Owed(m) + f BY <2>1, <2>2, <2>3, <2>4
  <2>6. QED BY <2>5 DEF f
<1>9. QED BY <1>2, <1>6, <1>7, <1>8 DEF n

\* The errors that a block returns or fails with.
LEMMA ResultSums ==
  /\ \A o : o \in Nat => o + 0 <= o + 0 + 1
  /\ \A o, a, n, l, e \in Nat : a = o + (e - 1) /\ n = a /\ l <= 2 => n + l <= o + e + 1
OBVIOUS

\* a block ends: its errors are reported
LEMMA BlockResultIs ==
  ASSUME NEW m, Sound(m), m.failed = "", NEW errs, Listed(errs)
  PROVE  LET n == BlockResult(m, errs)
         IN /\ Sound(n) /\ Left(n) = Left(m) /\ n.stack = m.stack /\ Owed(n) + Lost(n) <= Owed(m) + Len(errs) + 1
            /\ errs # <<>> => n.failed = Last(errs)
<1> DEFINE n == BlockResult(m, errs)
<1>1. Owed(m) \in Nat /\ Len(errs) \in Nat BY OwedIs, ListedIs
<1>2. CASE errs = <<>>
  <2>1. n = m BY <1>2 DEF BlockResult
  <2>2. Lost(m) = 0 /\ Len(errs) = 0 BY <1>2, LostIs, EmptySeq
  <2>3. Owed(m) + 0 <= Owed(m) + 0 + 1 BY <1>1, ResultSums
  <2>4. QED BY <1>2, <2>1, <2>2, <2>3
<1>3. CASE errs # <<>>
  <2> DEFINE a == [m EXCEPT !.errors = m.errors \o Front(errs)]
  <2>1. n = Fail(a, Last(errs)) BY <1>3 DEF BlockResult
  <2>2. Listed(Front(errs)) /\ Len(Front(errs)) = Len(errs) - 1 BY <1>3, ListedFront
  <2>3. Sound(a) /\ Left(a) = Left(m) /\ Owed(a) = Owed(m) + Len(Front(errs)) /\ a.stack = m.stack
        BY <2>2, KeptErrors
  <2> HIDE DEF a, n
  <2>4. Sound(n) /\ Left(n) = Left(a) /\ Owed(n) = Owed(a) /\ n.stack = a.stack /\ n.failed = Last(errs)
        BY <2>1, <2>3, FailIs
  <2>5. Lost(n) \in Nat /\ Lost(n) <= 2 /\ Owed(a) \in Nat /\ Owed(n) \in Nat BY <2>3, <2>4, LostIs, OwedIs
  <2>6. Owed(a) = Owed(m) + (Len(errs) - 1) BY <2>2, <2>3
  <2>7. Owed(n) + Lost(n) <= Owed(m) + Len(errs) + 1 BY <1>1, <2>4, <2>5, <2>6, ResultSums
  <2>8. QED BY <2>3, <2>4, <2>7 DEF n
<1>4. QED BY <1>2, <1>3

\* The sums of a block.
LEMMA BlockSums ==
  \* the brace of a block is taken
  /\ \A r, l, o, e, u, w, s, b, d \in Nat :
        r + l <= o + e + 1 /\ o + 79 <= u /\ u + (w + (2 + e)) + 0 + s <= b + d /\ d <= 23 => r + w + l + (s + 1) <= b + 0
  \* the next statement of a block
  /\ \A r, e, u, w, s, b \in Nat : r <= u /\ u + (w + (2 + e)) + 0 + s <= b + 0 => r + ((22 + (2 + e)) + w) + 0 + (s + 1) <= b + 23
  \* a block that is not closed
  /\ \A r, l, o, e, u, w, s, b, d \in Nat :
        r + l <= o + (e + 2) + 1 /\ o <= u /\ u + (w + (2 + e)) + 2 + s <= b + d => r + w + l + (s + 1) <= b + d
  \* a block that goes on after an error
  /\ \A r, e, u, w, s, b, d \in Nat :
        r + 79 <= u /\ u + (w + (2 + e)) + 2 + s <= b + d /\ d <= 23 => r + ((2 + (e + 1)) + w) + 0 + (s + 1) <= b + 0
  /\ \A e, w \in Nat : 22 + (2 + e) \in Nat /\ (22 + (2 + e)) + w \in Nat /\ 2 + (e + 1) \in Nat /\ (2 + (e + 1)) + w \in Nat
  /\ \A x, y, z, a, c \in Nat : x + 0 <= y /\ y + a <= z => x + a <= z
OBVIOUS

\* A token that was taken before or after a look ahead.
LEMMA Trans79 == \A o, x, u \in Nat : o + 79 <= x /\ x <= u => o + 79 <= u
OBVIOUS

\* What a block weighs.
LEMMA WeightBlock == ASSUME NEW t, t.f = "block", Listed(t.errs) PROVE Weight(t) = 2 + Len(t.errs) /\ Len(t.errs) \in Nat
<1>1. Cost(t.f) = 2 BY CostTable
<1>2. QED BY <1>1, ListedIs DEF Weight

\* the statements of a block
LEMMA BlockTasks ==
  ASSUME NEW t, t.f = "block", Listed(t.errs)
  PROVE  LET ts == <<Task("statement"), Task("append"), t>>
         IN Costs(ts, 22 + (2 + Len(t.errs))) /\ Listed(ts) /\ HasBlock(ts) /\ Reaches(ts, TRUE)
<1> DEFINE a == Task("statement")
           b == Task("append")
           ts == <<a, b, t>>
<1>1. Plan(<<a>>, 21) /\ Plan(<<b>>, 1)
  <2>1. Priced(a, 21) /\ Priced(b, 1) BY Prices
  <2>2. QED BY <2>1, Plan1
<1>2. Needs(a, TRUE) BY TaskIs DEF Needs
<1> HIDE DEF a, b
<1>3. ts = <<a>> \o (<<b>> \o <<t>>)
  <2>1. <<b, t>> = <<b>> \o <<t>> BY Join2
  <2>2. <<a, b, t>> = <<a>> \o <<b, t>> BY Join3
  <2>3. QED BY <2>1, <2>2
<1>4. Costs(<<t>>, 2 + Len(t.errs)) BY WeightBlock, CostsOne
<1>5. Costs(<<b>> \o <<t>>, 1 + (2 + Len(t.errs))) BY <1>1, <1>4, CostsJoin DEF Plan
<1>6. Costs(ts, 21 + (1 + (2 + Len(t.errs)))) BY <1>1, <1>3, <1>5, CostsJoin DEF Plan
<1>7. 21 + (1 + (2 + Len(t.errs))) = 22 + (2 + Len(t.errs)) BY WeightBlock
<1>8. Listed(<<a>>) /\ Listed(<<b>>) /\ Listed(<<t>>) /\ Listed(<<b>> \o <<t>>) /\ Listed(ts)
      BY <1>5, <1>6, ListedTuples DEF Costs
<1>9. HasBlock(ts)
  <2>1. HasBlock(<<t>>) BY DEF HasBlock
  <2>2. HasBlock(<<b>> \o <<t>>) BY <1>8, <2>1, HasBlockJoin
  <2>3. HasBlock(<<a>> \o (<<b>> \o <<t>>)) BY <1>8, <2>2, HasBlockJoin
  <2>4. QED BY <1>3, <2>3
<1>10. Reaches(ts, TRUE) BY <1>2, <1>3, <1>8, ReachesHead
<1>11. QED BY <1>6, <1>7, <1>8, <1>9, <1>10 DEF a, b

\* what a block does at its next token: w is what is below it
LEMMA BlockStep ==
  ASSUME NEW q, Sound(q), q.failed = "", NEW t, t.f = "block", Listed(t.errs), NEW u \in Nat, Owed(q) <= u,
         NEW w \in Nat, Costs(q.stack, w), NEW spent \in Nat, NEW budget \in Nat, u + (w + (2 + Len(t.errs))) + 0 + spent <= budget + 0
  PROVE  Account(block(q, t), spent + 1, budget)
<1> DEFINE e == Len(t.errs)
<1>1. e \in Nat /\ Owed(q) \in Nat BY ListedIs, OwedIs
<1>2. CASE Kind(q) = "}"
  <2> DEFINE p == Take(q)
             n == BlockResult(p, t.errs)
  <2>1. Spends(q, p, 79)
    <3>1. Kind(q) # "<none>" BY <1>2
    <3>2. QED BY <3>1, Pays
  <2>2. block(q, t) = n BY <1>2 DEF block, CloseBlock
  <2> HIDE DEF p
  <2>3. Sound(p) /\ p.stack = q.stack /\ p.failed = "" /\ Owed(p) + 79 <= Owed(q) BY <2>1 DEF Spends
  <2>4. Sound(n) /\ n.stack = q.stack /\ Owed(n) + Lost(n) <= Owed(p) + Len(t.errs) + 1 BY <2>3, BlockResultIs
  <2>5. Owed(p) \in Nat /\ Owed(n) \in Nat /\ Lost(n) \in Nat /\ 0 \in 0..23
        BY <2>3, <2>4, OwedIs, LostIs, Debts
  <2> HIDE DEF n
  <2>6. Owed(n) + w + Lost(n) + (spent + 1) <= budget + 0
    <3> DEFINE r == Owed(n)
               l == Lost(n)
               o == Owed(p)
               x == Owed(q)
    <3>1. r \in Nat /\ l \in Nat /\ o \in Nat /\ x \in Nat /\ o + 79 <= x /\ x <= u /\ r + l <= o + e + 1
          BY <1>1, <2>3, <2>4, <2>5
    <3>2. u + (w + (2 + e)) + 0 + spent <= budget + 0 OBVIOUS
    <3> HIDE DEF r, l, o, x, e
    <3>3. o + 79 <= u BY <3>1, Trans79
    <3>4. 0 \in Nat /\ 0 <= 23 BY Debts
    <3>5. r + w + l + (spent + 1) <= budget + 0 BY <1>1, <3>1, <3>2, <3>3, <3>4, BlockSums
    <3>6. QED BY <3>5 DEF r, l
  <2>7. QED BY <2>2, <2>4, <2>5, <2>6 DEF Account
<1>3. CASE Kind(q) # "}"
  <2> DEFINE ts == <<Task("statement"), Task("append"), t>>
             n == Push(q, ts)
             v == (22 + (2 + Len(t.errs))) + w
  <2>1. Costs(ts, 22 + (2 + Len(t.errs))) /\ Listed(ts) /\ HasBlock(ts) /\ Reaches(ts, TRUE) BY BlockTasks
  <2>2. block(q, t) = n BY <1>3 DEF block
  <2> HIDE DEF ts
  <2>3. Sound(n) /\ Owed(n) = Owed(q) /\ n.stack = ts \o q.stack /\ n.failed = "" BY PushIs
  <2> HIDE DEF n
  <2>4. Costs(n.stack, v) BY <2>1, <2>3, CostsJoin
  <2>5. Listed(q.stack) BY DEF Costs
  <2>6. MayOwe(n)
    <3>0. HasBlock(ts \o q.stack) BY <2>1, <2>5, HasBlockJoin, Zenon
    <3>1. HasBlock(n.stack) BY <2>3, <3>0
    <3>2. HasBlock(n.stack) = TRUE BY <3>1 DEF HasBlock
    <3>3. Reaches(n.stack, TRUE) BY <2>1, <2>3, <2>5, ReachesJoin
    <3>4. QED BY <2>3, <3>2, <3>3 DEF MayOwe
  <2>7. v \in Nat /\ Owed(n) \in Nat /\ Lost(n) = 0 /\ 23 \in 0..23
        BY <1>1, <2>3, BlockSums, OwedIs, LostIs, Debts
  <2>8. Owed(n) + v + 0 + (spent + 1) <= budget + 23
    <3> DEFINE r == Owed(n)
    <3>1. r \in Nat /\ r <= u BY <2>3, <2>7
    <3>2. u + (w + (2 + e)) + 0 + spent <= budget + 0 OBVIOUS
    <3> HIDE DEF r, e
    <3>3. r + ((22 + (2 + e)) + w) + 0 + (spent + 1) <= budget + 23 BY <1>1, <3>1, <3>2, BlockSums
    <3>4. QED BY <3>3 DEF r, e
  <2> HIDE DEF v
  <2>9. QED BY <2>2, <2>3, <2>4, <2>6, <2>7, <2>8 DEF Account
<1>4. QED BY <1>2, <1>3

\* A block keeps the account: its statements take tokens, and its end takes a brace.
LEMMA BlockAccount ==
  ASSUME NEW m, NEW spent \in Nat, NEW budget \in Nat, Account(m, spent, budget), m.stack # <<>>, m.failed = "", Head(m.stack).f = "block"
  PROVE  Account(Step(Pop(m), Head(m.stack)), spent + 1, budget)
<1> DEFINE t == Head(m.stack)
           p == Pop(m)
           q == peek_token(p)
<1>1. /\ Sound(m) /\ Listed(m.stack) /\ Listed(p.stack) /\ Listed(t.errs)
      /\ Sound(p) /\ Left(p) = Left(m) /\ p.stack = Tail(m.stack) /\ p.failed = ""
  BY AccountPop
<1>2. PICK w \in Nat, debt \in 0..23 :
         Costs(p.stack, w) /\ (debt = 0 \/ MayOwe(m)) /\ Owed(p) + (w + Weight(t)) + Lost(m) + spent <= budget + debt
  BY <1>1, AccountPop
<1>3. debt = 0
  <2>1. ~MayOwe(m) BY <1>1, OwesNot
  <2>2. QED BY <1>2, <2>1
<1>4. Lost(m) = 0 /\ Weight(t) = 2 + Len(t.errs) BY <1>1, LostIs, WeightBlock
<1>5. Spends(p, q, 0) BY PeekSpends
<1>6. Step(p, t) = block(q, t) BY DEF Step, PerformAt, Silent
<1> HIDE DEF q, p
<1>7. Sound(q) /\ q.stack = p.stack /\ q.failed = "" /\ Owed(q) + 0 <= Owed(p) BY <1>1, <1>5 DEF Spends
<1>8. Owed(p) \in Nat /\ Owed(q) <= Owed(p)
  <2>1. Owed(p) \in Nat /\ Owed(q) \in Nat BY <1>1, <1>7, OwedIs
  <2>2. QED BY <1>7, <2>1, Sums
<1>9. Owed(p) + (w + (2 + Len(t.errs))) + 0 + spent <= budget + 0 BY <1>2, <1>3, <1>4
<1>10. Account(block(q, t), spent + 1, budget) BY <1>1, <1>2, <1>7, <1>8, <1>9, BlockStep
<1>11. QED BY <1>6, <1>10 DEF p

\* An error that is reported is owed a step.
LEMMA ReportIs ==
  ASSUME NEW m, Sound(m), NEW err
  PROVE  LET n == Report(m, err)
         IN Sound(n) /\ Left(n) = Left(m) /\ Owed(n) = Owed(m) + 1 /\ n.stack = m.stack /\ n.failed = m.failed
<1> DEFINE a == [m EXCEPT !.errors = m.errors \o <<err>>]
<1>1. Listed(<<err>>) /\ Len(<<err>>) = 1 BY ListedTuples
<1>2. m.errors \in Seq({m.errors[i] : i \in DOMAIN m.errors} \cup {err}) BY DEF Sound, Listed
<1>3. Append(m.errors, err) = m.errors \o <<err>> BY <1>2
<1>4. Report(m, err) = a BY <1>3 DEF Report
<1>5. Sound(a) /\ Left(a) = Left(m) /\ Owed(a) = Owed(m) + Len(<<err>>) /\ a.stack = m.stack /\ a.failed = m.failed
      BY <1>1, KeptErrors
<1> HIDE DEF a
<1>6. QED BY <1>1, <1>4, <1>5

\* the parser goes on behind an error
Cleared(m, n) == Keep([m EXCEPT !.failed = ""], n)

\* Going on behind an error costs no token.
LEMMA ClearedIs ==
  ASSUME NEW m, Sound(m), NEW i
  PROVE  LET n == Cleared(m, i)
         IN Sound(n) /\ Left(n) = Left(m) /\ Owed(n) = Owed(m) /\ n.stack = m.stack /\ n.failed = ""
<1> DEFINE c == Fail(m, "")
           n == Keep(c, i)
<1>1. Sound(c) /\ Left(c) = Left(m) /\ Owed(c) = Owed(m) /\ c.stack = m.stack /\ c.failed = "" BY FailIs
<1>2. Cleared(m, i) = n BY DEF Cleared, Fail
<1> HIDE DEF c
<1>3. n = [c EXCEPT !.vals = SubSeq(c.vals, Len(c.vals) - i + 1, Len(c.vals))] BY DEF Keep
<1>4. DOMAIN c = Fields BY <1>1 DEF Sound, Good, Placed
<1>5. /\ n.tokens = c.tokens /\ n.read = c.read /\ n.current = c.current /\ n.next = c.next
      /\ n.errors = c.errors /\ n.pending = c.pending /\ n.stack = c.stack /\ n.failed = c.failed
      /\ n.bad = c.bad /\ n.exited = c.exited /\ DOMAIN n = Fields
  BY <1>3, <1>4, FieldsAre
<1> HIDE DEF n
<1>6. Good(n) BY <1>1, <1>5 DEF Sound, Good, Placed, Queued, Known
<1>7. Sound(n) BY <1>1, <1>5, <1>6 DEF Sound
<1>8. Left(n) = Left(c) BY <1>5 DEF Left
<1>9. Owed(n) = Owed(c) BY <1>5, <1>8 DEF Owed
<1>10. QED BY <1>1, <1>2, <1>5, <1>7, <1>8, <1>9

Tops(s, t, rest) == s = <<t>> \o rest

\* The top of a stack.
LEMMA TopIs == \A s, t, rest : Listed(rest) /\ Tops(s, t, rest) => s # <<>> /\ Listed(s) /\ Head(s) = t /\ Tail(s) = rest
BY HeadOf DEF Tops

\* One error more.
LEMMA LengthSum == \A s, r, e : e \in Nat /\ Len(s) = e + 1 /\ Len(r) = Len(s) + 1 => Len(r) = e + 2
OBVIOUS

\* A token is left where one was.
LEMMA NotNone == \A x, y, z, u \in Nat : x # 0 /\ x <= y /\ y <= z /\ u = z => u # 0
OBVIOUS

\* A token that is taken later.
LEMMA Later79 == \A x, y, z \in Nat : x <= y /\ y + 79 <= z => x + 79 <= z
OBVIOUS

\* The sums of a task that is unwound.
LEMMA UnwindSums ==
  /\ \A o, w, h, s, b, d \in Nat : h >= 1 /\ o + (w + h) + 2 + s <= b + d => o + w + 2 + (s + 1) <= b + d
  /\ \A o, r, w, h, s, b, d \in Nat : h >= 8 /\ r = o + 1 /\ o + (w + h) + 2 + s <= b + d => r + (5 + w) + 0 + (s + 1) <= b + d
  /\ \A w \in Nat : 5 + w \in Nat
  /\ \A h, k \in Nat : h >= k /\ k = 8 => h >= 8
OBVIOUS

\* an error leaves a task
LEMMA DropsAccount ==
  ASSUME NEW m, NEW p, Sound(p), Listed(m.stack), m.stack # <<>>, m.failed # "", p.stack = Tail(m.stack), p.failed # "", Left(p) = Left(m),
         Head(m.stack).f # "block", NEW w \in Nat, Costs(p.stack, w), NEW debt \in 0..23, debt = 0 \/ MayOwe(m),
         NEW spent \in Nat, NEW budget \in Nat, NEW h \in Nat, h >= 1, Owed(p) + (w + h) + 2 + spent <= budget + debt
  PROVE  Account(p, spent + 1, budget)
<1>1. Owed(p) \in Nat /\ debt \in Nat /\ Lost(p) = 2 BY OwedIs, LostIs, Debts
<1>2. Owed(p) + w + 2 + (spent + 1) <= budget + debt BY <1>1, UnwindSums
<1>3. MayOwe(m) => MayOwe(p)
  <2>1. HasBlock(m.stack) <=> HasBlock(p.stack) BY HeadBlock
  <2>2. QED BY <2>1 DEF MayOwe
<1>4. QED BY <1>1, <1>2, <1>3 DEF Account

\* a cast that is parsed again
LEMMA CastAccount ==
  ASSUME NEW m, NEW p, Sound(p), Listed(m.stack), m.stack # <<>>, m.failed # "", p.stack = Tail(m.stack), Left(p) = Left(m),
         NEW t, t = Head(m.stack), t.f = "cast", NEW w \in Nat, Costs(p.stack, w), NEW debt \in 0..23, debt = 0 \/ MayOwe(m),
         NEW spent \in Nat, NEW budget \in Nat, NEW h \in Nat, h >= 8, Owed(p) + (w + h) + 2 + spent <= budget + debt
  PROVE  Account(NoCast(p, t), spent + 1, budget)
<1> DEFINE c == Cleared(p, t.n)
           r == Report(c, p.failed)
           o == Task("operator")
           n == Push(r, <<o>>)
<1>1. NoCast(p, t) = n BY DEF NoCast, Cleared
<1>2. Sound(c) /\ Left(c) = Left(p) /\ Owed(c) = Owed(p) /\ c.stack = p.stack /\ c.failed = "" BY ClearedIs
<1>3. o.f = "operator" /\ Plan(<<o>>, 5)
  <2>1. Priced(o, 5) BY Prices
  <2>2. QED BY <2>1, Plan1, TaskIs
<1> HIDE DEF c, o
<1>4. Sound(r) /\ Left(r) = Left(p) /\ Owed(r) = Owed(p) + 1 /\ r.stack = p.stack /\ r.failed = ""
      BY <1>2, ReportIs
<1> HIDE DEF r
<1>5. Sound(n) /\ Left(n) = Left(p) /\ Owed(n) = Owed(p) + 1 /\ n.stack = <<o>> \o p.stack /\ n.failed = ""
      BY <1>4, PushIs
<1> HIDE DEF n
<1>6. Costs(n.stack, 5 + w) BY <1>3, <1>5, CostsJoin DEF Plan
<1>7. Listed(p.stack) BY DEF Costs
<1>8. /\ n.stack # <<>> /\ Head(n.stack) = o
      /\ HasBlock(n.stack) <=> HasBlock(m.stack)
  <2>0. Tops(n.stack, o, p.stack) BY <1>5 DEF Tops
  <2>1. n.stack # <<>> /\ Head(n.stack) = o /\ Tail(n.stack) = p.stack /\ Listed(n.stack) BY <1>7, <2>0, TopIs
  <2>2. HasBlock(n.stack) <=> HasBlock(p.stack)
    <3>1. HasBlock(n.stack) <=> Head(n.stack).f = "block" \/ HasBlock(Tail(n.stack)) BY <2>1, HeadBlock
    <3>2. Head(n.stack).f # "block" BY <1>3, <2>1
    <3>3. QED BY <2>1, <3>1, <3>2
  <2>3. HasBlock(m.stack) <=> HasBlock(p.stack) BY HeadBlock
  <2>4. QED BY <2>1, <2>2, <2>3
<1>9. ASSUME MayOwe(m) PROVE MayOwe(n)
  <2>1. CASE HasBlock(m.stack)
    <3>1. HasBlock(n.stack) = TRUE BY <1>8, <2>1 DEF HasBlock
    <3>2. Needs(o, TRUE) BY <1>3 DEF Needs
    <3>3. Reaches(n.stack, TRUE) BY <1>5, <1>7, <3>2, ReachesHead
    <3>4. QED BY <1>5, <3>1, <3>3 DEF MayOwe
  <2>2. CASE ~HasBlock(m.stack)
    <3>1. Left(m) = 0 BY <1>9, <2>2 DEF MayOwe
    <3>2. Head(n.stack).f \in Leaves BY <1>3, <1>8 DEF Leaves
    <3>3. QED BY <1>5, <1>8, <2>2, <3>1, <3>2 DEF MayOwe
  <2>3. QED BY <2>1, <2>2
<1>10. Owed(p) \in Nat /\ Owed(n) \in Nat /\ debt \in Nat /\ Lost(n) = 0 /\ 5 + w \in Nat
      BY <1>5, OwedIs, LostIs, Debts, UnwindSums
<1>11. Owed(n) + (5 + w) + 0 + (spent + 1) <= budget + debt BY <1>5, <1>10, UnwindSums
<1>12. QED BY <1>1, <1>5, <1>6, <1>9, <1>10, <1>11 DEF Account

\* The last element of a list.
LEMMA LastOf == ASSUME NEW s, Listed(s), NEW e PROVE Append(s, e) # <<>> /\ Last(Append(s, e)) = e
<1> DEFINE S == {s[i] : i \in DOMAIN s} \cup {e}
           a == Append(s, e)
<1>1. s \in Seq(S) /\ e \in S BY DEF Listed
<1> HIDE DEF S
<1>2. a # <<>> /\ Len(a) = Len(s) + 1 /\ a[Len(s) + 1] = e BY <1>1, AppendProperties
<1> HIDE DEF a
<1>3. Last(a) = e BY <1>2 DEF Last
<1>4. QED BY <1>2, <1>3 DEF a

\* There is no brace at the end.
LEMMA NoBrace == \A q : AtEnd(q) => Kind(q) # "}"
<1>1. None.k = "<none>" BY DEF None, Word
<1>2. "<none>" # "}" OBVIOUS
<1>3. QED BY <1>1, <1>2 DEF AtEnd, Kind

\* No token is marked as skipped at the end.
LEMMA SameBad ==
  ASSUME NEW q, Sound(q), Left(q) = 0
  PROVE  LET r == [q EXCEPT !.bad = @ \cup {}]
         IN Sound(r) /\ r.stack = q.stack /\ r.failed = q.failed /\ Left(r) = 0 /\ Owed(r) <= Owed(q)
<1> DEFINE r == [q EXCEPT !.bad = @ \cup {}]
<1>1. DOMAIN q = Fields BY DEF Sound, Good, Placed
<1>2. /\ r.tokens = q.tokens /\ r.read = q.read /\ r.current = q.current /\ r.next = q.next
      /\ r.errors = q.errors /\ r.pending = q.pending /\ r.stack = q.stack /\ r.failed = q.failed
      /\ r.bad = q.bad /\ r.exited = q.exited /\ DOMAIN r = Fields
  BY <1>1, FieldsAre
<1> HIDE DEF r
<1>3. Good(r) BY <1>2 DEF Sound, Good, Placed, Queued, Known
<1>4. Sound(r) BY <1>2, <1>3 DEF Sound
<1>5. Left(r) = Left(q) BY <1>2 DEF Left
<1>6. Owed(r) = Owed(q) /\ Owed(r) \in Nat BY <1>2, <1>4, <1>5, OwedIs DEF Owed
<1>7. Owed(r) <= Owed(q) BY <1>6
<1>8. QED BY <1>2, <1>4, <1>5, <1>7 DEF r

\* the file ends in a block
LEMMA UnclosedAccount ==
  ASSUME NEW m, NEW p, NEW q, Sound(p), Sound(q), Listed(m.stack), m.stack # <<>>, m.failed # "",
         q.stack = p.stack, q.failed = "", AtEnd(q), Left(q) = 0, Owed(q) <= Owed(p),
         NEW errs, NEW e \in Nat, Listed(errs), Len(errs) = e + 1,
         NEW w \in Nat, Costs(p.stack, w), NEW debt \in 0..23,
         NEW spent \in Nat, NEW budget \in Nat, Owed(p) + (w + (2 + e)) + 2 + spent <= budget + debt
  PROVE  Account(CloseBlock(q, errs), spent + 1, budget)
<1> DEFINE r == [q EXCEPT !.bad = @ \cup {}]
           all == Append(errs, "unclosed")
           n == BlockResult(r, all)
<1>1. Kind(q) # "}" BY NoBrace
<1>2. CloseBlock(q, errs) = n BY <1>1 DEF CloseBlock
<1>3. Sound(r) /\ r.stack = q.stack /\ r.failed = "" /\ Left(r) = 0 /\ Owed(r) <= Owed(q) BY SameBad
<1>4. Listed(all) /\ Len(all) = Len(errs) + 1 BY ListedAppend
<1>5. all # <<>> /\ Last(all) = "unclosed" BY LastOf
<1> HIDE DEF r, all
<1>6. Sound(n) /\ Left(n) = 0 /\ n.stack = p.stack /\ Owed(n) + Lost(n) <= Owed(r) + Len(all) + 1 /\ n.failed = "unclosed"
  BY <1>3, <1>4, <1>5, BlockResultIs
<1> HIDE DEF n
<1>7. Len(all) = e + 2 BY <1>4, LengthSum
<1>8. MayOwe(n)
  <2>1. n.failed # "" BY <1>6
  <2>2. Left(n) = 0 BY <1>6
  <2>3. QED BY <2>1, <2>2 DEF MayOwe
<1>9. Owed(n) + w + Lost(n) + (spent + 1) <= budget + debt
  <2> DEFINE x == Owed(n)
             l == Lost(n)
             o == Owed(r)
             i == Owed(q)
             u == Owed(p)
  <2>1. x \in Nat /\ l \in Nat /\ o \in Nat /\ u \in Nat /\ i \in Nat /\ debt \in Nat
        BY <1>3, <1>6, OwedIs, LostIs, Debts
  <2>2. x + l <= o + (e + 2) + 1 /\ o <= i /\ i <= u /\ u + (w + (2 + e)) + 2 + spent <= budget + debt
        BY <1>3, <1>6, <1>7
  <2> HIDE DEF x, l, o, u, i
  <2>0. o <= u BY <2>1, <2>2, Sums
  <2>3. x + w + l + (spent + 1) <= budget + debt BY <2>0, <2>1, <2>2, BlockSums
  <2>4. QED BY <2>3 DEF x, l
<1>10. QED BY <1>2, <1>6, <1>8, <1>9 DEF Account

\* a block goes on
LEMMA ResumedAccount ==
  ASSUME NEW p, NEW q, Sound(p), Sound(q), q.stack = p.stack, q.failed = "", Owed(q) + 79 <= Owed(p),
         NEW t, t.f = "block", NEW e \in Nat, Listed(t.errs), Len(t.errs) = e + 1,
         NEW w \in Nat, Costs(p.stack, w), NEW debt \in 0..23,
         NEW spent \in Nat, NEW budget \in Nat, Owed(p) + (w + (2 + e)) + 2 + spent <= budget + debt
  PROVE  Account(Push(q, <<t>>), spent + 1, budget)
<1> DEFINE n == Push(q, <<t>>)
           v == (2 + (e + 1)) + w
<1>1. Sound(n) /\ Owed(n) = Owed(q) /\ n.stack = <<t>> \o p.stack /\ n.failed = "" BY PushIs
<1> HIDE DEF n
<1>2. Costs(<<t>>, 2 + (e + 1)) BY WeightBlock, CostsOne
<1>3. Costs(n.stack, v) BY <1>1, <1>2, CostsJoin
<1>4. v \in Nat /\ Owed(n) \in Nat /\ Owed(p) \in Nat /\ debt \in Nat /\ debt <= 23 /\ Lost(n) = 0 /\ 0 \in 0..23
  BY <1>1, BlockSums, OwedIs, LostIs, Debts
<1>5. Owed(n) + v + 0 + (spent + 1) <= budget + 0
  <2> DEFINE r == Owed(n)
             u == Owed(p)
  <2>1. r \in Nat /\ u \in Nat /\ r + 79 <= u /\ u + (w + (2 + e)) + 2 + spent <= budget + debt BY <1>1, <1>4
  <2> HIDE DEF r, u
  <2>2. QED BY <1>4, <2>1, BlockSums DEF r
<1> HIDE DEF v
<1>6. QED BY <1>1, <1>3, <1>4, <1>5 DEF Account, n

\* A block that recovers from an error has consumed a token, or is at the end.
LEMMA RecoverAccount ==
  ASSUME NEW m, NEW p, Sound(p), Listed(m.stack), m.stack # <<>>, m.failed # "",
         NEW t, t.f = "block", Listed(t.errs), NEW w \in Nat, Costs(p.stack, w), NEW debt \in 0..23,
         NEW spent \in Nat, NEW budget \in Nat, Owed(p) + (w + (2 + Len(t.errs))) + 2 + spent <= budget + debt
  PROVE  Account(Recover(p, t), spent + 1, budget)
<1> DEFINE c == Cleared(p, t.n)
           a == panic(c)
           q == peek_token(a)
           errs == Append(t.errs, p.failed)
           task == [With("block", "", t.n) EXCEPT !.errs = errs]
           e == Len(t.errs)
<1>1. Recover(p, t) = Resume(q, task) BY DEF Recover, AfterStatement, Cleared
<1>2. task.f = "block" /\ task.errs = errs BY DEF With, Task
<1>3. Listed(errs) /\ Len(errs) = e + 1 /\ e \in Nat BY ListedAppend, ListedIs
<1>4. Sound(c) /\ Left(c) = Left(p) /\ Owed(c) = Owed(p) /\ c.stack = p.stack /\ c.failed = "" BY ClearedIs
<1> HIDE DEF c, task, errs
<1>5. Spends(c, a, 0) /\ (Left(c) # 0 => Spends(c, a, 79)) BY PanicSpends
<1>6. Spends(a, q, 0) /\ (Sound(a) /\ q.current = None => Left(q) = 0) BY PeekSpends
<1> HIDE DEF a, q
<1>7. Sound(a) /\ a.stack = p.stack /\ a.failed = "" /\ Left(a) <= Left(p) /\ Owed(a) + 0 <= Owed(p)
      BY <1>4, <1>5 DEF Spends
<1>8. Sound(q) /\ q.stack = p.stack /\ q.failed = "" /\ Left(q) <= Left(a) /\ Owed(q) + 0 <= Owed(a)
      BY <1>6, <1>7 DEF Spends
<1>9. Owed(p) \in Nat /\ Owed(a) \in Nat /\ Owed(q) \in Nat /\ Left(p) \in Nat /\ Left(a) \in Nat /\ Left(q) \in Nat
      BY <1>7, <1>8, OwedIs
<1>10. Owed(q) <= Owed(a) /\ Owed(a) <= Owed(p) BY <1>7, <1>8, <1>9, Sums
<1>11. Owed(q) <= Owed(p) BY <1>9, <1>10, Sums
<1>12. CASE AtEnd(q)
  <2>1. Left(q) = 0 BY <1>6, <1>7, <1>12 DEF AtEnd
  <2>2. Account(CloseBlock(q, errs), spent + 1, budget)
    <3> HIDE DEF e
    <3>1. Owed(p) + (w + (2 + e)) + 2 + spent <= budget + debt BY DEF e
    <3>2. QED BY <1>3, <1>8, <1>11, <1>12, <2>1, <3>1, UnclosedAccount
  <2>3. QED BY <1>1, <1>2, <1>12, <2>2 DEF Resume
<1>13. CASE ~AtEnd(q)
  <2>1. Left(q) # 0
    <3>1. Left(q) = 0 => q.current = None BY <1>8, LeftIs DEF Sound
    <3>2. QED BY <1>13, <3>1 DEF AtEnd
  <2>2. Left(c) # 0 BY <1>4, <1>7, <1>8, <1>9, <2>1, NotNone
  <2>3. Owed(a) + 79 <= Owed(p) BY <1>4, <1>5, <2>2 DEF Spends
  <2>4. Owed(q) + 79 <= Owed(p) BY <1>9, <1>10, <2>3, Later79
  <2>5. Account(Push(q, <<task>>), spent + 1, budget)
    <3> HIDE DEF e
    <3>1. Owed(p) + (w + (2 + e)) + 2 + spent <= budget + debt BY DEF e
    <3>2. QED BY <1>2, <1>3, <1>8, <2>4, <3>1, ResumedAccount
  <2>6. QED BY <1>1, <1>13, <2>5 DEF Resume
<1>14. QED BY <1>12, <1>13

\* Unwinding keeps the account.
LEMMA UnwindAccount ==
  ASSUME NEW m, NEW spent \in Nat, NEW budget \in Nat, Account(m, spent, budget), m.stack # <<>>, m.failed # ""
  PROVE  Account(Unwind(Pop(m), Head(m.stack)), spent + 1, budget)
<1> DEFINE t == Head(m.stack)
           p == Pop(m)
           h == Weight(t)
<1>1. /\ Sound(m) /\ Listed(m.stack) /\ Listed(p.stack) /\ Listed(t.errs)
      /\ Sound(p) /\ Left(p) = Left(m) /\ p.stack = Tail(m.stack) /\ p.failed # ""
  BY AccountPop
<1>2. PICK w \in Nat, debt \in 0..23 :
         Costs(p.stack, w) /\ (debt = 0 \/ MayOwe(m)) /\ Owed(p) + (w + h) + Lost(m) + spent <= budget + debt
  BY <1>1, AccountPop
<1>3. Lost(m) = 2 BY LostIs
<1>4. Owed(p) + (w + h) + 2 + spent <= budget + debt BY <1>2, <1>3
<1>5. h \in Nat /\ h >= Cost(t.f) /\ h >= 1 BY <1>1, WeightIs
<1>6. SUFFICES Account(Unwind(p, t), spent + 1, budget) OBVIOUS
<1> HIDE DEF p
<1>7. CASE t.f = "block"
  <2>1. h = 2 + Len(t.errs) BY <1>1, <1>7, WeightBlock
  <2>2. Unwind(p, t) = Recover(p, t) BY <1>7 DEF Unwind
  <2>3. Account(Recover(p, t), spent + 1, budget) BY <1>1, <1>2, <1>4, <1>7, <2>1, RecoverAccount
  <2>4. QED BY <2>2, <2>3
<1>8. CASE t.f = "cast"
  <2>1. Cost(t.f) = 8 /\ Cost(t.f) \in Nat BY <1>8, CostTable, CostNat
  <2> HIDE DEF h
  <2>2. h >= 8 BY <1>5, <2>1, UnwindSums
  <2>3. Unwind(p, t) = NoCast(p, t) BY <1>8 DEF Unwind
  <2>4. Account(NoCast(p, t), spent + 1, budget) BY <1>1, <1>2, <1>4, <1>5, <1>8, <2>2, CastAccount
  <2>5. QED BY <2>3, <2>4
<1>9. CASE t.f \notin {"block", "cast"}
  <2>1. Unwind(p, t) = p BY <1>9 DEF Unwind
  <2> HIDE DEF h
  <2>2. Account(p, spent + 1, budget) BY <1>1, <1>2, <1>4, <1>5, <1>9, DropsAccount
  <2>3. QED BY <2>1, <2>2
<1>10. QED BY <1>7, <1>8, <1>9

-----------------------------------------------------------------------------
(* next() *)

\* The sums of next().
LEMMA NextSums ==
  /\ \A x, y, k, l, v, s, b, d \in Nat : y + l + 1 <= x + k /\ x + v + k + s <= b + d => y + v + l + (s + 1) <= b + d
  /\ \A x, y, k, l, v, s, b, d \in Nat : y + l <= x + k /\ x + v + k + s <= b + d => y + v + l + (s + 1) <= (b + 1) + d
  /\ \A x, y, v, s, b \in Nat : y <= x /\ x + v + 0 + s <= b + 0 => y + (18 + v) + 0 + (s + 1) <= b + 23
  /\ \A v \in Nat : 18 + v \in Nat
  /\ \A y, z \in Nat : z = y + 1 => z + 0 + 1 <= y + 2
  /\ \A x, y, z \in Nat : z + 1 = y /\ y <= x => z + 0 + 1 <= x + 0
  /\ \A x, y \in Nat : y <= x => y + 0 <= x + 0
  /\ \A b \in Nat : b + 1 \in Nat
OBVIOUS

\* Nothing is lost between two equal numbers.
LEMMA Same == \A x, y, z : x \in Nat /\ y = x /\ z = y => z <= x
OBVIOUS

\* a parser between two declarations owes nothing to a token
LEMMA IdleAccount ==
  ASSUME NEW m, NEW n, NEW spent \in Nat, NEW budget \in Nat, Account(m, spent, budget), m.stack = <<>>, n.stack = <<>>,
         Sound(n), Left(n) <= Left(m)
  PROVE  /\ Owed(n) + Lost(n) + 1 <= Owed(m) + Lost(m) => Account(n, spent + 1, budget)
         /\ Owed(n) + Lost(n) <= Owed(m) + Lost(m) => Account(n, spent + 1, budget + 1)
<1>1. PICK v \in Nat, debt \in 0..23 : Costs(m.stack, v) /\ (debt = 0 \/ MayOwe(m)) /\ Owed(m) + v + Lost(m) + spent <= budget + debt
  BY DEF Account
<1>2. Sound(m) BY DEF Account
<1>3. Costs(n.stack, v) BY <1>1
<1>4. ASSUME MayOwe(m) PROVE MayOwe(n)
  <2>1. Left(m) = 0 BY <1>4, OwesNone
  <2>2. Left(m) \in Nat /\ Left(n) \in Nat BY <1>2, OwedIs
  <2>3. Left(n) = 0 BY <2>1, <2>2
  <2>4. ~HasBlock(<<>>)
    <3>1. DOMAIN <<>> = {} OBVIOUS
    <3>2. QED BY <3>1 DEF HasBlock
  <2>5. QED BY <2>3, <2>4 DEF MayOwe
<1>5. debt = 0 \/ MayOwe(n) BY <1>1, <1>4
<1> DEFINE x == Owed(m)
           y == Owed(n)
           k == Lost(m)
           l == Lost(n)
<1>6. x \in Nat /\ y \in Nat /\ k \in Nat /\ l \in Nat /\ debt \in Nat BY <1>2, OwedIs, LostIs, Debts
<1>7. x + v + k + spent <= budget + debt BY <1>1
<1> HIDE DEF x, y, k, l
<1>8. y + l + 1 <= x + k => y + v + l + (spent + 1) <= budget + debt BY <1>6, <1>7, NextSums
<1>9. y + l <= x + k => y + v + l + (spent + 1) <= (budget + 1) + debt BY <1>6, <1>7, NextSums
<1>10. y + l + 1 <= x + k => Account(n, spent + 1, budget) BY <1>3, <1>5, <1>8 DEF Account, y, l
<1>11. y + l <= x + k => Account(n, spent + 1, budget + 1) BY <1>3, <1>5, <1>9 DEF Account, y, l
<1>12. QED BY <1>10, <1>11 DEF x, y, k, l

\* what next() does to its queues
LEMMA QueuesAre ==
  ASSUME NEW m, Sound(m)
  PROVE  /\ LET n == [m EXCEPT !.failed = "", !.vals = <<>>]
            IN Sound(n) /\ Left(n) = Left(m) /\ Owed(n) = Owed(m) /\ n.stack = m.stack /\ n.failed = ""
         /\ m.errors # <<>> =>
               LET n == [m EXCEPT !.errors = Tail(@)]
               IN Sound(n) /\ Left(n) = Left(m) /\ Owed(n) + 1 = Owed(m) /\ n.stack = m.stack /\ n.failed = m.failed
         /\ m.pending # <<>> =>
               LET n == [m EXCEPT !.pending = Tail(@)]
               IN Sound(n) /\ Left(n) = Left(m) /\ Owed(n) + 1 = Owed(m) /\ n.stack = m.stack /\ n.failed = m.failed
<1>1. DOMAIN m = Fields BY DEF Sound, Good, Placed
<1> DEFINE l == Left(m)
           x == Len(m.errors)
           y == Len(m.pending)
<1>2. Owed(m) = 80 * l + x + y /\ l \in Nat /\ x \in Nat /\ y \in Nat BY OwedIs
<1> HIDE DEF l, x, y
<1>3. LET n == [m EXCEPT !.failed = "", !.vals = <<>>]
      IN Sound(n) /\ Left(n) = Left(m) /\ Owed(n) = Owed(m) /\ n.stack = m.stack /\ n.failed = ""
  <2> DEFINE n == [m EXCEPT !.failed = "", !.vals = <<>>]
  <2>1. /\ n.tokens = m.tokens /\ n.read = m.read /\ n.current = m.current /\ n.next = m.next
        /\ n.errors = m.errors /\ n.pending = m.pending /\ n.stack = m.stack
        /\ n.bad = m.bad /\ n.exited = m.exited /\ DOMAIN n = Fields
    BY <1>1, FieldsAre
  <2>0. n.failed = "" BY <1>1, FieldsAre
  <2> HIDE DEF n
  <2>2. Good(n) BY <2>1 DEF Sound, Good, Placed, Queued, Known
  <2>3. Sound(n) BY <2>1, <2>2 DEF Sound
  <2>4. Left(n) = Left(m) BY <2>1 DEF Left
  <2>5. Owed(n) = Owed(m) BY <2>1, <2>4 DEF Owed
  <2>6. QED BY <2>0, <2>1, <2>3, <2>4, <2>5 DEF n
<1>4. ASSUME m.errors # <<>>
      PROVE  LET n == [m EXCEPT !.errors = Tail(@)]
             IN Sound(n) /\ Left(n) = Left(m) /\ Owed(n) + 1 = Owed(m) /\ n.stack = m.stack /\ n.failed = m.failed
  <2> DEFINE n == [m EXCEPT !.errors = Tail(@)]
  <2>1. /\ n.tokens = m.tokens /\ n.read = m.read /\ n.current = m.current /\ n.next = m.next
        /\ n.errors = Tail(m.errors) /\ n.pending = m.pending /\ n.stack = m.stack /\ n.failed = m.failed
        /\ n.bad = m.bad /\ n.exited = m.exited /\ DOMAIN n = Fields
    BY <1>1, FieldsAre
  <2> HIDE DEF n
  <2>2. Good(n) BY <2>1 DEF Sound, Good, Placed, Queued, Known
  <2>3. Listed(m.errors) BY DEF Sound
  <2>4. Listed(n.errors) /\ Len(n.errors) = Len(m.errors) - 1 BY <1>4, <2>1, <2>3, ListedTail
  <2>5. Sound(n) BY <2>1, <2>2, <2>4 DEF Sound
  <2>6. Left(n) = Left(m) BY <2>1 DEF Left
  <2>7. Owed(n) = 80 * l + (x - 1) + y BY <2>1, <2>4, <2>5, <2>6, OwedIs DEF l, x, y
  <2>8. Owed(n) + 1 = Owed(m) BY <1>2, <2>7
  <2>9. QED BY <2>1, <2>5, <2>6, <2>8 DEF n
<1>5. ASSUME m.pending # <<>>
      PROVE  LET n == [m EXCEPT !.pending = Tail(@)]
             IN Sound(n) /\ Left(n) = Left(m) /\ Owed(n) + 1 = Owed(m) /\ n.stack = m.stack /\ n.failed = m.failed
  <2> DEFINE n == [m EXCEPT !.pending = Tail(@)]
  <2>1. /\ n.tokens = m.tokens /\ n.read = m.read /\ n.current = m.current /\ n.next = m.next
        /\ n.errors = m.errors /\ n.pending = Tail(m.pending) /\ n.stack = m.stack /\ n.failed = m.failed
        /\ n.bad = m.bad /\ n.exited = m.exited /\ DOMAIN n = Fields
    BY <1>1, FieldsAre
  <2> HIDE DEF n
  <2>2. Good(n) BY <2>1 DEF Sound, Good, Placed, Queued, Known
  <2>3. Listed(m.pending) BY DEF Sound
  <2>4. Listed(n.pending) /\ Len(n.pending) = Len(m.pending) - 1 BY <1>5, <2>1, <2>3, ListedTail
  <2>5. Sound(n) BY <2>1, <2>2, <2>4 DEF Sound
  <2>6. Left(n) = Left(m) BY <2>1 DEF Left
  <2>7. Owed(n) = 80 * l + x + (y - 1) BY <2>1, <2>4, <2>5, <2>6, OwedIs DEF l, x, y
  <2>8. Owed(n) + 1 = Owed(m) BY <1>2, <2>7
  <2>9. QED BY <2>1, <2>5, <2>6, <2>8 DEF n
<1>6. QED BY <1>3, <1>4, <1>5

\* The error of a declaration is kept for next().
LEMMA KeepErrorAccount ==
  ASSUME NEW m, NEW spent \in Nat, NEW budget \in Nat, Account(m, spent, budget), m.stack = <<>>, m.failed # ""
  PROVE  Account([Report(m, m.failed) EXCEPT !.failed = "", !.vals = <<>>], spent + 1, budget)
<1> DEFINE r == Report(m, m.failed)
           n == [r EXCEPT !.failed = "", !.vals = <<>>]
<1>1. Sound(m) BY DEF Account
<1>2. Sound(r) /\ Left(r) = Left(m) /\ Owed(r) = Owed(m) + 1 /\ r.stack = <<>> BY <1>1, ReportIs
<1> HIDE DEF r
<1>3. Sound(n) /\ Left(n) = Left(r) /\ Owed(n) = Owed(r) /\ n.stack = <<>> /\ n.failed = "" BY <1>2, QueuesAre
<1> HIDE DEF n
<1>4. Lost(m) = 2 /\ Lost(n) = 0 /\ Owed(m) \in Nat /\ Owed(n) \in Nat /\ Left(m) \in Nat
      BY <1>1, <1>3, LostIs, OwedIs
<1>5. Owed(n) = Owed(m) + 1 BY <1>2, <1>3
<1>6. Owed(n) + 0 + 1 <= Owed(m) + 2 BY <1>4, <1>5, NextSums
<1>7. Left(n) <= Left(m) BY <1>2, <1>3, <1>4, Same
<1>8. Account(n, spent + 1, budget) BY <1>3, <1>4, <1>6, <1>7, IdleAccount
<1>9. QED BY <1>8 DEF n, r

\* an error or a declaration is returned, by a parser that may have looked ahead
LEMMA ReturnAccount ==
  ASSUME NEW m, NEW q, NEW spent \in Nat, NEW budget \in Nat, Account(m, spent, budget), m.stack = <<>>, m.failed = "",
         Spends(m, q, 0)
  PROVE  /\ q.errors # <<>> => Account([q EXCEPT !.errors = Tail(@)], spent + 1, budget)
         /\ q.pending # <<>> => Account([q EXCEPT !.pending = Tail(@)], spent + 1, budget)
         /\ Account(q, spent + 1, budget + 1)
<1>1. Sound(m) BY DEF Account
<1>2. Sound(q) /\ q.stack = <<>> /\ q.failed = "" /\ Left(q) <= Left(m) /\ Owed(q) + 0 <= Owed(m)
      BY <1>1 DEF Spends
<1>3. Lost(m) = 0 /\ Lost(q) = 0 /\ Owed(m) \in Nat /\ Owed(q) \in Nat BY <1>1, <1>2, LostIs, OwedIs
<1>4. Owed(q) <= Owed(m) BY <1>2, <1>3, Sums
<1>5. \A n : Sound(n) /\ Left(n) = Left(q) /\ Owed(n) + 1 = Owed(q) /\ n.stack = q.stack /\ n.failed = q.failed => Account(n, spent + 1, budget)
  <2>1. SUFFICES ASSUME NEW n, Sound(n), Left(n) = Left(q), Owed(n) + 1 = Owed(q), n.stack = <<>>, n.failed = ""
        PROVE Account(n, spent + 1, budget)
    BY <1>2
  <2>2. Lost(n) = 0 /\ Owed(n) \in Nat BY <2>1, LostIs, OwedIs
  <2>3. Owed(n) + 0 + 1 <= Owed(m) + 0 BY <1>3, <1>4, <2>1, <2>2, NextSums
  <2>4. Left(n) <= Left(m) BY <1>2, <2>1
  <2>5. QED BY <1>3, <2>1, <2>2, <2>3, <2>4, IdleAccount
<1>6. Owed(q) + 0 <= Owed(m) + 0 BY <1>3, <1>4, NextSums
<1>7. Account(q, spent + 1, budget + 1) BY <1>2, <1>3, <1>6, IdleAccount
<1>8. q.errors # <<>> => Account([q EXCEPT !.errors = Tail(@)], spent + 1, budget) BY <1>2, <1>5, QueuesAre
<1>9. q.pending # <<>> => Account([q EXCEPT !.pending = Tail(@)], spent + 1, budget) BY <1>2, <1>5, QueuesAre
<1>10. QED BY <1>7, <1>8, <1>9

DeclarationTasks == <<Task("semicolons"), Task("external_declaration"), Task("parsed")>>

\* A declaration takes a token.
LEMMA DeclarationReaches == ASSUME NEW b PROVE Plan(DeclarationTasks, 18) /\ Reaches(DeclarationTasks, b)
<1> DEFINE x == Task("semicolons")
           y == Task("external_declaration")
           z == Task("parsed")
<1>1. Plan(<<x, y, z>>, 18) BY DeclarationPlans
<1>2. x.f \in Transparent /\ Needs(y, b) BY TaskIs DEF Transparent, Needs
<1> HIDE DEF x, y, z
<1>3. <<x, y, z>> = <<x>> \o <<y, z>> /\ <<y, z>> = <<y>> \o <<z>> BY Join2, Join3
<1>4. Listed(<<z>>) /\ Listed(<<y, z>>) BY ListedTuples
<1>5. Reaches(<<y, z>>, b) BY <1>2, <1>3, <1>4, ReachesHead
<1>6. Reaches(<<x, y, z>>, b) BY <1>2, <1>3, <1>4, <1>5, ReachesTail
<1>7. QED BY <1>1, <1>6 DEF DeclarationTasks, x, y, z

\* A declaration begins in debt with the token that is there.
LEMMA DeclarationAccount ==
  ASSUME NEW m, NEW q, NEW spent \in Nat, NEW budget \in Nat, Account(m, spent, budget), m.stack = <<>>, m.failed = "",
         Spends(m, q, 0), ~AtEnd(q)
  PROVE  Account(Push(q, DeclarationTasks), spent + 1, budget)
<1> DEFINE ts == DeclarationTasks
           n == Push(q, ts)
<1>1. PICK v \in Nat, debt \in 0..23 : Costs(m.stack, v) /\ (debt = 0 \/ MayOwe(m)) /\ Owed(m) + v + Lost(m) + spent <= budget + debt
  BY DEF Account
<1>2. Sound(m) BY DEF Account
<1>3. Sound(q) /\ q.stack = m.stack /\ q.failed = "" /\ Left(q) <= Left(m) /\ Owed(q) + 0 <= Owed(m)
      BY <1>2 DEF Spends
<1>4. debt = 0
  <2>1. Left(q) # 0
    <3>1. Left(q) = 0 => q.current = None BY <1>3, LeftIs DEF Sound
    <3>2. QED BY <3>1 DEF AtEnd
  <2>2. Left(m) # 0
    <3>1. Left(m) \in Nat /\ Left(q) \in Nat BY <1>2, <1>3, OwedIs
    <3>2. QED BY <1>3, <2>1, <3>1, Ends
  <2>3. ~MayOwe(m) BY <2>2, OwesNone
  <2>4. QED BY <1>1, <2>3
<1>5. Plan(ts, 18) /\ \A b \in BOOLEAN : Reaches(ts, b) BY DeclarationReaches
<1> HIDE DEF ts
<1>6. Sound(n) /\ Owed(n) = Owed(q) /\ n.stack = ts \o m.stack /\ n.failed = "" BY <1>3, PushIs
<1> HIDE DEF n
<1>7. Costs(n.stack, 18 + v) BY <1>1, <1>5, <1>6, CostsJoin DEF Plan
<1>8. MayOwe(n)
  <2> DEFINE b == HasBlock(n.stack)
  <2>1. b \in BOOLEAN BY DEF HasBlock
  <2> HIDE DEF b
  <2>2. Reaches(ts, b) /\ Listed(ts) /\ Listed(m.stack) BY <1>1, <1>5, <2>1, PlanNat DEF Costs
  <2>3. Reaches(n.stack, b) BY <1>6, <2>2, ReachesJoin
  <2>4. QED BY <1>6, <2>3 DEF MayOwe, b
<1>9. Owed(m) \in Nat /\ Owed(n) \in Nat /\ Lost(m) = 0 /\ Lost(n) = 0 /\ 18 + v \in Nat /\ 23 \in 0..23
  BY <1>2, <1>6, OwedIs, LostIs, NextSums, Debts
<1>10. Owed(n) <= Owed(m)
  <2>1. Owed(q) \in Nat BY <1>3, OwedIs
  <2>2. Owed(q) <= Owed(m) BY <1>3, <1>9, <2>1, Sums
  <2>3. QED BY <1>6, <2>2
<1>11. Owed(m) + v + 0 + spent <= budget + 0 BY <1>1, <1>4, <1>9
<1>12. Owed(n) + (18 + v) + 0 + (spent + 1) <= budget + 23 BY <1>9, <1>10, <1>11, NextSums
<1>13. QED BY <1>6, <1>7, <1>8, <1>9, <1>12 DEF Account, ts, n

\* The sums of the whole.
LEMMA EndSums ==
  /\ \A o, v, l, s, d, n \in Nat, k \in {0, 1} : d <= 23 /\ o + v + l + s <= (80 * n + k) + d => s <= 80 * (n + 1)
  /\ \A n \in Nat : 80 * n + 0 + 0 + 0 <= (80 * n + 0) + 0 /\ 80 * n + 0 \in Nat /\ 80 * n + 1 \in Nat /\ (80 * n + 0) + 1 = 80 * n + 1
  /\ \A s \in Nat : s + 1 \in Nat
  /\ \A n \in Nat : (n + 1 - 1) + 0 + 0 = n /\ 80 * n + 0 + 0 = 80 * n
OBVIOUS

Budget == 80 * Len(origin.tokens) + IF done THEN 1 ELSE 0
\* The steps that are done and those that are to come are paid for.
Paying ==
  /\ IInv
  /\ done \in BOOLEAN
  /\ steps \in Nat
  /\ Account(parser, steps, Budget)

\* The tokens of the source, and a step for the end of the file.
LEMMA BudgetIs ==
  ASSUME Paying
  PROVE  /\ Len(origin.tokens) \in Nat /\ Budget \in Nat
         /\ ~done => Budget + 1 = 80 * Len(origin.tokens) + 1 /\ Budget = 80 * Len(origin.tokens) + 0
<1>1. Source(origin.tokens) BY DEF Paying, IInv, Good, Placed
<1>2. Len(origin.tokens) \in Nat BY <1>1 DEF Source
<1>3. done => Budget = 80 * Len(origin.tokens) + 1 BY DEF Budget
<1>4. ~done => Budget = 80 * Len(origin.tokens) + 0 BY DEF Budget
<1>5. QED BY <1>2, <1>3, <1>4, EndSums

\* The account of a source that has not been read.
LEMMA StartPays == Init => Paying
<1>1. SUFFICES ASSUME Init PROVE Paying OBVIOUS
<1> DEFINE n == Len(origin.tokens)
<1>2. IInv BY <1>1, InitGood
<1>3. Good(parser) BY <1>2 DEF IInv
<1>4. n \in Nat BY <1>2 DEF IInv, Good, Placed, Source
<1>5. /\ parser.tokens = origin.tokens /\ parser.read = 1 /\ parser.current = None /\ parser.next = None
      /\ parser.errors = <<>> /\ parser.pending = <<>> /\ parser.stack = <<>>
  BY <1>1 DEF Init, Start
<1>6. parser.failed = "" BY <1>1 DEF Init, Start
<1>7. Sound(parser) BY <1>3, <1>5, CostsNone DEF Sound
<1>8. Left(parser) = n
  <2>1. Holds(parser.current) = 0 /\ Holds(parser.next) = 0 BY <1>5 DEF Holds
  <2>2. Left(parser) = (n + 1 - 1) + 0 + 0 BY <1>5, <2>1 DEF Left
  <2> HIDE DEF n
  <2>3. QED BY <1>4, <2>2, EndSums
<1>9. Owed(parser) = 80 * n
  <2>1. Len(parser.errors) = 0 /\ Len(parser.pending) = 0 BY <1>5, EmptySeq
  <2>2. Owed(parser) = 80 * n + 0 + 0 BY <1>8, <2>1 DEF Owed, STEPS_PER_TOKEN
  <2> HIDE DEF n
  <2>3. QED BY <1>4, <2>2, EndSums
<1>10. Lost(parser) = 0 BY <1>6, LostIs
<1>11. ~done /\ done \in BOOLEAN /\ steps = 0 /\ steps \in Nat BY <1>1 DEF Init
<1>12. Budget = 80 * n + 0 BY <1>11 DEF Budget
<1>13. Costs(parser.stack, 0) BY <1>5, CostsNone
<1> HIDE DEF n
<1>14. Owed(parser) + 0 + Lost(parser) + steps <= Budget + 0 BY <1>4, <1>9, <1>10, <1>11, <1>12, EndSums
<1>15. 0 \in 0..23 BY Debts
<1>16. Account(parser, steps, Budget) BY <1>7, <1>13, <1>14, <1>15 DEF Account
<1>17. QED BY <1>2, <1>11, <1>16 DEF Paying

\* Every step keeps the account.
LEMMA StepPays == Paying /\ [Next]_vars => Paying'
<1>1. SUFFICES ASSUME Paying, [Next]_vars PROVE Paying' OBVIOUS
<1>2. IInv' BY <1>1, StepKeeps DEF Paying
<1>3. Account(parser, steps, Budget) /\ steps \in Nat /\ Budget \in Nat /\ done \in BOOLEAN
      BY <1>1, BudgetIs DEF Paying
<1>4. Sound(parser) BY <1>3 DEF Account
<1>5. ASSUME UNCHANGED <<origin, done>>, steps' = steps + 1, Account(parser', steps + 1, Budget) PROVE Paying'
  <2>1. Budget' = Budget BY <1>5 DEF Budget
  <2>2. Account(parser', steps', Budget') BY <1>5, <2>1
  <2>3. Account(parser, steps, Budget)'
        BY <2>2 DEF Account, Sound, Good, Placed, Queued, Known, Costs, MayOwe, Owed, Left, Lost
  <2>4. steps' \in Nat BY <1>3, <1>5, EndSums
  <2>5. QED BY <1>2, <1>3, <1>5, <2>3, <2>4 DEF Paying
<1>6. CASE ReturnError
  <2>1. parser.stack = <<>> /\ parser.failed = "" /\ parser.errors # <<>>
        BY <1>6 DEF ReturnError, Ready, InNext
  <2>2. Account([parser EXCEPT !.errors = Tail(@)], steps + 1, Budget)
        BY <1>3, <2>1, SpendsNone, ReturnAccount
  <2>3. QED BY <1>5, <1>6, <2>2 DEF ReturnError, PopError, Counted
<1>7. CASE ReturnDeclaration
  <2>1. parser.stack = <<>> /\ parser.failed = "" /\ parser.pending # <<>>
        BY <1>7 DEF ReturnDeclaration, Ready, InNext
  <2>2. Account([parser EXCEPT !.pending = Tail(@)], steps + 1, Budget)
        BY <1>3, <2>1, SpendsNone, ReturnAccount
  <2>3. QED BY <1>5, <1>7, <2>2 DEF ReturnDeclaration, Counted
<1>8. CASE EndOfFile
  <2> DEFINE q == peek_token(parser)
  <2>1. parser.stack = <<>> /\ parser.failed = "" /\ ~done BY <1>8 DEF EndOfFile, Idle, Ready, InNext
  <2>2. Spends(parser, q, 0) BY PeekSpends
  <2>3. AtEndOfFile(q) /\ UNCHANGED origin /\ steps' = steps + 1 BY <1>8 DEF EndOfFile, Counted
  <2> HIDE DEF q
  <2>4. CASE q.errors # <<>> /\ PopError(q) /\ UNCHANGED done
    <3>1. Account([q EXCEPT !.errors = Tail(@)], steps + 1, Budget) BY <1>3, <2>1, <2>2, <2>4, ReturnAccount
    <3>2. QED BY <1>5, <2>3, <2>4, <3>1 DEF PopError
  <2>5. CASE done' = TRUE /\ parser' = q
    <3>1. Account(q, steps + 1, Budget + 1) BY <1>3, <2>1, <2>2, ReturnAccount
    <3>2. Budget' = Budget + 1
      <4>1. Budget' = 80 * Len(origin.tokens) + 1 BY <2>3, <2>5 DEF Budget
      <4>2. QED BY <1>1, <2>1, <4>1, BudgetIs
    <3>3. Account(parser, steps, Budget)' BY <2>3, <2>5, <3>1, <3>2
    <3>4. steps' \in Nat BY <1>3, <2>3, EndSums
    <3>5. QED BY <1>2, <2>5, <3>3, <3>4 DEF Paying
  <2>6. QED BY <2>3, <2>4, <2>5 DEF AtEndOfFile
<1>9. CASE ParseDeclaration
  <2> DEFINE q == peek_token(parser)
  <2>1. parser.stack = <<>> /\ parser.failed = "" BY <1>9 DEF ParseDeclaration, Idle, Ready, InNext
  <2>2. Spends(parser, q, 0) BY PeekSpends
  <2>3. ~AtEnd(q) /\ parser' = Push(q, DeclarationTasks) BY <1>9 DEF ParseDeclaration, DeclarationTasks
  <2> HIDE DEF q
  <2>4. Account(Push(q, DeclarationTasks), steps + 1, Budget) BY <1>3, <2>1, <2>2, <2>3, DeclarationAccount
  <2>5. UNCHANGED <<origin, done>> /\ steps' = steps + 1 BY <1>9 DEF ParseDeclaration, Counted
  <2>6. QED BY <1>5, <2>3, <2>4, <2>5
<1>10. CASE Proceed
  <2>1. parser.stack # <<>> /\ parser.failed = "" BY <1>10 DEF Proceed, Running
  <2>2. Account(Step(Pop(parser), Head(parser.stack)), steps + 1, Budget)
        BY <1>3, <2>1, TaskAccount, BlockAccount
  <2>3. QED BY <1>5, <1>10, <2>2 DEF Proceed, Counted
<1>11. CASE Propagate
  <2>1. parser.stack # <<>> /\ parser.failed # "" BY <1>11 DEF Propagate, Running
  <2>2. Account(Unwind(Pop(parser), Head(parser.stack)), steps + 1, Budget) BY <1>3, <2>1, UnwindAccount
  <2>3. QED BY <1>5, <1>11, <2>2 DEF Propagate, Counted
<1>12. CASE KeepError
  <2>1. parser.stack = <<>> /\ parser.failed # "" BY <1>12 DEF KeepError, InNext
  <2>2. Account([Report(parser, parser.failed) EXCEPT !.failed = "", !.vals = <<>>], steps + 1, Budget)
        BY <1>3, <2>1, KeepErrorAccount
  <2>3. QED BY <1>5, <1>12, <2>2 DEF KeepError, Counted
<1>13. CASE UNCHANGED vars
  <2>1. UNCHANGED <<origin, parser, done, steps>> BY <1>13 DEF vars
  <2>2. Budget' = Budget BY <2>1 DEF Budget
  <2>3. Account(parser, steps, Budget)' BY <1>3, <2>1, <2>2
  <2>4. QED BY <1>2, <1>3, <2>1, <2>3 DEF Paying
<1>14. QED BY <1>1, <1>6, <1>7, <1>8, <1>9, <1>10, <1>11, <1>12, <1>13 DEF Next

\* An account that is not overdrawn bounds the steps.
LEMMA PayingEnds == Paying => Terminates
<1>1. SUFFICES ASSUME Paying PROVE Terminates OBVIOUS
<1>2. PICK v \in Nat, debt \in 0..23 : Owed(parser) + v + Lost(parser) + steps <= Budget + debt
      BY <1>1 DEF Paying, Account
<1>3. Sound(parser) /\ steps \in Nat /\ Len(origin.tokens) \in Nat BY <1>1, BudgetIs DEF Paying, Account
<1>4. Owed(parser) \in Nat /\ Lost(parser) \in Nat /\ debt \in Nat /\ debt <= 23
      BY <1>3, OwedIs, LostIs, Debts
<1>5. PICK k \in {0, 1} : Budget = 80 * Len(origin.tokens) + k BY DEF Budget
<1>6. steps <= 80 * (Len(origin.tokens) + 1) BY <1>2, <1>3, <1>4, <1>5, EndSums
<1>7. QED BY <1>6 DEF Terminates, STEPS_PER_TOKEN

\* The parser ends for every source: each token pays for at most 80 steps, also where
\* panic and the blocks recover from errors.
THEOREM ParserEnds == Spec => []Terminates
<1>1. QED BY StartPays, StepPays, PayingEnds, PTL DEF Spec
=============================================================================
