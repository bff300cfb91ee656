----------------------------- MODULE TypesProofs -----------------------------
(***************************************************************************)
(* The conversions of parser/analyze/expr.rs are those of C11, in every    *)
(* data model that satisfies DataModelAssumption: the expressions run      *)
(* checks them in one model only.                                          *)
(***************************************************************************)
EXTENDS Types, TLAPS

Small == {Bool, Char(TRUE), Char(FALSE), Short(TRUE), Short(FALSE)}
Wide  == {Int_(TRUE), Int_(FALSE), Long(TRUE), Long(FALSE)}

LEMMA IntegralCases == \A t \in IntegralTypes : t \in Small \/ t \in Wide
<1> SUFFICES ASSUME NEW t \in IntegralTypes, t # Bool PROVE t \in Small \/ t \in Wide
  BY DEF Small
<1>1. PICK k \in {"char", "short", "int", "long"}, sgn \in BOOLEAN : t = Arith(k, sgn)
  BY DEF IntegralTypes
<1>2. t = Arith(k, TRUE) \/ t = Arith(k, FALSE)
  BY <1>1
<1> QED
  BY <1>1, <1>2 DEF Small, Wide, Char, Short, Int_, Long

\* Every type below int fits in it, so it becomes int and never unsigned int
\* (Type::integer_promote).
LEMMA SmallPromote == \A t \in Small : integer_promote(t) = Int_(TRUE) /\ Promoted(t) = Int_(TRUE)
<1> SUFFICES ASSUME NEW t \in Small PROVE integer_promote(t) = Int_(TRUE) /\ Promoted(t) = Int_(TRUE)
  OBVIOUS
<1>1. ~(rank(t) > 3) /\ ~(rank(t) > rank(Int_(TRUE))) /\ t.k # "int"
  BY DataModelAssumption DEF Small, rank, Bool, Char, Short, Int_, Arith
<1>2. is_integral(t) /\ is_integral(Int_(TRUE))
  BY DEF Small, is_integral, Bool, Char, Short, Int_, Arith
<1>3. ScalarSize(t) < ScalarSize(Int_(TRUE)) /\ ScalarSize(Int_(TRUE)) > ScalarSize(t)
  BY DataModelAssumption DEF Small, ScalarSize, Bool, Char, Short, Int_, Arith
<1>4. integer_promote(t) = Int_(TRUE)
  BY <1>1, <1>2, <1>3 DEF integer_promote, can_represent
<1>5. Int_(TRUE).s
  BY DEF Int_, Arith
<1>6. Promoted(t) = Int_(TRUE)
  <2>1. Holds(Int_(TRUE), t)
    BY <1>3, <1>5 DEF Holds, Narrower
  <2> QED
    BY <1>1, <2>1 DEF Promoted
<1> QED
  BY <1>4, <1>6

\* The types from int on keep their type; unsigned int is not int.
LEMMA WidePromote == \A t \in Wide : integer_promote(t) = t /\ Promoted(t) = t
<1> SUFFICES ASSUME NEW t \in Wide PROVE integer_promote(t) = t /\ Promoted(t) = t
  OBVIOUS
<1>1. CASE t \in {Long(TRUE), Long(FALSE)}
  BY <1>1 DEF integer_promote, Promoted, rank, Long, Int_, Arith
<1>2. CASE t = Int_(TRUE)
  BY <1>2 DEF integer_promote, Promoted, rank, can_represent, Int_, Arith
<1>3. CASE t = Int_(FALSE)
  <2>1. ~can_represent(Int_(TRUE), t)
    BY <1>3, DataModelAssumption DEF can_represent, is_integral, is_signed, ScalarSize, Int_, Arith, Double, Float
  <2> QED
    BY <1>3, <2>1 DEF integer_promote, Promoted, rank, Int_, Arith
<1> QED
  BY <1>1, <1>2, <1>3 DEF Wide

\* Integer promotion is that of C11 6.3.1.1p2 and yields a type of Wide.
THEOREM IntegerPromotion ==
  \A t \in IntegralTypes : integer_promote(t) = Promoted(t) /\ integer_promote(t) \in Wide
<1>1. Int_(TRUE) \in Wide
  BY DEF Wide
<1> QED
  BY <1>1, IntegralCases, SmallPromote, WidePromote

LEMMA FloatPromote == \A t \in {Float, Double} : integer_promote(t) = t /\ Promoted(t) = t
BY DEF integer_promote, Promoted, rank, Float, Double, Int_, Arith

\* On promoted types, the code's test (can_represent) decides as C's does (by rank).
LEMMA WideCommon ==
  ASSUME NEW l \in Wide, NEW r \in Wide
  PROVE  binary_promote(l, r) = UsualConversions(l, r)
<1>1. integer_promote(l) = l /\ integer_promote(r) = r /\ Promoted(l) = l /\ Promoted(r) = r
  BY WidePromote
<1>2. \A t \in Wide : /\ is_integral(t) /\ t # Double /\ t # Float /\ sign(t) = t.s /\ t.s \in BOOLEAN
                      /\ rank(t) \in 3..4
  <2>1. \A t \in Wide : is_integral(t) /\ t # Double /\ t # Float /\ rank(t) \in 3..4 /\ t.k # "bool"
    BY DEF Wide, is_integral, rank, Int_, Long, Arith, Double, Float
  <2>2. \A b \in BOOLEAN : Int_(b).s = b /\ Long(b).s = b
    BY Zenon DEF Int_, Long, Arith
  <2>3. \A t \in Wide : t.s \in BOOLEAN
    BY <2>2, Zenon DEF Wide
  <2> QED
    BY <2>1, <2>3, Zenon DEF sign
<1>3. CASE l.s = r.s
  <2>1. (rank(l) >= rank(r)) <=> ~(rank(l) < rank(r))
    BY <1>2
  <2>2. binary_promote(l, r) = IF rank(l) >= rank(r) THEN l ELSE r
    BY <1>1, <1>2, <1>3 DEF binary_promote, of_promoted, of_signs
  <2>3. UsualConversions(l, r) = IF rank(l) < rank(r) THEN r ELSE l
    BY <1>1, <1>2, <1>3 DEF UsualConversions, OfPromoted, OfSigns
  <2> QED
    BY <2>1, <2>2, <2>3
<1>4. \A s \in Wide, u \in Wide :
        s.s /\ ~u.s =>
          (IF can_represent(s, u) THEN s ELSE u)
            = (IF rank(u) >= rank(s) THEN u ELSE IF Holds(s, u) THEN s ELSE [s EXCEPT !.s = FALSE])
  <2> SUFFICES ASSUME NEW s \in Wide, NEW u \in Wide, s.s, ~u.s
               PROVE (IF can_represent(s, u) THEN s ELSE u)
                       = (IF rank(u) >= rank(s) THEN u ELSE IF Holds(s, u) THEN s ELSE [s EXCEPT !.s = FALSE])
    OBVIOUS
  <2>3. s \in {Int_(TRUE), Long(TRUE)} /\ u \in {Int_(FALSE), Long(FALSE)}
    <3>1. \A b \in BOOLEAN : Int_(b).s = b /\ Long(b).s = b
      BY Zenon DEF Int_, Long, Arith
    <3>2. \A t \in Wide : 
          (t.s => t \in {Int_(TRUE), Long(TRUE)}) /\ (~t.s => t \in {Int_(FALSE), Long(FALSE)})
      BY <3>1, Zenon DEF Wide
    <3> QED
      BY <3>2, Zenon
  <2>1. CASE s = Long(TRUE) /\ u = Int_(FALSE)
    <3>1. ScalarSize(s) > ScalarSize(u)
      BY <2>1, DataModelAssumption DEF ScalarSize, Int_, Long, Arith
    <3>2. can_represent(s, u)
      BY <2>1, <3>1 DEF can_represent, is_integral, Int_, Long, Arith
    <3>3. Holds(s, u)
      BY <2>1, <3>1, DataModelAssumption DEF Holds, Narrower, ScalarSize, Int_, Long, Arith
    <3>4. ~(rank(u) >= rank(s))
      BY <2>1 DEF rank, Int_, Long, Arith
    <3> QED
      BY <3>2, <3>3, <3>4
  <2>2. CASE ~(s = Long(TRUE) /\ u = Int_(FALSE))
    <3>1. ~can_represent(s, u)
      BY <2>3, <2>2, DataModelAssumption DEF can_represent, is_integral, is_signed, ScalarSize, Int_, Long, Arith, Double, Float
    <3>2. rank(u) >= rank(s)
      BY <2>3, <2>2 DEF rank, Int_, Long, Arith
    <3> QED
      BY <3>1, <3>2
  <2> QED
    BY <2>1, <2>2
<1>5. CASE l.s /\ ~r.s
  <2>1. binary_promote(l, r) = IF can_represent(l, r) THEN l ELSE r
    BY <1>1, <1>2, <1>5 DEF binary_promote, of_promoted, of_signs
  <2>2. UsualConversions(l, r)
          = IF rank(r) >= rank(l) THEN r ELSE IF Holds(l, r) THEN l ELSE [l EXCEPT !.s = FALSE]
    BY <1>1, <1>2, <1>5 DEF UsualConversions, OfPromoted, OfSigns
  <2> QED
    BY <2>1, <2>2, <1>4, <1>5
<1>6. CASE ~l.s /\ r.s
  <2>1. binary_promote(l, r) = IF can_represent(r, l) THEN r ELSE l
    BY <1>1, <1>2, <1>6 DEF binary_promote, of_promoted, of_signs
  <2>2. UsualConversions(l, r)
          = IF rank(l) >= rank(r) THEN l ELSE IF Holds(r, l) THEN r ELSE [r EXCEPT !.s = FALSE]
    BY <1>1, <1>2, <1>6 DEF UsualConversions, OfPromoted, OfSigns
  <2> QED
    BY <2>1, <2>2, <1>4, <1>6
<1> QED
  BY <1>2, <1>3, <1>5, <1>6

\* The usual arithmetic conversions (Type::binary_promote) give the common type of
\* C11 6.3.1.8 for every pair of arithmetic types, and never Error.
THEOREM CommonType ==
  \A left, right \in ArithmeticTypes : binary_promote(left, right) = UsualConversions(left, right)
<1> SUFFICES ASSUME NEW left \in ArithmeticTypes, NEW right \in ArithmeticTypes
             PROVE binary_promote(left, right) = UsualConversions(left, right)
  OBVIOUS
<1>1. CASE Double \in {left, right} \/ Float \in {left, right}
  BY <1>1 DEF binary_promote, UsualConversions
<1>2. CASE ~(Double \in {left, right} \/ Float \in {left, right})
  <2>1. left \in IntegralTypes /\ right \in IntegralTypes
    BY <1>2 DEF ArithmeticTypes
  <2> DEFINE l == integer_promote(left)
             r == integer_promote(right)
  <2>2. /\ l \in Wide /\ r \in Wide
        /\ integer_promote(l) = l /\ integer_promote(r) = r
        /\ Promoted(left) = l /\ Promoted(right) = r
        /\ Promoted(l) = l /\ Promoted(r) = r
    BY <2>1, IntegerPromotion, WidePromote
  <2>3. \A t \in Wide : t # Double /\ t # Float
    BY DEF Wide, Int_, Long, Arith, Double, Float
  <2>4. binary_promote(left, right) = binary_promote(l, r)
    BY <1>2, <2>2, <2>3 DEF binary_promote, of_promoted, of_signs
  <2>5. UsualConversions(left, right) = UsualConversions(l, r)
    BY <1>2, <2>2, <2>3 DEF UsualConversions, OfPromoted, OfSigns
  <2>6. binary_promote(l, r) = UsualConversions(l, r)
    BY <2>2, WideCommon
  <2> QED
    BY <2>4, <2>5, <2>6
<1> QED
  BY <1>1, <1>2

\* The order of the operands does not matter, although the code treats the left one first.
THEOREM CommonTypeSymmetric ==
  \A left, right \in IntegralTypes : binary_promote(left, right) = binary_promote(right, left)
<1> SUFFICES ASSUME NEW left \in IntegralTypes, NEW right \in IntegralTypes
             PROVE binary_promote(left, right) = binary_promote(right, left)
  OBVIOUS
<1>1. \A t \in Wide : is_integral(t) /\ sign(t) \in BOOLEAN /\ rank(t) \in 3..4
  BY DEF Wide, is_integral, sign, rank, Int_, Long, Arith
<1>2. \A s, t \in Wide : sign(s) = sign(t) /\ rank(s) = rank(t) => s = t
  <2>1. \A b \in BOOLEAN : (sign(Int_(b)) <=> b) /\ (sign(Long(b)) <=> b)
    BY Zenon DEF sign, Int_, Long, Arith
  <2>2. \A b \in BOOLEAN : rank(Int_(b)) = 3 /\ rank(Long(b)) = 4
    BY DEF rank, Int_, Long, Arith
  <2>3. 3 # 4
    OBVIOUS
  <2> QED
    BY <2>1, <2>2, <2>3, Zenon DEF Wide
<1> DEFINE l == integer_promote(left)
           r == integer_promote(right)
<1>3. l \in Wide /\ r \in Wide
  BY IntegerPromotion
<1>4. \A t \in IntegralTypes : t # Double /\ t # Float
  <2>1. \A t \in Small : t # Double /\ t # Float
    BY DEF Small, Bool, Char, Short, Arith, Double, Float
  <2>2. \A t \in Wide : t # Double /\ t # Float
    BY DEF Wide, Int_, Long, Arith, Double, Float
  <2> QED
    BY <2>1, <2>2, IntegralCases
<1>5. CASE sign(l) = sign(r)
  <2>1. binary_promote(left, right) = IF rank(l) >= rank(r) THEN l ELSE r
    BY <1>1, <1>3, <1>4, <1>5 DEF binary_promote, of_promoted, of_signs
  <2>2. binary_promote(right, left) = IF rank(r) >= rank(l) THEN r ELSE l
    BY <1>1, <1>3, <1>4, <1>5 DEF binary_promote, of_promoted, of_signs
  <2>3. (rank(l) >= rank(r)) /\ (rank(r) >= rank(l)) => rank(l) = rank(r)
    BY <1>1, <1>3
  <2>4. (rank(l) >= rank(r)) \/ (rank(r) >= rank(l))
    BY <1>1, <1>3
  <2> QED
    BY <2>1, <2>2, <2>3, <2>4, <1>2, <1>3, <1>5
<1>6. CASE sign(l) # sign(r)
  BY <1>1, <1>3, <1>4, <1>6 DEF binary_promote, of_promoted, of_signs
<1> QED
  BY <1>5, <1>6

=============================================================================
