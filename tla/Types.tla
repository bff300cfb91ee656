------------------------------- MODULE Types -------------------------------
(***************************************************************************)
(* The types of expressions and the conversions between them:              *)
(* parser/data/types.rs, the sizes of scalars and can_represent of         *)
(* parser/arch/mod.rs, and the promotions of parser/analyze/expr.rs.       *)
(* UsualConversions is C11 6.3.1.8.                                        *)
(*                                                                         *)
(* The data model is a parameter, so that expressions can be checked with  *)
(* narrow integers and the promotions proved for every model.  Enums and   *)
(* qualifiers are left out.                                                *)
(***************************************************************************)
EXTENDS Integers

CONSTANTS CHAR_BIT, SHORT_SIZE, INT_SIZE, LONG_SIZE, PTR_SIZE

ASSUME DataModelAssumption ==
  /\ CHAR_BIT \in Nat /\ CHAR_BIT > 1
  /\ SHORT_SIZE \in Nat /\ INT_SIZE \in Nat /\ LONG_SIZE \in Nat /\ PTR_SIZE \in Nat
  /\ 1 < SHORT_SIZE /\ SHORT_SIZE < INT_SIZE /\ INT_SIZE < LONG_SIZE
  /\ PTR_SIZE = LONG_SIZE

\* A type is a record with its kind k: s is the sign of an integer type (is_signed
\* says that _Bool is signed), to the target of a pointer, of and n the element and
\* the length of an array, ms the types of the members of a struct or a union.
Arith(k, sgn) == [k |-> k, s |-> sgn]
Bool      == Arith("bool", TRUE)
Char(sgn)  == Arith("char", sgn)
Short(sgn) == Arith("short", sgn)
Int_(sgn)  == Arith("int", sgn)
Long(sgn)  == Arith("long", sgn)
Float     == Arith("float", TRUE)
Double    == Arith("double", TRUE)
Pointer(t)   == [k |-> "pointer", to |-> t]
Array(t, len) == [k |-> "array", of |-> t, n |-> len]
Struct(types) == [k |-> "struct", ms |-> types]
Union(types)  == [k |-> "union", ms |-> types]
Function(types, more, ret) == [k |-> "function", params |-> types, varargs |-> more, ret |-> ret]
Void      == [k |-> "void"]
Error     == [k |-> "error"]

IntegralTypes   == {Bool} \cup {Arith(k, sgn) : k \in {"char", "short", "int", "long"}, sgn \in BOOLEAN}
ArithmeticTypes == IntegralTypes \cup {Float, Double}

is_integral(t)   == t.k \in {"bool", "char", "short", "int", "long"}
is_floating(t)   == t.k \in {"float", "double"}
is_arithmetic(t) == is_integral(t) \/ is_floating(t)
is_pointer(t)    == t.k = "pointer"
is_scalar(t)     == is_arithmetic(t) \/ is_pointer(t)
is_signed(t)     == is_integral(t) /\ t.s
is_void_pointer(t) == is_pointer(t) /\ t.to.k = "void"
is_char_pointer(t) == is_pointer(t) /\ t.to.k = "char"
is_complete(t)   == t.k \notin {"void", "function"}
is_struct(t)     == t.k \in {"struct", "union"}

ScalarSize(t) ==
  CASE t.k = "bool"    -> 1
    [] t.k = "char"    -> 1
    [] t.k = "short"   -> SHORT_SIZE
    [] t.k = "int"     -> INT_SIZE
    [] t.k = "float"   -> INT_SIZE
    [] t.k = "long"    -> LONG_SIZE
    [] t.k = "double"  -> LONG_SIZE
    [] t.k = "pointer" -> PTR_SIZE
    [] OTHER           -> 0

-----------------------------------------------------------------------------
(* Promotions *)

sign(t) == t.k # "bool" /\ t.s

rank(t) ==
  CASE t.k = "bool"  -> 0
    [] t.k = "char"  -> 1
    [] t.k = "short" -> 2
    [] t.k = "int"   -> 3
    [] t.k = "long"  -> 4
    [] OTHER         -> 5

can_represent(self, other) ==
  \/ self = other
  \/ self = Double /\ other = Float
  \/ /\ is_integral(self) /\ is_integral(other)
     /\ \/ ScalarSize(self) > ScalarSize(other)
        \/ ScalarSize(self) = ScalarSize(other) /\ is_signed(self) = is_signed(other)

integer_promote(t) ==
  IF rank(t) > rank(Int_(TRUE)) THEN t
  ELSE IF can_represent(Int_(TRUE), t) THEN Int_(TRUE) ELSE Int_(FALSE)

\* seeded defect: the signed operand wins at equal rank
SignedWins(left, right) ==
  LET l == integer_promote(left)
      r == integer_promote(right)
  IN IF Double \in {left, right} THEN Double
     ELSE IF Float \in {left, right} THEN Float
     ELSE IF ~is_integral(l) \/ ~is_integral(r) THEN Error
     ELSE IF rank(l) > rank(r) \/ (rank(l) = rank(r) /\ sign(l)) THEN l ELSE r

\* Type::binary_promote; Error when a type is not integral
of_signs(signed, unsigned) == IF can_represent(signed, unsigned) THEN signed ELSE unsigned
of_promoted(l, r) ==
  IF ~is_integral(l) \/ ~is_integral(r) THEN Error
  ELSE IF sign(l) = sign(r) THEN (IF rank(l) >= rank(r) THEN l ELSE r)
  ELSE IF sign(l) THEN of_signs(l, r) ELSE of_signs(r, l)
binary_promote(left, right) ==
  IF left = Double \/ right = Double THEN Double
  ELSE IF left = Float \/ right = Float THEN Float
  ELSE of_promoted(integer_promote(left), integer_promote(right))

default_promote(t) ==
  IF is_integral(t) THEN integer_promote(t) ELSE IF t = Float THEN Double ELSE t

\* C11 6.3.1.1p2 and 6.3.1.8, from what a type can hold and not from sizes
Narrower(t, u) == ScalarSize(t) < ScalarSize(u)
Holds(t, u) ==           \* every value of u is a value of t
  \/ t = u
  \/ Narrower(u, t) /\ (t.s \/ ~sign(u))
  \/ ScalarSize(t) = ScalarSize(u) /\ sign(t) = sign(u)

Promoted(t) ==
  IF rank(t) > 3 \/ t.k = "int" THEN t
  ELSE IF Holds(Int_(TRUE), t) THEN Int_(TRUE) ELSE Int_(FALSE)

OfSigns(signed, unsigned) ==
  IF rank(unsigned) >= rank(signed) THEN unsigned
  ELSE IF Holds(signed, unsigned) THEN signed
  ELSE [signed EXCEPT !.s = FALSE]
OfPromoted(l, r) ==
  IF l.s = r.s THEN (IF rank(l) < rank(r) THEN r ELSE l)
  ELSE IF l.s THEN OfSigns(l, r) ELSE OfSigns(r, l)
UsualConversions(left, right) ==
  IF Double \in {left, right} THEN Double
  ELSE IF Float \in {left, right} THEN Float
  ELSE OfPromoted(Promoted(left), Promoted(right))

=============================================================================
