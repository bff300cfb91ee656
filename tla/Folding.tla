------------------------------- MODULE Folding -------------------------------
(***************************************************************************)
(* Constant folding: parser/fold.rs.  Literals are Int (i64), UnsignedInt  *)
(* (u64), Char (u8) and Float; here i64 and u64 have WordBits bits.  An    *)
(* error of const_fold joins the errs of the node.  Floats are integral.   *)
(***************************************************************************)
EXTENDS Expressions, Bitwise

WordBits == CHAR_BIT * LONG_SIZE
InI64(n) == Signed(n, WordBits) = n

\* products of words without leaving TLC's integers
HalfWord == 2 ^ (WordBits \div 2)
WrappingMul(a, b, bits) ==
  Wrap(Wrap(a * (b \div HalfWord), bits) * HalfWord + a * (b % HalfWord), bits)

Magnitude(n) == IF n < 0 THEN 0 - n ELSE n
\* a quotient that is infinite or not a number is 0 here
Truncated(a, b) == IF b = 0 THEN 0 ELSE LET q == Magnitude(a) \div Magnitude(b) IN IF (a < 0) = (b < 0) THEN q ELSE 0 - q
Remainder(a, b) == a - b * Truncated(a, b)

Compared(op, a, b) ==
  CASE op = "lt" -> a < b [] op = "le" -> a <= b [] op = "gt" -> a > b
    [] op = "ge" -> a >= b [] op = "eq" -> a = b [] op = "ne" -> a # b
Bit(b) == IF b THEN 1 ELSE 0

BitOp(op, a, b) == CASE op = "and" -> a & b [] op = "or" -> a | b [] op = "xor" -> a ^^ b

-----------------------------------------------------------------------------
(* A step of folding yields a literal, NotFolded, or the name of an error. *)

NotFolded == [l |-> "none"]
Fails(kind) == [l |-> "error", kind |-> kind]
CheckedInt(n) == IF InI64(n) THEN Lit("Int", n) ELSE Fails("ConstOverflow")
WidthOf(l) == IF l = "Char" THEN CHAR_BIT ELSE WordBits

\* overflowing on i64, wrapping on u64 and u8
fold_scalar(op, a, b) ==
  LET exact == CASE op = "add" -> a.n + b.n [] op = "sub" -> a.n - b.n
                 [] op = "div" -> Truncated(a.n, b.n) [] op = "mod" -> Remainder(a.n, b.n)
      wrapped == IF op = "mul" THEN WrappingMul(a.n, b.n, WidthOf(a.l)) ELSE Wrap(exact, WidthOf(a.l))
  IN CASE a.l # b.l -> NotFolded
       [] a.l = b.l /\ a.l = "Int" -> CheckedInt(IF op = "mul" THEN a.n * b.n ELSE exact)
       [] a.l = b.l /\ a.l = "Float" -> IF op = "mod" THEN NotFolded ELSE Lit("Float", IF op = "mul" THEN a.n * b.n ELSE exact)
       [] OTHER -> IF op = "mod" /\ a.l = "Char" THEN NotFolded ELSE Lit(a.l, wrapped)

fold_bits(op, a, b) ==
  LET u == BitOp(op, Wrap(a.n, WidthOf(a.l)), Wrap(b.n, WidthOf(b.l)))
  IN IF a.l # b.l \/ a.l = "Float" THEN NotFolded
     ELSE Lit(a.l, IF a.l = "Int" THEN Signed(u, WordBits) ELSE u)

fold_logical(op, a, b) ==
  LET absorbing == IF op = "land" THEN 0 ELSE 1
      int(x, n) == x = Lit("Int", n)
  IN IF int(a, 1 - absorbing) /\ int(b, 1 - absorbing) THEN Lit("Int", 1 - absorbing)
     ELSE IF int(a, absorbing) \/ int(b, absorbing) THEN Lit("Int", absorbing)
     ELSE NotFolded

\* shift_left and shift_right, when the right operand is the literal b; ty is the
\* type of the expression, lty the type of the left operand e
fold_shift(op, e, b, ty) ==
  LET negative == b.l = "Float" \/ b.n < 0
      a == e.v
      bits == CHAR_BIT * sizeof(e.ty)
  IN CASE negative -> Fails("NegativeShift")
       [] ~negative /\ op = "shr" ->
            IF b.n >= sizeof(ty) THEN Lit(IF is_signed(ty) THEN "Int" ELSE "UnsignedInt", 0)
            ELSE IF e.op = "Literal" THEN Lit(a.l, a.n \div (2 ^ b.n))
            ELSE NotFolded
       [] ~negative /\ op = "shl" ->
            IF is_signed(e.ty) /\ b.n >= bits THEN Fails("TooManyShiftBits")
            ELSE IF e.op # "Literal" \/ a.l \notin {"Int", "UnsignedInt"} THEN NotFolded
            ELSE IF a.l = "Int" /\ b.n >= WordBits THEN Fails("ConstOverflow")
            ELSE LET shifted == WrappingMul(Wrap(a.n, WordBits), 2 ^ (b.n % WordBits), WordBits)
                 IN Lit(a.l, IF a.l = "Int" THEN Signed(shifted, WordBits) ELSE shifted)

\* const_cast: truncates to a u8 but to no other type
const_cast(token, ty) ==
  LET n == token.n
      int == IF is_signed(ty) THEN Lit("Int", Signed(n, WordBits)) ELSE Lit("UnsignedInt", Wrap(n, WordBits))
  IN IF is_integral(ty)
     THEN IF ty = Bool THEN Lit("Int", Bit(n # 0))
          ELSE IF ty.k = "char" /\ token.l # "Char" THEN Lit("Char", Wrap(n, CHAR_BIT))
          ELSE int
     ELSE IF is_floating(ty) THEN Lit("Float", n)
     ELSE IF is_pointer(ty) /\ token.l # "Float" /\ n >= 0 THEN Lit("UnsignedInt", n)
     ELSE NotFolded

-----------------------------------------------------------------------------
(* const_fold *)

IsLit(e) == e.op = "Literal"
is_zero(e) == IsLit(e) /\ e.v.n = 0

\* e with its value replaced by the outcome of a step
Outcome(e, r) ==
  CASE r.l = "none"  -> e
    [] r.l = "error" -> Err(e, r.kind)
    [] OTHER -> [Literal(r.l, r.n, e.ty) EXCEPT !.lval = e.lval, !.errs = e.errs]

fold_binary(e) ==
  LET op == e.v
      left == e.a[1]
      right == e.a[2]
      both == IsLit(left) /\ IsLit(right)
      divides == op \in {"div", "mod"}
  IN IF divides /\ is_zero(right) /\ (op = "mod" \/ is_integral(right.ty)) THEN Fails("DivideByZero")
     ELSE IF op \in {"shl", "shr"} THEN (IF IsLit(right) THEN fold_shift(op, left, right.v, e.ty) ELSE NotFolded)
     ELSE IF ~both THEN NotFolded
     ELSE CASE op \in MulOps \cup AddOps -> fold_scalar(op, left.v, right.v)
            [] op \in IntegerOps  -> fold_bits(op, left.v, right.v)
            [] op \in LogicalOps  -> fold_logical(op, left.v, right.v)
            [] op \in Comparisons -> IF left.v.l = right.v.l
                                     THEN Lit("Int", Bit(Compared(op, left.v.n, right.v.n))) ELSE NotFolded
            [] op = "assign"      -> NotFolded

\* seeded defect: ~n folds to -n
NegatesBits(op, token) ==
  IF token.l = "Int" THEN CheckedInt(0 - token.n)
  ELSE IF token.l = "Float" THEN Lit("Float", 0 - token.n) ELSE Lit(token.l, Wrap(0 - token.n, WidthOf(token.l)))

fold_unary(op, token) ==
  CASE op = "Negate" -> IF token.l = "Int" THEN CheckedInt(0 - token.n)
                        ELSE IF token.l = "Float" THEN Lit("Float", 0 - token.n)
                        ELSE Lit(token.l, Wrap(0 - token.n, WidthOf(token.l)))
    [] op = "BitwiseNot" -> IF token.l = "Int" THEN Lit("Int", 0 - token.n - 1)
                            ELSE IF token.l = "Float" THEN token
                            ELSE Lit(token.l, 2 ^ WidthOf(token.l) - 1 - token.n)

\* the expression of another node under this node's type
Becomes(e, kid) == [kid EXCEPT !.ty = e.ty, !.lval = e.lval, !.errs = e.errs]

FoldNode(e) ==
  CASE e.op \in {"Negate", "BitwiseNot"} -> IF IsLit(e.a[1]) THEN Outcome(e, fold_unary(e.op, e.a[1].v)) ELSE e
    [] e.op = "Binary" -> Outcome(e, fold_binary(e))
    [] e.op = "Cast"   -> IF IsLit(e.a[1]) THEN Outcome(e, const_cast(e.a[1].v, e.ty)) ELSE e
    [] e.op = "Comma"  -> IF IsLit(e.a[1]) THEN Becomes(e, e.a[2]) ELSE e
    [] e.op = "Deref"  -> ErrIf(e.a[1].op = "Literal" /\ e.a[1].v = Lit("Int", 0), e, "NullPointerDereference")
    [] e.op = "Ternary" -> IF IsLit(e.a[1]) /\ e.a[1].v.l = "Int"
                           THEN Becomes(e, IF e.a[1].v.n = 0 THEN e.a[3] ELSE e.a[2]) ELSE e
    [] OTHER -> e

RECURSIVE const_fold(_)
const_fold(e) ==
  FoldNode(IF e.op = "StaticRef" \/ e.a # <<>>
           THEN Node(e.op, e.v, e.ty, e.lval, [i \in DOMAIN e.a |-> const_fold(e.a[i])])
           ELSE e)

=============================================================================
