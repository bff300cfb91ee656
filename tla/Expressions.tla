----------------------------- MODULE Expressions -----------------------------
(***************************************************************************)
(* Analysis of expressions: parser/analyze/expr.rs turns a syntax tree     *)
(* into a typed tree (hir::Expr) with every conversion explicit.           *)
(*                                                                         *)
(* A node also carries what its analysis pushed on the analyzer's two      *)
(* global queues: errs, the errors, and side, the declarations of the      *)
(* temporaries of compound assignments (decl_side_channel).  Locations,    *)
(* enums and strings are left out; names are resolved (see Declarations).  *)
(***************************************************************************)
EXTENDS Layout

\* syntax: operator o, its value, name or operator v, a type t, operands a
Ast(o, v, t, a) == [o |-> o, v |-> v, t |-> t, a |-> a]

Node(op, v, ty, lval, a) ==
  [op |-> op, v |-> v, ty |-> ty, lval |-> lval, a |-> a,
   errs |-> UNION {a[i].errs : i \in DOMAIN a},
   side |-> FlattenSeq([i \in DOMAIN a |-> a[i].side])]

Err(e, kind) == [e EXCEPT !.errs = @ \cup {kind}]
ErrIf(wrong, e, kind) == IF wrong THEN Err(e, kind) ELSE e

Lit(l, n) == [l |-> l, n |-> n]
Literal(l, n, ty) == Node("Literal", Lit(l, n), ty, FALSE, <<>>)
Cast(e, ty) == Node("Cast", 0, ty, FALSE, <<e>>)
Binary(op, ty, lval, left, right) == Node("Binary", op, ty, lval, <<left, right>>)
Id(i, ty) == Node("Id", i, ty, TRUE, <<>>)
zero == Literal("Int", 0, Int_(TRUE))

\* literal(): the type of a token
literal(l, n) ==
  Literal(l, n, CASE l = "Char" -> Char(TRUE) [] l = "Int" -> Long(TRUE)
                  [] l = "UnsignedInt" -> Long(FALSE) [] l = "Float" -> Double)

is_null(e) == e.op = "Literal" /\ e.v.l # "Float" /\ e.v.n = 0

-----------------------------------------------------------------------------
(* Conversions *)

rval(e) ==
  CASE e.ty.k = "array"    -> [e EXCEPT !.lval = FALSE, !.ty = Pointer(e.ty.of)]
    [] e.ty.k = "function" -> [e EXCEPT !.lval = FALSE, !.ty = Pointer(e.ty)]
    [] is_struct(e.ty)     -> [e EXCEPT !.lval = FALSE]
    [] OTHER -> IF e.lval THEN Node("Deref", 0, e.ty, FALSE, <<e>>) ELSE e

indirection(e, lval, ty) == Node("Noop", 0, ty, lval, <<rval(e)>>)

Converts(e, ty) ==
  \/ is_arithmetic(e.ty) /\ is_arithmetic(ty)
  \/ is_null(e) /\ is_pointer(ty)
  \/ is_pointer(e.ty) /\ (ty = Bool \/ is_void_pointer(ty) \/ is_char_pointer(ty))
cast_rval(e, ty) ==
  IF e.ty = ty THEN e
  ELSE IF Converts(e, ty) THEN Cast(e, ty)
  ELSE IF is_pointer(ty) /\ (is_void_pointer(e.ty) \/ is_char_pointer(e.ty)) THEN [e EXCEPT !.ty = ty]
  ELSE ErrIf(Error \notin {e.ty, ty}, e, "InvalidCast")
implicit_cast(e, ty) == cast_rval(rval(e), ty)

NotZero(e) == Binary("ne", Bool, FALSE, e, implicit_cast(zero, e.ty))
truthy(expr) ==
  LET test(e) == IF e.ty = Bool THEN e
                 ELSE NotZero(IF ~is_scalar(e.ty) /\ e.ty # Error THEN [Err(e, "NotBool") EXCEPT !.ty = Error] ELSE e)
  IN test(rval(expr))

PromoteOne(e) == implicit_cast(e, integer_promote(rval(e).ty))

OnlyLoads(l, r) == <<rval(l), rval(r)>>  \* seeded defect: no conversion

\* Expr::binary_promote: both operands, converted to their common type
PromoteBoth(l, r) ==
  LET To(left, right, common) ==
        IF common = Error
        THEN <<left, ErrIf(Error \notin {left.ty, right.ty}, right, "NonIntegralExpr")>>
        ELSE <<implicit_cast(left, common), implicit_cast(right, common)>>
  IN To(rval(l), rval(r), binary_promote(rval(l).ty, rval(r).ty))

\* seeded defect: a null pointer constant is not promoted
SameTypeOnly(left, right) ==
  IF left.ty = right.ty THEN <<left, right>> ELSE <<left, ErrIf(Error \notin {left.ty, right.ty}, right, "IncompatibleTypes")>>

pointer_promote(left, right) ==
  LET anyPointer(e) == is_void_pointer(e.ty) \/ is_char_pointer(e.ty) \/ is_null(e)
  IN CASE left.ty = right.ty -> <<left, right>>
       [] left.ty # right.ty /\ anyPointer(left) /\ is_pointer(right.ty) -> <<[left EXCEPT !.ty = right.ty], right>>
       [] OTHER -> IF anyPointer(right) /\ is_pointer(left.ty)
                   THEN <<left, [right EXCEPT !.ty = left.ty]>>
                   ELSE <<left, ErrIf(Error \notin {left.ty, right.ty}, right, "IncompatibleTypes")>>

\* modifiable_lval
NotAssignable(e) == ~e.lval \/ ~is_complete(e.ty) \/ e.ty.k = "array"

-----------------------------------------------------------------------------
(* Binary operators *)

IntegerOps    == {"and", "or", "xor", "shl", "shr"}
MulOps        == {"mul", "div", "mod"}
AddOps        == {"add", "sub"}
Comparisons   == {"lt", "le", "gt", "ge", "eq", "ne"}
LogicalOps    == {"land", "lor"}

OfBoth(op, ty, both) == Binary(op, ty, FALSE, both[1], both[2])
Common(op, both) == OfBoth(op, both[2].ty, both)

\* both: the operands l and r converted to their common type
parse_integer_op(l, r, op, both) ==
  LET wrong(e) == ~is_integral(e.ty) /\ e.ty # Error
  IN ErrIf(wrong(l) \/ (is_integral(l.ty) /\ wrong(r)), Common(op, both), "NonIntegralExpr")

mul(l, r, op, both) ==
  LET allowed(t) == IF op = "mod" THEN is_integral(t) ELSE is_arithmetic(t)
  IN IF Error \in {l.ty, r.ty}
     THEN [(IF l.ty = Error THEN l ELSE r) EXCEPT !.errs = l.errs \cup r.errs]
     ELSE ErrIf(~allowed(l.ty) \/ ~allowed(r.ty), Common(op, both), "ExpectedArithmetic")

relational_expr(l, r, token, both) ==
  LET comparable(left, right) ==
        \/ is_pointer(left.ty) /\ left.ty = right.ty
        \/ /\ token \in {"eq", "ne"}
           /\ \/ is_pointer(left.ty) /\ (is_void_pointer(right.ty) \/ is_null(right))
              \/ is_pointer(right.ty) /\ (is_void_pointer(left.ty) \/ is_null(left))
      compared(left, right) ==
        ErrIf(~comparable(left, right) /\ Error \notin {left.ty, right.ty},
              Binary(token, Bool, FALSE, left, right), "InvalidRelationalType")
  IN IF is_arithmetic(l.ty) /\ is_arithmetic(r.ty) THEN OfBoth(token, Bool, both)
     ELSE compared(rval(l), rval(r))

\* sizeof() fails on the other types; the analyzer then goes on with 1
HasSize(t) == t.k \notin {"void", "function", "error"}
SizeOr1(t) == IF HasSize(t) THEN sizeof(t) ELSE 1

\* base + index: the offset is (T*)sizeof(*base) * (T*)index
pointer_arithmetic(base, index, pointee) ==
  LET ptr == base.ty
      size == Cast(literal("UnsignedInt", SizeOr1(pointee)), ptr)
  IN ErrIf(~HasSize(pointee),
           Binary("add", ptr, FALSE, base, Binary("mul", ptr, FALSE, size, rval(Cast(index, ptr)))), "PointerAddUnknownSize")

PointsTo(t) == CASE is_pointer(t) -> t.to [] t.k = "array" -> t.of [] OTHER -> Error
AddressOfComplete(t) == (is_pointer(t) \/ t.k = "array") /\ is_complete(PointsTo(t))

add(l, r, op, both) ==
  IF AddressOfComplete(l.ty) /\ is_integral(r.ty)
  THEN pointer_arithmetic(rval(l), rval(r), PointsTo(l.ty))
  ELSE IF op = "add" /\ AddressOfComplete(r.ty) /\ is_integral(l.ty)
  THEN pointer_arithmetic(rval(r), rval(l), PointsTo(r.ty))
  ELSE IF is_arithmetic(l.ty) /\ is_arithmetic(r.ty)
  THEN Common(op, both)
  ELSE IF op = "sub" /\ AddressOfComplete(l.ty) /\ l.ty = r.ty
  THEN Binary(op, l.ty, TRUE, l, r)
  ELSE ErrIf(Error \notin {l.ty, r.ty}, Binary(op, l.ty, FALSE, l, r), "InvalidAdd")

logical_bin_op(l, r, op) == Binary(op, Bool, FALSE, implicit_cast(l, Bool), implicit_cast(r, Bool))

\* desugar_op and the operators of expr()
Desugared(l, r, op, both) ==
  CASE op \in IntegerOps  -> parse_integer_op(l, r, op, both)
    [] op \in MulOps      -> mul(l, r, op, both)
    [] op \in AddOps      -> add(l, r, op, both)
    [] op \in Comparisons -> relational_expr(l, r, op, both)
    [] op \in LogicalOps  -> logical_bin_op(l, r, op)
BinaryOp(l, r, op) == Desugared(l, r, op, PromoteBoth(l, r))

-----------------------------------------------------------------------------
(* Assignment *)

assign(lval, rvalue) ==
  LET e == rval(rvalue)
      value == IF e.ty = lval.ty THEN e ELSE implicit_cast(e, lval.ty)
  IN ErrIf(NotAssignable(lval), Binary("assign", lval.ty, FALSE, lval, value), "NotAssignable")

\* lval op= rvalue: T *tmp = &lval; *tmp = *tmp op rvalue.  tmp is symbol number n.
compound_assign(lval, rvalue, op, n) ==
  LET ty == lval.ty
      tmp == rval(Id(n, Pointer(ty)))
      old == Node("Deref", 0, ty, FALSE, <<tmp>>)
      target == indirection(tmp, TRUE, ty)
      new == implicit_cast(BinaryOp(old, rval(rvalue), op), ty)
      store == Binary("assign", ty, FALSE, target, new)
  IN ErrIf(NotAssignable(lval),
           [store EXCEPT !.errs = @ \cup lval.errs,
                         !.side = lval.side \o @ \o <<[id |-> n, ty |-> Pointer(ty), init |-> lval]>>],
           "NotAssignable")

increment_op(prefix, increment, e, n) ==
  LET bad == IF NotAssignable(e) THEN {"NotAssignable"}
             ELSE IF is_arithmetic(e.ty) \/ is_pointer(e.ty) \/ e.ty = Error THEN {}
             ELSE {"InvalidIncrement"}
      result == IF prefix
                THEN compound_assign(e, Cast(literal("Int", 1), e.ty), IF increment THEN "add" ELSE "sub", n)
                ELSE Node("PostIncrement", increment, e.ty, FALSE, <<e>>)
  IN [result EXCEPT !.errs = @ \cup bad]

-----------------------------------------------------------------------------
(* Unary operators, members, calls *)

Deref(e) ==
  IF is_pointer(e.ty) \/ e.ty.k = "array" THEN indirection(e, TRUE, PointsTo(e.ty))
  ELSE ErrIf(e.ty # Error, e, "NotAPointer")

AddressOf(e) ==
  IF e.op = "Deref" THEN e.a[1]
  ELSE IF e.lval THEN [e EXCEPT !.lval = FALSE, !.ty = Pointer(e.ty)]
  ELSE Err(e, "InvalidAddressOf")

bitwise_not(e) ==
  IF ~is_integral(e.ty) THEN ErrIf(e.ty # Error, e, "NonIntegralExpr")
  ELSE LET p == PromoteOne(e) IN Node("BitwiseNot", 0, p.ty, FALSE, <<p>>)

unary_add(e, plus) ==
  IF ~is_arithmetic(e.ty) THEN ErrIf(e.ty # Error, e, "NotArithmetic")
  ELSE LET p == PromoteOne(e)
       IN IF plus THEN [p EXCEPT !.lval = FALSE] ELSE Node("Negate", 0, p.ty, FALSE, <<p>>)

logical_not(e) == Binary("eq", Bool, FALSE, truthy(e), implicit_cast(zero, Bool))

AnyCast(expr, ty) == Cast(rval(expr), ty)  \* seeded defect: no check

explicit_cast(expr, ty) ==
  LET e == rval(expr)
      wrong == CASE ~is_scalar(ty) -> {"NonScalarCast"}
                 [] is_scalar(ty) /\ (\/ is_floating(e.ty) /\ is_pointer(ty)
                                      \/ is_pointer(e.ty) /\ is_floating(ty)) -> {"FloatPointerCast"}
                 [] OTHER -> IF is_struct(e.ty) THEN {"StructCast"} ELSE IF e.ty = Void THEN {"VoidCast"} ELSE {}
  IN IF ty = Void THEN Cast(e, ty) ELSE [Cast(e, ty) EXCEPT !.errs = @ \cup wrong]

index(l, r) ==
  LET left == rval(l)
      right == rval(r)
      at(base, i) == [pointer_arithmetic(base, i, base.ty.to) EXCEPT !.ty = base.ty.to, !.lval = TRUE]
  IN CASE is_pointer(left.ty) -> at(left, right)
       [] ~is_pointer(left.ty) /\ is_pointer(right.ty) -> at(right, left)
       [] left.ty # Error /\ right.ty = Error -> [right EXCEPT !.errs = @ \cup left.errs]
       [] OTHER -> ErrIf(left.ty # Error, [left EXCEPT !.errs = @ \cup right.errs], "NotAPointer")

struct_member(e, k) ==
  IF ~is_struct(e.ty) THEN ErrIf(e.ty # Error, e, "NotAStruct")
  ELSE IF k \notin DOMAIN e.ty.ms THEN Err(e, "NotAMember")
  ELSE Node("Member", k, e.ty.ms[k], TRUE, <<e>>)

\* s->m is (*s).m, where *s is marked as an rvalue
DerefMember(e, k) ==
  IF ~is_pointer(e.ty) THEN Err(e, "NotAPointer")
  ELSE IF ~is_struct(e.ty.to) THEN Err(e, "NotAStruct")
  ELSE struct_member(indirection(e, FALSE, e.ty.to), k)

ternary(c, t, o) ==
  LET condition == truthy(c)
      then == rval(t)
      else == rval(o)
      both == IF is_arithmetic(then.ty) /\ is_arithmetic(else.ty)
              THEN PromoteBoth(then, else) ELSE pointer_promote(then, else)
  IN Node("Ternary", 0, both[1].ty, FALSE, <<condition, both[1], both[2]>>)

func_call(f, args) ==
  LET func == IF is_pointer(f.ty) /\ f.ty.to.k = "function"
              THEN Node("Deref", 0, f.ty.to, FALSE, <<f>>) ELSE f
      params == func.ty.params
      expected == IF params = <<Void>> THEN 0 ELSE Len(params)
      promoted(i) == IF i \in DOMAIN params THEN implicit_cast(rval(args[i]), params[i])
                     ELSE implicit_cast(rval(args[i]), default_promote(rval(args[i]).ty))
  IN IF func.ty.k # "function" THEN ErrIf(func.ty # Error, func, "NotAFunction")
     ELSE ErrIf(/\ params # <<>>
                /\ Len(args) < expected \/ (Len(args) > expected /\ ~func.ty.varargs),
                Node("FuncCall", 0, func.ty.ret, FALSE, <<func>> \o [i \in DOMAIN args |-> promoted(i)]),
                "WrongArgumentNumber")

\* sizeof: the operand is analyzed, its value dropped
SizeLiteral(e, ty) ==
  ErrIf(~HasSize(ty) /\ ty # Error,
        [literal("UnsignedInt", SizeOr1(ty)) EXCEPT !.errs = e.errs, !.side = e.side], "UnknownSize")

-----------------------------------------------------------------------------
(* expr(): n is the number of symbols declared before *)

UnaryOps == {"neg", "plus", "bnot", "not", "deref", "addr", "preinc", "predec", "postinc", "postdec", "sizeof"}

unary(o, e, n) ==
  CASE o = "neg"     -> unary_add(e, FALSE)
    [] o = "plus"    -> unary_add(e, TRUE)
    [] o = "bnot"    -> bitwise_not(e)
    [] o = "not"     -> logical_not(e)
    [] o = "deref"   -> Deref(e)
    [] o = "addr"    -> AddressOf(e)
    [] o \in {"preinc", "predec", "postinc", "postdec"} ->
         increment_op(o \in {"preinc", "predec"}, o \in {"preinc", "postinc"}, e, n)
    [] o = "sizeof"  -> SizeLiteral(e, e.ty)

Comma(l, r) == LET right == rval(r) IN Node("Comma", 0, right.ty, FALSE, <<l, right>>)

RECURSIVE expr(_, _)
expr(x, n) ==
  LET operand[i \in 1..Len(x.a)] ==
        expr(x.a[i], IF i = 1 THEN n ELSE n + Len(operand[1].side) + IF i = 3 THEN Len(operand[2].side) ELSE 0)
      last == n + 1 + (IF x.a = <<>> THEN 0 ELSE Len(operand[1].side) + IF Len(x.a) > 1 THEN Len(operand[2].side) ELSE 0)
  IN CASE x.o = "id"      -> Id(x.v, x.t)
       [] x.o = "literal" -> literal(x.v.l, x.v.n)
       [] x.o = "cast"    -> explicit_cast(operand[1], x.t)
       [] x.o = "member"  -> struct_member(operand[1], x.v)
       [] x.o = "arrow"   -> DerefMember(operand[1], x.v)
       [] x.o = "index"   -> index(operand[1], operand[2])
       [] x.o = "comma"   -> Comma(operand[1], operand[2])
       [] x.o = "assign"  -> assign(operand[1], operand[2])
       [] x.o = "compound" -> compound_assign(operand[1], operand[2], x.v, last)
       [] x.o = "ternary" -> ternary(operand[1], operand[2], operand[3])
       [] x.o = "call"    -> func_call(operand[1], [i \in 1..(Len(x.a) - 1) |-> operand[i + 1]])
       [] x.o \in UnaryOps -> unary(x.o, operand[1], last)
       [] OTHER           -> BinaryOp(operand[1], operand[2], x.o)

=============================================================================
