---------------------------- MODULE CExpressions ----------------------------
(***************************************************************************)
(* The reference: what C11 6.5 says of an expression.  Typed annotates it  *)
(* with types and whether it satisfies the constraints, Meaning gives its  *)
(* value and effect on memory.  Implementation-defined choices (the data model, the  *)
(* layout, conversions that wrap) are those of the compiler.  Nothing here *)
(* translates the compiler.                                                *)
(***************************************************************************)
EXTENDS Codegen

Decayed(t) == CASE t.k = "array" -> Pointer(t.of) [] t.k = "function" -> Pointer(t) [] OTHER -> t
TypeOf(x) == Decayed(x.ct)       \* of a typed x, after 6.3.2.1
Ty(t, lval) == [ok |-> TRUE, ct |-> t, lval |-> lval]
IllTyped == [ok |-> FALSE, ct |-> Error, lval |-> FALSE]
TyIf(ok, t, lval) == IF ok THEN Ty(t, lval) ELSE IllTyped

ObjectPointer(t) == is_pointer(t) /\ is_complete(t.to)

\* 6.3.2.3p3, of the constant expressions only a zero, its plus and its casts to integers
RECURSIVE NullConstant(_)
NullConstant(x) ==
  \/ x.o = "literal" /\ x.v.l # "Float" /\ x.v.n = 0
  \/ (x.o = "plus" \/ (x.o = "cast" /\ is_integral(x.t))) /\ NullConstant(x.a[1])

Assignable(t, from, x) ==
  \/ is_arithmetic(t) /\ is_arithmetic(from)
  \/ t = from
  \/ t = Bool /\ is_pointer(from)
  \/ is_pointer(t) /\ (NullConstant(x) \/ (is_pointer(from) /\ (is_void_pointer(t) \/ is_void_pointer(from))))
Modifiable(c) == c.lval /\ c.ct.k \notin {"array", "function", "void"}

\* 6.5.5 to 6.5.12: the type of l op r, for operand types l and r
BinaryType(op, l, r, x, y) ==
  CASE op \in {"mul", "div"} -> TyIf(is_arithmetic(l) /\ is_arithmetic(r), UsualConversions(l, r), FALSE)
    [] op \in {"mod", "and", "or", "xor"} -> TyIf(is_integral(l) /\ is_integral(r), UsualConversions(l, r), FALSE)
    [] op \in {"shl", "shr"} -> TyIf(is_integral(l) /\ is_integral(r), Promoted(l), FALSE)
    [] op \in LogicalOps -> TyIf(is_scalar(l) /\ is_scalar(r), Int_(TRUE), FALSE)
    [] op \in Comparisons ->
         TyIf(\/ is_arithmetic(l) /\ is_arithmetic(r)
              \/ is_pointer(l) /\ l = r
              \/ /\ op \in {"eq", "ne"}
                 /\ \/ is_pointer(l) /\ is_pointer(r) /\ (is_void_pointer(l) \/ is_void_pointer(r))
                    \/ is_pointer(l) /\ NullConstant(y)
                    \/ is_pointer(r) /\ NullConstant(x),
              Int_(TRUE), FALSE)
    [] op \in AddOps ->
         IF is_arithmetic(l) /\ is_arithmetic(r) THEN Ty(UsualConversions(l, r), FALSE)
         ELSE IF ObjectPointer(l) /\ is_integral(r) THEN Ty(l, FALSE)
         ELSE IF op = "add" /\ is_integral(l) /\ ObjectPointer(r) THEN Ty(r, FALSE)
         ELSE TyIf(op = "sub" /\ ObjectPointer(l) /\ l = r, Long(TRUE), FALSE)

\* the type of x from the typed operands sub
TypeFrom(x, sub) ==
  LET c == sub[1]
      t == TypeOf(c)
      u == TypeOf(sub[2])
      Unary ==
        CASE x.o \in {"neg", "plus"} -> TyIf(is_arithmetic(t), IF is_integral(t) THEN Promoted(t) ELSE t, FALSE)
          [] x.o = "bnot"   -> TyIf(is_integral(t), Promoted(t), FALSE)
          [] x.o = "not"    -> TyIf(is_scalar(t), Int_(TRUE), FALSE)
          [] x.o = "deref"  -> IF is_pointer(t) THEN Ty(t.to, t.to.k # "function") ELSE IllTyped
          [] x.o = "addr"   -> TyIf(c.lval \/ c.ct.k = "function", Pointer(c.ct), FALSE)
          [] x.o = "sizeof" -> TyIf(c.ct.k \notin {"function", "void"}, Long(FALSE), FALSE)
          [] OTHER -> TyIf(Modifiable(c) /\ (is_arithmetic(t) \/ ObjectPointer(t)), t, FALSE)
      MemberType(s) == IF is_struct(s) /\ x.v \in DOMAIN s.ms THEN Ty(s.ms[x.v], TRUE) ELSE IllTyped
      params == c.ct.params
      Call ==
        LET n == IF params = <<Void>> THEN 0 ELSE Len(params)
            given == Len(x.a) - 1
        IN TyIf(/\ params = <<>> \/ given = n \/ (c.ct.varargs /\ given > n)
                /\ \A i \in 1..given : i \in DOMAIN params => Assignable(params[i], TypeOf(sub[i + 1]), x.a[i + 1]),
                c.ct.ret, FALSE)
  IN IF \E i \in 1..Len(x.a) : ~sub[i].ok THEN IllTyped
     ELSE CASE x.o = "id"      -> Ty(x.t, x.t.k # "function")
            [] x.o = "literal" -> Ty(CASE x.v.l = "Float" -> Double [] x.v.l = "UnsignedInt" -> Long(FALSE)
                                       [] OTHER -> Int_(TRUE), FALSE)
            [] x.o = "cast"    -> TyIf(\/ x.t = Void
                                       \/ /\ is_scalar(x.t) /\ is_scalar(t)
                                          /\ ~(is_pointer(x.t) /\ is_floating(t)) /\ ~(is_floating(x.t) /\ is_pointer(t)),
                                       x.t, FALSE)
            [] x.o = "member"  -> MemberType(c.ct)
            [] x.o = "arrow"   -> IF is_pointer(t) THEN MemberType(t.to) ELSE IllTyped
            [] x.o = "index"   -> IF ObjectPointer(t) /\ is_integral(u) THEN Ty(t.to, TRUE)
                                  ELSE IF ObjectPointer(u) /\ is_integral(t) THEN Ty(u.to, TRUE) ELSE IllTyped
            [] x.o = "comma"   -> Ty(u, FALSE)
            [] x.o = "assign"  -> TyIf(Modifiable(c) /\ Assignable(c.ct, u, x.a[2]), c.ct, FALSE)
            [] x.o = "compound" ->
                 TyIf(Modifiable(c) /\ BinaryType(x.v, t, u, x.a[1], x.a[2]).ok /\ (is_arithmetic(u) /\ (is_arithmetic(t) \/ x.v \in AddOps)), c.ct, FALSE)
            [] x.o = "ternary" ->
                 LET v == TypeOf(sub[3])
                 IN IF ~is_scalar(t) THEN IllTyped
                    ELSE IF is_arithmetic(u) /\ is_arithmetic(v) THEN Ty(UsualConversions(u, v), FALSE)
                    ELSE IF is_pointer(u) /\ NullConstant(x.a[3]) THEN Ty(u, FALSE)
                    ELSE IF is_pointer(v) /\ NullConstant(x.a[2]) THEN Ty(v, FALSE)
                    ELSE IF is_pointer(u) /\ is_pointer(v) /\ Void \in {u.to, v.to} THEN Ty(Pointer(Void), FALSE)
                    ELSE TyIf(u = v, u, FALSE)
            [] x.o = "call"    -> IF c.ct.k = "function" THEN Call ELSE IllTyped
            [] x.o \in UnaryOps -> Unary
            [] OTHER -> BinaryType(x.o, t, u, x.a[1], x.a[2])

\* x with, in every node, its type before 6.3.2.1 and whether it is an lvalue
RECURSIVE Typed(_)
Annotated(x, sub, r) == [o |-> x.o, v |-> x.v, t |-> x.t, a |-> sub, ok |-> r.ok, ct |-> r.ct, lval |-> r.lval]
TypedNode(x, sub) == Annotated(x, sub, TypeFrom(x, sub))
Typed(x) == TypedNode(x, [i \in DOMAIN x.a |-> Typed(x.a[i])])

-----------------------------------------------------------------------------
(* Values: integers of the type, addresses of pointers, integral floats *)

Width(t) == CHAR_BIT * ScalarSize(t)
Represents(t, n) == IF sign(t) THEN Signed(n, Width(t)) = n ELSE Wrap(n, Width(t)) = n
Ub(mem) == [ok |-> FALSE, v |-> 0, mem |-> mem]
Val(n, mem) == [ok |-> TRUE, v |-> n, mem |-> mem]
ValIf(ok, n, mem) == IF ok THEN Val(n, mem) ELSE Ub(mem)

\* 6.3.1: the value n of type from, converted to type to
Converted(n, from, to) ==
  CASE to = Bool -> Bit(n # 0)
    [] is_integral(to) /\ to # Bool -> IF sign(to) THEN Signed(n, Width(to)) ELSE Wrap(n, Width(to))
    [] is_pointer(to) -> Wrap(n, ptr_type)
    [] OTHER -> n
ConversionDefined(n, from, to) == is_floating(from) /\ is_integral(to) => to = Bool \/ Represents(to, n)
ConvertTo(r, from, to) == IF r.ok THEN ValIf(ConversionDefined(r.v, from, to), Converted(r.v, from, to), r.mem) ELSE r

ReadAs(t, at, mem) ==
  IF ~Mapped(mem, at, ScalarSize(t)) THEN Ub(mem)
  ELSE LET n == Load(mem, at, as_ir_type(t)) IN Val(IF is_integral(t) /\ sign(t) THEN Signed(n, Width(t)) ELSE n, mem)
WriteAs(t, at, n, mem) ==
  IF Mapped(mem, at, ScalarSize(t)) THEN Val(n, Store(mem, at, as_ir_type(t), n)) ELSE Ub(mem)

\* a op b, both of type t
Arithmetic(op, t, a, b, mem) ==
  LET exact == CASE op = "add" -> a + b [] op = "sub" -> a - b [] op = "mul" -> a * b
                 [] op = "div" -> Truncated(a, b) [] op = "mod" -> Remainder(a, b)
      wrapped == IF op = "mul" THEN WrappingMul(a, b, Width(t)) ELSE Wrap(exact, Width(t))
  IN IF op \in {"div", "mod"} /\ b = 0 THEN Ub(mem)
     ELSE IF is_floating(t) THEN ValIf(op # "div" \/ Remainder(a, b) = 0, exact, mem)
     ELSE IF op \in {"and", "or", "xor"}
          THEN LET u == BitOp(op, Wrap(a, Width(t)), Wrap(b, Width(t))) IN Val(IF sign(t) THEN Signed(u, Width(t)) ELSE u, mem)
     ELSE IF sign(t) THEN ValIf(Represents(t, exact), exact, mem) ELSE Val(wrapped, mem)

Shift(op, t, a, b, mem) ==
  LET shifted == IF sign(t) THEN a * (2 ^ b) ELSE WrappingMul(a, 2 ^ b, Width(t))
  IN IF ~(0 <= b /\ b < Width(t)) THEN Ub(mem)
     ELSE IF op = "shr" THEN Val(a \div (2 ^ b), mem)
     ELSE ValIf(~sign(t) \/ (a >= 0 /\ a < 2 ^ (Width(t) - b) /\ Represents(t, shifted)), shifted, mem)

\* a op b for operands of types t and u, after the conversions of 6.5.5 to 6.5.12
Operate(op, t, u, a, b, mem) ==
  LET common == UsualConversions(t, u)
      l == Converted(a, t, common)
      r == Converted(b, u, common)
      step(p) == sizeof(p.to)
  IN CASE op \in Comparisons -> IF is_pointer(t) \/ is_pointer(u) THEN Val(Bit(Compared(op, a, b)), mem)
                                ELSE Val(Bit(Compared(op, l, r)), mem)
       [] op \in {"shl", "shr"} -> Shift(op, Promoted(t), a, b, mem)
       [] op \notin Comparisons \cup {"shl", "shr"} ->
            IF is_pointer(t) /\ is_pointer(u) THEN Val((a - b) \div step(t), mem)
            ELSE IF is_pointer(t) THEN Val(IF op = "add" THEN a + b * step(t) ELSE a - b * step(t), mem)
            ELSE IF is_pointer(u) THEN Val(b + a * step(u), mem)
            ELSE Arithmetic(op, common, l, r, mem)

-----------------------------------------------------------------------------
(* Meaning(x, mem) of a typed x: of an lvalue or an array, v is its address *)

RECURSIVE Meaning(_, _)
RECURSIVE ValueOf(_, _)

\* 6.3.2.1
LvalueRead(x, r) == IF r.ok /\ x.lval /\ is_scalar(x.ct) THEN ReadAs(x.ct, r.v, r.mem) ELSE r
ValueOf(x, mem) == LvalueRead(x, Meaning(x, mem))

ConvertedValue(x, mem, to) == ConvertTo(ValueOf(x, mem), TypeOf(x), to)

\* n, the result of a step at place, written there
Written(place, t, n, mem) == IF ~place.ok \/ ~n.ok THEN Ub(mem) ELSE WriteAs(t, place.v, n.v, n.mem)
\* x++: old is what place holds
Stepped(op, place, old, t, mem) ==
  LET sum == Operate(op, t, Int_(TRUE), old.v, 1, place.mem)
  IN IF ~old.ok THEN Ub(mem)
     ELSE Written(place, t, ConvertTo(sum, IF is_pointer(t) THEN t ELSE UsualConversions(t, Int_(TRUE)), t), mem)
\* x op= y: rhs is y, now what place holds after it, old what it held before (6.5p2)
Updated(op, result, place, rhs, old, now, t, u, mem) ==
  IF ~place.ok \/ ~rhs.ok \/ ~now.ok \/ old.v # now.v THEN Ub(mem)
  ELSE Written(place, t, ConvertTo(Operate(op, t, u, now.v, rhs.v, rhs.mem), result, t), mem)

CopiedTo(place, s, size, mem) ==
  IF place.ok /\ s.ok THEN Val(s.v, MemCopy(s.mem, place.v, s.v, size)) ELSE Ub(mem)

\* place is the lvalue on the left, old what it holds, rhs the operand on the right
EffectOf(x, t, u, place, old, rhs, mem) ==
  CASE x.o = "assign" ->
         IF is_struct(t) THEN CopiedTo(place, Meaning(x.a[2], place.mem), sizeof(t), mem)
         ELSE Written(place, t, ConvertTo(rhs, u, t), mem)
    [] x.o = "compound" ->
         Updated(x.v, BinaryType(x.v, t, u, x.a[1], x.a[2]).ct, place, rhs, old, ReadAs(t, place.v, rhs.mem), t, u, mem)
    [] x.o \in {"preinc", "predec", "postinc", "postdec"} ->
         [Stepped(IF x.o \in {"preinc", "postinc"} THEN "add" ELSE "sub", place, old, t, mem)
            EXCEPT !.v = IF x.o \in {"postinc", "postdec"} THEN old.v ELSE @]

\* self, f, t and u are the types of x and, before and after 6.3.2.1, of its operands;
\* left is the first operand's value, right that of the second after it
MeaningOf(x, self, f, t, u, place, left, right, mem) ==
  LET Step(at, by, p) == Val(at + by * sizeof(p.to), right.mem)
      Lvalues ==
        CASE x.o = "addr"   -> place
          [] x.o = "deref"  -> left
          [] x.o = "member" -> [place EXCEPT !.v = @ + member_offset(f, x.v)]
          [] x.o = "arrow"  -> [left EXCEPT !.v = @ + member_offset(t.to, x.v)]
          [] x.o = "index"  -> IF ~left.ok \/ ~right.ok THEN Ub(mem)
                               ELSE IF is_pointer(t) THEN Step(left.v, right.v, t) ELSE Step(right.v, left.v, u)
      Truth == [right EXCEPT !.v = Bit(@ # 0)]
      i == Len(x.a)
      Passed(early, param) ==          \* the callee returns its last argument
        IF early.ok THEN ConvertTo(ConvertedValue(x.a[i], early.mem, param), param, f.ret) ELSE early
      Arguments ==
        IF i = 1 THEN Val(0, mem)
        ELSE Passed(IF i = 3 THEN ValueOf(x.a[2], mem) ELSE Val(0, mem),
                    IF i - 1 \in DOMAIN f.params THEN f.params[i - 1] ELSE default_promote(TypeOf(x.a[i])))
  IN CASE x.o = "id"      -> Val(address(x.v), mem)
       [] x.o = "literal" -> Val(x.v.n, mem)
       [] x.o = "sizeof"  -> Val(sizeof(f), mem)
       [] x.o = "call"    -> Arguments
       [] x.o \in {"assign", "compound", "preinc", "predec", "postinc", "postdec"} ->
            EffectOf(x, t, u, place, ReadAs(t, place.v, place.mem), ValueOf(x.a[2], place.mem), mem)
       [] x.o \in {"addr", "deref", "member", "arrow", "index"} -> Lvalues
       [] OTHER ->
     IF ~left.ok THEN left ELSE
     CASE x.o = "cast"    -> IF x.t = Void THEN left ELSE ConvertTo(left, t, x.t)
       [] x.o = "plus"    -> ConvertTo(left, t, self)
       [] x.o = "neg"     -> Arithmetic("sub", self, 0, Converted(left.v, t, self), left.mem)
       [] x.o = "bnot"    -> Val(Converted(0 - Converted(left.v, t, self) - 1, self, self), left.mem)
       [] x.o = "not"     -> Val(Bit(left.v = 0), left.mem)
       [] x.o = "land"    -> IF left.v = 0 THEN left ELSE Truth
       [] x.o = "lor"     -> IF left.v # 0 THEN Val(1, left.mem) ELSE Truth
       [] x.o = "ternary" -> ConvertedValue(x.a[IF left.v # 0 THEN 2 ELSE 3], left.mem, self)
       [] x.o = "comma"   -> right
       [] OTHER -> IF right.ok THEN Operate(x.o, t, u, left.v, right.v, right.mem) ELSE right

MeaningFrom(x, left, mem) ==
  MeaningOf(x, TypeOf(x), x.a[1].ct, TypeOf(x.a[1]), TypeOf(x.a[2]),
            Meaning(x.a[1], mem), left, ValueOf(x.a[2], left.mem), mem)
Meaning(x, mem) == MeaningFrom(x, ValueOf(x.a[1], mem), mem)

=============================================================================
