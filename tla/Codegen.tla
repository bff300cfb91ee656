------------------------------- MODULE Codegen -------------------------------
(***************************************************************************)
(* Code for expressions: codegen/expr.rs.  compile_expr yields a Value:    *)
(* the instructions (a tree in evaluation order), the IR type and the C    *)
(* type the compiler believes they have, and bad, the assertions,          *)
(* unreachable!s and verifier errors it ran into.  An instruction has a    *)
(* name i, the type w of its result, a parameter v and operands a.         *)
(*                                                                         *)
(* Exec, the machine (Cranelift and the processor), is external.  Integers *)
(* are bit patterns, floats are integral.                                  *)
(***************************************************************************)
EXTENDS Folding

CONSTANTS ObjectBase, ObjectStride    \* symbol i is at ObjectBase + i * ObjectStride

address(i) == ObjectBase + i * ObjectStride

Ins(i, w, v, a) == [i |-> i, w |-> w, v |-> v, a |-> a]
Value(code, ir, ct, bad) == [code |-> code, ir |-> ir, ct |-> ct, bad |-> bad]
BadIf(wrong, kind) == IF wrong THEN {kind} ELSE {}

is_int(ir) == ir > 0
is_float(ir) == ir < 0

\* the verifier: what each operand of an instruction must be
Verifier(wrong) == BadIf(wrong, "verifier")

-----------------------------------------------------------------------------
(* Instructions for a node, from the Values of its operands *)

compile_literal(e, ir) ==
  LET code == Ins("const", ir, IF is_int(ir) THEN Wrap(e.v.n, ir) ELSE e.v.n, <<>>)
  IN Value(code, ir, e.ty,
           IF e.v.l = "Float" THEN BadIf(~is_float(ir), "unimplemented") ELSE Verifier(~is_int(ir)))

\* declarations.get(&var).expect("loaded a variable that was not declared")
load_addr(e, declared) ==
  Value(Ins("addr", ptr_type, e.v, <<>>), ptr_type, Pointer(e.ty), BadIf(e.v \notin declared, "undeclared"))

deref(e, ir, p) ==
  Value(Ins("load", ir, 0, <<p.code>>), ir, e.ty,
        p.bad \cup Verifier(ir = INVALID \/ p.code.w # ptr_type))

cast_code(val, from, to, from_signed, to_signed) ==
  IF from = to THEN val.code
  ELSE Ins("convert", to, [from |-> from_signed, to |-> to_signed], <<val.code>>)

cast(inner, val, ty) ==
  LET to == as_ir_type(ty)
  IN IF ty = Void THEN val
     ELSE Value(cast_code(val, val.ir, to, is_signed(inner.ty), is_signed(ty)), to, ty,
                val.bad \cup BadIf(val.ir # to /\ INVALID \in {val.ir, to}, "unreachable")
                        \cup Verifier(val.code.w # val.ir))

unary_op(name, inner, val) ==
  Value(Ins(name, val.code.w, 0, <<val.code>>), val.ir, inner.ty,
        val.bad \cup BadIf(val.ir = INVALID \/ (name = "bnot" /\ is_float(val.ir)), "unreachable"))

\* binary_assign_ir: the instruction is chosen from the type of the whole expression
binary_assign_ir(op, ty, l, r) ==
  LET ir == as_ir_type(ty)
      allowed == is_int(ir) \/ (is_float(ir) /\ op \in {"add", "sub", "mul", "div"})
  IN Value(Ins("arith", l.code.w, [op |-> op, signed |-> is_signed(ty)], <<l.code, r.code>>), ir, ty,
           l.bad \cup r.bad \cup BadIf(l.ir # r.ir, "assert_eq") \cup BadIf(~allowed, "unreachable")
                 \cup Verifier(l.code.w # r.code.w \/ is_int(ir) # is_int(l.code.w)))

compare(op, l, r) ==
  Value(Ins("cmp", I8, [op |-> op, signed |-> is_signed(l.ct)], <<l.code, r.code>>), I8, l.ct,
        l.bad \cup r.bad \cup BadIf(l.ir # r.ir, "assert_eq") \cup Verifier(l.code.w # r.code.w \/ l.ir = INVALID))

logical_expr(op, l, r) ==
  Value(Ins(op, I8, 0, <<l.code, r.code>>), I8, Bool,
        l.bad \cup r.bad \cup Verifier(l.code.w # I8 \/ r.code.w # I8))

assignment(ty, target, value) ==
  LET bad == target.bad \cup value.bad \cup Verifier(target.code.w # ptr_type)
  IN IF is_struct(ty)
     THEN Value(Ins("memcpy", value.code.w, sizeof(ty), <<target.code, value.code>>), value.ir, value.ct, bad)
     ELSE Value(Ins("store", value.code.w, 0, <<target.code, value.code>>), value.ir, value.ct, bad)

Member(e, ir, s) ==
  Value(Ins("arith", ptr_type, [op |-> "add", signed |-> FALSE],
            <<s.code, Ins("const", ptr_type, member_offset(e.a[1].ty, e.v), <<>>)>>),
        ir, e.a[1].ty, s.bad \cup Verifier(s.code.w # ptr_type))

sequence(l, r) == [r EXCEPT !.code = Ins("seq", r.code.w, 0, <<l.code, r.code>>), !.bad = @ \cup l.bad]

\* the operand's C type is that of a pointer when it is a variable, its own otherwise
PostIncrement(e, lval) ==
  LET loaded == IF is_pointer(lval.ct) THEN lval.ct.to ELSE lval.ct
      ir == as_ir_type(loaded)
  IN Value(Ins("postinc", ir, e.v, <<lval.code>>), ir, loaded,
           lval.bad \cup Verifier(ir = INVALID \/ lval.code.w # ptr_type))

compile_ternary(e, c, t, o) ==
  LET ir == as_ir_type(e.a[2].ty)
  IN Value(Ins("select", ir, 0, <<c.code, t.code, o.code>>), ir, t.ct,
           c.bad \cup t.bad \cup o.bad \cup Verifier(t.code.w # ir \/ o.code.w # ir \/ ~is_int(c.code.w)))

\* variadic arguments of type float become double
call(ftype, args) ==
  LET n == Len(ftype.params)
      variadic(i) == ftype.varargs /\ i > n
      arg(i) == IF variadic(i) /\ args[i].ct = Float
                THEN Value(cast_code(args[i], as_ir_type(Float), as_ir_type(Double), TRUE, TRUE), as_ir_type(Double), Double, {})
                ELSE args[i]
      params == IF ftype.params = <<Void>> THEN <<>> ELSE [i \in DOMAIN ftype.params |-> as_ir_type(ftype.params[i])]
      sig == IF ftype.varargs THEN params \o [i \in 1..(Len(args) - n) |-> arg(n + i).ir] ELSE params
      ir == as_ir_type(ftype.ret)
  IN Value(Ins("call", ir, [from |-> args # <<>> /\ is_signed(Last(args).ct), to |-> is_signed(ftype.ret)],
               [i \in DOMAIN args |-> arg(i).code]), ir, ftype.ret,
           UNION {args[i].bad : i \in DOMAIN args}
             \cup Verifier(sig # [i \in DOMAIN args |-> arg(i).code.w]))

-----------------------------------------------------------------------------
(* compile_expr; with folding = FALSE, the code there would be without it  *)

RECURSIVE compile_expr(_, _, _)

\* e is folded already
compile_node(e, declared, folding) ==
  LET ir == IF e.lval THEN ptr_type ELSE as_ir_type(e.ty)
      op(i) == compile_expr(e.a[i], declared, folding)
      named == e.op = "FuncCall" /\ e.a[1].op = "Id"
      Plain ==
        CASE e.op = "Literal"    -> compile_literal(e, ir)
          [] e.op = "Id"         -> load_addr(e, declared)
          [] e.op = "Deref"      -> deref(e, ir, op(1))
          [] e.op = "Cast"       -> cast(e.a[1], op(1), e.ty)
          [] e.op = "Negate"     -> unary_op("neg", e.a[1], op(1))
          [] e.op = "BitwiseNot" -> unary_op("bnot", e.a[1], op(1))
          [] e.op = "Comma"      -> sequence(op(1), op(2))
          [] e.op = "Member"     -> Member(e, ir, op(1))
          [] e.op = "PostIncrement" -> PostIncrement(e, op(1))
          [] e.op = "Noop"       -> [op(1) EXCEPT !.ct = e.ty]
          [] e.op = "Ternary"    -> compile_ternary(e, op(1), op(2), op(3))
          [] e.op = "FuncCall"   -> IF named
                                    THEN call(e.a[1].ty, [i \in 1..(Len(e.a) - 1) |-> op(i + 1)])
                                    ELSE [call(e.a[1].ty, [i \in 1..(Len(e.a) - 1) |-> op(i + 1)])
                                            EXCEPT !.bad = @ \cup op(1).bad]
      OfBinary ==
        CASE e.v \in LogicalOps  -> logical_expr(e.v, op(1), op(2))
          [] e.v = "assign"      -> assignment(e.a[1].ty, op(1), op(2))
          [] e.v \in Comparisons -> compare(e.v, op(1), op(2))
          [] OTHER               -> binary_assign_ir(e.v, e.ty, op(1), op(2))
  IN [(IF e.op = "Binary" THEN OfBinary ELSE Plain) EXCEPT !.bad = @ \cup e.errs]

compile_expr(e, declared, folding) ==
  compile_node(IF folding THEN const_fold(e) ELSE e, declared, folding)

-----------------------------------------------------------------------------
(* The machine *)

Done(v, mem) == [v |-> v, mem |-> mem, trap |-> FALSE]
Trap(mem) == [v |-> 0, mem |-> mem, trap |-> TRUE]

Convert(n, from, to, sgn) ==
  CASE is_int(from) /\ is_int(to) -> Wrap(IF sgn.from THEN Signed(n, from) ELSE n, to)
    [] is_int(from) /\ is_float(to) -> IF sgn.from THEN Signed(n, from) ELSE n
    [] is_float(from) /\ is_int(to) -> Wrap(n, to)
    [] OTHER -> n
ConvertTraps(n, from, to, sgn) ==
  /\ is_float(from) /\ is_int(to)
  /\ IF sgn.to THEN Signed(n, to) # n ELSE Wrap(n, to) # n

\* an integer instruction on the patterns a and b
IntArith(op, a, b, w, signed) ==
  LET val(n) == IF signed THEN Signed(n, w) ELSE n
      count == b % w
  IN CASE op = "add" -> Wrap(a + b, w)
       [] op = "sub" -> Wrap(a - b, w)
       [] op = "mul" -> WrappingMul(a, b, w)
       [] op = "div" -> Wrap(Truncated(val(a), val(b)), w)
       [] op = "mod" -> Wrap(Remainder(val(a), val(b)), w)
       [] op \in {"and", "or", "xor"} -> BitOp(op, a, b)
       [] op = "shl" -> WrappingMul(a, 2 ^ count, w)
       [] op = "shr" -> Wrap(val(a) \div (2 ^ count), w)
ArithTraps(op, a, b, w, signed) ==
  op \in {"div", "mod"} /\ (b = 0 \/ (op = "div" /\ signed /\ a = 2 ^ (w - 1) /\ b = 2 ^ w - 1))
FloatArith(op, a, b) ==
  CASE op = "add" -> a + b [] op = "sub" -> a - b [] op = "mul" -> a * b [] op = "div" -> Truncated(a, b)

MemCopy(mem, to, from, size) == Poke(mem, to, Peek(mem, from, size))

RECURSIVE Exec(_, _)
Exec(c, mem) ==
  LET first == Exec(c.a[1], mem)
      second == Exec(c.a[2], first.mem)
      w == c.w
      from == c.a[1].w
  IN CASE c.i = "const" -> Done(c.v, mem)
       [] c.i = "call" /\ c.a = <<>> -> Done(0, mem)
       [] c.i = "addr"  -> Done(address(c.v), mem)
       [] OTHER ->
     IF first.trap THEN first ELSE
     CASE c.i = "load"  -> IF Mapped(mem, first.v, SizeOfIR(w)) THEN Done(Load(first.mem, first.v, w), first.mem) ELSE Trap(first.mem)
       [] c.i = "convert" -> IF ConvertTraps(first.v, from, w, c.v) THEN Trap(first.mem)
                             ELSE Done(Convert(first.v, from, w, c.v), first.mem)
       [] c.i = "neg"   -> Done(IF is_int(w) THEN Wrap(0 - first.v, w) ELSE 0 - first.v, first.mem)
       [] c.i = "bnot"  -> Done(2 ^ w - 1 - first.v, first.mem)
       [] c.i = "postinc" ->
            IF ~Mapped(mem, first.v, SizeOfIR(w)) THEN Trap(first.mem)
            ELSE LET old == Load(first.mem, first.v, w)
                     new == IF c.v THEN old + 1 ELSE old - 1
                 IN Done(old, Store(first.mem, first.v, w, new))
       [] c.i = "select" -> IF first.v # 0 THEN second ELSE Exec(c.a[3], first.mem)
       [] c.i \in LogicalOps ->
            LET r == IF (first.v # 0) = (c.i = "lor") THEN first ELSE second IN [r EXCEPT !.v = Bit(@ # 0)]
       [] c.i = "call" ->
            LET last == IF Len(c.a) = 1 THEN first ELSE second    \* the callee returns its last argument
                given == Last(c.a).w
            IN IF w = INVALID \/ last.trap THEN last
               ELSE IF ConvertTraps(last.v, given, w, c.v) THEN Trap(last.mem) ELSE [last EXCEPT !.v = Convert(@, given, w, c.v)]
       [] OTHER ->
     IF second.trap THEN second ELSE
     CASE c.i = "seq"   -> second
       [] c.i = "arith" ->
            IF is_float(w) THEN Done(FloatArith(c.v.op, first.v, second.v), second.mem)
            ELSE IF ArithTraps(c.v.op, first.v, second.v, w, c.v.signed) THEN Trap(second.mem)
            ELSE Done(IntArith(c.v.op, first.v, second.v, w, c.v.signed), second.mem)
       [] c.i = "cmp"   ->
            LET val(n) == IF is_int(from) /\ c.v.signed THEN Signed(n, from) ELSE n
            IN Done(Bit(Compared(c.v.op, val(first.v), val(second.v))), second.mem)
       [] c.i = "store" -> IF Mapped(mem, first.v, SizeOfIR(w))
                           THEN Done(second.v, Store(second.mem, first.v, w, second.v)) ELSE Trap(second.mem)
       [] c.i = "memcpy" -> IF Mapped(mem, first.v, c.v) /\ Mapped(mem, second.v, c.v)
                            THEN Done(second.v, MemCopy(second.mem, first.v, second.v, c.v)) ELSE Trap(second.mem)

=============================================================================
