---------------------------- MODULE Initializers ----------------------------
(***************************************************************************)
(* Initialisers of static objects: parser/analyze/init.rs matches them     *)
(* with the parts of a type, codegen/static_init.rs writes the bytes.      *)
(* CBytes is the reference, C11 6.7.9, with the compiler's layout.         *)
(*                                                                         *)
(* An initialiser is a scalar [x |-> syntax] or a list [a |-> sequence].   *)
(* Strings, incomplete arrays and designators (not supported) are left out.*)
(***************************************************************************)
EXTENDS CExpressions

Scalar(x) == [list |-> FALSE, x |-> x]
List(a)   == [list |-> TRUE, a |-> a]

OneMember(t) == IF t.k = "array" THEN t.n ELSE 1  \* seeded defect: structs have one part

type_len(t) == CASE t.k = "array" -> t.n [] is_struct(t) -> Len(t.ms) [] OTHER -> 1

\* [ok, t]: the type of part number i (from 0)
type_at(t, i) ==
  CASE t.k = "array"  -> [ok |-> TRUE, t |-> t.of]
    [] t.k = "struct" -> IF i < Len(t.ms) THEN [ok |-> TRUE, t |-> t.ms[i + 1]] ELSE [ok |-> FALSE, t |-> Error]
    [] t.k = "union"  -> IF i = 0 THEN [ok |-> TRUE, t |-> t.ms[1]] ELSE [ok |-> FALSE, t |-> Error]
    [] OTHER          -> IF i = 0 THEN [ok |-> TRUE, t |-> t] ELSE [ok |-> FALSE, t |-> Error]

Parsed(init, errs) == [init |-> init, errs |-> errs]

\* the initialiser x of a scalar, converted to t
Element(x, t) == implicit_cast(rval(expr(x, 0)), t)

\* Elements taken from list for the parts of t after those in elems; rest is what is left
RECURSIVE aggregate_initializer(_, _, _, _)
RECURSIVE check_aggregate_overflow(_, _)

One(init, rest, errs) == [init |-> init, rest |-> rest, errs |-> errs]
\* the element at the head of list, for a part of type t
Next_element(list, t) ==
  LET elem == Head(list)
      braced(b) == One(b.init, Tail(list), b.errs)
      flat(f) == One(List(f.elems), f.rest, f.errs)
      scalar(e) == One(Scalar(e), Tail(list), e.errs)
  IN IF elem.list THEN braced(check_aggregate_overflow(elem.a, t))
     ELSE IF t # Error /\ ~is_scalar(t) THEN flat(aggregate_initializer(list, t, <<>>, {}))
     ELSE scalar(Element(elem.x, t))

aggregate_initializer(list, t, elems, errs) ==
  IF list = <<>>
  THEN [elems |-> elems, rest |-> <<>>, errs |-> errs \cup IF elems = <<>> THEN {"EmptyInitializer"} ELSE {}]
  ELSE
    LET part == type_at(t, Len(elems))
        With(next) ==
          LET taken == Append(elems, next.init)
              now == errs \cup next.errs \cup IF part.ok THEN {} ELSE {"TooManyMembers"}
          IN IF Len(taken) = type_len(t) \/ next.rest = <<>> THEN [elems |-> taken, rest |-> next.rest, errs |-> now]
             ELSE aggregate_initializer(next.rest, t, taken, now)
    IN With(Next_element(list, part.t))

check_aggregate_overflow(list, t) ==
  LET Whole(r) == Parsed(List(r.elems), r.errs \cup IF r.rest = <<>> THEN {} ELSE {"TooManyMembers"})
  IN Whole(aggregate_initializer(list, t, <<>>, {}))

is_char(t) == t = Char(TRUE)
is_char_array(t) == t.k = "array" /\ is_char(t.of)

\* Of an object at file scope.  What is given for an array of char is left as it is, and
\* only here, not in a list, does an address become a StaticRef.
Unbraced(x, t) == IF is_char_array(t) THEN expr(x, 0) ELSE Element(x, t)
parse_initializer(init, t) ==
  IF init.list THEN check_aggregate_overflow(init.a, t)
  ELSE LET Whole(e) == Parsed(Scalar(IF ~e.lval /\ is_pointer(t) THEN Node("StaticRef", 0, e.ty, FALSE, <<e>>) ELSE e), e.errs)
       IN Whole(Unbraced(init.x, t))

-----------------------------------------------------------------------------
(* The bytes of a buffer of len bytes, with what went wrong *)

Zeros(len) == [i \in 1..len |-> 0]
Buffer(bytes, bad) == [bytes |-> bytes, bad |-> bad]

\* copy_from_slice panics when the lengths differ
copy_from_slice(len, bytes) == IF Len(bytes) = len THEN Buffer(bytes, {}) ELSE Buffer(Zeros(len), {"copy_from_slice"})

into_bytes(token, ty) ==
  LET ir == as_ir_type(ty)
  IN IF token.l = "Char" THEN <<token.n>> ELSE ToBytes(Wrap(token.n, Bits(ir)), SizeOfIR(ir))
IntoBytesFails(token, ty) == token.l # "Char" /\ (token.l = "Float") # is_float(as_ir_type(ty))

init_expr(len, unfolded) ==
  LET e == const_fold(unfolded)
      inner == e.a[1]
      ref(i, offset) == copy_from_slice(len, ToBytes(address(i) + offset, PTR_SIZE))
      failed == [Buffer(Zeros(len), {"NotConstant"}) EXCEPT !.bad = @ \cup e.errs]
  IN IF e.errs # {} THEN failed
     ELSE IF e.op = "Literal"
     THEN IF IntoBytesFails(e.v, e.ty) THEN Buffer(Zeros(len), {"unreachable"}) ELSE copy_from_slice(len, into_bytes(e.v, e.ty))
     ELSE IF e.op # "StaticRef" THEN failed
     ELSE IF inner.op = "Id" THEN ref(inner.v, 0)
     ELSE IF is_zero(inner) \/ (inner.op = "Cast" /\ is_zero(inner.a[1])) THEN copy_from_slice(len, Zeros(PTR_SIZE))
     ELSE IF inner.op = "Member" /\ inner.a[1].op = "Id" THEN ref(inner.a[1].v, member_offset(inner.a[1].ty, inner.v))
     ELSE failed

RECURSIVE init_symbol(_, _, _)

\* one part after the other, each in a slice of its own size; no padding is skipped
Packed(len, parts, types) ==
  LET sizes == [i \in DOMAIN types |-> sizeof(types[i])]
      made == [i \in DOMAIN types |-> init_symbol(sizes[i], parts[i], types[i])]
      bytes == FlattenSeq([i \in DOMAIN types |-> made[i].bytes])
  IN Buffer(bytes \o Zeros(len - Len(bytes)), UNION {made[i].bad : i \in DOMAIN types})

init_symbol(len, init, t) ==
  LET given == Len(init.a)
  IN IF ~init.list THEN init_expr(len, init.x)
     ELSE CASE is_scalar(t)    -> init_symbol(len, init.a[1], t)
            [] t.k = "union"   -> init_symbol(len, init.a[1], t.ms[1])
            [] t.k = "array"   -> IF given > t.n THEN Buffer(Zeros(len), {"TooManyElements"})
                                  ELSE Packed(len, init.a, [i \in 1..given |-> t.of])
            [] t.k = "struct"  -> Packed(len, init.a, SubSeq(t.ms, 1, given))

store_static(init, t) == init_symbol(sizeof(t), init, t)

-----------------------------------------------------------------------------
(* The reference.  A part of an object takes a braced list for itself, or  *)
(* as many of the initialisers of the enclosing list as it needs.          *)

CParts(t) == CASE t.k = "array"  -> [i \in 1..t.n |-> [t |-> t.of, at |-> (i - 1) * sizeof(t.of)]]
               [] t.k = "struct" -> [i \in DOMAIN t.ms |-> [t |-> t.ms[i], at |-> member_offset(t, i)]]
               [] t.k = "union"  -> <<[t |-> t.ms[1], at |-> 0]>>

Put(bytes, at, part) == [i \in DOMAIN bytes |-> IF i \in (at + 1)..(at + Len(part)) THEN part[i - at] ELSE bytes[i]]

CScalar(x, t) ==
  LET made(c, r) == [bytes |-> ToBytes(Wrap(r.v, Width(t)), ScalarSize(t)), ok |-> r.ok /\ Assignable(t, TypeOf(c), c)]
      from(c) == IF c.ok THEN made(c, ConvertedValue(c, <<>>, t)) ELSE [bytes |-> Zeros(sizeof(t)), ok |-> FALSE]
  IN from(Typed(x))

RECURSIVE CFill(_, _)          \* the bytes of t from a list, and the rest of the list
RECURSIVE CFillParts(_, _, _, _)

CFill(list, t) ==
  LET init == Head(list)
      from == IF init.list THEN init.a ELSE list
      alone(r) == [bytes |-> r.bytes, rest |-> Tail(from), ok |-> r.ok]
      filled == IF from = <<>> THEN [bytes |-> Zeros(sizeof(t)), rest |-> <<>>, ok |-> FALSE]
                ELSE IF ~is_scalar(t) THEN CFillParts(from, CParts(t), Zeros(sizeof(t)), TRUE)
                ELSE IF init.list THEN CFill(from, t)
                ELSE alone(CScalar(init.x, t))
      closed(r) == IF init.list THEN [r EXCEPT !.rest = Tail(list), !.ok = @ /\ r.rest = <<>>] ELSE r
  IN closed(filled)

CFillParts(list, parts, bytes, ok) ==
  IF list = <<>> \/ parts = <<>> THEN [bytes |-> bytes, rest |-> list, ok |-> ok]
  ELSE LET Then(r) == CFillParts(r.rest, Tail(parts), Put(bytes, Head(parts).at, r.bytes), ok /\ r.ok)
       IN Then(CFill(list, Head(parts).t))

\* a scalar without braces does not initialise an aggregate
CBytes(init, t) ==
  IF ~init.list /\ ~is_scalar(t) THEN [bytes |-> Zeros(sizeof(t)), rest |-> <<>>, ok |-> FALSE] ELSE CFill(<<init>>, t)

=============================================================================
