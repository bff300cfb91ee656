------------------------ MODULE TranslationProperties ------------------------
(***************************************************************************)
(* What the translation of an expression must satisfy.  Where the compiler *)
(* departs from C the departure has a name and its place in the code, and  *)
(* a property holds of every expression without one of those it lists.     *)
(***************************************************************************)
EXTENDS Translation

RECURSIVE Subs(_)
Subs(x) == <<x>> \o FlattenSeq([i \in DOMAIN x.a |-> Subs(x.a[i])])
Some(x, P(_)) == LET all == Subs(x) IN \E i \in DOMAIN all : P(all[i])
InSource(P(_)) == Some(typing, P)
InTrees(P(_)) == Some(hir, P) \/ \E i \in DOMAIN hir.side : Some(hir.side[i].init, P)

WellTyped == typing.ok /\ (use = "if" => is_scalar(TypeOf(typing)))

IsOp(x, op) == x.o = op \/ (x.o = "compound" /\ x.v = op)
OnPointer(x, i) == is_pointer(TypeOf(x.a[i]))

-----------------------------------------------------------------------------
(* Valid sources that the analysis (parser/analyze/expr.rs) rejects *)

\* 798: ++p adds (T *)1 to p, and no operand of that + is integral
PointerPreIncrement(x) == x.o = "preinc" /\ OnPointer(x, 1)
\* 357: the operands of p - q must be pointers already, and its type is that of p
PointerDifference(x) == x.o = "sub" /\ OnPointer(x, 1) /\ OnPointer(x, 2)
\* 1023: is_null looks for a literal, a cast of 0 is none
CastOfNull(x) ==
  x.o \in {"eq", "ne", "assign", "ternary"} /\ \E i \in DOMAIN x.a : x.a[i].o # "literal" /\ NullConstant(x.a[i])
\* 110: a->m does not convert an array
ArrayArrow(x) == x.o = "arrow" /\ x.a[1].ct.k = "array"
\* fold.rs: errors in an operand that is never evaluated, as in 0 && 1 / 0
Unevaluated(x) == x.o \in LogicalOps \cup {"ternary"} /\ Bad(code) # {} /\ Bad(code) \subseteq FoldErrors

RejectsValid(x) ==
  PointerPreIncrement(x) \/ PointerDifference(x) \/ CastOfNull(x) \/ ArrayArrow(x) \/ Unevaluated(x)

-----------------------------------------------------------------------------
(* Invalid sources that the analysis accepts *)

\* 595: index does not look at the type of the index
AnyIndex(x) == x.o = "index" /\ (OnPointer(x, 1) \/ OnPointer(x, 2))
\* 1182: char * converts as void * does
CharPointers(x) == x.o = "assign" /\ \E i \in {1, 2} : OnPointer(x, i) /\ is_char_pointer(TypeOf(x.a[i]))
\* 559: increment_op asks for any pointer
IncompleteIncrement(x) == x.o \in {"postinc", "postdec"} /\ OnPointer(x, 1) /\ ~ObjectPointer(TypeOf(x.a[1]))
\* 357: p - q is a pointer, which p -= q assigns
PointerDecrease(x) == IsOp(x, "sub") /\ OnPointer(x, 1) /\ OnPointer(x, 2)
\* 88: & accepts any value that was loaded from an object, as in &+x
AddressOfValue(x) == x.o = "addr" /\ x.a[1].o = "plus"

AcceptsInvalid(x) ==
  AnyIndex(x) \/ CharPointers(x) \/ IncompleteIncrement(x) \/ PointerDecrease(x) \/ AddressOfValue(x)

-----------------------------------------------------------------------------
(* Nodes whose code makes the backend panic *)

\* rval loads an object of type void (analyze/expr.rs:1116)
LoadsVoid(e) == e.op = "Deref" /\ as_ir_type(e.ty) = INVALID
\* a[i] is an addition that has the type of the element (analyze/expr.rs:609)
ElementAddition(e) == e.op = "Binary" /\ e.v = "add" /\ e.lval /\ ~is_int(as_ir_type(e.ty))
\* the Value of a Member has the type of the struct, and a pointer that of its
\* target: p->m++ and (*pp)++ load the wrong type (codegen/expr.rs:102)
PlaceType(e) == e.op = "PostIncrement" /\ (e.a[1].op = "Member" \/ (e.a[1].op # "Id" /\ is_pointer(e.a[1].ty)))
\* int f(); f(1) passes an argument to a signature without parameters (codegen/expr.rs:520)
Unprototyped(e) == e.op = "FuncCall" /\ e.a[1].ty.k = "function" /\ e.a[1].ty.params = <<>> /\ Len(e.a) > 1
\* the temporaries of a condition are declared in the body (analyze/stmt.rs:91)
LateTemporary == use = "if" /\ hir.side # <<>>

Crashes ==
  LateTemporary \/ InTrees(LAMBDA e : LoadsVoid(e) \/ ElementAddition(e) \/ PlaceType(e) \/ Unprototyped(e))

-----------------------------------------------------------------------------
(* Departures in the value *)

\* a literal is a long (analyze/expr.rs:849)
LongLiteral(x) ==
  \/ x.o \in {"comma", "ternary"} /\ \E i \in 2..Len(x.a) : x.a[i].o = "literal"
  \/ /\ x.o \notin {"cast", "index", "assign", "call", "member", "arrow", "comma", "ternary"}
     /\ \E i \in DOMAIN x.a : x.a[i].o = "literal"
     /\ \A i \in DOMAIN x.a : ~OnPointer(x, i)
\* a comparison is a _Bool (analyze/expr.rs:283)
SizeOfBool(x) == x.o = "sizeof" /\ x.a[1].o \in Comparisons \cup LogicalOps \cup {"not"}
\* pointer_arithmetic adds, whatever the operator (analyze/expr.rs:417)
PointerMinus(x) == (IsOp(x, "sub") \/ x.o = "predec") /\ OnPointer(x, 1)
\* PostIncrement adds 1 to the address (codegen/expr.rs:114)
ByteIncrement(x) == x.o \in {"postinc", "postdec"} /\ OnPointer(x, 1)
\* and to a _Bool without converting the sum (codegen/expr.rs:124)
BoolIncrement(x) == x.o \in {"postinc", "postdec"} /\ TypeOf(x.a[1]) = Bool
\* the operands of a shift are converted to their common type (analyze/expr.rs:180)
CommonShift(x) ==
  \E op \in {"shl", "shr"} : IsOp(x, op) /\ UsualConversions(TypeOf(x.a[1]), TypeOf(x.a[2])) # Promoted(TypeOf(x.a[1]))

ChangesValue(x) == LongLiteral(x) \/ SizeOfBool(x) \/ PointerMinus(x) \/ ByteIncrement(x) \/ BoolIncrement(x) \/ CommonShift(x)

\* of nodes: a literal that is no value of its type, for const_cast truncates to
\* bytes only, and to unsigned ones (fold.rs:387)
OutOfType(e) == LET f == const_fold(e) IN is_integral(f.ty) /\ IsLit(f) /\ ~Represents(f.ty, f.v.n)
\* shift_right compares the count with a number of bytes (fold.rs:434)
ByteShift(e) == e.op = "Binary" /\ e.v = "shr" /\ LET n == const_fold(e.a[2]) IN IsLit(n) /\ n.v.n >= sizeof(e.ty)
FoldsWrong(e) == OutOfType(e) \/ ByteShift(e)

\* the conversion to _Bool keeps the low byte (codegen/expr.rs:313)
ToBool(e) == e.op = "Cast" /\ e.ty = Bool /\ e.a[1].ty # Bool
LowByte(e) == ToBool(e) /\ ~IsLit(const_fold(e.a[1]))

\* a place computed with effects is computed before the rest of the statement, and
\* even when && does not get there: it initialises a temporary (analyze/expr.rs:771)
Effects == {"assign", "compound", "preinc", "predec", "postinc", "postdec", "call"}
HoistedPlace(x) == x.o \in {"compound", "preinc", "predec"} /\ x # typing /\ Some(x.a[1], LAMBDA y : y.o \in Effects)

-----------------------------------------------------------------------------
(* Departures in initialisers *)

RECURSIVE Parts(_)
Parts(t) == <<t>> \o CASE t.k = "array"  -> Parts(t.of)
                       [] is_struct(t)   -> FlattenSeq([i \in DOMAIN t.ms |-> Parts(t.ms[i])])
                       [] OTHER          -> <<>>
RECURSIVE Scalars(_)
Scalars(init) == IF init.list THEN FlattenSeq([i \in DOMAIN init.a |-> Scalars(init.a[i])]) ELSE <<init.x>>
SomePart(t, P(_)) == LET all == Parts(t) IN \E i \in DOMAIN all : P(all[i])

\* init_symbol packs the members, offset() aligns the one before (static_init.rs:245)
Padded(t) ==
  t.k = "struct" /\ \E k \in DOMAIN t.ms :
    struct_offset(t.ms, k) # FoldLeft(LAMBDA n, u : n + sizeof(u), 0, SubSeq(t.ms, 1, k - 1))
\* without braces of its own, a union asks for one initialiser per member (init.rs:142)
ElidedUnion(t) == t.k = "union" /\ Len(t.ms) > 1

\* a scalar without braces is taken for an array of char as if it were a string, and not
\* converted (init.rs:21); copy_from_slice panics unless it has the size (static_init.rs:187)
ScalarForChars(t, init) == ~init.list /\ is_char_array(t)
\* in a list an address does not become a StaticRef (init.rs:110): it is no constant
AddressInBraces(parsed) ==
  parsed.list /\ LET all == Scalars(parsed) IN \E i \in DOMAIN all : is_pointer(all[i].ty) /\ ~IsLit(const_fold(all[i]))
\* a cast of 0 is no null pointer here either (expr.rs:1023)
NullCast(init) == LET all == Scalars(init) IN \E i \in DOMAIN all : all[i].o = "cast" /\ NullConstant(Typed(all[i]))

UnionElided(i) == objects[i].t.k # "union" /\ SomePart(objects[i].t, ElidedUnion)

RefusesObject(i) == UnionElided(i) \/ AddressInBraces(inits[i].init) \/ NullCast(objects[i].init)
Miswrites(i) ==
  \/ UnionElided(i) \/ SomePart(objects[i].t, Padded)
  \/ LET all == Scalars(inits[i].init) IN \E j \in DOMAIN all : Some(all[j], OutOfType)
AcceptsObject(i) == UnionElided(i) \/ ScalarForChars(objects[i].t, objects[i].init)

SomeObject(P(_)) == \E i \in DOMAIN inits : P(i)

-----------------------------------------------------------------------------
(* Properties *)

\* the machine's representation of the C value n of type t
Pattern(n, t) == IF is_floating(t) THEN n ELSE Wrap(n, Width(t))
SameMemory(mem, cmem) == \A at \in DOMAIN cmem : mem[at] = cmem[at]
SameValue(v, n) == IF use = "if" THEN Bit(v # 0) = Bit(n # 0)
                   ELSE is_scalar(TypeOf(typing)) => v = Pattern(n, TypeOf(typing))

Departs ==
  \/ InSource(ChangesValue) \/ InSource(HoistedPlace)
  \/ InTrees(FoldsWrong) \/ InTrees(LowByte)
  \/ SomeObject(Miswrites)

\* Where C defines the result, the code of expr, const_fold and compile_expr computes
\* it, leaves the objects as C does and does not trap.
ComputesC ==
  phase = "done" /\ WellTyped /\ ~Departs =>
    (meant.ok => ~ran.trap /\ SameMemory(ran.mem, meant.mem) /\ SameValue(ran.v, meant.v))

\* What the analysis accepts, valid or not, meets every assertion, unreachable! and
\* panic! of compile_expr and the verifier of the backend.
NoPanic == Crashes \/ Bad(code) \ FoldErrors = {}

\* A well-typed expression that C gives a value is accepted, from expr to init_symbol.
ValidAccepted ==
  phase = "rejected" /\ WellTyped /\ ~InSource(RejectsValid) /\ ~Crashes /\ ~SomeObject(RefusesObject) => ~meant.ok

\* The analysis reports every constraint of C11 6.5 that an expression violates.
InvalidRejected == phase = "tree" /\ ~WellTyped => InSource(AcceptsInvalid)

\* const_fold changes what is computed at run time neither in value nor in effect.
FoldingPreserves ==
  phase = "done" /\ ~InTrees(FoldsWrong) /\ ~InTrees(ToBool) =>
    LET Same(plain) == ~plain.trap => plain = ran IN Same(RunAll(compile_stmts(FALSE), InitialMemory))

Refused(i) == inits[i].errs # {} \/ (i \in DOMAIN statics /\ statics[i].bad # {})
Stored(i) == i \in DOMAIN statics /\ statics[i].bad = {}

\* Brace elision and the bytes of static data: a valid initialiser is accepted and gives
\* the bytes of C11 6.7.9, an invalid one is refused, and none makes the backend panic.
InitialBytes ==
  size = 1 =>
    \A i \in DOMAIN inits :
      /\ initial[i].ok /\ Refused(i) => RefusesObject(i)
      /\ initial[i].ok /\ Stored(i) => Miswrites(i) \/ statics[i].bytes = initial[i].bytes
      /\ ~initial[i].ok /\ Stored(i) => AcceptsObject(i)
      /\ i \in DOMAIN statics /\ statics[i].bad \cap {"copy_from_slice", "unreachable"} # {} =>
           ScalarForChars(objects[i].t, objects[i].init)

=============================================================================
