----------------------------- MODULE Translation -----------------------------
(***************************************************************************)
(* A C expression from source to result.  The environment declares static  *)
(* objects and writes an expression over them, one operator at a time, as  *)
(* the value of a return statement or as the condition of an if; the       *)
(* compiler analyzes it, generates code, and the machine runs the code on  *)
(* the memory the initialisers left.                                       *)
(*                                                                         *)
(* A family bounds what is written: the objects given, the operands, the   *)
(* operators, the statements, and the number of operators.                 *)
(***************************************************************************)
EXTENDS Initializers

CONSTANT Families

VARIABLES family,   \* what may be written
          objects,  \* the static objects declared so far: type and initialiser
          source,   \* the expression, as syntax
          size,     \* its number of operators
          phase,    \* source, tree, code, done; or rejected
          use,      \* the statement: return or if
          hir,      \* its analysis
          typing,   \* the expression as C types it
          meant,    \* what C says: the outcome of the reference
          initial,  \* the objects as C initialises them
          inits,    \* the initialisers of the objects, analyzed
          statics,  \* the bytes of the objects in the object file
          code,     \* Values: the temporaries of the statement, then the expression
          ran       \* the outcome of the machine
vars == <<family, objects, source, size, phase, use, hir, typing, meant, initial, inits, statics, code, ran>>

None == Ast("none", 0, Void, <<>>)
NoTyping == Annotated(None, <<>>, IllTyped)
NoMeaning == Ub(<<>>)
NoResult == [v |-> 0, mem |-> <<>>, trap |-> FALSE]

Init ==
  /\ family \in Families
  /\ objects = family.given
  /\ source = None
  /\ size = 0
  /\ phase = "source"
  /\ use = "return"
  /\ hir = zero
  /\ typing = NoTyping
  /\ meant = NoMeaning
  /\ initial = <<>>
  /\ inits = <<>>
  /\ statics = <<>>
  /\ code = <<>>
  /\ ran = NoResult

-----------------------------------------------------------------------------
(* Writing.  An operand is a constant, or an object declared for it. *)

Object(t, init) == [object |-> TRUE, t |-> t, init |-> init]
Constant(x)     == [object |-> FALSE, x |-> x]

Declared(p) == IF p.object THEN Append(objects, [t |-> p.t, init |-> p.init]) ELSE objects
Operand(p)  == IF p.object THEN Ast("id", Len(objects) + 1, p.t, <<>>) ELSE p.x

Write(x, objs) ==
  /\ source' = x
  /\ objects' = objs
  /\ size' = size + 1
  /\ UNCHANGED <<family, phase, use, hir, typing, meant, initial, inits, statics, code, ran>>

CanGrow == phase = "source" /\ source # None /\ size <= family.size /\ Typed(source).ok

Start == source = None /\ \E p \in family.operands : Write(Operand(p), Declared(p))

\* a unary operator, a cast, a member, a call of a function with this operand
Apply ==
  /\ CanGrow
  /\ \E op \in family.unary : Write(Ast(op.o, op.v, op.t, op.before \o <<source>>), objects)

\* a binary operator and its other operand, on either side
Combine ==
  /\ CanGrow
  /\ \E op \in family.binary, p \in family.others, left \in family.sides :
       Write(Ast(op.o, op.v, Void, IF left THEN <<Operand(p), source>> ELSE <<source, Operand(p)>>), Declared(p))

Select ==
  /\ CanGrow
  /\ \E p \in family.branches, q \in family.branches, at \in 1..3 :
       /\ ~p.object \/ ~q.object
       /\ Write(Ast("ternary", 0, Void, CASE at = 1 -> <<source, Operand(p), Operand(q)>>
                                          [] at = 2 -> <<Operand(p), source, Operand(q)>>
                                          [] at = 3 -> <<Operand(p), Operand(q), source>>),
                IF p.object THEN Declared(p) ELSE Declared(q))

-----------------------------------------------------------------------------
(* The reference outcome *)

Extent(i) == address(i)..(address(i) + ObjectStride - 1)
MemoryOf(bytes(_), n) ==
  [at \in UNION {Extent(i) : i \in 1..n} |->
     LET i == (at - ObjectBase) \div ObjectStride
         b == bytes(i)
         k == (at - address(i)) + 1
     IN IF k \in DOMAIN b THEN b[k] ELSE 0]

\* of the typed expression x
CResult(x, parts) ==
  IF x.ok
  THEN [ValueOf(x, MemoryOf(LAMBDA i : parts[i].bytes, Len(parts))) EXCEPT !.ok = @ /\ \A i \in DOMAIN parts : parts[i].ok]
  ELSE NoMeaning

-----------------------------------------------------------------------------
(* Compiling *)

\* return_statement, in a function that returns what C says (c) the expression is; an
\* expression of no scalar type is a statement of its own
Returned(e, t) == IF is_scalar(t) THEN implicit_cast(e, t) ELSE e

analyze_as(statement, e, c) ==
  IF statement = "if" THEN truthy(e) ELSE IF c.ok THEN Returned(e, TypeOf(c)) ELSE e

Analyze ==
  /\ phase = "source" /\ source # None
  /\ use' \in family.uses
  /\ typing' = Typed(source)
  /\ initial' = [i \in DOMAIN objects |-> CBytes(objects[i].init, objects[i].t)]
  /\ meant' = CResult(typing', initial')
  /\ hir' = analyze_as(use', expr(source, Len(objects)), typing')
  /\ inits' = [i \in DOMAIN objects |-> parse_initializer(objects[i].init, objects[i].t)]
  /\ phase' = IF hir'.errs = {} /\ \A i \in DOMAIN inits' : inits'[i].errs = {} THEN "tree" ELSE "rejected"
  /\ UNCHANGED <<family, objects, source, size, statics, code, ran>>

\* The declarations of decl_side_channel.  parse_stmt puts them before a return; an
\* if has analyzed its body by then, and they went there.
Temporaries == IF use = "if" THEN <<>> ELSE hir.side

\* declare_stack with an initialiser
Stack_store(slot, value) == [value EXCEPT !.code = Ins("store", value.code.w, 0, <<slot, value.code>>)]
declare_stack(d, declared) == Stack_store(Ins("addr", ptr_type, d.id, <<>>), compile_expr(d.init, declared, TRUE))

compile_stmts(folding) ==
  LET known(i) == (1..Len(objects)) \cup {Temporaries[j].id : j \in 1..i}
      decls == [i \in DOMAIN Temporaries |-> declare_stack(Temporaries[i], known(i - 1))]
  IN Append(decls, compile_expr(hir, known(Len(Temporaries)), folding))

Bad(values) == UNION {values[i].bad : i \in DOMAIN values}
FoldErrors == {"ConstOverflow", "DivideByZero", "NegativeShift", "TooManyShiftBits", "NullPointerDereference"}

\* an error in an object or in the code ends the compilation
Generate ==
  /\ phase = "tree"
  /\ code' = compile_stmts(TRUE)
  /\ statics' = [i \in DOMAIN objects |-> store_static(inits[i].init, objects[i].t)]
  /\ phase' = IF Bad(code') \cup Bad(statics') = {} THEN "code" ELSE "rejected"
  /\ UNCHANGED <<family, objects, source, size, use, hir, typing, meant, initial, inits, ran>>

-----------------------------------------------------------------------------
(* Running *)

\* what store_static left, and room for the temporaries
InitialMemory ==
  LET n == Len(objects)
  IN MemoryOf(LAMBDA i : IF i <= n THEN statics[i].bytes ELSE <<>>, n + Len(Temporaries))

RECURSIVE RunAll(_, _)
RunAll(values, mem) ==
  LET first == Exec(Head(values).code, mem)
  IN IF first.trap \/ Len(values) = 1 THEN first ELSE RunAll(Tail(values), first.mem)

Run ==
  /\ phase = "code"
  /\ ran' = RunAll(code, InitialMemory)
  /\ phase' = "done"
  /\ UNCHANGED <<family, objects, source, size, use, hir, typing, meant, initial, inits, statics, code>>

Next == Start \/ Apply \/ Combine \/ Select \/ Analyze \/ Generate \/ Run

Spec == Init /\ [][Next]_vars

=============================================================================
