---------------------------- MODULE MCExpressions ----------------------------
(***************************************************************************)
(* Families of expressions for TLC, with integers of 2, 4, 8 and 16 bits.  *)
(***************************************************************************)
EXTENDS TranslationProperties

Family(given, operands, unaries, binaries, others) ==
  [given |-> given, operands |-> operands, unary |-> unaries, binary |-> binaries, others |-> others,
   size |-> 1, sides |-> {FALSE}, branches |-> {}, uses |-> {"return"}]

Number(n) == Ast("literal", Lit("Int", n), Void, <<>>)
Of(t, n)  == Ast("cast", 0, t, <<Number(n)>>)
Variable(t, n) == Object(t, Scalar(Of(t, n)))
Literally(n) == Constant(Number(n))
Symbol(i, t) == Ast("id", i, t, <<>>)
Given(i, t)  == Constant(Symbol(i, t))
Obj(t, init) == [t |-> t, init |-> init]
Numbers(list) == List([i \in DOMAIN list |-> Scalar(Number(list[i]))])

Op(o)     == [o |-> o, v |-> 0, t |-> Void, before |-> <<>>]
CastTo(t) == [o |-> "cast", v |-> 0, t |-> t, before |-> <<>>]
Field(o, k) == [o |-> o, v |-> k, t |-> Void, before |-> <<>>]
CallOf(i, t) == [o |-> "call", v |-> 0, t |-> Void, before |-> <<Symbol(i, t)>>]
Ops(names)  == {Op(o) : o \in names}
Bin(names)  == {[o |-> o, v |-> 0] : o \in names}
Compound(names) == {[o |-> "compound", v |-> o] : o \in names}

I == Int_(TRUE)
C == Char(TRUE)
PI == Pointer(I)
Arithmetics == IntegerOps \cup MulOps \cup AddOps

\* every operator on every pair of types, variable or constant
Wide ==
  LET types == {C, Char(FALSE), I, Int_(FALSE), Long(TRUE), Bool}
      of(values) == UNION {{Variable(t, n), Constant(Of(t, n))} : t \in types, n \in values}
  IN Family(<<>>, of({0 - 1, 2}), Ops(UnaryOps),
            Bin(Arithmetics \cup Comparisons \cup LogicalOps \cup {"assign", "comma"}) \cup Compound(Arithmetics),
            of({3}))

Deep == [Family(<<>>, {Variable(I, 3), Constant(Of(Char(FALSE), 2))},
            Ops({"neg", "bnot", "not", "postinc"}) \cup {CastTo(C), CastTo(Double), CastTo(Bool)},
            Bin({"sub", "shr", "lt", "land", "assign", "div"}) \cup Compound({"add", "mul"}),
            {Variable(Long(FALSE), 5), Constant(Of(I, 0 - 2)), Constant(Of(I, 0)), Constant(Of(Double, 2))})
   EXCEPT !.size = 2, !.sides = BOOLEAN, !.uses = {"return", "if"}]

Pointers ==
  [Family(<<Obj(I, Scalar(Number(1))),
            Obj(Array(I, 2), Numbers(<<1, 2>>)),
            Obj(PI, Scalar(Ast("addr", 0, Void, <<Symbol(1, I)>>))),
            Obj(Pointer(Void), Scalar(Number(0))),
            Obj(Pointer(C), Scalar(Number(0)))>>,
          {Given(1, I), Given(2, Array(I, 2)), Given(3, PI), Given(4, Pointer(Void)), Given(5, Pointer(C)), Literally(0)},
          Ops(UnaryOps) \cup {CastTo(Pointer(C)), CastTo(Long(TRUE)), CastTo(Bool), CastTo(Double)},
          Bin({"add", "sub", "mul", "eq", "lt", "land", "assign", "comma", "index"}) \cup Compound({"add", "sub"}),
          {Given(1, I), Given(3, PI), Given(4, Pointer(Void)), Given(5, Pointer(C)), Literally(0), Literally(1)})
   EXCEPT !.sides = BOOLEAN, !.uses = {"return", "if"}]
Elements ==
  [Pointers EXCEPT !.size = 2, !.operands = {Given(2, Array(I, 2)), Given(3, PI)},
                   !.unary = Ops({"deref", "addr", "not", "sizeof", "postinc"}) \cup {CastTo(Pointer(C))},
                   !.binary = Bin({"add", "eq", "assign", "index"}) \cup Compound({"add"}),
                   !.others = {Given(3, PI), Literally(1), Given(5, Pointer(C))}]

P2 == Struct(<<C, I>>)
U  == Union(<<I, C>>)
S3 == Struct(<<P2, I>>)
Aggregates ==
  [Family(<<Obj(P2, Numbers(<<1, 2>>)), Obj(U, Numbers(<<3>>)), Obj(S3, Numbers(<<1, 2, 3>>)),
      Obj(Array(P2, 2), Numbers(<<1, 2, 1, 3>>)), Obj(Pointer(P2), Scalar(Ast("addr", 0, Void, <<Symbol(1, P2)>>))), Obj(Array(Double, 2), Numbers(<<1, 2>>))>>,
     {Given(1, P2), Given(2, U), Given(3, S3), Given(4, Array(P2, 2)), Given(5, Pointer(P2)), Given(6, Array(Double, 2))},
     {Field("member", 1), Field("member", 2), Field("arrow", 1), Field("arrow", 2)} \cup Ops({"addr", "deref", "sizeof", "postinc", "neg"}),
     Bin({"index", "assign", "comma", "eq"}) \cup Compound({"add"}),
     {Literally(1), Given(1, P2)}) EXCEPT !.size = 2, !.uses = {"return", "if"}]

Calls ==
  LET one == Function(<<I>>, FALSE, I)
      two == Function(<<C, Double>>, FALSE, Double)
      variadic == Function(<<C>>, TRUE, I)
      none == Function(<<Void>>, FALSE, I)
      unknown == Function(<<>>, FALSE, Void)
      second(t) == [CallOf(0, t) EXCEPT !.before = @ \o <<Of(I, 2)>>]
  IN [Family(<<>>, {Variable(C, 0 - 1), Variable(Long(FALSE), 7), Variable(Float, 1), Constant(Of(I, 5)), Constant(Of(Double, 1))},
             {CallOf(0, one), CallOf(0, none), CallOf(0, unknown), CallOf(0, variadic), second(two), second(variadic), second(one)},
             Bin({"sub", "assign"}), {Variable(I, 1)}) EXCEPT !.size = 2, !.sides = BOOLEAN]

Branching ==
  [Family(<<Obj(Array(C, 2), Numbers(<<0, 1>>)), Obj(Pointer(C), Scalar(Symbol(1, Array(C, 2)))), Obj(Pointer(Void), Scalar(Number(0)))>>,
          {Variable(C, 0 - 1), Constant(Of(Int_(FALSE), 2)), Given(2, Pointer(C)), Given(3, Pointer(Void)), Literally(0)},
          Ops({"postinc", "preinc", "deref", "not"}), Bin({"land", "index"}), {Constant(Of(I, 0))})
   EXCEPT !.size = 2,
          !.branches = {Variable(C, 0 - 2), Constant(Of(Long(TRUE), 1)), Given(2, Pointer(C)), Given(3, Pointer(Void)), Literally(0)}]

\* places with effects, under &&
Places ==
  [Family(<<Obj(Array(C, 2), Numbers(<<0, 1>>)), Obj(Pointer(C), Scalar(Symbol(1, Array(C, 2))))>>,
          {Given(2, Pointer(C))}, Ops({"postinc", "deref", "preinc"}), Bin({"land"}) \cup Compound({"add"}), {Constant(Of(I, 0))})
   EXCEPT !.size = 4, !.sides = BOOLEAN]

\* Initialisers of at most three elements, some in braces of their own; scalars for arrays
\* of char; addresses with and without braces
Flat(n) == Numbers([i \in 1..n |-> i])
Lists == {Scalar(Number(1))} \cup {Flat(n) : n \in 0..4}
           \cup {List(parts) : parts \in UNION {[1..n -> {Scalar(Number(2)), Flat(1), Flat(2)}] : n \in 1..3}}
Addresses == {Ast("addr", 0, Void, <<Symbol(1, P2)>>), Ast("addr", 0, Void, <<Ast("member", 2, Void, <<Symbol(1, P2)>>)>>)}
Letter == Ast("literal", Lit("Char", 1), Void, <<>>)
Objects ==
  Family(<<Obj(P2, Numbers(<<1, 2>>))>>,
         {Object(t, init) : init \in Lists,
            t \in {I, Bool, Array(I, 2), P2, U, S3, Struct(<<C, I, C>>), Array(P2, 2), Array(Array(C, 2), 2),
                   Struct(<<Array(C, 2), I>>), Struct(<<U, C>>), Union(<<Array(C, 2), I>>)}}
           \cup {Object(t, Scalar(x)) : t \in {Pointer(I), Pointer(C), Pointer(P2), Double, Char(FALSE), P2},
                   x \in {Number(0), Of(I, 0), Of(Pointer(Void), 0), Of(C, 0 - 1), Of(Double, 1), Symbol(1, P2)} \cup Addresses}
           \cup {Object(Array(t, n), Scalar(x)) : t \in {C, Char(FALSE)}, n \in {1, 2, 8},
                   x \in {Number(1), Letter, Of(C, 1), Symbol(1, P2)} \cup Addresses}
           \cup {Object(t, List(parts)) : t \in {Pointer(P2), Struct(<<Pointer(P2), C>>), Array(Pointer(P2), 2)},
                   parts \in UNION {[1..n -> {Scalar(x) : x \in {Number(0), Of(I, 0), Of(Pointer(Void), 0), Letter} \cup Addresses}] : n \in 1..2}},
         {}, {}, {})

MCFamilies == {Wide, Deep, Pointers, Elements, Aggregates, Calls, Branching, Places, Objects}
=============================================================================
