------------------------------- MODULE Layout -------------------------------
(***************************************************************************)
(* Sizes, alignments and member offsets of parser/arch/mod.rs, the IR type *)
(* that stands for a type (parser/data/mod.rs), and memory as bytes of     *)
(* CHAR_BIT bits, the least significant first.                             *)
(***************************************************************************)
EXTENDS Types, Sequences, FiniteSets, SequencesExt

RECURSIVE sizeof(_), alignof(_)

\* StructType::align
MaxAlign(types) == FoldLeft(LAMBDA max, t : IF alignof(t) > max THEN alignof(t) ELSE max, 0, types)

RoundUp(offset, align) == IF offset % align = 0 THEN offset ELSE offset + align - (offset % align)

next_offset(current, t) == RoundUp(current, alignof(t)) + sizeof(t)

\* StructType::offset of member number k: where the member before it ends
struct_offset(types, k) == FoldLeft(next_offset, 0, SubSeq(types, 1, k - 1))

sizeof(t) ==
  CASE t.k = "array"  -> sizeof(t.of) * t.n
    [] t.k = "struct" -> RoundUp(FoldLeft(next_offset, 0, t.ms), MaxAlign(t.ms))
    [] t.k = "union"  -> FoldLeft(LAMBDA max, u : IF sizeof(u) > max THEN sizeof(u) ELSE max, 1, t.ms)
    [] OTHER          -> ScalarSize(t)

alignof(t) ==
  CASE t.k = "array"             -> alignof(t.of)
    [] t.k \in {"struct", "union"} -> MaxAlign(t.ms)
    [] OTHER                     -> ScalarSize(t)

member_offset(t, k) == IF t.k = "union" THEN 0 ELSE struct_offset(t.ms, k)

-----------------------------------------------------------------------------
(* IR types: the width of an integer, the negated width of a float, and    *)
(* INVALID for what cannot be loaded.                                      *)

INVALID  == 0
I8       == CHAR_BIT
ptr_type == CHAR_BIT * PTR_SIZE

as_ir_type(t) ==
  CASE is_floating(t)                 -> 0 - CHAR_BIT * ScalarSize(t)
    [] is_integral(t) \/ is_pointer(t) -> CHAR_BIT * ScalarSize(t)
    [] t.k \in {"array", "function"}  -> ptr_type
    [] OTHER                          -> INVALID

Bits(ir) == IF ir < 0 THEN 0 - ir ELSE ir

-----------------------------------------------------------------------------
(* Machine words and memory *)

Wrap(n, bits) == n % (2 ^ bits)
Signed(n, bits) == LET u == Wrap(n, bits) IN IF u >= 2 ^ (bits - 1) THEN u - 2 ^ bits ELSE u

ToBytes(n, size) == [i \in 1..size |-> (n \div (2 ^ (CHAR_BIT * (i - 1)))) % (2 ^ CHAR_BIT)]
FromBytes(bytes) == FoldRight(LAMBDA byte, rest : byte + rest * (2 ^ CHAR_BIT), bytes, 0)

SizeOfIR(ir) == Bits(ir) \div CHAR_BIT
Mapped(mem, address, size) == address..(address + size - 1) \subseteq DOMAIN mem
Peek(mem, address, size) == [i \in 1..size |-> mem[address + i - 1]]
Poke(mem, address, bytes) ==
  [x \in DOMAIN mem |-> IF x \in address..(address + Len(bytes) - 1) THEN bytes[x - address + 1] ELSE mem[x]]

\* what a load of type ir yields and what a store writes; a float is a small integer
Load(mem, address, ir) ==
  LET n == FromBytes(Peek(mem, address, SizeOfIR(ir))) IN IF ir < 0 THEN Signed(n, Bits(ir)) ELSE n
Store(mem, address, ir, n) == Poke(mem, address, ToBytes(Wrap(n, Bits(ir)), SizeOfIR(ir)))

=============================================================================
