-------------------------- MODULE LoweringProofs --------------------------
(***************************************************************************)
(* Proofs about the statement compiler, for every program: its variables   *)
(* keep their types, current_block_state tells whether the current block   *)
(* is terminated, and a break always finds the switch it leaves.  Loops,   *)
(* switches and last_saw_loop are those of the source around the statement *)
(* that is compiled, and break is accepted exactly inside one.             *)
(***************************************************************************)
EXTENDS Lowering, FiniteSetTheorems, SequenceTheorems, TLAPS

(***************************************************************************)
(* The builder.  Good is what the compiler relies on between operations;   *)
(* Loose is what is left while a terminator has been inserted and the next *)
(* block is not open yet; an Untouched block can still be opened.          *)
(***************************************************************************)

Straight(bl) ==
  \A k \in 1..Len(bl.code) : \A i \in 1..Len(bl.code[k]) - 1 : ~Terminates(bl.code[k][i])
Builder(I)   == [code : Seq(Seq(I)), cur : Block, filled : BOOLEAN]
Loose(bl, I) == bl \in Builder(I) /\ bl.cur \in 1..Len(bl.code) /\ Straight(bl)
Good(bl, I)  == Loose(bl, I) /\ (bl.filled <=> Ended(bl.code[bl.cur]))
Untouched(bl, k) == k \in 1..Len(bl.code) /\ k # bl.cur /\ bl.code[k] = <<>>

\* A builder with a field replaced.
LEMMA Replaced ==
  ASSUME NEW C, NEW D, NEW bl \in [code : C, cur : D, filled : BOOLEAN], NEW x
  PROVE  /\ [bl EXCEPT !.code = x] = [code |-> x, cur |-> bl.cur, filled |-> bl.filled]
         /\ [bl EXCEPT !.cur = x] = [code |-> bl.code, cur |-> x, filled |-> bl.filled]
         /\ [bl EXCEPT !.filled = x] = [code |-> bl.code, cur |-> bl.cur, filled |-> x]
OBVIOUS

\* A well-formed builder with a field replaced.
LEMMA ReplacedIn ==
  ASSUME NEW I, NEW bl \in Builder(I), NEW x
  PROVE  /\ [bl EXCEPT !.code = x] = [code |-> x, cur |-> bl.cur, filled |-> bl.filled]
         /\ [bl EXCEPT !.cur = x] = [code |-> bl.code, cur |-> x, filled |-> bl.filled]
         /\ [bl EXCEPT !.filled = x] = [code |-> bl.code, cur |-> bl.cur, filled |-> x]
<1> DEFINE C == Seq(Seq(I))
<1>1. bl \in [code : C, cur : Block, filled : BOOLEAN]
      BY DEF Builder
<1> HIDE DEF C
<1> QED  BY <1>1, Replaced, ZenonT(40)

\* What an instruction does to the builder: it goes to the end of the current block.
LEMMA InsLemma ==
  ASSUME NEW I, NEW bl, Good(bl, I), ~bl.filled, NEW ins \in I
  PROVE  /\ Loose(Ins(bl, ins), I)
         /\ Ins(bl, ins).cur = bl.cur /\ Ins(bl, ins).filled = FALSE
         /\ Len(Ins(bl, ins).code) = Len(bl.code)
         /\ \A k : Untouched(bl, k) => Untouched(Ins(bl, ins), k)
         /\ Ended(Ins(bl, ins).code[bl.cur]) <=> Terminates(ins)
<1> DEFINE block == bl.code[bl.cur]
           new   == Append(block, ins)
           code  == [bl.code EXCEPT ![bl.cur] = new]
<1>1. /\ bl.code \in Seq(Seq(I)) /\ bl.cur \in 1..Len(bl.code) /\ Len(bl.code) \in Nat
      /\ bl.filled \in BOOLEAN /\ bl.cur \in Block
      BY LenProperties DEF Good, Loose, Builder
<1>2. block \in Seq(I) /\ Len(block) \in Nat
      BY <1>1, ElementOfSeq, LenProperties
<1>3. /\ new \in Seq(I) /\ new # <<>> /\ Len(new) = Len(block) + 1
      /\ \A i \in 1..Len(block) : new[i] = block[i]
      /\ new[Len(new)] = ins
      BY <1>2, AppendProperties
<1>4. /\ code \in Seq(Seq(I)) /\ Len(code) = Len(bl.code)
      /\ \A j \in 1..Len(bl.code) : code[j] = IF j = bl.cur THEN new ELSE bl.code[j]
      BY <1>1, <1>3, ExceptSeq
<1>5. Ins(bl, ins) = [code |-> code, cur |-> bl.cur, filled |-> bl.filled]
  <2>1. Ins(bl, ins) = [bl EXCEPT !.code = code]
        BY DEF Ins
  <2>2. bl \in Builder(I)
        BY DEF Good, Loose
  <2> HIDE DEF code
  <2> QED  BY <2>1, <2>2, ReplacedIn
<1>6. \A i \in 1..Len(block) : ~Terminates(block[i])
  <2>1. \A i \in 1..Len(block) - 1 : ~Terminates(block[i])
        BY <1>1 DEF Good, Loose, Straight
  <2>2. block = <<>> \/ ~Terminates(block[Len(block)])
        BY DEF Good, Ended
  <2> QED  BY <2>1, <2>2, <1>2, EmptySeq
<1>7. Straight(Ins(bl, ins))
  <2>1. ASSUME NEW k \in 1..Len(bl.code), NEW i \in 1..Len(code[k]) - 1
        PROVE  ~Terminates(code[k][i])
    <3>1. CASE k = bl.cur
          BY <3>1, <1>2, <1>3, <1>4, <1>6
    <3>2. CASE k # bl.cur
          BY <3>2, <1>4 DEF Good, Loose, Straight
    <3> QED  BY <3>1, <3>2
  <2> QED  BY <2>1, <1>4, <1>5 DEF Straight
<1>8. \A k : Untouched(bl, k) => Untouched(Ins(bl, ins), k)
      BY <1>1, <1>4, <1>5 DEF Untouched
<1>9. Ended(code[bl.cur]) <=> Terminates(ins)
      BY <1>1, <1>3, <1>4, SMTT(20) DEF Ended
<1> HIDE DEF code, new, block
<1>10. Loose(Ins(bl, ins), I)
      BY <1>1, <1>4, <1>5, <1>7 DEF Loose, Builder
<1> QED  BY <1>4, <1>5, <1>8, <1>9, <1>10

\* A terminator, with current_block_state set beside it.
LEMMA CloseLemma ==
  ASSUME NEW I, NEW bl, Good(bl, I), ~bl.filled, NEW ins \in I, Terminates(ins)
  PROVE  /\ Good([Ins(bl, ins) EXCEPT !.filled = TRUE], I)
         /\ Len([Ins(bl, ins) EXCEPT !.filled = TRUE].code) = Len(bl.code)
         /\ [Ins(bl, ins) EXCEPT !.filled = TRUE].cur = bl.cur
         /\ \A k : Untouched(bl, k) => Untouched([Ins(bl, ins) EXCEPT !.filled = TRUE], k)
<1>1. Ins(bl, ins) \in Builder(I)
      BY InsLemma DEF Loose
<1>2. [Ins(bl, ins) EXCEPT !.filled = TRUE]
        = [code |-> Ins(bl, ins).code, cur |-> Ins(bl, ins).cur, filled |-> TRUE]
      BY <1>1, ReplacedIn
<1> DEFINE r == Ins(bl, ins)
           s == [r EXCEPT !.filled = TRUE]
<1>3. /\ Loose(r, I) /\ r.cur = bl.cur /\ Len(r.code) = Len(bl.code)
      /\ \A k : Untouched(bl, k) => Untouched(r, k)
      /\ Ended(r.code[bl.cur])
      BY InsLemma
<1>4. s.code = r.code /\ s.cur = r.cur /\ s.filled = TRUE /\ s \in Builder(I)
      BY <1>1, <1>2 DEF Builder
<1> HIDE DEF r, s
<1>5. Good(s, I)
      BY <1>3, <1>4 DEF Good, Loose, Straight
<1>6. \A k : Untouched(r, k) => Untouched(s, k)
      BY <1>4 DEF Untouched
<1> QED  BY <1>3, <1>4, <1>5, <1>6 DEF r, s

\* An instruction that is no terminator keeps the builder as it should be.
LEMMA RunLemma ==
  ASSUME NEW I, NEW bl, Good(bl, I), ~bl.filled, NEW ins \in I, ~Terminates(ins)
  PROVE  /\ Good(Ins(bl, ins), I) /\ ~Ins(bl, ins).filled
         /\ Len(Ins(bl, ins).code) = Len(bl.code)
         /\ \A k : Untouched(bl, k) => Untouched(Ins(bl, ins), k)
<1>1. Loose(Ins(bl, ins), I) /\ Ins(bl, ins).cur = bl.cur /\ ~Ins(bl, ins).filled
      /\ Len(Ins(bl, ins).code) = Len(bl.code) /\ ~Ended(Ins(bl, ins).code[bl.cur])
      BY InsLemma
<1>2. \A k : Untouched(bl, k) => Untouched(Ins(bl, ins), k)
      BY InsLemma
<1> QED  BY <1>1, <1>2 DEF Good

\* jump_to_block: nothing where the block is filled already.
LEMMA JumpLemma ==
  ASSUME NEW I, NEW bl, Good(bl, I), NEW t, Jump(t) \in I
  PROVE  /\ Good(JumpToBlock(bl, t), I) /\ JumpToBlock(bl, t).cur = bl.cur
         /\ Len(JumpToBlock(bl, t).code) = Len(bl.code)
         /\ \A k : Untouched(bl, k) => Untouched(JumpToBlock(bl, t), k)
<1>1. Terminates(Jump(t))
      BY DEF Terminates, Jump, Instr
<1>2. bl.filled \in BOOLEAN
      BY DEF Good, Loose, Builder
<1> QED  BY <1>1, <1>2, CloseLemma DEF JumpToBlock

\* switch_to_block: what is opened is empty.
LEMMA SwitchLemma ==
  ASSUME NEW I, NEW bl, Loose(bl, I), NEW k, Untouched(bl, k)
  PROVE  /\ Good(SwitchToBlock(bl, k), I) /\ ~SwitchToBlock(bl, k).filled
         /\ Len(SwitchToBlock(bl, k).code) = Len(bl.code)
         /\ \A j : Untouched(bl, j) /\ j # k => Untouched(SwitchToBlock(bl, k), j)
<1>3. k \in Block
      BY LenProperties DEF Untouched, Block, Loose, Builder
<1>1. SwitchToBlock(bl, k) = [code |-> bl.code, cur |-> k, filled |-> FALSE]
  <2> DEFINE m == [bl EXCEPT !.cur = k]
  <2>1. m = [code |-> bl.code, cur |-> k, filled |-> bl.filled]
        BY ReplacedIn DEF Loose
  <2>2. SwitchToBlock(bl, k) = [m EXCEPT !.filled = FALSE]
        BY <2>1 DEF SwitchToBlock, Loose, Builder
  <2>3. m \in Builder(I)
        BY <2>1, <1>3 DEF Loose, Builder
  <2> HIDE DEF m
  <2> QED  BY <2>1, <2>2, <2>3, ReplacedIn
<1>2. ~Ended(bl.code[k])
      BY DEF Ended, Untouched
<1> QED  BY <1>1, <1>2, <1>3 DEF Good, Loose, Straight, Untouched, Builder

\* The new blocks are untouched, the others as they were.
LEMMA CreateLemma ==
  ASSUME NEW I, NEW bl, Good(bl, I), NEW n \in Nat
  PROVE  /\ Good(CreateBlocks(bl, n), I)
         /\ CreateBlocks(bl, n).cur = bl.cur /\ CreateBlocks(bl, n).filled = bl.filled
         /\ Len(CreateBlocks(bl, n).code) = Len(bl.code) + n
         /\ \A k : Untouched(bl, k) => Untouched(CreateBlocks(bl, n), k)
         /\ \A i \in 1..n : Untouched(CreateBlocks(bl, n), Fresh(bl, i))
         /\ \A i \in 1..n : ~Untouched(bl, Fresh(bl, i))
<1> DEFINE new  == [i \in 1..n |-> <<>>]
           code == bl.code \o new
<1>1. /\ bl.code \in Seq(Seq(I)) /\ bl.cur \in 1..Len(bl.code) /\ Len(bl.code) \in Nat
      /\ bl.filled \in BOOLEAN /\ bl.cur \in Block
      BY LenProperties DEF Good, Loose, Builder
<1>0. Len(bl.code) \in Nat
      BY <1>1
<1>2. new \in Seq(Seq(I)) /\ Len(new) = n /\ \A i \in 1..n : new[i] = <<>>
  <2>1. <<>> \in Seq(I)
        BY EmptySeq
  <2>2. new \in [1..n -> Seq(I)]
        BY <2>1
  <2>3. new \in Seq(Seq(I)) /\ Len(new) = n
        BY <2>2, SeqDef, LenProperties
  <2> QED  BY <2>3
<1>3. /\ code \in Seq(Seq(I)) /\ Len(code) = Len(bl.code) + n
      /\ \A i \in 1..Len(bl.code) : code[i] = bl.code[i]
      /\ \A i \in Len(bl.code) + 1..Len(bl.code) + n : code[i] = <<>>
  <2> HIDE DEF new
  <2>1. \A i \in 1..Len(bl.code) + n : code[i] = IF i <= Len(bl.code) THEN bl.code[i] ELSE new[i - Len(bl.code)]
        BY <1>1, <1>2, ConcatProperties
  <2>2. code \in Seq(Seq(I)) /\ Len(code) = Len(bl.code) + n
        BY <1>1, <1>2, ConcatProperties
  <2> HIDE DEF code
  <2>3. ASSUME NEW i \in Len(bl.code) + 1..Len(bl.code) + n
        PROVE  code[i] = <<>>
    <3>1. i - Len(bl.code) \in 1..n /\ ~(i <= Len(bl.code)) /\ i \in 1..Len(bl.code) + n
          BY <1>1
    <3> QED  BY <3>1, <2>1, <1>2
  <2>4. ASSUME NEW i \in 1..Len(bl.code)
        PROVE  code[i] = bl.code[i]
    <3>1. i \in 1..Len(bl.code) + n /\ i <= Len(bl.code)
          BY <1>0
    <3> QED  BY <3>1, <2>1
  <2> QED  BY <2>2, <2>3, <2>4
<1>4. CreateBlocks(bl, n) = [code |-> code, cur |-> bl.cur, filled |-> bl.filled]
  <2>1. CreateBlocks(bl, n) = [bl EXCEPT !.code = code]
        BY Zenon DEF CreateBlocks
  <2>2. bl \in Builder(I)
        BY DEF Good, Loose
  <2> HIDE DEF code
  <2> QED  BY <2>1, <2>2, ReplacedIn
<1> HIDE DEF code, new
<1>5. Straight(CreateBlocks(bl, n))
  <2>1. ASSUME NEW k \in 1..Len(bl.code) + n, NEW i \in 1..Len(code[k]) - 1
        PROVE  ~Terminates(code[k][i])
    <3>1. CASE k \in 1..Len(bl.code)
          BY <3>1, <1>3 DEF Good, Loose, Straight
    <3>2. CASE k \in Len(bl.code) + 1..Len(bl.code) + n
          BY <3>2, <1>3
    <3> QED  BY <3>1, <3>2, <1>1
  <2>2. CreateBlocks(bl, n).code = code
        BY <1>4
  <2> DEFINE after == CreateBlocks(bl, n)
  <2>3. \A k \in 1..Len(after.code) : \A i \in 1..Len(after.code[k]) - 1 :
           ~Terminates(after.code[k][i])
        BY <2>1, <2>2, <1>3
  <2> HIDE DEF after
  <2>4. Straight(after)
        BY <2>3, Zenon DEF Straight
  <2> QED  BY <2>4 DEF after
<1>6. Good(CreateBlocks(bl, n), I)
      BY <1>1, <1>3, <1>4, <1>5 DEF Good, Loose, Builder
<1> DEFINE after == CreateBlocks(bl, n)
<1>7. after.code = code /\ after.cur = bl.cur /\ after.filled = bl.filled
      BY <1>4
<1> HIDE DEF after
<1>8. ASSUME NEW k, Untouched(bl, k)
      PROVE  Untouched(after, k)
  <2>1. k \in 1..Len(bl.code) /\ k # bl.cur /\ bl.code[k] = <<>>
        BY <1>8 DEF Untouched
  <2>2. k \in 1..Len(code) /\ code[k] = <<>>
    <3>1. k \in 1..Len(bl.code) + n
          BY <1>0, <2>1
    <3> QED  BY <1>3, <2>1, <3>1
  <2> QED  BY <1>7, <2>1, <2>2 DEF Untouched
<1>9. ASSUME NEW i \in 1..n
      PROVE  Untouched(after, Fresh(bl, i)) /\ ~Untouched(bl, Fresh(bl, i))
  <2> DEFINE k == Len(bl.code) + i
  <2>1. k \in Len(bl.code) + 1..Len(bl.code) + n /\ k \notin 1..Len(bl.code)
        BY <1>1
  <2>2. k \in 1..Len(bl.code) + n /\ k # bl.cur
        BY <1>1, <2>1
  <2>3. k \in 1..Len(code) /\ code[k] = <<>>
        BY <1>3, <2>1, <2>2
  <2> HIDE DEF k
  <2>4. Untouched(after, k) /\ ~Untouched(bl, k)
        BY <1>7, <2>1, <2>2, <2>3 DEF Untouched
  <2> QED  BY <2>4 DEF Fresh, k
<1> QED  BY <1>3, <1>6, <1>7, <1>8, <1>9 DEF after

-----------------------------------------------------------------------------
(***************************************************************************)
(* The call stack.  Pending are the blocks a task is going to open.  Stack *)
(* holds of a call stack s beside the blocks U that can be opened, the     *)
(* switches sw and last_saw_loop: every block that is to be opened is in U *)
(* and has one owner, and the open switches are those of the stack.        *)
(***************************************************************************)

Plain == {"stmt", "post", "for"}

Width(op) == IF op \in Plain \cup {"endFunction"} THEN 0
             ELSE IF op \in {"endIf", "endElse", "endSwitch"} THEN 1
             ELSE IF op \in {"else", "endWhile"} THEN 2 ELSE 3

Opens(op) == IF op \in Plain \cup {"endFunction"} THEN {}
             ELSE IF op \in {"endIf", "endElse", "endSwitch"} THEN {1}
             ELSE IF op = "else" THEN {1, 2}
             ELSE IF op = "endWhile" THEN {2} ELSE {2, 3}

Pending(t) == {t.blk[j] : j \in Opens(t.op)}

TaskOK(t, p) ==
  /\ t \in Tasks
  /\ Len(t.blk) = Width(t.op)
  /\ \A i, j \in Opens(t.op) : i # j => t.blk[i] # t.blk[j]
  /\ t.op # "endFunction" => t.node \in DOMAIN p.node
  /\ t.op = "else" => Len(p.node[t.node].kids) = 2
  /\ t.op = "for" => p.node[t.node].kind = "for"

Frames(s, p) ==
  /\ s \in Seq(Tasks)
  /\ \A i \in 1..Len(s) : TaskOK(s[i], p)
  /\ \A i \in 1..Len(s) : s[i].op = "endFunction" => i = Len(s)

Reserved(s, U, sw) ==
  /\ \A i \in 1..Len(s) : Pending(s[i]) \subseteq U
  /\ \A i, j \in 1..Len(s) : i # j => Pending(s[i]) \cap Pending(s[j]) = {}
  /\ \A i \in 1..Len(sw) : sw[i].end \in U
  /\ \A i, j \in 1..Len(sw) : i # j => sw[i].end # sw[j].end
  /\ \A i \in 1..Len(s) : \A j \in 1..Len(sw) : sw[j].end \notin Pending(s[i])

\* h[i] is how many switches are open around task i
Depths(s, n, saw, h) ==
  /\ h \in [1..Len(s) + 1 -> Nat]
  /\ h[1] = n /\ h[Len(s) + 1] = 0
  /\ ~saw => n > 0
  /\ \A i \in 1..Len(s) :
       /\ h[i] = IF s[i].op = "endSwitch" THEN h[i + 1] + 1 ELSE h[i + 1]
       /\ IsOpen(s[i]) /\ ~s[i].flag => h[i + 1] > 0

Nested(s, n, saw) == \E h : Depths(s, n, saw, h)

Stack(s, U, sw, saw, p) == Frames(s, p) /\ Reserved(s, U, sw) /\ Nested(s, Len(sw), saw)

NoFor(s) == \A i \in 1..Len(s) : s[i].op # "for"

\* the loop of a for is entered right after its init statement, and that
\* statement does not leave the block
Initial(t, p)         == t.op = "stmt" /\ p.node[t.node].kind \in {"expr", "decl"}
Waiting(s, filled, p) ==
  \A i \in 1..Len(s) :
    s[i].op = "for" => ~filled /\ (i = 1 \/ (i = 2 /\ Initial(s[1], p)))

\* A stack below its top.
LEMMA TailOf ==
  ASSUME NEW S, NEW s \in Seq(S), s # <<>>
  PROVE  /\ Head(s) = s[1] /\ Tail(s) \in Seq(S)
         /\ Len(s) \in Nat \ {0} /\ Len(Tail(s)) = Len(s) - 1
         /\ \A i \in 1..Len(Tail(s)) : Tail(s)[i] = s[i + 1] /\ i + 1 \in 1..Len(s)
         /\ 1 \in 1..Len(s)
<1>1. Len(s) \in Nat \ {0}
      BY EmptySeq
<1>2. /\ Tail(s) \in Seq(S) /\ Len(Tail(s)) = Len(s) - 1
      /\ \A i \in 1..Len(Tail(s)) : Tail(s)[i] = s[i + 1]
      BY HeadTailProperties
<1>3. Head(s) = s[1]
      BY <1>1
<1> QED  BY <1>1, <1>2, <1>3

\* A stack under more tasks.
LEMMA OnTopOf ==
  ASSUME NEW S, NEW ts \in Seq(S), NEW s \in Seq(S)
  PROVE  /\ ts \o s \in Seq(S) /\ Len(ts) \in Nat /\ Len(s) \in Nat
         /\ Len(ts \o s) = Len(ts) + Len(s)
         /\ \A i \in 1..Len(ts) : (ts \o s)[i] = ts[i]
         /\ \A i \in 1..Len(s) : (ts \o s)[i + Len(ts)] = s[i]
         /\ \A i \in 1..Len(ts \o s) : i \in 1..Len(ts) \/ i - Len(ts) \in 1..Len(s)
<1> DEFINE m == Len(ts)
           n == Len(s)
           r == ts \o s
<1>1. m \in Nat /\ n \in Nat
      BY LenProperties
<1>2. /\ r \in Seq(S) /\ Len(r) = m + n
      /\ \A i \in 1..m + n : r[i] = IF i <= m THEN ts[i] ELSE s[i - m]
      BY ConcatProperties
<1> HIDE DEF m, n, r
<1>3. ASSUME NEW i \in 1..m
      PROVE  r[i] = ts[i]
  <2>1. i \in 1..m + n /\ i <= m
        BY <1>1
  <2> QED  BY <2>1, <1>2
<1>4. ASSUME NEW i \in 1..n
      PROVE  r[i + m] = s[i]
  <2>1. i + m \in 1..m + n /\ ~(i + m <= m) /\ (i + m) - m = i
        BY <1>1
  <2> QED  BY <2>1, <1>2
<1>5. \A i \in 1..m + n : i \in 1..m \/ i - m \in 1..n
      BY <1>1
<1> QED  BY <1>1, <1>2, <1>3, <1>4, <1>5 DEF m, n, r

\* One task is a stack.
LEMMA Single ==
  ASSUME NEW S, NEW t \in S
  PROVE  <<t>> \in Seq(S) /\ Len(<<t>>) = 1 /\ <<t>>[1] = t
OBVIOUS

\* A task that ends takes its blocks with it.
LEMMA PopFrames ==
  ASSUME NEW p, NEW s, s # <<>>, Frames(s, p)
  PROVE  /\ Head(s) = s[1] /\ TaskOK(Head(s), p) /\ Frames(Tail(s), p)
         /\ Head(s).op = "endFunction" => Tail(s) = <<>>
<1>1. s \in Seq(Tasks)
      BY DEF Frames
<1>2. /\ Head(s) = s[1] /\ Tail(s) \in Seq(Tasks)
      /\ Len(s) \in Nat \ {0} /\ Len(Tail(s)) = Len(s) - 1
      /\ \A i \in 1..Len(Tail(s)) : Tail(s)[i] = s[i + 1] /\ i + 1 \in 1..Len(s)
      /\ 1 \in 1..Len(s)
      BY <1>1, TailOf
<1>3. TaskOK(Head(s), p)
      BY <1>2 DEF Frames
<1>4. Frames(Tail(s), p)
  <2>1. ASSUME NEW i \in 1..Len(Tail(s))
        PROVE  /\ TaskOK(Tail(s)[i], p)
               /\ Tail(s)[i].op = "endFunction" => i = Len(Tail(s))
    <3>1. Tail(s)[i] = s[i + 1] /\ i + 1 \in 1..Len(s)
          BY <1>2
    <3>2. TaskOK(s[i + 1], p) /\ (s[i + 1].op = "endFunction" => i + 1 = Len(s))
          BY <3>1 DEF Frames
    <3>3. i + 1 = Len(s) => i = Len(Tail(s))
      <4> DEFINE m == Len(s)
                 l == Len(Tail(s))
      <4>1. m \in Nat /\ l = m - 1 /\ i \in 1..l
            BY <1>2
      <4> HIDE DEF m, l
      <4>2. i + 1 = m => i = l
            BY <4>1
      <4> QED  BY <4>2 DEF m, l
    <3> QED  BY <3>1, <3>2, <3>3
  <2> QED  BY <1>2, <2>1 DEF Frames
<1>5. ASSUME Head(s).op = "endFunction"
      PROVE  Tail(s) = <<>>
  <2>1. Len(s) = 1
        BY <1>2, <1>5 DEF Frames
  <2> QED  BY <1>2, <2>1, EmptySeq
<1> QED  BY <1>2, <1>3, <1>4, <1>5

\* A task that ends leaves the blocks of the other tasks reserved to them.
LEMMA PopReserved ==
  ASSUME NEW p, NEW s, s # <<>>, Frames(s, p), NEW U, NEW sw, Reserved(s, U, sw)
  PROVE  /\ Reserved(Tail(s), U \ Pending(Head(s)), sw)
         /\ Pending(Head(s)) \subseteq U
         /\ \A i \in 1..Len(sw) : sw[i].end \in U \ Pending(Head(s))
<1>1. s \in Seq(Tasks)
      BY DEF Frames
<1>2. /\ Head(s) = s[1]
      /\ Len(s) \in Nat \ {0}
      /\ \A i \in 1..Len(Tail(s)) : Tail(s)[i] = s[i + 1] /\ i + 1 \in 1..Len(s) /\ i + 1 # 1
      /\ 1 \in 1..Len(s)
      BY <1>1, TailOf
<1>3. \A i \in 1..Len(Tail(s)) : Pending(Tail(s)[i]) \subseteq U \ Pending(Head(s))
  <2>1. TAKE i \in 1..Len(Tail(s))
  <2>2. Pending(s[i + 1]) \subseteq U /\ Pending(s[i + 1]) \cap Pending(s[1]) = {}
        BY <1>2 DEF Reserved
  <2> QED  BY <1>2, <2>2
<1>4. ASSUME NEW i \in 1..Len(Tail(s)), NEW j \in 1..Len(Tail(s)), i # j
      PROVE  Pending(Tail(s)[i]) \cap Pending(Tail(s)[j]) = {}
  <2>1. i + 1 # j + 1
        BY <1>4
  <2> QED  BY <1>2, <2>1 DEF Reserved
<1>5. \A i \in 1..Len(sw) : sw[i].end \in U \ Pending(Head(s))
      BY <1>2 DEF Reserved
<1>6. \A i \in 1..Len(Tail(s)) : \A j \in 1..Len(sw) : sw[j].end \notin Pending(Tail(s)[i])
      BY <1>2 DEF Reserved
<1>7. \A i, j \in 1..Len(sw) : i # j => sw[i].end # sw[j].end
      BY DEF Reserved
<1>8. Pending(Head(s)) \subseteq U
      BY <1>2 DEF Reserved
<1> QED  BY <1>3, <1>4, <1>5, <1>6, <1>7, <1>8 DEF Reserved

\* What last_saw_loop and the number of switches are below the top.
LEMMA PopNested ==
  ASSUME NEW p, NEW s, s # <<>>, Frames(s, p), NEW n \in Nat, NEW saw \in BOOLEAN,
         Nested(s, n, saw)
  PROVE  /\ ~IsOpen(Head(s)) => Nested(Tail(s), n, saw)
         /\ Head(s).op \in LoopTasks => Nested(Tail(s), n, Head(s).flag)
         /\ Head(s).op = "endSwitch" => n > 0 /\ Nested(Tail(s), n - 1, Head(s).flag)
<1> DEFINE t == Head(s)
           r == Tail(s)
           m == Len(s)
<1>1. PICK h : Depths(s, n, saw, h)
      BY DEF Nested
<1>2. s \in Seq(Tasks)
      BY DEF Frames
<1>3. /\ t = s[1] /\ m \in Nat \ {0} /\ Len(r) = m - 1
      /\ \A i \in 1..Len(r) : r[i] = s[i + 1] /\ i + 1 \in 1..m
      /\ 1 \in 1..m
      BY <1>2, TailOf
<1> DEFINE g == [i \in 1..m |-> h[i + 1]]
<1>4. /\ h \in [1..m + 1 -> Nat] /\ h[1] = n /\ h[m + 1] = 0
      /\ ~saw => n > 0
      /\ \A i \in 1..m : /\ h[i] = IF s[i].op = "endSwitch" THEN h[i + 1] + 1 ELSE h[i + 1]
                         /\ IsOpen(s[i]) /\ ~s[i].flag => h[i + 1] > 0
      BY <1>1 DEF Depths
<1> HIDE DEF t, r, m
<1>5. /\ g \in [1..m -> Nat] /\ g[1] = h[2] /\ g[m] = 0 /\ h[2] \in Nat
  <2>1. \A i \in 1..m : i + 1 \in 1..m + 1
        BY <1>3
  <2>2. 1 \in 1..m /\ m \in 1..m /\ 2 \in 1..m + 1 /\ 1 + 1 = 2
        BY <1>3
  <2> QED  BY <1>4, <2>1, <2>2
<1>6. \A i \in 1..m - 1 : /\ g[i] = h[i + 1] /\ g[i + 1] = h[(i + 1) + 1] /\ i + 1 \in 1..m
      BY <1>3
<1>7. \A i \in 1..Len(r) :
        /\ g[i] = IF r[i].op = "endSwitch" THEN g[i + 1] + 1 ELSE g[i + 1]
        /\ IsOpen(r[i]) /\ ~r[i].flag => g[i + 1] > 0
  <2>1. TAKE i \in 1..Len(r)
  <2>2. i \in 1..m - 1 /\ i + 1 \in 1..m /\ r[i] = s[i + 1]
        BY <1>3
  <2>3. g[i] = h[i + 1] /\ g[i + 1] = h[(i + 1) + 1]
        BY <1>6, <2>2
  <2> HIDE DEF g
  <2> QED  BY <1>4, <2>2, <2>3
<1>8. (m - 1) + 1 = m
      BY <1>3
<1> HIDE DEF g
<1>9. ASSUME NEW k, NEW v, k = h[2], ~v => k > 0
      PROVE  Nested(r, k, v)
  <2>1. Depths(r, k, v, g)
        BY <1>3, <1>5, <1>7, <1>8, <1>9 DEF Depths
  <2> QED  BY <2>1 DEF Nested
<1>0. 1 \in 1..m /\ s[1] = t /\ 1 + 1 = 2
      BY <1>3
<1>10. h[1] = IF t.op = "endSwitch" THEN h[2] + 1 ELSE h[2]
      BY <1>0, <1>4
<1>11. IsOpen(t) /\ ~t.flag => h[2] > 0
      BY <1>0, <1>4
<1>12. ASSUME ~IsOpen(t)
       PROVE  Nested(r, n, saw)
  <2>1. n = h[2]
        BY <1>4, <1>10, <1>12 DEF IsOpen
  <2> QED  BY <1>4, <1>9, <2>1
<1>13. ASSUME t.op \in LoopTasks
       PROVE  Nested(r, n, t.flag)
  <2>1. n = h[2] /\ IsOpen(t)
        BY <1>4, <1>10, <1>13 DEF IsOpen, LoopTasks
  <2> QED  BY <1>11, <1>9, <2>1
<1>14. ASSUME t.op = "endSwitch"
       PROVE  n > 0 /\ Nested(r, n - 1, t.flag)
  <2>1. IsOpen(t)
        BY <1>14 DEF IsOpen
  <2>2. n = h[2] + 1
        BY <1>4, <1>10, <1>14
  <2>3. n > 0 /\ n - 1 = h[2]
        BY <2>2, <1>5
  <2> QED  BY <1>11, <1>9, <2>1, <2>3
<1> QED  BY <1>12, <1>13, <1>14 DEF t, r

\* A task goes on top.
LEMMA PushFrames ==
  ASSUME NEW p, NEW s, Frames(s, p), NEW ts \in Seq(Tasks),
         \A i \in 1..Len(ts) : TaskOK(ts[i], p) /\ ts[i].op # "endFunction"
  PROVE  Frames(ts \o s, p)
<1> DEFINE r == ts \o s
           m == Len(ts)
           n == Len(s)
<1>1. s \in Seq(Tasks)
      BY DEF Frames
<1>2. /\ r \in Seq(Tasks) /\ m \in Nat /\ n \in Nat /\ Len(r) = m + n
      /\ \A i \in 1..m : r[i] = ts[i]
      /\ \A i \in 1..n : r[i + m] = s[i]
      /\ \A i \in 1..Len(r) : i \in 1..m \/ i - m \in 1..n
      BY <1>1, OnTopOf
<1>3. \A i \in 1..n : TaskOK(s[i], p) /\ (s[i].op = "endFunction" => i = n)
      BY DEF Frames
<1> HIDE DEF r, m, n
<1>4. ASSUME NEW i \in 1..Len(r)
      PROVE  TaskOK(r[i], p) /\ (r[i].op = "endFunction" => i = Len(r))
  <2>1. CASE i \in 1..m
        BY <2>1, <1>2 DEF m
  <2>2. CASE i - m \in 1..n
    <3>1. (i - m) + m = i /\ (i - m = n => i = Len(r))
          BY <1>2
    <3>2. r[i] = s[i - m]
          BY <1>2, <2>2, <3>1
    <3> QED  BY <1>3, <2>2, <3>1, <3>2
  <2> QED  BY <1>2, <2>1, <2>2
<1> QED  BY <1>2, <1>4 DEF Frames, r

\* Its blocks are new, or no longer those of another task.
LEMMA PushReserved ==
  ASSUME NEW p, NEW s, Frames(s, p), NEW U, NEW sw, Reserved(s, U, sw),
         NEW t \in Tasks, Pending(t) \cap U = {}
  PROVE  Reserved(<<t>> \o s, U \cup Pending(t), sw)
<1> DEFINE r == <<t>> \o s
           n == Len(s)
<1>1. s \in Seq(Tasks) /\ <<t>> \in Seq(Tasks) /\ Len(<<t>>) = 1 /\ <<t>>[1] = t
      BY Single DEF Frames
<1>2. /\ n \in Nat /\ Len(r) = 1 + n
      /\ r[1] = t
      /\ \A i \in 1..n : r[i + 1] = s[i]
      /\ \A i \in 1..Len(r) : i \in 1..1 \/ i - 1 \in 1..n
      BY <1>1, OnTopOf
<1>3. /\ \A i \in 1..n : Pending(s[i]) \subseteq U
      /\ \A i, j \in 1..n : i # j => Pending(s[i]) \cap Pending(s[j]) = {}
      /\ \A i \in 1..Len(sw) : sw[i].end \in U
      /\ \A i, j \in 1..Len(sw) : i # j => sw[i].end # sw[j].end
      /\ \A i \in 1..n : \A j \in 1..Len(sw) : sw[j].end \notin Pending(s[i])
      BY DEF Reserved
<1> HIDE DEF r, n
<1>4. \A i \in 1..Len(r) : i = 1 \/ (i - 1 \in 1..n /\ r[i] = s[i - 1])
  <2>1. TAKE i \in 1..Len(r)
  <2>2. i = 1 \/ i - 1 \in 1..n
        BY <1>2
  <2>3. (i - 1) + 1 = i
        BY <1>2
  <2> QED  BY <1>2, <2>2, <2>3
<1>5. \A i \in 1..Len(r) : Pending(r[i]) \subseteq U \cup Pending(t)
      BY <1>2, <1>3, <1>4
<1>6. ASSUME NEW i \in 1..Len(r), NEW j \in 1..Len(r), i # j
      PROVE  Pending(r[i]) \cap Pending(r[j]) = {}
  <2>1. CASE i = 1
    <3>1. j - 1 \in 1..n /\ r[j] = s[j - 1]
          BY <1>4, <1>6, <2>1
    <3> QED  BY <1>2, <1>3, <2>1, <3>1
  <2>2. CASE j = 1
    <3>1. i - 1 \in 1..n /\ r[i] = s[i - 1]
          BY <1>4, <1>6, <2>2
    <3> QED  BY <1>2, <1>3, <2>2, <3>1
  <2>3. CASE i # 1 /\ j # 1
    <3>1. i - 1 \in 1..n /\ r[i] = s[i - 1] /\ j - 1 \in 1..n /\ r[j] = s[j - 1]
          BY <1>4, <2>3
    <3>2. i - 1 # j - 1
          BY <1>6, <1>2
    <3> QED  BY <1>3, <3>1, <3>2
  <2> QED  BY <2>1, <2>2, <2>3
<1>7. ASSUME NEW i \in 1..Len(r), NEW j \in 1..Len(sw)
      PROVE  sw[j].end \notin Pending(r[i])
      BY <1>2, <1>3, <1>4
<1> QED  BY <1>3, <1>5, <1>6, <1>7 DEF Reserved, r

\* A task that opens no block may go on top too.
LEMMA PushPlain ==
  ASSUME NEW p, NEW s, Frames(s, p), NEW U, NEW sw, Reserved(s, U, sw),
         NEW n \in Nat, NEW saw \in BOOLEAN, Nested(s, n, saw),
         NEW ts \in Seq(Tasks),
         \A i \in 1..Len(ts) : TaskOK(ts[i], p) /\ ts[i].op \in Plain
  PROVE  /\ Frames(ts \o s, p) /\ Reserved(ts \o s, U, sw) /\ Nested(ts \o s, n, saw)
<1> DEFINE r == ts \o s
           m == Len(ts)
           k == Len(s)
<1>1. s \in Seq(Tasks)
      BY DEF Frames
<1>2. /\ r \in Seq(Tasks) /\ m \in Nat /\ k \in Nat /\ Len(r) = m + k
      /\ \A i \in 1..m : r[i] = ts[i]
      /\ \A i \in 1..k : r[i + m] = s[i]
      /\ \A i \in 1..Len(r) : i \in 1..m \/ i - m \in 1..k
      BY <1>1, OnTopOf
<1>3. Frames(r, p)
      BY PushFrames DEF Plain
<1> HIDE DEF r
<1>4. \A i \in 1..m : r[i].op \in Plain /\ Pending(r[i]) = {}
  <2>1. \A i \in 1..m : r[i].op \in Plain
        BY <1>2
  <2>2. \A t : t.op \in Plain => Pending(t) = {}
        BY DEF Pending, Opens
  <2> QED  BY <2>1, <2>2
<1> HIDE DEF m, k
<1>5. \A i \in 1..Len(r) : i \in 1..m \/ (i - m \in 1..k /\ r[i] = s[i - m])
  <2>1. TAKE i \in 1..Len(r)
  <2>2. (i - m) + m = i
        BY <1>2
  <2> QED  BY <1>2, <2>2
<1>6. Reserved(r, U, sw)
  <2>1. /\ \A i \in 1..k : Pending(s[i]) \subseteq U
        /\ \A i, j \in 1..k : i # j => Pending(s[i]) \cap Pending(s[j]) = {}
        /\ \A i \in 1..Len(sw) : sw[i].end \in U
        /\ \A i, j \in 1..Len(sw) : i # j => sw[i].end # sw[j].end
        /\ \A i \in 1..k : \A j \in 1..Len(sw) : sw[j].end \notin Pending(s[i])
        BY DEF Reserved, k
  <2>2. ASSUME NEW i \in 1..Len(r), NEW j \in 1..Len(r), i # j
        PROVE  Pending(r[i]) \cap Pending(r[j]) = {}
    <3>1. CASE i \in 1..m \/ j \in 1..m
          BY <1>4, <3>1
    <3>2. CASE i \notin 1..m /\ j \notin 1..m
      <4>1. i - m \in 1..k /\ r[i] = s[i - m] /\ j - m \in 1..k /\ r[j] = s[j - m]
            BY <1>5, <3>2
      <4>2. i - m # j - m
            BY <1>2, <2>2
      <4> QED  BY <2>1, <4>1, <4>2
    <3> QED  BY <3>1, <3>2
  <2>3. \A i \in 1..Len(r) : Pending(r[i]) \subseteq U
        BY <1>4, <1>5, <2>1
  <2>4. \A i \in 1..Len(r) : \A j \in 1..Len(sw) : sw[j].end \notin Pending(r[i])
        BY <1>4, <1>5, <2>1
  <2> QED  BY <2>1, <2>2, <2>3, <2>4 DEF Reserved
<1>7. Nested(r, n, saw)
  <2>1. PICK h : Depths(s, n, saw, h)
        BY DEF Nested
  <2>2. /\ h \in [1..k + 1 -> Nat] /\ h[1] = n /\ h[k + 1] = 0
        /\ ~saw => n > 0
        /\ \A i \in 1..k : /\ h[i] = IF s[i].op = "endSwitch" THEN h[i + 1] + 1 ELSE h[i + 1]
                           /\ IsOpen(s[i]) /\ ~s[i].flag => h[i + 1] > 0
        BY <2>1 DEF Depths, k
  <2> DEFINE g == [i \in 1..(m + k) + 1 |-> IF i <= m THEN n ELSE h[i - m]]
  <2>3. \A i \in 1..m : g[i] = n /\ g[i + 1] = n
    <3>1. TAKE i \in 1..m
    <3>2. i \in 1..(m + k) + 1 /\ i <= m /\ i + 1 \in 1..(m + k) + 1
          BY <1>2
    <3>3. i + 1 <= m \/ (~(i + 1 <= m) /\ (i + 1) - m = 1)
          BY <1>2
    <3> QED  BY <2>2, <3>2, <3>3
  <2>4. \A i \in 1..k + 1 : g[i + m] = h[i]
    <3>1. TAKE i \in 1..k + 1
    <3>2. i + m \in 1..(m + k) + 1 /\ ~(i + m <= m) /\ (i + m) - m = i
          BY <1>2
    <3> QED  BY <3>2
  <2>5. g \in [1..(m + k) + 1 -> Nat]
    <3>1. \A i \in 1..(m + k) + 1 : i <= m \/ i - m \in 1..k + 1
          BY <1>2
    <3> QED  BY <2>2, <3>1
  <2>6. g[1] = n
    <3>1. CASE m = 0
      <4>1. 1 \in 1..k + 1 /\ 1 + m = 1
            BY <1>2, <3>1
      <4> QED  BY <2>2, <2>4, <4>1
    <3>2. CASE m # 0
      <4>1. 1 \in 1..m
            BY <1>2, <3>2
      <4> QED  BY <2>3, <4>1
    <3> QED  BY <3>1, <3>2
  <2>7. g[(m + k) + 1] = 0
    <3>1. k + 1 \in 1..k + 1 /\ (k + 1) + m = (m + k) + 1
          BY <1>2
    <3> QED  BY <2>2, <2>4, <3>1
  <2> HIDE DEF g
  <2>8. ASSUME NEW i \in 1..Len(r)
        PROVE  /\ g[i] = IF r[i].op = "endSwitch" THEN g[i + 1] + 1 ELSE g[i + 1]
               /\ IsOpen(r[i]) /\ ~r[i].flag => g[i + 1] > 0
    <3>1. CASE i \in 1..m
          BY <1>4, <2>3, <3>1 DEF Plain, IsOpen, LoopTasks
    <3>2. CASE i \notin 1..m
      <4>1. i - m \in 1..k /\ r[i] = s[i - m]
            BY <1>5, <3>2
      <4> DEFINE j == i - m
      <4>2. j \in 1..k /\ j \in 1..k + 1 /\ j + 1 \in 1..k + 1 /\ j + m = i /\ (j + 1) + m = i + 1
            BY <4>1, <1>2
      <4> HIDE DEF j
      <4>3. g[i] = h[j] /\ g[i + 1] = h[j + 1] /\ r[i] = s[j]
            BY <2>4, <4>1, <4>2 DEF j
      <4> QED  BY <2>2, <4>2, <4>3
    <3> QED  BY <3>1, <3>2
  <2>9. Depths(r, n, saw, g)
        BY <1>2, <2>2, <2>5, <2>6, <2>7, <2>8 DEF Depths
  <2> QED  BY <2>9 DEF Nested
<1> QED  BY <1>3, <1>6, <1>7 DEF r

\* A loop, a switch or the rest of an if goes on top of what it interrupts.
LEMMA PushNested ==
  ASSUME NEW p, NEW s, Frames(s, p), NEW n \in Nat, NEW saw \in BOOLEAN,
         Nested(s, n, saw), NEW t \in Tasks, IsOpen(t) => t.flag = saw
  PROVE  /\ ~IsOpen(t) => Nested(<<t>> \o s, n, saw)
         /\ t.op \in LoopTasks => Nested(<<t>> \o s, n, TRUE)
         /\ t.op = "endSwitch" => Nested(<<t>> \o s, n + 1, FALSE)
<1> DEFINE r == <<t>> \o s
           k == Len(s)
<1>1. s \in Seq(Tasks) /\ <<t>> \in Seq(Tasks) /\ Len(<<t>>) = 1 /\ <<t>>[1] = t
      BY Single DEF Frames
<1>2. /\ k \in Nat /\ Len(r) = 1 + k
      /\ r[1] = t
      /\ \A i \in 1..k : r[i + 1] = s[i]
      BY <1>1, OnTopOf
<1>3. PICK h : Depths(s, n, saw, h)
      BY DEF Nested
<1>4. /\ h \in [1..k + 1 -> Nat] /\ h[1] = n /\ h[k + 1] = 0
      /\ ~saw => n > 0
      /\ \A i \in 1..k : /\ h[i] = IF s[i].op = "endSwitch" THEN h[i + 1] + 1 ELSE h[i + 1]
                         /\ IsOpen(s[i]) /\ ~s[i].flag => h[i + 1] > 0
      BY <1>3 DEF Depths
<1> HIDE DEF r, k
<1> DEFINE d == IF t.op = "endSwitch" THEN n + 1 ELSE n
           g == [i \in 1..(1 + k) + 1 |-> IF i = 1 THEN d ELSE h[i - 1]]
<1>5. g[1] = d
  <2>1. 1 \in 1..(1 + k) + 1
        BY <1>2
  <2> QED  BY <2>1
<1>6. \A i \in 1..k + 1 : g[i + 1] = h[i]
  <2>1. TAKE i \in 1..k + 1
  <2>2. i + 1 \in 1..(1 + k) + 1 /\ i + 1 # 1 /\ (i + 1) - 1 = i
        BY <1>2
  <2> QED  BY <2>2
<1>7. g \in [1..(1 + k) + 1 -> Nat] /\ d \in Nat
  <2>1. \A i \in 1..(1 + k) + 1 : i = 1 \/ i - 1 \in 1..k + 1
        BY <1>2
  <2>2. d \in Nat
        OBVIOUS
  <2> HIDE DEF d
  <2> QED  BY <1>4, <2>1, <2>2
<1>8. g[(1 + k) + 1] = 0
  <2>1. k + 1 \in 1..k + 1 /\ (k + 1) + 1 = (1 + k) + 1
        BY <1>2
  <2> QED  BY <1>4, <1>6, <2>1
<1> HIDE DEF g
<1>9. ASSUME NEW i \in 1..Len(r)
      PROVE  /\ g[i] = IF r[i].op = "endSwitch" THEN g[i + 1] + 1 ELSE g[i + 1]
             /\ IsOpen(r[i]) /\ ~r[i].flag => g[i + 1] > 0
  <2>1. CASE i = 1
    <3>1. 1 \in 1..k + 1
          BY <1>2
    <3>2. g[1 + 1] = n
          BY <1>4, <1>6, <3>1
    <3>3. g[1] = IF t.op = "endSwitch" THEN g[1 + 1] + 1 ELSE g[1 + 1]
          BY <1>5, <3>2
    <3>4. IsOpen(t) /\ ~t.flag => n > 0
          BY <1>4
    <3> QED  BY <1>2, <2>1, <3>2, <3>3, <3>4
  <2>2. CASE i # 1
    <3> DEFINE j == i - 1
    <3>1. j \in 1..k /\ j \in 1..k + 1 /\ j + 1 \in 1..k + 1 /\ j + 1 = i /\ (j + 1) + 1 = i + 1
          BY <1>2, <2>2
    <3> HIDE DEF j
    <3>2. g[i] = h[j] /\ g[i + 1] = h[j + 1] /\ r[i] = s[j]
          BY <1>2, <1>6, <3>1
    <3> QED  BY <1>4, <3>1, <3>2
  <2> QED  BY <2>1, <2>2
<1> HIDE DEF d
<1>10. ASSUME NEW v, ~v => d > 0
       PROVE  Nested(r, d, v)
  <2>1. Depths(r, d, v, g)
        BY <1>2, <1>5, <1>7, <1>8, <1>9, <1>10 DEF Depths
  <2> QED  BY <2>1 DEF Nested
<1>11. ASSUME ~IsOpen(t)
       PROVE  Nested(r, n, saw)
  <2>1. d = n
        BY <1>11 DEF IsOpen, d
  <2> QED  BY <1>4, <1>10, <2>1
<1>12. ASSUME t.op \in LoopTasks
       PROVE  Nested(r, n, TRUE)
  <2>1. d = n
        BY <1>12 DEF LoopTasks, d
  <2> QED  BY <1>10, <2>1
<1>13. ASSUME t.op = "endSwitch"
       PROVE  Nested(r, n + 1, FALSE)
  <2>1. d = n + 1 /\ d > 0
        BY <1>13 DEF d
  <2> QED  BY <1>10, <2>1
<1> QED  BY <1>11, <1>12, <1>13 DEF r

\* Blocks that are not opened yet may be more, never fewer.
LEMMA MoreBlocks ==
  ASSUME NEW s, NEW U, NEW sw, Reserved(s, U, sw), NEW V, U \subseteq V
  PROVE  Reserved(s, V, sw)
BY DEF Reserved

\* The innermost switch is left, and its end block opened.
LEMMA LeaveSwitch ==
  ASSUME NEW s, NEW U, NEW S, NEW sw \in Seq(S), Reserved(s, U, sw), Len(sw) > 0
  PROVE  /\ SubSeq(sw, 1, Len(sw) - 1) \in Seq(S)
         /\ Len(SubSeq(sw, 1, Len(sw) - 1)) = Len(sw) - 1
         /\ sw[Len(sw)] \in S /\ sw[Len(sw)].end \in U
         /\ Reserved(s, U \ {sw[Len(sw)].end}, SubSeq(sw, 1, Len(sw) - 1))
<1> DEFINE n == Len(sw)
           r == SubSeq(sw, 1, n - 1)
           e == sw[n].end
<1>1. n \in Nat /\ n > 0 /\ \A i \in 1..n : sw[i] \in S
      BY LenProperties, ElementOfSeq
<1>2. n \in 1..n /\ n - 1 \in Int /\ 1 \in Int /\ 1..n - 1 \subseteq 1..n
      BY <1>1
<1>3. \A i \in 1..n - 1 : sw[i] \in S
      BY <1>1, <1>2
<1>4. /\ r \in Seq(S)
      /\ Len(r) = IF 1 <= n - 1 THEN (n - 1) - 1 + 1 ELSE 0
      /\ \A i \in 1..(n - 1) - 1 + 1 : r[i] = sw[1 + i - 1]
      BY <1>2, <1>3, SubSeqProperties
<1>5. Len(r) = n - 1 /\ \A i \in 1..n - 1 : r[i] = sw[i]
  <2> HIDE DEF n, r
  <2>1. (n - 1) - 1 + 1 = n - 1 /\ (~(1 <= n - 1) => n - 1 = 0)
        BY <1>1
  <2>2. \A i \in 1..n - 1 : 1 + i - 1 = i
        BY <1>1
  <2> QED  BY <1>4, <2>1, <2>2
<1>6. /\ \A i \in 1..Len(s) : Pending(s[i]) \subseteq U
      /\ \A i, j \in 1..Len(s) : i # j => Pending(s[i]) \cap Pending(s[j]) = {}
      /\ \A i \in 1..n : sw[i].end \in U
      /\ \A i, j \in 1..n : i # j => sw[i].end # sw[j].end
      /\ \A i \in 1..Len(s) : \A j \in 1..n : sw[j].end \notin Pending(s[i])
      BY DEF Reserved
<1>7. \A i \in 1..n - 1 : i \in 1..n /\ i # n
      BY <1>1
<1> HIDE DEF n, r
<1>8. Reserved(s, U \ {e}, r)
      BY <1>2, <1>5, <1>6, <1>7 DEF Reserved
<1> QED  BY <1>1, <1>2, <1>4, <1>5, <1>6, <1>8 DEF n, r

\* A switch is entered: its end block is new.
LEMMA EnterNewSwitch ==
  ASSUME NEW s, NEW U, NEW S, NEW sw \in Seq(S), Reserved(s, U, sw),
         NEW w \in S, w.end \notin U
  PROVE  Reserved(s, U \cup {w.end}, Append(sw, w))
<1> DEFINE n == Len(sw)
           r == Append(sw, w)
<1>1. /\ n \in Nat /\ Len(r) = n + 1 /\ r[n + 1] = w
      /\ \A i \in 1..n : r[i] = sw[i]
      BY LenProperties, AppendProperties
<1>2. /\ \A i \in 1..Len(s) : Pending(s[i]) \subseteq U
      /\ \A i, j \in 1..Len(s) : i # j => Pending(s[i]) \cap Pending(s[j]) = {}
      /\ \A i \in 1..n : sw[i].end \in U
      /\ \A i, j \in 1..n : i # j => sw[i].end # sw[j].end
      /\ \A i \in 1..Len(s) : \A j \in 1..n : sw[j].end \notin Pending(s[i])
      BY DEF Reserved
<1>3. \A i \in 1..n + 1 : i \in 1..n \/ i = n + 1
      BY <1>1
<1> HIDE DEF n, r
<1>4. \A i \in 1..Len(r) : \/ i \in 1..n /\ r[i] = sw[i] /\ r[i].end \in U
                           \/ i = n + 1 /\ r[i] = w /\ r[i].end \notin U
      BY <1>1, <1>2, <1>3
<1>5. \A i, j \in 1..Len(r) : i # j => r[i].end # r[j].end
      BY <1>2, <1>4
<1>6. \A i \in 1..Len(s) : \A j \in 1..Len(r) : r[j].end \notin Pending(s[i])
      BY <1>2, <1>4
<1>7. \A i \in 1..Len(r) : r[i].end \in U \cup {w.end}
      BY <1>4
<1> QED  BY <1>2, <1>5, <1>6, <1>7 DEF Reserved, r

\* A case or default changes the innermost switch but not where it ends.
LEMMA SameEnds ==
  ASSUME NEW s, NEW U, NEW sw, Reserved(s, U, sw), NEW r, Len(r) = Len(sw),
         \A i \in 1..Len(sw) : r[i].end = sw[i].end
  PROVE  Reserved(s, U, r)
BY DEF Reserved

-----------------------------------------------------------------------------
(***************************************************************************)
(* The inductive invariant.                                                *)
(***************************************************************************)

Instrs    == [op : Ops, node : Nat, to : Seq(Block), cases : Maps]
SwitchSet == [cases : Maps, default : Nat, end : Block]
Free(bl)  == {k \in 1..Len(bl.code) : Untouched(bl, k)}

ContextTypes == loops \in Seq(Block \X Block) /\ switches \in Seq(SwitchSet) /\ sawLoop \in BOOLEAN
ResultTypes  == next \in Nat \ {0} /\ out \in Seq(Code) /\ err \in Errors \cup {"none"}
BuilderOK    == Loose(b, Instrs) /\ (todo # <<>> => Good(b, Instrs))
StackOK      == /\ Frames(todo, prog)
                /\ Reserved(todo, Free(b), switches)
                /\ Nested(todo, Len(switches), sawLoop)
WaitingOK    == Waiting(todo, b.filled, prog)

IInv ==
  /\ prog \in Programs /\ labels \in Maps
  /\ ContextTypes /\ ResultTypes /\ BuilderOK /\ StackOK /\ WaitingOK

\* What the invariant says of the next state, where the program is the same.
LEMMA Conclude ==
  ASSUME IInv, prog' = prog, labels' \in Maps,
         loops' \in Seq(Block \X Block), switches' \in Seq(SwitchSet), sawLoop' \in BOOLEAN,
         next' \in Nat \ {0}, out' \in Seq(Code), err' \in Errors \cup {"none"},
         Loose(b', Instrs), todo' # <<>> => Good(b', Instrs),
         Frames(todo', prog), Reserved(todo', Free(b'), switches'),
         Nested(todo', Len(switches'), sawLoop'), Waiting(todo', b'.filled, prog)
  PROVE  IInv'
<1>1. Maps' = Maps
      BY DEF Maps, Vals, Node
<1>2. Instrs' = Instrs /\ SwitchSet' = SwitchSet /\ Code' = Code
      BY <1>1 DEF Instrs, SwitchSet, Code
<1>3. prog' \in Programs
      BY DEF IInv
<1>4. ContextTypes' /\ ResultTypes'
      BY <1>2 DEF ContextTypes, ResultTypes
<1>5. BuilderOK'
      BY <1>2 DEF BuilderOK
<1>6. StackOK' /\ WaitingOK'
      BY DEF StackOK, WaitingOK
<1> QED  BY <1>1, <1>3, <1>4, <1>5, <1>6 DEF IInv

\* An operation that reports an error changes nothing the invariant is about.
LEMMA FailKeeps ==
  ASSUME IInv, NEW reason \in Errors, Fail(reason), b' = b
  PROVE  IInv'
<1>1. Maps' = Maps
      BY DEF Maps, Vals, Node, Fail
<1> QED  BY <1>1, Conclude DEF Fail, IInv, ContextTypes, ResultTypes, BuilderOK, StackOK, WaitingOK

\* A node of a program.
LEMMA NodeFacts ==
  ASSUME prog \in Programs, NEW n \in DOMAIN prog.node
  PROVE  /\ n \in Nat /\ Node(n).kids \in Seq(DOMAIN prog.node)
         /\ Len(Node(n).kids) \in Arity(Node(n).kind)
         /\ \A i \in 1..Len(Node(n).kids) : Kid(n, i) \in DOMAIN prog.node
         /\ Node(n).val \in Vals
         /\ Node(n).kind = "for" => Node(Kid(n, 1)).kind \in {"expr", "decl"}
<1>1. ProgramOK(prog)
      BY ProgramsAssumption
<1>2. NodeOK(prog.node, n) /\ n \in 1..Len(prog.node)
      BY <1>1 DEF ProgramOK
<1>3. n \in Nat
      BY <1>2
<1>4. Node(n).kids \in Seq(DOMAIN prog.node)
      BY <1>2 DEF NodeOK, Node
<1>5. \A i \in 1..Len(Node(n).kids) : Node(n).kids[i] \in DOMAIN prog.node
      BY <1>4, ElementOfSeq
<1> QED  BY <1>2, <1>3, <1>4, <1>5 DEF NodeOK, Node, Kid, Vals

\* The parts of a node are nodes of the program again.
LEMMA KidFacts ==
  ASSUME prog \in Programs, NEW n \in DOMAIN prog.node
  PROVE  /\ Node(n).kind \in Unary \cup {"if", "for"} => Kid(n, 1) \in DOMAIN prog.node
         /\ Node(n).kind = "for" => Kid(n, 2) \in DOMAIN prog.node
         /\ Len(Node(n).kids) = 2 => Kid(n, 2) \in DOMAIN prog.node
<1> DEFINE m == Len(Node(n).kids)
<1>1. m \in Arity(Node(n).kind) /\ \A i \in 1..m : Kid(n, i) \in DOMAIN prog.node
      BY NodeFacts
<1>2. /\ Node(n).kind \in Unary => m = 1
      /\ Node(n).kind = "if" => m \in {1, 2}
      /\ Node(n).kind = "for" => m = 2
      BY <1>1 DEF Arity, Unary, Leaves
<1> QED  BY <1>1, <1>2

\* A statement on the stack.
LEMMA StmtFacts ==
  ASSUME prog \in Programs, NEW n \in DOMAIN prog.node
  PROVE  /\ Stmt(n) \in Tasks /\ TaskOK(Stmt(n), prog)
         /\ Stmt(n).op = "stmt" /\ Stmt(n).node = n
<1>1. n \in Nat
      BY NodeFacts
<1>2. /\ Stmt(n) = [op |-> "stmt", node |-> n, blk |-> <<>>, flag |-> FALSE]
      BY DEF Stmt, Task
<1>3. <<>> \in Seq(Block) /\ Len(<<>>) = 0
      BY EmptySeq
<1>4. Stmt(n) \in Tasks
      BY <1>1, <1>2, <1>3 DEF Tasks, TaskOps
<1> QED  BY <1>2, <1>3, <1>4 DEF TaskOK, Width, Opens, Plain

\* The state in which the top of the stack is taken.
LEMMA TopFacts ==
  ASSUME IInv, Running
  PROVE  /\ TaskOK(Top, prog) /\ Top \in Tasks
         /\ Good(b, Instrs) /\ b.filled \in BOOLEAN /\ Len(b.code) \in Nat
         /\ Frames(Tail(todo), prog)
         /\ Reserved(Tail(todo), Free(b) \ Pending(Top), switches)
         /\ Pending(Top) \subseteq Free(b)
         /\ Len(switches) \in Nat
         /\ ~IsOpen(Top) => Nested(Tail(todo), Len(switches), sawLoop)
         /\ Top.op \in LoopTasks => Nested(Tail(todo), Len(switches), Top.flag)
         /\ Top.op = "endSwitch" =>
              Len(switches) > 0 /\ Nested(Tail(todo), Len(switches) - 1, Top.flag)
         /\ Top.op = "endFunction" => Tail(todo) = <<>>
         /\ ~Initial(Top, prog) => NoFor(Tail(todo))
         /\ Top.op = "for" => ~b.filled
         /\ Initial(Top, prog) => Waiting(Tail(todo), FALSE, prog)
<1>1. todo # <<>> /\ Frames(todo, prog) /\ Reserved(todo, Free(b), switches)
      /\ Nested(todo, Len(switches), sawLoop) /\ Waiting(todo, b.filled, prog)
      /\ Good(b, Instrs) /\ sawLoop \in BOOLEAN /\ switches \in Seq(SwitchSet)
      BY DEF IInv, Running, StackOK, WaitingOK, BuilderOK, ContextTypes
<1>2. Len(switches) \in Nat
      BY <1>1, LenProperties
<1>3. b.filled \in BOOLEAN /\ Len(b.code) \in Nat
      BY <1>1, LenProperties DEF Good, Loose, Builder
<1>4. /\ Top = todo[1] /\ TaskOK(Top, prog) /\ Frames(Tail(todo), prog)
      /\ Top.op = "endFunction" => Tail(todo) = <<>>
      BY <1>1, PopFrames DEF Top
<1>5. /\ Reserved(Tail(todo), Free(b) \ Pending(Top), switches)
      /\ Pending(Top) \subseteq Free(b)
      BY <1>1, PopReserved DEF Top
<1>6. /\ ~IsOpen(Top) => Nested(Tail(todo), Len(switches), sawLoop)
      /\ Top.op \in LoopTasks => Nested(Tail(todo), Len(switches), Top.flag)
      /\ Top.op = "endSwitch" =>
           Len(switches) > 0 /\ Nested(Tail(todo), Len(switches) - 1, Top.flag)
      BY <1>1, <1>2, PopNested DEF Top
<1>7. /\ \A i \in 1..Len(Tail(todo)) : Tail(todo)[i] = todo[i + 1] /\ i + 1 \in 1..Len(todo)
      /\ 1 \in 1..Len(todo)
  <2>1. todo \in Seq(Tasks)
        BY <1>1 DEF Frames
  <2> QED  BY <2>1, <1>1, TailOf
<1>8. ASSUME NEW i \in 1..Len(Tail(todo)), Tail(todo)[i].op = "for"
      PROVE  i = 1 /\ Initial(Top, prog)
  <2>1. i + 1 = 1 \/ (i + 1 = 2 /\ Initial(todo[1], prog))
        BY <1>1, <1>7, <1>8 DEF Waiting
  <2> QED  BY <2>1, <1>4
<1>9. ~Initial(Top, prog) => NoFor(Tail(todo))
      BY <1>8 DEF NoFor
<1>10. Top.op = "for" => ~b.filled
      BY <1>1, <1>4, <1>7 DEF Waiting
<1>11. Waiting(Tail(todo), FALSE, prog)
      BY <1>8 DEF Waiting
<1>12. Top \in Tasks
      BY <1>4 DEF TaskOK
<1> QED  BY <1>1, <1>2, <1>3, <1>4, <1>5, <1>6, <1>9, <1>10, <1>11, <1>12

-----------------------------------------------------------------------------
(***************************************************************************)
(* The builder and the blocks that are not opened yet.                     *)
(***************************************************************************)

\* The instructions used here are instructions; only the terminators terminate.
LEMMA InstrFacts ==
  ASSUME NEW n \in Nat, NEW x \in Block, NEW y \in Block
  PROVE  /\ Run(n) \in Instrs /\ ~Terminates(Run(n))
         /\ Post(n) \in Instrs /\ ~Terminates(Post(n))
         /\ Br(n, x, y) \in Instrs /\ Terminates(Br(n, x, y))
         /\ Jump(x) \in Instrs /\ Terminates(Jump(x))
         /\ Ret(n) \in Instrs /\ Terminates(Ret(n))
         /\ \A m \in Maps : Table(n, m, x) \in Instrs /\ Terminates(Table(n, m, x))
<1>1. NoBlocks \in Maps
      BY DEF NoBlocks, Maps
<1>2. <<>> \in Seq(Block) /\ <<x>> \in Seq(Block) /\ <<x, y>> \in Seq(Block)
      BY EmptySeq
<1>4. /\ "run" \in Ops /\ "post" \in Ops /\ "br" \in Ops
      /\ "jump" \in Ops /\ "ret" \in Ops /\ "table" \in Ops /\ 0 \in Nat
      BY DEF Ops
<1>5. Run(n) \in Instrs /\ Run(n).op = "run" /\ Post(n) \in Instrs /\ Post(n).op = "post"
      BY <1>1, <1>2, <1>4 DEF Run, Post, Instr, Instrs
<1>6. Br(n, x, y) \in Instrs /\ Br(n, x, y).op = "br"
      BY <1>1, <1>2, <1>4 DEF Br, Instr, Instrs
<1>7. Jump(x) \in Instrs /\ Jump(x).op = "jump" /\ Ret(n) \in Instrs /\ Ret(n).op = "ret"
      BY <1>1, <1>2, <1>4 DEF Jump, Ret, Instr, Instrs
<1>8. \A m \in Maps : Table(n, m, x) \in Instrs /\ Table(n, m, x).op = "table"
      BY <1>2, <1>4 DEF Table, Instr, Instrs
<1> QED  BY <1>5, <1>6, <1>7, <1>8 DEF Terminates

\* What can be opened are blocks of the builder, and so is the current one.
LEMMA FreeFacts ==
  ASSUME NEW bl, Good(bl, Instrs)
  PROVE  /\ Loose(bl, Instrs) /\ Len(bl.code) \in Nat /\ Free(bl) \subseteq Block
         /\ bl.cur \in Block
<1>1. bl.code \in Seq(Seq(Instrs)) /\ bl.cur \in Block /\ Loose(bl, Instrs)
      BY DEF Good, Loose, Builder
<1>2. Len(bl.code) \in Nat
      BY <1>1, LenProperties
<1> QED  BY <1>1, <1>2 DEF Free, Block

\* An instruction leaves the reserved blocks untouched.
LEMMA FreeIns ==
  ASSUME NEW bl, Good(bl, Instrs), ~bl.filled, NEW ins \in Instrs
  PROVE  /\ Loose(Ins(bl, ins), Instrs) /\ Free(bl) \subseteq Free(Ins(bl, ins))
         /\ ~Ins(bl, ins).filled
         /\ ~Terminates(ins) => Good(Ins(bl, ins), Instrs)
<1>1. /\ Loose(Ins(bl, ins), Instrs) /\ ~Ins(bl, ins).filled
      /\ Len(Ins(bl, ins).code) = Len(bl.code)
      /\ \A k : Untouched(bl, k) => Untouched(Ins(bl, ins), k)
      BY InsLemma
<1>2. ~Terminates(ins) => Good(Ins(bl, ins), Instrs)
      BY RunLemma
<1> QED  BY <1>1, <1>2 DEF Free

\* A terminator leaves the reserved blocks untouched.
LEMMA FreeClose ==
  ASSUME NEW bl, Good(bl, Instrs), ~bl.filled, NEW ins \in Instrs, Terminates(ins)
  PROVE  /\ Good([Ins(bl, ins) EXCEPT !.filled = TRUE], Instrs)
         /\ Free(bl) \subseteq Free([Ins(bl, ins) EXCEPT !.filled = TRUE])
<1> DEFINE r == [Ins(bl, ins) EXCEPT !.filled = TRUE]
<1>1. /\ Good(r, Instrs) /\ Len(r.code) = Len(bl.code)
      /\ \A k : Untouched(bl, k) => Untouched(r, k)
      BY CloseLemma
<1> HIDE DEF r
<1>2. Free(bl) \subseteq Free(r)
      BY <1>1 DEF Free
<1> QED  BY <1>1, <1>2 DEF r

\* jump_to_block leaves the reserved blocks untouched.
LEMMA FreeJump ==
  ASSUME NEW bl, Good(bl, Instrs), NEW t \in Block
  PROVE  /\ Good(JumpToBlock(bl, t), Instrs) /\ Free(bl) \subseteq Free(JumpToBlock(bl, t))
         /\ bl.filled => JumpToBlock(bl, t) = bl
<1>1. Jump(t) \in Instrs
  <2>1. 0 \in Nat
        OBVIOUS
  <2> QED  BY <2>1, InstrFacts
<1>2. /\ Good(JumpToBlock(bl, t), Instrs)
      /\ Len(JumpToBlock(bl, t).code) = Len(bl.code)
      /\ \A k : Untouched(bl, k) => Untouched(JumpToBlock(bl, t), k)
      BY <1>1, JumpLemma
<1>3. bl.filled => JumpToBlock(bl, t) = bl
      BY DEF JumpToBlock
<1> QED  BY <1>2, <1>3 DEF Free

\* Opening a block leaves the reserved blocks other than that one untouched.
LEMMA FreeSwitch ==
  ASSUME NEW bl, Loose(bl, Instrs), NEW k \in Free(bl)
  PROVE  /\ Good(SwitchToBlock(bl, k), Instrs) /\ ~SwitchToBlock(bl, k).filled
         /\ Free(bl) \ {k} \subseteq Free(SwitchToBlock(bl, k))
<1>1. Untouched(bl, k)
      BY DEF Free
<1>2. /\ Good(SwitchToBlock(bl, k), Instrs) /\ ~SwitchToBlock(bl, k).filled
      /\ Len(SwitchToBlock(bl, k).code) = Len(bl.code)
      /\ \A j : Untouched(bl, j) /\ j # k => Untouched(SwitchToBlock(bl, k), j)
      BY <1>1, SwitchLemma
<1> QED  BY <1>2 DEF Free

\* New blocks leave the reserved blocks untouched.
LEMMA FreeCreate ==
  ASSUME NEW bl, Good(bl, Instrs), NEW n \in Nat
  PROVE  /\ Good(CreateBlocks(bl, n), Instrs)
         /\ CreateBlocks(bl, n).filled = bl.filled
         /\ Free(bl) \subseteq Free(CreateBlocks(bl, n))
         /\ \A i \in 1..n : /\ Fresh(bl, i) \in Free(CreateBlocks(bl, n)) \ Free(bl)
                            /\ Fresh(bl, i) \in Block
         /\ \A i, j \in 1..n : i # j => Fresh(bl, i) # Fresh(bl, j)
<1>1. /\ Good(CreateBlocks(bl, n), Instrs)
      /\ CreateBlocks(bl, n).filled = bl.filled
      /\ Len(CreateBlocks(bl, n).code) = Len(bl.code) + n
      /\ \A k : Untouched(bl, k) => Untouched(CreateBlocks(bl, n), k)
      /\ \A i \in 1..n : Untouched(CreateBlocks(bl, n), Fresh(bl, i))
      /\ \A i \in 1..n : ~Untouched(bl, Fresh(bl, i))
      BY CreateLemma
<1>2. Len(bl.code) \in Nat
      BY FreeFacts
<1>3. \A k : Untouched(bl, k) => k \in 1..Len(bl.code)
      BY DEF Untouched
<1> DEFINE m == Len(bl.code)
           c == CreateBlocks(bl, n)
<1>4. Free(bl) \subseteq Free(c)
  <2>1. \A k \in 1..m : k \in 1..Len(c.code)
        BY <1>1, <1>2
  <2> QED  BY <1>1, <2>1 DEF Free
<1>5. \A i \in 1..n : Fresh(bl, i) \in 1..Len(c.code) /\ Fresh(bl, i) \in Block
  <2> HIDE DEF m
  <2>1. \A i \in 1..n : m + i \in 1..m + n /\ m + i \in Block
        BY <1>2 DEF Block, m
  <2> QED  BY <1>1, <2>1 DEF Fresh, m
<1>6. \A i \in 1..n : Fresh(bl, i) \in Free(c) \ Free(bl)
      BY <1>1, <1>5 DEF Free
<1>7. \A i, j \in 1..n : i # j => Fresh(bl, i) # Fresh(bl, j)
  <2> HIDE DEF m
  <2>1. \A i, j \in 1..n : i # j => m + i # m + j
        BY <1>2 DEF m
  <2> QED  BY <2>1 DEF Fresh, m
<1> HIDE DEF c
<1> QED  BY <1>1, <1>4, <1>5, <1>6, <1>7 DEF c

-----------------------------------------------------------------------------
(***************************************************************************)
(* What the operations do to the stack.                                    *)
(***************************************************************************)

\* No init statement of a for waits where the top of the stack is not one.
LEMMA NoForWaits ==
  ASSUME NEW s, NoFor(s), NEW filled, NEW p
  PROVE  Waiting(s, filled, p)
BY DEF NoFor, Waiting

\* Tasks that are no for put no init statement on the stack.
LEMMA PushNoFor ==
  ASSUME NEW ts \in Seq(Tasks), NEW s \in Seq(Tasks), NoFor(ts), NoFor(s)
  PROVE  NoFor(ts \o s)
<1> DEFINE r == ts \o s
           m == Len(ts)
<1>1. /\ m \in Nat /\ \A i \in 1..m : r[i] = ts[i]
      /\ \A i \in 1..Len(s) : r[i + m] = s[i]
      /\ \A i \in 1..Len(r) : i \in 1..m \/ i - m \in 1..Len(s)
      BY OnTopOf
<1> HIDE DEF r
<1>2. \A i \in 1..m : ts[i].op # "for"
      BY DEF NoFor
<1> HIDE DEF m
<1>3. ASSUME NEW i \in 1..Len(r)
      PROVE  r[i].op # "for"
  <2>1. (i - m) + m = i
        BY <1>1
  <2> QED  BY <1>1, <1>2, <2>1 DEF NoFor
<1> QED  BY <1>3 DEF NoFor, r

\* A list of one or two tasks on top of a stack.
LEMMA Pair ==
  ASSUME NEW x \in Tasks, NEW t \in Tasks, NEW s \in Seq(Tasks)
  PROVE  /\ <<x, t>> \o s = <<x>> \o (<<t>> \o s)
         /\ <<t>> \o s \in Seq(Tasks)
<1>1. <<x>> \in Seq(Tasks) /\ <<t>> \in Seq(Tasks)
      OBVIOUS
<1>2. <<x>> \o <<t>> = <<x, t>>
  <2> DEFINE r == <<x>> \o <<t>>
             q == <<x, t>>
  <2>1. /\ Len(<<x>>) = 1 /\ <<x>>[1] = x /\ Len(<<t>>) = 1 /\ <<t>>[1] = t
        /\ q \in Seq(Tasks) /\ Len(q) = 2 /\ q[1] = x /\ q[2] = t
        OBVIOUS
  <2>2. /\ r \in Seq(Tasks) /\ Len(r) = 1 + 1
        /\ \A i \in 1..1 : r[i] = <<x>>[i]
        /\ \A i \in 1..1 : r[i + 1] = <<t>>[i]
    <3>1. /\ r \in Seq(Tasks) /\ Len(r) = Len(<<x>>) + Len(<<t>>)
          /\ \A i \in 1..Len(<<x>>) : r[i] = <<x>>[i]
          /\ \A i \in 1..Len(<<t>>) : r[i + Len(<<x>>)] = <<t>>[i]
          BY <1>1, OnTopOf
    <3> HIDE DEF r
    <3> QED  BY <2>1, <3>1
  <2> HIDE DEF r
  <2>3. r[1] = x /\ r[1 + 1] = t
        BY <2>1, <2>2
  <2> HIDE DEF q
  <2>4. \A i \in 1..Len(r) : i = 1 \/ i = 2
        BY <2>2
  <2>5. \A i \in 1..Len(r) : r[i] = q[i]
        BY <2>1, <2>3, <2>4
  <2>6. Len(r) = Len(q)
        BY <2>1, <2>2
  <2>7. r = q
        BY <2>1, <2>2, <2>5, <2>6, SeqEqual
  <2> QED  BY <2>7 DEF r, q
<1>3. (<<x>> \o <<t>>) \o s = <<x>> \o (<<t>> \o s)
      BY <1>1, ConcatAssociative
<1>4. <<t>> \o s \in Seq(Tasks)
      BY <1>1, ConcatProperties
<1> QED  BY <1>2, <1>3, <1>4

\* A task that waits, and the statements that are compiled before it.
Resting(t, p, saw) ==
  /\ t \in Tasks /\ TaskOK(t, p) /\ t.op \notin {"for", "endFunction"}
  /\ IsOpen(t) => t.flag = saw
Inner(ts, p) ==
  /\ ts \in Seq(Tasks)
  /\ \A i \in 1..Len(ts) : TaskOK(ts[i], p) /\ ts[i].op \in {"stmt", "post"}

\* Statements to be compiled, then the rest of what they are part of.
LEMMA PushRest ==
  ASSUME NEW p, NEW s, Frames(s, p), NEW U, NEW sw, Reserved(s, U, sw),
         NEW n \in Nat, NEW saw \in BOOLEAN, Nested(s, n, saw), NoFor(s),
         NEW t, Resting(t, p, saw), Pending(t) \cap U = {}, NEW ts, Inner(ts, p)
  PROVE  /\ Frames(ts \o (<<t>> \o s), p)
         /\ Reserved(ts \o (<<t>> \o s), U \cup Pending(t), sw)
         /\ ~IsOpen(t) => Nested(ts \o (<<t>> \o s), n, saw)
         /\ t.op \in LoopTasks => Nested(ts \o (<<t>> \o s), n, TRUE)
         /\ t.op = "endSwitch" => Nested(ts \o (<<t>> \o s), n + 1, FALSE)
         /\ NoFor(ts \o (<<t>> \o s))
<1>0. /\ t \in Tasks /\ TaskOK(t, p) /\ t.op \notin {"for", "endFunction"}
      /\ IsOpen(t) => t.flag = saw
      /\ ts \in Seq(Tasks)
      /\ \A i \in 1..Len(ts) : TaskOK(ts[i], p) /\ ts[i].op \in {"stmt", "post"}
      BY DEF Resting, Inner
<1> USE <1>0
<1> DEFINE r == <<t>> \o s
<1>1. <<t>> \in Seq(Tasks) /\ Len(<<t>>) = 1 /\ <<t>>[1] = t /\ s \in Seq(Tasks)
      BY Single DEF Frames
<1>2. Frames(r, p)
  <2>1. \A i \in 1..Len(<<t>>) : TaskOK(<<t>>[i], p) /\ <<t>>[i].op # "endFunction"
        BY <1>1
  <2> QED  BY <1>1, <2>1, PushFrames
<1>3. Reserved(r, U \cup Pending(t), sw)
      BY PushReserved
<1>4. /\ ~IsOpen(t) => Nested(r, n, saw)
      /\ t.op \in LoopTasks => Nested(r, n, TRUE)
      /\ t.op = "endSwitch" => Nested(r, n + 1, FALSE)
      BY PushNested
<1>5. NoFor(r)
  <2>1. NoFor(<<t>>)
        BY <1>1 DEF NoFor
  <2> QED  BY <1>1, <2>1, PushNoFor
<1>6. /\ Frames(r, p) /\ r \in Seq(Tasks)
      BY <1>2 DEF Frames
<1>7. NoFor(ts \o r)
  <2>1. NoFor(ts)
        BY DEF NoFor
  <2> QED  BY <1>5, <1>6, <2>1, PushNoFor
<1>8. \A i \in 1..Len(ts) : TaskOK(ts[i], p) /\ ts[i].op \in Plain
      BY DEF Plain
<1> HIDE DEF r
<1>9. ASSUME NEW V, NEW w, Reserved(r, V, w)
      PROVE  Reserved(ts \o r, V, w)
  <2>1. ~IsOpen(t) \/ t.op \in LoopTasks \/ t.op = "endSwitch"
        BY DEF IsOpen
  <2>2. n + 1 \in Nat
        OBVIOUS
  <2>3. PICK k \in Nat, v \in BOOLEAN : Nested(r, k, v)
        BY <1>4, <2>1, <2>2
  <2> QED  BY <1>6, <1>8, <1>9, <2>3, PushPlain
<1>10. ASSUME NEW k \in Nat, NEW v \in BOOLEAN, Nested(r, k, v)
       PROVE  Nested(ts \o r, k, v) /\ Frames(ts \o r, p)
      BY <1>3, <1>6, <1>8, <1>10, PushPlain
<1>11. Frames(ts \o r, p)
      BY <1>6, <1>8, PushFrames DEF Plain
<1>12. n + 1 \in Nat
      OBVIOUS
<1>13. Reserved(ts \o r, U \cup Pending(t), sw)
      BY <1>3, <1>9
<1> QED  BY <1>4, <1>7, <1>9, <1>10, <1>11, <1>12, <1>13 DEF r

-----------------------------------------------------------------------------
(***************************************************************************)
(* The operations, one by one: statements that push nothing.               *)
(***************************************************************************)

\* The top of the stack is a statement that is compiled now.
LEMMA CompilingFacts ==
  ASSUME IInv, NEW kind, Compiling(kind)
  PROVE  /\ Running /\ Top.op = "stmt" /\ Node(Top.node).kind = kind
         /\ Top.node \in DOMAIN prog.node /\ Top.node \in Nat
         /\ Pending(Top) = {} /\ ~IsOpen(Top)
         /\ kind \notin JumpTargetKinds => ~b.filled
         /\ Initial(Top, prog) <=> kind \in {"expr", "decl"}
<1>1. Running /\ Top.op = "stmt" /\ Node(Top.node).kind = kind /\ Reachable(kind)
      BY DEF Compiling, At
<1>2. Top.node \in DOMAIN prog.node
      BY <1>1, TopFacts DEF TaskOK
<1>3. prog \in Programs
      BY DEF IInv
<1>4. Top.node \in Nat
      BY <1>2, <1>3, NodeFacts
<1>5. Pending(Top) = {} /\ ~IsOpen(Top)
      BY <1>1 DEF Pending, Opens, Plain, IsOpen, LoopTasks
<1> QED  BY <1>1, <1>2, <1>4, <1>5 DEF Reachable, Initial, Node

\* What is left once the top of the stack has been compiled.
LEMMA PopKeeps ==
  ASSUME IInv, Running, ~IsOpen(Top), Pending(Top) = {}, Pop, Frame,
         UNCHANGED <<labels, Context>>,
         Good(b', Instrs), Free(b) \subseteq Free(b'),
         Initial(Top, prog) => ~b'.filled
  PROVE  IInv'
<1>1. Free(b) \ Pending(Top) = Free(b)
      OBVIOUS
<1>2. /\ Frames(Tail(todo), prog) /\ Reserved(Tail(todo), Free(b), switches)
      /\ Nested(Tail(todo), Len(switches), sawLoop)
      BY <1>1, TopFacts
<1>3. Reserved(Tail(todo), Free(b'), switches)
      BY <1>2, MoreBlocks
<1>4. Loose(b', Instrs) /\ b'.filled \in BOOLEAN
      BY DEF Good, Loose, Builder
<1>5. Waiting(Tail(todo), b'.filled, prog)
  <2>1. CASE Initial(Top, prog)
    <3>1. b'.filled = FALSE
          BY <1>4, <2>1
    <3> QED  BY <2>1, <3>1, TopFacts
  <2>2. CASE ~Initial(Top, prog)
        BY <2>2, TopFacts, NoForWaits
  <2> QED  BY <2>1, <2>2
<1>6. /\ todo' = Tail(todo) /\ loops' = loops /\ switches' = switches /\ sawLoop' = sawLoop
      /\ labels' = labels /\ prog' = prog /\ next' = next /\ out' = out /\ err' = err
      BY DEF Pop, Frame, Context
<1> QED  BY <1>2, <1>3, <1>4, <1>5, <1>6, Conclude DEF IInv, ContextTypes, ResultTypes

\* An expression statement keeps the invariant: one plain instruction.
LEMMA ExpressionKeeps == IInv /\ Expression => IInv'
<1> SUFFICES ASSUME IInv, Expression PROVE IInv'
    OBVIOUS
<1>1. CASE Compiling("expr") /\ b' = Ins(b, Run(Top.node))
  <2>1. /\ Running /\ Top.node \in Nat /\ Pending(Top) = {} /\ ~IsOpen(Top) /\ ~b.filled
        BY <1>1, CompilingFacts DEF JumpTargetKinds
  <2>2. Good(b, Instrs) /\ 1 \in Block
        BY <2>1, TopFacts DEF Block
  <2>3. Run(Top.node) \in Instrs /\ ~Terminates(Run(Top.node))
        BY <2>1, <2>2, InstrFacts
  <2>4. Good(b', Instrs) /\ Free(b) \subseteq Free(b') /\ ~b'.filled
        BY <1>1, <2>1, <2>2, <2>3, FreeIns
  <2> QED  BY <2>1, <2>4, PopKeeps DEF Expression
<1>2. CASE At("post") /\ ~b.filled /\ b' = Ins(b, Post(Top.node))
  <2>1. Running /\ Top.op = "post"
        BY <1>2 DEF At
  <2>2. Good(b, Instrs) /\ 1 \in Block /\ TaskOK(Top, prog)
        BY <2>1, TopFacts DEF Block
  <2>3. Pending(Top) = {} /\ ~IsOpen(Top)
        BY <2>1 DEF Pending, Opens, Plain, IsOpen, LoopTasks
  <2>4. Top.node \in Nat
        BY <2>2 DEF TaskOK, Tasks
  <2>5. Post(Top.node) \in Instrs /\ ~Terminates(Post(Top.node))
        BY <2>2, <2>4, InstrFacts
  <2>6. Good(b', Instrs) /\ Free(b) \subseteq Free(b') /\ ~b'.filled
        BY <1>2, <2>2, <2>5, FreeIns
  <2> QED  BY <2>1, <2>3, <2>6, PopKeeps DEF Expression
<1> QED  BY <1>1, <1>2 DEF Expression

\* A declaration keeps the invariant: one plain instruction.
LEMMA DeclareStackKeeps == IInv /\ DeclareStack => IInv'
<1> SUFFICES ASSUME IInv, DeclareStack PROVE IInv'
    OBVIOUS
<1>1. Compiling("decl") /\ b' = b
      BY DEF DeclareStack
<1>2. /\ Running /\ Pending(Top) = {} /\ ~IsOpen(Top) /\ ~b.filled
      BY <1>1, CompilingFacts DEF JumpTargetKinds
<1>3. Good(b, Instrs)
      BY <1>2, TopFacts
<1> QED  BY <1>1, <1>2, <1>3, PopKeeps DEF DeclareStack

\* return keeps the invariant: it fills the block.
LEMMA ReturnKeeps == IInv /\ Return => IInv'
<1> SUFFICES ASSUME IInv, Return PROVE IInv'
    OBVIOUS
<1>1. Compiling("return") /\ b' = [Ins(b, Ret(Top.node)) EXCEPT !.filled = TRUE]
      BY DEF Return
<1>2. /\ Running /\ Top.node \in Nat /\ Pending(Top) = {} /\ ~IsOpen(Top) /\ ~b.filled
      /\ ~Initial(Top, prog)
      BY <1>1, CompilingFacts DEF JumpTargetKinds
<1>3. Good(b, Instrs) /\ 1 \in Block
      BY <1>2, TopFacts DEF Block
<1>4. Ret(Top.node) \in Instrs /\ Terminates(Ret(Top.node))
      BY <1>2, <1>3, InstrFacts
<1>5. Good(b', Instrs) /\ Free(b) \subseteq Free(b')
      BY <1>1, <1>2, <1>3, <1>4, FreeClose
<1> QED  BY <1>2, <1>5, PopKeeps DEF Return

\* goto keeps the invariant: it fills the block, and the label's block exists.
LEMMA GotoKeeps == IInv /\ Goto => IInv'
<1> SUFFICES ASSUME IInv, Goto PROVE IInv'
    OBVIOUS
<1> DEFINE name == Node(Top.node).val
<1>1. Compiling("goto")
      BY DEF Goto
<1>2. /\ Running /\ Top.node \in DOMAIN prog.node /\ Pending(Top) = {} /\ ~IsOpen(Top)
      /\ ~Initial(Top, prog)
      BY <1>1, CompilingFacts
<1>3. CASE Fail("UndeclaredLabel") /\ UNCHANGED b
      BY <1>3, FailKeeps DEF Errors
<1>4. CASE labels[name] # 0 /\ b' = JumpToBlock(b, labels[name]) /\ Pop
           /\ UNCHANGED <<labels, Context>> /\ Frame
  <2>1. name \in Vals /\ labels \in [Vals -> Nat]
        BY <1>2, NodeFacts DEF IInv, Maps
  <2>2. labels[name] \in Block
        BY <2>1, <1>4 DEF Block
  <2>3. Good(b', Instrs) /\ Free(b) \subseteq Free(b')
        BY <1>2, <1>4, <2>2, TopFacts, FreeJump
  <2> QED  BY <1>2, <1>4, <2>3, PopKeeps
<1> QED  BY <1>3, <1>4 DEF Goto

\* A statement found unreachable is an error, which keeps the invariant.
LEMMA UnreachableKeeps == IInv /\ Unreachable => IInv'
BY FailKeeps DEF Unreachable, Errors

\* break and continue keep the invariant: they find their loop or switch.
LEMMA LoopExitKeeps == IInv /\ LoopExit => IInv'
<1> SUFFICES ASSUME IInv, NEW kind \in {"break", "continue"}, Compiling(kind),
                    \/ "error" \in DOMAIN ExitTarget(kind) /\ Fail(ExitTarget(kind).error) /\ UNCHANGED b
                    \/ /\ "block" \in DOMAIN ExitTarget(kind)
                       /\ b' = JumpToBlock(b, ExitTarget(kind).block)
                       /\ Pop
                       /\ UNCHANGED <<labels, Context>> /\ Frame
             PROVE  IInv'
    BY DEF LoopExit
<1> DEFINE target == ExitTarget(kind)
<1>1. /\ loops \in Seq(Block \X Block) /\ switches \in Seq(SwitchSet)
      BY DEF IInv, ContextTypes
<1>2. \/ target \in [error : Errors]
      \/ target \in [block : Block]
  <2>1. CASE sawLoop /\ loops # <<>>
    <3>1. Len(loops) \in 1..Len(loops)
          BY <1>1, <2>1, EmptySeq
    <3>2. loops[Len(loops)] \in Block \X Block
          BY <1>1, <3>1, ElementOfSeq
    <3> DEFINE last == loops[Len(loops)]
    <3>3. last[1] \in Block /\ last[2] \in Block
          BY <3>2
    <3> HIDE DEF last
    <3>4. last[IF kind = "break" THEN 2 ELSE 1] \in Block
          BY <3>3
    <3>5. target = [block |-> last[IF kind = "break" THEN 2 ELSE 1]]
          BY <2>1 DEF ExitTarget, last
    <3> QED  BY <3>4, <3>5
  <2>2. CASE ~sawLoop /\ kind # "continue" /\ switches # <<>>
    <3>1. Len(switches) \in 1..Len(switches)
          BY <1>1, <2>2, EmptySeq
    <3>2. LastSwitch \in SwitchSet
          BY <1>1, <3>1, ElementOfSeq DEF LastSwitch
    <3>3. LastSwitch.end \in Block
          BY <3>2 DEF SwitchSet
    <3>4. target = [block |-> LastSwitch.end]
          BY <2>2 DEF ExitTarget
    <3> QED  BY <3>3, <3>4
  <2>3. CASE sawLoop /\ loops = <<>>
    <3>1. target = [error |-> "NotInLoopOrSwitch"]
          BY <2>3 DEF ExitTarget
    <3> QED  BY <3>1 DEF Errors
  <2>4. CASE ~sawLoop /\ kind = "continue"
    <3>1. target = [error |-> "ContinueNotInLoop"]
          BY <2>4 DEF ExitTarget
    <3> QED  BY <3>1 DEF Errors
  <2>5. CASE ~sawLoop /\ kind # "continue" /\ switches = <<>>
    <3>1. target = [error |-> "PanicNotInSwitch"]
          BY <2>5 DEF ExitTarget
    <3> QED  BY <3>1 DEF Errors
  <2> QED  BY <2>1, <2>2, <2>3, <2>4, <2>5
<1>3. /\ Running /\ Pending(Top) = {} /\ ~IsOpen(Top) /\ ~Initial(Top, prog)
      BY CompilingFacts
<1> HIDE DEF target
<1>4. CASE "error" \in DOMAIN target /\ Fail(target.error) /\ UNCHANGED b
  <2>1. target.error \in Errors
        BY <1>2, <1>4
  <2> QED  BY <1>4, <2>1, FailKeeps
<1>5. CASE "block" \in DOMAIN target /\ b' = JumpToBlock(b, target.block) /\ Pop
           /\ UNCHANGED <<labels, Context>> /\ Frame
  <2>1. target.block \in Block
        BY <1>2, <1>5
  <2>2. Good(b', Instrs) /\ Free(b) \subseteq Free(b')
        BY <1>3, <1>5, <2>1, TopFacts, FreeJump
  <2> QED  BY <1>3, <1>5, <2>2, PopKeeps
<1> QED  BY <1>4, <1>5 DEF target

-----------------------------------------------------------------------------
(***************************************************************************)
(* Statements that hand on to the statements inside them.                  *)
(***************************************************************************)

\* A task with nothing but statements to compile keeps the invariant.
LEMMA PlainKeeps ==
  ASSUME IInv, Running, ~IsOpen(Top), Pending(Top) = {}, ~Initial(Top, prog),
         NEW ts \in Seq(Tasks),
         \A i \in 1..Len(ts) : TaskOK(ts[i], prog) /\ ts[i].op = "stmt",
         Push(ts), Frame, UNCHANGED <<loops, sawLoop>>, labels' \in Maps,
         switches' \in Seq(SwitchSet), Len(switches') = Len(switches),
         \A i \in 1..Len(switches) : switches'[i].end = switches[i].end,
         Good(b', Instrs), Free(b) \subseteq Free(b')
  PROVE  IInv'
<1> DEFINE s == Tail(todo)
<1>1. Free(b) \ Pending(Top) = Free(b)
      OBVIOUS
<1>2. /\ Frames(s, prog) /\ Reserved(s, Free(b), switches)
      /\ Nested(s, Len(switches), sawLoop) /\ NoFor(s) /\ Len(switches) \in Nat
      BY <1>1, TopFacts
<1>3. sawLoop \in BOOLEAN
      BY DEF IInv, ContextTypes
<1> HIDE DEF s
<1>4. Reserved(s, Free(b'), switches')
  <2>1. Reserved(s, Free(b'), switches)
        BY <1>2, MoreBlocks
  <2> QED  BY <2>1, SameEnds
<1>5. /\ Frames(ts \o s, prog) /\ Reserved(ts \o s, Free(b'), switches')
      /\ Nested(ts \o s, Len(switches'), sawLoop)
      BY <1>2, <1>3, <1>4, PushPlain DEF Plain
<1>6. NoFor(ts \o s)
  <2>1. NoFor(ts) /\ s \in Seq(Tasks)
        BY <1>2 DEF NoFor, Frames
  <2> QED  BY <1>2, <2>1, PushNoFor
<1>7. Waiting(ts \o s, b'.filled, prog)
      BY <1>6, NoForWaits
<1>8. Loose(b', Instrs)
      BY DEF Good
<1>9. /\ todo' = ts \o s /\ loops' = loops /\ sawLoop' = sawLoop
      /\ prog' = prog /\ next' = next /\ out' = out /\ err' = err
      BY DEF Push, Frame, s
<1> QED  BY <1>5, <1>7, <1>8, <1>9, Conclude DEF IInv, ContextTypes, ResultTypes

\* The statement inside the one on top.
LEMMA OneStmt ==
  ASSUME prog \in Programs, NEW n \in DOMAIN prog.node
  PROVE  /\ <<Stmt(n)>> \in Seq(Tasks)
         /\ \A i \in 1..Len(<<Stmt(n)>>) :
               TaskOK(<<Stmt(n)>>[i], prog) /\ <<Stmt(n)>>[i].op = "stmt"
<1>1. Stmt(n) \in Tasks /\ TaskOK(Stmt(n), prog) /\ Stmt(n).op = "stmt"
      BY StmtFacts
<1>2. <<Stmt(n)>> \in Seq(Tasks) /\ Len(<<Stmt(n)>>) = 1 /\ <<Stmt(n)>>[1] = Stmt(n)
      BY <1>1, Single
<1> QED  BY <1>1, <1>2

\* A compound statement keeps the invariant: its statements replace it.
LEMMA CompoundKeeps == IInv /\ Compound => IInv'
<1> SUFFICES ASSUME IInv, Compound PROVE IInv'
    OBVIOUS
<1> DEFINE n  == Top.node
           k  == Len(Node(n).kids)
           ts == [i \in DOMAIN Node(n).kids |-> Stmt(Kid(n, i))]
<1>1. Compiling("compound") /\ b' = b /\ Push(ts)
      BY DEF Compound
<1>2. /\ Running /\ n \in DOMAIN prog.node /\ Pending(Top) = {} /\ ~IsOpen(Top)
      /\ ~Initial(Top, prog)
      BY <1>1, CompilingFacts
<1>3. prog \in Programs /\ labels \in Maps /\ switches \in Seq(SwitchSet)
      BY DEF IInv, ContextTypes
<1>4. /\ Node(n).kids \in Seq(DOMAIN prog.node)
      /\ \A i \in 1..k : Kid(n, i) \in DOMAIN prog.node
      BY <1>2, <1>3, NodeFacts
<1>5. k \in Nat /\ DOMAIN Node(n).kids = 1..k
      BY <1>4, LenProperties
<1>6. \A i \in 1..k : Stmt(Kid(n, i)) \in Tasks /\ TaskOK(Stmt(Kid(n, i)), prog)
                      /\ Stmt(Kid(n, i)).op = "stmt"
      BY <1>3, <1>4, StmtFacts
<1> HIDE DEF k, n
<1>7. /\ ts \in [1..k -> Tasks]
      /\ \A i \in 1..k : TaskOK(ts[i], prog) /\ ts[i].op = "stmt"
      BY <1>5, <1>6
<1> HIDE DEF ts
<1>8. ts \in Seq(Tasks) /\ Len(ts) = k
      BY <1>5, <1>7, SeqDef, LenProperties
<1>9. Good(b', Instrs)
      BY <1>1, <1>2, TopFacts
<1>10. /\ Frame /\ UNCHANGED <<loops, sawLoop>> /\ labels' = labels /\ switches' = switches
      BY DEF Compound, Context
<1> QED  BY <1>1, <1>2, <1>3, <1>7, <1>8, <1>9, <1>10, PlainKeeps

\* A label keeps the invariant: its block is opened, and the statement replaces it.
LEMMA LabelKeeps == IInv /\ Label => IInv'
<1> SUFFICES ASSUME IInv, Label PROVE IInv'
    OBVIOUS
<1> DEFINE n    == Top.node
           name == Node(n).val
           blk  == Fresh(b, 1)
           c    == CreateBlocks(b, 1)
           j    == JumpToBlock(c, blk)
<1>1. /\ Compiling("label") /\ b' = SwitchToBlock(j, blk)
      /\ labels' = [labels EXCEPT ![name] = blk]
      /\ prog' = prog /\ next' = next /\ out' = out
      /\ loops' = loops /\ switches' = switches /\ sawLoop' = sawLoop
      BY DEF Label, Bind, Context
<1>2. /\ Running /\ n \in DOMAIN prog.node /\ Pending(Top) = {} /\ ~IsOpen(Top)
      /\ ~Initial(Top, prog) /\ Node(n).kind = "label" /\ Top.op = "stmt"
      BY <1>1, CompilingFacts
<1>3. /\ prog \in Programs /\ labels \in [Vals -> Nat] /\ switches \in Seq(SwitchSet)
      BY DEF IInv, ContextTypes, Maps
<1>4. name \in Vals
      BY <1>2, <1>3, NodeFacts
<1>5. Good(b, Instrs) /\ 1 \in Nat /\ 1 \in 1..1
      BY <1>2, TopFacts
<1>6. /\ Good(c, Instrs) /\ Free(b) \subseteq Free(c)
      /\ blk \in Free(c) /\ blk \notin Free(b) /\ blk \in Block
      BY <1>5, FreeCreate
<1> HIDE DEF c, blk
<1>7. Good(j, Instrs) /\ Free(c) \subseteq Free(j)
      BY <1>6, FreeJump
<1> HIDE DEF j
<1>8. Good(b', Instrs) /\ Free(j) \ {blk} \subseteq Free(b')
      BY <1>1, <1>6, <1>7, FreeSwitch DEF Good
<1>9. Free(b) \subseteq Free(b')
      BY <1>6, <1>7, <1>8
<1>10. labels' \in Maps
  <2>1. blk \in Nat
        BY <1>6 DEF Block
  <2> QED  BY <1>1, <1>3, <2>1 DEF Maps
<1>11. CASE labels[name] # 0 /\ err' = "LabelRedeclaration" /\ UNCHANGED todo
  <2>1. /\ Frames(todo, prog) /\ Reserved(todo, Free(b), switches)
        /\ Nested(todo, Len(switches), sawLoop) /\ Waiting(todo, b.filled, prog)
        BY DEF IInv, StackOK, WaitingOK
  <2>2. Reserved(todo, Free(b'), switches)
        BY <1>9, <2>1, MoreBlocks
  <2>3. Waiting(todo, b'.filled, prog)
    <3>1. ~b'.filled
          BY <1>1, <1>6, <1>7, FreeSwitch DEF Good
    <3> QED  BY <2>1, <3>1 DEF Waiting
  <2>4. err' \in Errors /\ Loose(b', Instrs)
        BY <1>8, <1>11 DEF Errors, Good
  <2> QED  BY <1>1, <1>8, <1>10, <1>11, <2>1, <2>2, <2>3, <2>4, Conclude
           DEF IInv, ContextTypes, ResultTypes
<1>12. CASE labels[name] = 0 /\ Push(<<Stmt(Kid(n, 1))>>) /\ UNCHANGED err
  <2>1. Kid(n, 1) \in DOMAIN prog.node
        BY <1>2, <1>3, KidFacts DEF Unary
  <2> HIDE DEF n
  <2>2. /\ <<Stmt(Kid(n, 1))>> \in Seq(Tasks)
        /\ \A i \in 1..Len(<<Stmt(Kid(n, 1))>>) :
             TaskOK(<<Stmt(Kid(n, 1))>>[i], prog) /\ <<Stmt(Kid(n, 1))>>[i].op = "stmt"
        BY <1>3, <2>1, OneStmt
  <2>3. Frame
        BY <1>1, <1>12 DEF Frame
  <2> QED  BY <1>1, <1>2, <1>3, <1>8, <1>9, <1>10, <1>12, <2>2, <2>3, PlainKeeps
<1> QED  BY <1>11, <1>12 DEF Label

\* case and default: the block they name, and the builder after it.
LEMMA EntryFacts ==
  ASSUME Good(b, Instrs)
  PROVE  Good(AtEntry, Instrs) /\ Free(b) \subseteq Free(AtEntry) /\ EntryBlock \in Block
<1> DEFINE blk == Fresh(b, 1)
           c   == CreateBlocks(b, 1)
           j   == JumpToBlock(c, blk)
<1>1. 1 \in Nat /\ 1 \in 1..1 /\ b.filled \in BOOLEAN
      BY DEF Good, Loose, Builder
<1>2. /\ Good(c, Instrs) /\ Free(b) \subseteq Free(c)
      /\ blk \in Free(c) /\ blk \notin Free(b) /\ blk \in Block
      BY <1>1, FreeCreate
<1>3. b.cur \in Block
      BY FreeFacts
<1>4. AtEntry = IF b.filled THEN SwitchToBlock(j, blk) ELSE b
      BY DEF AtEntry
<1>5. EntryBlock = IF b.filled THEN blk ELSE b.cur
      BY DEF EntryBlock
<1> HIDE DEF c, blk
<1>6. Good(j, Instrs) /\ Free(c) \subseteq Free(j)
      BY <1>2, FreeJump
<1> HIDE DEF j
<1>7. Good(SwitchToBlock(j, blk), Instrs) /\ Free(j) \ {blk} \subseteq Free(SwitchToBlock(j, blk))
      BY <1>2, <1>6, FreeSwitch DEF Good
<1> QED  BY <1>2, <1>3, <1>4, <1>5, <1>6, <1>7

\* The innermost switch with another entry.
LEMMA SetSwitchFacts ==
  ASSUME IInv, switches # <<>>, NEW w \in SwitchSet, w.end = LastSwitch.end, SetSwitch(w)
  PROVE  /\ switches' \in Seq(SwitchSet) /\ Len(switches') = Len(switches)
         /\ \A i \in 1..Len(switches) : switches'[i].end = switches[i].end
<1>1. switches \in Seq(SwitchSet)
      BY DEF IInv, ContextTypes
<1>2. Len(switches) \in 1..Len(switches)
      BY <1>1, EmptySeq
<1>3. /\ switches' \in Seq(SwitchSet) /\ Len(switches') = Len(switches)
      /\ \A i \in 1..Len(switches) :
            switches'[i] = IF i = Len(switches) THEN w ELSE switches[i]
      BY <1>1, <1>2, ExceptSeq DEF SetSwitch
<1> QED  BY <1>3 DEF LastSwitch

\* Where a switch is open, the innermost one has an end block.
LEMMA LastSwitchFacts ==
  ASSUME IInv, switches # <<>>
  PROVE  LastSwitch \in SwitchSet /\ LastSwitch.end \in Block
<1>1. switches \in Seq(SwitchSet)
      BY DEF IInv, ContextTypes
<1>2. Len(switches) \in 1..Len(switches)
      BY <1>1, EmptySeq
<1>3. LastSwitch \in SwitchSet
      BY <1>1, <1>2, ElementOfSeq DEF LastSwitch
<1> QED  BY <1>3 DEF SwitchSet

\* case keeps the invariant: its block is opened and noted in the switch.
LEMMA CaseKeeps == IInv /\ Case => IInv'
<1> SUFFICES ASSUME IInv, Case PROVE IInv'
    OBVIOUS
<1> DEFINE n == Top.node
           v == Node(n).val
<1>1. Compiling("case")
      BY DEF Case
<1>2. /\ Running /\ n \in DOMAIN prog.node /\ Pending(Top) = {} /\ ~IsOpen(Top)
      /\ ~Initial(Top, prog) /\ Node(n).kind = "case"
      BY <1>1, CompilingFacts
<1>3. prog \in Programs /\ labels \in Maps
      BY DEF IInv
<1>4. CASE Fail("CaseOutsideSwitch") /\ UNCHANGED b
      BY <1>4, FailKeeps DEF Errors
<1>5. CASE Fail("DuplicateCase") /\ UNCHANGED b
      BY <1>5, FailKeeps DEF Errors
<1>6. CASE /\ switches # <<>>
           /\ SetSwitch([LastSwitch EXCEPT !.cases[v] = EntryBlock])
           /\ b' = AtEntry
           /\ Push(<<Stmt(Kid(n, 1))>>)
           /\ UNCHANGED <<labels, loops, sawLoop>> /\ Frame
  <2>1. Kid(n, 1) \in DOMAIN prog.node /\ v \in Vals
        BY <1>2, <1>3, KidFacts, NodeFacts DEF Unary
  <2>2. /\ Good(b', Instrs) /\ Free(b) \subseteq Free(b') /\ EntryBlock \in Block
        BY <1>2, <1>6, TopFacts, EntryFacts
  <2>3. LastSwitch \in [cases : [Vals -> Nat], default : Nat, end : Block]
        BY <1>6, LastSwitchFacts DEF SwitchSet, Maps
  <2>4. EntryBlock \in Nat
        BY <2>2 DEF Block
  <2> DEFINE w == [LastSwitch EXCEPT !.cases[v] = EntryBlock]
  <2> HIDE DEF v
  <2>5. w \in [cases : [Vals -> Nat], default : Nat, end : Block] /\ w.end = LastSwitch.end
        BY <2>1, <2>3, <2>4
  <2>6. w \in SwitchSet
        BY <2>5 DEF SwitchSet, Maps
  <2> HIDE DEF w, n
  <2>7. SetSwitch(w)
        BY <1>6 DEF w
  <2>8. /\ switches' \in Seq(SwitchSet) /\ Len(switches') = Len(switches)
        /\ \A i \in 1..Len(switches) : switches'[i].end = switches[i].end
        BY <1>6, <2>5, <2>6, <2>7, SetSwitchFacts
  <2>9. /\ <<Stmt(Kid(n, 1))>> \in Seq(Tasks)
        /\ \A i \in 1..Len(<<Stmt(Kid(n, 1))>>) :
             TaskOK(<<Stmt(Kid(n, 1))>>[i], prog) /\ <<Stmt(Kid(n, 1))>>[i].op = "stmt"
        BY <1>3, <2>1, OneStmt
  <2> QED  BY <1>2, <1>3, <1>6, <2>2, <2>8, <2>9, PlainKeeps
<1> QED  BY <1>4, <1>5, <1>6 DEF Case

\* default keeps the invariant: its block is opened and noted in the switch.
LEMMA DefaultKeeps == IInv /\ Default => IInv'
<1> SUFFICES ASSUME IInv, Default PROVE IInv'
    OBVIOUS
<1> DEFINE n == Top.node
<1>1. Compiling("default")
      BY DEF Default
<1>2. /\ Running /\ n \in DOMAIN prog.node /\ Pending(Top) = {} /\ ~IsOpen(Top)
      /\ ~Initial(Top, prog) /\ Node(n).kind = "default"
      BY <1>1, CompilingFacts
<1>3. prog \in Programs /\ labels \in Maps
      BY DEF IInv
<1>4. CASE Fail("CaseOutsideSwitch") /\ UNCHANGED b
      BY <1>4, FailKeeps DEF Errors
<1>5. CASE Fail("DuplicateCase") /\ UNCHANGED b
      BY <1>5, FailKeeps DEF Errors
<1>6. CASE /\ switches # <<>>
           /\ SetSwitch([LastSwitch EXCEPT !.default = EntryBlock])
           /\ b' = AtEntry
           /\ Push(<<Stmt(Kid(n, 1))>>)
           /\ UNCHANGED <<labels, loops, sawLoop>> /\ Frame
  <2>1. Kid(n, 1) \in DOMAIN prog.node
        BY <1>2, <1>3, KidFacts DEF Unary
  <2>2. /\ Good(b', Instrs) /\ Free(b) \subseteq Free(b') /\ EntryBlock \in Block
        BY <1>2, <1>6, TopFacts, EntryFacts
  <2>3. LastSwitch \in [cases : Maps, default : Nat, end : Block]
        BY <1>6, LastSwitchFacts DEF SwitchSet
  <2>4. EntryBlock \in Nat
        BY <2>2 DEF Block
  <2> DEFINE w == [LastSwitch EXCEPT !.default = EntryBlock]
  <2>5. w \in [cases : Maps, default : Nat, end : Block] /\ w.end = LastSwitch.end
        BY <2>3, <2>4
  <2>6. w \in SwitchSet
        BY <2>5 DEF SwitchSet
  <2> HIDE DEF w, n
  <2>7. SetSwitch(w)
        BY <1>6 DEF w
  <2>8. /\ switches' \in Seq(SwitchSet) /\ Len(switches') = Len(switches)
        /\ \A i \in 1..Len(switches) : switches'[i].end = switches[i].end
        BY <1>6, <2>5, <2>6, <2>7, SetSwitchFacts
  <2>9. /\ <<Stmt(Kid(n, 1))>> \in Seq(Tasks)
        /\ \A i \in 1..Len(<<Stmt(Kid(n, 1))>>) :
             TaskOK(<<Stmt(Kid(n, 1))>>[i], prog) /\ <<Stmt(Kid(n, 1))>>[i].op = "stmt"
        BY <1>3, <2>1, OneStmt
  <2> QED  BY <1>2, <1>3, <1>6, <2>2, <2>8, <2>9, PlainKeeps
<1> QED  BY <1>4, <1>5, <1>6 DEF Default

\* for keeps the invariant: its init statement is compiled before the loop.
LEMMA ForKeeps == IInv /\ For => IInv'
<1> SUFFICES ASSUME IInv, For PROVE IInv'
    OBVIOUS
<1> DEFINE n == Top.node
           k == Kid(n, 1)
           t == Task("for", n, <<>>, FALSE)
           s == Tail(todo)
           r == <<Stmt(k), t>> \o s
<1>1. /\ Compiling("for") /\ todo' = r /\ b' = b /\ Frame
      /\ UNCHANGED <<labels, loops, switches, sawLoop>>
      BY DEF For, Push, Context
<1>2. /\ Running /\ n \in DOMAIN prog.node /\ n \in Nat /\ Pending(Top) = {} /\ ~IsOpen(Top)
      /\ ~Initial(Top, prog) /\ Node(n).kind = "for" /\ ~b.filled
      BY <1>1, CompilingFacts DEF JumpTargetKinds
<1>3. prog \in Programs /\ sawLoop \in BOOLEAN
      BY DEF IInv, ContextTypes
<1>4. /\ Frames(s, prog) /\ Reserved(s, Free(b), switches)
      /\ Nested(s, Len(switches), sawLoop) /\ NoFor(s) /\ Len(switches) \in Nat
      /\ Good(b, Instrs)
  <2>1. Free(b) \ Pending(Top) = Free(b)
        BY <1>2
  <2> QED  BY <1>2, <2>1, TopFacts
<1>5. k \in DOMAIN prog.node /\ Node(k).kind \in {"expr", "decl"}
      BY <1>2, <1>3, KidFacts, NodeFacts
<1> HIDE DEF n, k
<1>6. t = [op |-> "for", node |-> n, blk |-> <<>>, flag |-> FALSE]
      BY DEF Task
<1> HIDE DEF t
<1>7. t \in Tasks /\ TaskOK(t, prog) /\ t.op = "for"
  <2>1. <<>> \in Seq(Block) /\ Len(<<>>) = 0
        BY EmptySeq
  <2>2. t \in Tasks
        BY <1>2, <1>6, <2>1 DEF Tasks, TaskOps
  <2> QED  BY <1>2, <1>6, <2>1, <2>2 DEF TaskOK, Width, Opens, Plain, Node
<1>8. Stmt(k) \in Tasks /\ TaskOK(Stmt(k), prog) /\ Stmt(k).op = "stmt" /\ Stmt(k).node = k
      BY <1>3, <1>5, StmtFacts
<1> DEFINE ts == <<Stmt(k), t>>
<1>9. /\ ts \in Seq(Tasks) /\ Len(ts) = 2 /\ ts[1] = Stmt(k) /\ ts[2] = t
      /\ \A i \in 1..2 : i = 1 \/ i = 2
      BY <1>7, <1>8
<1>10. s \in Seq(Tasks)
      BY <1>4 DEF Frames
<1>11. r = ts \o s
      OBVIOUS
<1> HIDE DEF ts, s, r
<1>12. \A i \in 1..Len(ts) : TaskOK(ts[i], prog) /\ ts[i].op \in Plain
      BY <1>7, <1>8, <1>9 DEF Plain
<1>13. /\ Frames(r, prog) /\ Reserved(r, Free(b), switches) /\ Nested(r, Len(switches), sawLoop)
      BY <1>3, <1>4, <1>9, <1>11, <1>12, PushPlain
<1>14. Waiting(r, b.filled, prog)
  <2>1. /\ \A i \in 1..2 : r[i] = ts[i]
        /\ \A i \in 1..Len(s) : r[i + 2] = s[i]
        /\ \A i \in 1..Len(r) : i \in 1..2 \/ i - 2 \in 1..Len(s)
    <3>1. /\ \A i \in 1..Len(ts) : r[i] = ts[i]
          /\ \A i \in 1..Len(s) : r[i + Len(ts)] = s[i]
          /\ \A i \in 1..Len(r) : i \in 1..Len(ts) \/ i - Len(ts) \in 1..Len(s)
      <4>1. /\ \A i \in 1..Len(ts) : (ts \o s)[i] = ts[i]
            /\ \A i \in 1..Len(s) : (ts \o s)[i + Len(ts)] = s[i]
            /\ \A i \in 1..Len(ts \o s) : i \in 1..Len(ts) \/ i - Len(ts) \in 1..Len(s)
        <5>1. ts \in Seq(Tasks) /\ s \in Seq(Tasks)
              BY <1>9, <1>10
        <5> QED  BY <5>1, OnTopOf
      <4> QED  BY <1>11, <4>1
    <3> QED  BY <1>9, <3>1
  <2>2. Initial(Stmt(k), prog)
        BY <1>5, <1>8 DEF Initial, Node
  <2>3. ASSUME NEW i \in 1..Len(r), r[i].op = "for"
        PROVE  i = 2
    <3>1. CASE i - 2 \in 1..Len(s)
      <4>1. (i - 2) + 2 = i
            OBVIOUS
      <4>2. r[(i - 2) + 2] = s[i - 2]
            BY <2>1, <3>1
      <4>3. s[i - 2].op # "for"
            BY <1>4, <3>1 DEF NoFor
      <4> QED  BY <2>3, <4>1, <4>2, <4>3
    <3>2. CASE i \in 1..2
          BY <1>8, <1>9, <2>1, <2>3, <3>2
    <3> QED  BY <2>1, <3>1, <3>2
  <2>4. r[1] = Stmt(k)
        BY <1>9, <2>1
  <2> QED  BY <1>2, <2>2, <2>3, <2>4 DEF Waiting
<1>15. Loose(b, Instrs)
      BY <1>4 DEF Good
<1> QED  BY <1>1, <1>4, <1>13, <1>14, <1>15, Conclude DEF IInv, ContextTypes, ResultTypes, Frame

-----------------------------------------------------------------------------
(***************************************************************************)
(* Statements whose rest waits on the stack with the blocks it opens.      *)
(***************************************************************************)

\* The rest of a statement, as a task, has the fields of a task.
LEMMA TaskFacts ==
  ASSUME NEW op \in TaskOps, NEW n \in Nat, NEW blk \in Seq(Block), NEW flag \in BOOLEAN
  PROVE  /\ Task(op, n, blk, flag) \in Tasks
         /\ Task(op, n, blk, flag).op = op /\ Task(op, n, blk, flag).node = n
         /\ Task(op, n, blk, flag).blk = blk
         /\ Task(op, n, blk, flag).flag <=> flag
BY DEF Task, Tasks

\* The blocks a task will open are blocks.
LEMMA BlkFacts ==
  ASSUME NEW p, NEW t, TaskOK(t, p)
  PROVE  \A i \in 1..Width(t.op) : t.blk[i] \in Block
<1>1. t.blk \in Seq(Block) /\ Len(t.blk) = Width(t.op)
      BY DEF TaskOK, Tasks
<1> QED  BY <1>1, ElementOfSeq

\* The rest of a statement keeps the invariant when it opens the block it reserved.
LEMMA RestKeeps ==
  ASSUME IInv, Running, ~Initial(Top, prog), ~IsOpen(Top),
         NEW ts, Inner(ts, prog), NEW t, Resting(t, prog, sawLoop), t.op # "endSwitch",
         Pending(t) \cap (Free(b) \ Pending(Top)) = {},
         todo' = ts \o (<<t>> \o Tail(todo)),
         Good(b', Instrs), (Free(b) \ Pending(Top)) \cup Pending(t) \subseteq Free(b'),
         Frame, UNCHANGED <<labels, switches>>, loops' \in Seq(Block \X Block),
         sawLoop' = IF t.op \in LoopTasks THEN TRUE ELSE sawLoop
  PROVE  IInv'
<1> DEFINE s == Tail(todo)
           U == Free(b) \ Pending(Top)
           r == ts \o (<<t>> \o s)
<1>1. /\ Frames(s, prog) /\ Reserved(s, U, switches)
      /\ Nested(s, Len(switches), sawLoop) /\ NoFor(s) /\ Len(switches) \in Nat
      BY TopFacts
<1>2. sawLoop \in BOOLEAN
      BY DEF IInv, ContextTypes
<1>3. IsOpen(t) <=> t.op \in LoopTasks
      BY DEF IsOpen
<1>4. U \cup Pending(t) \subseteq Free(b')
      OBVIOUS
<1>5. Pending(t) \cap U = {}
      OBVIOUS
<1>6. todo' = r
      OBVIOUS
<1> HIDE DEF s, U
<1>7. /\ Frames(r, prog) /\ Reserved(r, U \cup Pending(t), switches)
      /\ ~IsOpen(t) => Nested(r, Len(switches), sawLoop)
      /\ t.op \in LoopTasks => Nested(r, Len(switches), TRUE)
      /\ NoFor(r)
      BY <1>1, <1>2, <1>5, PushRest
<1> HIDE DEF r
<1>8. Reserved(r, Free(b'), switches) /\ Waiting(r, b'.filled, prog)
      BY <1>4, <1>7, MoreBlocks, NoForWaits
<1>9. Nested(r, Len(switches), sawLoop') /\ sawLoop' \in BOOLEAN
      BY <1>2, <1>3, <1>7
<1>10. Loose(b', Instrs)
      BY DEF Good
<1> QED  BY <1>6, <1>7, <1>8, <1>9, <1>10, Conclude DEF IInv, ContextTypes, ResultTypes, Frame

\* The end of a statement keeps the invariant: jump to its last block, open it.
LEMMA EndKeeps ==
  ASSUME IInv, Running, Top.op \in {"endIf", "endElse"} \cup LoopTasks, Pop,
         Good(b', Instrs), Free(b) \ Pending(Top) \subseteq Free(b'),
         Frame, UNCHANGED <<labels, switches>>, loops' \in Seq(Block \X Block),
         sawLoop' = IF Top.op \in LoopTasks THEN Top.flag ELSE sawLoop
  PROVE  IInv'
<1> DEFINE s == Tail(todo)
<1>1. ~Initial(Top, prog) /\ (~IsOpen(Top) <=> Top.op \notin LoopTasks)
      BY DEF Initial, IsOpen, LoopTasks
<1>2. /\ Frames(s, prog) /\ Reserved(s, Free(b) \ Pending(Top), switches) /\ NoFor(s)
      /\ ~IsOpen(Top) => Nested(s, Len(switches), sawLoop)
      /\ Top.op \in LoopTasks => Nested(s, Len(switches), Top.flag)
      /\ Top \in Tasks
      BY <1>1, TopFacts
<1>3. Reserved(s, Free(b'), switches) /\ Waiting(s, b'.filled, prog)
      BY <1>2, MoreBlocks, NoForWaits
<1>4. sawLoop \in BOOLEAN /\ Top.flag \in BOOLEAN
      BY <1>2 DEF IInv, ContextTypes, Tasks
<1>5. Nested(s, Len(switches), sawLoop') /\ sawLoop' \in BOOLEAN
      BY <1>1, <1>2, <1>4
<1>6. Loose(b', Instrs) /\ todo' = s
      BY DEF Good, Pop
<1> HIDE DEF s
<1> QED  BY <1>2, <1>3, <1>5, <1>6, Conclude DEF IInv, ContextTypes, ResultTypes, Frame

\* A jump to a block that is then opened.
LEMMA OpenFacts ==
  ASSUME NEW bl, Good(bl, Instrs), NEW end \in Free(bl)
  PROVE  /\ Good(SwitchToBlock(JumpToBlock(bl, end), end), Instrs)
         /\ ~SwitchToBlock(JumpToBlock(bl, end), end).filled
         /\ Free(bl) \ {end} \subseteq Free(SwitchToBlock(JumpToBlock(bl, end), end))
<1> DEFINE j == JumpToBlock(bl, end)
<1>1. end \in Block
      BY FreeFacts
<1>2. Good(j, Instrs) /\ Free(bl) \subseteq Free(j)
      BY <1>1, FreeJump
<1> HIDE DEF j
<1>3. /\ Good(SwitchToBlock(j, end), Instrs) /\ ~SwitchToBlock(j, end).filled
      /\ Free(j) \ {end} \subseteq Free(SwitchToBlock(j, end))
      BY <1>2, FreeSwitch DEF Good
<1> QED  BY <1>2, <1>3 DEF j

\* The end of an if without else keeps the invariant.
LEMMA EndIfKeeps == IInv /\ EndIf => IInv'
<1> SUFFICES ASSUME IInv, EndIf PROVE IInv'
    OBVIOUS
<1> DEFINE end == Top.blk[1]
<1>1. /\ Running /\ Top.op = "endIf" /\ b' = SwitchToBlock(JumpToBlock(b, end), end)
      /\ Pop /\ Frame /\ UNCHANGED <<labels, loops, switches, sawLoop>>
      BY DEF EndIf, At, Context
<1>2. Good(b, Instrs) /\ Pending(Top) \subseteq Free(b)
      BY <1>1, TopFacts
<1>3. Pending(Top) = {end}
      BY <1>1 DEF Pending, Opens, Plain
<1> HIDE DEF end
<1>4. Good(b', Instrs) /\ Free(b) \ {end} \subseteq Free(b')
      BY <1>1, <1>2, <1>3, OpenFacts
<1>5. Top.op \notin LoopTasks /\ loops \in Seq(Block \X Block)
      BY <1>1 DEF LoopTasks, IInv, ContextTypes
<1> QED  BY <1>1, <1>3, <1>4, <1>5, EndKeeps

\* The end of an else keeps the invariant.
LEMMA EndElseKeeps == IInv /\ EndElse => IInv'
<1> SUFFICES ASSUME IInv, EndElse PROVE IInv'
    OBVIOUS
<1> DEFINE end == Top.blk[1]
<1>1. /\ Running /\ Top.op = "endElse"
      /\ b' = IF ~b.filled THEN SwitchToBlock(JumpToBlock(b, end), end)
              ELSE IF ~Top.flag THEN SwitchToBlock(b, end)
              ELSE b
      /\ Pop /\ Frame /\ UNCHANGED <<labels, loops, switches, sawLoop>>
      BY DEF EndElse, At, Context
<1>2. Good(b, Instrs) /\ Pending(Top) \subseteq Free(b)
      BY <1>1, TopFacts
<1>3. Pending(Top) = {end}
      BY <1>1 DEF Pending, Opens, Plain
<1> HIDE DEF end
<1>4. /\ Good(SwitchToBlock(JumpToBlock(b, end), end), Instrs)
      /\ Free(b) \ {end} \subseteq Free(SwitchToBlock(JumpToBlock(b, end), end))
      BY <1>2, <1>3, OpenFacts
<1>5. /\ Good(SwitchToBlock(b, end), Instrs)
      /\ Free(b) \ {end} \subseteq Free(SwitchToBlock(b, end))
      BY <1>2, <1>3, FreeSwitch DEF Good
<1>6. Good(b', Instrs) /\ Free(b) \ {end} \subseteq Free(b')
  <2>1. CASE ~b.filled
        BY <1>1, <1>4, <2>1
  <2>2. CASE b.filled /\ ~Top.flag
        BY <1>1, <1>5, <2>2
  <2>3. CASE b.filled /\ Top.flag
        BY <1>1, <1>2, <2>3
  <2> QED  BY <2>1, <2>2, <2>3
<1>7. Top.op \notin LoopTasks /\ loops \in Seq(Block \X Block)
      BY <1>1 DEF LoopTasks, IInv, ContextTypes
<1> QED  BY <1>1, <1>3, <1>6, <1>7, EndKeeps

\* The else branch keeps the invariant: it is opened after the if body.
LEMMA ElseKeeps == IInv /\ Else => IInv'
<1> SUFFICES ASSUME IInv, Else PROVE IInv'
    OBVIOUS
<1> DEFINE n   == Top.node
           els == Top.blk[1]
           end == Top.blk[2]
           k   == Kid(n, 2)
           t   == Task("endElse", n, <<end>>, IfHasReturn)
           s   == Tail(todo)
           j   == JumpToBlock(b, end)
<1>1. /\ Running /\ Top.op = "else" /\ b' = SwitchToBlock(j, els)
      /\ todo' = <<Stmt(k), t>> \o s /\ Frame
      /\ UNCHANGED <<labels, loops, switches, sawLoop>>
      BY DEF Else, At, Context, Push
<1>2. /\ Good(b, Instrs) /\ b.filled \in BOOLEAN /\ Pending(Top) \subseteq Free(b)
      /\ TaskOK(Top, prog) /\ Frames(s, prog)
      BY <1>1, TopFacts
<1>3. Pending(Top) = {els, end}
      BY <1>1 DEF Pending, Opens, Plain
<1>4. els # end /\ n \in DOMAIN prog.node /\ Len(Node(n).kids) = 2
      BY <1>1, <1>2 DEF TaskOK, Opens, Plain, Node
<1>5. prog \in Programs /\ loops \in Seq(Block \X Block)
      BY DEF IInv, ContextTypes
<1>6. n \in Nat /\ k \in DOMAIN prog.node
      BY <1>4, <1>5, NodeFacts, KidFacts
<1> HIDE DEF k, n, els, end
<1>7. els \in Block /\ end \in Block
      BY <1>2, <1>3, FreeFacts
<1>8. Good(j, Instrs) /\ Free(b) \subseteq Free(j)
      BY <1>2, <1>7, FreeJump
<1> HIDE DEF j
<1>9. Good(b', Instrs) /\ Free(j) \ {els} \subseteq Free(b')
      BY <1>1, <1>2, <1>3, <1>8, FreeSwitch DEF Good
<1>10. /\ t \in Tasks /\ t.op = "endElse" /\ t.node = n /\ t.blk = <<end>>
  <2>1. <<end>> \in Seq(Block) /\ IfHasReturn \in BOOLEAN /\ "endElse" \in TaskOps
        BY <1>2, <1>7 DEF IfHasReturn, TaskOps
  <2> QED  BY <1>6, <2>1 DEF Task, Tasks
<1> HIDE DEF t, s
<1>11. TaskOK(t, prog) /\ Pending(t) = {end} /\ t.op \notin LoopTasks
      BY <1>4, <1>10 DEF TaskOK, Width, Opens, Plain, Pending, LoopTasks
<1>12. Inner(<<Stmt(k)>>, prog) /\ Resting(t, prog, sawLoop) /\ t.op # "endSwitch"
       /\ ~IsOpen(t)
      BY <1>5, <1>6, <1>10, <1>11, OneStmt DEF Inner, Resting, IsOpen
<1>13. todo' = <<Stmt(k)>> \o (<<t>> \o s)
  <2>1. Stmt(k) \in Tasks /\ s \in Seq(Tasks)
        BY <1>2, <1>5, <1>6, StmtFacts DEF Frames
  <2>2. <<Stmt(k), t>> \o s = <<Stmt(k)>> \o (<<t>> \o s)
        BY <1>10, <2>1, Pair
  <2> QED  BY <1>1, <2>2
<1>14. ~Initial(Top, prog) /\ ~IsOpen(Top)
      BY <1>1 DEF Initial, IsOpen, LoopTasks
<1>15. (Free(b) \ Pending(Top)) \cup Pending(t) \subseteq Free(b')
      BY <1>2, <1>3, <1>4, <1>8, <1>9, <1>11
<1>16. Pending(t) \cap (Free(b) \ Pending(Top)) = {}
      BY <1>3, <1>11
<1> QED  BY <1>1, <1>5, <1>9, <1>10, <1>11, <1>12, <1>13, <1>14, <1>15, <1>16, RestKeeps DEF s

\* An if keeps the invariant: two or three new blocks, the body opened.
LEMMA IfKeeps == IInv /\ If => IInv'
<1> SUFFICES ASSUME IInv, If PROVE IInv'
    OBVIOUS
<1> DEFINE n    == Top.node
           body == Fresh(b, 1)
           end  == Fresh(b, 2)
           els  == Fresh(b, 3)
           k    == Kid(n, 1)
           s    == Tail(todo)
<1>1. /\ Compiling("if") /\ Frame /\ UNCHANGED <<labels, loops, switches, sawLoop>>
      BY DEF If, Context
<1>2. /\ Running /\ n \in DOMAIN prog.node /\ n \in Nat /\ Pending(Top) = {} /\ ~IsOpen(Top)
      /\ ~Initial(Top, prog) /\ Node(n).kind = "if" /\ ~b.filled
      BY <1>1, CompilingFacts DEF JumpTargetKinds
<1>3. prog \in Programs /\ loops \in Seq(Block \X Block) /\ s \in Seq(Tasks) /\ Good(b, Instrs)
      BY <1>2, TopFacts DEF IInv, ContextTypes, Frames
<1>4. k \in DOMAIN prog.node
      BY <1>2, <1>3, KidFacts
<1>5. Stmt(k) \in Tasks /\ Inner(<<Stmt(k)>>, prog)
      BY <1>3, <1>4, StmtFacts, OneStmt DEF Inner
<1>6. ASSUME NEW m \in {2, 3}, NEW no, no = Fresh(b, m), NEW t, Resting(t, prog, sawLoop),
             t.op \in {"endIf", "else"},
             Pending(t) = {Fresh(b, i) : i \in 2..m},
             b' = SwitchToBlock(Ins(CreateBlocks(b, m), Br(n, body, no)), body),
             todo' = <<Stmt(k), t>> \o s
      PROVE  IInv'
  <2> DEFINE c == CreateBlocks(b, m)
             r == Ins(c, Br(n, body, no))
  <2>1. m \in Nat /\ 1 \in 1..m /\ m \in 1..m /\ 2..m \subseteq 1..m /\ 1 \notin 2..m
        BY <1>6
  <2>2. /\ Good(c, Instrs) /\ ~c.filled /\ Free(b) \subseteq Free(c)
        /\ \A i \in 1..m : /\ Fresh(b, i) \in Free(c) \ Free(b)
                           /\ Fresh(b, i) \in Block
        /\ \A i, j \in 1..m : i # j => Fresh(b, i) # Fresh(b, j)
        BY <1>2, <1>3, <2>1, FreeCreate
  <2>3. body \in Block /\ no \in Block /\ body \in Free(c) /\ body \notin Free(b)
        BY <1>6, <2>1, <2>2
  <2>4. Pending(t) \subseteq Free(c) /\ Pending(t) \cap Free(b) = {} /\ body \notin Pending(t)
        BY <1>6, <2>1, <2>2
  <2> HIDE DEF c, body
  <2>5. Br(n, body, no) \in Instrs
        BY <1>2, <2>3, InstrFacts
  <2>6. Loose(r, Instrs) /\ Free(c) \subseteq Free(r)
        BY <2>2, <2>5, FreeIns
  <2> HIDE DEF r
  <2>7. Good(SwitchToBlock(r, body), Instrs) /\ Free(r) \ {body} \subseteq Free(SwitchToBlock(r, body))
        BY <2>3, <2>6, FreeSwitch
  <2>8. b' = SwitchToBlock(r, body)
        BY <1>6 DEF r, c
  <2>9. (Free(b) \ Pending(Top)) \cup Pending(t) \subseteq Free(b') /\ Good(b', Instrs)
        BY <2>2, <2>3, <2>4, <2>6, <2>7, <2>8
  <2>10. Pending(t) \cap (Free(b) \ Pending(Top)) = {}
        BY <2>4
  <2>11. t \in Tasks /\ t.op # "endSwitch" /\ t.op \notin LoopTasks
        BY <1>6 DEF Resting, LoopTasks
  <2>12. todo' = <<Stmt(k)>> \o (<<t>> \o s)
        BY <1>3, <1>5, <1>6, <2>11, Pair
  <2> QED  BY <1>1, <1>2, <1>3, <1>5, <1>6, <2>9, <2>10, <2>11, <2>12, RestKeeps
<1>7. /\ end \in Block /\ els \in Block /\ els # end
  <2>1. 3 \in Nat /\ 2 \in 1..3 /\ 3 \in 1..3 /\ 2 # 3
        OBVIOUS
  <2>2. /\ \A i \in 1..3 : Fresh(b, i) \in Block
        /\ \A i, j \in 1..3 : i # j => Fresh(b, i) # Fresh(b, j)
        BY <1>3, <2>1, FreeCreate
  <2> QED  BY <2>1, <2>2
<1>8. CASE /\ Len(Node(n).kids) = 1
           /\ b' = SwitchToBlock(Ins(CreateBlocks(b, 2), Br(n, body, end)), body)
           /\ Push(<<Stmt(k), Task("endIf", n, <<end>>, FALSE)>>)
  <2> DEFINE t == Task("endIf", n, <<end>>, FALSE)
  <2>1. todo' = <<Stmt(k), t>> \o s
        BY <1>8 DEF Push
  <2>2. <<end>> \in Seq(Block) /\ "endIf" \in TaskOps
        BY <1>7 DEF TaskOps
  <2>3. t \in Tasks /\ t.op = "endIf" /\ t.node = n /\ t.blk = <<end>>
        BY <1>2, <2>2 DEF Task, Tasks
  <2> HIDE DEF t
  <2>4. TaskOK(t, prog) /\ Pending(t) = {end}
        BY <1>2, <2>3 DEF TaskOK, Width, Opens, Plain, Pending
  <2>5. Resting(t, prog, sawLoop)
        BY <2>3, <2>4 DEF Resting, IsOpen, LoopTasks
  <2>6. {Fresh(b, i) : i \in 2..2} = {end}
        OBVIOUS
  <2>7. end = Fresh(b, 2)
        OBVIOUS
  <2> HIDE DEF s, n, body, k, end
  <2> QED  BY <1>6, <1>8, <2>1, <2>3, <2>4, <2>5, <2>6, <2>7
<1>9. CASE /\ Len(Node(n).kids) = 2
           /\ b' = SwitchToBlock(Ins(CreateBlocks(b, 3), Br(n, body, els)), body)
           /\ Push(<<Stmt(k), Task("else", n, <<els, end>>, FALSE)>>)
  <2> DEFINE t == Task("else", n, <<els, end>>, FALSE)
  <2>1. todo' = <<Stmt(k), t>> \o s
        BY <1>9 DEF Push
  <2>2. <<els, end>> \in Seq(Block) /\ "else" \in TaskOps
        BY <1>7 DEF TaskOps
  <2>3. t \in Tasks /\ t.op = "else" /\ t.node = n /\ t.blk = <<els, end>>
        BY <1>2, <2>2 DEF Task, Tasks
  <2> HIDE DEF t
  <2>4. TaskOK(t, prog) /\ Pending(t) = {els, end}
        BY <1>2, <1>7, <1>9, <2>3 DEF TaskOK, Width, Opens, Plain, Pending, Node
  <2>5. Resting(t, prog, sawLoop)
        BY <2>3, <2>4 DEF Resting, IsOpen, LoopTasks
  <2>6. {Fresh(b, i) : i \in 2..3} = {els, end}
    <3>1. 2..3 = {2, 3}
          OBVIOUS
    <3> QED  BY <3>1
  <2>7. els = Fresh(b, 3)
        OBVIOUS
  <2> HIDE DEF s, n, body, k, els
  <2> QED  BY <1>6, <1>9, <2>1, <2>3, <2>4, <2>5, <2>6, <2>7
<1> QED  BY <1>8, <1>9 DEF If

-----------------------------------------------------------------------------
(***************************************************************************)
(* Loops.                                                                  *)
(***************************************************************************)

\* The builder once enter_loop has opened the loop's header.
LEMMA EnteredFacts ==
  ASSUME Good(b, Instrs), ~b.filled
  PROVE  /\ Good(Entered, Instrs) /\ ~Entered.filled
         /\ Free(b) \cup {Body(b), End(b)} \subseteq Free(Entered)
         /\ Header(b) \in Block /\ Body(b) \in Block /\ End(b) \in Block
         /\ Body(b) # End(b) /\ Body(b) \notin Free(b) /\ End(b) \notin Free(b)
<1> DEFINE c == CreateBlocks(b, 3)
           h == Header(b)
           r == Ins(c, Jump(h))
<1>1. /\ Good(c, Instrs) /\ ~c.filled /\ Free(b) \subseteq Free(c)
      /\ \A i \in 1..3 : /\ Fresh(b, i) \in Free(c) \ Free(b)
                         /\ Fresh(b, i) \in Block
      /\ \A i, j \in 1..3 : i # j => Fresh(b, i) # Fresh(b, j)
  <2>1. 3 \in Nat
        OBVIOUS
  <2> QED  BY <2>1, FreeCreate
<1>2. 1 \in 1..3 /\ 2 \in 1..3 /\ 3 \in 1..3 /\ 1 # 2 /\ 1 # 3 /\ 2 # 3 /\ 0 \in Nat
      OBVIOUS
<1> HIDE DEF c
<1>3. /\ h \in Free(c) \ Free(b) /\ Body(b) \in Free(c) \ Free(b) /\ End(b) \in Free(c) \ Free(b)
      /\ h \in Block /\ Body(b) \in Block /\ End(b) \in Block
      /\ h # Body(b) /\ h # End(b) /\ Body(b) # End(b)
      BY <1>1, <1>2 DEF Header, Body, End
<1>4. Jump(h) \in Instrs
      BY <1>2, <1>3, InstrFacts
<1>5. Loose(r, Instrs) /\ Free(c) \subseteq Free(r)
      BY <1>1, <1>4, FreeIns
<1> HIDE DEF r, h
<1>6. /\ Good(SwitchToBlock(r, h), Instrs) /\ ~SwitchToBlock(r, h).filled
      /\ Free(r) \ {h} \subseteq Free(SwitchToBlock(r, h))
      BY <1>3, <1>5, FreeSwitch
<1>7. Entered = SwitchToBlock(r, h)
      BY DEF Entered, r, h, c
<1> QED  BY <1>1, <1>3, <1>5, <1>6, <1>7 DEF h

\* The loop stack and last_saw_loop as enter_loop leaves them.
LEMMA EnterLoopFacts ==
  ASSUME IInv, Body(b) \in Block, End(b) \in Block, EnterLoop
  PROVE  /\ loops' \in Seq(Block \X Block) /\ sawLoop' = TRUE /\ switches' = switches
<1>1. loops \in Seq(Block \X Block) /\ <<Body(b), End(b)>> \in Block \X Block
      BY DEF IInv, ContextTypes
<1> QED  BY <1>1, AppendProperties DEF EnterLoop

\* The loop stack and last_saw_loop as exit_loop restores them.
LEMMA ExitLoopFacts ==
  ASSUME IInv, NEW old, ExitLoop(old)
  PROVE  /\ loops' \in Seq(Block \X Block) /\ sawLoop' = old /\ switches' = switches
<1>1. loops \in Seq(Block \X Block)
      BY DEF IInv, ContextTypes
<1>2. Len(loops) \in Nat /\ \A i \in 1..Len(loops) : loops[i] \in Block \X Block
      BY <1>1, LenProperties, ElementOfSeq
<1> DEFINE n == Len(loops) - 1
<1>3. 1 \in Int /\ n \in Int /\ \A i \in 1..n : loops[i] \in Block \X Block
      BY <1>2
<1>4. loops' = SubSeq(loops, 1, n)
      BY DEF ExitLoop
<1> HIDE DEF n
<1>5. loops' \in Seq(Block \X Block)
      BY <1>3, <1>4, SubSeqProperties
<1> QED  BY <1>5 DEF ExitLoop

\* while, and for once its init statement has been compiled.
LEMMA WhileTop ==
  ASSUME IInv, Compiling("while") \/ At("for")
  PROVE  /\ Running /\ Top.node \in DOMAIN prog.node /\ Top.node \in Nat
         /\ Node(Top.node).kind \in {"while", "for"}
         /\ Pending(Top) = {} /\ ~IsOpen(Top) /\ ~Initial(Top, prog) /\ ~b.filled
<1>1. CASE Compiling("while")
      BY <1>1, CompilingFacts DEF JumpTargetKinds
<1>2. CASE At("for")
  <2>1. Running /\ Top.op = "for"
        BY <1>2 DEF At
  <2>2. ~b.filled /\ TaskOK(Top, prog)
        BY <2>1, TopFacts
  <2>3. Top.node \in DOMAIN prog.node /\ Node(Top.node).kind = "for" /\ Top \in Tasks
        BY <2>1, <2>2 DEF TaskOK, Node
  <2>4. Top.node \in Nat
        BY <2>3 DEF Tasks
  <2>5. Pending(Top) = {} /\ ~IsOpen(Top) /\ ~Initial(Top, prog)
        BY <2>1 DEF Pending, Opens, Plain, IsOpen, LoopTasks, Initial
  <2> QED  BY <2>1, <2>2, <2>3, <2>4, <2>5
<1> QED  BY <1>1, <1>2

\* The body of a loop and what follows it replace the loop on the stack.
LEMMA LoopBodyFacts ==
  ASSUME prog \in Programs, NEW n \in DOMAIN prog.node, Node(n).kind \in {"while", "for"}
  PROVE  Inner(LoopBody(n), prog)
<1>1. n \in Nat
      BY NodeFacts
<1>2. CASE Node(n).kind = "while"
  <2>1. Kid(n, 1) \in DOMAIN prog.node
        BY <1>2, KidFacts DEF Unary
  <2>2. LoopBody(n) = <<Stmt(Kid(n, 1))>>
        BY <1>2 DEF LoopBody
  <2> QED  BY <2>1, <2>2, OneStmt DEF Inner
<1>3. CASE Node(n).kind = "for"
  <2> DEFINE k == Kid(n, 2)
             t == Task("post", n, <<>>, FALSE)
  <2>1. k \in DOMAIN prog.node
        BY <1>3, KidFacts
  <2>2. LoopBody(n) = <<Stmt(k)>> \/ LoopBody(n) = <<Stmt(k), t>>
        BY <1>3 DEF LoopBody
  <2> HIDE DEF k
  <2>3. Stmt(k) \in Tasks /\ TaskOK(Stmt(k), prog) /\ Stmt(k).op = "stmt"
        BY <2>1, StmtFacts
  <2>4. t \in Tasks /\ t.op = "post" /\ t.node = n /\ t.blk = <<>>
    <3>1. <<>> \in Seq(Block) /\ "post" \in TaskOps
          BY EmptySeq DEF TaskOps
    <3> QED  BY <1>1, <3>1 DEF Task, Tasks
  <2> HIDE DEF t
  <2>5. TaskOK(t, prog)
    <3>1. Len(<<>>) = 0
          OBVIOUS
    <3> QED  BY <2>4, <3>1 DEF TaskOK, Width, Opens, Plain
  <2>6. CASE LoopBody(n) = <<Stmt(k)>>
        BY <2>1, <2>6, OneStmt DEF Inner
  <2>7. CASE LoopBody(n) = <<Stmt(k), t>>
    <3> DEFINE ts == <<Stmt(k), t>>
    <3>1. /\ ts \in Seq(Tasks) /\ Len(ts) = 2 /\ ts[1] = Stmt(k) /\ ts[2] = t
          BY <2>3, <2>4
    <3> HIDE DEF ts
    <3>2. \A i \in 1..Len(ts) : i = 1 \/ i = 2
          BY <3>1
    <3>3. Inner(ts, prog)
          BY <2>3, <2>4, <2>5, <3>1, <3>2 DEF Inner
    <3> QED  BY <2>7, <3>3 DEF ts
  <2> QED  BY <2>2, <2>6, <2>7
<1> QED  BY <1>2, <1>3

\* while, and a for whose init statement is compiled, keep the invariant.
LEMMA WhileKeeps == IInv /\ While => IInv'
<1> SUFFICES ASSUME IInv, While PROVE IInv'
    OBVIOUS
<1> DEFINE n    == Top.node
           body == Body(b)
           end  == End(b)
           head == Header(b)
           e    == Entered
           test == IF HasCondition(n) THEN Ins(e, Br(n, body, end)) ELSE JumpToBlock(e, body)
           t    == Task("endWhile", n, <<head, end>>, sawLoop)
           ts   == LoopBody(n)
           s    == Tail(todo)
<1>1. /\ Compiling("while") \/ At("for")
      /\ b' = SwitchToBlock(test, body) /\ todo' = (ts \o <<t>>) \o s
      /\ EnterLoop /\ Frame /\ labels' = labels
      BY DEF While, Push
<1>2. /\ Running /\ n \in DOMAIN prog.node /\ n \in Nat /\ Node(n).kind \in {"while", "for"}
      /\ Pending(Top) = {} /\ ~IsOpen(Top) /\ ~Initial(Top, prog) /\ ~b.filled
      BY <1>1, WhileTop
<1>3. prog \in Programs /\ sawLoop \in BOOLEAN /\ Good(b, Instrs) /\ s \in Seq(Tasks)
      BY <1>2, TopFacts DEF IInv, ContextTypes, Frames
<1>4. /\ Good(e, Instrs) /\ ~e.filled /\ Free(b) \cup {body, end} \subseteq Free(e)
      /\ head \in Block /\ body \in Block /\ end \in Block
      /\ body # end /\ body \notin Free(b) /\ end \notin Free(b)
      BY <1>2, <1>3, EnteredFacts
<1>5. loops' \in Seq(Block \X Block) /\ sawLoop' = TRUE /\ switches' = switches
      BY <1>1, <1>4, EnterLoopFacts
<1>6. Inner(ts, prog)
      BY <1>2, <1>3, LoopBodyFacts
<1> HIDE DEF ts, n, body, end, head, e
<1>7. Br(n, body, end) \in Instrs
      BY <1>2, <1>4, InstrFacts
<1>8. /\ Loose(Ins(e, Br(n, body, end)), Instrs)
      /\ Free(e) \subseteq Free(Ins(e, Br(n, body, end)))
      BY <1>4, <1>7, FreeIns
<1>9. Loose(JumpToBlock(e, body), Instrs) /\ Free(e) \subseteq Free(JumpToBlock(e, body))
      BY <1>4, FreeJump DEF Good
<1>10. Loose(test, Instrs) /\ Free(e) \subseteq Free(test)
      BY <1>8, <1>9
<1> HIDE DEF test
<1>11. Good(b', Instrs) /\ Free(test) \ {body} \subseteq Free(b')
      BY <1>1, <1>4, <1>10, FreeSwitch
<1>12. /\ t \in Tasks /\ t.op = "endWhile" /\ t.node = n /\ t.blk = <<head, end>>
       /\ t.flag <=> sawLoop
  <2>1. <<head, end>> \in Seq(Block) /\ "endWhile" \in TaskOps
        BY <1>4 DEF TaskOps
  <2> QED  BY <1>2, <1>3, <2>1 DEF Task, Tasks
<1> HIDE DEF t, s
<1>13. TaskOK(t, prog) /\ Pending(t) = {end}
      BY <1>2, <1>12 DEF TaskOK, Width, Opens, Plain, Pending
<1>14. t.flag = sawLoop
  <2>1. t.flag \in BOOLEAN
        BY <1>12 DEF Tasks
  <2> QED  BY <1>3, <1>12, <2>1
<1>15. Resting(t, prog, sawLoop) /\ t.op # "endSwitch" /\ t.op \in LoopTasks
      BY <1>12, <1>13, <1>14 DEF Resting, LoopTasks
<1>16. todo' = ts \o (<<t>> \o s)
  <2>1. ts \in Seq(Tasks) /\ <<t>> \in Seq(Tasks)
        BY <1>6, <1>12 DEF Inner
  <2>2. (ts \o <<t>>) \o s = ts \o (<<t>> \o s)
        BY <1>3, <2>1, ConcatAssociative
  <2> QED  BY <1>1, <2>2
<1>17. (Free(b) \ Pending(Top)) \cup Pending(t) \subseteq Free(b')
      BY <1>4, <1>10, <1>11, <1>13
<1>18. Pending(t) \cap (Free(b) \ Pending(Top)) = {}
      BY <1>4, <1>13
<1> QED  BY <1>1, <1>2, <1>5, <1>6, <1>11, <1>15, <1>16, <1>17, <1>18, RestKeeps DEF s

\* do keeps the invariant.
LEMMA DoKeeps == IInv /\ Do => IInv'
<1> SUFFICES ASSUME IInv, Do PROVE IInv'
    OBVIOUS
<1> DEFINE n    == Top.node
           body == Body(b)
           end  == End(b)
           head == Header(b)
           k    == Kid(n, 1)
           t    == Task("endDo", n, <<head, body, end>>, sawLoop)
           s    == Tail(todo)
<1>1. /\ Compiling("do") /\ b' = Entered /\ todo' = <<Stmt(k), t>> \o s
      /\ EnterLoop /\ Frame /\ labels' = labels
      BY DEF Do, Push
<1>2. /\ Running /\ n \in DOMAIN prog.node /\ n \in Nat /\ Node(n).kind = "do"
      /\ Pending(Top) = {} /\ ~IsOpen(Top) /\ ~Initial(Top, prog) /\ ~b.filled
      BY <1>1, CompilingFacts DEF JumpTargetKinds
<1>3. prog \in Programs /\ sawLoop \in BOOLEAN /\ Good(b, Instrs) /\ s \in Seq(Tasks)
      BY <1>2, TopFacts DEF IInv, ContextTypes, Frames
<1>4. /\ Good(b', Instrs) /\ Free(b) \cup {body, end} \subseteq Free(b')
      /\ head \in Block /\ body \in Block /\ end \in Block
      /\ body # end /\ body \notin Free(b) /\ end \notin Free(b)
      BY <1>1, <1>2, <1>3, EnteredFacts
<1>5. loops' \in Seq(Block \X Block) /\ sawLoop' = TRUE /\ switches' = switches
      BY <1>1, <1>4, EnterLoopFacts
<1>6. k \in DOMAIN prog.node
      BY <1>2, <1>3, KidFacts DEF Unary
<1> HIDE DEF n, body, end, head, k
<1>7. Stmt(k) \in Tasks /\ Inner(<<Stmt(k)>>, prog)
      BY <1>3, <1>6, StmtFacts, OneStmt DEF Inner
<1>8. /\ t \in Tasks /\ t.op = "endDo" /\ t.node = n /\ t.blk = <<head, body, end>>
      /\ t.flag <=> sawLoop
  <2>1. <<head, body, end>> \in Seq(Block) /\ "endDo" \in TaskOps
        BY <1>4 DEF TaskOps
  <2> QED  BY <1>2, <1>3, <2>1 DEF Task, Tasks
<1> HIDE DEF t, s
<1>9. TaskOK(t, prog) /\ Pending(t) = {body, end}
      BY <1>2, <1>4, <1>8 DEF TaskOK, Width, Opens, Plain, Pending
<1>10. t.flag = sawLoop
  <2>1. t.flag \in BOOLEAN
        BY <1>8 DEF Tasks
  <2> QED  BY <1>3, <1>8, <2>1
<1>11. Resting(t, prog, sawLoop) /\ t.op # "endSwitch" /\ t.op \in LoopTasks
      BY <1>8, <1>9, <1>10 DEF Resting, LoopTasks
<1>12. todo' = <<Stmt(k)>> \o (<<t>> \o s)
      BY <1>1, <1>3, <1>7, <1>8, Pair
<1>13. (Free(b) \ Pending(Top)) \cup Pending(t) \subseteq Free(b')
      BY <1>4, <1>9
<1>14. Pending(t) \cap (Free(b) \ Pending(Top)) = {}
      BY <1>4, <1>9
<1> QED  BY <1>1, <1>2, <1>4, <1>5, <1>7, <1>11, <1>12, <1>13, <1>14, RestKeeps DEF s

\* The end of a while or for keeps the invariant: back to the header, end opened.
LEMMA EndWhileKeeps == IInv /\ EndWhile => IInv'
<1> SUFFICES ASSUME IInv, EndWhile PROVE IInv'
    OBVIOUS
<1> DEFINE head == Top.blk[1]
           end  == Top.blk[2]
           j    == JumpToBlock(b, head)
<1>1. /\ Running /\ Top.op = "endWhile" /\ b' = SwitchToBlock(j, end)
      /\ ExitLoop(Top.flag) /\ Pop /\ Frame /\ labels' = labels
      BY DEF EndWhile, At
<1>2. Good(b, Instrs) /\ Pending(Top) \subseteq Free(b) /\ TaskOK(Top, prog)
      BY <1>1, TopFacts
<1>3. Pending(Top) = {end}
      BY <1>1 DEF Pending, Opens, Plain
<1>4. head \in Block
  <2>1. 1 \in 1..Width(Top.op)
        BY <1>1 DEF Width, Plain
  <2> QED  BY <1>2, <2>1, BlkFacts
<1> HIDE DEF head, end
<1>5. Good(j, Instrs) /\ Free(b) \subseteq Free(j)
      BY <1>2, <1>4, FreeJump
<1> HIDE DEF j
<1>6. Good(b', Instrs) /\ Free(j) \ {end} \subseteq Free(b')
      BY <1>1, <1>2, <1>3, <1>5, FreeSwitch DEF Good
<1>7. Free(b) \ Pending(Top) \subseteq Free(b')
      BY <1>3, <1>5, <1>6
<1>8. loops' \in Seq(Block \X Block) /\ sawLoop' = Top.flag /\ switches' = switches
      BY <1>1, ExitLoopFacts
<1>9. Top.op \in LoopTasks
      BY <1>1 DEF LoopTasks
<1> QED  BY <1>1, <1>6, <1>7, <1>8, <1>9, EndKeeps

\* The end of a do keeps the invariant.
LEMMA EndDoKeeps == IInv /\ EndDo => IInv'
<1> SUFFICES ASSUME IInv, EndDo PROVE IInv'
    OBVIOUS
<1> DEFINE header == Top.blk[1]
           test   == Top.blk[2]
           end    == Top.blk[3]
           bottom == SwitchToBlock(JumpToBlock(b, test), test)
           r      == Ins(bottom, Br(Top.node, header, end))
<1>1. Running /\ Top.op = "endDo"
      BY DEF EndDo, At
<1>2. Good(b, Instrs) /\ Pending(Top) \subseteq Free(b) /\ TaskOK(Top, prog)
      BY <1>1, TopFacts
<1>3. Pending(Top) = {test, end} /\ test # end
      BY <1>1, <1>2 DEF Pending, Opens, Plain, TaskOK
<1>4. header \in Block /\ end \in Block /\ Top.node \in Nat
  <2>1. 1 \in 1..Width(Top.op) /\ 3 \in 1..Width(Top.op)
        BY <1>1 DEF Width, Plain
  <2> QED  BY <1>2, <2>1, BlkFacts DEF TaskOK, Tasks
<1>5. CASE Fail("UnreachableStatement") /\ UNCHANGED b
      BY <1>5, FailKeeps DEF Errors
<1>6. CASE b' = SwitchToBlock(r, end) /\ ExitLoop(Top.flag) /\ Pop /\ labels' = labels /\ Frame
  <2> HIDE DEF header, test, end
  <2>1. Good(bottom, Instrs) /\ ~bottom.filled /\ Free(b) \ {test} \subseteq Free(bottom)
        BY <1>2, <1>3, OpenFacts
  <2>2. Br(Top.node, header, end) \in Instrs
        BY <1>4, InstrFacts
  <2> HIDE DEF bottom
  <2>3. Loose(r, Instrs) /\ Free(bottom) \subseteq Free(r)
        BY <2>1, <2>2, FreeIns
  <2> HIDE DEF r
  <2>4. end \in Free(r)
        BY <1>2, <1>3, <2>1, <2>3
  <2>5. Good(b', Instrs) /\ Free(r) \ {end} \subseteq Free(b')
        BY <1>6, <2>3, <2>4, FreeSwitch
  <2>6. Free(b) \ Pending(Top) \subseteq Free(b')
        BY <1>3, <2>1, <2>3, <2>5
  <2>7. loops' \in Seq(Block \X Block) /\ sawLoop' = Top.flag /\ switches' = switches
        BY <1>6, ExitLoopFacts
  <2>8. Top.op \in LoopTasks
        BY <1>1 DEF LoopTasks
  <2> QED  BY <1>1, <1>6, <2>5, <2>6, <2>7, <2>8, EndKeeps
<1> QED  BY <1>5, <1>6 DEF EndDo

-----------------------------------------------------------------------------
(***************************************************************************)
(* switch.                                                                 *)
(***************************************************************************)

\* switch keeps the invariant: body and end are new blocks, the switch is entered.
LEMMA SwitchKeeps == IInv /\ Switch => IInv'
<1> SUFFICES ASSUME IInv, Switch PROVE IInv'
    OBVIOUS
<1> DEFINE n     == Top.node
           dummy == Fresh(b, 1)
           start == Fresh(b, 2)
           end   == Fresh(b, 3)
           c     == CreateBlocks(b, 3)
           i     == Ins(c, Run(n))
           j     == JumpToBlock(i, dummy)
           w     == [cases |-> NoBlocks, default |-> 0, end |-> end]
           k     == Kid(n, 1)
           t     == Task("endSwitch", n, <<dummy>>, sawLoop)
           s     == Tail(todo)
           r     == <<Stmt(k)>> \o (<<t>> \o s)
<1>1. /\ Compiling("switch") /\ b' = SwitchToBlock(j, start)
      /\ switches' = Append(switches, w) /\ sawLoop' = FALSE /\ loops' = loops
      /\ todo' = <<Stmt(k), t>> \o s /\ Frame /\ labels' = labels
      BY DEF Switch, Push, EnterSwitch
<1>2. /\ Running /\ n \in DOMAIN prog.node /\ n \in Nat /\ Node(n).kind = "switch"
      /\ Pending(Top) = {} /\ ~IsOpen(Top) /\ ~Initial(Top, prog) /\ ~b.filled
      BY <1>1, CompilingFacts DEF JumpTargetKinds
<1>3. /\ prog \in Programs /\ sawLoop \in BOOLEAN /\ switches \in Seq(SwitchSet)
      /\ Good(b, Instrs) /\ Len(switches) \in Nat
      BY <1>2, TopFacts DEF IInv, ContextTypes
<1>4. /\ Frames(s, prog) /\ Reserved(s, Free(b), switches)
      /\ Nested(s, Len(switches), sawLoop) /\ NoFor(s) /\ s \in Seq(Tasks)
  <2>1. Free(b) \ Pending(Top) = Free(b)
        BY <1>2
  <2> QED  BY <1>2, <2>1, TopFacts DEF Frames
<1>5. /\ Good(c, Instrs) /\ ~c.filled /\ Free(b) \subseteq Free(c)
      /\ {dummy, start, end} \subseteq Free(c) \ Free(b)
      /\ dummy \in Block /\ end \in Block
      /\ dummy # start /\ dummy # end /\ start # end
  <2>1. 3 \in Nat /\ 1 \in 1..3 /\ 2 \in 1..3 /\ 3 \in 1..3 /\ 1 # 2 /\ 1 # 3 /\ 2 # 3
        OBVIOUS
  <2>2. /\ Good(c, Instrs) /\ c.filled = b.filled /\ Free(b) \subseteq Free(c)
        /\ \A m \in 1..3 : /\ Fresh(b, m) \in Free(c) \ Free(b)
                           /\ Fresh(b, m) \in Block
        /\ \A m, l \in 1..3 : m # l => Fresh(b, m) # Fresh(b, l)
        BY <1>3, <2>1, FreeCreate
  <2> QED  BY <1>2, <2>1, <2>2
<1>6. k \in DOMAIN prog.node
      BY <1>2, <1>3, KidFacts DEF Unary
<1> HIDE DEF k, dummy, start, end, c
<1>7. Run(n) \in Instrs /\ ~Terminates(Run(n))
      BY <1>2, <1>5, InstrFacts
<1>8. Good(i, Instrs) /\ Free(c) \subseteq Free(i)
      BY <1>5, <1>7, FreeIns
<1> HIDE DEF i, n
<1>9. Good(j, Instrs) /\ Free(i) \subseteq Free(j)
      BY <1>5, <1>8, FreeJump
<1> HIDE DEF j
<1>10. Good(b', Instrs) /\ Free(j) \ {start} \subseteq Free(b')
  <2>1. start \in Free(j)
        BY <1>5, <1>8, <1>9
  <2> QED  BY <1>1, <1>9, <2>1, FreeSwitch DEF Good
<1>11. Stmt(k) \in Tasks /\ Inner(<<Stmt(k)>>, prog)
      BY <1>3, <1>6, StmtFacts, OneStmt DEF Inner
<1>12. /\ t \in Tasks /\ t.op = "endSwitch" /\ t.node = n /\ t.blk = <<dummy>>
       /\ t.flag <=> sawLoop
  <2>1. <<dummy>> \in Seq(Block) /\ "endSwitch" \in TaskOps
        BY <1>5 DEF TaskOps
  <2> QED  BY <1>2, <1>3, <2>1 DEF Task, Tasks
<1>13. w \in SwitchSet /\ w.end = end
  <2>1. NoBlocks \in Maps /\ 0 \in Nat
        BY DEF NoBlocks, Maps
  <2> QED  BY <1>5, <2>1 DEF SwitchSet
<1> HIDE DEF t, s, w
<1>14. TaskOK(t, prog) /\ Pending(t) = {dummy}
      BY <1>2, <1>12 DEF TaskOK, Width, Opens, Plain, Pending
<1>15. t.flag = sawLoop
  <2>1. t.flag \in BOOLEAN
        BY <1>12 DEF Tasks
  <2> QED  BY <1>3, <1>12, <2>1
<1>16. Resting(t, prog, sawLoop)
      BY <1>12, <1>14, <1>15 DEF Resting
<1>17. todo' = r
      BY <1>1, <1>4, <1>11, <1>12, Pair
<1>18. Pending(t) \cap Free(b) = {}
      BY <1>5, <1>14
<1>19. /\ Frames(r, prog) /\ Reserved(r, Free(b) \cup Pending(t), switches)
       /\ Nested(r, Len(switches) + 1, FALSE) /\ NoFor(r)
      BY <1>3, <1>4, <1>11, <1>12, <1>16, <1>18, PushRest
<1> HIDE DEF r
<1>20. /\ switches' \in Seq(SwitchSet) /\ Len(switches') = Len(switches) + 1
      BY <1>1, <1>3, <1>13, AppendProperties
<1>21. Reserved(r, Free(b'), switches')
  <2>1. w.end \notin Free(b) \cup Pending(t)
        BY <1>5, <1>13, <1>14
  <2>2. Reserved(r, (Free(b) \cup Pending(t)) \cup {w.end}, switches')
        BY <1>1, <1>3, <1>13, <1>19, <2>1, EnterNewSwitch
  <2>3. (Free(b) \cup Pending(t)) \cup {w.end} \subseteq Free(b')
        BY <1>5, <1>8, <1>9, <1>10, <1>13, <1>14
  <2> QED  BY <2>2, <2>3, MoreBlocks
<1>22. Waiting(r, b'.filled, prog) /\ Loose(b', Instrs)
      BY <1>10, <1>19, NoForWaits DEF Good
<1>23. Nested(r, Len(switches'), sawLoop') /\ sawLoop' \in BOOLEAN
      BY <1>1, <1>19, <1>20
<1> QED  BY <1>1, <1>10, <1>17, <1>19, <1>20, <1>21, <1>22, <1>23, Conclude
         DEF IInv, ContextTypes, ResultTypes, Frame

\* The end of a switch keeps the invariant: the dummy block takes the table.
LEMMA EndSwitchKeeps == IInv /\ EndSwitch => IInv'
<1> SUFFICES ASSUME IInv, EndSwitch PROVE IInv'
    OBVIOUS
<1> DEFINE last  == LastSwitch
           end   == last.end
           other == IF last.default # 0 THEN last.default ELSE end
           dummy == Top.blk[1]
           j     == JumpToBlock(b, end)
           atTop == SwitchToBlock(j, dummy)
           ins   == Table(Top.node, last.cases, other)
           r     == Ins(atTop, ins)
           s     == Tail(todo)
           front == SubSeq(switches, 1, Len(switches) - 1)
<1>1. /\ Running /\ Top.op = "endSwitch" /\ b' = SwitchToBlock(r, end)
      /\ switches' = front /\ sawLoop' = Top.flag /\ loops' = loops
      /\ todo' = s /\ Frame /\ labels' = labels
      BY DEF EndSwitch, At, Pop, ExitSwitch
<1>2. /\ switches \in Seq(SwitchSet)
      BY DEF IInv, ContextTypes
<1>3. /\ Good(b, Instrs) /\ Pending(Top) \subseteq Free(b) /\ TaskOK(Top, prog) /\ Top \in Tasks
      /\ Frames(s, prog) /\ Reserved(s, Free(b) \ Pending(Top), switches)
      /\ Len(switches) > 0 /\ Nested(s, Len(switches) - 1, Top.flag)
      BY <1>1, TopFacts
<1>4. NoFor(s)
  <2>1. ~Initial(Top, prog)
        BY <1>1 DEF Initial
  <2> QED  BY <1>1, <2>1, TopFacts
<1>5. Pending(Top) = {dummy}
      BY <1>1 DEF Pending, Opens, Plain
<1>6. /\ front \in Seq(SwitchSet) /\ Len(front) = Len(switches) - 1
      /\ last \in SwitchSet /\ end \in Free(b) \ Pending(Top)
      /\ Reserved(s, (Free(b) \ Pending(Top)) \ {end}, front)
      BY <1>2, <1>3, LeaveSwitch DEF LastSwitch
<1>7. /\ end \in Block /\ last.cases \in Maps /\ last.default \in Nat
      BY <1>6 DEF SwitchSet
<1>8. other \in Block
      BY <1>7 DEF Block
<1>9. Top.node \in Nat /\ Top.flag \in BOOLEAN
      BY <1>3 DEF Tasks
<1> HIDE DEF last, end, other, dummy
<1>10. ins \in Instrs
      BY <1>7, <1>8, <1>9, InstrFacts
<1> HIDE DEF ins
<1>11. Good(j, Instrs) /\ Free(b) \subseteq Free(j)
      BY <1>3, <1>7, FreeJump
<1> HIDE DEF j
<1>12. Good(atTop, Instrs) /\ ~atTop.filled /\ Free(j) \ {dummy} \subseteq Free(atTop)
  <2>1. dummy \in Free(j)
        BY <1>3, <1>5, <1>11
  <2> QED  BY <1>11, <2>1, FreeSwitch DEF Good
<1> HIDE DEF atTop
<1>13. Loose(r, Instrs) /\ Free(atTop) \subseteq Free(r)
      BY <1>10, <1>12, FreeIns
<1> HIDE DEF r
<1>14. Good(b', Instrs) /\ Free(r) \ {end} \subseteq Free(b')
  <2>1. end \in Free(r)
        BY <1>5, <1>6, <1>11, <1>12, <1>13
  <2> QED  BY <1>1, <1>13, <2>1, FreeSwitch
<1> HIDE DEF s, front
<1>15. Reserved(s, Free(b'), front)
  <2>1. (Free(b) \ Pending(Top)) \ {end} \subseteq Free(b')
        BY <1>5, <1>11, <1>12, <1>13, <1>14
  <2> QED  BY <1>6, <2>1, MoreBlocks
<1>16. Waiting(s, b'.filled, prog) /\ Loose(b', Instrs)
      BY <1>4, <1>14, NoForWaits DEF Good
<1>17. Nested(s, Len(switches'), sawLoop')
      BY <1>1, <1>3, <1>6
<1> QED  BY <1>1, <1>3, <1>6, <1>9, <1>14, <1>15, <1>16, <1>17, Conclude
         DEF IInv, ContextTypes, ResultTypes, Frame

-----------------------------------------------------------------------------
(***************************************************************************)
(* Functions, and the theorems.                                            *)
(***************************************************************************)

\* A builder with its entry block only.
LEMMA EmptyFacts ==
  /\ Good(EmptyBuilder, Instrs) /\ EmptyBuilder.filled = FALSE /\ Free(EmptyBuilder) = {}
<1> DEFINE bl == EmptyBuilder
<1>1. bl = [code |-> <<<<>>>>, cur |-> 1, filled |-> FALSE]
      BY DEF EmptyBuilder
<1>2. /\ <<>> \in Seq(Instrs) /\ Len(<<>>) = 0
      BY EmptySeq
<1>3. /\ <<<<>>>> \in Seq(Seq(Instrs)) /\ Len(<<<<>>>>) = 1 /\ <<<<>>>>[1] = <<>>
      BY <1>2, Single
<1>4. /\ bl.code = <<<<>>>> /\ bl.cur = 1 /\ bl.filled = FALSE
      BY <1>1
<1> HIDE DEF bl
<1>5. /\ bl.code \in Seq(Seq(Instrs)) /\ Len(bl.code) = 1 /\ bl.code[1] = <<>>
      BY <1>3, <1>4
<1>6. bl \in Builder(Instrs)
      BY <1>1, <1>3 DEF Builder, Block
<1>7. Straight(bl)
  <2>1. \A k \in 1..Len(bl.code) : k = 1
        BY <1>5
  <2>2. \A i : i \notin 1..0 - 1
        OBVIOUS
  <2> QED  BY <1>2, <1>5, <2>1, <2>2 DEF Straight
<1>8. ~Ended(bl.code[bl.cur])
      BY <1>4, <1>5 DEF Ended
<1>9. Free(bl) = {}
  <2>1. \A k \in 1..Len(bl.code) : k = bl.cur
        BY <1>4, <1>5
  <2> QED  BY <2>1 DEF Free, Untouched
<1>10. bl.cur \in 1..Len(bl.code)
      BY <1>4, <1>5
<1>11. Good(bl, Instrs)
      BY <1>4, <1>6, <1>7, <1>8, <1>10 DEF Good, Loose
<1> QED  BY <1>4, <1>9, <1>11 DEF bl

\* The invariant holds initially.
LEMMA InitIInv == Init => IInv
<1> SUFFICES ASSUME Init PROVE IInv
    OBVIOUS
<1>1. /\ prog \in Programs /\ next = 1 /\ todo = <<>> /\ b = EmptyBuilder
      /\ loops = <<>> /\ switches = <<>> /\ sawLoop = TRUE
      /\ labels = NoBlocks /\ out = <<>> /\ err = "none"
      BY DEF Init
<1>2. labels \in Maps
      BY <1>1 DEF NoBlocks, Maps
<1>3. ContextTypes /\ ResultTypes
      BY <1>1, EmptySeq DEF ContextTypes, ResultTypes
<1>4. BuilderOK
      BY <1>1, EmptyFacts DEF BuilderOK, Good
<1>5. Len(todo) = 0 /\ Len(switches) = 0 /\ todo \in Seq(Tasks) /\ \A i : i \notin 1..0
      BY <1>1, EmptySeq
<1>6. Frames(todo, prog) /\ Reserved(todo, Free(b), switches) /\ WaitingOK
      BY <1>5 DEF Frames, Reserved, WaitingOK, Waiting
<1>7. Nested(todo, Len(switches), sawLoop)
  <2> DEFINE h == [i \in 1..0 + 1 |-> 0]
  <2>1. h \in [1..0 + 1 -> Nat] /\ h[1] = 0 /\ h[0 + 1] = 0
        OBVIOUS
  <2> HIDE DEF h
  <2>2. Depths(todo, Len(switches), sawLoop, h)
        BY <1>1, <1>5, <2>1 DEF Depths
  <2> QED  BY <2>2 DEF Nested
<1> QED  BY <1>1, <1>2, <1>3, <1>4, <1>6, <1>7 DEF IInv, StackOK

\* compile_func begins with a new builder, and no loops or switches.
LEMMA BeginFunctionKeeps == IInv /\ BeginFunction => IInv'
<1> SUFFICES ASSUME IInv, BeginFunction PROVE IInv'
    OBVIOUS
<1> DEFINE k == prog.fns[next].body
           t == Task("endFunction", next, <<>>, FALSE)
           r == <<Stmt(k)>> \o (<<t>> \o todo)
<1>1. /\ err = "none" /\ todo = <<>> /\ next <= Len(prog.fns) /\ b' = EmptyBuilder
      /\ todo' = <<Stmt(k), t>>
      /\ UNCHANGED <<prog, next, loops, switches, sawLoop, labels, out, err>>
      BY DEF BeginFunction
<1>2. /\ prog \in Programs /\ next \in Nat \ {0} /\ sawLoop \in BOOLEAN
      /\ switches \in Seq(SwitchSet) /\ Len(switches) \in Nat
      /\ Frames(todo, prog) /\ Nested(todo, Len(switches), sawLoop)
      BY LenProperties DEF IInv, ContextTypes, ResultTypes, StackOK
<1>3. k \in DOMAIN prog.node
  <2>1. prog.fns \in Seq([body : DOMAIN prog.node, ret : ReturnKind])
        BY <1>2, ProgramsAssumption DEF ProgramOK
  <2>2. next \in 1..Len(prog.fns)
        BY <1>1, <1>2, <2>1, LenProperties
  <2>3. prog.fns[next] \in [body : DOMAIN prog.node, ret : ReturnKind]
        BY <2>1, <2>2, ElementOfSeq
  <2> QED  BY <2>3
<1>4. Len(todo) = 0 /\ \A i : i \notin 1..0
      BY <1>1, EmptySeq
<1>5. Len(switches) = 0
  <2>1. PICK h : Depths(todo, Len(switches), sawLoop, h)
        BY <1>2 DEF Nested
  <2> QED  BY <1>4, <2>1 DEF Depths
<1> HIDE DEF k
<1>6. Stmt(k) \in Tasks /\ TaskOK(Stmt(k), prog) /\ Stmt(k).op = "stmt"
      BY <1>2, <1>3, StmtFacts
<1>7. /\ t \in Tasks /\ t.op = "endFunction" /\ t.node = next /\ t.blk = <<>>
  <2>1. <<>> \in Seq(Block) /\ "endFunction" \in TaskOps
        BY EmptySeq DEF TaskOps
  <2> QED  BY <1>2, <2>1 DEF Task, Tasks
<1> HIDE DEF t
<1>8. TaskOK(t, prog) /\ Pending(t) = {} /\ ~IsOpen(t)
  <2>1. Len(<<>>) = 0
        BY EmptySeq
  <2> QED  BY <1>7, <2>1 DEF TaskOK, Width, Opens, Plain, Pending, IsOpen, LoopTasks
<1> DEFINE base == <<t>> \o todo
<1>9. <<t>> \in Seq(Tasks) /\ Len(<<t>>) = 1 /\ <<t>>[1] = t /\ todo \in Seq(Tasks)
      BY <1>2, <1>7, Single DEF Frames
<1>10. base = <<t>>
      BY <1>1, <1>9, ConcatEmptySeq
<1>11. Frames(base, prog) /\ NoFor(base)
  <2>1. \A i \in 1..1 : i = 1
        OBVIOUS
  <2> QED  BY <1>7, <1>8, <1>9, <1>10, <2>1 DEF Frames, NoFor
<1>12. Reserved(todo, {}, switches)
      BY <1>4, <1>5 DEF Reserved
<1>13. Reserved(base, {}, switches)
  <2>1. Reserved(base, {} \cup Pending(t), switches)
        BY <1>2, <1>7, <1>8, <1>12, PushReserved
  <2> QED  BY <1>8, <2>1
<1>14. Nested(base, Len(switches), sawLoop)
      BY <1>2, <1>7, <1>8, PushNested
<1> HIDE DEF base
<1>15. /\ <<Stmt(k)>> \in Seq(Tasks)
       /\ \A i \in 1..Len(<<Stmt(k)>>) :
             TaskOK(<<Stmt(k)>>[i], prog) /\ <<Stmt(k)>>[i].op = "stmt"
      BY <1>2, <1>3, OneStmt
<1>16. /\ Frames(<<Stmt(k)>> \o base, prog) /\ Reserved(<<Stmt(k)>> \o base, {}, switches)
       /\ Nested(<<Stmt(k)>> \o base, Len(switches), sawLoop)
      BY <1>2, <1>11, <1>13, <1>14, <1>15, PushPlain DEF Plain
<1>17. NoFor(<<Stmt(k)>> \o base)
  <2>1. NoFor(<<Stmt(k)>>) /\ base \in Seq(Tasks)
        BY <1>11, <1>15 DEF NoFor, Frames
  <2> QED  BY <1>11, <1>15, <2>1, PushNoFor
<1>18. todo' = <<Stmt(k)>> \o base
  <2>1. <<Stmt(k), t>> \o todo = <<Stmt(k)>> \o (<<t>> \o todo)
        BY <1>6, <1>7, <1>9, Pair
  <2>2. <<Stmt(k), t>> \in Seq(Tasks)
        BY <1>6, <1>7
  <2>3. <<Stmt(k), t>> \o todo = <<Stmt(k), t>>
        BY <1>1, <2>2, ConcatEmptySeq
  <2> QED  BY <1>1, <2>1, <2>3 DEF base
<1>19. Good(b', Instrs) /\ Free(b') = {} /\ Loose(b', Instrs)
      BY <1>1, EmptyFacts DEF Good
<1>20. Waiting(todo', b'.filled, prog)
      BY <1>17, <1>18, NoForWaits
<1> QED  BY <1>1, <1>16, <1>18, <1>19, <1>20, Conclude DEF IInv, ContextTypes, ResultTypes

\* compile_func ends with the return it adds.
LEMMA EndFunctionKeeps == IInv /\ EndFunction => IInv'
<1> SUFFICES ASSUME IInv, EndFunction PROVE IInv'
    OBVIOUS
<1>1. Running /\ Top.op = "endFunction"
      BY DEF EndFunction, At
<1>2. CASE Fail("MissingReturn") /\ UNCHANGED b
      BY <1>2, FailKeeps DEF Errors
<1>3. CASE /\ b' = ReturnAtTheEnd
           /\ out' = Append(out, b'.code)
           /\ next' = next + 1
           /\ Pop
           /\ UNCHANGED <<prog, loops, switches, sawLoop, labels, err>>
  <2>1. Pending(Top) = {} /\ ~IsOpen(Top) /\ ~Initial(Top, prog)
        BY <1>1 DEF Pending, Opens, Plain, IsOpen, LoopTasks, Initial
  <2>2. /\ Good(b, Instrs) /\ b.filled \in BOOLEAN /\ Tail(todo) = <<>>
        /\ Frames(Tail(todo), prog) /\ Reserved(Tail(todo), Free(b) \ Pending(Top), switches)
        /\ Nested(Tail(todo), Len(switches), sawLoop) /\ NoFor(Tail(todo))
        BY <1>1, <2>1, TopFacts
  <2>3. Ret(0) \in Instrs
    <3>1. 0 \in Nat /\ 1 \in Block
          BY DEF Block
    <3> QED  BY <3>1, InstrFacts
  <2>4. Loose(b', Instrs) /\ Free(b) \subseteq Free(b')
        BY <1>3, <2>2, <2>3, FreeIns DEF ReturnAtTheEnd, Good
  <2>5. b'.code \in Code
        BY <2>4 DEF Loose, Builder, Code, Instrs
  <2>6. out' \in Seq(Code) /\ next' \in Nat \ {0}
        BY <1>3, <2>5, AppendProperties DEF IInv, ResultTypes
  <2>7. Reserved(Tail(todo), Free(b'), switches)
    <3>1. Free(b) \ Pending(Top) \subseteq Free(b')
          BY <2>4
    <3> QED  BY <2>2, <3>1, MoreBlocks
  <2>8. Waiting(Tail(todo), b'.filled, prog)
        BY <2>2, NoForWaits
  <2>9. todo' = Tail(todo) /\ todo' = <<>>
        BY <1>3, <2>2 DEF Pop
  <2> QED  BY <1>3, <2>2, <2>4, <2>6, <2>7, <2>8, <2>9, Conclude
           DEF IInv, ContextTypes, ResultTypes
<1> QED  BY <1>2, <1>3 DEF EndFunction

\* Every step keeps the invariant.
LEMMA StepKeeps == IInv /\ [Next]_vars => IInv'
<1>1. ASSUME IInv, UNCHANGED vars PROVE IInv'
  <2>1. Maps' = Maps
        BY <1>1 DEF Maps, Vals, Node, vars
  <2> QED  BY <1>1, <2>1, Conclude
           DEF vars, IInv, ContextTypes, ResultTypes, BuilderOK, StackOK, WaitingOK
<1>2. ASSUME IInv, Step PROVE IInv'
      BY <1>2, BeginFunctionKeeps, EndFunctionKeeps, UnreachableKeeps, CompoundKeeps,
         ExpressionKeeps, DeclareStackKeeps, ReturnKeeps, IfKeeps, EndIfKeeps, ElseKeeps,
         EndElseKeeps, ForKeeps, WhileKeeps, EndWhileKeeps, DoKeeps, EndDoKeeps,
         SwitchKeeps, EndSwitchKeeps, CaseKeeps, DefaultKeeps, LabelKeeps, GotoKeeps,
         LoopExitKeeps DEF Step
<1> QED  BY <1>1, <1>2 DEF Next, Done

\* The inductive invariant holds throughout the compilation of every program: the
\* builder is usable, each block still to be opened is untouched and has one
\* owner, and the open loops and switches are those of the tasks on the stack.
THEOREM Invariant == Spec => []IInv
<1> QED  BY InitIInv, StepKeeps, PTL DEF Spec

\* Every variable of the statement compiler holds what its Rust field can
\* hold, for every program and after every statement.
THEOREM Typed == Spec => []TypeOK
<1>1. IInv => TypeOK
  <2> SUFFICES ASSUME IInv PROVE TypeOK
      OBVIOUS
  <2>1. b \in [code : Code, cur : Block, filled : BOOLEAN] /\ b.cur <= Len(b.code)
        BY DEF IInv, BuilderOK, Loose, Builder, Instrs, Code
  <2> QED  BY <2>1 DEF IInv, ContextTypes, ResultTypes, SwitchSet, StackOK, Frames, TypeOK
<1> QED  BY <1>1, Invariant, PTL

\* current_block_state is Filled exactly when the current block has its
\* terminator, and no instruction follows a terminator, for every program.
THEOREM StateTracksBuilder == Spec => []BlockStateTracksBuilder
<1>1. IInv => BlockStateTracksBuilder
  <2> SUFFICES ASSUME IInv PROVE BlockStateTracksBuilder
      OBVIOUS
  <2>1. /\ Straight(b) /\ b.code \in Seq(Seq(Instrs))
        /\ todo # <<>> => (b.filled <=> Ended(b.code[b.cur]))
        BY DEF IInv, BuilderOK, Good, Loose, Builder
  <2>2. DOMAIN b.code = 1..Len(b.code)
        BY <2>1, LenProperties
  <2> QED  BY <2>1, <2>2 DEF BlockStateTracksBuilder, Straight
<1> QED  BY <1>1, Invariant, PTL

\* The expect() of loop_exit cannot fail: after any nesting of loops and
\* switches a break that is not in a loop finds the switch it leaves.
THEOREM BreakIsInSwitch == Spec => []BreakFindsSwitch
<1>1. IInv => BreakFindsSwitch
  <2> SUFFICES ASSUME IInv, ~sawLoop PROVE switches # <<>>
      BY DEF BreakFindsSwitch
  <2>1. PICK h : Depths(todo, Len(switches), sawLoop, h)
        BY DEF IInv, StackOK, Nested
  <2>2. Len(switches) > 0
        BY <2>1 DEF Depths
  <2> QED  BY <2>2, EmptySeq
<1> QED  BY <1>1, Invariant, PTL

-----------------------------------------------------------------------------
(* The context.  Saw(s, h) says that the innermost open task below height  *)
(* h of the stack s is a loop, or that there is none: the value            *)
(* last_saw_loop had when that height was reached.                         *)

LoopsOf(s)    == OpenAt(s, LoopTasks)
SwitchesOf(s) == OpenAt(s, {"endSwitch"})
UpTo(S, h)    == {l \in S : l <= h}
Exit(t)       == t.blk[Len(t.blk)]

Saw(s, h) == \A m \in SwitchesOf(s) : m < h => \E l \in LoopsOf(s) : m < l /\ l < h

Mirrored(s, lp, sw, saw) ==
  /\ Len(lp) = Cardinality(LoopsOf(s))
  /\ Len(sw) = Cardinality(SwitchesOf(s))
  /\ saw = Saw(s, Len(s) + 1)
  /\ \A h \in LoopsOf(s) \cup SwitchesOf(s) : Caller(s, h).flag = Saw(s, h)
  /\ \A h \in LoopsOf(s) : lp[Cardinality(UpTo(LoopsOf(s), h))][2] = Exit(Caller(s, h))

ContextOK == err = "none" => Mirrored(todo, loops, switches, sawLoop)

-----------------------------------------------------------------------------
(* The source around a statement.  A statement that is still to be         *)
(* compiled is in a loop or switch of the source exactly when one is open  *)
(* below it on the stack; of the init statement of a for this is not so.   *)

Inside(n)     == Around(n, Breakable) # {}
Within(s, h)  == \E l \in LoopsOf(s) \cup SwitchesOf(s) : l < h
Breaking(t) == \/ t.op \in {"else", "for"}
               \/ t.op = "stmt" /\ Node(t.node).kind \notin {"expr", "decl"}

AsInSource(s) ==
  \A h \in 1..Len(s) :
    /\ Breaking(Caller(s, h)) => (Inside(Caller(s, h).node) <=> Within(s, h))
    /\ Caller(s, h).op = "else" => Node(Caller(s, h).node).kind = "if"

NestingOK == err = "none" => AsInSource(todo)

-----------------------------------------------------------------------------
(* Heights.                                                                *)

\* The tasks of a stack below what is put on it keep their heights.
LEMMA Heights ==
  ASSUME NEW s \in Seq(Tasks), NEW ts \in Seq(Tasks)
  PROVE  /\ ts \o s \in Seq(Tasks) /\ Len(s) \in Nat /\ Len(ts) \in Nat
         /\ Len(ts \o s) = Len(ts) + Len(s)
         /\ \A h \in 1..Len(s) : Caller(ts \o s, h) = Caller(s, h) /\ h \in 1..Len(ts \o s)
         /\ \A h \in 1..Len(ts \o s) :
              \/ h \in 1..Len(s)
              \/ h > Len(s) /\ \E i \in 1..Len(ts) : Caller(ts \o s, h) = ts[i]
<1> DEFINE r == ts \o s
           m == Len(ts)
           n == Len(s)
<1>1. /\ r \in Seq(Tasks) /\ m \in Nat /\ n \in Nat /\ Len(r) = m + n
      /\ \A i \in 1..m : r[i] = ts[i]
      /\ \A i \in 1..n : r[i + m] = s[i]
      BY OnTopOf
<1> HIDE DEF r, m, n
<1>2. ASSUME NEW h \in 1..n
      PROVE  Caller(r, h) = s[n + 1 - h] /\ h \in 1..Len(r)
  <2>1. n + 1 - h \in 1..n /\ (n + 1 - h) + m = Len(r) + 1 - h /\ h \in 1..Len(r)
        BY <1>1
  <2> QED  BY <1>1, <2>1 DEF Caller
<1>3. ASSUME NEW h \in 1..Len(r), h \notin 1..n
      PROVE  h > n /\ \E i \in 1..m : Caller(r, h) = ts[i]
  <2>1. Len(r) + 1 - h \in 1..m /\ h > n
        BY <1>1, <1>3
  <2> QED  BY <1>1, <2>1 DEF Caller
<1>4. \A h \in 1..n : Caller(s, h) = s[n + 1 - h]
      BY DEF Caller, n
<1> QED  BY <1>1, <1>2, <1>3, <1>4 DEF r, m, n

\* The open tasks of a kind are finitely many, at heights of the stack.
LEMMA OpenFinite ==
  ASSUME NEW s \in Seq(Tasks), NEW ops
  PROVE  /\ OpenAt(s, ops) \subseteq 1..Len(s) /\ IsFiniteSet(OpenAt(s, ops))
         /\ Cardinality(OpenAt(s, ops)) \in Nat /\ Len(s) \in Nat
<1>1. Len(s) \in Nat
      BY LenProperties
<1>2. IsFiniteSet(1..Len(s))
      BY <1>1, FS_Interval
<1>3. OpenAt(s, ops) \subseteq 1..Len(s)
      BY DEF OpenAt
<1> QED  BY <1>1, <1>2, <1>3, FS_Subset, FS_CardinalityType

\* Tasks of other kinds change nothing.
LEMMA OpenUnder ==
  ASSUME NEW s \in Seq(Tasks), NEW ts \in Seq(Tasks), NEW ops,
         \A i \in 1..Len(ts) : ts[i].op \notin ops
  PROVE  OpenAt(ts \o s, ops) = OpenAt(s, ops)
<1> DEFINE r == ts \o s
<1>1. /\ \A h \in 1..Len(s) : Caller(r, h) = Caller(s, h) /\ h \in 1..Len(r)
      /\ \A h \in 1..Len(r) : \/ h \in 1..Len(s)
                              \/ \E i \in 1..Len(ts) : Caller(r, h) = ts[i]
      BY Heights
<1> HIDE DEF r
<1>2. OpenAt(r, ops) = OpenAt(s, ops)
      BY <1>1 DEF OpenAt
<1> QED  BY <1>2 DEF r

\* A task of that kind is one more.
LEMMA OpenOnTop ==
  ASSUME NEW s \in Seq(Tasks), NEW t \in Tasks, NEW ops, t.op \in ops
  PROVE  /\ OpenAt(<<t>> \o s, ops) = OpenAt(s, ops) \cup {Len(s) + 1}
         /\ Cardinality(OpenAt(<<t>> \o s, ops)) = Cardinality(OpenAt(s, ops)) + 1
         /\ Caller(<<t>> \o s, Len(s) + 1) = t
<1> DEFINE r == <<t>> \o s
           n == Len(s)
<1>1. <<t>> \in Seq(Tasks) /\ Len(<<t>>) = 1 /\ <<t>>[1] = t
      BY Single
<1>2. /\ n \in Nat /\ Len(r) = 1 + n
      /\ \A h \in 1..n : Caller(r, h) = Caller(s, h) /\ h \in 1..Len(r)
      /\ \A h \in 1..Len(r) : \/ h \in 1..n
                              \/ h > n /\ \E i \in 1..1 : Caller(r, h) = <<t>>[i]
      BY <1>1, Heights
<1> HIDE DEF r, n
<1>3. n + 1 \in 1..Len(r) /\ n + 1 \notin 1..n /\ \A h \in 1..Len(r) : h \in 1..n \/ h = n + 1
      BY <1>2
<1>4. Caller(r, n + 1) = t
  <2>1. \E i \in 1..1 : Caller(r, n + 1) = <<t>>[i]
        BY <1>2, <1>3
  <2> QED  BY <1>1, <2>1
<1>5. OpenAt(s, ops) = {h \in 1..n : Caller(s, h).op \in ops}
      BY DEF OpenAt, n
<1>6. OpenAt(r, ops) = OpenAt(s, ops) \cup {n + 1}
      BY <1>2, <1>3, <1>4, <1>5 DEF OpenAt
<1>7. n + 1 \notin OpenAt(s, ops)
      BY <1>3, <1>5
<1>8. Cardinality(OpenAt(s, ops) \cup {n + 1}) = Cardinality(OpenAt(s, ops)) + 1
      BY <1>7, OpenFinite, FS_AddElement
<1> QED  BY <1>4, <1>6, <1>8 DEF r, n

-----------------------------------------------------------------------------
(* The context under calls and returns.                                    *)

\* The loops and switches of a stack.
LEMMA FinitelyOpen ==
  ASSUME NEW s \in Seq(Tasks)
  PROVE  /\ LoopsOf(s) \subseteq 1..Len(s) /\ IsFiniteSet(LoopsOf(s))
         /\ SwitchesOf(s) \subseteq 1..Len(s) /\ IsFiniteSet(SwitchesOf(s))
         /\ Cardinality(LoopsOf(s)) \in Nat /\ Cardinality(SwitchesOf(s)) \in Nat
         /\ Len(s) \in Nat
<1>1. /\ LoopsOf(s) \subseteq 1..Len(s) /\ IsFiniteSet(LoopsOf(s))
      /\ Cardinality(LoopsOf(s)) \in Nat /\ Len(s) \in Nat
      BY OpenFinite, Zenon DEF LoopsOf
<1>2. /\ SwitchesOf(s) \subseteq 1..Len(s) /\ IsFiniteSet(SwitchesOf(s))
      /\ Cardinality(SwitchesOf(s)) \in Nat
      BY OpenFinite, Zenon DEF SwitchesOf
<1> QED  BY <1>1, <1>2

\* Tasks that open nothing leave the context as it is.
LEMMA MirrorPlain ==
  ASSUME NEW s \in Seq(Tasks), NEW ts \in Seq(Tasks), \A i \in 1..Len(ts) : ~IsOpen(ts[i]),
         NEW lp, NEW sw, NEW saw
  PROVE  Mirrored(ts \o s, lp, sw, saw) <=> Mirrored(s, lp, sw, saw)
<1> DEFINE r == ts \o s
<1>1. LoopsOf(r) = LoopsOf(s) /\ SwitchesOf(r) = SwitchesOf(s)
  <2>1. \A i \in 1..Len(ts) : ts[i].op \notin LoopTasks /\ ts[i].op \notin {"endSwitch"}
        BY DEF IsOpen
  <2> QED  BY <2>1, OpenUnder DEF LoopsOf, SwitchesOf
<1>2. /\ \A h \in 1..Len(s) : Caller(r, h) = Caller(s, h)
      /\ Len(s) \in Nat /\ Len(r) \in Nat /\ Len(r) >= Len(s)
      BY Heights
<1>3. LoopsOf(s) \subseteq 1..Len(s) /\ SwitchesOf(s) \subseteq 1..Len(s)
      BY FinitelyOpen, Zenon
<1> HIDE DEF r
<1>4. \A h : Saw(r, h) = Saw(s, h)
      BY <1>1 DEF Saw
<1>5. Saw(r, Len(r) + 1) = Saw(s, Len(s) + 1)
  <2>1. \A h \in 1..Len(s) : h < Len(s) + 1 /\ h < Len(r) + 1
        BY <1>2
  <2> QED  BY <1>1, <1>3, <2>1 DEF Saw
<1>6. \A h \in LoopsOf(s) \cup SwitchesOf(s) : Caller(r, h) = Caller(s, h)
      BY <1>2, <1>3
<1>7. Mirrored(r, lp, sw, saw) <=> Mirrored(s, lp, sw, saw)
      BY <1>1, <1>4, <1>5, <1>6 DEF Mirrored
<1> QED  BY <1>7 DEF r

\* What is below an open task stays below it, and there is no more.
LEMMA BelowTop ==
  ASSUME NEW s \in Seq(Tasks), NEW t \in Tasks, IsOpen(t)
  PROVE  /\ LoopsOf(<<t>> \o s) = LoopsOf(s) \cup
              (IF t.op \in LoopTasks THEN {Len(s) + 1} ELSE {})
         /\ SwitchesOf(<<t>> \o s) = SwitchesOf(s) \cup
              (IF t.op \in LoopTasks THEN {} ELSE {Len(s) + 1})
         /\ Cardinality(LoopsOf(<<t>> \o s)) = Cardinality(LoopsOf(s)) +
              (IF t.op \in LoopTasks THEN 1 ELSE 0)
         /\ Cardinality(SwitchesOf(<<t>> \o s)) = Cardinality(SwitchesOf(s)) +
              (IF t.op \in LoopTasks THEN 0 ELSE 1)
         /\ Caller(<<t>> \o s, Len(s) + 1) = t /\ Len(<<t>> \o s) = Len(s) + 1
         /\ \A h \in 1..Len(s) : Caller(<<t>> \o s, h) = Caller(s, h)
         /\ \A h \in 1..Len(s) + 1 : Saw(<<t>> \o s, h) = Saw(s, h)
         /\ Saw(<<t>> \o s, Len(s) + 2) <=> t.op \in LoopTasks
<1> DEFINE r == <<t>> \o s
           n == Len(s)
<1>1. <<t>> \in Seq(Tasks) /\ Len(<<t>>) = 1 /\ <<t>>[1] = t
      BY Single
<1>2. n \in Nat /\ Len(r) = n + 1 /\ \A h \in 1..n : Caller(r, h) = Caller(s, h)
  <2>1. /\ n \in Nat /\ Len(r) = Len(<<t>>) + n
        /\ \A h \in 1..n : Caller(r, h) = Caller(s, h)
        BY <1>1, Heights
  <2> HIDE DEF r, n
  <2> QED  BY <1>1, <2>1
<1>3. /\ t.op \in LoopTasks <=> t.op \notin {"endSwitch"}
      /\ LoopsOf(s) \subseteq 1..n /\ SwitchesOf(s) \subseteq 1..n
      /\ Cardinality(LoopsOf(s)) \in Nat /\ Cardinality(SwitchesOf(s)) \in Nat
  <2>1. t.op \in LoopTasks <=> t.op \notin {"endSwitch"}
        BY DEF IsOpen, LoopTasks
  <2> QED  BY <2>1, FinitelyOpen, Zenon
<1>4. \A i \in 1..1 : <<t>>[i] = t
      BY <1>1
<1>5. CASE t.op \in LoopTasks
  <2>1. /\ LoopsOf(r) = LoopsOf(s) \cup {n + 1} /\ Caller(r, n + 1) = t
        /\ Cardinality(LoopsOf(r)) = Cardinality(LoopsOf(s)) + 1
        BY <1>5, OpenOnTop DEF LoopsOf
  <2>2. SwitchesOf(r) = SwitchesOf(s)
        BY <1>1, <1>3, <1>4, <1>5, OpenUnder DEF SwitchesOf
  <2> HIDE DEF r, n
  <2>3. \A h \in 1..n + 1 : Saw(r, h) = Saw(s, h)
    <3>1. \A h \in 1..n + 1 : ~(n + 1 < h)
          BY <1>2
    <3> QED  BY <2>1, <2>2, <3>1 DEF Saw
  <2>4. Saw(r, n + 2)
    <3>1. n + 1 < n + 2 /\ \A m \in 1..n : m < n + 1
          BY <1>2
    <3> QED  BY <1>3, <2>1, <2>2, <3>1 DEF Saw
  <2>5. /\ \A h \in 1..n : Caller(r, h) = Caller(s, h)
        /\ Len(r) = n + 1
        BY <1>2
  <2>6. Cardinality(LoopsOf(s)) + 0 = Cardinality(LoopsOf(s))
        /\ Cardinality(SwitchesOf(s)) + 0 = Cardinality(SwitchesOf(s))
        BY <1>3
  <2> QED  BY <1>5, <2>1, <2>2, <2>3, <2>4, <2>5, <2>6 DEF r, n
<1>6. CASE t.op \notin LoopTasks
  <2>1. /\ SwitchesOf(r) = SwitchesOf(s) \cup {n + 1} /\ Caller(r, n + 1) = t
        /\ Cardinality(SwitchesOf(r)) = Cardinality(SwitchesOf(s)) + 1
        BY <1>3, <1>6, OpenOnTop DEF SwitchesOf
  <2>2. LoopsOf(r) = LoopsOf(s)
        BY <1>1, <1>4, <1>6, OpenUnder DEF LoopsOf
  <2> HIDE DEF r, n
  <2>3. \A h \in 1..n + 1 : Saw(r, h) = Saw(s, h)
    <3>1. \A h \in 1..n + 1 : ~(n + 1 < h)
          BY <1>2
    <3> QED  BY <2>1, <2>2, <3>1 DEF Saw
  <2>4. ~Saw(r, n + 2)
    <3>1. n + 1 < n + 2 /\ \A l \in 1..n : ~(n + 1 < l)
          BY <1>2
    <3>2. n + 1 \in SwitchesOf(r) /\ \A l \in LoopsOf(r) : ~(n + 1 < l)
          BY <1>3, <2>1, <2>2, <3>1
    <3> QED  BY <3>1, <3>2 DEF Saw
  <2>5. /\ \A h \in 1..n : Caller(r, h) = Caller(s, h)
        /\ Len(r) = n + 1
        BY <1>2
  <2>6. Cardinality(LoopsOf(s)) + 0 = Cardinality(LoopsOf(s))
        /\ Cardinality(SwitchesOf(s)) + 0 = Cardinality(SwitchesOf(s))
        BY <1>3
  <2> QED  BY <1>6, <2>1, <2>2, <2>3, <2>4, <2>5, <2>6 DEF r, n
<1> QED  BY <1>5, <1>6

\* What counts the loops up to a height is an index of loops.
LEMMA UpToIndex ==
  ASSUME NEW L, IsFiniteSet(L), NEW h \in L, NEW n \in Nat, L \subseteq 1..n
  PROVE  Cardinality(UpTo(L, h)) \in 1..Cardinality(L) /\ UpTo(L \cup {n + 1}, h) = UpTo(L, h)
<1>1. UpTo(L, h) \in SUBSET L /\ IsFiniteSet(UpTo(L, h)) /\ Cardinality(L) \in Nat
      /\ Cardinality(UpTo(L, h)) \in Nat /\ Cardinality(UpTo(L, h)) <= Cardinality(L)
  <2>1. UpTo(L, h) \in SUBSET L
        BY DEF UpTo
  <2> QED  BY <2>1, FS_Subset, FS_CardinalityType
<1>2. h \in UpTo(L, h)
      BY DEF UpTo
<1>3. Cardinality(UpTo(L, h)) # 0
      BY <1>1, <1>2, FS_EmptySet
<1>4. UpTo(L \cup {n + 1}, h) = UpTo(L, h)
  <2>1. ~(n + 1 <= h)
        OBVIOUS
  <2> QED  BY <2>1 DEF UpTo
<1> QED  BY <1>1, <1>3, <1>4

\* All of them are counted at the height of the innermost one.
LEMMA UpToAll ==
  ASSUME NEW L, NEW n \in Nat, L \subseteq 1..n
  PROVE  UpTo(L \cup {n + 1}, n + 1) = L \cup {n + 1}
<1>1. \A l \in L \cup {n + 1} : l <= n + 1
  <2>1. \A l \in 1..n : l <= n + 1
        OBVIOUS
  <2> QED  BY <2>1
<1> QED  BY <1>1 DEF UpTo

\* A sequence without its last element.
LEMMA FrontOf ==
  ASSUME NEW S, NEW q \in Seq(S), NEW n \in 0..Len(q)
  PROVE  Len(SubSeq(q, 1, n)) = n /\ \A i \in 1..n : SubSeq(q, 1, n)[i] = q[i]
<1>1. Len(q) \in Nat /\ \A i \in 1..n : q[i] \in S
      BY LenProperties, ElementOfSeq
<1> QED  BY <1>1, SubSeqProperties

\* enter_loop, which leaves last_saw_loop set.
LEMMA MirrorLoop ==
  ASSUME NEW s \in Seq(Tasks), NEW t \in Tasks, t.op \in LoopTasks,
         NEW S, NEW lp \in Seq(S), NEW e \in S, NEW sw, NEW saw \in BOOLEAN,
         Mirrored(s, lp, sw, saw), t.flag = saw, e[2] = Exit(t)
  PROVE  Mirrored(<<t>> \o s, Append(lp, e), sw, TRUE)
<1> DEFINE r == <<t>> \o s
           n == Len(s)
           L == LoopsOf(s)
           q == Append(lp, e)
<1>1. IsOpen(t)
      BY DEF IsOpen
<1>2. /\ LoopsOf(r) = L \cup {n + 1} /\ SwitchesOf(r) = SwitchesOf(s)
      /\ Cardinality(LoopsOf(r)) = Cardinality(L) + 1
      /\ Caller(r, n + 1) = t /\ Len(r) = n + 1
      /\ \A h \in 1..n : Caller(r, h) = Caller(s, h)
      /\ \A h \in 1..n + 1 : Saw(r, h) = Saw(s, h)
      /\ Saw(r, n + 2)
      BY <1>1, BelowTop
<1>3. /\ L \subseteq 1..n /\ SwitchesOf(s) \subseteq 1..n /\ IsFiniteSet(L)
      /\ Cardinality(L) \in Nat /\ n \in Nat
      BY FinitelyOpen
<1>4. /\ Len(lp) = Cardinality(L) /\ Len(sw) = Cardinality(SwitchesOf(s))
      /\ saw = Saw(s, n + 1)
      /\ \A h \in L \cup SwitchesOf(s) : Caller(s, h).flag = Saw(s, h)
      /\ \A h \in L : lp[Cardinality(UpTo(L, h))][2] = Exit(Caller(s, h))
      BY DEF Mirrored
<1>5. /\ Len(q) = Cardinality(L) + 1 /\ q[Cardinality(L) + 1] = e
      /\ \A i \in 1..Cardinality(L) : q[i] = lp[i]
      BY <1>4, AppendProperties
<1> HIDE DEF r, n, L, q
<1>6. \A h \in LoopsOf(r) \cup SwitchesOf(r) : Caller(r, h).flag = Saw(r, h)
  <2>1. n + 1 \in 1..n + 1 /\ \A h \in 1..n : h \in 1..n + 1
        BY <1>3
  <2>2. Caller(r, n + 1).flag = Saw(r, n + 1)
        BY <1>2, <1>4, <2>1
  <2>3. ASSUME NEW h \in L \cup SwitchesOf(s)
        PROVE  Caller(r, h).flag = Saw(r, h)
    <3>1. h \in 1..n /\ h \in 1..n + 1
          BY <1>3, <2>1
    <3> QED  BY <1>2, <1>4, <3>1
  <2> QED  BY <1>2, <2>2, <2>3
<1>7. ASSUME NEW h \in LoopsOf(r)
      PROVE  q[Cardinality(UpTo(LoopsOf(r), h))][2] = Exit(Caller(r, h))
  <2>1. CASE h \in L
    <3>1. Cardinality(UpTo(L, h)) \in 1..Cardinality(L) /\ UpTo(LoopsOf(r), h) = UpTo(L, h)
          BY <1>2, <1>3, <2>1, UpToIndex
    <3>2. q[Cardinality(UpTo(L, h))] = lp[Cardinality(UpTo(L, h))]
          BY <1>5, <3>1
    <3>3. Caller(r, h) = Caller(s, h)
          BY <1>2, <1>3, <2>1
    <3> QED  BY <1>4, <2>1, <3>1, <3>2, <3>3
  <2>2. CASE h = n + 1
    <3>1. UpTo(LoopsOf(r), n + 1) = LoopsOf(r)
          BY <1>2, <1>3, UpToAll
    <3>2. q[Cardinality(LoopsOf(r))] = e
          BY <1>2, <1>5
    <3> QED  BY <1>2, <2>2, <3>1, <3>2
  <2> QED  BY <1>2, <2>1, <2>2
<1>8. TRUE = Saw(r, Len(r) + 1)
  <2>1. Len(r) + 1 = n + 2
        BY <1>2, <1>3
  <2>2. Saw(r, n + 2) \in BOOLEAN
        BY DEF Saw
  <2> QED  BY <1>2, <2>1, <2>2
<1>9. Mirrored(r, q, sw, TRUE)
      BY <1>2, <1>4, <1>5, <1>6, <1>7, <1>8 DEF Mirrored
<1> QED  BY <1>9 DEF r, q

\* exit_loop, which restores last_saw_loop.
LEMMA UnmirrorLoop ==
  ASSUME NEW s \in Seq(Tasks), NEW t \in Tasks, t.op \in LoopTasks,
         NEW S, NEW lp \in Seq(S), NEW sw, NEW saw,
         Mirrored(<<t>> \o s, lp, sw, saw)
  PROVE  Mirrored(s, SubSeq(lp, 1, Len(lp) - 1), sw, t.flag)
<1> DEFINE r == <<t>> \o s
           n == Len(s)
           L == LoopsOf(s)
           q == SubSeq(lp, 1, Len(lp) - 1)
<1>1. IsOpen(t)
      BY DEF IsOpen
<1>2. /\ LoopsOf(r) = L \cup {n + 1} /\ SwitchesOf(r) = SwitchesOf(s)
      /\ Cardinality(LoopsOf(r)) = Cardinality(L) + 1
      /\ Caller(r, n + 1) = t /\ Len(r) = n + 1
      /\ \A h \in 1..n : Caller(r, h) = Caller(s, h)
      /\ \A h \in 1..n + 1 : Saw(r, h) = Saw(s, h)
      BY <1>1, BelowTop
<1>3. /\ L \subseteq 1..n /\ SwitchesOf(s) \subseteq 1..n /\ IsFiniteSet(L)
      /\ Cardinality(L) \in Nat /\ n \in Nat
      BY FinitelyOpen
<1>4. /\ Len(lp) = Cardinality(LoopsOf(r)) /\ Len(sw) = Cardinality(SwitchesOf(r))
      /\ \A h \in LoopsOf(r) \cup SwitchesOf(r) : Caller(r, h).flag = Saw(r, h)
      /\ \A h \in LoopsOf(r) : lp[Cardinality(UpTo(LoopsOf(r), h))][2] = Exit(Caller(r, h))
      BY DEF Mirrored
<1>5. Len(q) = Cardinality(L) /\ \A i \in 1..Cardinality(L) : q[i] = lp[i]
  <2>1. Len(lp) - 1 = Cardinality(L) /\ Cardinality(L) \in 0..Len(lp)
        BY <1>2, <1>3, <1>4
  <2> QED  BY <2>1, FrontOf
<1> HIDE DEF r, n, L, q
<1>6. \A h \in L \cup SwitchesOf(s) : h \in 1..n /\ h \in 1..n + 1
      BY <1>3
<1>7. \A h \in L \cup SwitchesOf(s) : Caller(s, h).flag = Saw(s, h)
      BY <1>2, <1>4, <1>6
<1>8. ASSUME NEW h \in L
      PROVE  q[Cardinality(UpTo(L, h))][2] = Exit(Caller(s, h))
  <2>1. Cardinality(UpTo(L, h)) \in 1..Cardinality(L) /\ UpTo(LoopsOf(r), h) = UpTo(L, h)
        BY <1>2, <1>3, UpToIndex
  <2>2. q[Cardinality(UpTo(L, h))] = lp[Cardinality(UpTo(L, h))]
        BY <1>5, <2>1
  <2> QED  BY <1>2, <1>4, <1>6, <2>1, <2>2
<1>9. t.flag = Saw(s, n + 1)
      BY <1>2, <1>3, <1>4
<1>10. Mirrored(s, q, sw, t.flag)
      BY <1>2, <1>4, <1>5, <1>7, <1>8, <1>9 DEF Mirrored, n, L
<1> QED  BY <1>10 DEF q

\* The same where it is a switch.
LEMMA SwitchTop ==
  ASSUME NEW s \in Seq(Tasks), NEW t \in Tasks, IsOpen(t), t.op \notin LoopTasks
  PROVE  /\ LoopsOf(<<t>> \o s) = LoopsOf(s)
         /\ SwitchesOf(<<t>> \o s) = SwitchesOf(s) \cup {Len(s) + 1}
         /\ Cardinality(SwitchesOf(<<t>> \o s)) = Cardinality(SwitchesOf(s)) + 1
         /\ Caller(<<t>> \o s, Len(s) + 1) = t /\ Len(<<t>> \o s) = Len(s) + 1
         /\ \A h \in 1..Len(s) : Caller(<<t>> \o s, h) = Caller(s, h)
         /\ \A h \in 1..Len(s) + 1 : Saw(<<t>> \o s, h) = Saw(s, h)
         /\ ~Saw(<<t>> \o s, Len(s) + 2)
<1>1. LoopsOf(<<t>> \o s) = LoopsOf(s) \cup {}
      BY BelowTop
<1>2. SwitchesOf(<<t>> \o s) = SwitchesOf(s) \cup {Len(s) + 1}
      BY BelowTop
<1>3. Cardinality(SwitchesOf(<<t>> \o s)) = Cardinality(SwitchesOf(s)) + 1
      BY BelowTop
<1>4. Caller(<<t>> \o s, Len(s) + 1) = t /\ Len(<<t>> \o s) = Len(s) + 1
      BY BelowTop
<1>5. /\ \A h \in 1..Len(s) : Caller(<<t>> \o s, h) = Caller(s, h)
      /\ \A h \in 1..Len(s) + 1 : Saw(<<t>> \o s, h) = Saw(s, h)
      /\ ~Saw(<<t>> \o s, Len(s) + 2)
      BY BelowTop
<1> QED  BY <1>1, <1>2, <1>3, <1>4, <1>5

\* A switch, which clears last_saw_loop.
LEMMA MirrorSwitch ==
  ASSUME NEW s \in Seq(Tasks), NEW t \in Tasks, t.op = "endSwitch",
         NEW lp, NEW S, NEW sw \in Seq(S), NEW e \in S, NEW saw \in BOOLEAN,
         Mirrored(s, lp, sw, saw), t.flag = saw
  PROVE  Mirrored(<<t>> \o s, lp, Append(sw, e), FALSE)
<1> DEFINE r == <<t>> \o s
           n == Len(s)
           L == LoopsOf(s)
<1>1. IsOpen(t) /\ t.op \notin LoopTasks
      BY DEF IsOpen, LoopTasks
<1>2. /\ LoopsOf(r) = L /\ SwitchesOf(r) = SwitchesOf(s) \cup {n + 1}
      /\ Cardinality(SwitchesOf(r)) = Cardinality(SwitchesOf(s)) + 1
      /\ Caller(r, n + 1) = t /\ Len(r) = n + 1
      /\ \A h \in 1..n : Caller(r, h) = Caller(s, h)
      /\ \A h \in 1..n + 1 : Saw(r, h) = Saw(s, h)
      /\ ~Saw(r, n + 2)
      BY <1>1, SwitchTop
<1>3. L \subseteq 1..n /\ SwitchesOf(s) \subseteq 1..n /\ n \in Nat
      BY FinitelyOpen
<1>4. /\ Len(lp) = Cardinality(L) /\ Len(sw) = Cardinality(SwitchesOf(s))
      /\ saw = Saw(s, n + 1)
      /\ \A h \in L \cup SwitchesOf(s) : Caller(s, h).flag = Saw(s, h)
      /\ \A h \in L : lp[Cardinality(UpTo(L, h))][2] = Exit(Caller(s, h))
      BY DEF Mirrored
<1>5. Len(Append(sw, e)) = Cardinality(SwitchesOf(r))
      BY <1>2, <1>4, AppendProperties
<1> HIDE DEF r, n, L
<1>6. \A h \in LoopsOf(r) \cup SwitchesOf(r) : Caller(r, h).flag = Saw(r, h)
  <2>1. n + 1 \in 1..n + 1 /\ \A h \in 1..n : h \in 1..n + 1
        BY <1>3
  <2>2. Caller(r, n + 1).flag = Saw(r, n + 1)
        BY <1>2, <1>4, <2>1
  <2>3. ASSUME NEW h \in L \cup SwitchesOf(s)
        PROVE  Caller(r, h).flag = Saw(r, h)
    <3>1. h \in 1..n /\ h \in 1..n + 1
          BY <1>3, <2>1
    <3> QED  BY <1>2, <1>4, <3>1
  <2> QED  BY <1>2, <2>2, <2>3
<1>7. \A h \in L : lp[Cardinality(UpTo(L, h))][2] = Exit(Caller(r, h))
      BY <1>2, <1>3, <1>4
<1>8. FALSE = Saw(r, Len(r) + 1)
  <2>1. Len(r) + 1 = n + 2
        BY <1>2, <1>3
  <2>2. Saw(r, n + 2) \in BOOLEAN
        BY DEF Saw
  <2> QED  BY <1>2, <2>1, <2>2
<1>9. Mirrored(r, lp, Append(sw, e), FALSE)
      BY <1>2, <1>4, <1>5, <1>6, <1>7, <1>8 DEF Mirrored
<1> QED  BY <1>9 DEF r

\* The end of a switch, which restores it.
LEMMA UnmirrorSwitch ==
  ASSUME NEW s \in Seq(Tasks), NEW t \in Tasks, t.op = "endSwitch",
         NEW lp, NEW S, NEW sw \in Seq(S), NEW saw,
         Mirrored(<<t>> \o s, lp, sw, saw)
  PROVE  Mirrored(s, lp, SubSeq(sw, 1, Len(sw) - 1), t.flag)
<1> DEFINE r == <<t>> \o s
           n == Len(s)
           L == LoopsOf(s)
<1>1. IsOpen(t) /\ t.op \notin LoopTasks
      BY DEF IsOpen, LoopTasks
<1>2. /\ LoopsOf(r) = L /\ SwitchesOf(r) = SwitchesOf(s) \cup {n + 1}
      /\ Cardinality(SwitchesOf(r)) = Cardinality(SwitchesOf(s)) + 1
      /\ Caller(r, n + 1) = t
      /\ \A h \in 1..n : Caller(r, h) = Caller(s, h)
      /\ \A h \in 1..n + 1 : Saw(r, h) = Saw(s, h)
      BY <1>1, SwitchTop
<1>3. /\ L \subseteq 1..n /\ SwitchesOf(s) \subseteq 1..n /\ n \in Nat
      /\ Cardinality(SwitchesOf(s)) \in Nat
      BY FinitelyOpen
<1>4. /\ Len(lp) = Cardinality(L) /\ Len(sw) = Cardinality(SwitchesOf(r))
      /\ \A h \in L \cup SwitchesOf(r) : Caller(r, h).flag = Saw(r, h)
      /\ \A h \in L : lp[Cardinality(UpTo(L, h))][2] = Exit(Caller(r, h))
  <2> HIDE DEF r, L
  <2> QED  BY <1>2 DEF Mirrored, r
<1>5. Len(SubSeq(sw, 1, Len(sw) - 1)) = Cardinality(SwitchesOf(s))
  <2>1. Len(sw) - 1 = Cardinality(SwitchesOf(s)) /\ Cardinality(SwitchesOf(s)) \in 0..Len(sw)
        BY <1>2, <1>3, <1>4
  <2> QED  BY <2>1, FrontOf
<1> HIDE DEF r, n, L
<1>6. \A h \in L \cup SwitchesOf(s) : h \in 1..n /\ h \in 1..n + 1
      BY <1>3
<1>7. \A h \in L \cup SwitchesOf(s) : Caller(s, h).flag = Saw(s, h)
      BY <1>2, <1>4, <1>6
<1>8. \A h \in L : lp[Cardinality(UpTo(L, h))][2] = Exit(Caller(s, h))
      BY <1>2, <1>4, <1>6
<1>9. t.flag = Saw(s, n + 1)
      BY <1>2, <1>3, <1>4
<1> QED  BY <1>4, <1>5, <1>7, <1>8, <1>9 DEF Mirrored, n, L

-----------------------------------------------------------------------------
(* The source around a statement.                                          *)

\* What is around a statement is around its parent, or is the parent.
LEMMA KidInside ==
  ASSUME prog \in Programs, NEW n \in DOMAIN prog.node, NEW i \in DOMAIN Node(n).kids
  PROVE  /\ Kid(n, i) \in DOMAIN prog.node
         /\ Inside(Kid(n, i)) <=> (Inside(n) \/ Node(n).kind \in Breakable)
<1> DEFINE c == Kid(n, i)
<1>1. ProgramOK(prog)
      BY ProgramsAssumption
<1>2. /\ DOMAIN prog.node = 1..Len(prog.node) /\ NodeOK(prog.node, n)
      /\ prog.node[n].kids \in Seq(DOMAIN prog.node) /\ n \in Nat
  <2>1. DOMAIN prog.node = 1..Len(prog.node) /\ NodeOK(prog.node, n)
        BY <1>1 DEF ProgramOK
  <2>2. n \in Nat
        BY <2>1
  <2> QED  BY <2>1, <2>2 DEF NodeOK
<1>3. c \in DOMAIN prog.node /\ c \in Nat
  <2>1. i \in 1..Len(prog.node[n].kids)
        BY <1>2, LenProperties DEF Node
  <2> QED  BY <1>2, <2>1, ElementOfSeq DEF Kid, Node
<1>4. /\ c > n /\ IsKid(prog.node, c, n)
      /\ \A k \in n + 1..c - 1 : \E m \in n..k - 1 : IsKid(prog.node, k, m)
      BY <1>2 DEF NodeOK, InSourceOrder, Kid, Node, IsKid
<1> HIDE DEF c
<1>5. ASSUME NEW m \in DOMAIN prog.node, m \in Nat, m <= n,
             \A k \in m + 1..n : \E j \in m..k - 1 : IsKid(prog.node, k, j),
             NEW k \in m + 1..c
      PROVE  \E j \in m..k - 1 : IsKid(prog.node, k, j)
  <2>1. CASE k \in m + 1..n
        BY <1>5, <2>1
  <2>2. CASE k \in n + 1..c - 1
    <3>1. PICK j \in n..k - 1 : IsKid(prog.node, k, j)
          BY <1>4, <2>2
    <3>2. j \in m..k - 1
          BY <1>2, <1>3, <1>5, <2>2, <3>1
    <3> QED  BY <3>1, <3>2
  <2>3. CASE k = c
    <3>1. n \in m..k - 1
          BY <1>2, <1>3, <1>4, <1>5, <2>3
    <3> QED  BY <1>4, <2>3, <3>1
  <2> QED  BY <1>2, <1>3, <1>4, <1>5, <2>1, <2>2, <2>3
<1>6. ASSUME Inside(n) PROVE Inside(c)
  <2>1. PICK m \in DOMAIN prog.node :
          /\ m < n /\ Node(m).kind \in Breakable
          /\ \A k \in m + 1..n : \E j \in m..k - 1 : IsKid(prog.node, k, j)
        BY <1>6 DEF Inside, Around
  <2>2. m \in Nat /\ m <= n /\ m < c
        BY <1>2, <1>3, <1>4, <2>1
  <2>3. \A k \in m + 1..c : \E j \in m..k - 1 : IsKid(prog.node, k, j)
        BY <1>5, <2>1, <2>2
  <2>4. m \in Around(c, Breakable)
        BY <2>1, <2>2, <2>3 DEF Around
  <2> QED  BY <2>4 DEF Inside
<1>7. ASSUME Node(n).kind \in Breakable PROVE Inside(c)
  <2>1. \A k \in n + 1..n : \E j \in n..k - 1 : IsKid(prog.node, k, j)
        BY <1>2
  <2>2. \A k \in n + 1..c : \E j \in n..k - 1 : IsKid(prog.node, k, j)
        BY <1>2, <1>5, <2>1
  <2>3. n \in Around(c, Breakable)
        BY <1>4, <1>7, <2>2 DEF Around
  <2> QED  BY <2>3 DEF Inside
<1>8. ASSUME Inside(c), Node(n).kind \notin Breakable PROVE Inside(n)
  <2>1. PICK m \in DOMAIN prog.node :
          /\ m < c /\ Node(m).kind \in Breakable
          /\ \A k \in m + 1..c : \E j \in m..k - 1 : IsKid(prog.node, k, j)
        BY <1>8 DEF Inside, Around
  <2>2. m \in Nat /\ c \in m + 1..c
        BY <1>2, <1>3, <2>1
  <2>3. PICK j \in m..c - 1 : IsKid(prog.node, c, j)
        BY <2>1, <2>2
  <2>4. j \in DOMAIN prog.node
        BY <1>2, <1>3, <2>1, <2>2
  <2>5. j = n
        BY <1>1, <1>3, <1>4, <2>3, <2>4 DEF ProgramOK, Owned
  <2>6. m <= n /\ m # n
        BY <1>8, <2>1, <2>2, <2>3, <2>5
  <2>7. m < n /\ \A k \in m + 1..n : k \in m + 1..c
        BY <1>2, <1>3, <1>4, <2>2, <2>6
  <2>8. m \in Around(n, Breakable)
        BY <2>1, <2>7 DEF Around
  <2> QED  BY <2>8 DEF Inside
<1> QED  BY <1>3, <1>6, <1>7, <1>8 DEF c

\* Nothing is around the body of a function.
LEMMA BodyInside ==
  ASSUME prog \in Programs, NEW f \in 1..Len(prog.fns)
  PROVE  prog.fns[f].body \in DOMAIN prog.node /\ ~Inside(prog.fns[f].body)
<1> DEFINE n == prog.fns[f].body
<1>1. ProgramOK(prog)
      BY ProgramsAssumption
<1>2. prog.fns \in Seq([body : DOMAIN prog.node, ret : ReturnKind])
      BY <1>1 DEF ProgramOK
<1>3. f \in DOMAIN prog.fns /\ prog.fns[f] \in [body : DOMAIN prog.node, ret : ReturnKind]
      BY <1>2, LenProperties, ElementOfSeq
<1>4. n \in DOMAIN prog.node /\ DOMAIN prog.node = 1..Len(prog.node)
      BY <1>1, <1>3 DEF ProgramOK
<1>5. \A m \in DOMAIN prog.node : ~IsKid(prog.node, n, m)
      BY <1>1, <1>3 DEF ProgramOK, Owned
<1> HIDE DEF n
<1>6. ASSUME NEW m \in Around(n, Breakable) PROVE FALSE
  <2>1. /\ m \in DOMAIN prog.node /\ m < n
        /\ \A k \in m + 1..n : \E j \in m..k - 1 : IsKid(prog.node, k, j)
        BY DEF Around
  <2>2. n \in m + 1..n
        BY <1>4, <2>1
  <2>3. PICK j \in m..n - 1 : IsKid(prog.node, n, j)
        BY <2>1, <2>2
  <2>4. j \in DOMAIN prog.node
        BY <1>4, <2>1, <2>3
  <2> QED  BY <1>5, <2>3, <2>4
<1> QED  BY <1>4, <1>6 DEF Inside, n

\* Tasks that open nothing, above a stack that is as it should be.
LEMMA SourcePlain ==
  ASSUME NEW s \in Seq(Tasks), NEW ts \in Seq(Tasks), AsInSource(s),
         \A i \in 1..Len(ts) :
           /\ ~IsOpen(ts[i])
           /\ Breaking(ts[i]) => (Inside(ts[i].node) <=> Within(s, Len(s) + 1))
           /\ ts[i].op = "else" => Node(ts[i].node).kind = "if"
  PROVE  AsInSource(ts \o s)
<1> DEFINE r == ts \o s
           n == Len(s)
<1>1. LoopsOf(r) = LoopsOf(s) /\ SwitchesOf(r) = SwitchesOf(s)
  <2>1. \A i \in 1..Len(ts) : ts[i].op \notin LoopTasks /\ ts[i].op \notin {"endSwitch"}
        BY DEF IsOpen
  <2> QED  BY <2>1, OpenUnder DEF LoopsOf, SwitchesOf
<1>2. /\ \A h \in 1..n : Caller(r, h) = Caller(s, h)
      /\ \A h \in 1..Len(r) : \/ h \in 1..n
                              \/ h > n /\ \E i \in 1..Len(ts) : Caller(r, h) = ts[i]
      /\ n \in Nat /\ Len(r) \in Nat
  <2>1. r \in Seq(Tasks)
        BY Heights
  <2> QED  BY <2>1, Heights, LenProperties
<1>3. LoopsOf(s) \subseteq 1..n /\ SwitchesOf(s) \subseteq 1..n
      BY FinitelyOpen, Zenon
<1> HIDE DEF r, n
<1>4. ASSUME NEW h \in 1..Len(r)
      PROVE  /\ Breaking(Caller(r, h)) => (Inside(Caller(r, h).node) <=> Within(r, h))
             /\ Caller(r, h).op = "else" => Node(Caller(r, h).node).kind = "if"
  <2>1. CASE h \in 1..n
    <3>1. Within(r, h) <=> Within(s, h)
          BY <1>1 DEF Within
    <3>2. /\ Breaking(Caller(s, h)) => (Inside(Caller(s, h).node) <=> Within(s, h))
          /\ Caller(s, h).op = "else" => Node(Caller(s, h).node).kind = "if"
          BY <2>1 DEF AsInSource, n
    <3> QED  BY <1>2, <2>1, <3>1, <3>2
  <2>2. CASE h > n /\ \E i \in 1..Len(ts) : Caller(r, h) = ts[i]
    <3>1. PICK i \in 1..Len(ts) : Caller(r, h) = ts[i]
          BY <2>2
    <3>2. \A l \in 1..n : l < h /\ l < n + 1
          BY <1>2, <2>2
    <3>3. Within(r, h) <=> Within(s, n + 1)
          BY <1>1, <1>3, <3>2 DEF Within
    <3> QED  BY <3>1, <3>3 DEF n
  <2> QED  BY <1>2, <2>1, <2>2
<1>5. AsInSource(r)
      BY <1>4 DEF AsInSource
<1> QED  BY <1>5 DEF r

\* A loop or switch is entered.
LEMMA SourceOpen ==
  ASSUME NEW s \in Seq(Tasks), NEW t \in Tasks, IsOpen(t), AsInSource(s)
  PROVE  /\ AsInSource(<<t>> \o s) /\ <<t>> \o s \in Seq(Tasks)
         /\ Within(<<t>> \o s, Len(<<t>> \o s) + 1)
<1> DEFINE r == <<t>> \o s
           n == Len(s)
<1>1. /\ LoopsOf(r) \cup SwitchesOf(r) = LoopsOf(s) \cup SwitchesOf(s) \cup {n + 1}
      /\ Caller(r, n + 1) = t /\ Len(r) = n + 1
      /\ \A h \in 1..n : Caller(r, h) = Caller(s, h)
      BY BelowTop
<1>2. r \in Seq(Tasks) /\ n \in Nat
  <2>1. <<t>> \in Seq(Tasks)
        BY Single
  <2> QED  BY <2>1, Heights
<1> HIDE DEF r, n
<1>3. ASSUME NEW h \in 1..n
      PROVE  /\ Breaking(Caller(r, h)) => (Inside(Caller(r, h).node) <=> Within(r, h))
             /\ Caller(r, h).op = "else" => Node(Caller(r, h).node).kind = "if"
  <2>1. ~(n + 1 < h)
        BY <1>2
  <2>2. Within(r, h) <=> Within(s, h)
        BY <1>1, <2>1 DEF Within
  <2>3. /\ Breaking(Caller(s, h)) => (Inside(Caller(s, h).node) <=> Within(s, h))
        /\ Caller(s, h).op = "else" => Node(Caller(s, h).node).kind = "if"
        BY DEF AsInSource, n
  <2> QED  BY <1>1, <2>2, <2>3
<1>4. ~Breaking(t) /\ t.op # "else"
      BY DEF Breaking, IsOpen, LoopTasks
<1>5. AsInSource(r)
  <2>1. \A h \in 1..Len(r) : h \in 1..n \/ h = n + 1
        BY <1>1, <1>2
  <2> QED  BY <1>1, <1>3, <1>4, <2>1 DEF AsInSource
<1>6. Within(r, Len(r) + 1)
  <2>1. n + 1 < Len(r) + 1 /\ n + 1 \in LoopsOf(r) \cup SwitchesOf(r)
        BY <1>1, <1>2
  <2> QED  BY <2>1 DEF Within
<1> QED  BY <1>2, <1>5, <1>6 DEF r

\* What holds of a stack holds below its top.
LEMMA SourceBelow ==
  ASSUME NEW s \in Seq(Tasks), NEW t \in Tasks, AsInSource(<<t>> \o s)
  PROVE  /\ AsInSource(s)
         /\ Breaking(t) => (Inside(t.node) <=> Within(s, Len(s) + 1))
         /\ t.op = "else" => Node(t.node).kind = "if"
<1> DEFINE r == <<t>> \o s
           n == Len(s)
<1>1. <<t>> \in Seq(Tasks) /\ Len(<<t>>) = 1 /\ <<t>>[1] = t
      BY Single
<1>2. /\ Len(r) = 1 + n /\ n \in Nat
      /\ \A h \in 1..n : Caller(r, h) = Caller(s, h) /\ h \in 1..Len(r)
      /\ \A h \in 1..Len(r) : \/ h \in 1..n
                              \/ h > n /\ \E i \in 1..1 : Caller(r, h) = <<t>>[i]
      BY <1>1, Heights
<1>3. n + 1 \in 1..Len(r) /\ n + 1 \notin 1..n
  <2> HIDE DEF r, n
  <2> QED  BY <1>2
<1>4. Caller(r, n + 1) = t
  <2>1. \E i \in 1..1 : Caller(r, n + 1) = <<t>>[i]
        BY <1>2, <1>3
  <2> QED  BY <1>1, <2>1
<1>5. ASSUME NEW h \in 1..n + 1
      PROVE  Within(r, h) <=> Within(s, h)
  <2>1. ~(n + 1 < h)
        BY <1>2
  <2>2. ASSUME NEW ops
        PROVE  \A l : l < h => (l \in OpenAt(r, ops) <=> l \in OpenAt(s, ops))
    <3>1. \A l \in 1..Len(r) : l < h => l \in 1..n
          BY <1>2, <2>1
    <3> HIDE DEF r
    <3>2. OpenAt(s, ops) = {l \in 1..n : Caller(s, l).op \in ops}
          BY DEF OpenAt, n
    <3> HIDE DEF n
    <3> QED  BY <1>2, <3>1, <3>2 DEF OpenAt
  <2> QED  BY <2>2 DEF Within, LoopsOf, SwitchesOf
<1> HIDE DEF r, n
<1>6. \A h \in 1..Len(r) :
        /\ Breaking(Caller(r, h)) => (Inside(Caller(r, h).node) <=> Within(r, h))
        /\ Caller(r, h).op = "else" => Node(Caller(r, h).node).kind = "if"
      BY DEF AsInSource, r
<1>7. \A h \in 1..n : h \in 1..n + 1 /\ h \in 1..Len(r)
      BY <1>2
<1>8. AsInSource(s)
      BY <1>2, <1>5, <1>6, <1>7 DEF AsInSource, n
<1>9. n + 1 \in 1..n + 1
      BY <1>2
<1> QED  BY <1>3, <1>4, <1>5, <1>6, <1>8, <1>9 DEF n

-----------------------------------------------------------------------------
(* The steps.                                                              *)

NInv == ContextOK /\ NestingOK

\* A stack is its top and the rest.
LEMMA HeadTailConcat ==
  ASSUME NEW S, NEW s \in Seq(S), s # <<>>
  PROVE  s = <<Head(s)>> \o Tail(s)
<1> DEFINE t == Head(s)
           q == Tail(s)
           r == <<t>> \o q
<1>1. /\ Len(s) \in Nat /\ q \in Seq(S) /\ Len(q) = Len(s) - 1 /\ t = s[1] /\ t \in S
      /\ \A i \in 1..Len(q) : q[i] = s[i + 1]
      BY TailOf, HeadTailProperties
<1>2. <<t>> \in Seq(S) /\ Len(<<t>>) = 1 /\ <<t>>[1] = t
      BY <1>1, Single
<1>3. r \in Seq(S) /\ Len(r) = 1 + Len(q)
      /\ \A i \in 1..1 + Len(q) : r[i] = IF i <= 1 THEN <<t>>[i] ELSE q[i - 1]
      BY <1>1, <1>2, ConcatProperties
<1> HIDE DEF t, q, r
<1>4. Len(r) = Len(s)
      BY <1>1, <1>3
<1>5. ASSUME NEW i \in 1..Len(s) PROVE s[i] = r[i]
  <2>1. CASE i = 1
        BY <1>1, <1>2, <1>3, <2>1
  <2>2. CASE i # 1
    <3>1. i - 1 \in 1..Len(q) /\ ~(i <= 1) /\ i \in 1..1 + Len(q) /\ (i - 1) + 1 = i
          BY <1>1, <2>2
    <3> QED  BY <1>1, <1>3, <3>1
  <2> QED  BY <2>1, <2>2
<1>6. s = r
      BY <1>3, <1>4, <1>5, SeqEqual
<1> QED  BY <1>6 DEF t, q, r

\* What the invariant says of the next state, where the program is the same.
LEMMA Concluded ==
  ASSUME prog' = prog, Mirrored(todo', loops', switches', sawLoop'), AsInSource(todo')
  PROVE  NInv'
<1>1. \A n : Node(n)' = Node(n) /\ (Inside(n)' <=> Inside(n))
      BY DEF Node, Inside, Around
<1>2. \A t : Breaking(t)' <=> Breaking(t)
      BY <1>1 DEF Breaking
<1>3. AsInSource(todo)'
      BY <1>1, <1>2 DEF AsInSource
<1>4. Mirrored(todo, loops, switches, sawLoop)'
      OBVIOUS
<1> QED  BY <1>3, <1>4 DEF NInv, ContextOK, NestingOK

\* A step that stops the compilation.
LEMMA Halted ==
  ASSUME err' # "none"
  PROVE  NInv'
BY DEF NInv, ContextOK, NestingOK

\* What is known when a task is taken from the stack.
LEMMA AtTop ==
  ASSUME IInv, NInv, Running
  PROVE  /\ prog \in Programs /\ sawLoop \in BOOLEAN
         /\ todo = <<Top>> \o Tail(todo) /\ Top \in Tasks /\ Tail(todo) \in Seq(Tasks)
         /\ Mirrored(<<Top>> \o Tail(todo), loops, switches, sawLoop)
         /\ AsInSource(Tail(todo))
         /\ Breaking(Top) => (Inside(Top.node) <=> Within(Tail(todo), Len(Tail(todo)) + 1))
         /\ Top.op = "else" => Node(Top.node).kind = "if"
         /\ ~IsOpen(Top) => Mirrored(Tail(todo), loops, switches, sawLoop)
<1>1. todo \in Seq(Tasks) /\ todo # <<>> /\ prog \in Programs /\ sawLoop \in BOOLEAN
      BY DEF IInv, StackOK, Frames, Running, ContextTypes
<1>2. Top \in Tasks /\ Tail(todo) \in Seq(Tasks)
      BY <1>1, HeadTailProperties DEF Top
<1>3. todo = <<Top>> \o Tail(todo)
      BY <1>1, HeadTailConcat DEF Top
<1>4. Mirrored(todo, loops, switches, sawLoop) /\ AsInSource(todo)
      BY DEF NInv, ContextOK, NestingOK, Running
<1>5. ASSUME ~IsOpen(Top)
      PROVE  Mirrored(Tail(todo), loops, switches, sawLoop)
  <2>1. <<Top>> \in Seq(Tasks) /\ \A i \in 1..Len(<<Top>>) : ~IsOpen(<<Top>>[i])
        BY <1>2, <1>5, Single
  <2> QED  BY <1>2, <1>3, <1>4, <2>1, MirrorPlain, ZenonT(40)
<1> DEFINE s == Tail(todo)
           t == Top
<1>6. AsInSource(<<t>> \o s) /\ Mirrored(<<t>> \o s, loops, switches, sawLoop)
      BY <1>3, <1>4
<1>7. s \in Seq(Tasks) /\ t \in Tasks
      BY <1>2
<1> HIDE DEF s, t
<1>8. /\ AsInSource(s)
      /\ Breaking(t) => (Inside(t.node) <=> Within(s, Len(s) + 1))
      /\ t.op = "else" => Node(t.node).kind = "if"
      BY <1>6, <1>7, SourceBelow
<1> QED  BY <1>1, <1>2, <1>3, <1>5, <1>6, <1>8 DEF s, t

\* The statements that open neither a loop nor a switch: more tasks, about
\* which holds what held of the one they are for.
LEMMA PushKeepsContext ==
  ASSUME IInv, NInv, Running, ~IsOpen(Top), NEW ts \in Seq(Tasks),
         \A i \in 1..Len(ts) :
           /\ ~IsOpen(ts[i])
           /\ Breaking(ts[i]) => Breaking(Top) /\ (Inside(ts[i].node) <=> Inside(Top.node))
           /\ ts[i].op = "else" => Node(ts[i].node).kind = "if",
         Push(ts), prog' = prog, UNCHANGED <<loops, sawLoop>>, Len(switches') = Len(switches)
  PROVE  NInv'
<1> DEFINE s == Tail(todo)
<1>1. /\ s \in Seq(Tasks) /\ AsInSource(s) /\ Mirrored(s, loops, switches, sawLoop)
      /\ Breaking(Top) => (Inside(Top.node) <=> Within(s, Len(s) + 1))
      BY AtTop
<1>2. todo' = ts \o s
      BY DEF Push
<1> HIDE DEF s
<1>3. \A i \in 1..Len(ts) :
        /\ ~IsOpen(ts[i])
        /\ Breaking(ts[i]) => (Inside(ts[i].node) <=> Within(s, Len(s) + 1))
        /\ ts[i].op = "else" => Node(ts[i].node).kind = "if"
      BY <1>1
<1>4. AsInSource(ts \o s)
      BY <1>1, <1>3, SourcePlain
<1>5. Mirrored(ts \o s, loops, switches, sawLoop)
      BY <1>1, <1>3, MirrorPlain
<1>6. Mirrored(todo', loops', switches', sawLoop')
      BY <1>2, <1>5 DEF Mirrored
<1> QED  BY <1>2, <1>4, <1>6, Concluded

\* The tasks that end, and open nothing.
LEMMA PopKeepsContext ==
  ASSUME IInv, NInv, Running, ~IsOpen(Top), Pop, prog' = prog, UNCHANGED Context
  PROVE  NInv'
<1>1. Tail(todo) \in Seq(Tasks) /\ <<>> \in Seq(Tasks) /\ Len(<<>>) = 0
      BY AtTop, EmptySeq
<1>2. Push(<<>>)
      BY <1>1, ConcatEmptySeq DEF Push, Pop
<1>3. \A i : i \notin 1..0
      OBVIOUS
<1> QED  BY <1>1, <1>2, <1>3, PushKeepsContext DEF Context

\* The kids of a statement that is no loop or switch are inside what it is inside.
LEMMA SameInside ==
  ASSUME IInv, Running, Top.op \in {"stmt", "else"}, NEW i \in DOMAIN Node(Top.node).kids,
         Node(Top.node).kind \notin Breakable
  PROVE  Inside(Kid(Top.node, i)) <=> Inside(Top.node)
<1>1. Top.node \in DOMAIN prog.node /\ prog \in Programs
      BY TopFacts DEF TaskOK, IInv
<1> QED  BY <1>1, KidInside

\* One statement that takes the place of its parent.
LEMMA OneKid ==
  ASSUME IInv, NInv, NEW kind \in {"case", "default", "label"}, Compiling(kind),
         Push(<<Stmt(Kid(Top.node, 1))>>), prog' = prog, UNCHANGED <<loops, sawLoop>>,
         Len(switches') = Len(switches)
  PROVE  NInv'
<1> DEFINE k == Kid(Top.node, 1)
           ts == <<Stmt(k)>>
<1>1. /\ Running /\ Top.op = "stmt" /\ Node(Top.node).kind = kind
      /\ Top.node \in DOMAIN prog.node /\ ~IsOpen(Top)
      BY CompilingFacts
<1>2. prog \in Programs
      BY DEF IInv
<1>3. k \in DOMAIN prog.node /\ 1 \in DOMAIN Node(Top.node).kids
  <2>1. Node(Top.node).kids \in Seq(DOMAIN prog.node) /\ Len(Node(Top.node).kids) \in Arity(kind)
        BY <1>1, <1>2, NodeFacts
  <2>2. Arity(kind) = {1}
        BY DEF Arity, Leaves, Unary
  <2> QED  BY <1>1, <1>2, <2>1, <2>2, KidFacts, LenProperties DEF Unary
<1>4. kind \notin Breakable /\ kind \notin {"expr", "decl"}
      BY DEF Breakable
<1>5. Inside(k) <=> Inside(Top.node)
      BY <1>1, <1>3, <1>4, SameInside
<1>6. /\ ts \in Seq(Tasks) /\ Len(ts) = 1 /\ ts[1] = Stmt(k)
      /\ Stmt(k).op = "stmt" /\ Stmt(k).node = k
      BY <1>2, <1>3, StmtFacts, Single
<1>7. Breaking(Top)
      BY <1>1, <1>4 DEF Breaking
<1> HIDE DEF k
<1>8. \A i \in 1..1 : /\ ~IsOpen(ts[i])
                      /\ Breaking(ts[i]) => Breaking(Top) /\ (Inside(ts[i].node) <=> Inside(Top.node))
                      /\ ts[i].op = "else" => Node(ts[i].node).kind = "if"
      BY <1>5, <1>6, <1>7 DEF IsOpen, LoopTasks
<1>9. Push(ts)
      BY DEF k
<1> HIDE DEF ts
<1> QED  BY <1>1, <1>6, <1>8, <1>9, PushKeepsContext

\* What ends with its task.
LEMMA LeafContext ==
  ASSUME IInv, NInv, Expression \/ DeclareStack \/ Return \/ EndIf \/ EndElse \/ Goto \/ LoopExit
  PROVE  NInv'
<1>1. CASE err' # "none"
      BY <1>1, Halted
<1>2. CASE err' = "none"
  <2>1. Running /\ Pop /\ prog' = prog /\ UNCHANGED Context
    <3>1. CASE Expression \/ DeclareStack \/ Return \/ EndIf \/ EndElse
          BY <3>1 DEF Expression, DeclareStack, Return, EndIf, EndElse, Compiling, At, Frame
    <3>2. CASE Goto
          BY <1>2, <3>2 DEF Goto, Fail, Compiling, At, Frame
    <3>3. CASE LoopExit
      <4>1. PICK kind \in {"break", "continue"} :
              /\ Compiling(kind)
              /\ LET target == ExitTarget(kind)
                 IN  \/ "error" \in DOMAIN target /\ Fail(target.error)
                     \/ Pop /\ UNCHANGED <<labels, Context>> /\ Frame
            BY <3>3 DEF LoopExit
      <4>2. ~("error" \in DOMAIN ExitTarget(kind) /\ Fail(ExitTarget(kind).error))
            BY <1>2 DEF ExitTarget, Fail
      <4> QED  BY <4>1, <4>2 DEF Compiling, At, Frame
    <3> QED  BY <3>1, <3>2, <3>3
  <2>2. ~IsOpen(Top)
        BY DEF Expression, DeclareStack, Return, EndIf, EndElse, Goto, LoopExit,
               Compiling, At, IsOpen, LoopTasks
  <2> QED  BY <2>1, <2>2, PopKeepsContext
<1> QED  BY <1>1, <1>2

\* A block of statements.
LEMMA CompoundContext ==
  ASSUME IInv, NInv, Compound
  PROVE  NInv'
<1> DEFINE n  == Top.node
           ts == [i \in DOMAIN Node(n).kids |-> Stmt(Kid(n, i))]
<1>1. /\ Running /\ Top.op = "stmt" /\ Node(n).kind = "compound"
      /\ n \in DOMAIN prog.node /\ ~IsOpen(Top)
      BY CompilingFacts DEF Compound
<1>2. Push(ts) /\ prog' = prog /\ UNCHANGED Context
      BY DEF Compound, Frame
<1>3. Node(n).kids \in Seq(DOMAIN prog.node) /\ DOMAIN Node(n).kids = 1..Len(Node(n).kids)
      /\ Len(Node(n).kids) \in Nat /\ prog \in Programs
      /\ \A i \in 1..Len(Node(n).kids) : Kid(n, i) \in DOMAIN prog.node
      BY <1>1, NodeFacts, LenProperties DEF IInv
<1>4. \A i \in DOMAIN Node(n).kids :
        /\ Stmt(Kid(n, i)) \in Tasks /\ Stmt(Kid(n, i)).op = "stmt"
        /\ Stmt(Kid(n, i)).node = Kid(n, i)
      BY <1>3, StmtFacts
<1>5. ts \in Seq(Tasks) /\ Len(ts) = Len(Node(n).kids)
  <2>1. ts \in [1..Len(Node(n).kids) -> Tasks]
        BY <1>3, <1>4
  <2> QED  BY <1>3, <2>1, SeqDef, LenProperties
<1>6. Breaking(Top) /\ Node(n).kind \notin Breakable
      BY <1>1 DEF Breaking, Breakable
<1>7. \A i \in 1..Len(ts) :
        /\ ~IsOpen(ts[i])
        /\ Breaking(ts[i]) => Breaking(Top) /\ (Inside(ts[i].node) <=> Inside(Top.node))
        /\ ts[i].op = "else" => Node(ts[i].node).kind = "if"
  <2> TAKE i \in 1..Len(ts)
  <2>1. i \in DOMAIN Node(n).kids /\ ts[i] = Stmt(Kid(n, i))
        BY <1>3, <1>5
  <2>2. Inside(Kid(n, i)) <=> Inside(n)
        BY <1>1, <1>6, <2>1, SameInside
  <2> HIDE DEF ts
  <2> QED  BY <1>4, <1>6, <2>1, <2>2 DEF IsOpen, LoopTasks
<1> HIDE DEF ts
<1> QED  BY <1>1, <1>2, <1>5, <1>7, PushKeepsContext DEF Context

\* A statement and what is to be done after it.
LEMMA TwoTasks ==
  ASSUME IInv, NInv, Running, ~IsOpen(Top), NEW k \in DOMAIN prog.node, NEW t \in Tasks,
         ~IsOpen(t), Breaking(t) => Breaking(Top) /\ (Inside(t.node) <=> Inside(Top.node)),
         t.op = "else" => Node(t.node).kind = "if",
         Breaking(Stmt(k)) => Breaking(Top) /\ (Inside(k) <=> Inside(Top.node)),
         Push(<<Stmt(k), t>>), prog' = prog, UNCHANGED Context
  PROVE  NInv'
<1> DEFINE ts == <<Stmt(k), t>>
<1>1. Stmt(k) \in Tasks /\ Stmt(k).op = "stmt" /\ Stmt(k).node = k
      BY StmtFacts DEF IInv
<1>2. ts \in Seq(Tasks) /\ Len(ts) = 2 /\ ts[1] = Stmt(k) /\ ts[2] = t
      BY <1>1
<1>3. \A i \in 1..2 : i = 1 \/ i = 2
      OBVIOUS
<1>4. Push(ts)
      OBVIOUS
<1> HIDE DEF ts
<1>5. \A i \in 1..Len(ts) :
        /\ ~IsOpen(ts[i])
        /\ Breaking(ts[i]) => Breaking(Top) /\ (Inside(ts[i].node) <=> Inside(Top.node))
        /\ ts[i].op = "else" => Node(ts[i].node).kind = "if"
      BY <1>1, <1>2, <1>3 DEF IsOpen, LoopTasks
<1> QED  BY <1>2, <1>4, <1>5, PushKeepsContext DEF Context

\* Both branches of an if are inside what the if is inside.
LEMMA IfContext ==
  ASSUME IInv, NInv, If
  PROVE  NInv'
<1> DEFINE n   == Top.node
           end == Fresh(b, 2)
           els == Fresh(b, 3)
           t   == Task("endIf", n, <<end>>, FALSE)
           u   == Task("else", n, <<els, end>>, FALSE)
<1>1. /\ Running /\ Top.op = "stmt" /\ Node(n).kind = "if"
      /\ n \in DOMAIN prog.node /\ n \in Nat /\ ~IsOpen(Top) /\ ~b.filled
      BY CompilingFacts DEF If, JumpTargetKinds
<1>2. /\ Push(<<Stmt(Kid(n, 1)), t>>) \/ Push(<<Stmt(Kid(n, 1)), u>>)
      /\ prog' = prog /\ UNCHANGED Context
      BY DEF If, Frame
<1>3. Kid(n, 1) \in DOMAIN prog.node /\ 1 \in DOMAIN Node(n).kids
  <2>1. Node(n).kids \in Seq(DOMAIN prog.node) /\ Len(Node(n).kids) \in Arity("if")
        BY <1>1, NodeFacts DEF IInv
  <2>2. Arity("if") = {1, 2}
        BY DEF Arity, Leaves, Unary
  <2> QED  BY <1>1, <2>1, <2>2, KidFacts, LenProperties DEF IInv
<1>4. Breaking(Top) /\ Node(n).kind \notin Breakable
      BY <1>1 DEF Breaking, Breakable
<1>5. Inside(Kid(n, 1)) <=> Inside(n)
      BY <1>1, <1>3, <1>4, SameInside
<1>6. end \in Block /\ els \in Block
  <2>1. Len(b.code) \in Nat
        BY <1>1, TopFacts
  <2> QED  BY <2>1 DEF Fresh, Block
<1> HIDE DEF end, els
<1>7. /\ t \in Tasks /\ t.op = "endIf" /\ t.node = n
      /\ u \in Tasks /\ u.op = "else" /\ u.node = n
  <2>1. <<end>> \in Seq(Block) /\ <<els, end>> \in Seq(Block)
        BY <1>6
  <2>2. "endIf" \in TaskOps /\ "else" \in TaskOps /\ FALSE \in BOOLEAN
        BY DEF TaskOps
  <2>3. t \in Tasks /\ t.op = "endIf" /\ t.node = n
        BY <1>1, <2>1, <2>2 DEF Task, Tasks
  <2>4. u \in Tasks /\ u.op = "else" /\ u.node = n
        BY <1>1, <2>1, <2>2 DEF Task, Tasks
  <2> QED  BY <2>3, <2>4
<1> HIDE DEF t, u
<1>8. ~IsOpen(t) /\ ~Breaking(t) /\ ~IsOpen(u)
      BY <1>7 DEF IsOpen, LoopTasks, Breaking
<1>9. CASE Push(<<Stmt(Kid(n, 1)), t>>)
      BY <1>1, <1>2, <1>3, <1>4, <1>5, <1>7, <1>8, <1>9, TwoTasks
<1>10. CASE Push(<<Stmt(Kid(n, 1)), u>>)
      BY <1>1, <1>2, <1>3, <1>4, <1>5, <1>7, <1>8, <1>10, TwoTasks
<1> QED  BY <1>2, <1>9, <1>10

\* The second branch.
LEMMA ElseContext ==
  ASSUME IInv, NInv, Else
  PROVE  NInv'
<1> DEFINE n   == Top.node
           end == Top.blk[2]
           t   == Task("endElse", n, <<end>>, IfHasReturn)
<1>1. Running /\ Top.op = "else" /\ TaskOK(Top, prog) /\ prog \in Programs
      /\ Good(b, Instrs) /\ b.filled \in BOOLEAN
      BY TopFacts DEF Else, At, IInv
<1>2. Push(<<Stmt(Kid(n, 2)), t>>) /\ prog' = prog /\ UNCHANGED Context
      BY DEF Else, Frame
<1>3. /\ n \in DOMAIN prog.node /\ n \in Nat /\ Len(Node(n).kids) = 2
      /\ Kid(n, 2) \in DOMAIN prog.node /\ 2 \in DOMAIN Node(n).kids
  <2>1. n \in DOMAIN prog.node /\ Len(Node(n).kids) = 2
        BY <1>1 DEF TaskOK, Node
  <2>2. Node(n).kids \in Seq(DOMAIN prog.node) /\ n \in Nat
        BY <1>1, <2>1, NodeFacts
  <2> QED  BY <1>1, <2>1, <2>2, KidFacts, LenProperties
<1>4. ~IsOpen(Top) /\ Breaking(Top)
      BY <1>1 DEF IsOpen, LoopTasks, Breaking
<1>5. Node(n).kind \notin Breakable
  <2>1. Node(n).kind = "if"
        BY <1>1, AtTop
  <2> QED  BY <2>1 DEF Breakable
<1>6. Inside(Kid(n, 2)) <=> Inside(n)
      BY <1>1, <1>3, <1>5, SameInside
<1>7. t \in Tasks /\ t.op = "endElse" /\ t.node = n
  <2>1. 2 \in 1..Width("else")
        BY DEF Width, Plain
  <2>2. end \in Block
        BY <1>1, <2>1, BlkFacts
  <2>3. <<end>> \in Seq(Block) /\ IfHasReturn \in BOOLEAN /\ "endElse" \in TaskOps
        BY <1>1, <2>2 DEF IfHasReturn, TaskOps
  <2> QED  BY <1>3, <2>3 DEF Task, Tasks
<1> HIDE DEF t
<1>8. ~IsOpen(t) /\ ~Breaking(t)
      BY <1>7 DEF IsOpen, LoopTasks, Breaking
<1> QED  BY <1>1, <1>2, <1>3, <1>4, <1>6, <1>7, <1>8, TwoTasks

\* The init statement of a for, which is no break, then its loop.
LEMMA ForContext ==
  ASSUME IInv, NInv, For
  PROVE  NInv'
<1> DEFINE n == Top.node
           t == Task("for", n, <<>>, FALSE)
<1>1. /\ Running /\ Top.op = "stmt" /\ Node(n).kind = "for"
      /\ n \in DOMAIN prog.node /\ n \in Nat /\ ~IsOpen(Top)
      BY CompilingFacts DEF For
<1>2. Push(<<Stmt(Kid(n, 1)), t>>) /\ prog' = prog /\ UNCHANGED Context
      BY DEF For, Frame
<1>3. Kid(n, 1) \in DOMAIN prog.node /\ Node(Kid(n, 1)).kind \in {"expr", "decl"}
      /\ prog \in Programs
      BY <1>1, NodeFacts, KidFacts DEF IInv
<1>4. t \in Tasks /\ t.op = "for" /\ t.node = n
  <2>1. <<>> \in Seq(Block) /\ "for" \in TaskOps /\ FALSE \in BOOLEAN
        BY EmptySeq DEF TaskOps
  <2> QED  BY <1>1, <2>1 DEF Task, Tasks
<1> HIDE DEF t
<1>5. Breaking(Top)
      BY <1>1 DEF Breaking
<1>6. ~IsOpen(t) /\ t.op # "else"
      BY <1>4 DEF IsOpen, LoopTasks
<1>7. ~Breaking(Stmt(Kid(n, 1)))
      BY <1>3, StmtFacts DEF Breaking
<1> QED  BY <1>1, <1>2, <1>3, <1>4, <1>5, <1>6, <1>7, TwoTasks

\* Recording a case does not change how many switches there are.
LEMMA SameLength ==
  ASSUME IInv, NEW w, SetSwitch(w)
  PROVE  Len(switches') = Len(switches)
<1> DEFINE S == SwitchSet \cup {w}
           n == Len(switches)
<1>1. switches \in [1..n -> S] /\ n \in Nat
  <2>1. switches \in Seq(SwitchSet)
        BY DEF IInv, ContextTypes
  <2>2. DOMAIN switches = 1..n /\ n \in Nat /\ switches \in [1..n -> SwitchSet]
        BY <2>1, LenProperties
  <2> QED  BY <2>2
<1>2. switches' = [switches EXCEPT ![n] = w]
      BY DEF SetSwitch
<1>3. w \in S
      OBVIOUS
<1> HIDE DEF S, n
<1>4. switches' \in [1..n -> S]
      BY <1>1, <1>2, <1>3
<1>5. switches' \in Seq(S)
      BY <1>1, <1>4, SeqDef
<1>6. Len(switches') = n
      BY <1>1, <1>4, <1>5, LenProperties
<1> QED  BY <1>6 DEF n

\* What case, default and label stand before is inside what they are inside.
LEMMA EntryContext ==
  ASSUME IInv, NInv, Case \/ Default \/ Label
  PROVE  NInv'
<1>1. CASE err' # "none"
      BY <1>1, Halted
<1>2. CASE err' = "none"
  <2>1. CASE Case
    <3> DEFINE w == [LastSwitch EXCEPT !.cases[Node(Top.node).val] = EntryBlock]
    <3>1. /\ Compiling("case") /\ SetSwitch(w) /\ Push(<<Stmt(Kid(Top.node, 1))>>)
          /\ prog' = prog /\ UNCHANGED <<loops, sawLoop>>
          BY <1>2, <2>1 DEF Case, Fail, Frame
    <3> HIDE DEF w
    <3>2. Len(switches') = Len(switches)
          BY <3>1, SameLength
    <3> QED  BY <3>1, <3>2, OneKid
  <2>2. CASE Default
    <3> DEFINE w == [LastSwitch EXCEPT !.default = EntryBlock]
    <3>1. /\ Compiling("default") /\ SetSwitch(w) /\ Push(<<Stmt(Kid(Top.node, 1))>>)
          /\ prog' = prog /\ UNCHANGED <<loops, sawLoop>>
          BY <1>2, <2>2 DEF Default, Fail, Frame
    <3> HIDE DEF w
    <3>2. Len(switches') = Len(switches)
          BY <3>1, SameLength
    <3> QED  BY <3>1, <3>2, OneKid
  <2>3. CASE Label
    <3>1. /\ Compiling("label") /\ Push(<<Stmt(Kid(Top.node, 1))>>)
          /\ prog' = prog /\ UNCHANGED <<loops, sawLoop>> /\ switches' = switches
          BY <1>2, <2>3 DEF Label, Context
    <3> QED  BY <3>1, OneKid
  <2> QED  BY <2>1, <2>2, <2>3
<1> QED  BY <1>1, <1>2

\* A function begins outside of every loop and switch, with none left open.
LEMMA BeginFunctionContext ==
  ASSUME IInv, NInv, BeginFunction
  PROVE  NInv'
<1> DEFINE k  == prog.fns[next].body
           t  == Task("endFunction", next, <<>>, FALSE)
           ts == <<Stmt(k), t>>
<1>1. /\ err = "none" /\ todo = <<>> /\ next <= Len(prog.fns) /\ todo' = ts
      /\ prog' = prog /\ UNCHANGED Context
      BY DEF BeginFunction, Context
<1>2. prog \in Programs /\ next \in Nat \ {0} /\ todo \in Seq(Tasks) /\ Len(todo) = 0
      BY <1>1, EmptySeq DEF IInv, ResultTypes, StackOK, Frames
<1>3. k \in DOMAIN prog.node /\ ~Inside(k)
  <2>1. prog.fns \in Seq([body : DOMAIN prog.node, ret : ReturnKind])
        BY <1>2, ProgramsAssumption DEF ProgramOK
  <2>2. next \in 1..Len(prog.fns)
        BY <1>1, <1>2, <2>1, LenProperties
  <2> QED  BY <1>2, <2>2, BodyInside
<1> HIDE DEF k
<1>4. Stmt(k) \in Tasks /\ Stmt(k).op = "stmt" /\ Stmt(k).node = k
      BY <1>2, <1>3, StmtFacts
<1>5. t \in Tasks /\ t.op = "endFunction"
  <2>1. <<>> \in Seq(Block) /\ "endFunction" \in TaskOps /\ FALSE \in BOOLEAN
        BY EmptySeq DEF TaskOps
  <2> QED  BY <1>2, <2>1 DEF Task, Tasks
<1> HIDE DEF t
<1>6. ts \in Seq(Tasks) /\ Len(ts) = 2 /\ ts[1] = Stmt(k) /\ ts[2] = t
      BY <1>4, <1>5
<1>7. todo' = ts \o todo
      BY <1>1, <1>6, ConcatEmptySeq
<1> HIDE DEF ts
<1>8. ~Within(todo, Len(todo) + 1) /\ AsInSource(todo)
  <2>1. LoopsOf(todo) \subseteq 1..0 /\ SwitchesOf(todo) \subseteq 1..0
        BY <1>2, FinitelyOpen
  <2>2. \A h : h \notin 1..0
        OBVIOUS
  <2> QED  BY <1>2, <2>1, <2>2 DEF Within, AsInSource
<1>9. \A i \in 1..Len(ts) :
        /\ ~IsOpen(ts[i])
        /\ Breaking(ts[i]) => (Inside(ts[i].node) <=> Within(todo, Len(todo) + 1))
        /\ ts[i].op = "else" => Node(ts[i].node).kind = "if"
  <2>1. \A i \in 1..2 : i = 1 \/ i = 2
        OBVIOUS
  <2>2. ~IsOpen(t) /\ ~Breaking(t) /\ t.op # "else"
        BY <1>5 DEF IsOpen, LoopTasks, Breaking
  <2>3. ~IsOpen(Stmt(k)) /\ Stmt(k).op # "else"
        BY <1>4 DEF IsOpen, LoopTasks
  <2> QED  BY <1>3, <1>4, <1>6, <1>8, <2>1, <2>2, <2>3
<1>10. AsInSource(ts \o todo)
      BY <1>2, <1>6, <1>8, <1>9, SourcePlain
<1>11. Mirrored(ts \o todo, loops, switches, sawLoop)
  <2>1. Mirrored(todo, loops, switches, sawLoop)
        BY <1>1 DEF NInv, ContextOK
  <2> QED  BY <1>2, <1>6, <1>9, <2>1, MirrorPlain
<1> QED  BY <1>1, <1>7, <1>10, <1>11, Concluded DEF Context

\* It ends with what is left, and an unreachable statement stops everything.
LEMMA EndFunctionContext ==
  ASSUME IInv, NInv, EndFunction \/ Unreachable
  PROVE  NInv'
<1>1. CASE err' # "none"
      BY <1>1, Halted
<1>2. CASE err' = "none"
  <2>1. /\ Running /\ Top.op = "endFunction" /\ Pop /\ prog' = prog /\ UNCHANGED Context
        BY <1>2 DEF EndFunction, Unreachable, At, Fail, Context
  <2>2. ~IsOpen(Top)
        BY <2>1 DEF IsOpen, LoopTasks
  <2> QED  BY <2>1, <2>2, PopKeepsContext
<1> QED  BY <1>1, <1>2

\* A loop or switch is entered: what is compiled in it is inside.
LEMMA EnterContext ==
  ASSUME IInv, NInv, Running, ~IsOpen(Top), NEW t \in Tasks, IsOpen(t),
         NEW ts \in Seq(Tasks),
         \A i \in 1..Len(ts) :
           ~IsOpen(ts[i]) /\ (Breaking(ts[i]) => Inside(ts[i].node)) /\ ts[i].op # "else",
         todo' = ts \o (<<t>> \o Tail(todo)), prog' = prog,
         Mirrored(<<t>> \o Tail(todo), loops', switches', sawLoop')
  PROVE  NInv'
<1> DEFINE s == <<t>> \o Tail(todo)
<1>1. AsInSource(s) /\ s \in Seq(Tasks) /\ Within(s, Len(s) + 1)
      BY AtTop, SourceOpen
<1>2. todo' = ts \o s /\ Mirrored(s, loops', switches', sawLoop')
      OBVIOUS
<1> HIDE DEF s
<1>3. AsInSource(ts \o s)
      BY <1>1, SourcePlain
<1>4. Mirrored(ts \o s, loops', switches', sawLoop')
      BY <1>1, <1>2, MirrorPlain
<1> QED  BY <1>2, <1>3, <1>4, Concluded

\* What a loop repeats is inside it.
LEMMA LoopBodyInside ==
  ASSUME prog \in Programs, NEW n \in DOMAIN prog.node, Node(n).kind \in {"while", "for"}
  PROVE  /\ LoopBody(n) \in Seq(Tasks)
         /\ \A i \in 1..Len(LoopBody(n)) :
              /\ ~IsOpen(LoopBody(n)[i]) /\ LoopBody(n)[i].op # "else"
              /\ Breaking(LoopBody(n)[i]) => Inside(LoopBody(n)[i].node)
<1> DEFINE ts == LoopBody(n)
           k1 == Kid(n, 1)
           k2 == Kid(n, 2)
           t  == Task("post", n, <<>>, FALSE)
<1>1. Inner(ts, prog)
      BY LoopBodyFacts
<1>2. ts \in Seq(Tasks) /\ \A i \in 1..Len(ts) : ts[i].op \in {"stmt", "post"}
      BY <1>1 DEF Inner
<1>3. \A i \in 1..Len(ts) : ~IsOpen(ts[i]) /\ ts[i].op # "else"
      BY <1>2 DEF IsOpen, LoopTasks
<1>4. \A k \in {Kid(n, i) : i \in DOMAIN Node(n).kids} : Inside(k)
      BY KidInside DEF Breakable
<1>5. CASE Node(n).kind = "while"
  <2>1. Node(n).kids \in Seq(DOMAIN prog.node) /\ Len(Node(n).kids) \in Arity("while")
        /\ k1 \in DOMAIN prog.node
        BY <1>5, NodeFacts, KidFacts DEF Unary
  <2>2. Arity("while") = {1}
        BY DEF Arity, Leaves, Unary
  <2>3. 1 \in DOMAIN Node(n).kids
        BY <2>1, <2>2, LenProperties
  <2>4. Inside(k1)
        BY <1>4, <2>3
  <2>5. ts = <<Stmt(k1)>>
        BY <1>5 DEF LoopBody
  <2> HIDE DEF ts, k1
  <2>6. Stmt(k1) \in Tasks /\ Stmt(k1).node = k1
        BY <2>1, StmtFacts
  <2>7. Len(ts) = 1 /\ ts[1] = Stmt(k1)
        BY <2>5, <2>6, Single
  <2>8. \A i \in 1..Len(ts) : Inside(ts[i].node)
        BY <2>4, <2>6, <2>7
  <2> QED  BY <1>2, <1>3, <2>8 DEF ts
<1>6. CASE Node(n).kind = "for"
  <2>1. Node(n).kids \in Seq(DOMAIN prog.node) /\ Len(Node(n).kids) \in Arity("for")
        /\ k2 \in DOMAIN prog.node
        BY <1>6, NodeFacts, KidFacts
  <2>2. Arity("for") = {2}
        BY DEF Arity, Leaves, Unary
  <2>3. 2 \in DOMAIN Node(n).kids
        BY <2>1, <2>2, LenProperties
  <2>4. Inside(k2)
        BY <1>4, <2>3
  <2>5. ts = <<Stmt(k2)>> \/ ts = <<Stmt(k2), t>>
        BY <1>6 DEF LoopBody
  <2>6. t \in Tasks /\ t.op = "post"
    <3>1. <<>> \in Seq(Block) /\ "post" \in TaskOps /\ FALSE \in BOOLEAN /\ n \in Nat
          BY NodeFacts, EmptySeq DEF TaskOps
    <3> QED  BY <3>1 DEF Task, Tasks
  <2> HIDE DEF ts, k2, t
  <2>7. Stmt(k2) \in Tasks /\ Stmt(k2).node = k2
        BY <2>1, StmtFacts
  <2>8. ~Breaking(t)
        BY <2>6 DEF Breaking
  <2>9. CASE ts = <<Stmt(k2)>>
    <3>1. Len(ts) = 1 /\ ts[1] = Stmt(k2)
          BY <2>7, <2>9, Single
    <3>2. \A i \in 1..Len(ts) : Inside(ts[i].node)
          BY <2>4, <2>7, <3>1
    <3> QED  BY <1>2, <1>3, <3>2 DEF ts
  <2>10. CASE ts = <<Stmt(k2), t>>
    <3>1. Len(ts) = 2 /\ ts[1] = Stmt(k2) /\ ts[2] = t
          BY <2>6, <2>7, <2>10
    <3>2. \A i \in 1..2 : i = 1 \/ i = 2
          OBVIOUS
    <3>3. \A i \in 1..Len(ts) : Breaking(ts[i]) => Inside(ts[i].node)
          BY <2>4, <2>7, <2>8, <3>1, <3>2
    <3> QED  BY <1>2, <1>3, <3>3 DEF ts
  <2> QED  BY <2>5, <2>9, <2>10
<1> QED  BY <1>5, <1>6

\* The only statement of a do or a switch is inside it.
LEMMA BodyOf ==
  ASSUME prog \in Programs, NEW n \in DOMAIN prog.node, Node(n).kind \in {"do", "switch"}
  PROVE  /\ Kid(n, 1) \in DOMAIN prog.node /\ <<Stmt(Kid(n, 1))>> \in Seq(Tasks)
         /\ Stmt(Kid(n, 1)) \in Tasks
         /\ \A i \in 1..Len(<<Stmt(Kid(n, 1))>>) :
              /\ ~IsOpen(<<Stmt(Kid(n, 1))>>[i]) /\ <<Stmt(Kid(n, 1))>>[i].op # "else"
              /\ Breaking(<<Stmt(Kid(n, 1))>>[i]) => Inside(<<Stmt(Kid(n, 1))>>[i].node)
<1> DEFINE k  == Kid(n, 1)
           ts == <<Stmt(k)>>
<1>1. Node(n).kids \in Seq(DOMAIN prog.node) /\ Len(Node(n).kids) \in Arity(Node(n).kind)
      /\ k \in DOMAIN prog.node
      BY NodeFacts, KidFacts DEF Unary
<1>2. Arity(Node(n).kind) = {1}
      BY DEF Arity, Leaves, Unary
<1>3. 1 \in DOMAIN Node(n).kids
      BY <1>1, <1>2, LenProperties
<1>4. Inside(k)
      BY <1>3, KidInside DEF Breakable
<1> HIDE DEF k
<1>5. Stmt(k) \in Tasks /\ Stmt(k).op = "stmt" /\ Stmt(k).node = k
      BY <1>1, StmtFacts
<1>6. ts \in Seq(Tasks) /\ Len(ts) = 1 /\ ts[1] = Stmt(k)
      BY <1>5, Single
<1> HIDE DEF ts
<1>7. \A i \in 1..Len(ts) :
        ~IsOpen(ts[i]) /\ ts[i].op # "else" /\ (Breaking(ts[i]) => Inside(ts[i].node))
      BY <1>4, <1>5, <1>6 DEF IsOpen, LoopTasks
<1> QED  BY <1>1, <1>5, <1>6, <1>7 DEF ts, k

\* enter_loop, for any loop whose task is put on the stack.
LEMMA LoopEntered ==
  ASSUME IInv, NInv, Running, ~IsOpen(Top), NEW t \in Tasks, t.op \in LoopTasks,
         t.flag = sawLoop, Exit(t) = End(b), Body(b) \in Block, End(b) \in Block, EnterLoop
  PROVE  Mirrored(<<t>> \o Tail(todo), loops', switches', sawLoop')
<1> DEFINE e == <<Body(b), End(b)>>
           s == Tail(todo)
<1>1. /\ loops' = Append(loops, e) /\ sawLoop' = TRUE /\ switches' = switches
      BY DEF EnterLoop
<1>2. /\ s \in Seq(Tasks) /\ sawLoop \in BOOLEAN /\ Mirrored(s, loops, switches, sawLoop)
      BY AtTop
<1>3. loops \in Seq(Block \X Block) /\ e \in Block \X Block /\ e[2] = Exit(t)
      BY DEF IInv, ContextTypes
<1> HIDE DEF e, s
<1>4. Mirrored(<<t>> \o s, Append(loops, e), switches, TRUE)
      BY <1>2, <1>3, MirrorLoop
<1> QED  BY <1>1, <1>4 DEF s

\* while, and for after its init statement.
LEMMA WhileContext ==
  ASSUME IInv, NInv, While
  PROVE  NInv'
<1> DEFINE n    == Top.node
           head == Header(b)
           end  == End(b)
           t    == Task("endWhile", n, <<head, end>>, sawLoop)
           ts   == LoopBody(n)
           s    == Tail(todo)
<1>1. /\ Compiling("while") \/ At("for")
      /\ todo' = (ts \o <<t>>) \o s /\ EnterLoop /\ prog' = prog
      BY DEF While, Push, Frame
<1>2. /\ Running /\ n \in DOMAIN prog.node /\ n \in Nat /\ Node(n).kind \in {"while", "for"}
      /\ ~IsOpen(Top) /\ ~b.filled
      BY <1>1, WhileTop
<1>3. prog \in Programs /\ sawLoop \in BOOLEAN /\ Good(b, Instrs) /\ s \in Seq(Tasks)
      BY <1>2, TopFacts, AtTop
<1>4. head \in Block /\ Body(b) \in Block /\ end \in Block
      BY <1>2, <1>3, EnteredFacts
<1>5. /\ ts \in Seq(Tasks)
      /\ \A i \in 1..Len(ts) :
           ~IsOpen(ts[i]) /\ (Breaking(ts[i]) => Inside(ts[i].node)) /\ ts[i].op # "else"
      BY <1>2, <1>3, LoopBodyInside
<1> HIDE DEF ts, n, head
<1>6. /\ t \in Tasks /\ t.op = "endWhile" /\ t.flag = sawLoop /\ IsOpen(t) /\ Exit(t) = end
  <2> DEFINE blk == <<head, end>>
  <2>1. "endWhile" \in LoopTasks /\ blk \in Seq(Block) /\ Len(blk) = 2 /\ blk[2] = end
        BY <1>4 DEF LoopTasks
  <2> HIDE DEF blk
  <2>2. t = Task("endWhile", n, blk, sawLoop)
        BY DEF blk
  <2>3. /\ t \in Tasks /\ t.op = "endWhile" /\ t.blk = blk /\ (t.flag <=> sawLoop)
        BY <1>2, <1>3, <2>1, <2>2 DEF Task, Tasks, TaskOps
  <2> HIDE DEF t
  <2>4. t.flag = sawLoop
    <3>1. t.flag \in BOOLEAN
          BY <2>3 DEF Tasks
    <3> QED  BY <1>3, <2>3, <3>1
  <2> QED  BY <2>1, <2>3, <2>4 DEF IsOpen, Exit, LoopTasks
<1> HIDE DEF t
<1>7. Mirrored(<<t>> \o s, loops', switches', sawLoop')
  <2>1. t.op \in LoopTasks
        BY <1>6 DEF LoopTasks
  <2> QED  BY <1>1, <1>2, <1>4, <1>6, <2>1, LoopEntered
<1>8. todo' = ts \o (<<t>> \o s)
  <2>1. <<t>> \in Seq(Tasks)
        BY <1>6, Single
  <2>2. (ts \o <<t>>) \o s = ts \o (<<t>> \o s)
        BY <1>3, <1>5, <2>1, ConcatAssociative
  <2> QED  BY <1>1, <2>2
<1> QED  BY <1>1, <1>2, <1>5, <1>6, <1>7, <1>8, EnterContext

\* do.
LEMMA DoContext ==
  ASSUME IInv, NInv, Do
  PROVE  NInv'
<1> DEFINE n    == Top.node
           head == Header(b)
           body == Body(b)
           end  == End(b)
           t    == Task("endDo", n, <<head, body, end>>, sawLoop)
           k    == Kid(n, 1)
           s    == Tail(todo)
<1>1. Compiling("do") /\ todo' = <<Stmt(k), t>> \o s /\ EnterLoop /\ prog' = prog
      BY DEF Do, Push, Frame
<1>2. /\ Running /\ n \in DOMAIN prog.node /\ n \in Nat /\ Node(n).kind = "do"
      /\ ~IsOpen(Top) /\ ~b.filled
      BY <1>1, CompilingFacts DEF JumpTargetKinds
<1>3. prog \in Programs /\ sawLoop \in BOOLEAN /\ Good(b, Instrs) /\ s \in Seq(Tasks)
      BY <1>2, TopFacts, AtTop
<1>4. head \in Block /\ body \in Block /\ end \in Block
      BY <1>2, <1>3, EnteredFacts
<1>5. /\ <<Stmt(k)>> \in Seq(Tasks) /\ Stmt(k) \in Tasks
      /\ \A i \in 1..Len(<<Stmt(k)>>) :
           /\ ~IsOpen(<<Stmt(k)>>[i]) /\ <<Stmt(k)>>[i].op # "else"
           /\ Breaking(<<Stmt(k)>>[i]) => Inside(<<Stmt(k)>>[i].node)
      BY <1>2, <1>3, BodyOf
<1> HIDE DEF k, n, head
<1>6. /\ t \in Tasks /\ t.op = "endDo" /\ t.flag = sawLoop /\ IsOpen(t) /\ Exit(t) = end
  <2> DEFINE blk == <<head, body, end>>
  <2>1. "endDo" \in LoopTasks /\ blk \in Seq(Block) /\ Len(blk) = 3 /\ blk[3] = end
        BY <1>4 DEF LoopTasks
  <2> HIDE DEF blk
  <2>2. t = Task("endDo", n, blk, sawLoop)
        BY DEF blk
  <2>3. /\ t \in Tasks /\ t.op = "endDo" /\ t.blk = blk /\ (t.flag <=> sawLoop)
        BY <1>2, <1>3, <2>1, <2>2 DEF Task, Tasks, TaskOps
  <2> HIDE DEF t
  <2>4. t.flag = sawLoop
    <3>1. t.flag \in BOOLEAN
          BY <2>3 DEF Tasks
    <3> QED  BY <1>3, <2>3, <3>1
  <2> QED  BY <2>1, <2>3, <2>4 DEF IsOpen, Exit, LoopTasks
<1> HIDE DEF t
<1>7. Mirrored(<<t>> \o s, loops', switches', sawLoop')
  <2>1. t.op \in LoopTasks
        BY <1>6 DEF LoopTasks
  <2> QED  BY <1>1, <1>2, <1>4, <1>6, <2>1, LoopEntered
<1>8. todo' = <<Stmt(k)>> \o (<<t>> \o s)
      BY <1>1, <1>3, <1>5, <1>6, Pair
<1> QED  BY <1>1, <1>2, <1>5, <1>6, <1>7, <1>8, EnterContext

\* switch.
LEMMA SwitchContext ==
  ASSUME IInv, NInv, Switch
  PROVE  NInv'
<1> DEFINE n     == Top.node
           dummy == Fresh(b, 1)
           end   == Fresh(b, 3)
           w     == [cases |-> NoBlocks, default |-> 0, end |-> end]
           t     == Task("endSwitch", n, <<dummy>>, sawLoop)
           k     == Kid(n, 1)
           s     == Tail(todo)
<1>1. /\ Compiling("switch") /\ todo' = <<Stmt(k), t>> \o s /\ prog' = prog
      /\ switches' = Append(switches, w) /\ sawLoop' = FALSE /\ loops' = loops
      BY DEF Switch, Push, Frame, EnterSwitch
<1>2. /\ Running /\ n \in DOMAIN prog.node /\ n \in Nat /\ Node(n).kind = "switch"
      /\ ~IsOpen(Top)
      BY <1>1, CompilingFacts
<1>3. /\ prog \in Programs /\ sawLoop \in BOOLEAN /\ s \in Seq(Tasks)
      /\ Mirrored(s, loops, switches, sawLoop) /\ switches \in Seq(SwitchSet)
      BY <1>2, AtTop DEF IInv, ContextTypes
<1>4. dummy \in Block
  <2>1. Len(b.code) \in Nat
        BY <1>2, TopFacts
  <2> QED  BY <2>1 DEF Fresh, Block
<1>5. /\ <<Stmt(k)>> \in Seq(Tasks) /\ Stmt(k) \in Tasks
      /\ \A i \in 1..Len(<<Stmt(k)>>) :
           /\ ~IsOpen(<<Stmt(k)>>[i]) /\ <<Stmt(k)>>[i].op # "else"
           /\ Breaking(<<Stmt(k)>>[i]) => Inside(<<Stmt(k)>>[i].node)
      BY <1>2, <1>3, BodyOf
<1> HIDE DEF k, n, dummy, end, w, s
<1>6. t \in Tasks /\ t.op = "endSwitch" /\ t.flag = sawLoop
  <2>1. "endSwitch" \in TaskOps /\ <<dummy>> \in Seq(Block)
        BY <1>4 DEF TaskOps
  <2>2. t \in Tasks /\ t.op = "endSwitch" /\ (t.flag <=> sawLoop)
        BY <1>2, <1>3, <2>1 DEF Task, Tasks
  <2>3. t.flag \in BOOLEAN
        BY <2>2 DEF Tasks
  <2> HIDE DEF t
  <2> QED  BY <1>3, <2>2, <2>3
<1> HIDE DEF t
<1>7. Mirrored(<<t>> \o s, loops', switches', sawLoop')
  <2> DEFINE S == SwitchSet \cup {w}
  <2>1. switches \in Seq(S) /\ w \in S
        BY <1>3, SeqDef
  <2> HIDE DEF S
  <2>2. Mirrored(<<t>> \o s, loops, Append(switches, w), FALSE)
        BY <1>3, <1>6, <2>1, MirrorSwitch
  <2> QED  BY <1>1, <2>2
<1>8. todo' = <<Stmt(k)>> \o (<<t>> \o s)
      BY <1>1, <1>3, <1>5, <1>6, Pair
<1>9. IsOpen(t)
      BY <1>6 DEF IsOpen
<1> QED  BY <1>1, <1>2, <1>5, <1>6, <1>7, <1>8, <1>9, EnterContext DEF s

\* A loop or switch is left: the context is again what it was before.
LEMMA LeaveContext ==
  ASSUME IInv, NInv, EndWhile \/ EndDo \/ EndSwitch
  PROVE  NInv'
<1>1. CASE err' # "none"
      BY <1>1, Halted
<1>2. CASE err' = "none"
  <2> DEFINE s == Tail(todo)
             t == Top
  <2>1. /\ Running /\ prog' = prog /\ todo' = s
        /\ \/ t.op \in LoopTasks /\ ExitLoop(t.flag)
           \/ t.op = "endSwitch" /\ ExitSwitch(t.flag)
        BY <1>2 DEF EndWhile, EndDo, EndSwitch, At, Pop, Frame, Fail, LoopTasks
  <2>2. /\ t \in Tasks /\ s \in Seq(Tasks) /\ AsInSource(s)
        /\ Mirrored(<<t>> \o s, loops, switches, sawLoop)
        BY <2>1, AtTop
  <2>3. loops \in Seq(Block \X Block) /\ switches \in Seq(SwitchSet)
        BY DEF IInv, ContextTypes
  <2> HIDE DEF s, t
  <2>4. CASE t.op \in LoopTasks /\ ExitLoop(t.flag)
    <3>1. Mirrored(s, SubSeq(loops, 1, Len(loops) - 1), switches, t.flag)
          BY <2>2, <2>3, <2>4, UnmirrorLoop
    <3> QED  BY <2>1, <2>2, <2>4, <3>1, Concluded DEF ExitLoop
  <2>5. CASE t.op = "endSwitch" /\ ExitSwitch(t.flag)
    <3>1. Mirrored(s, loops, SubSeq(switches, 1, Len(switches) - 1), t.flag)
          BY <2>2, <2>3, <2>5, UnmirrorSwitch
    <3> QED  BY <2>1, <2>2, <2>5, <3>1, Concluded DEF ExitSwitch
  <2> QED  BY <2>1, <2>4, <2>5
<1> QED  BY <1>1, <1>2

-----------------------------------------------------------------------------
(* The theorems.                                                           *)

\* Nothing is open at first.
LEMMA InitNInv == Init => NInv
<1> SUFFICES ASSUME Init PROVE NInv
    OBVIOUS
<1>1. todo = <<>> /\ loops = <<>> /\ switches = <<>> /\ sawLoop = TRUE
      BY DEF Init
<1>2. todo \in Seq(Tasks) /\ Len(todo) = 0 /\ Len(loops) = 0 /\ Len(switches) = 0
      BY <1>1, EmptySeq
<1>3. \A h : h \notin 1..0
      OBVIOUS
<1>4. LoopsOf(todo) = {} /\ SwitchesOf(todo) = {}
      BY <1>2, <1>3 DEF LoopsOf, SwitchesOf, OpenAt
<1>5. Cardinality({}) = 0
      BY FS_EmptySet
<1>6. Saw(todo, Len(todo) + 1) = TRUE
  <2>1. Saw(todo, Len(todo) + 1) \in BOOLEAN
        BY DEF Saw
  <2>2. Saw(todo, Len(todo) + 1)
        BY <1>4 DEF Saw
  <2> QED  BY <2>1, <2>2
<1>7. Mirrored(todo, loops, switches, sawLoop)
      BY <1>1, <1>2, <1>4, <1>5, <1>6 DEF Mirrored
<1>8. AsInSource(todo)
      BY <1>2, <1>3 DEF AsInSource
<1> QED  BY <1>7, <1>8 DEF NInv, ContextOK, NestingOK

\* Every step keeps the context.
LEMMA StepContext == IInv /\ NInv /\ [Next]_vars => NInv'
<1>1. ASSUME IInv, NInv, UNCHANGED vars PROVE NInv'
  <2>1. CASE err' # "none"
        BY <2>1, Halted
  <2>2. CASE err' = "none"
        BY <1>1, <2>2, Concluded DEF vars, NInv, ContextOK, NestingOK
  <2> QED  BY <2>1, <2>2
<1>2. ASSUME IInv, NInv, Step PROVE NInv'
      BY <1>2, BeginFunctionContext, EndFunctionContext, CompoundContext, LeafContext,
         IfContext, ElseContext, ForContext, WhileContext, DoContext, SwitchContext,
         LeaveContext, EntryContext DEF Step
<1> QED  BY <1>1, <1>2 DEF Next, Done

\* The context stacks and the statements still to be compiled are always those
\* of the source around what is compiled.
THEOREM NestingKept == Spec => [](IInv /\ NInv)
<1> QED  BY InitIInv, StepKeeps, InitNInv, StepContext, PTL DEF Spec

\* loops, switches and last_saw_loop mirror the loops and switches that are being
\* compiled, for every program and every nesting: each entry of loops ends where
\* its loop ends, and what one function leaves open no other finds.
THEOREM ContextFollowsNesting == Spec => []ContextMatchesNesting
<1>1. IInv /\ NInv => ContextMatchesNesting
  <2> SUFFICES ASSUME IInv, NInv, err = "none" PROVE ContextMatchesNesting
      BY DEF ContextMatchesNesting
  <2>1. todo \in Seq(Tasks) /\ Mirrored(todo, loops, switches, sawLoop)
        BY DEF IInv, StackOK, Frames, NInv, ContextOK
  <2>2. OpenLoops = LoopsOf(todo) /\ OpenSwitches = SwitchesOf(todo)
        BY DEF OpenLoops, OpenSwitches, LoopsOf, SwitchesOf
  <2>3. \A h \in OpenLoops \cup OpenSwitches : h \in Nat /\ h < Len(todo) + 1
    <3>1. /\ OpenLoops \subseteq 1..Len(todo) /\ OpenSwitches \subseteq 1..Len(todo)
          /\ Len(todo) \in Nat
          BY <2>1, <2>2, FinitelyOpen
    <3> QED  BY <3>1
  <2>4. Saw(todo, Len(todo) + 1) = (\A s \in OpenSwitches : \E l \in OpenLoops : l > s)
        BY <2>2, <2>3 DEF Saw
  <2>5. \A h \in OpenLoops : UpTo(OpenLoops, h) = {l \in OpenLoops : l <= h}
        BY DEF UpTo
  <2> QED  BY <2>1, <2>2, <2>4, <2>5 DEF Mirrored, ContextMatchesNesting, Exit
<1> QED  BY <1>1, NestingKept, PTL

\* A break is rejected exactly where no loop or switch of the source is around it
\* in its function, for every program.
THEOREM BreakFollowsSource == Spec => []BreakScope
<1>1. IInv /\ NInv => BreakScope
  <2> SUFFICES ASSUME IInv, NInv, Compiling("break")
               PROVE  ("block" \in DOMAIN ExitTarget("break"))
                        = (Around(Top.node, Breakable) # {})
      BY DEF BreakScope
  <2> DEFINE s == Tail(todo)
             found == "block" \in DOMAIN ExitTarget("break")
  <2>1. Running /\ Top.op = "stmt" /\ Node(Top.node).kind = "break" /\ ~IsOpen(Top)
        BY CompilingFacts
  <2>2. /\ s \in Seq(Tasks) /\ sawLoop \in BOOLEAN
        /\ Mirrored(s, loops, switches, sawLoop)
        /\ Breaking(Top) => (Inside(Top.node) <=> Within(s, Len(s) + 1))
        BY <2>1, AtTop
  <2>3. Inside(Top.node) <=> Within(s, Len(s) + 1)
        BY <2>1, <2>2 DEF Breaking
  <2>4. loops \in Seq(Block \X Block) /\ switches \in Seq(SwitchSet)
        BY DEF IInv, ContextTypes
  <2> HIDE DEF s
  <2>5. /\ LoopsOf(s) \subseteq 1..Len(s) /\ SwitchesOf(s) \subseteq 1..Len(s)
        /\ IsFiniteSet(LoopsOf(s)) /\ IsFiniteSet(SwitchesOf(s)) /\ Len(s) \in Nat
        BY <2>2, FinitelyOpen
  <2>6. Within(s, Len(s) + 1) <=> LoopsOf(s) # {} \/ SwitchesOf(s) # {}
    <3>1. \A l \in 1..Len(s) : l < Len(s) + 1
          BY <2>5
    <3> QED  BY <2>5, <3>1 DEF Within
  <2>7. (loops = <<>> <=> LoopsOf(s) = {}) /\ (switches = <<>> <=> SwitchesOf(s) = {})
    <3>1. Len(loops) = Cardinality(LoopsOf(s)) /\ Len(switches) = Cardinality(SwitchesOf(s))
          BY <2>2 DEF Mirrored
    <3>2. /\ Cardinality(LoopsOf(s)) = 0 <=> LoopsOf(s) = {}
          /\ Cardinality(SwitchesOf(s)) = 0 <=> SwitchesOf(s) = {}
          BY <2>5, FS_EmptySet
    <3>3. (Len(loops) = 0 <=> loops = <<>>) /\ (Len(switches) = 0 <=> switches = <<>>)
          BY <2>4, EmptySeq
    <3> QED  BY <3>1, <3>2, <3>3
  <2>8. found <=> IF sawLoop THEN loops # <<>> ELSE switches # <<>>
        BY DEF ExitTarget
  <2>9. (sawLoop /\ loops = <<>> => switches = <<>>) /\ (~sawLoop => switches # <<>>)
    <3>1. sawLoop <=> Saw(s, Len(s) + 1)
          BY <2>2 DEF Mirrored
    <3>2. LoopsOf(s) = {} /\ Saw(s, Len(s) + 1) => SwitchesOf(s) = {}
      <4>1. \A m \in SwitchesOf(s) : m < Len(s) + 1
            BY <2>5
      <4> QED  BY <4>1 DEF Saw
    <3>3. SwitchesOf(s) = {} => Saw(s, Len(s) + 1)
          BY DEF Saw
    <3> QED  BY <2>7, <3>1, <3>2, <3>3
  <2>10. found <=> Inside(Top.node)
        BY <2>2, <2>3, <2>6, <2>7, <2>8, <2>9
  <2>11. found \in BOOLEAN /\ Inside(Top.node) \in BOOLEAN
        BY DEF Inside
  <2> QED  BY <2>10, <2>11 DEF Inside
<1> QED  BY <1>1, NestingKept, PTL

=============================================================================
