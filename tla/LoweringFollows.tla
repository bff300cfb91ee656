-------------------------- MODULE LoweringFollows --------------------------
(***************************************************************************)
(* The code of a finished function evaluates what its statements evaluate, *)
(* in their order, for every program: each step of the statement compiler  *)
(* keeps what the code owes to the source (LoweringSource), and so does    *)
(* each step of the execution.                                             *)
(***************************************************************************)
EXTENDS LoweringSource

-----------------------------------------------------------------------------
(* One action at a time.                                                    *)

\* What is known after the step.
SimNext == \E K : Sim(b', todo', switches', labels', next', K)

\* The ways in which a pair is borne out: by an instruction, by a jump, or by
\* what follows at the same place.
LEMMA Bearing ==
  ASSUME NEW code, NEW Q, NEW H, NEW L, NEW q
  PROVE  /\ On(Q, L, q) => OK(code, Q, H, L, q)
         /\ Silent(q) /\ On(Q, L, Silently(q)) => OK(code, Q, H, L, q)
         /\ \A M : Hop(code, L, M) /\ Silent(q) /\ On(H, M, Silently(q)) => OK(code, Q, H, L, q)
         /\ \A M : Hop(code, L, M) /\ ~Silent(q) /\ <<M, q>> \in H => OK(code, Q, H, L, q)
         /\ \A ins :
              /\ ~Silent(q) /\ Has(code, L, ins) /\ ins.op # "jump"
              /\ Observed(q) = [op |-> ins.op, node |-> ins.node]
              /\ ins.op # "ret" => \A v \in Values(q) : On(H, Goal(ins, L, v), Evaluated(q, v))
              => OK(code, Q, H, L, q)
<1>1. On(Q, L, q) => OK(code, Q, H, L, q)
      BY DEF OK
<1>2. Silent(q) /\ On(Q, L, Silently(q)) => OK(code, Q, H, L, q)
      BY Justifying DEF OK
<1>3. \A M : Hop(code, L, M) /\ Silent(q) /\ On(H, M, Silently(q)) => OK(code, Q, H, L, q)
      BY Leading, Zenon DEF OK, Justified
<1>4. \A M : Hop(code, L, M) /\ ~Silent(q) /\ <<M, q>> \in H => OK(code, Q, H, L, q)
      BY Zenon DEF OK, Justified
<1>5. \A ins :
        /\ ~Silent(q) /\ Has(code, L, ins) /\ ins.op # "jump"
        /\ Observed(q) = [op |-> ins.op, node |-> ins.node]
        /\ ins.op # "ret" => \A v \in Values(q) : On(H, Goal(ins, L, v), Evaluated(q, v))
        => OK(code, Q, H, L, q)
      BY Zenon DEF OK, Justified, Runs
<1> QED  BY <1>1, <1>2, <1>3, <1>4, <1>5

\* The current place, when a task is taken off the stack.
LEMMA AfterPop ==
  ASSUME Base, Running, Top.op # "endFunction", Pop, ~b'.filled,
         NEW sw, NEW Q, Owed(b', todo', sw) \subseteq Q
  PROVE  /\ On(Q, Point(b'), Then(Top))
         /\ Top.op # "post" => On(Q, Point(b'), Leave(Top.node))
<1>1. Tail(todo) # <<>> /\ Falls(Then(Top), NowOf(Head(Tail(todo))))
      BY BaseTop
<1>2. <<Point(b'), NowOf(Head(todo'))>> \in Q
      BY <1>1, OwedNow DEF Pop
<1>3. On(Q, Point(b'), Then(Top))
      BY <1>1, <1>2, Justifying DEF Pop
<1>4. ASSUME Top.op # "post" PROVE On(Q, Point(b'), Leave(Top.node))
  <2>1. Then(Top) = Silently(Leave(Top.node)) /\ Silent(Leave(Top.node))
        BY <1>4, BaseTop, ThenOf, AfterStatement
  <2> QED  BY <1>3, <2>1, Justifying
<1> QED  BY <1>3, <1>4

\* A task that is taken off the stack.
LEMMA PopSim ==
  ASSUME Base, Running, Top.op \notin {"endSwitch", "endFunction"}, Ends0(Top, <<>>), Pop,
         switches' = switches, labels' = labels, next' = next,
         NEW K, Sim(b, todo, switches, labels, next, K), Extends(b.code, b'.code),
         NEW N, NEW Q, NEW H, Q = Owed(b', todo', switches), H = (K \cup N) \cup Q,
         ~b.filled => OK(b'.code, Q, H, Point(b), NowOf(Top)),
         \A L, q : <<L, q>> \in Promise(Top) \cup N => OK(b'.code, Q, H, L, q)
  PROVE  SimNext
<1> DEFINE ts == <<>>
<1>1. ts \in Seq(Tasks) /\ Tail(todo) \in Seq(Tasks) /\ Len(ts) = 0
      BY BaseTop
<1>2. todo' = ts \o Tail(todo)
      BY <1>1 DEF Pop
<1>3. Shape(Top, ts)
      BY DEF Shape
<1>4. \A i \in 1..Len(ts) : ts[i].op # "endSwitch" /\ Kept(ts[i], b'.code, H)
      BY <1>1
<1>5. Top.op = "stmt" => Node(Top.node).kind \notin {"case", "default"}
      BY DEF Ends0, Leaves
<1>6. K \subseteq H
      OBVIOUS
<1>7. LabelsKnown(labels', next, H)
  <2>1. LabelsKnown(labels, next, K)
        BY DEF Sim
  <2>2. LabelsKnown(labels, next, H)
        BY <1>6, <2>1, Extending, StillKept
  <2> QED  BY <2>2
<1> HIDE DEF ts
<1>8. Sim(b', todo', switches', labels', next', H)
      BY <1>2, <1>3, <1>4, <1>5, <1>7, PlainSim
<1> QED  BY <1>8 DEF SimNext

\* A declaration without an initialiser.
LEMMA DeclareSim ==
  ASSUME Base, NEW K, Sim(b, todo, switches, labels, next, K), DeclareStack
  PROVE  SimNext
<1>1. /\ Running /\ Top.op = "stmt" /\ Node(Top.node).kind = "decl" /\ ~b.filled /\ b' = b
      /\ Pop /\ switches' = switches /\ labels' = labels /\ next' = next
      BY CompilingFacts DEF Base, DeclareStack, Frame, Context, JumpTargetKinds
<1> DEFINE n == Top.node
           Q == Owed(b', todo', switches)
           H == (K \cup {}) \cup Q
<1>2. NowOf(Top) = Enter(n) /\ n # 0
      BY <1>1, BaseTop DEF NowOf
<1>3. Silent(Enter(n)) /\ Silently(Enter(n)) = Leave(n)
      BY <1>1, <1>2, AtStatement, Beginning
<1>4. On(Q, Point(b'), Leave(n))
      BY <1>1, AfterPop
<1>5. OK(b'.code, Q, H, Point(b), NowOf(Top))
      BY <1>1, <1>2, <1>3, <1>4, Bearing
<1>6. Ends0(Top, <<>>) /\ Promise(Top) = {}
      BY <1>1 DEF Ends0, Leaves, Promise
<1>7. Extends(b.code, b'.code)
      BY <1>1, Extending
<1> HIDE DEF n
<1> QED  BY <1>1, <1>5, <1>6, <1>7, PopSim

\* An expression is evaluated where the source evaluates it.
LEMMA ExpressionSim ==
  ASSUME Base, NEW K, Sim(b, todo, switches, labels, next, K), Expression
  PROVE  SimNext
<1> DEFINE n == Top.node
           Q == Owed(b', todo', switches)
           H == (K \cup {}) \cup Q
           q == NowOf(Top)
<1>1. /\ Running /\ Top.op \in {"stmt", "post"} /\ ~b.filled
      /\ Top.op = "stmt" => Node(Top.node).kind = "expr"
      /\ Pop /\ switches' = switches /\ labels' = labels /\ next' = next
  <2>1. CASE Compiling("expr")
        BY <2>1, CompilingFacts DEF Base, Expression, Frame, Context, JumpTargetKinds
  <2>2. CASE At("post") /\ ~b.filled
        BY <2>2 DEF Base, Expression, Frame, Context, At
  <2> QED  BY <2>1, <2>2 DEF Expression
<1>2. n # 0 /\ n \in Nat /\ OfKind(Top) /\ Good(b, Instrs) /\ prog \in Programs
      BY <1>1, BaseTop, Program
<1>3. PICK ins \in Instrs :
        /\ b' = Ins(b, ins) /\ ins.op \in {"run", "post"} /\ ~Terminates(ins)
        /\ ~Silent(q) /\ Observed(q) = [op |-> ins.op, node |-> ins.node]
        /\ \A v : Evaluated(q, v) = IF Top.op = "post" THEN Then(Top) ELSE Leave(n)
  <2>1. CASE Compiling("expr") /\ b' = Ins(b, Run(n))
    <3>1. Top.op = "stmt" /\ Node(n).kind = "expr" /\ q = Enter(n)
          BY <2>1, CompilingFacts DEF Base, NowOf
    <3>2. ~Silent(q) /\ Observed(q) = [op |-> "run", node |-> n] /\ \A v : Evaluated(q, v) = Leave(n)
          BY <1>2, <3>1, AtStatement, Following
    <3>3. Run(n).op = "run" /\ Run(n).node = n
          BY DEF Run, Instr
    <3>4. Run(n) \in Instrs /\ ~Terminates(Run(n))
          BY <1>2, InstrFacts DEF Block
    <3> QED  BY <2>1, <3>1, <3>2, <3>3, <3>4
  <2>2. CASE At("post") /\ b' = Ins(b, Post(n))
    <3>1. Top.op = "post" /\ q = Pos(n, "post") /\ Then(Top) = Pos(n, "cond") /\ "post" \in Node(n).opts
          BY <1>2, <2>2 DEF At, NowOf, Then, OfKind
    <3>2. ~Silent(q) /\ Observed(q) = [op |-> "post", node |-> n] /\ \A v : Evaluated(q, v) = Then(Top)
          BY <1>2, <3>1, AtParts, Following
    <3>3. Post(n).op = "post" /\ Post(n).node = n
          BY DEF Post, Instr
    <3>4. Post(n) \in Instrs /\ ~Terminates(Post(n))
          BY <1>2, InstrFacts DEF Block
    <3> QED  BY <2>2, <3>1, <3>2, <3>3, <3>4
  <2> QED  BY <2>1, <2>2 DEF Expression
<1>4. /\ Extends(b.code, b'.code) /\ Has(b'.code, Point(b), ins)
      /\ Point(b') = <<Point(b)[1], Point(b)[2] + 1>> /\ ~b'.filled
      BY <1>1, <1>2, <1>3, InsPlace, RunLemma
<1>5. \A v : Goal(ins, Point(b), v) = Point(b')
      BY <1>3, <1>4 DEF Goal
<1>6. On(H, Point(b'), Then(Top)) /\ (Top.op # "post" => On(H, Point(b'), Leave(n)))
      BY <1>1, <1>4, AfterPop
<1>7. OK(b'.code, Q, H, Point(b), q)
  <2>1. \A v \in Values(q) : On(H, Goal(ins, Point(b), v), Evaluated(q, v))
        BY <1>3, <1>5, <1>6
  <2> HIDE DEF q, Q, H
  <2> QED  BY <1>3, <1>4, <2>1, Bearing
<1>8. Ends0(Top, <<>>) /\ Promise(Top) = {}
      BY <1>1 DEF Ends0, Leaves, Promise
<1> HIDE DEF n
<1> QED  BY <1>1, <1>4, <1>7, <1>8, PopSim

\* A return ends the block where the source returns.
LEMMA ReturnSim ==
  ASSUME Base, NEW K, Sim(b, todo, switches, labels, next, K), Return
  PROVE  SimNext
<1> DEFINE n == Top.node
           Q == Owed(b', todo', switches)
           H == (K \cup {}) \cup Q
<1>1. /\ Running /\ Top.op = "stmt" /\ Node(n).kind = "return" /\ ~b.filled
      /\ b' = [Ins(b, Ret(n)) EXCEPT !.filled = TRUE]
      /\ Pop /\ switches' = switches /\ labels' = labels /\ next' = next
      BY CompilingFacts DEF Base, Return, Frame, Context, JumpTargetKinds
<1>2. n # 0 /\ n \in Nat /\ Good(b, Instrs) /\ prog \in Programs
      BY <1>1, BaseTop, Program
<1>3. NowOf(Top) = Enter(n) /\ ~Silent(Enter(n)) /\ Observed(Enter(n)) = [op |-> "ret", node |-> n]
      BY <1>1, <1>2, AtStatement DEF NowOf
<1>4. Ret(n) \in Instrs /\ Ret(n).op = "ret" /\ Ret(n).node = n
      BY <1>2, InstrFacts DEF Ret, Instr, Block
<1>5. b'.code = Ins(b, Ret(n)).code
  <2>1. Ins(b, Ret(n)) \in Builder(Instrs)
        BY <1>1, <1>2, <1>4, InsLemma DEF Loose
  <2> QED  BY <1>1, <2>1, ReplacedIn
<1>6. Extends(b.code, b'.code) /\ Has(b'.code, Point(b), Ret(n))
      BY <1>1, <1>2, <1>4, <1>5, InsPlace
<1>7. OK(b'.code, Q, H, Point(b), NowOf(Top))
      BY <1>3, <1>4, <1>6, Bearing
<1>8. Ends0(Top, <<>>) /\ Promise(Top) = {}
      BY <1>1 DEF Ends0, Leaves, Promise
<1> HIDE DEF n
<1> QED  BY <1>1, <1>6, <1>7, <1>8, PopSim

\* What is known of the task on top.
LEMMA TopKnown ==
  ASSUME Base, Running, NEW K, Sim(b, todo, switches, labels, next, K)
  PROVE  /\ Kept(Top, b.code, K) /\ Promise(Top) \subseteq K
         /\ ~b.filled => <<Point(b), NowOf(Top)>> \in K
         /\ Follows(b.code, K, Owed(b, todo, switches))
<1>1. todo \in Seq(Tasks) /\ todo # <<>>
      BY DEF Base, IInv, StackOK, Frames, Running
<1>2. Top = todo[1] /\ 1 \in 1..Len(todo)
      BY <1>1, TailOf DEF Top
<1>3. Owed(b, todo, switches) \subseteq K
      BY DEF Sim, Follows
<1>4. Kept(Top, b.code, K)
      BY <1>2 DEF Sim, AllKept
<1>5. Promise(Top) \subseteq K
      BY <1>2, <1>3, OwedNow
<1>6. ~b.filled => <<Point(b), NowOf(Top)>> \in K
      BY <1>1, <1>3, OwedNow DEF Top
<1> QED  BY <1>4, <1>5, <1>6 DEF Sim

\* The parts of an if come together at its end.
LEMMA JoinSim ==
  ASSUME Base, Running, Top.op \in {"endIf", "endElse"}, Pop,
         switches' = switches, labels' = labels, next' = next,
         NEW K, Sim(b, todo, switches, labels, next, K),
         b' = SwitchToBlock(JumpToBlock(b, Top.blk[1]), Top.blk[1])
  PROVE  SimNext
<1> DEFINE n == Top.node
           end == Top.blk[1]
           Q == Owed(b', todo', switches)
           H == (K \cup {}) \cup Q
<1>1. Good(b, Instrs) /\ end \in Free(b) /\ end \in Block
      BY TopBlocks DEF Base, Plain, Opens
<1>2. /\ Extends(b.code, b'.code) /\ Point(b') = Start(end) /\ ~b'.filled
      /\ ~b.filled => Hop(b'.code, Point(b), Start(end))
      BY <1>1, JumpOpens, JumpAndOpen
<1>3. On(Q, Start(end), Then(Top)) /\ On(H, Start(end), Then(Top))
      BY <1>2, AfterPop
<1>4. NowOf(Top) = Leave(n) /\ Silent(Leave(n)) /\ Then(Top) = Silently(Leave(n))
      BY BaseTop, ThenOf, AfterStatement DEF NowOf
<1>5. ~b.filled => OK(b'.code, Q, H, Point(b), NowOf(Top))
      BY <1>2, <1>3, <1>4, Bearing
<1>6. \A L, q : <<L, q>> \in Promise(Top) => L = Start(end) /\ q = Then(Top)
      BY DEF Promise
<1>7. \A L, q : <<L, q>> \in Promise(Top) => OK(b'.code, Q, H, L, q)
      BY <1>3, <1>6, Bearing
<1>8. Ends0(Top, <<>>)
      BY DEF Ends0
<1> HIDE DEF n, end
<1> QED  BY <1>2, <1>5, <1>7, <1>8, PopSim

\* The end of an if without an else.
LEMMA EndIfSim ==
  ASSUME Base, NEW K, Sim(b, todo, switches, labels, next, K), EndIf
  PROVE  SimNext
<1>1. /\ Running /\ Top.op = "endIf" /\ Pop /\ switches' = switches /\ labels' = labels /\ next' = next
      /\ b' = SwitchToBlock(JumpToBlock(b, Top.blk[1]), Top.blk[1])
      BY DEF EndIf, At, Frame, Context
<1> QED  BY <1>1, JoinSim

\* The end of an if with an else.
LEMMA EndElseSim ==
  ASSUME Base, NEW K, Sim(b, todo, switches, labels, next, K), EndElse
  PROVE  SimNext
<1>1. /\ Running /\ Top.op = "endElse" /\ Pop /\ switches' = switches /\ labels' = labels /\ next' = next
      BY DEF EndElse, At, Frame, Context
<1>2. CASE ~b.filled \/ ~Top.flag
  <2>1. b' = SwitchToBlock(JumpToBlock(b, Top.blk[1]), Top.blk[1])
        BY <1>2 DEF EndElse, JumpToBlock
  <2> QED  BY <1>1, <2>1, JoinSim
<1>3. CASE b.filled /\ Top.flag
  <2>1. b' = b
        BY <1>3 DEF EndElse
  <2>2. Promise(Top) = {} /\ Ends0(Top, <<>>)
        BY <1>1, <1>3 DEF Promise, Ends0
  <2>3. Extends(b.code, b'.code)
        BY <2>1, Extending
  <2> DEFINE Q == Owed(b', todo', switches)
             H == (K \cup {}) \cup Q
  <2>4. \A L, q : <<L, q>> \in Promise(Top) \cup {} => OK(b'.code, Q, H, L, q)
        BY <2>2
  <2> QED  BY <1>1, <1>3, <2>2, <2>3, <2>4, PopSim
<1> QED  BY <1>2, <1>3

\* The end of the body of a while or for leads back to its header.
LEMMA EndWhileSim ==
  ASSUME Base, NEW K, Sim(b, todo, switches, labels, next, K), EndWhile
  PROVE  SimNext
<1> DEFINE n == Top.node
           head == Top.blk[1]
           end == Top.blk[2]
           q == Pos(n, "cond")
           Q == Owed(b', todo', switches)
           H == (K \cup {}) \cup Q
<1>0. /\ Running /\ Top.op = "endWhile" /\ Pop /\ switches' = switches /\ labels' = labels /\ next' = next
      /\ b' = SwitchToBlock(JumpToBlock(b, head), end)
      BY DEF EndWhile, At, Frame, ExitLoop
<1>1. Good(b, Instrs) /\ end \in Free(b)
      BY <1>0, TopBlocks DEF Base, Plain, Opens
<1>2. head \in Block
  <2>1. TaskOK(Top, prog) /\ Width(Top.op) = 2
        BY <1>0, BaseTop DEF Width, Plain
  <2> QED  BY <2>1, BlkFacts
<1>3. /\ Extends(b.code, b'.code) /\ Point(b') = Start(end) /\ ~b'.filled
      /\ ~b.filled => Hop(b'.code, Point(b), Start(head))
      BY <1>0, <1>1, <1>2, JumpOpens, JumpAndOpen
<1>4. On(Q, Start(end), Then(Top))
      BY <1>0, <1>3, AfterPop
<1>5. <<Start(head), q>> \in H /\ Justified(b'.code, H, Start(head), q)
  <2>1. <<Start(head), q>> \in K /\ Justified(b.code, K, Start(head), q)
        BY <1>0, TopKnown DEF Kept
  <2>2. K \subseteq H
        OBVIOUS
  <2> HIDE DEF H, q
  <2> QED  BY <1>3, <2>1, <2>2, StillJustified
<1>6. NowOf(Top) = q
      BY <1>0 DEF NowOf
<1>7. ~b.filled => OK(b'.code, Q, H, Point(b), NowOf(Top))
  <2> HIDE DEF H, q, Q
  <2> QED  BY <1>3, <1>5, <1>6, Justifying DEF OK
<1>8. \A L, p : <<L, p>> \in Promise(Top) => L = Start(end) /\ p = Then(Top)
      BY <1>0 DEF Promise
<1>9. \A L, p : <<L, p>> \in Promise(Top) => OK(b'.code, Q, H, L, p)
      BY <1>4, <1>8, Bearing
<1>10. Ends0(Top, <<>>)
       BY <1>0 DEF Ends0
<1> HIDE DEF n, end, head, q
<1> QED  BY <1>0, <1>3, <1>7, <1>9, <1>10, PopSim

\* The test of a do leads back to its body or to its end.
LEMMA EndDoSim ==
  ASSUME Base, NEW K, Sim(b, todo, switches, labels, next, K), EndDo, err' = "none"
  PROVE  SimNext
<1> DEFINE n == Top.node
           head == Top.blk[1]
           test == Top.blk[2]
           end == Top.blk[3]
           q == Pos(n, "cond")
           br == Br(n, head, end)
           low == SwitchToBlock(JumpToBlock(b, test), test)
           Q == Owed(b', todo', switches)
           H == (K \cup {}) \cup Q
<1>0. /\ Running /\ Top.op = "endDo" /\ Pop /\ switches' = switches /\ labels' = labels /\ next' = next
      /\ ~b.filled /\ b' = SwitchToBlock(Ins(low, br), end)
      BY DEF EndDo, At, Frame, ExitLoop, Fail
<1>1. /\ Good(b, Instrs) /\ end \in Free(b) /\ test \in Free(b) /\ test \in Block /\ end \in Block
      BY <1>0, TopBlocks DEF Base, Plain, Opens
<1>2. TaskOK(Top, prog) /\ OfKind(Top) /\ n \in DOMAIN prog.node /\ n # 0 /\ prog \in Programs
      BY <1>0, BaseTop
<1>3. head \in Block /\ test # end /\ n \in Nat
  <2>1. Width(Top.op) = 3 /\ Opens(Top.op) = {2, 3}
        BY <1>0 DEF Width, Plain, Opens
  <2>2. head \in Block
        BY <1>2, <2>1, BlkFacts
  <2> QED  BY <1>2, <2>1, <2>2, Program DEF TaskOK
<1>4. /\ Good(low, Instrs) /\ ~low.filled /\ end \in Free(low) /\ Point(low) = Start(test)
      /\ Extends(b.code, low.code) /\ Hop(low.code, Point(b), Start(test))
      BY <1>0, <1>1, <1>3, JumpOpens, JumpAndOpen
<1>5. br \in Instrs /\ Terminates(br) /\ br.op = "br" /\ br.node = n /\ br.to[1] = head /\ br.to[2] = end
      BY <1>1, <1>3, InstrFacts DEF Br, Instr
<1> HIDE DEF low, br
<1>6. /\ Extends(low.code, b'.code) /\ Has(b'.code, Start(test), br) /\ Point(b') = Start(end)
      /\ ~b'.filled
      BY <1>0, <1>4, <1>5, InsOpens, InsAndOpen
<1>7. Extends(b.code, b'.code) /\ Hop(b'.code, Point(b), Start(test))
      BY <1>4, <1>6, Extending, Leading
<1>8. On(Q, Start(end), Then(Top)) /\ On(H, Start(end), Leave(n))
      BY <1>0, <1>6, AfterPop
<1>9. /\ <<Start(test), q>> \in H /\ <<Start(head), Enter(Kid(n, 1))>> \in H
      /\ NowOf(Top) = q
  <2>1. Promise(Top) = {<<Start(test), q>>, <<Start(end), Then(Top)>>}
        BY <1>0 DEF Promise
  <2>2. <<Start(test), q>> \in K
        BY <1>0, <2>1, TopKnown
  <2>3. <<Start(head), Enter(Kid(n, 1))>> \in K
        BY <1>0, TopKnown DEF Kept
  <2> QED  BY <1>0, <2>2, <2>3 DEF NowOf
<1>10. /\ Node(n).kind = "do" /\ LastKid(n) = Kid(n, 1) /\ ~Silent(q)
       /\ Observed(q) = [op |-> "br", node |-> n]
       /\ \A v : Evaluated(q, v) = IF v # 0 THEN Enter(Kid(n, 1)) ELSE Leave(n)
  <2>1. Node(n).kind = "do"
        BY <1>0, <1>2 DEF OfKind
  <2>2. Len(Node(n).kids) = 1
        BY <1>2, <2>1, NodeFacts DEF Arity, Leaves, Unary
  <2>3. LastKid(n) = Kid(n, 1)
        BY <2>2 DEF LastKid
  <2> QED  BY <1>2, <2>1, <2>3, AtParts, Following
<1>11. OK(b'.code, Q, H, Point(b), NowOf(Top))
  <2> HIDE DEF q, Q, H
  <2> QED  BY <1>7, <1>9, <1>10, Bearing
<1>12. OK(b'.code, Q, H, Start(test), q)
  <2>1. \A v : On(H, Goal(br, Start(test), v), Evaluated(q, v))
    <3>1. TAKE v
    <3>2. CASE v # 0
      <4>1. Goal(br, Start(test), v) = Start(head)
            BY <1>5, <3>2 DEF Goal
      <4> QED  BY <1>9, <1>10, <3>2, <4>1, Justifying
    <3>3. CASE v = 0
      <4>1. Goal(br, Start(test), v) = Start(end)
            BY <1>5, <3>3 DEF Goal
      <4> QED  BY <1>8, <1>10, <3>3, <4>1
    <3> QED  BY <3>2, <3>3
  <2>2. br.op # "jump" /\ Observed(q) = [op |-> br.op, node |-> br.node]
        BY <1>5, <1>10
  <2> HIDE DEF q, Q, H
  <2> QED  BY <1>6, <1>10, <2>1, <2>2, Bearing
<1>13. \A L, p : <<L, p>> \in Promise(Top) => OK(b'.code, Q, H, L, p)
  <2>1. SUFFICES ASSUME NEW L, NEW p, <<L, p>> \in Promise(Top) PROVE OK(b'.code, Q, H, L, p)
        OBVIOUS
  <2>2. \/ L = Start(test) /\ p = q
        \/ L = Start(end) /\ p = Then(Top)
        BY <1>0, <2>1 DEF Promise
  <2> HIDE DEF q, Q, H
  <2> QED  BY <1>8, <1>12, <2>2, Bearing
<1>14. Ends0(Top, <<>>)
       BY <1>0 DEF Ends0
<1>15. \A L, p : <<L, p>> \in Promise(Top) \cup {} => OK(b'.code, Q, H, L, p)
       BY <1>13
<1> HIDE DEF n, end, head, q, test
<1> QED  BY <1>0, <1>7, <1>11, <1>14, <1>15, PopSim

\* Every label name is bound once.
NoDouble ==
  \A m, n \in DOMAIN prog.node :
    Node(m).kind = "label" /\ Node(n).kind = "label" /\ Node(m).val = Node(n).val => m = n

\* The first block of a do loop's record is the block of its test.
DoStarts(s, lp) ==
  \A h \in LoopsOf(s) :
    Caller(s, h).op = "endDo" =>
      lp[Cardinality(UpTo(LoopsOf(s), h))][1] = Caller(s, h).blk[2]

\* A goto jumps to the block of the label it names.
LEMMA GotoSim ==
  ASSUME Base, NEW K, Sim(b, todo, switches, labels, next, K), OwnLabels, NoDouble,
         Goto, err' = "none"
  PROVE  SimNext
<1> DEFINE n == Top.node
           v == Node(n).val
           blk == labels[v]
           Q == Owed(b', todo', switches)
           H == (K \cup {}) \cup Q
<1>0. /\ Running /\ Top.op = "stmt" /\ Node(n).kind = "goto" /\ ~b.filled
      /\ Pop /\ switches' = switches /\ labels' = labels /\ next' = next
      /\ blk # 0 /\ b' = JumpToBlock(b, blk)
      BY CompilingFacts DEF Base, Goto, Frame, Context, Fail, JumpTargetKinds
<1>1. /\ Good(b, Instrs) /\ prog \in Programs /\ n \in DOMAIN prog.node /\ n # 0 /\ v \in Vals
      /\ InBody(next, n)
  <2>1. InBody(next, n)
        BY <1>0, TopHere DEF Base, ScopeOK
  <2> QED  BY <1>0, <2>1, BaseTop, NodeFacts
<1>2. blk \in Block
      BY <1>0, <1>1 DEF Base, IInv, Maps, Block
<1>3. Extends(b.code, b'.code) /\ Hop(b'.code, Point(b), Start(blk))
      BY <1>0, <1>1, <1>2, JumpPlace
<1>4. PICK m \in DOMAIN prog.node :
        /\ Node(m).kind = "label" /\ Node(m).val = v
        /\ \/ InBody(next, m) /\ <<Start(blk), Enter(m)>> \in K
           \/ \E f \in DOMAIN prog.fns : f < next /\ InBody(f, m)
      BY <1>0, <1>1, Zenon DEF Sim, LabelsKnown
<1>5. InBody(next, m) /\ <<Start(blk), Enter(m)>> \in K
  <2>1. SUFFICES ASSUME NEW f \in DOMAIN prog.fns, f < next, InBody(f, m) PROVE FALSE
        BY <1>4
  <2>2. next \in DOMAIN prog.fns
        BY <1>1, FunctionNodes
  <2>3. f = next
        BY <1>0, <1>1, <1>4, <2>1, <2>2 DEF OwnLabels
  <2>4. next \in Nat
        BY DEF Base, IInv, ResultTypes
  <2> QED  BY <2>1, <2>3, <2>4
<1>6. LabelNode(n) = m
  <2>1. SameFunction(n, m)
        BY <1>1, <1>5, FunctionNodes
  <2>2. \A k \in DOMAIN prog.node :
          Node(k).kind = "label" /\ Node(k).val = Node(n).val /\ SameFunction(n, k) => k = m
        BY <1>4 DEF NoDouble
  <2> QED  BY <1>4, <2>1, <2>2 DEF LabelNode
<1>7. NowOf(Top) = Enter(n) /\ Silent(Enter(n)) /\ Silently(Enter(n)) = Enter(m)
      BY <1>0, <1>1, <1>6, AtStatement, Beginning DEF NowOf
<1>8. On(H, Start(blk), Enter(m))
      BY <1>5, Justifying
<1>9. OK(b'.code, Q, H, Point(b), NowOf(Top))
      BY <1>3, <1>7, <1>8, Bearing
<1>10. Ends0(Top, <<>>) /\ Promise(Top) = {}
       BY <1>0 DEF Ends0, Leaves, Promise
<1> HIDE DEF n
<1> QED  BY <1>0, <1>3, <1>9, <1>10, PopSim

\* The innermost loop of a stack, when the context says a loop is innermost.
LEMMA LoopInside ==
  ASSUME NEW s \in Seq(Tasks), NEW lp, NEW sw, Mirrored(s, lp, sw, TRUE), lp # <<>>,
         NEW S, lp \in Seq(S)
  PROVE  \E g \in LoopsOf(s) :
           /\ \A l \in LoopsOf(s) \cup SwitchesOf(s) : l <= g
           /\ Cardinality(UpTo(LoopsOf(s), g)) = Len(lp)
           /\ lp[Len(lp)][2] = Exit(Caller(s, g))
<1>1. /\ LoopsOf(s) \subseteq 1..Len(s) /\ SwitchesOf(s) \subseteq 1..Len(s) /\ Len(s) \in Nat
      /\ IsFiniteSet(LoopsOf(s))
      BY FinitelyOpen
<1>2. Len(lp) = Cardinality(LoopsOf(s)) /\ Len(lp) # 0
      BY EmptySeq DEF Mirrored
<1>3. LoopsOf(s) # {}
      BY <1>2, FS_EmptySet
<1>4. LoopsOf(s) \subseteq 0..Len(s)
      BY <1>1
<1>5. PICK g \in LoopsOf(s) : \A l \in LoopsOf(s) : l <= g
      BY <1>1, <1>3, <1>4, GreatestNumber
<1>6. UpTo(LoopsOf(s), g) = LoopsOf(s)
      BY <1>5 DEF UpTo
<1>7. \A m \in SwitchesOf(s) : m <= g
  <2>1. SUFFICES ASSUME NEW m \in SwitchesOf(s) PROVE m <= g
        OBVIOUS
  <2>2. Saw(s, Len(s) + 1)
        BY DEF Mirrored
  <2>3. m < Len(s) + 1 /\ m \in Nat /\ g \in Nat
        BY <1>1
  <2>4. PICK l \in LoopsOf(s) : m < l
        BY <2>2, <2>3 DEF Saw
  <2>5. l <= g /\ l \in Nat
        BY <1>1, <1>5
  <2> QED  BY <2>3, <2>4, <2>5
<1>8. lp[Len(lp)][2] = Exit(Caller(s, g))
      BY <1>2, <1>6 DEF Mirrored
<1> QED  BY <1>2, <1>5, <1>6, <1>7, <1>8

\* The innermost switch of a stack, when the context says a switch is innermost.
LEMMA SwitchInside ==
  ASSUME NEW s \in Seq(Tasks), NEW lp, NEW sw, Mirrored(s, lp, sw, FALSE)
  PROVE  \E g \in SwitchesOf(s) :
           /\ \A l \in LoopsOf(s) \cup SwitchesOf(s) : l <= g
           /\ Cardinality(UpTo(SwitchesOf(s), g)) = Len(sw)
<1>1. /\ LoopsOf(s) \subseteq 1..Len(s) /\ SwitchesOf(s) \subseteq 1..Len(s) /\ Len(s) \in Nat
      BY FinitelyOpen
<1>2. PICK m \in SwitchesOf(s) : \A l \in LoopsOf(s) : ~(m < l /\ l < Len(s) + 1)
      BY DEF Mirrored, Saw
<1>3. SwitchesOf(s) \subseteq 0..Len(s) /\ SwitchesOf(s) # {}
      BY <1>1, <1>2
<1>4. PICK g \in SwitchesOf(s) : \A l \in SwitchesOf(s) : l <= g
      BY <1>1, <1>3, GreatestNumber
<1>5. \A l \in LoopsOf(s) : l <= g
  <2>1. SUFFICES ASSUME NEW l \in LoopsOf(s) PROVE l <= g
        OBVIOUS
  <2>2. l < Len(s) + 1 /\ l \in Nat /\ m \in Nat /\ g \in Nat /\ m <= g
        BY <1>1, <1>4
  <2>3. ~(m < l)
        BY <1>2, <2>2
  <2> QED  BY <2>2, <2>3
<1>6. UpTo(SwitchesOf(s), g) = SwitchesOf(s)
      BY <1>4 DEF UpTo
<1>7. Len(sw) = Cardinality(SwitchesOf(s))
      BY DEF Mirrored
<1> QED  BY <1>4, <1>5, <1>6, <1>7

LoopsStart == err = "none" => DoStarts(todo, loops)

\* The record of the loops below a task that is none of them.
LEMMA DoStartsGlue ==
  ASSUME NEW ts \in Seq(Tasks), NEW s \in Seq(Tasks), \A i \in 1..Len(ts) : ts[i].op \notin LoopTasks,
         NEW lp
  PROVE  DoStarts(ts \o s, lp) <=> DoStarts(s, lp)
<1>1. LoopsOf(ts \o s) = LoopsOf(s)
      BY OpenUnder DEF LoopsOf
<1>2. \A h \in LoopsOf(s) : Caller(ts \o s, h) = Caller(s, h)
  <2>1. \A h \in LoopsOf(s) : h \in 1..Len(s)
        BY DEF LoopsOf, OpenAt
  <2> QED  BY <2>1, Heights
<1> QED  BY <1>1, <1>2 DEF DoStarts

\* The loops below the top are still those of the stack.
LEMMA LoopsBelow ==
  ASSUME Base, Running, LoopsStart, Top.op \notin LoopTasks
  PROVE  DoStarts(Tail(todo), loops)
<1> DEFINE u == <<Top>>
<1>1. /\ Top \in Tasks /\ Tail(todo) \in Seq(Tasks) /\ todo = u \o Tail(todo)
      BY BaseTop
<1>2. u \in Seq(Tasks) /\ \A i \in 1..Len(u) : u[i].op \notin LoopTasks
      BY <1>1, Single
<1>3. DoStarts(todo, loops)
      BY DEF LoopsStart, Running
<1> HIDE DEF u
<1>4. DoStarts(u \o Tail(todo), loops)
      BY <1>1, <1>3
<1> QED  BY <1>1, <1>2, <1>4, DoStartsGlue

\* What is around a statement that is compiled, on the stack below it.
LEMMA TopInside ==
  ASSUME Base, Running, ~IsOpen(Top), Breaking(Top), NEW s, s = Tail(todo)
  PROVE  /\ s \in Seq(Tasks) /\ Nest(s) /\ Kindly(s) /\ \A i \in 1..Len(s) : TaskOK(s[i], prog)
         /\ Around(Top.node, Breakable) = OpenNodes(s, Len(s))
         /\ Mirrored(s, loops, switches, sawLoop)
<1>1. /\ s \in Seq(Tasks) /\ todo = <<Top>> \o s /\ Top \in Tasks
      /\ Kindly(todo) /\ Nest(todo)
      BY BaseTop
<1>2. Nest(s) /\ Around(Top.node, Breakable) = OpenNodes(s, Len(s))
  <2>1. Nest(<<Top>> \o s)
        BY <1>1
  <2> QED  BY <1>1, <2>1, NestGlue
<1>3. Kindly(s) /\ \A i \in 1..Len(s) : TaskOK(s[i], prog)
  <2>1. todo \in Seq(Tasks) /\ todo # <<>> /\ \A i \in 1..Len(todo) : TaskOK(todo[i], prog)
        BY DEF Base, IInv, StackOK, Frames, Running
  <2>2. \A i \in 1..Len(s) : s[i] = todo[i + 1] /\ i + 1 \in 1..Len(todo)
        BY <2>1, TailOf
  <2>3. \A i \in 1..Len(s) : OfKind(s[i]) /\ TaskOK(s[i], prog)
        BY <1>1, <2>1, <2>2 DEF Kindly
  <2> QED  BY <2>3 DEF Kindly
<1>4. Mirrored(s, loops, switches, sawLoop)
      BY AtTop DEF Base
<1> QED  BY <1>1, <1>2, <1>3, <1>4

\* The innermost open task of a kind is for the innermost node of that kind.
LEMMA InnermostAt ==
  ASSUME prog \in Programs, NEW s \in Seq(Tasks), Nest(s), Kindly(s),
         \A i \in 1..Len(s) : TaskOK(s[i], prog),
         NEW n \in DOMAIN prog.node, Around(n, Breakable) = OpenNodes(s, Len(s)),
         NEW ops, NEW K, K \subseteq Breakable,
         \A t \in Tasks : OfKind(t) =>
           (t.op \in ops <=> IsOpen(t) /\ Node(t.node).kind \in K),
         NEW g \in OpenAt(s, ops), \A l \in OpenAt(s, ops) : l <= g
  PROVE  Innermost(n, K) = Caller(s, g).node /\ Around(n, K) # {}
<1>1. /\ Around(n, K) = {Caller(s, l).node : l \in OpenAt(s, ops)}
      /\ \A h \in OpenAt(s, ops) : (\A l \in OpenAt(s, ops) : l <= h) =>
           Innermost(n, K) = Caller(s, h).node
      BY InnermostIs
<1> QED  BY <1>1

\* The statement a break or continue belongs to is the innermost one on the stack.
LEMMA Belongs ==
  ASSUME prog \in Programs, NEW s \in Seq(Tasks), Nest(s), Kindly(s),
         \A i \in 1..Len(s) : TaskOK(s[i], prog),
         NEW n \in DOMAIN prog.node, Around(n, Breakable) = OpenNodes(s, Len(s)),
         NEW g \in LoopsOf(s) \cup SwitchesOf(s), \A l \in LoopsOf(s) \cup SwitchesOf(s) : l <= g
  PROVE  /\ Innermost(n, Breakable) = Caller(s, g).node
         /\ g \in LoopsOf(s) => Innermost(n, LoopKinds) = Caller(s, g).node
                                /\ Around(n, LoopKinds) # {}
         /\ g \in SwitchesOf(s) => Innermost(n, {"switch"}) = Caller(s, g).node
                                   /\ Around(n, {"switch"}) # {}
         /\ g \in 1..Len(s) /\ OfKind(Caller(s, g)) /\ TaskOK(Caller(s, g), prog)
         /\ Caller(s, g) \in Tasks /\ Caller(s, g).node \in DOMAIN prog.node
<1> DEFINE all == LoopTasks \cup {"endSwitch"}
<1>1. OpenAt(s, all) = LoopsOf(s) \cup SwitchesOf(s)
      BY DEF OpenAt, LoopsOf, SwitchesOf
<1>2. \A t \in Tasks : OfKind(t) =>
        /\ t.op \in all <=> IsOpen(t) /\ Node(t.node).kind \in Breakable
        /\ t.op \in LoopTasks <=> IsOpen(t) /\ Node(t.node).kind \in LoopKinds
        /\ t.op \in {"endSwitch"} <=> IsOpen(t) /\ Node(t.node).kind \in {"switch"}
      BY DEF OfKind, IsOpen, Breakable, LoopKinds, LoopTasks
<1>3. LoopKinds \subseteq Breakable /\ {"switch"} \subseteq Breakable /\ Breakable \subseteq Breakable
      BY DEF LoopKinds, Breakable
<1> HIDE DEF all
<1>4. Innermost(n, Breakable) = Caller(s, g).node
  <2>1. \A t \in Tasks : OfKind(t) => (t.op \in all <=> IsOpen(t) /\ Node(t.node).kind \in Breakable)
        BY <1>2
  <2>2. g \in OpenAt(s, all) /\ \A l \in OpenAt(s, all) : l <= g
        BY <1>1
  <2> QED  BY <1>3, <2>1, <2>2, InnermostIs
<1>5. ASSUME g \in LoopsOf(s)
      PROVE  Innermost(n, LoopKinds) = Caller(s, g).node /\ Around(n, LoopKinds) # {}
  <2>1. \A t \in Tasks : OfKind(t) => (t.op \in LoopTasks <=> IsOpen(t) /\ Node(t.node).kind \in LoopKinds)
        BY <1>2
  <2>2. g \in OpenAt(s, LoopTasks) /\ \A l \in OpenAt(s, LoopTasks) : l <= g
        BY <1>5 DEF LoopsOf
  <2>3. LoopKinds \subseteq Breakable /\ g \in OpenAt(s, LoopTasks)
        BY <1>3, <2>2
  <2> QED  BY <2>1, <2>2, <2>3, InnermostAt
<1>6. ASSUME g \in SwitchesOf(s)
      PROVE  Innermost(n, {"switch"}) = Caller(s, g).node /\ Around(n, {"switch"}) # {}
  <2> DEFINE sws == {"endSwitch"}
             K == {"switch"}
  <2>1. \A t \in Tasks : OfKind(t) => (t.op \in sws <=> IsOpen(t) /\ Node(t.node).kind \in K)
        BY <1>2
  <2>2. g \in OpenAt(s, sws) /\ \A l \in OpenAt(s, sws) : l <= g
        BY <1>6 DEF SwitchesOf
  <2>3. K \subseteq Breakable
        BY <1>3
  <2> HIDE DEF sws, K
  <2>4. g \in OpenAt(s, sws)
        BY <2>2
  <2>5. Innermost(n, K) = Caller(s, g).node /\ Around(n, K) # {}
        BY <2>1, <2>2, <2>3, <2>4, InnermostAt
  <2> QED  BY <2>5 DEF K
<1>7. /\ g \in 1..Len(s) /\ OfKind(Caller(s, g)) /\ TaskOK(Caller(s, g), prog)
      /\ Caller(s, g).op \in all
  <2>1. g \in 1..Len(s) /\ Caller(s, g).op \in all
        BY <1>1 DEF OpenAt
  <2>2. Len(s) + 1 - g \in 1..Len(s)
        BY <2>1
  <2> QED  BY <2>1, <2>2 DEF Caller, Kindly
<1>8. Caller(s, g) \in Tasks /\ Caller(s, g).node \in DOMAIN prog.node
      BY <1>7 DEF TaskOK, all, LoopTasks
<1> QED  BY <1>4, <1>5, <1>6, <1>7, <1>8

\* What is owed for a task of the stack.
LEMMA OwedAt ==
  ASSUME NEW s \in Seq(Tasks), NEW bl, NEW sw, NEW g \in 1..Len(s)
  PROVE  Promise(Caller(s, g)) \subseteq Owed(bl, s, sw)
<1>1. Len(s) + 1 - g \in 1..Len(s)
      OBVIOUS
<1> QED  BY <1>1, OwedNow DEF Caller

\* A break or continue jumps to where the source goes on.
LEMMA ExitPlace ==
  ASSUME Base, LoopsStart, ~SkippingContinue, Running, Top.op = "stmt",
         NEW kind \in {"break", "continue"}, Node(Top.node).kind = kind,
         "block" \in DOMAIN ExitTarget(kind), todo' = Tail(todo),
         NEW Q, Q = Owed(b', todo', switches)
  PROVE  On(Q, Start(ExitTarget(kind).block), Silently(Enter(Top.node)))
<1> DEFINE n == Top.node
           s == Tail(todo)
           t(g) == Caller(s, g)
<1>1. ~IsOpen(Top) /\ Breaking(Top)
      BY DEF IsOpen, LoopTasks, Breaking
<1>2. /\ s \in Seq(Tasks) /\ Nest(s) /\ Kindly(s) /\ \A i \in 1..Len(s) : TaskOK(s[i], prog)
      /\ Around(n, Breakable) = OpenNodes(s, Len(s)) /\ Mirrored(s, loops, switches, sawLoop)
      BY <1>1, TopInside
<1>3. n \in DOMAIN prog.node /\ n # 0 /\ prog \in Programs
      BY BaseTop
<1>4. Silently(Enter(n)) = Begun(n)
      BY <1>3, AtStatement
<1>5. sawLoop \in BOOLEAN /\ loops \in Seq(Block \X Block)
      BY DEF Base, IInv, ContextTypes
<1>6. CASE sawLoop
  <2>1. loops # <<>> /\ ExitTarget(kind).block = loops[Len(loops)][IF kind = "break" THEN 2 ELSE 1]
        BY <1>6 DEF ExitTarget
  <2>2. Mirrored(s, loops, switches, TRUE)
        BY <1>2, <1>5, <1>6
  <2>3. PICK g \in LoopsOf(s) :
          /\ \A l \in LoopsOf(s) \cup SwitchesOf(s) : l <= g
          /\ Cardinality(UpTo(LoopsOf(s), g)) = Len(loops)
          /\ loops[Len(loops)][2] = Exit(Caller(s, g))
        BY <1>2, <1>5, <2>1, <2>2, LoopInside
  <2> HIDE DEF s, n
  <2>4. /\ Innermost(n, Breakable) = t(g).node /\ Innermost(n, LoopKinds) = t(g).node
        /\ Around(n, LoopKinds) # {}
        /\ g \in 1..Len(s) /\ OfKind(t(g)) /\ TaskOK(t(g), prog) /\ t(g).node \in DOMAIN prog.node
        BY <1>2, <1>3, <2>3, Belongs
  <2>5. t(g).op \in LoopTasks /\ Promise(t(g)) \subseteq Q
        BY <1>2, <2>3, <2>4, OwedAt DEF s, LoopsOf, OpenAt
  <2>6. CASE kind = "break"
    <3>1. Begun(n) = Leave(t(g).node)
          BY <2>4, <2>6, Beginning DEF n
    <3>2. ExitTarget(kind).block = Exit(t(g))
          BY <2>1, <2>3, <2>6
    <3>3. <<Start(Exit(t(g))), Then(t(g))>> \in Promise(t(g))
      <4>1. CASE t(g).op = "endWhile"
        <5>1. Len(t(g).blk) = 2
              BY <2>4, <4>1 DEF TaskOK, Width, Plain
        <5> QED  BY <4>1, <5>1 DEF Exit, Promise
      <4>2. CASE t(g).op = "endDo"
        <5>1. Len(t(g).blk) = 3
              BY <2>4, <4>2 DEF TaskOK, Width, Plain
        <5> QED  BY <4>2, <5>1 DEF Exit, Promise
      <4> QED  BY <2>5, <4>1, <4>2 DEF LoopTasks
    <3>4. Then(t(g)) = Silently(Leave(t(g).node)) /\ Silent(Leave(t(g).node))
      <4>1. t(g).op # "post"
            BY <2>5 DEF LoopTasks
      <4> QED  BY <1>3, <4>1, ThenOf, AfterStatement
    <3>5. On(Q, Start(Exit(t(g))), Leave(t(g).node))
          BY <2>5, <3>3, <3>4, Justifying
    <3> QED  BY <1>4, <3>1, <3>2, <3>5 DEF n
  <2>7. CASE kind = "continue"
    <3>1. Begun(n) = NextInLoop(t(g).node)
          BY <2>4, <2>7, Beginning DEF n
    <3>2. Node(t(g).node).kind = "do"
      <4>1. Node(Innermost(n, LoopKinds)).kind = "do"
            BY <1>3, <2>4, <2>7 DEF SkippingContinue, n
      <4> QED  BY <2>4, <4>1
    <3>3. t(g).op = "endDo"
          BY <2>4, <2>5, <3>2 DEF OfKind, LoopTasks
    <3>4. loops[Len(loops)][1] = t(g).blk[2]
      <4>1. DoStarts(s, loops)
            BY <1>1, LoopsBelow DEF s, IsOpen
      <4> QED  BY <2>3, <3>3, <4>1 DEF DoStarts
    <3>5. <<Start(t(g).blk[2]), Pos(t(g).node, "cond")>> \in Promise(t(g))
          BY <3>3 DEF Promise
    <3>6. NextInLoop(t(g).node) = Pos(t(g).node, "cond")
          BY <3>2 DEF NextInLoop
    <3>7. ExitTarget(kind).block = t(g).blk[2]
          BY <2>1, <2>7, <3>4
    <3>8. On(Q, Start(t(g).blk[2]), Pos(t(g).node, "cond"))
          BY <2>5, <3>5, Justifying
    <3> QED  BY <1>4, <3>1, <3>6, <3>7, <3>8 DEF n
  <2> QED  BY <2>6, <2>7
<1>7. CASE ~sawLoop
  <2>1. kind = "break" /\ switches # <<>> /\ ExitTarget(kind).block = LastSwitch.end
        BY <1>7 DEF ExitTarget
  <2>2. Mirrored(s, loops, switches, FALSE)
        BY <1>2, <1>5, <1>7
  <2>3. PICK g \in SwitchesOf(s) :
          /\ \A l \in LoopsOf(s) \cup SwitchesOf(s) : l <= g
          /\ Cardinality(UpTo(SwitchesOf(s), g)) = Len(switches)
        BY <1>2, <2>2, SwitchInside
  <2> HIDE DEF s, n
  <2>4. Innermost(n, Breakable) = t(g).node
        BY <1>2, <1>3, <2>3, Belongs
  <2>5. Begun(n) = Leave(t(g).node)
        BY <2>1, <2>4, Beginning DEF n
  <2>6. <<Start(SwitchAt(s, switches, g).end), Then(t(g))>> \in Q
    <3>1. <<Start(SwitchAt(s, switches, g).end), Then(t(g))>> \in EndsOwed(s, switches)
          BY <2>3 DEF EndsOwed
    <3> QED  BY <3>1, OwedNow DEF s
  <2>7. SwitchAt(s, switches, g) = LastSwitch
        BY <2>3 DEF SwitchAt, LastSwitch
  <2>8. Then(t(g)) = Silently(Leave(t(g).node)) /\ Silent(Leave(t(g).node))
    <3>1. t(g).op = "endSwitch"
          BY <2>3 DEF SwitchesOf, OpenAt
    <3> QED  BY <1>3, <3>1, ThenOf, AfterStatement
  <2>9. On(Q, Start(LastSwitch.end), Leave(t(g).node))
        BY <2>6, <2>7, <2>8, Justifying
  <2> QED  BY <1>4, <2>1, <2>5, <2>9 DEF n
<1> QED  BY <1>5, <1>6, <1>7

\* A break or continue: the jump goes where the source goes on.
LEMMA LoopExitSim ==
  ASSUME Base, NEW K, Sim(b, todo, switches, labels, next, K), LoopsStart, ~SkippingContinue,
         LoopExit, err' = "none"
  PROVE  SimNext
<1> DEFINE n == Top.node
           Q == Owed(b', todo', switches)
           H == (K \cup {}) \cup Q
<1>1. PICK kind \in {"break", "continue"} :
        /\ Compiling(kind)
        /\ LET target == ExitTarget(kind)
           IN  \/ "error" \in DOMAIN target /\ Fail(target.error) /\ b' = b
               \/ /\ "block" \in DOMAIN target /\ b' = JumpToBlock(b, target.block)
                  /\ Pop /\ UNCHANGED <<labels, Context>> /\ Frame
      BY DEF LoopExit
<1>2. ~("error" \in DOMAIN ExitTarget(kind) /\ Fail(ExitTarget(kind).error) /\ b' = b)
      BY DEF ExitTarget, Fail
<1> DEFINE blk == ExitTarget(kind).block
<1>3. /\ Running /\ Top.op = "stmt" /\ Node(n).kind = kind /\ ~b.filled
      /\ "block" \in DOMAIN ExitTarget(kind) /\ b' = JumpToBlock(b, blk)
      /\ Pop /\ switches' = switches /\ labels' = labels /\ next' = next
      BY <1>1, <1>2, CompilingFacts DEF Base, Frame, Context, JumpTargetKinds
<1>4. blk \in Block
  <2>1. loops \in Seq(Block \X Block) /\ switches \in Seq(SwitchSet)
        BY DEF Base, IInv, ContextTypes
  <2>2. \/ loops # <<>> /\ blk \in {loops[Len(loops)][1], loops[Len(loops)][2]}
        \/ switches # <<>> /\ blk = LastSwitch.end
        BY <1>3 DEF ExitTarget
  <2> HIDE DEF blk
  <2>3. CASE loops # <<>> /\ blk \in {loops[Len(loops)][1], loops[Len(loops)][2]}
    <3>1. loops[Len(loops)] \in Block \X Block
          BY <2>1, <2>3
    <3> QED  BY <2>3, <3>1
  <2>4. CASE switches # <<>> /\ blk = LastSwitch.end
        BY <2>4, LastSwitchFacts DEF Base
  <2> QED  BY <2>2, <2>3, <2>4
<1>5. Good(b, Instrs) /\ n # 0
      BY <1>3, BaseTop
<1>6. On(Q, Start(blk), Silently(Enter(n)))
  <2>1. todo' = Tail(todo)
        BY <1>3 DEF Pop
  <2> QED  BY <1>3, <2>1, ExitPlace
<1>7. NowOf(Top) = Enter(n) /\ Silent(Enter(n))
      BY <1>3, <1>5, AtStatement DEF NowOf
<1> HIDE DEF blk
<1>8. Extends(b.code, b'.code) /\ Hop(b'.code, Point(b), Start(blk))
      BY <1>3, <1>4, <1>5, JumpPlace
<1>9. Ends0(Top, <<>>) /\ Promise(Top) = {}
      BY <1>3 DEF Ends0, Leaves, Promise
<1> HIDE DEF n
<1>10. On(H, Start(blk), Silently(Enter(n)))
  <2>1. Q \subseteq H
        OBVIOUS
  <2> QED  BY <1>6, <2>1, Justifying
<1>11. OK(b'.code, Q, H, Point(b), NowOf(Top))
      BY <1>7, <1>8, <1>10, Bearing
<1> QED  BY <1>3, <1>8, <1>9, <1>11, PopSim

\* A step that leaves switches and labels alone, whatever it pushes.
LEMMA PushSim ==
  ASSUME Base, Running, Top.op \notin {"endSwitch", "endFunction"}, NEW ts, Shape(Top, ts),
         todo' = ts \o Tail(todo), \A i \in 1..Len(ts) : ts[i].op # "endSwitch",
         Top.op = "stmt" => Node(Top.node).kind \notin {"case", "default"},
         switches' = switches, labels' = labels, next' = next,
         NEW K, Sim(b, todo, switches, labels, next, K), Extends(b.code, b'.code),
         NEW N, NEW Q, NEW H, Q = Owed(b', todo', switches), H = (K \cup N) \cup Q,
         ~b.filled => OK(b'.code, Q, H, Point(b), NowOf(Top)),
         \A L, q : <<L, q>> \in Promise(Top) \cup N => OK(b'.code, Q, H, L, q),
         \A i \in 1..Len(ts) : Kept(ts[i], b'.code, H)
  PROVE  SimNext
<1>1. K \subseteq H
      OBVIOUS
<1>2. LabelsKnown(labels', next, H)
  <2>1. LabelsKnown(labels, next, K)
        BY DEF Sim
  <2>2. LabelsKnown(labels, next, H)
        BY <1>1, <2>1, Extending, StillKept
  <2> QED  BY <2>2
<1>3. Sim(b', todo', switches', labels', next', H)
      BY <1>2, PlainSim
<1> QED  BY <1>3 DEF SimNext

\* What is owed after the tasks of a statement are pushed.
LEMMA PushOwed ==
  ASSUME NEW ts \in Seq(Tasks), NEW s \in Seq(Tasks), NEW bl, NEW sw
  PROVE  /\ ~bl.filled /\ ts # <<>> => <<Point(bl), NowOf(ts[1])>> \in Owed(bl, ts \o s, sw)
         /\ \A i \in 1..Len(ts) : Promise(ts[i]) \subseteq Owed(bl, ts \o s, sw)
<1>1. /\ ts \o s \in Seq(Tasks) /\ \A i \in 1..Len(ts) : (ts \o s)[i] = ts[i] /\ i \in 1..Len(ts \o s)
  <2>1. /\ ts \o s \in Seq(Tasks) /\ Len(ts) \in Nat /\ Len(s) \in Nat
        /\ Len(ts \o s) = Len(ts) + Len(s) /\ \A i \in 1..Len(ts) : (ts \o s)[i] = ts[i]
        BY OnTopOf
  <2>2. \A i \in 1..Len(ts) : i \in 1..Len(ts \o s)
        BY <2>1
  <2> QED  BY <2>1, <2>2
<1>2. \A i \in 1..Len(ts) : Promise(ts[i]) \subseteq Owed(bl, ts \o s, sw)
  <2>1. SUFFICES ASSUME NEW i \in 1..Len(ts) PROVE Promise(ts[i]) \subseteq Owed(bl, ts \o s, sw)
        OBVIOUS
  <2>2. i \in 1..Len(ts \o s) /\ (ts \o s)[i] = ts[i]
        BY <1>1
  <2>3. Promise((ts \o s)[i]) \subseteq Owed(bl, ts \o s, sw)
        BY <2>2, OwedNow
  <2> QED  BY <2>2, <2>3
<1>3. ASSUME ~bl.filled, ts # <<>>
      PROVE  <<Point(bl), NowOf(ts[1])>> \in Owed(bl, ts \o s, sw)
  <2>1. 1 \in 1..Len(ts)
    <3>1. Len(ts) \in Nat /\ Len(ts) # 0
          BY <1>3, EmptySeq, LenProperties
    <3> QED  BY <3>1
  <2>2. (ts \o s)[1] = ts[1] /\ 1 \in 1..Len(ts \o s) /\ ts \o s \in Seq(Tasks)
        BY <1>1, <2>1
  <2>3. ts \o s # <<>>
        BY <2>2, EmptySeq
  <2>4. Head(ts \o s) = ts[1]
        BY <2>2, <2>3, TailOf
  <2>5. <<Point(bl), NowOf(Head(ts \o s))>> \in Owed(bl, ts \o s, sw)
        BY <1>3, <2>3, OwedNow
  <2> QED  BY <2>4, <2>5
<1> QED  BY <1>2, <1>3

\* A statement is split into its first part and what follows that part.
LEMMA Splitting ==
  ASSUME NEW t \in Tasks, NEW i \in 1..2, NEW e \in Tasks, e.node = t.node, Part(t, i, e.op),
         Stmt(Kid(t.node, i)) \in Tasks, NEW ts, ts = <<Stmt(Kid(t.node, i)), e>>
  PROVE  /\ Shape(t, ts) /\ ts \in Seq(Tasks) /\ ts # <<>>
         /\ ts[1] = Stmt(Kid(t.node, i)) /\ ts[2] = e /\ Len(ts) = 2
         /\ 2 \in 1..Len(ts) /\ \A j \in 1..Len(ts) : ts[j] = Stmt(Kid(t.node, i)) \/ ts[j] = e
         /\ t.op \in {"stmt", "else", "for"}
         /\ t.op = "stmt" => Node(t.node).kind \notin {"case", "default"}
         /\ Promise(t) # {} => t.op = "else"
<1>1. Splits(t, ts)
      BY DEF Splits
<1>2. Shape(t, ts)
      BY <1>1 DEF Shape
<1>3. /\ t.op \in {"stmt", "else", "for"}
      /\ t.op = "stmt" => Node(t.node).kind \notin {"case", "default"}
      BY DEF Part
<1>4. Promise(t) # {} => t.op = "else"
      BY <1>3 DEF Promise
<1>5. ts \in Seq(Tasks) /\ Len(ts) = 2 /\ ts[1] = Stmt(Kid(t.node, i)) /\ ts[2] = e
      BY TwoOf
<1>6. 2 \in 1..Len(ts) /\ ts # <<>> /\ \A j \in 1..Len(ts) : j = 1 \/ j = 2
      BY <1>5
<1> QED  BY <1>2, <1>3, <1>4, <1>5, <1>6

\* A step that compiles the first part of a statement.
LEMMA SplitSim ==
  ASSUME Base, Running, NEW i \in 1..2, NEW e \in Tasks, e.node = Top.node, Part(Top, i, e.op),
         Stmt(Kid(Top.node, i)) \in Tasks, e.op \notin {"endSwitch", "stmt"},
         todo' = <<Stmt(Kid(Top.node, i)), e>> \o Tail(todo),
         switches' = switches, labels' = labels, next' = next,
         NEW K, Sim(b, todo, switches, labels, next, K), Extends(b.code, b'.code),
         NEW N, NEW Q, NEW H, Q = Owed(b', todo', switches), H = (K \cup N) \cup Q,
         ~b.filled => OK(b'.code, Q, H, Point(b), NowOf(Top)),
         \A L, q : <<L, q>> \in Promise(Top) \cup N => OK(b'.code, Q, H, L, q),
         Kept(e, b'.code, H)
  PROVE  SimNext
<1> DEFINE ts == <<Stmt(Kid(Top.node, i)), e>>
           s == Tail(todo)
<1>1. Top \in Tasks /\ todo' = ts \o s
      BY BaseTop
<1>2. /\ Shape(Top, ts) /\ ts \in Seq(Tasks)
      /\ \A j \in 1..Len(ts) : ts[j] = Stmt(Kid(Top.node, i)) \/ ts[j] = e
      /\ Top.op \in {"stmt", "else", "for"}
      /\ Top.op = "stmt" => Node(Top.node).kind \notin {"case", "default"}
      BY <1>1, Splitting
<1>3. Stmt(Kid(Top.node, i)).op = "stmt"
      BY DEF Stmt, Task
<1>4. \A j \in 1..Len(ts) : ts[j].op # "endSwitch" /\ Kept(ts[j], b'.code, H)
      BY <1>2, <1>3 DEF Kept
<1> HIDE DEF ts
<1>5. Top.op \notin {"endSwitch", "endFunction"} /\ todo' = ts \o Tail(todo)
      BY <1>1, <1>2
<1> QED  BY <1>2, <1>4, <1>5, PushSim

\* What is owed after it.
LEMMA SplitOwed ==
  ASSUME Base, Running, NEW i \in 1..2, NEW e \in Tasks, e.node = Top.node, Part(Top, i, e.op),
         Stmt(Kid(Top.node, i)) \in Tasks,
         todo' = <<Stmt(Kid(Top.node, i)), e>> \o Tail(todo), ~b'.filled,
         NEW sw, NEW Q, Q = Owed(b', todo', sw)
  PROVE  /\ <<Point(b'), Enter(Kid(Top.node, i))>> \in Q
         /\ Promise(e) \subseteq Q
<1> DEFINE ts == <<Stmt(Kid(Top.node, i)), e>>
           s == Tail(todo)
<1>1. Top \in Tasks /\ s \in Seq(Tasks) /\ todo' = ts \o s
      BY BaseTop
<1>2. /\ ts \in Seq(Tasks) /\ ts # <<>> /\ ts[1] = Stmt(Kid(Top.node, i)) /\ ts[2] = e
      /\ 2 \in 1..Len(ts)
      BY <1>1, Splitting
<1>3. NowOf(Stmt(Kid(Top.node, i))) = Enter(Kid(Top.node, i))
      BY ThenOf
<1> HIDE DEF ts, s
<1>4. Q = Owed(b', ts \o s, sw)
      BY <1>1
<1>5. <<Point(b'), NowOf(ts[1])>> \in Q
      BY <1>1, <1>2, <1>4, PushOwed
<1>6. Promise(ts[2]) \subseteq Q
      BY <1>1, <1>2, <1>4, PushOwed
<1> QED  BY <1>2, <1>3, <1>5, <1>6

\* Blocks are created, the current one is ended and one of the others opened.
LEMMA BranchPlace ==
  ASSUME NEW bl, Good(bl, Instrs), ~bl.filled, NEW cnt \in Nat, NEW ins \in Instrs, Terminates(ins),
         NEW k \in Free(CreateBlocks(bl, cnt)),
         NEW bm, bm = SwitchToBlock(Ins(CreateBlocks(bl, cnt), ins), k)
  PROVE  /\ Extends(bl.code, bm.code) /\ Has(bm.code, Point(bl), ins)
         /\ Point(bm) = Start(k) /\ ~bm.filled /\ Good(bm, Instrs)
<1> DEFINE bc == CreateBlocks(bl, cnt)
<1>1. /\ Extends(bl.code, bc.code) /\ Point(bc) = Point(bl)
      BY CreatePlace
<1>2. Good(bc, Instrs) /\ ~bc.filled
      BY FreeCreate
<1> HIDE DEF bc
<1>3. /\ Extends(bc.code, SwitchToBlock(Ins(bc, ins), k).code)
      /\ Has(SwitchToBlock(Ins(bc, ins), k).code, Point(bc), ins)
      /\ Point(SwitchToBlock(Ins(bc, ins), k)) = Start(k)
      BY <1>2, InsOpens DEF bc
<1>4. Good(SwitchToBlock(Ins(bc, ins), k), Instrs) /\ ~SwitchToBlock(Ins(bc, ins), k).filled
      BY <1>2, InsAndOpen DEF bc
<1>5. bm = SwitchToBlock(Ins(bc, ins), k)
      BY DEF bc
<1>6. Extends(bl.code, bm.code)
      BY <1>1, <1>3, <1>5, Extending
<1> QED  BY <1>1, <1>3, <1>4, <1>5, <1>6

\* A block statement: its first statement is next, or what follows it.
LEMMA CompoundSim ==
  ASSUME Base, NEW K, Sim(b, todo, switches, labels, next, K), Compound
  PROVE  SimNext
<1> DEFINE n == Top.node
           ts == [i \in DOMAIN Node(Top.node).kids |-> Stmt(Kid(Top.node, i))]
           Q == Owed(b', todo', switches)
           H == (K \cup {}) \cup Q
<1>1. /\ Running /\ Top.op = "stmt" /\ Node(n).kind = "compound" /\ ~b.filled /\ b' = b
      /\ todo' = ts \o Tail(todo) /\ switches' = switches /\ labels' = labels /\ next' = next
      BY CompilingFacts DEF Base, Compound, Push, Frame, Context, JumpTargetKinds
<1>2. /\ prog \in Programs /\ Top \in Tasks /\ TaskOK(Top, prog) /\ OfKind(Top)
      /\ Tail(todo) \in Seq(Tasks) /\ n \in DOMAIN prog.node /\ n # 0
      BY <1>1, BaseTop
<1>3. Shape(Top, ts)
      BY <1>1 DEF Shape, Lists
<1>4. ts \in Seq(Tasks)
      BY <1>2, <1>3, FlowShape
<1>5. /\ NowOf(Top) = Enter(n) /\ Silent(Enter(n))
      /\ Silently(Enter(n)) = IF Node(n).kids = <<>> THEN Leave(n) ELSE Enter(Kid(n, 1))
      BY <1>1, <1>2, AtStatement, Beginning DEF NowOf
<1>6. Node(n).kids \in Seq(DOMAIN prog.node)
      BY <1>2, NodeFacts
<1>7. On(Q, Point(b), Silently(Enter(n)))
  <2>1. CASE Node(n).kids = <<>>
    <3>1. ts = <<>>
          BY <2>1
    <3>2. todo' = Tail(todo)
      <4>1. <<>> \o Tail(todo) = Tail(todo)
            BY <1>2
      <4> QED  BY <1>1, <3>1, <4>1
    <3>3. Pop /\ ~b'.filled /\ Owed(b', todo', switches) \subseteq Q
          BY <1>1, <3>2 DEF Pop
    <3> HIDE DEF Q
    <3>4. On(Q, Point(b'), Leave(Top.node))
          BY <1>1, <3>3, AfterPop
    <3> QED  BY <1>1, <1>5, <2>1, <3>4
  <2>2. CASE Node(n).kids # <<>>
    <3>1. 1 \in DOMAIN Node(n).kids
      <4>1. Len(Node(n).kids) \in Nat /\ Len(Node(n).kids) # 0
            BY <1>6, <2>2, EmptySeq, LenProperties
      <4>2. DOMAIN Node(n).kids = 1..Len(Node(n).kids)
            BY <1>6
      <4> QED  BY <4>1, <4>2
    <3>2. ts[1] = Stmt(Kid(n, 1)) /\ ts # <<>>
          BY <1>4, <3>1
    <3>3. NowOf(Stmt(Kid(n, 1))) = Enter(Kid(n, 1))
          BY ThenOf
    <3> HIDE DEF ts
    <3>4. <<Point(b'), NowOf(ts[1])>> \in Owed(b', ts \o Tail(todo), switches)
          BY <1>1, <1>2, <1>4, <3>2, PushOwed
    <3>5. <<Point(b), Enter(Kid(n, 1))>> \in Q
          BY <1>1, <3>2, <3>3, <3>4
    <3> HIDE DEF Q
    <3> QED  BY <1>5, <2>2, <3>5, Justifying
  <2> QED  BY <2>1, <2>2
<1>8. \A i \in 1..Len(ts) : ts[i].op = "stmt"
  <2>1. SUFFICES ASSUME NEW i \in 1..Len(ts) PROVE ts[i].op = "stmt"
        OBVIOUS
  <2>2. i \in DOMAIN ts
        BY <1>4, LenProperties
  <2> QED  BY <2>2 DEF Stmt, Task
<1> HIDE DEF ts, n, Q
<1>9. OK(b'.code, Q, H, Point(b), NowOf(Top))
      BY <1>5, <1>7, Bearing
<1> HIDE DEF H
<1>10. Promise(Top) = {} /\ Extends(b.code, b'.code)
      BY <1>1, Extending DEF Promise
<1>11. \A i \in 1..Len(ts) : ts[i].op # "endSwitch" /\ Kept(ts[i], b'.code, H)
      BY <1>8 DEF Kept
<1>12. Q = Owed(b', todo', switches) /\ H = (K \cup {}) \cup Q
      BY DEF Q, H
<1>13. Node(Top.node).kind \notin {"case", "default"} /\ Top.op \notin {"endSwitch", "endFunction"}
      BY <1>1 DEF n
<1> QED  BY <1>1, <1>3, <1>9, <1>10, <1>11, <1>12, <1>13, PushSim

\* The first clause of a for is next.
LEMMA ForSim ==
  ASSUME Base, NEW K, Sim(b, todo, switches, labels, next, K), For
  PROVE  SimNext
<1> DEFINE n == Top.node
           e == Task("for", n, <<>>, FALSE)
           Q == Owed(b', todo', switches)
           H == (K \cup {}) \cup Q
<1>1. /\ Running /\ Top.op = "stmt" /\ Node(n).kind = "for" /\ ~b.filled /\ b' = b
      /\ todo' = <<Stmt(Kid(n, 1)), e>> \o Tail(todo)
      /\ switches' = switches /\ labels' = labels /\ next' = next
      BY CompilingFacts DEF Base, For, Push, Frame, Context, JumpTargetKinds
<1>2. prog \in Programs /\ n \in DOMAIN prog.node /\ n # 0 /\ n \in Nat
      BY <1>1, BaseTop, NodeFacts
<1>3. e \in Tasks /\ e.op = "for" /\ e.node = n
  <2>1. <<>> \in Seq(Block) /\ "for" \in TaskOps /\ FALSE \in BOOLEAN
        BY DEF TaskOps
  <2>2. e = [op |-> "for", node |-> n, blk |-> <<>>, flag |-> FALSE]
        BY DEF Task
  <2> HIDE DEF e
  <2> QED  BY <1>2, <2>1, <2>2 DEF Tasks
<1>4. Kid(n, 1) \in DOMAIN prog.node
      BY <1>1, <1>2, KidFacts
<1>5. Stmt(Kid(n, 1)) \in Tasks
      BY <1>2, <1>4, StmtFacts
<1>6. Part(Top, 1, e.op) /\ Promise(Top) = {}
      BY <1>1, <1>3 DEF Part, Promise
<1>7. /\ NowOf(Top) = Enter(n) /\ Silent(Enter(n)) /\ Silently(Enter(n)) = Enter(Kid(n, 1))
      BY <1>1, <1>2, AtStatement, Beginning DEF NowOf
<1> HIDE DEF e, n, Q
<1>8. /\ e.node = Top.node /\ todo' = <<Stmt(Kid(Top.node, 1)), e>> \o Tail(todo)
      /\ Stmt(Kid(Top.node, 1)) \in Tasks /\ Q = Owed(b', todo', switches) /\ 1 \in 1..2
      BY <1>1, <1>3, <1>5 DEF n, Q
<1>9. <<Point(b'), Enter(Kid(n, 1))>> \in Q
      BY <1>1, <1>3, <1>6, <1>8, SplitOwed DEF n
<1>10. On(Q, Point(b), Silently(Enter(n)))
      BY <1>1, <1>7, <1>9, Justifying
<1>11. OK(b'.code, Q, H, Point(b), NowOf(Top))
      BY <1>7, <1>10, Bearing
<1>12. Extends(b.code, b'.code) /\ Kept(e, b'.code, H) /\ e.op \notin {"endSwitch", "stmt"}
      BY <1>1, <1>3, Extending DEF Kept
<1> QED  BY <1>1, <1>3, <1>6, <1>8, <1>11, <1>12, SplitSim

\* The goals of a conditional jump.
LEMMA BranchGoals ==
  ASSUME NEW n, NEW x, NEW y, NEW L
  PROVE  /\ Br(n, x, y).op = "br" /\ Br(n, x, y).node = n
         /\ \A v : Goal(Br(n, x, y), L, v) = Start(IF v # 0 THEN x ELSE y)
         /\ Jump(x).op = "jump" /\ Jump(x).to[1] = x
<1>1. /\ Br(n, x, y).op = "br" /\ Br(n, x, y).node = n /\ Br(n, x, y).to = <<x, y>>
      /\ Jump(x).op = "jump" /\ Jump(x).to = <<x>>
      BY DEF Br, Jump, Instr
<1>2. \A v : Goal(Br(n, x, y), L, v) = Start(Br(n, x, y).to[IF v # 0 THEN 1 ELSE 2])
      BY <1>1 DEF Goal
<1>3. <<x, y>>[1] = x /\ <<x, y>>[2] = y /\ <<x>>[1] = x
      OBVIOUS
<1>4. \A v : <<x, y>>[IF v # 0 THEN 1 ELSE 2] = IF v # 0 THEN x ELSE y
      BY <1>3
<1> QED  BY <1>1, <1>2, <1>3, <1>4

\* A branch that evaluates a condition is right when both of its goals are.
LEMMA BranchBears ==
  ASSUME NEW code, NEW Q, NEW H, NEW L, NEW q, NEW n, NEW x, NEW y, Has(code, L, Br(n, x, y)),
         Observed(q) = [op |-> "br", node |-> n],
         \A v : On(H, Start(IF v # 0 THEN x ELSE y), Evaluated(q, v))
  PROVE  OK(code, Q, H, L, q)
<1> DEFINE ins == Br(n, x, y)
<1>1. /\ ins.op = "br" /\ ins.node = n
      /\ \A v : Goal(ins, L, v) = Start(IF v # 0 THEN x ELSE y)
      BY BranchGoals
<1> HIDE DEF ins
<1>2. ~Silent(q)
      BY DEF Silent
<1>3. Has(code, L, ins)
      BY DEF ins
<1>4. ins.op # "jump" /\ ins.op # "ret" /\ Observed(q) = [op |-> ins.op, node |-> ins.node]
      BY <1>1
<1>5. \A v \in Values(q) : On(H, Goal(ins, L, v), Evaluated(q, v))
      BY <1>1
<1> QED  BY <1>2, <1>3, <1>4, <1>5, Bearing

\* A conditional statement: the branch goes to its parts.
LEMMA IfSim ==
  ASSUME Base, NEW K, Sim(b, todo, switches, labels, next, K), If
  PROVE  SimNext
<1> DEFINE n == Top.node
           m == Len(Node(n).kids)
           body == Fresh(b, 1)
           end == Fresh(b, 2)
           els == Fresh(b, 3)
           no == IF m = 1 THEN end ELSE els
           e == IF m = 1 THEN Task("endIf", n, <<end>>, FALSE) ELSE Task("else", n, <<els, end>>, FALSE)
           Q == Owed(b', todo', switches)
           H == (K \cup {}) \cup Q
<1>1. /\ Running /\ Top.op = "stmt" /\ Node(n).kind = "if" /\ ~b.filled
      /\ switches' = switches /\ labels' = labels /\ next' = next
      /\ m \in {1, 2}
      /\ b' = SwitchToBlock(Ins(CreateBlocks(b, m + 1), Br(n, body, no)), body)
      /\ todo' = <<Stmt(Kid(n, 1)), e>> \o Tail(todo)
  <2>1. /\ Compiling("if") /\ switches' = switches /\ labels' = labels /\ next' = next
        BY DEF If, Frame, Context
  <2>2. \/ /\ m = 1 /\ b' = SwitchToBlock(Ins(CreateBlocks(b, 2), Br(n, body, end)), body)
           /\ todo' = <<Stmt(Kid(n, 1)), Task("endIf", n, <<end>>, FALSE)>> \o Tail(todo)
        \/ /\ m = 2 /\ b' = SwitchToBlock(Ins(CreateBlocks(b, 3), Br(n, body, els)), body)
           /\ todo' = <<Stmt(Kid(n, 1)), Task("else", n, <<els, end>>, FALSE)>> \o Tail(todo)
        BY DEF If, Push
  <2>3. Running /\ Top.op = "stmt" /\ Node(n).kind = "if" /\ ~b.filled
        BY <2>1, CompilingFacts DEF Base, JumpTargetKinds
  <2> HIDE DEF body, end, els, m
  <2>4. m \in {1, 2}
        BY <2>2
  <2>5. b' = SwitchToBlock(Ins(CreateBlocks(b, m + 1), Br(n, body, no)), body)
    <3>1. (m = 1 => m + 1 = 2) /\ (m = 2 => m + 1 = 3 /\ m # 1)
          OBVIOUS
    <3> QED  BY <2>2, <3>1
  <2>6. todo' = <<Stmt(Kid(n, 1)), e>> \o Tail(todo)
    <3>1. m = 2 => m # 1
          OBVIOUS
    <3> QED  BY <2>2, <3>1
  <2> QED  BY <2>1, <2>3, <2>4, <2>5, <2>6
<1>2. prog \in Programs /\ n \in DOMAIN prog.node /\ n # 0 /\ n \in Nat /\ Good(b, Instrs)
      BY <1>1, BaseTop, NodeFacts
<1>3. /\ body \in Block /\ end \in Block /\ no \in Block
      /\ body \in Free(CreateBlocks(b, m + 1))
  <2>1. m \in {1, 2}
        BY <1>1
  <2> HIDE DEF m
  <2>2. m + 1 \in Nat /\ 1 \in 1..m + 1 /\ 2 \in 1..m + 1 /\ (m # 1 => 3 \in 1..m + 1)
        BY <2>1
  <2> QED  BY <1>2, <2>2, FreeCreate
<1> HIDE DEF body, end
<1>4. /\ e \in Tasks /\ e.node = n
      /\ m = 1 => e.op = "endIf" /\ e.blk[1] = no
      /\ m = 2 => e.op = "else" /\ e.blk[1] = no
  <2>1. "endIf" \in TaskOps /\ "else" \in TaskOps
        BY DEF TaskOps
  <2>2. CASE m = 1
    <3>1. <<end>> \in Seq(Block) /\ <<end>>[1] = end /\ no = end
          BY <1>3, <2>2
    <3>2. e = [op |-> "endIf", node |-> n, blk |-> <<end>>, flag |-> FALSE] /\ FALSE \in BOOLEAN
          BY <2>2 DEF Task
    <3> HIDE DEF e
    <3>3. e \in Tasks /\ e.op = "endIf" /\ e.node = n /\ e.blk = <<end>>
          BY <1>2, <2>1, <3>1, <3>2 DEF Tasks
    <3> QED  BY <2>2, <3>1, <3>3
  <2>3. CASE m = 2
    <3>1. <<els, end>> \in Seq(Block) /\ <<els, end>>[1] = els /\ no = els
          BY <1>3, <2>3
    <3>2. e = [op |-> "else", node |-> n, blk |-> <<els, end>>, flag |-> FALSE] /\ FALSE \in BOOLEAN
          BY <2>3 DEF Task
    <3> HIDE DEF e
    <3>3. e \in Tasks /\ e.op = "else" /\ e.node = n /\ e.blk = <<els, end>>
          BY <1>2, <2>1, <3>1, <3>2 DEF Tasks
    <3> QED  BY <2>3, <3>1, <3>3
  <2> QED  BY <1>1, <2>2, <2>3
<1> HIDE DEF e, no
<1>5. Kid(n, 1) \in DOMAIN prog.node
      BY <1>1, <1>2, KidFacts
<1>6. Stmt(Kid(n, 1)) \in Tasks
      BY <1>2, <1>5, StmtFacts
<1>7. Part(Top, 1, e.op) /\ Promise(Top) = {} /\ e.op \in {"endIf", "else"}
      BY <1>1, <1>4 DEF Part, Promise
<1>8. /\ NowOf(Top) = Enter(n) /\ Observed(Enter(n)) = [op |-> "br", node |-> n]
      /\ \A v : Evaluated(Enter(n), v) = IF v # 0 THEN Enter(Kid(n, 1))
                                         ELSE IF m = 2 THEN Enter(Kid(n, 2)) ELSE Leave(n)
      BY <1>1, <1>2, AtStatement, Following DEF NowOf
<1>9. /\ Extends(b.code, b'.code) /\ Has(b'.code, Point(b), Br(n, body, no))
      /\ Point(b') = Start(body) /\ ~b'.filled
  <2>1. m + 1 \in Nat
        BY <1>1
  <2>2. Br(n, body, no) \in Instrs /\ Terminates(Br(n, body, no))
        BY <1>2, <1>3, InstrFacts
  <2> HIDE DEF m, n
  <2> QED  BY <1>1, <1>2, <1>3, <2>1, <2>2, BranchPlace
<1>10. /\ <<Point(b'), Enter(Kid(n, 1))>> \in Q /\ Promise(e) \subseteq Q
  <2>1. /\ e.node = Top.node /\ todo' = <<Stmt(Kid(Top.node, 1)), e>> \o Tail(todo)
        /\ Stmt(Kid(Top.node, 1)) \in Tasks /\ 1 \in 1..2
        BY <1>1, <1>4, <1>6
  <2> HIDE DEF n
  <2>2. <<Point(b'), Enter(Kid(Top.node, 1))>> \in Q /\ Promise(e) \subseteq Q
        BY <1>1, <1>4, <1>7, <1>9, <2>1, SplitOwed
  <2> QED  BY <2>2 DEF n
<1>11. On(Q, Start(no), IF m = 2 THEN Enter(Kid(n, 2)) ELSE Leave(n))
  <2>1. CASE m = 2
    <3>1. <<Start(no), Enter(Kid(n, 2))>> \in Promise(e)
          BY <1>4, <2>1 DEF Promise
    <3> QED  BY <1>10, <2>1, <3>1, Justifying
  <2>2. CASE m = 1
    <3>1. <<Start(no), Then(e)>> \in Promise(e)
          BY <1>4, <2>2 DEF Promise
    <3>2. Then(e) = Silently(Leave(n)) /\ Silent(Leave(n))
      <4>1. e.op # "post"
            BY <1>4, <2>2
      <4> QED  BY <1>2, <1>4, <4>1, ThenOf, AfterStatement
    <3>3. On(Q, Start(no), Leave(n))
          BY <1>10, <3>1, <3>2, Justifying
    <3> QED  BY <2>2, <3>3
  <2> QED  BY <1>1, <2>1, <2>2
<1>12. \A v : On(H, Start(IF v # 0 THEN body ELSE no), Evaluated(Enter(n), v))
  <2>1. SUFFICES ASSUME NEW v
                 PROVE  On(Q, Start(IF v # 0 THEN body ELSE no), Evaluated(Enter(n), v))
    <3>1. Q \subseteq H
          OBVIOUS
    <3> HIDE DEF Q, H
    <3> QED  BY <3>1, Justifying
  <2>2. On(Q, Start(body), Enter(Kid(n, 1)))
        BY <1>9, <1>10, Justifying
  <2> HIDE DEF Q, m
  <2>3. CASE v = 0
        BY <1>8, <1>11, <2>3
  <2>4. CASE v # 0
        BY <1>8, <2>2, <2>4
  <2> QED  BY <2>3, <2>4
<1> HIDE DEF m, Q, H
<1>13. OK(b'.code, Q, H, Point(b), NowOf(Top))
      BY <1>8, <1>9, <1>12, BranchBears
<1>14. Kept(e, b'.code, H) /\ e.op \notin {"endSwitch", "stmt"}
      BY <1>7 DEF Kept
<1>15. /\ Q = Owed(b', todo', switches) /\ H = (K \cup {}) \cup Q /\ 1 \in 1..2
       /\ e.node = Top.node /\ todo' = <<Stmt(Kid(Top.node, 1)), e>> \o Tail(todo)
       /\ Stmt(Kid(Top.node, 1)) \in Tasks
       BY <1>1, <1>4, <1>6 DEF Q, H
<1> HIDE DEF n
<1> QED  BY <1>1, <1>4, <1>7, <1>9, <1>13, <1>14, <1>15, SplitSim

\* The other branch of a conditional statement.
LEMMA ElseSim ==
  ASSUME Base, NEW K, Sim(b, todo, switches, labels, next, K), Else
  PROVE  SimNext
<1> DEFINE n == Top.node
           els == Top.blk[1]
           end == Top.blk[2]
           e == Task("endElse", n, <<end>>, IfHasReturn)
           Q == Owed(b', todo', switches)
           H == (K \cup {}) \cup Q
<1>1. /\ Running /\ Top.op = "else" /\ switches' = switches /\ labels' = labels /\ next' = next
      /\ b' = SwitchToBlock(JumpToBlock(b, end), els)
      /\ todo' = <<Stmt(Kid(n, 2)), e>> \o Tail(todo)
      BY DEF Else, At, Frame, Context, Push
<1>2. /\ Good(b, Instrs) /\ els \in Free(b) /\ end \in Block /\ n \in Nat
  <2>1. Opens(Top.op) = {1, 2} /\ Top.op \notin Plain \cup {"endFunction"}
        BY <1>1 DEF Opens, Plain
  <2> QED  BY <1>1, <2>1, TopBlocks DEF Base
<1>3. prog \in Programs /\ n \in DOMAIN prog.node /\ n # 0 /\ Stmt(Kid(n, 2)) \in Tasks
  <2>1. n \in DOMAIN prog.node /\ Len(Node(n).kids) = 2 /\ prog \in Programs /\ n # 0
        BY <1>1, BaseTop DEF TaskOK, Node
  <2> QED  BY <2>1, KidFacts, StmtFacts
<1>4. b.filled \in BOOLEAN
      BY <1>1, TopFacts DEF Base
<1>5. e \in Tasks /\ e.op = "endElse" /\ e.node = n /\ e.blk = <<end>> /\ e.flag = b.filled
  <2> HIDE DEF end, n
  <2>1. <<end>> \in Seq(Block) /\ "endElse" \in TaskOps
        BY <1>2 DEF TaskOps
  <2> QED  BY <1>2, <1>4, <2>1 DEF Task, Tasks, IfHasReturn
<1> HIDE DEF e
<1>6. Part(Top, 2, e.op)
      BY <1>1, <1>5 DEF Part
<1>7. /\ Extends(b.code, b'.code) /\ Point(b') = Start(els) /\ ~b'.filled
      /\ ~b.filled => Hop(b'.code, Point(b), Start(end))
      BY <1>1, <1>2, JumpOpens, JumpAndOpen
<1>8. <<Point(b'), Enter(Kid(n, 2))>> \in Q /\ Promise(e) \subseteq Q
  <2>1. /\ e.node = Top.node /\ todo' = <<Stmt(Kid(Top.node, 2)), e>> \o Tail(todo)
        /\ Stmt(Kid(Top.node, 2)) \in Tasks /\ 2 \in 1..2
        BY <1>1, <1>3, <1>5
  <2> HIDE DEF n, Q
  <2>2. <<Point(b'), Enter(Kid(Top.node, 2))>> \in Q /\ Promise(e) \subseteq Q
        BY <1>1, <1>5, <1>6, <1>7, <2>1, SplitOwed DEF Q
  <2> QED  BY <2>2 DEF n
<1>9. NowOf(Top) = Leave(n) /\ Silent(Leave(n))
      BY <1>1, <1>3, AfterStatement DEF NowOf
<1>10. ~b.filled => OK(b'.code, Q, H, Point(b), NowOf(Top))
  <2>1. SUFFICES ASSUME ~b.filled PROVE OK(b'.code, Q, H, Point(b), NowOf(Top))
        OBVIOUS
  <2>2. <<end>>[1] = end
        OBVIOUS
  <2> HIDE DEF end
  <2>3. <<Start(end), Then(e)>> \in Promise(e)
        BY <1>5, <2>1, <2>2 DEF Promise
  <2>4. Then(e) = Silently(Leave(n))
    <3>1. e.op # "post"
          BY <1>5
    <3> QED  BY <1>5, <3>1, ThenOf
  <2>5. <<Start(end), Silently(Leave(n))>> \in H
        BY <1>8, <2>3, <2>4
  <2> HIDE DEF Q, H
  <2>6. On(H, Start(end), Silently(Leave(n)))
        BY <2>5, Justifying
  <2> QED  BY <1>7, <1>9, <2>1, <2>6, Bearing
<1>11. \A L, q : <<L, q>> \in Promise(Top) \cup {} => OK(b'.code, Q, H, L, q)
  <2>1. Promise(Top) = {<<Start(els), Enter(Kid(n, 2))>>}
        BY <1>1 DEF Promise
  <2> HIDE DEF els, Q, H
  <2>2. SUFFICES ASSUME NEW L, NEW q, <<L, q>> \in Promise(Top) PROVE OK(b'.code, Q, H, L, q)
        OBVIOUS
  <2>3. <<L, q>> \in Q
        BY <1>7, <1>8, <2>1, <2>2
  <2> QED  BY <2>3, Justifying, Bearing
<1>12. Kept(e, b'.code, H) /\ e.op \notin {"endSwitch", "stmt"}
      BY <1>5 DEF Kept
<1> HIDE DEF Q, H
<1>13. /\ Q = Owed(b', todo', switches) /\ H = (K \cup {}) \cup Q /\ 2 \in 1..2
       /\ e.node = Top.node /\ todo' = <<Stmt(Kid(Top.node, 2)), e>> \o Tail(todo)
       /\ Stmt(Kid(Top.node, 2)) \in Tasks
       BY <1>1, <1>3, <1>5 DEF Q, H
<1> HIDE DEF n, els, end
<1> QED  BY <1>1, <1>5, <1>6, <1>7, <1>10, <1>11, <1>12, <1>13, SplitSim

\* A loop is entered: the code jumps to the header.
LEMMA EnteredPlace ==
  ASSUME Good(b, Instrs), ~b.filled
  PROVE  /\ Extends(b.code, Entered.code) /\ Hop(Entered.code, Point(b), Start(Header(b)))
         /\ Point(Entered) = Start(Header(b)) /\ ~Entered.filled /\ Good(Entered, Instrs)
<1> DEFINE k == Header(b)
<1>1. 3 \in Nat /\ k \in Free(CreateBlocks(b, 3)) /\ k \in Block
  <2>1. 3 \in Nat /\ 1 \in 1..3
        OBVIOUS
  <2> QED  BY <2>1, FreeCreate DEF Header
<1>2. 0 \in Nat
      OBVIOUS
<1>3. Jump(k) \in Instrs /\ Terminates(Jump(k))
      BY <1>1, <1>2, InstrFacts
<1>4. Entered = SwitchToBlock(Ins(CreateBlocks(b, 3), Jump(k)), k)
      BY DEF Entered
<1>5. Jump(k).op = "jump" /\ Jump(k).to[1] = k
      BY BranchGoals
<1> HIDE DEF k
<1>6. /\ Extends(b.code, Entered.code) /\ Has(Entered.code, Point(b), Jump(k))
      /\ Point(Entered) = Start(k) /\ ~Entered.filled /\ Good(Entered, Instrs)
      BY <1>1, <1>3, <1>4, BranchPlace
<1>7. Hop(Entered.code, Point(b), Start(k))
      BY <1>5, <1>6 DEF Hop
<1> QED  BY <1>6, <1>7 DEF k

\* A do statement: its body is next, at the header.
LEMMA DoSim ==
  ASSUME Base, NEW K, Sim(b, todo, switches, labels, next, K), Do
  PROVE  SimNext
<1> DEFINE n == Top.node
           hd == Header(b)
           e == Task("endDo", n, <<hd, Body(b), End(b)>>, sawLoop)
           Q == Owed(b', todo', switches)
           H == (K \cup {}) \cup Q
<1>1. /\ Running /\ Top.op = "stmt" /\ Node(n).kind = "do" /\ ~b.filled
      /\ switches' = switches /\ labels' = labels /\ next' = next /\ b' = Entered
      /\ todo' = <<Stmt(Kid(n, 1)), e>> \o Tail(todo)
      BY CompilingFacts DEF Base, Do, EnterLoop, Push, Frame, JumpTargetKinds
<1>2. prog \in Programs /\ n \in DOMAIN prog.node /\ n # 0 /\ n \in Nat /\ Good(b, Instrs)
      BY <1>1, BaseTop, NodeFacts
<1>3. hd \in Block /\ Body(b) \in Block /\ End(b) \in Block /\ sawLoop \in BOOLEAN
      BY <1>1, <1>2, EnteredFacts DEF Base, IInv, ContextTypes
<1>4. /\ Extends(b.code, b'.code) /\ Hop(b'.code, Point(b), Start(hd))
      /\ Point(b') = Start(hd) /\ ~b'.filled
      BY <1>1, <1>2, EnteredPlace
<1>5. /\ e \in Tasks /\ e.op = "endDo" /\ e.node = n /\ e.blk[1] = hd
  <2> HIDE DEF n, hd
  <2>1. <<hd, Body(b), End(b)>> \in Seq(Block) /\ "endDo" \in TaskOps
        BY <1>3 DEF TaskOps
  <2> QED  BY <1>2, <1>3, <2>1 DEF Task, Tasks
<1> HIDE DEF e
<1>6. Stmt(Kid(n, 1)) \in Tasks
  <2>1. Kid(n, 1) \in DOMAIN prog.node
        BY <1>1, <1>2, KidFacts DEF Unary
  <2> QED  BY <1>2, <2>1, StmtFacts
<1>7. Part(Top, 1, e.op) /\ Promise(Top) = {}
      BY <1>1, <1>5 DEF Part, Promise
<1>8. /\ NowOf(Top) = Enter(n) /\ Silent(Enter(n)) /\ Silently(Enter(n)) = Enter(Kid(n, 1))
      BY <1>1, <1>2, AtStatement, Beginning DEF NowOf
<1>9. <<Start(hd), Enter(Kid(n, 1))>> \in Q
  <2>1. /\ e.node = Top.node /\ todo' = <<Stmt(Kid(Top.node, 1)), e>> \o Tail(todo)
        /\ Stmt(Kid(Top.node, 1)) \in Tasks /\ 1 \in 1..2
        BY <1>1, <1>5, <1>6
  <2> HIDE DEF n, Q, hd
  <2>2. <<Point(b'), Enter(Kid(Top.node, 1))>> \in Q
        BY <1>1, <1>5, <1>7, <1>4, <2>1, SplitOwed DEF Q
  <2> QED  BY <1>4, <2>2 DEF n
<1>10. Q \subseteq H
       OBVIOUS
<1> HIDE DEF Q, H, hd
<1>11. OK(b'.code, Q, H, Point(b), NowOf(Top))
  <2>1. On(H, Start(hd), Silently(Enter(n)))
        BY <1>8, <1>9, <1>10, Justifying
  <2> QED  BY <1>4, <1>8, <2>1, Bearing
<1>12. Kept(e, b'.code, H) /\ e.op \notin {"endSwitch", "stmt"}
      BY <1>5, <1>9, <1>10 DEF Kept
<1>13. /\ Q = Owed(b', todo', switches) /\ H = (K \cup {}) \cup Q /\ 1 \in 1..2
       /\ e.node = Top.node /\ todo' = <<Stmt(Kid(Top.node, 1)), e>> \o Tail(todo)
       /\ Stmt(Kid(Top.node, 1)) \in Tasks
       BY <1>1, <1>5, <1>6 DEF Q, H
<1>14. \A L, q : <<L, q>> \in Promise(Top) \cup {} => OK(b'.code, Q, H, L, q)
       BY <1>7
<1> HIDE DEF n
<1> QED  BY <1>1, <1>4, <1>5, <1>7, <1>11, <1>12, <1>13, <1>14, SplitSim

\* The tasks of a while or for are what its shape says.
LEMMA LoopShape ==
  ASSUME Base, Running, NEW n, n = Top.node,
         \/ Top.op = "stmt" /\ Node(n).kind = "while"
         \/ Top.op = "for" /\ Node(n).kind = "for",
         NEW e \in Tasks, e.op = "endWhile", e.node = n, NEW ts, ts = LoopBody(n) \o <<e>>
  PROVE  /\ Shape(Top, ts) /\ ts \in Seq(Tasks) /\ ts # <<>> /\ ts[1] = Stmt(LastKid(n))
         /\ \A i \in 1..Len(ts) : ts[i] = e \/ ts[i].op \in {"stmt", "post"}
         /\ \E i \in 1..Len(ts) : ts[i] = e
<1>1. /\ prog \in Programs /\ n \in DOMAIN prog.node /\ Top \in Tasks /\ TaskOK(Top, prog)
      /\ OfKind(Top) /\ n \in Nat
      BY BaseTop, NodeFacts
<1>2. /\ Node(n).kind = "while" => Len(Node(n).kids) = 1
      /\ Node(n).kind = "for" => Len(Node(n).kids) = 2
      BY <1>1, NodeFacts DEF Arity, Leaves, Unary
<1> DEFINE x == Stmt(LastKid(n))
           q == Task("post", n, <<>>, FALSE)
<1>3. LastKid(n) = Kid(n, IF Node(n).kind = "while" THEN 1 ELSE 2)
      BY <1>2 DEF LastKid
<1>4. \/ Node(n).kind = "while" /\ ts = <<x, e>>
      \/ Node(n).kind = "for" /\ "post" \notin Node(n).opts /\ ts = <<x, e>>
      \/ Node(n).kind = "for" /\ "post" \in Node(n).opts /\ ts = <<x, q, e>>
  <2>1. <<x>> \o <<e>> = <<x, e>> /\ <<x, q>> \o <<e>> = <<x, q, e>>
        BY Joined
  <2>2. LoopBody(n) = IF Node(n).kind = "while" \/ "post" \notin Node(n).opts THEN <<x>> ELSE <<x, q>>
        BY <1>3 DEF LoopBody
  <2> HIDE DEF x, q
  <2> QED  BY <2>1, <2>2
<1>5. q \in Tasks /\ q.op = "post" /\ q.node = n
  <2>1. <<>> \in Seq(Block) /\ "post" \in TaskOps /\ FALSE \in BOOLEAN
        BY DEF TaskOps
  <2>2. q = [op |-> "post", node |-> n, blk |-> <<>>, flag |-> FALSE]
        BY DEF Task
  <2> HIDE DEF q
  <2> QED  BY <1>1, <2>1, <2>2 DEF Tasks
<1>6. Shape(Top, ts)
  <2>1. CASE Node(n).kind = "while"
    <3>1. ts = <<Stmt(Kid(Top.node, 1)), e>> /\ Part(Top, 1, e.op) /\ 1 \in 1..2
          BY <1>3, <1>4, <2>1 DEF Part
    <3>2. Splits(Top, ts)
          BY <3>1 DEF Splits
    <3> QED  BY <3>2 DEF Shape
  <2>2. CASE Node(n).kind = "for" /\ "post" \notin Node(n).opts
    <3>0. LastKid(n) = Kid(n, 2) /\ Top.op = "for"
          BY <1>3, <2>2
    <3>4. x = Stmt(Kid(Top.node, 2)) /\ Node(n).kind # "while"
          BY <2>2, <3>0
    <3>5. ts = <<x, e>>
      <4> HIDE DEF x, q
      <4> QED  BY <1>4, <2>2
    <3>6. 2 \in 1..2
          OBVIOUS
    <3>1. ts = <<Stmt(Kid(Top.node, 2)), e>> /\ 2 \in 1..2
      <4> HIDE DEF x
      <4> QED  BY <3>4, <3>5, <3>6, Zenon
    <3>3. Part(Top, 2, e.op)
          BY <2>2, <3>0 DEF Part
    <3>2. Splits(Top, ts)
          BY <3>1, <3>3 DEF Splits
    <3> QED  BY <3>2 DEF Shape
  <2>3. CASE Node(n).kind = "for" /\ "post" \in Node(n).opts
    <3>1. ts = <<Stmt(Kid(Top.node, 2)), q, e>> /\ Top.op = "for"
          BY <1>3, <1>4, <2>3
    <3> HIDE DEF q
    <3>2. Repeats(Top, ts)
          BY <1>5, <2>3, <3>1 DEF Repeats
    <3> QED  BY <3>2 DEF Shape
  <2> QED  BY <1>4, <2>1, <2>2, <2>3
<1>7. ts \in Seq(Tasks)
      BY <1>1, <1>6, FlowShape
<1>8. x.op = "stmt"
      BY DEF Stmt, Task
<1> HIDE DEF x, q
<1>9. /\ ts # <<>> /\ ts[1] = x
      /\ \A i \in 1..Len(ts) : ts[i] = e \/ ts[i].op \in {"stmt", "post"}
      /\ \E i \in 1..Len(ts) : ts[i] = e
  <2>1. CASE ts = <<x, e>>
    <3>0. Len(<<x, e>>) = 2 /\ <<x, e>>[1] = x /\ <<x, e>>[2] = e
          OBVIOUS
    <3>1. Len(ts) = 2 /\ ts[1] = x /\ ts[2] = e
          BY <2>1, <3>0, Zenon
    <3>2. 2 \in 1..Len(ts) /\ \A i \in 1..Len(ts) : i = 1 \/ i = 2
          BY <3>1
    <3> QED  BY <1>8, <2>1, <3>1, <3>2
  <2>2. CASE ts = <<x, q, e>>
    <3>0. Len(<<x, q, e>>) = 3 /\ <<x, q, e>>[1] = x /\ <<x, q, e>>[2] = q /\ <<x, q, e>>[3] = e
          OBVIOUS
    <3>1. Len(ts) = 3 /\ ts[1] = x /\ ts[2] = q /\ ts[3] = e
          BY <2>2, <3>0, Zenon
    <3>2. 3 \in 1..Len(ts) /\ \A i \in 1..Len(ts) : i = 1 \/ i = 2 \/ i = 3
          BY <3>1
    <3> QED  BY <1>5, <1>8, <2>2, <3>1, <3>2
  <2> QED  BY <1>4, <2>1, <2>2
<1> QED  BY <1>6, <1>7, <1>9 DEF x

\* The test of a while or for, at its header, and the body after it.
LEMMA HeaderPlace ==
  ASSUME Good(b, Instrs), ~b.filled, NEW n \in Nat, NEW bm,
         NEW has \in BOOLEAN,
         bm = SwitchToBlock(IF has THEN Ins(Entered, Br(n, Body(b), End(b)))
                            ELSE JumpToBlock(Entered, Body(b)), Body(b))
  PROVE  /\ Extends(b.code, bm.code) /\ Hop(bm.code, Point(b), Start(Header(b)))
         /\ Point(bm) = Start(Body(b)) /\ ~bm.filled
         /\ has => Has(bm.code, Start(Header(b)), Br(n, Body(b), End(b)))
         /\ ~has => Hop(bm.code, Start(Header(b)), Start(Body(b)))
<1> DEFINE bc == Entered
<1>1. /\ Extends(b.code, bc.code) /\ Hop(bc.code, Point(b), Start(Header(b)))
      /\ Point(bc) = Start(Header(b)) /\ ~bc.filled /\ Good(bc, Instrs)
      BY EnteredPlace
<1>2. /\ Header(b) \in Block /\ Body(b) \in Block /\ End(b) \in Block /\ Body(b) \in Free(bc)
      BY EnteredFacts
<1>3. Br(n, Body(b), End(b)) \in Instrs /\ Terminates(Br(n, Body(b), End(b)))
      BY <1>2, InstrFacts
<1> DEFINE ins == Br(n, Body(b), End(b))
           k == Body(b)
<1>4. CASE has
  <2>1. bm = SwitchToBlock(Ins(bc, ins), k)
        BY <1>4
  <2> HIDE DEF bc, ins, k
  <2>2. /\ Extends(bc.code, bm.code) /\ Has(bm.code, Point(bc), ins) /\ Point(bm) = Start(k)
        /\ ~bm.filled
        BY <1>1, <1>2, <1>3, <2>1, InsOpens, InsAndOpen DEF ins, k
  <2>3. Extends(b.code, bm.code) /\ Hop(bm.code, Point(b), Start(Header(b)))
        BY <1>1, <2>2, Extending, Leading
  <2> QED  BY <1>1, <1>4, <2>2, <2>3 DEF ins, k
<1>5. CASE ~has
  <2>1. bm = SwitchToBlock(JumpToBlock(bc, k), k)
        BY <1>5
  <2> HIDE DEF bc, ins, k
  <2>2. /\ Extends(bc.code, bm.code) /\ Hop(bm.code, Point(bc), Start(k)) /\ Point(bm) = Start(k)
        /\ ~bm.filled
        BY <1>1, <1>2, <2>1, JumpOpens, JumpAndOpen DEF k
  <2>3. Extends(b.code, bm.code) /\ Hop(bm.code, Point(b), Start(Header(b)))
        BY <1>1, <2>2, Extending, Leading
  <2> QED  BY <1>1, <1>5, <2>2, <2>3 DEF k
<1> QED  BY <1>4, <1>5

\* The header of a while or for is where its condition is evaluated.
LEMMA HeaderBears ==
  ASSUME prog \in Programs, NEW n \in DOMAIN prog.node, n # 0, Node(n).kind \in {"while", "for"},
         NEW code, NEW H, NEW hd, NEW bd, NEW end,
         HasCondition(n) => Has(code, Start(hd), Br(n, bd, end)),
         ~HasCondition(n) => Hop(code, Start(hd), Start(bd)),
         <<Start(bd), Enter(LastKid(n))>> \in H, On(H, Start(end), Leave(n))
  PROVE  Justified(code, H, Start(hd), Pos(n, "cond"))
<1> DEFINE q == Pos(n, "cond")
           none == {}
<1>0. HasCondition(n) <=> (Node(n).kind = "for" => "cond" \in Node(n).opts)
      BY DEF HasCondition
<1>1. /\ Silently(q) = Enter(LastKid(n))
      /\ HasCondition(n) => Observed(q) = [op |-> "br", node |-> n]
      /\ ~HasCondition(n) => Silent(q)
      /\ \A v : Evaluated(q, v) = IF v # 0 THEN Enter(LastKid(n)) ELSE Leave(n)
      BY <1>0, AtParts, Following
<1>2. On(H, Start(bd), Enter(LastKid(n)))
      BY Justifying
<1> HIDE DEF q, none
<1>3. OK(code, none, H, Start(hd), q)
  <2>1. CASE HasCondition(n)
    <3>1. \A v : On(H, Start(IF v # 0 THEN bd ELSE end), Evaluated(q, v))
      <4>1. SUFFICES ASSUME NEW v PROVE On(H, Start(IF v # 0 THEN bd ELSE end), Evaluated(q, v))
            OBVIOUS
      <4>2. CASE v = 0
            BY <1>1, <4>2
      <4>3. CASE v # 0
            BY <1>1, <1>2, <4>3
      <4> QED  BY <4>2, <4>3
    <3> QED  BY <1>1, <2>1, <3>1, BranchBears
  <2>2. CASE ~HasCondition(n)
        BY <1>1, <1>2, <2>2, Bearing
  <2> QED  BY <2>1, <2>2
<1>4. ~On(none, Start(hd), q)
      BY DEF On, none
<1> QED  BY <1>3, <1>4 DEF OK, q

\* A while or for: the header is reached, and what it leads to is promised.
LEMMA WhileSim ==
  ASSUME Base, NEW K, Sim(b, todo, switches, labels, next, K), While
  PROVE  SimNext
<1> DEFINE n == Top.node
           hd == Header(b)
           bd == Body(b)
           end == End(b)
           q == Pos(n, "cond")
           e == Task("endWhile", n, <<hd, end>>, sawLoop)
           ts == LoopBody(n) \o <<e>>
           N == {<<Start(hd), q>>}
           Q == Owed(b', todo', switches)
           H == (K \cup N) \cup Q
<1>1. /\ (Compiling("while") \/ At("for"))
      /\ switches' = switches /\ labels' = labels /\ next' = next
      /\ b' = SwitchToBlock(IF HasCondition(n) THEN Ins(Entered, Br(n, bd, end))
                            ELSE JumpToBlock(Entered, bd), bd)
      /\ todo' = ts \o Tail(todo)
      BY DEF While, EnterLoop, Push, Frame
<1>2. /\ Running /\ ~b.filled /\ Node(n).kind \in {"while", "for"}
      BY WhileTop DEF Base, While
<1>3. \/ Top.op = "stmt" /\ Node(n).kind = "while"
      \/ Top.op = "for" /\ Node(n).kind = "for"
  <2>1. CASE Compiling("while")
        BY <2>1 DEF Compiling, At
  <2>2. CASE At("for")
    <3>1. Top.op = "for" /\ OfKind(Top)
          BY <1>2, <2>2, BaseTop DEF At
    <3> QED  BY <3>1 DEF OfKind
  <2> QED  BY <2>1, <2>2 DEF While
<1>4. /\ Top.op \notin {"endSwitch", "endFunction"} /\ Promise(Top) = {}
      /\ Top.op = "stmt" => Node(n).kind \notin {"case", "default"}
      BY <1>3 DEF Promise
<1>5. /\ prog \in Programs /\ n \in DOMAIN prog.node /\ n # 0 /\ n \in Nat /\ Good(b, Instrs)
      /\ Tail(todo) \in Seq(Tasks)
  <2>1. /\ prog \in Programs /\ Good(b, Instrs) /\ Tail(todo) \in Seq(Tasks)
        /\ n \in DOMAIN prog.node /\ n # 0
        BY <1>2, <1>4, BaseTop
  <2> QED  BY <2>1, NodeFacts
<1>6. hd \in Block /\ bd \in Block /\ end \in Block /\ sawLoop \in BOOLEAN
      BY <1>2, <1>5, EnteredFacts DEF Base, IInv, ContextTypes
<1>7. /\ e \in Tasks /\ e.op = "endWhile" /\ e.node = n /\ e.blk[1] = hd /\ e.blk[2] = end
  <2> HIDE DEF n, hd, end
  <2>1. <<hd, end>> \in Seq(Block) /\ "endWhile" \in TaskOps
        BY <1>6 DEF TaskOps
  <2> QED  BY <1>5, <1>6, <2>1 DEF Task, Tasks
<1> HIDE DEF e
<1>8. /\ Shape(Top, ts) /\ ts \in Seq(Tasks) /\ ts # <<>> /\ ts[1] = Stmt(LastKid(n))
      /\ \A i \in 1..Len(ts) : ts[i] = e \/ ts[i].op \in {"stmt", "post"}
      /\ \E i \in 1..Len(ts) : ts[i] = e
  <2>1. n = Top.node /\ ts = LoopBody(n) \o <<e>>
        OBVIOUS
  <2>2. Running /\ e \in Tasks /\ e.op = "endWhile" /\ e.node = n
        BY <1>2, <1>7
  <2> HIDE DEF n, ts, hd, end
  <2>6. Shape(Top, ts)
        BY <1>3, <2>1, <2>2, LoopShape
  <2>7. ts \in Seq(Tasks)
        BY <1>3, <2>1, <2>2, LoopShape
  <2>8. ts # <<>>
        BY <1>3, <2>1, <2>2, LoopShape
  <2>9. ts[1] = Stmt(LastKid(n))
        BY <1>3, <2>1, <2>2, LoopShape
  <2>3. Shape(Top, ts) /\ ts \in Seq(Tasks) /\ ts # <<>> /\ ts[1] = Stmt(LastKid(n))
        BY <2>6, <2>7, <2>8, <2>9
  <2>4. \A i \in 1..Len(ts) : ts[i] = e \/ ts[i].op \in {"stmt", "post"}
        BY <1>3, <2>1, <2>2, LoopShape
  <2>5. \E i \in 1..Len(ts) : ts[i] = e
        BY <1>3, <2>1, <2>2, LoopShape
  <2> QED  BY <2>3, <2>4, <2>5
<1> HIDE DEF ts
<1>9. /\ Extends(b.code, b'.code) /\ Hop(b'.code, Point(b), Start(hd))
      /\ Point(b') = Start(bd) /\ ~b'.filled
      /\ HasCondition(n) => Has(b'.code, Start(hd), Br(n, bd, end))
      /\ ~HasCondition(n) => Hop(b'.code, Start(hd), Start(bd))
  <2>1. HasCondition(n) \in BOOLEAN
        BY DEF HasCondition
  <2> HIDE DEF n
  <2> QED  BY <1>1, <1>2, <1>5, <2>1, HeaderPlace
<1>10. <<Start(bd), Enter(LastKid(n))>> \in Q /\ Promise(e) \subseteq Q
  <2>1. NowOf(Stmt(LastKid(n))) = Enter(LastKid(n))
        BY ThenOf
  <2> HIDE DEF bd, n
  <2>2. <<Point(b'), NowOf(ts[1])>> \in Q
        BY <1>1, <1>5, <1>8, <1>9, PushOwed
  <2>3. Promise(e) \subseteq Q
        BY <1>1, <1>5, <1>8, PushOwed
  <2> QED  BY <1>8, <1>9, <2>1, <2>2, <2>3
<1>11. On(Q, Start(end), Leave(n))
  <2>1. <<Start(end), Then(e)>> \in Promise(e)
        BY <1>7 DEF Promise
  <2>2. Then(e) = Silently(Leave(n)) /\ Silent(Leave(n))
    <3>1. e.op # "post"
          BY <1>7
    <3> QED  BY <1>5, <1>7, <3>1, ThenOf, AfterStatement
  <2> HIDE DEF Q, end
  <2> QED  BY <1>10, <2>1, <2>2, Justifying
<1>12. Q \subseteq H /\ <<Start(hd), q>> \in H
       OBVIOUS
<1>13. \A L, p : <<L, p>> \in Promise(Top) \cup N => L = Start(hd) /\ p = q
       BY <1>4
<1>14. Q = Owed(b', todo', switches) /\ H = (K \cup N) \cup Q
       OBVIOUS
<1> HIDE DEF Q, H, N, hd, bd, end
<1>15. Justified(b'.code, H, Start(hd), q)
  <2>1. On(H, Start(end), Leave(n)) /\ <<Start(bd), Enter(LastKid(n))>> \in H
        BY <1>10, <1>11, <1>12, Justifying
  <2> HIDE DEF n
  <2> QED  BY <1>2, <1>5, <1>9, <2>1, HeaderBears DEF n
<1>16. OK(b'.code, Q, H, Point(b), NowOf(Top))
  <2>1. CASE Top.op = "for"
    <3>1. NowOf(Top) = q
          BY <2>1 DEF NowOf
    <3> HIDE DEF q
    <3>2. Justified(b'.code, H, Point(b), q)
          BY <1>9, <1>12, <1>15, Justifying
    <3> QED  BY <3>1, <3>2 DEF OK
  <2>2. CASE Top.op = "stmt" /\ Node(n).kind = "while"
    <3>1. NowOf(Top) = Enter(n) /\ Silent(Enter(n)) /\ Silently(Enter(n)) = q
          BY <1>5, <2>2, AtStatement, Beginning DEF NowOf
    <3> HIDE DEF q
    <3>2. On(H, Start(hd), q)
          BY <1>12, Justifying
    <3> QED  BY <1>9, <3>1, <3>2, Bearing
  <2> QED  BY <1>3, <2>1, <2>2
<1>17. \A L, p : <<L, p>> \in Promise(Top) \cup N => OK(b'.code, Q, H, L, p)
       BY <1>13, <1>15 DEF OK
<1>18. \A i \in 1..Len(ts) : ts[i].op # "endSwitch" /\ Kept(ts[i], b'.code, H)
  <2>1. Kept(e, b'.code, H) /\ e.op # "endSwitch"
        BY <1>7, <1>12, <1>15 DEF Kept
  <2>2. \A t : t.op \in {"stmt", "post"} => t.op # "endSwitch" /\ Kept(t, b'.code, H)
        BY DEF Kept
  <2> QED  BY <1>8, <2>1, <2>2
<1>19. Node(Top.node).kind \notin {"case", "default"} \/ Top.op # "stmt"
       BY <1>4
<1> HIDE DEF n, q
<1> QED  BY <1>1, <1>2, <1>4, <1>8, <1>9, <1>14, <1>16, <1>17, <1>18, <1>19, PushSim

\* The statement after a label, case or default is pushed.
LEMMA Marking ==
  ASSUME Base, Running, Top.op = "stmt", Node(Top.node).kind \in {"case", "default", "label"},
         NEW k, k = Kid(Top.node, 1), NEW ts, ts = <<Stmt(k)>>, todo' = ts \o Tail(todo),
         ~b'.filled, NEW sw, NEW Q, Q = Owed(b', todo', sw)
  PROVE  /\ Shape(Top, ts) /\ ts \in Seq(Tasks) /\ Promise(Top) = {}
         /\ \A i \in 1..Len(ts) : ts[i].op = "stmt"
         /\ <<Point(b'), Enter(k)>> \in Q
         /\ NowOf(Top) = Enter(Top.node) /\ Silent(Enter(Top.node))
         /\ Silently(Enter(Top.node)) = Enter(k)
<1>1. Shape(Top, ts)
      BY DEF Shape, Marks
<1>2. /\ prog \in Programs /\ Top \in Tasks /\ TaskOK(Top, prog) /\ OfKind(Top)
      /\ Tail(todo) \in Seq(Tasks) /\ Top.node # 0
      BY BaseTop
<1>3. ts \in Seq(Tasks)
      BY <1>1, <1>2, FlowShape
<1>4. Len(ts) = 1 /\ ts[1] = Stmt(k)
  <2>1. Len(<<Stmt(k)>>) = 1 /\ <<Stmt(k)>>[1] = Stmt(k)
        OBVIOUS
  <2> QED  BY <2>1
<1>5. Stmt(k).op = "stmt" /\ NowOf(Stmt(k)) = Enter(k)
      BY ThenOf
<1>6. \A i \in 1..Len(ts) : i = 1
      BY <1>4
<1>7. \A i \in 1..Len(ts) : ts[i].op = "stmt"
      BY <1>4, <1>5, <1>6
<1>8. ts # <<>>
  <2>1. Len(<<>>) = 0
        OBVIOUS
  <2> QED  BY <1>4, <2>1
<1>9. <<Point(b'), NowOf(ts[1])>> \in Q
      BY <1>2, <1>3, <1>8, PushOwed
<1>10. /\ NowOf(Top) = Enter(Top.node) /\ Silent(Enter(Top.node))
       /\ Silently(Enter(Top.node)) = Enter(k) /\ Promise(Top) = {}
       BY <1>2, AtStatement, Beginning DEF NowOf, Promise
<1> QED  BY <1>1, <1>3, <1>4, <1>5, <1>7, <1>9, <1>10

\* A new block is created, jumped to and opened.
LEMMA OpenPlace ==
  ASSUME Good(b, Instrs), NEW k, k = Fresh(b, 1),
         NEW bm, bm = SwitchToBlock(JumpToBlock(CreateBlocks(b, 1), k), k)
  PROVE  /\ Extends(b.code, bm.code) /\ Point(bm) = Start(k) /\ ~bm.filled
         /\ ~b.filled => Hop(bm.code, Point(b), Start(k))
         /\ k \in Block
<1> DEFINE bc == CreateBlocks(b, 1)
<1>1. 1 \in Nat /\ 1 \in 1..1
      OBVIOUS
<1>2. Good(bc, Instrs) /\ bc.filled = b.filled /\ k \in Free(bc) /\ k \in Block
      BY <1>1, FreeCreate
<1>3. Extends(b.code, bc.code) /\ Point(bc) = Point(b)
      BY <1>1, CreatePlace
<1>4. bm = SwitchToBlock(JumpToBlock(bc, k), k)
      OBVIOUS
<1> HIDE DEF bc
<1>5. /\ Extends(bc.code, bm.code) /\ Point(bm) = Start(k) /\ ~bm.filled
      /\ ~bc.filled => Hop(bm.code, Point(bc), Start(k))
      BY <1>2, <1>4, JumpOpens, JumpAndOpen
<1>6. Extends(b.code, bm.code)
      BY <1>3, <1>5, Extending
<1> QED  BY <1>2, <1>3, <1>5, <1>6

\* A label: its block is where the statement after it is.
LEMMA LabelSim ==
  ASSUME Base, NEW K, Sim(b, todo, switches, labels, next, K), Label, err' = "none"
  PROVE  SimNext
<1> DEFINE n == Top.node
           v == Node(n).val
           blk == Fresh(b, 1)
           k == Kid(n, 1)
           ts == <<Stmt(k)>>
           N == {<<Start(blk), Enter(n)>>}
           Q == Owed(b', todo', switches)
           H == (K \cup N) \cup Q
<1>1. /\ Compiling("label") /\ switches' = switches /\ next' = next
      /\ labels' = [labels EXCEPT ![v] = blk]
      /\ b' = SwitchToBlock(JumpToBlock(CreateBlocks(b, 1), blk), blk)
      /\ todo' = ts \o Tail(todo)
      BY DEF Label, Bind, Push, Context
<1>2. Running /\ Top.op = "stmt" /\ Node(n).kind = "label" /\ n \in DOMAIN prog.node
      BY <1>1, CompilingFacts DEF Base
<1>3. prog \in Programs /\ Good(b, Instrs) /\ InBody(next, n) /\ v \in Vals /\ labels \in [Vals -> Nat]
  <2>1. Top.op # "endFunction" /\ IInv /\ TasksHere
        BY <1>2 DEF Base, ScopeOK
  <2>2. InBody(next, n) /\ prog \in Programs
        BY <1>2, <2>1, TopHere
  <2>3. labels \in [Vals -> Nat]
        BY DEF Base, IInv, Maps
  <2> QED  BY <1>2, <2>2, <2>3, BaseTop, NodeFacts
<1> HIDE DEF blk
<1>4. /\ Extends(b.code, b'.code) /\ Point(b') = Start(blk) /\ ~b'.filled
      /\ ~b.filled => Hop(b'.code, Point(b), Start(blk))
      /\ blk \in Block
      BY <1>1, <1>3, OpenPlace DEF blk
<1>5. /\ Shape(Top, ts) /\ ts \in Seq(Tasks) /\ Promise(Top) = {}
      /\ \A i \in 1..Len(ts) : ts[i].op = "stmt"
      /\ <<Point(b'), Enter(k)>> \in Q
      /\ NowOf(Top) = Enter(n) /\ Silent(Enter(n)) /\ Silently(Enter(n)) = Enter(k)
  <2>1. Q = Owed(b', todo', switches) /\ k = Kid(Top.node, 1) /\ ts = <<Stmt(k)>>
        OBVIOUS
  <2>2. Node(Top.node).kind \in {"case", "default", "label"}
        BY <1>2
  <2> HIDE DEF Q, k, ts
  <2> QED  BY <1>1, <1>2, <1>4, <2>1, <2>2, Marking
<1>6. <<Start(blk), Enter(n)>> \in H /\ K \subseteq H /\ Q \subseteq H
      OBVIOUS
<1>7. \A L, q : <<L, q>> \in N => L = Start(blk) /\ q = Enter(n)
      OBVIOUS
<1>8. Q = Owed(b', todo', switches) /\ H = (K \cup N) \cup Q
      OBVIOUS
<1> HIDE DEF Q, H, N, ts, k
<1>9. On(Q, Start(blk), Silently(Enter(n)))
      BY <1>4, <1>5, Justifying
<1>10. OK(b'.code, Q, H, Start(blk), Enter(n))
      BY <1>5, <1>9, Bearing
<1>11. ~b.filled => OK(b'.code, Q, H, Point(b), NowOf(Top))
  <2>1. On(H, Start(blk), Silently(Enter(n)))
        BY <1>6, <1>9, Justifying
  <2> QED  BY <1>4, <1>5, <2>1, Bearing
<1>12. \A L, q : <<L, q>> \in Promise(Top) \cup N => OK(b'.code, Q, H, L, q)
      BY <1>5, <1>7, <1>10
<1>13. LabelsKnown(labels', next, H)
  <2>1. LabelsKnown(labels, next, H)
    <3>1. LabelsKnown(labels, next, K)
          BY DEF Sim
    <3> QED  BY <1>6, <3>1, Extending, StillKept
  <2>2. SUFFICES ASSUME NEW u \in Vals, labels'[u] # 0
                 PROVE  \E m \in DOMAIN prog.node :
                          /\ Node(m).kind = "label" /\ Node(m).val = u
                          /\ \/ InBody(next, m) /\ <<Start(labels'[u]), Enter(m)>> \in H
                             \/ \E f \in DOMAIN prog.fns : f < next /\ InBody(f, m)
        BY DEF LabelsKnown
  <2>3. CASE u = v
    <3>1. labels'[u] = blk
          BY <1>1, <1>3, <2>3
    <3>2. Node(n).kind = "label" /\ Node(n).val = u
          BY <1>2, <2>3
    <3> QED  BY <1>2, <1>3, <1>6, <3>1, <3>2
  <2>4. CASE u # v
    <3>1. labels'[u] = labels[u]
          BY <1>1, <1>3, <2>4
    <3> HIDE DEF v, n
    <3> QED  BY <2>1, <2>2, <3>1 DEF LabelsKnown
  <2> QED  BY <2>3, <2>4
<1>14. \A i \in 1..Len(ts) : ts[i].op # "endSwitch" /\ Kept(ts[i], b'.code, H)
      BY <1>5 DEF Kept
<1>15. /\ Top.op \notin {"endSwitch", "endFunction"}
       /\ Top.op = "stmt" => Node(Top.node).kind \notin {"case", "default"}
      BY <1>2
<1> HIDE DEF n, v
<1>16. Sim(b', todo', switches', labels', next', H)
      BY <1>1, <1>2, <1>4, <1>5, <1>8, <1>11, <1>12, <1>13, <1>14, <1>15, PlainSim
<1> QED  BY <1>16 DEF SimNext

\* A step onto any stack.
LEMMA GrowSim ==
  ASSUME NEW s, NEW r, NEW bl, NEW bm, NEW sw, NEW sv, NEW lb, NEW lc, NEW nx,
         NEW K, NEW N, NEW Q, NEW H, Sim(bl, s, sw, lb, nx, K), Extends(bl.code, bm.code),
         Q = Owed(bm, r, sv), H = (K \cup N) \cup Q,
         \A L, q : <<L, q>> \in Owed(bl, s, sw) \cup N => OK(bm.code, Q, H, L, q),
         AllKept(r, bm.code, H), SwitchesKnown(r, sv, H), LabelsKnown(lc, nx, H)
  PROVE  Sim(bm, r, sv, lc, nx, H)
<1> DEFINE P == Owed(bl, s, sw)
<1>1. \A L, q : <<L, q>> \in P \cup N =>
        On(Q, L, q) \/ Justified(bm.code, (K \cup N) \cup Q, L, q)
      BY DEF OK
<1>2. Follows(bl.code, K, P)
      BY DEF Sim
<1> HIDE DEF P
<1>3. Follows(bm.code, H, Q)
      BY <1>1, <1>2, Advance
<1>4. <<Start(1), Enter(prog.fns[nx].body)>> \in H
      BY DEF Sim
<1> QED  BY <1>3, <1>4 DEF Sim

\* What is promised and kept by a stack with a task on top.
LEMMA OneMore ==
  ASSUME NEW t \in Tasks, NEW s \in Seq(Tasks)
  PROVE  /\ Promises(<<t>> \o s) = Promise(t) \cup Promises(s)
         /\ \A c, K : AllKept(<<t>> \o s, c, K) <=> Kept(t, c, K) /\ AllKept(s, c, K)
<1> DEFINE r == <<t>> \o s
<1>1. <<t>> \in Seq(Tasks) /\ Len(<<t>>) = 1 /\ <<t>>[1] = t
      BY Single
<1>2. /\ Len(r) = 1 + Len(s) /\ Len(s) \in Nat /\ r[1] = t
      /\ \A i \in 1..Len(s) : r[i + 1] = s[i]
  <2>1. 1 \in 1..Len(<<t>>)
        BY <1>1
  <2>2. /\ Len(r) = Len(<<t>>) + Len(s) /\ Len(s) \in Nat
        /\ \A i \in 1..Len(<<t>>) : r[i] = <<t>>[i]
        /\ \A i \in 1..Len(s) : r[i + Len(<<t>>)] = s[i]
        BY <1>1, OnTopOf
  <2> HIDE DEF r
  <2> QED  BY <1>1, <2>1, <2>2
<1> HIDE DEF r
<1>3. /\ \A i \in 1..Len(r) : i = 1 \/ (i - 1 \in 1..Len(s) /\ r[i] = s[i - 1])
      /\ \A i \in 1..Len(s) : i + 1 \in 1..Len(r)
      /\ 1 \in 1..Len(r)
  <2>1. \A i \in 1..Len(r) : i = 1 \/ (i - 1 \in 1..Len(s) /\ (i - 1) + 1 = i)
        BY <1>2
  <2>2. \A i \in 1..Len(r) : i = 1 \/ (i - 1 \in 1..Len(s) /\ r[i] = s[i - 1])
        BY <1>2, <2>1
  <2>3. (\A i \in 1..Len(s) : i + 1 \in 1..Len(r)) /\ 1 \in 1..Len(r)
        BY <1>2
  <2> QED  BY <2>2, <2>3
<1>4. Promises(r) = Promise(t) \cup Promises(s)
  <2>1. \A p : p \in Promises(r) => p \in Promise(t) \cup Promises(s)
    <3>1. SUFFICES ASSUME NEW p, NEW i \in 1..Len(r), p \in Promise(r[i])
                   PROVE  p \in Promise(t) \cup Promises(s)
          BY DEF Promises
    <3>2. CASE i = 1
          BY <1>2, <3>1, <3>2
    <3>3. CASE i - 1 \in 1..Len(s) /\ r[i] = s[i - 1]
          BY <3>1, <3>3 DEF Promises
    <3> QED  BY <1>3, <3>2, <3>3
  <2>2. Promise(t) \subseteq Promises(r)
    <3>1. r[1] = t /\ 1 \in 1..Len(r)
          BY <1>2, <1>3
    <3> QED  BY <3>1 DEF Promises
  <2>3. Promises(s) \subseteq Promises(r)
    <3>1. SUFFICES ASSUME NEW p, NEW i \in 1..Len(s), p \in Promise(s[i]) PROVE p \in Promises(r)
          BY DEF Promises
    <3>2. r[i + 1] = s[i] /\ i + 1 \in 1..Len(r)
          BY <1>2, <1>3
    <3> QED  BY <3>1, <3>2 DEF Promises
  <2> QED  BY <2>1, <2>2, <2>3
<1>5. ASSUME NEW c, NEW K
      PROVE  AllKept(r, c, K) <=> Kept(t, c, K) /\ AllKept(s, c, K)
  <2>1. ASSUME AllKept(r, c, K) PROVE Kept(t, c, K) /\ AllKept(s, c, K)
    <3>1. Kept(t, c, K)
          BY <1>2, <1>3, <2>1 DEF AllKept
    <3>2. ASSUME NEW i \in 1..Len(s) PROVE Kept(s[i], c, K)
      <4>1. r[i + 1] = s[i] /\ i + 1 \in 1..Len(r)
            BY <1>2, <1>3
      <4>2. Kept(r[i + 1], c, K)
            BY <2>1, <4>1 DEF AllKept
      <4> QED  BY <4>1, <4>2
    <3> QED  BY <3>1, <3>2 DEF AllKept
  <2>2. ASSUME Kept(t, c, K), AllKept(s, c, K) PROVE AllKept(r, c, K)
    <3>1. SUFFICES ASSUME NEW i \in 1..Len(r) PROVE Kept(r[i], c, K)
          BY DEF AllKept
    <3>2. CASE i = 1
          BY <1>2, <2>2, <3>2
    <3>3. CASE i - 1 \in 1..Len(s) /\ r[i] = s[i - 1]
          BY <2>2, <3>3 DEF AllKept
    <3> QED  BY <1>3, <3>2, <3>3
  <2> QED  BY <2>1, <2>2
<1> QED  BY <1>4, <1>5 DEF r

\* The records of the switches below one that is open on top.
LEMMA SwitchOnTop ==
  ASSUME NEW s \in Seq(Tasks), NEW e \in Tasks, e.op = "endSwitch",
         NEW S, NEW sw \in Seq(S), NEW sv \in Seq(S), Len(sw) = Cardinality(SwitchesOf(s)),
         Len(sv) = Len(sw) + 1, \A i \in 1..Len(sw) : sv[i] = sw[i]
  PROVE  /\ SwitchesOf(<<e>> \o s) = SwitchesOf(s) \cup {Len(s) + 1}
         /\ \A h \in SwitchesOf(s) : /\ SwitchAt(<<e>> \o s, sv, h) = SwitchAt(s, sw, h)
                                     /\ Caller(<<e>> \o s, h) = Caller(s, h)
         /\ SwitchAt(<<e>> \o s, sv, Len(s) + 1) = sv[Len(sv)]
         /\ Caller(<<e>> \o s, Len(s) + 1) = e /\ Len(<<e>> \o s) = Len(s) + 1
         /\ EndsOwed(<<e>> \o s, sv) = EndsOwed(s, sw) \cup {<<Start(sv[Len(sv)].end), Then(e)>>}
<1> DEFINE r == <<e>> \o s
           W == SwitchesOf(s)
           top == Len(s) + 1
<1>0. IsOpen(e) /\ e.op \notin LoopTasks
      BY DEF IsOpen, LoopTasks
<1>1. /\ SwitchesOf(r) = W \cup {top} /\ Caller(r, top) = e /\ Len(r) = top
      /\ \A h \in 1..Len(s) : Caller(r, h) = Caller(s, h)
      BY <1>0, SwitchTop
<1>2. W \subseteq 1..Len(s) /\ IsFiniteSet(W) /\ Cardinality(W) \in Nat /\ Len(s) \in Nat
      BY FinitelyOpen
<1>3. Cardinality(W \cup {top}) = Cardinality(W) + 1
      BY <1>0, <1>1, SwitchTop
<1> HIDE DEF r, W
<1>4. ASSUME NEW h \in W
      PROVE  SwitchAt(r, sv, h) = SwitchAt(s, sw, h) /\ Caller(r, h) = Caller(s, h)
  <2>1. Cardinality(UpTo(W, h)) \in 1..Cardinality(W) /\ UpTo(W \cup {top}, h) = UpTo(W, h)
        BY <1>2, UpToIndex
  <2>2. sv[Cardinality(UpTo(W, h))] = sw[Cardinality(UpTo(W, h))]
        BY <2>1 DEF W
  <2>3. SwitchAt(r, sv, h) = sv[Cardinality(UpTo(W, h))]
        BY <1>1, <2>1 DEF SwitchAt
  <2>4. SwitchAt(s, sw, h) = sw[Cardinality(UpTo(W, h))]
        BY DEF SwitchAt, W
  <2> QED  BY <1>1, <1>2, <2>2, <2>3, <2>4
<1>5. SwitchAt(r, sv, top) = sv[Len(sv)]
  <2>1. UpTo(W \cup {top}, top) = W \cup {top}
        BY <1>2, UpToAll
  <2>2. Cardinality(UpTo(SwitchesOf(r), top)) = Len(sv)
        BY <1>1, <1>3, <2>1 DEF W
  <2> QED  BY <2>2 DEF SwitchAt
<1>6. EndsOwed(r, sv) = EndsOwed(s, sw) \cup {<<Start(sv[Len(sv)].end), Then(e)>>}
  <2> DEFINE f(h) == <<Start(SwitchAt(r, sv, h).end), Then(Caller(r, h))>>
             g(h) == <<Start(SwitchAt(s, sw, h).end), Then(Caller(s, h))>>
  <2>1. EndsOwed(r, sv) = {f(h) : h \in W \cup {top}}
        BY <1>1 DEF EndsOwed
  <2>2. EndsOwed(s, sw) = {g(h) : h \in W}
        BY DEF EndsOwed, W
  <2>3. \A h \in W : f(h) = g(h)
        BY <1>4
  <2>4. f(top) = <<Start(sv[Len(sv)].end), Then(e)>>
        BY <1>1, <1>5
  <2> HIDE DEF f, g
  <2> QED  BY <2>1, <2>2, <2>3, <2>4
<1> QED  BY <1>1, <1>4, <1>5, <1>6 DEF r, W

\* The case and default statements of a switch are inside its body.
LEMMA EntriesInside ==
  ASSUME prog \in Programs, NEW n \in DOMAIN prog.node, Node(n).kind = "switch",
         NEW kind, NEW c \in Entries(n, kind)
  PROVE  c \in Sub(Kid(n, 1)) /\ c \in DOMAIN prog.node /\ Node(c).kind = kind
<1> DEFINE A == Around(c, {"switch"})
<1>1. c \in DOMAIN prog.node /\ A # {} /\ Max(A) = n /\ Node(c).kind = kind
      BY DEF Entries, Innermost
<1>2. A \subseteq 0..c /\ c \in Nat
  <2>1. \A m \in DOMAIN prog.node : m \in Nat
        BY Program
  <2> QED  BY <1>1, <2>1 DEF Around
<1>3. PICK g \in A : \A k \in A : k <= g
      BY <1>1, <1>2, GreatestNumber
<1>4. A \subseteq Nat
      BY <1>2
<1>5. n \in A
      BY <1>3, <1>4, MaxIs, <1>1
<1>6. n < c /\ c \in Sub(n)
      BY <1>1, <1>5, AroundSub
<1>7. PICK i \in DOMAIN Node(n).kids : c \in Sub(Kid(n, i))
  <2>1. c # n /\ n \in Nat
        BY <1>2, <1>6, Program
  <2> QED  BY <1>6, <2>1, SubParts
<1>8. i = 1
  <2>1. Len(Node(n).kids) = 1
        BY NodeFacts DEF Arity, Leaves, Unary
  <2>2. DOMAIN Node(n).kids = 1..Len(Node(n).kids)
        BY Kids
  <2> HIDE DEF A
  <2>3. i \in 1..1
        BY <2>1, <2>2
  <2> QED  BY <2>3
<1> QED  BY <1>1, <1>7, <1>8

\* The code of a switch before its body: its expression, then a jump to the
\* block of its table; the body starts in a block of its own.
LEMMA SwitchBegins ==
  ASSUME Good(b, Instrs), ~b.filled, NEW n \in Nat, NEW dummy, dummy = Fresh(b, 1),
         NEW start, start = Fresh(b, 2),
         NEW bm, bm = SwitchToBlock(JumpToBlock(Ins(CreateBlocks(b, 3), Run(n)), dummy), start)
  PROVE  /\ Extends(b.code, bm.code) /\ Has(bm.code, Point(b), Run(n))
         /\ Hop(bm.code, <<Point(b)[1], Point(b)[2] + 1>>, Start(dummy))
         /\ Point(bm) = Start(start) /\ ~bm.filled
         /\ dummy \in Block /\ start \in Block /\ Fresh(b, 3) \in Block
<1> DEFINE c == CreateBlocks(b, 3)
           i == Ins(c, Run(n))
<1>1. /\ Good(c, Instrs) /\ ~c.filled /\ dummy \in Free(c) /\ start \in Free(c)
      /\ dummy \in Block /\ start \in Block /\ Fresh(b, 3) \in Block
  <2>1. 3 \in Nat /\ 1 \in 1..3 /\ 2 \in 1..3 /\ 3 \in 1..3
        OBVIOUS
  <2>2. /\ Good(c, Instrs) /\ c.filled = b.filled
        /\ \A m \in 1..3 : Fresh(b, m) \in Free(c) \ Free(b) /\ Fresh(b, m) \in Block
        BY <2>1, FreeCreate
  <2> QED  BY <2>1, <2>2
<1>2. Extends(b.code, c.code) /\ Point(c) = Point(b)
  <2>1. 3 \in Nat
        OBVIOUS
  <2> QED  BY <2>1, CreatePlace
<1> HIDE DEF c
<1>3. Run(n) \in Instrs /\ ~Terminates(Run(n))
      BY <1>1, InstrFacts
<1>4. Good(i, Instrs) /\ Free(c) \subseteq Free(i) /\ ~i.filled
      BY <1>1, <1>3, FreeIns
<1>5. /\ Extends(c.code, i.code) /\ Has(i.code, Point(b), Run(n))
      /\ Point(i) = <<Point(b)[1], Point(b)[2] + 1>>
      BY <1>1, <1>2, <1>3, InsPlace
<1> HIDE DEF i
<1>6. start \in Free(i)
      BY <1>1, <1>4
<1> DEFINE d == SwitchToBlock(JumpToBlock(i, dummy), start)
<1>7. /\ Extends(i.code, d.code) /\ Hop(d.code, Point(i), Start(dummy)) /\ Point(d) = Start(start)
      BY <1>1, <1>4, <1>6, JumpOpens
<1>8. bm = d
      BY DEF c, i
<1>9. ~d.filled
      BY DEF SwitchToBlock
<1> HIDE DEF d
<1> QED  BY <1>1, <1>2, <1>5, <1>7, <1>8, <1>9, Extending

\* An element at the end of a sequence.
LEMMA AppendTo ==
  ASSUME NEW S, NEW q \in Seq(S), NEW w \in S
  PROVE  /\ Append(q, w) \in Seq(S) /\ Len(Append(q, w)) = Len(q) + 1 /\ Len(q) \in Nat
         /\ Append(q, w)[Len(Append(q, w))] = w
         /\ \A i \in 1..Len(q) : Append(q, w)[i] = q[i]
OBVIOUS

\* What is ahead in a stack with a task on top, seen from below that task.
LEMMA AheadOver ==
  ASSUME NEW x \in Tasks, NEW us \in Seq(Tasks)
  PROVE  Ahead(x) \subseteq AheadOf(<<x>> \o us, Len(us))
<1>1. <<x>> \in Seq(Tasks) /\ Len(us) \in Nat /\ Len(us) <= Len(us)
      BY Single
<1>2. AheadOf(<<x>> \o us, Len(us)) = AheadIn(<<x>>) \cup AheadOf(us, Len(us))
      BY <1>1, AheadGlue
<1>3. Ahead(x) \subseteq AheadIn(<<x>>)
  <2>1. 1 \in 1..Len(<<x>>) /\ <<x>>[1] = x
        OBVIOUS
  <2> QED  BY <2>1 DEF AheadIn
<1> QED  BY <1>2, <1>3

\* A switch opened on top of a stack, and the statement of its body above it.
LEMMA SwitchRaised ==
  ASSUME NEW s \in Seq(Tasks), NEW x \in Tasks, x.op = "stmt", NEW e \in Tasks, e.op = "endSwitch",
         NEW sw \in Seq(SwitchSet), Len(sw) = Cardinality(SwitchesOf(s)), NEW w \in SwitchSet
  PROVE  /\ \A h \in SwitchesOf(<<x, e>> \o s) : h \in SwitchesOf(s) \/ h = Len(s) + 1
         /\ \A h \in SwitchesOf(s) :
              /\ SwitchAt(<<x, e>> \o s, Append(sw, w), h) = SwitchAt(s, sw, h)
              /\ Caller(<<x, e>> \o s, h) = Caller(s, h)
         /\ SwitchAt(<<x, e>> \o s, Append(sw, w), Len(s) + 1) = w
         /\ Caller(<<x, e>> \o s, Len(s) + 1) = e
         /\ EndsOwed(<<x, e>> \o s, Append(sw, w)) = EndsOwed(s, sw) \cup {<<Start(w.end), Then(e)>>}
         /\ Ahead(x) \subseteq AheadOf(<<x, e>> \o s, Len(s) + 1)
<1> DEFINE us == <<e>> \o s
           r == <<x, e>> \o s
           sv == Append(sw, w)
<1>1. r = <<x>> \o us /\ us \in Seq(Tasks) /\ <<x>> \in Seq(Tasks)
      BY Pair, Single
<1>2. /\ sv \in Seq(SwitchSet) /\ Len(sv) = Len(sw) + 1 /\ sv[Len(sv)] = w
      /\ \A i \in 1..Len(sw) : sv[i] = sw[i]
      BY AppendTo
<1> HIDE DEF sv
<1>3. /\ SwitchesOf(us) = SwitchesOf(s) \cup {Len(s) + 1}
      /\ \A h \in SwitchesOf(s) : /\ SwitchAt(us, sv, h) = SwitchAt(s, sw, h)
                                  /\ Caller(us, h) = Caller(s, h)
      /\ SwitchAt(us, sv, Len(s) + 1) = sv[Len(sv)]
      /\ Caller(us, Len(s) + 1) = e /\ Len(us) = Len(s) + 1
      /\ EndsOwed(us, sv) = EndsOwed(s, sw) \cup {<<Start(sv[Len(sv)].end), Then(e)>>}
      BY <1>2, SwitchOnTop, SMTT(30)
<1> HIDE DEF us, r
<1>4. /\ SwitchesOf(r) = SwitchesOf(us) /\ EndsOwed(r, sv) = EndsOwed(us, sv)
      /\ \A h \in SwitchesOf(us) :
           /\ Caller(r, h) = Caller(us, h)
           /\ SwitchAt(r, sv, h) = SwitchAt(us, sv, h)
  <2>1. \A i \in 1..Len(<<x>>) : <<x>>[i].op # "endSwitch"
        OBVIOUS
  <2>2. SwitchesOf(<<x>> \o us) = SwitchesOf(us) /\ EndsOwed(<<x>> \o us, sv) = EndsOwed(us, sv)
        BY <1>1, <2>1, OwedParts
  <2>3. \A h \in SwitchesOf(us) :
           /\ Caller(<<x>> \o us, h) = Caller(us, h)
           /\ SwitchAt(<<x>> \o us, sv, h) = SwitchAt(us, sv, h)
    <3>1. x.op # "endSwitch"
          OBVIOUS
    <3> QED  BY <1>1, <3>1, SwitchUnder
  <2> QED  BY <1>1, <2>2, <2>3
<1>5. Ahead(x) \subseteq AheadOf(r, Len(s) + 1)
      BY <1>1, <1>3, AheadOver
<1>6. \A h \in SwitchesOf(r) : h \in SwitchesOf(s) \/ h = Len(s) + 1
      BY <1>3, <1>4
<1>7. \A h \in SwitchesOf(s) : SwitchAt(r, sv, h) = SwitchAt(s, sw, h) /\ Caller(r, h) = Caller(s, h)
      BY <1>3, <1>4
<1>8. SwitchAt(r, sv, Len(s) + 1) = w /\ Caller(r, Len(s) + 1) = e
      BY <1>2, <1>3, <1>4
<1>9. EndsOwed(r, sv) = EndsOwed(s, sw) \cup {<<Start(w.end), Then(e)>>}
      BY <1>2, <1>3, <1>4
<1> QED  BY <1>5, <1>6, <1>7, <1>8, <1>9 DEF r, sv

\* A switch that opens: nothing of it is recorded yet, all its cases are ahead.
LEMMA SwitchOpens ==
  ASSUME Base, Running, Top.op = "stmt", Node(Top.node).kind = "switch",
         Stmt(Kid(Top.node, 1)) \in Tasks, NEW e \in Tasks, e.op = "endSwitch", e.node = Top.node,
         NEW w \in SwitchSet, w.cases = NoBlocks, w.default = 0,
         NEW K, NEW H, K \subseteq H, SwitchesKnown(todo, switches, K)
  PROVE  LET r  == <<Stmt(Kid(Top.node, 1)), e>> \o Tail(todo)
             sv == Append(switches, w)
         IN  /\ SwitchesKnown(r, sv, H)
             /\ EndsOwed(r, sv) = EndsOwed(Tail(todo), switches) \cup {<<Start(w.end), Then(e)>>}
<1> DEFINE n == Top.node
           s == Tail(todo)
           x == Stmt(Kid(n, 1))
           r == <<x, e>> \o s
           sv == Append(switches, w)
<1>1. /\ prog \in Programs /\ n \in DOMAIN prog.node /\ s \in Seq(Tasks) /\ todo = <<Top>> \o s
      /\ Top \in Tasks /\ switches \in Seq(SwitchSet) /\ x \in Tasks
      /\ n = Top.node /\ s = Tail(todo) /\ x = Stmt(Kid(n, 1)) /\ e.node = n /\ Node(n).kind = "switch"
      BY BaseTop DEF Base, IInv, ContextTypes
<1>2. Len(switches) = Cardinality(SwitchesOf(s))
  <2>1. ~IsOpen(Top)
        BY DEF IsOpen, LoopTasks
  <2>2. Mirrored(s, loops, switches, sawLoop)
        BY <2>1, AtTop DEF Base
  <2> QED  BY <1>1, <2>2 DEF Mirrored
<1>3. x.op = "stmt" /\ x.node = Kid(n, 1) /\ Top.op # "endSwitch"
      BY <1>1, ThenOf
<1>0. s \in Seq(Tasks) /\ x \in Tasks /\ x.op = "stmt" /\ switches \in Seq(SwitchSet)
      BY <1>1, <1>3
<1> HIDE DEF n, s, x
<1>4. /\ \A h \in SwitchesOf(r) : h \in SwitchesOf(s) \/ h = Len(s) + 1
      /\ \A h \in SwitchesOf(s) :
           SwitchAt(r, sv, h) = SwitchAt(s, switches, h) /\ Caller(r, h) = Caller(s, h)
      /\ SwitchAt(r, sv, Len(s) + 1) = w /\ Caller(r, Len(s) + 1) = e
      /\ EndsOwed(r, sv) = EndsOwed(s, switches) \cup {<<Start(w.end), Then(e)>>}
      /\ Ahead(x) \subseteq AheadOf(r, Len(s) + 1)
      BY <1>0, <1>2, SwitchRaised
<1> HIDE DEF sv, r
<1>5. Shape(Top, <<x, e>>)
  <2>1. 1 \in 1..2 /\ Part(Top, 1, e.op)
        BY DEF Part
  <2> DEFINE ts == <<x, e>>
  <2>2. e.node = Top.node /\ Stmt(Kid(Top.node, 1)) \in Tasks /\ ts = <<Stmt(Kid(Top.node, 1)), e>>
        BY DEF x, n
  <2> HIDE DEF ts
  <2>3. Shape(Top, ts)
        BY <1>1, <2>1, <2>2, Splitting
  <2> QED  BY <2>3 DEF ts
<1>6. SUFFICES ASSUME NEW h \in SwitchesOf(r)
               PROVE  SwitchKnown(Caller(r, h).node, SwitchAt(r, sv, h), AheadOf(r, h), H)
      BY <1>4 DEF SwitchesKnown, r, sv, s, x, n
<1>10. CASE h \in SwitchesOf(s)
  <2>1. /\ Caller(r, h) = Caller(s, h) /\ SwitchAt(r, sv, h) = SwitchAt(s, switches, h)
        BY <1>4, <1>10
  <2>2. h \in 0..Len(s)
    <3>1. h \in 1..Len(s) /\ Len(s) \in Nat
          BY <1>1, <1>10, FinitelyOpen
    <3> QED  BY <3>1
  <2>3. /\ h \in SwitchesOf(todo) /\ Caller(todo, h) = Caller(s, h)
        /\ SwitchAt(todo, switches, h) = SwitchAt(s, switches, h)
    <3>1. /\ h \in SwitchesOf(<<Top>> \o s) /\ Caller(<<Top>> \o s, h) = Caller(s, h)
          /\ SwitchAt(<<Top>> \o s, switches, h) = SwitchAt(s, switches, h)
          BY <1>1, <1>3, <1>10, SwitchUnder
    <3> QED  BY <1>1, <3>1, Zenon
  <2> DEFINE m == Caller(s, h).node
             A == AheadOf(todo, h)
             B == AheadOf(r, h)
  <2>4. SwitchKnown(m, SwitchAt(s, switches, h), A, K)
        BY <2>3 DEF SwitchesKnown
  <2>5. \A k \in A : k \in B \/ k = n
    <3> DEFINE ts == <<x, e>>
    <3>1. Shape(Top, ts) /\ ts \o Tail(todo) = r /\ h \in 0..Len(Tail(todo))
          BY <1>5, <2>2 DEF r, s
    <3>2. Top.op # "endFunction"
          OBVIOUS
    <3> HIDE DEF ts
    <3>3. \A k \in A : k \in B \/ k = Top.node
          BY <3>1, <3>2, AheadStays
    <3> QED  BY <3>3 DEF n
  <2>6. \A c, kind : c \in Entries(m, kind) /\ kind \in {"case", "default"} => c # n
        BY <1>1 DEF Entries
  <2>7. Entries(m, "case") \cap A \subseteq B /\ Entries(m, "default") \cap A \subseteq B
        BY <2>5, <2>6
  <2> HIDE DEF m, A, B
  <2>8. SwitchKnown(m, SwitchAt(s, switches, h), B, H)
        BY <2>4, <2>7, Extending, StillKept
  <2> QED  BY <2>1, <2>8 DEF m, B
<1>11. CASE h = Len(s) + 1
  <2> DEFINE B == AheadOf(r, h)
  <2>2. \A kind : Entries(n, kind) \subseteq B
    <3>4. Ahead(x) = Sub(Kid(n, 1))
          BY <1>3 DEF Ahead
    <3>5. \A kind : \A c \in Entries(n, kind) : c \in Sub(Kid(n, 1))
          BY <1>1, EntriesInside
    <3> HIDE DEF B
    <3> QED  BY <1>4, <1>11, <3>4, <3>5 DEF B
  <2>3. \A v \in Vals : w.cases[v] = 0
        BY DEF NoBlocks
  <2> HIDE DEF B
  <2>4. SwitchKnown(n, w, B, H)
        BY <2>2, <2>3 DEF SwitchKnown
  <2> QED  BY <1>1, <1>4, <1>11, <2>4 DEF B
<1> QED  BY <1>4, <1>6, <1>10, <1>11

\* The task that ends a switch.
LEMMA SwitchTask ==
  ASSUME NEW n \in Nat, NEW dummy \in Block, NEW saw \in BOOLEAN
  PROVE  LET e == Task("endSwitch", n, <<dummy>>, saw)
         IN  /\ e \in Tasks /\ e.op = "endSwitch" /\ e.node = n
             /\ Promise(e) = {<<Start(dummy), Pos(n, "table")>>}
<1> DEFINE e == Task("endSwitch", n, <<dummy>>, saw)
<1>1. <<dummy>> \in Seq(Block) /\ "endSwitch" \in TaskOps /\ <<dummy>>[1] = dummy
      BY DEF TaskOps
<1>2. e \in Tasks /\ e.op = "endSwitch" /\ e.node = n /\ e.blk = <<dummy>>
      BY <1>1 DEF Task, Tasks
<1> HIDE DEF e
<1>3. Promise(e) = {<<Start(dummy), Pos(n, "table")>>}
      BY <1>1, <1>2 DEF Promise
<1> QED  BY <1>2, <1>3 DEF e

\* What is owed with a switch open on top.
LEMMA SwitchOwed ==
  ASSUME NEW s \in Seq(Tasks), NEW t \in Tasks, t.op = "stmt", NEW x \in Tasks, x.op = "stmt",
         NEW e \in Tasks, NEW sw, NEW sv, EndsOwed(s, sw) \subseteq EndsOwed(<<x, e>> \o s, sv),
         NEW bl, NEW bm, ~bm.filled
  PROVE  /\ Owed(bl, <<t>> \o s, sw) \subseteq
              Current(bl, <<t>> \o s) \cup Owed(bm, <<x, e>> \o s, sv)
         /\ Promise(e) \subseteq Owed(bm, <<x, e>> \o s, sv)
         /\ <<Point(bm), NowOf(x)>> \in Owed(bm, <<x, e>> \o s, sv)
         /\ \A c, d, K, H : AllKept(<<t>> \o s, c, K) /\ Extends(c, d) /\ K \subseteq H
                            /\ e.op = "endSwitch" => AllKept(<<x, e>> \o s, d, H)
<1> DEFINE r == <<x, e>> \o s
           us == <<e>> \o s
           o == <<t>> \o s
<1>1. r = <<x>> \o us /\ us \in Seq(Tasks) /\ <<x, e>> \in Seq(Tasks) /\ <<t>> \in Seq(Tasks)
      BY Pair, TwoOf, Single
<1>2. /\ Promises(us) = Promise(e) \cup Promises(s)
      /\ \A c, K : AllKept(us, c, K) <=> Kept(e, c, K) /\ AllKept(s, c, K)
      BY OneMore
<1>3. /\ Promises(o) = Promise(t) \cup Promises(s)
      /\ \A c, K : AllKept(o, c, K) <=> Kept(t, c, K) /\ AllKept(s, c, K)
      BY OneMore
<1> HIDE DEF us
<1>4. /\ Promises(r) = Promise(x) \cup Promises(us)
      /\ \A c, K : AllKept(r, c, K) <=> Kept(x, c, K) /\ AllKept(us, c, K)
      BY <1>1, OneMore
<1>5. EndsOwed(o, sw) = EndsOwed(s, sw)
  <2>1. \A i \in 1..Len(<<t>>) : <<t>>[i].op # "endSwitch"
        OBVIOUS
  <2> QED  BY <1>1, <2>1, OwedParts, ZenonT(40)
<1>6. Promise(t) = {}
      BY DEF Promise
<1>7. <<Point(bm), NowOf(x)>> \in Owed(bm, r, sv)
  <2> DEFINE ts == <<x, e>>
  <2>1. ts # <<>> /\ ts[1] = x /\ ts \in Seq(Tasks)
        BY <1>1
  <2> HIDE DEF ts
  <2>2. <<Point(bm), NowOf(ts[1])>> \in Owed(bm, ts \o s, sv)
        BY <2>1, PushOwed
  <2> QED  BY <2>1, <2>2 DEF ts
<1> HIDE DEF r, o
<1>8. Owed(bl, o, sw) \subseteq Current(bl, o) \cup Owed(bm, r, sv)
  <2>1. EndsOwed(s, sw) \subseteq EndsOwed(r, sv)
        BY DEF r
  <2> QED  BY <1>2, <1>3, <1>4, <1>5, <1>6, <2>1 DEF Owed
<1>9. Promise(e) \subseteq Owed(bm, r, sv)
      BY <1>2, <1>4 DEF Owed
<1>10. ASSUME NEW c, NEW d, NEW K, NEW H, AllKept(o, c, K), Extends(c, d), K \subseteq H,
              e.op = "endSwitch"
       PROVE  AllKept(r, d, H)
  <2>1. AllKept(s, d, H)
    <3>1. \A u : Kept(u, c, K) => Kept(u, d, H)
          BY <1>10, StillKept
    <3>2. AllKept(s, c, K)
          BY <1>3, <1>10
    <3> QED  BY <3>1, <3>2 DEF AllKept
  <2>2. Kept(x, d, H) /\ Kept(e, d, H)
        BY <1>10 DEF Kept
  <2> QED  BY <1>2, <1>4, <2>1, <2>2
<1> QED  BY <1>7, <1>8, <1>9, <1>10 DEF r, o

\* A switch evaluates its expression and waits for its table; the body starts
\* where nothing leads yet.
LEMMA SwitchSim ==
  ASSUME Base, NEW K, Sim(b, todo, switches, labels, next, K), Switch
  PROVE  SimNext
<1> DEFINE n == Top.node
           s == Tail(todo)
           k == Kid(n, 1)
           x == Stmt(k)
           dummy == Fresh(b, 1)
           start == Fresh(b, 2)
           end == Fresh(b, 3)
           e == Task("endSwitch", n, <<dummy>>, sawLoop)
           w == [cases |-> NoBlocks, default |-> 0, end |-> end]
           r == <<x, e>> \o s
           sv == Append(switches, w)
           M == <<Point(b)[1], Point(b)[2] + 1>>
           table == Pos(n, "table")
           N == {<<M, table>>}
           Q == Owed(b', r, sv)
           H == (K \cup N) \cup Q
<1>1. /\ Compiling("switch") /\ b' = SwitchToBlock(JumpToBlock(Ins(CreateBlocks(b, 3), Run(n)), dummy), start)
      /\ switches' = sv /\ labels' = labels /\ todo' = r /\ prog' = prog /\ next' = next
      BY DEF Switch, Push, Frame, EnterSwitch
<1>2. /\ Running /\ n \in DOMAIN prog.node /\ n \in Nat /\ Node(n).kind = "switch"
      /\ ~b.filled /\ Top.op = "stmt"
      BY <1>1, CompilingFacts DEF JumpTargetKinds, Base
<1>3. /\ prog \in Programs /\ s \in Seq(Tasks) /\ todo = <<Top>> \o s /\ Good(b, Instrs) /\ n # 0
      /\ Top \in Tasks /\ sawLoop \in BOOLEAN
      BY <1>2, BaseTop DEF Base, IInv, ContextTypes
<1>4. /\ Extends(b.code, b'.code) /\ Has(b'.code, Point(b), Run(n))
      /\ Hop(b'.code, M, Start(dummy))
      /\ Point(b') = Start(start) /\ ~b'.filled
      /\ dummy \in Block /\ start \in Block /\ end \in Block
  <2> HIDE DEF n
  <2> QED  BY <1>1, <1>2, <1>3, SwitchBegins
<1>5. x \in Tasks /\ x.op = "stmt" /\ x.node = k
  <2>1. k \in DOMAIN prog.node
        BY <1>2, <1>3, KidFacts DEF Unary
  <2> QED  BY <1>3, <2>1, StmtFacts
<1> HIDE DEF dummy, start
<1>6. /\ e \in Tasks /\ e.op = "endSwitch" /\ e.node = n
      /\ Promise(e) = {<<Start(dummy), table>>}
  <2> HIDE DEF n
  <2> QED  BY <1>2, <1>3, <1>4, SwitchTask
<1> HIDE DEF e
<1>7. w \in SwitchSet /\ w.cases = NoBlocks /\ w.default = 0
  <2>1. NoBlocks \in Maps
        BY DEF NoBlocks, Maps
  <2> QED  BY <1>4, <2>1 DEF SwitchSet
<1> HIDE DEF w, end
<1>8. K \subseteq H /\ Q \subseteq H /\ <<M, table>> \in H
      OBVIOUS
<1>9. SwitchesKnown(r, sv, H) /\ EndsOwed(s, switches) \subseteq EndsOwed(r, sv)
  <2>1. SwitchesKnown(todo, switches, K)
        BY DEF Sim
  <2> HIDE DEF H
  <2>2. /\ SwitchesKnown(r, sv, H)
        /\ EndsOwed(r, sv) = EndsOwed(s, switches) \cup {<<Start(w.end), Then(e)>>}
        BY <1>2, <1>5, <1>6, <1>7, <1>8, <2>1, SwitchOpens
  <2> QED  BY <2>2
<1>10. \A L, q : <<L, q>> \in N => L = M /\ q = table
       OBVIOUS
<1> HIDE DEF N, H, M, table, x, s, sv
<1>11. /\ Owed(b, todo, switches) \subseteq Current(b, todo) \cup Q
       /\ Promise(e) \subseteq Q
       /\ AllKept(r, b'.code, H)
  <2>1. /\ Owed(b, <<Top>> \o s, switches) \subseteq Current(b, <<Top>> \o s) \cup Q
        /\ Promise(e) \subseteq Q
        /\ \A c, d : AllKept(<<Top>> \o s, c, K) /\ Extends(c, d) /\ K \subseteq H
                     /\ e.op = "endSwitch" => AllKept(r, d, H)
        BY <1>2, <1>3, <1>4, <1>5, <1>6, <1>9, SwitchOwed
  <2>2. AllKept(todo, b.code, K)
        BY DEF Sim
  <2> HIDE DEF r, Q
  <2> QED  BY <1>3, <1>4, <1>6, <1>8, <2>1, <2>2
<1> HIDE DEF r, Q
<1>12. OK(b'.code, Q, H, M, table)
  <2>1. ~Silent(table) /\ <<Start(dummy), table>> \in H
        BY <1>3, <1>6, <1>8, <1>11, AtParts DEF table
  <2> QED  BY <1>4, <2>1, Bearing
<1>13. OK(b'.code, Q, H, Point(b), Enter(n))
  <2>1. ~Silent(Enter(n)) /\ Observed(Enter(n)) = [op |-> "run", node |-> n]
        BY <1>2, <1>3, AtStatement
  <2>2. Run(n).op = "run" /\ Run(n).node = n
        BY DEF Run, Instr
  <2>3. \A v : Evaluated(Enter(n), v) = table /\ Goal(Run(n), Point(b), v) = M
        BY <1>2, <1>3, <2>2, Following DEF Goal, M, table
  <2>4. On(H, M, table)
        BY <1>8, Justifying
  <2> HIDE DEF n
  <2>5. /\ Run(n).op # "jump" /\ Observed(Enter(n)) = [op |-> Run(n).op, node |-> Run(n).node]
        /\ \A v \in Values(Enter(n)) : On(H, Goal(Run(n), Point(b), v), Evaluated(Enter(n), v))
        BY <2>1, <2>2, <2>3, <2>4
  <2> QED  BY <1>4, <2>1, <2>5, Bearing
<1>14. \A L, q : <<L, q>> \in Current(b, todo) => L = Point(b) /\ q = Enter(n)
  <2>1. NowOf(Top) = Enter(n)
        BY <1>2 DEF NowOf
  <2>2. Current(b, todo) = {<<Point(b), NowOf(Top)>>} \/ Current(b, todo) = {}
        BY DEF Current, Top
  <2> QED  BY <2>1, <2>2
<1> HIDE DEF n
<1>15. \A L, q : <<L, q>> \in Owed(b, todo, switches) \cup N => OK(b'.code, Q, H, L, q)
  <2>1. SUFFICES ASSUME NEW L, NEW q, <<L, q>> \in Owed(b, todo, switches) \cup N
                 PROVE  OK(b'.code, Q, H, L, q)
        OBVIOUS
  <2>2. CASE <<L, q>> \in Q
    <3>1. On(Q, L, q)
          BY <2>2, Justifying
    <3> QED  BY <3>1, Bearing
  <2>3. CASE <<L, q>> \in Current(b, todo)
        BY <1>13, <1>14, <2>3
  <2>4. CASE <<L, q>> \in N
        BY <1>10, <1>12, <2>4
  <2> QED  BY <1>11, <2>1, <2>2, <2>3, <2>4
<1>16. LabelsKnown(labels, next, H)
  <2>1. LabelsKnown(labels, next, K)
        BY DEF Sim
  <2> QED  BY <1>8, <2>1, Extending, StillKept
<1>17. Q = Owed(b', r, sv) /\ H = (K \cup N) \cup Q
       BY DEF Q, H
<1>18. Sim(b', r, sv, labels, next, H)
       BY <1>4, <1>9, <1>11, <1>15, <1>16, <1>17, GrowSim
<1> QED  BY <1>1, <1>18 DEF SimNext

\* The greatest of some nodes is one of them.
LEMMA LastOf ==
  ASSUME prog \in Programs, NEW S, S \subseteq DOMAIN prog.node, S # {}
  PROVE  Max(S) \in S
<1>1. S \subseteq Nat /\ S \subseteq 0..Len(prog.node) /\ Len(prog.node) \in Nat
  <2>1. DOMAIN prog.node = 1..Len(prog.node) /\ Len(prog.node) \in Nat
        BY Program
  <2> QED  BY <2>1
<1>2. PICK g \in S : \A k \in S : k <= g
      BY <1>1, GreatestNumber
<1>3. Max(S) = g
      BY <1>1, <1>2, MaxIs
<1> QED  BY <1>3

\* A table whose entries are all known leads to what the switch selects.
LEMMA Selecting ==
  ASSUME prog \in Programs, NEW n, NEW e, NEW K, NEW H, K \subseteq H, SwitchKnown(n, e, {}, K),
         NEW end, On(H, Start(end), Leave(n)), NEW v
  PROVE  LET other == IF e.default # 0 THEN e.default ELSE end
         IN  On(H, Start(IF v \in Vals /\ e.cases[v] # 0 THEN e.cases[v] ELSE other), Selected(n, v))
<1> DEFINE other == IF e.default # 0 THEN e.default ELSE end
           C == {c \in Entries(n, "case") : Node(c).val = v}
           D == Entries(n, "default")
           to == IF v \in Vals /\ e.cases[v] # 0 THEN e.cases[v] ELSE other
<1>1. C \subseteq DOMAIN prog.node /\ D \subseteq DOMAIN prog.node
      BY DEF Entries
<1>2. Selected(n, v) = IF C # {} THEN Enter(Max(C)) ELSE IF D # {} THEN Enter(Max(D)) ELSE Leave(n)
      BY DEF Selected
<1>3. \A c \in C : /\ c \in Entries(n, "case") /\ Node(c).val = v /\ v \in Vals
      BY <1>1 DEF Vals
<1>4. CASE C # {}
  <2>1. Max(C) \in C
        BY <1>1, <1>4, LastOf
  <2> DEFINE c == Max(C)
  <2> HIDE DEF C, c
  <2>2. c \in Entries(n, "case") /\ Node(c).val = v /\ v \in Vals
        BY <1>3, <2>1 DEF c
  <2>3. e.cases[v] # 0 /\ <<Start(e.cases[v]), Enter(c)>> \in K
        BY <2>2 DEF SwitchKnown
  <2>4. Selected(n, v) = Enter(c) /\ to = e.cases[v]
        BY <1>2, <1>4, <2>2, <2>3 DEF c
  <2> HIDE DEF to
  <2>5. On(H, Start(to), Selected(n, v))
        BY <2>3, <2>4, Justifying
  <2> QED  BY <2>5 DEF to
<1>5. CASE C = {}
  <2>1. to = other
    <3>1. SUFFICES ASSUME v \in Vals, e.cases[v] # 0 PROVE FALSE
          OBVIOUS
    <3>2. PICK c \in Entries(n, "case") : Node(c).val = v
          BY <3>1 DEF SwitchKnown
    <3> QED  BY <1>5, <3>2
  <2>2. CASE D # {}
    <3>1. Max(D) \in D
          BY <1>1, <2>2, LastOf
    <3> DEFINE c == Max(D)
    <3> HIDE DEF D, c
    <3>2. c \in Entries(n, "default")
          BY <3>1 DEF c, D
    <3>3. e.default # 0 /\ <<Start(e.default), Enter(c)>> \in K
          BY <3>2 DEF SwitchKnown
    <3>4. Selected(n, v) = Enter(c) /\ to = e.default
          BY <1>2, <1>5, <2>1, <2>2, <3>3 DEF c
    <3> HIDE DEF to, C
    <3>5. On(H, Start(to), Selected(n, v))
          BY <3>3, <3>4, Justifying
    <3> QED  BY <3>5 DEF to
  <2>3. CASE D = {}
    <3>1. e.default = 0
          BY <2>3 DEF SwitchKnown
    <3>2. Selected(n, v) = Leave(n) /\ to = end
          BY <1>2, <1>5, <2>1, <2>3, <3>1
    <3> HIDE DEF to, C, D
    <3>3. On(H, Start(to), Selected(n, v))
          BY <3>2
    <3> QED  BY <3>3 DEF to
  <2> QED  BY <2>2, <2>3
<1> QED  BY <1>4, <1>5

\* The code after the body of a switch: a jump to the block after it, where the
\* body falls through, and the table in its own block.
LEMMA SwitchCloses ==
  ASSUME Good(b, Instrs), NEW dummy \in Free(b), NEW end \in Free(b), end # dummy,
         NEW ins \in Instrs, Terminates(ins),
         NEW bm, bm = SwitchToBlock(Ins(SwitchToBlock(JumpToBlock(b, end), dummy), ins), end)
  PROVE  /\ Extends(b.code, bm.code) /\ Has(bm.code, Start(dummy), ins)
         /\ ~b.filled => Hop(bm.code, Point(b), Start(end))
         /\ Point(bm) = Start(end) /\ ~bm.filled
<1> DEFINE c == SwitchToBlock(JumpToBlock(b, end), dummy)
           d == SwitchToBlock(Ins(c, ins), end)
<1>0. end \in Block /\ dummy \in Block
      BY FreeFacts
<1>1. /\ Extends(b.code, c.code) /\ Point(c) = Start(dummy)
      /\ ~b.filled => Hop(c.code, Point(b), Start(end))
      BY <1>0, JumpOpens
<1>2. Good(c, Instrs) /\ ~c.filled /\ Free(b) \ {dummy} \subseteq Free(c)
      BY <1>0, JumpAndOpen
<1> HIDE DEF c
<1>3. end \in Free(c)
      BY <1>2
<1>4. Extends(c.code, d.code) /\ Has(d.code, Point(c), ins) /\ Point(d) = Start(end)
      BY <1>2, <1>3, InsOpens
<1>5. bm = d
      BY DEF c
<1>6. ~d.filled
      BY DEF SwitchToBlock
<1> HIDE DEF d
<1>7. ~b.filled => Hop(d.code, Point(b), Start(end))
      BY <1>1, <1>4, Leading
<1>8. Extends(b.code, d.code)
      BY <1>1, <1>4, Extending
<1> QED  BY <1>1, <1>4, <1>5, <1>6, <1>7, <1>8

\* The innermost switch at its end: its blocks are still to be opened.
LEMMA SwitchRecord ==
  ASSUME IInv, Running, Top.op = "endSwitch"
  PROVE  /\ switches \in Seq(SwitchSet) /\ switches # <<>> /\ Len(switches) \in Nat \ {0}
         /\ LastSwitch \in SwitchSet /\ LastSwitch.end \in Block
         /\ Top.blk[1] \in Free(b) /\ LastSwitch.end \in Free(b) /\ LastSwitch.end # Top.blk[1]
         /\ \A m : m = (IF LastSwitch.default # 0 THEN LastSwitch.default ELSE LastSwitch.end) =>
              /\ Table(Top.node, LastSwitch.cases, m) \in Instrs
              /\ Terminates(Table(Top.node, LastSwitch.cases, m))
<1> DEFINE last  == LastSwitch
           end   == last.end
           dummy == Top.blk[1]
<1>2. /\ Good(b, Instrs) /\ Top \in Tasks /\ Top.node \in Nat /\ dummy \in Free(b)
  <2>1. Opens(Top.op) = {1} /\ Top.op \notin Plain \cup {"endFunction"}
        BY DEF Opens, Plain
  <2> QED  BY <2>1, TopBlocks
<1>3. switches \in Seq(SwitchSet) /\ switches # <<>> /\ Len(switches) \in 1..Len(switches)
      /\ Len(switches) \in Nat \ {0}
  <2>1. switches \in Seq(SwitchSet) /\ Len(switches) > 0 /\ Len(switches) \in Nat
        BY TopFacts DEF IInv, ContextTypes
  <2> QED  BY <2>1, EmptySeq
<1>4. last \in SwitchSet /\ end \in Block
      BY <1>3, LastSwitchFacts
<1>5. end \in Free(b) /\ end # dummy
  <2> DEFINE s == Tail(todo)
  <2>1. Reserved(s, Free(b) \ Pending(Top), switches)
        BY TopFacts
  <2>2. Pending(Top) = {dummy}
        BY DEF Pending, Opens, Plain
  <2>3. end \in Free(b) \ Pending(Top)
        BY <1>3, <2>1 DEF Reserved, LastSwitch
  <2> QED  BY <2>2, <2>3
<1>6. \A m : m = (IF last.default # 0 THEN last.default ELSE end) => m \in Block
      BY <1>4 DEF Block, SwitchSet
<1>7. last.cases \in Maps
      BY <1>4 DEF SwitchSet
<1> HIDE DEF last, end
<1>8. \A m : m \in Block => Table(Top.node, last.cases, m) \in Instrs /\ Terminates(Table(Top.node, last.cases, m))
      BY <1>2, <1>7, InstrFacts
<1> QED  BY <1>2, <1>3, <1>4, <1>5, <1>6, <1>8 DEF last, end

\* The switches around the one that ends.
LEMMA SwitchLeft ==
  ASSUME NEW s \in Seq(Tasks), NEW e \in Tasks, e.op = "endSwitch",
         NEW sw \in Seq(SwitchSet), sw # <<>>, Len(sw) = Cardinality(SwitchesOf(<<e>> \o s))
  PROVE  LET sv == SubSeq(sw, 1, Len(sw) - 1)
         IN  /\ \A h \in SwitchesOf(s) : /\ SwitchAt(<<e>> \o s, sw, h) = SwitchAt(s, sv, h)
                                         /\ Caller(<<e>> \o s, h) = Caller(s, h)
                                         /\ h \in SwitchesOf(<<e>> \o s)
                                         /\ AheadOf(<<e>> \o s, h) = AheadOf(s, h)
             /\ Len(s) + 1 \in SwitchesOf(<<e>> \o s)
             /\ SwitchAt(<<e>> \o s, sw, Len(s) + 1) = sw[Len(sw)]
             /\ Caller(<<e>> \o s, Len(s) + 1) = e
             /\ AheadOf(<<e>> \o s, Len(s) + 1) = {}
             /\ EndsOwed(<<e>> \o s, sw) =
                  EndsOwed(s, sv) \cup {<<Start(sw[Len(sw)].end), Then(e)>>}
<1> DEFINE sv == SubSeq(sw, 1, Len(sw) - 1)
<1>1. /\ Len(sw) \in Nat /\ Len(sw) > 0 /\ sv \in Seq(SwitchSet) /\ Len(sw) = Len(sv) + 1
      /\ \A i \in 1..Len(sv) : sw[i] = sv[i]
  <2>1. Len(sw) \in Nat /\ Len(sw) > 0 /\ Len(sw) - 1 \in 0..Len(sw)
        BY EmptySeq
  <2>2. Len(sv) = Len(sw) - 1 /\ \A i \in 1..Len(sw) - 1 : sv[i] = sw[i]
        BY <2>1, FrontOf
  <2>3. sv \in Seq(SwitchSet)
        OBVIOUS
  <2> QED  BY <2>1, <2>2, <2>3
<1> HIDE DEF sv
<1>2. Len(sv) = Cardinality(SwitchesOf(s))
  <2>1. IsOpen(e) /\ e.op \notin LoopTasks
        BY DEF IsOpen, LoopTasks
  <2>2. Cardinality(SwitchesOf(<<e>> \o s)) = Cardinality(SwitchesOf(s)) + 1
        BY <2>1, SwitchTop
  <2>3. Cardinality(SwitchesOf(s)) \in Nat /\ Len(sv) \in Nat
        BY <1>1, FinitelyOpen
  <2> QED  BY <1>1, <2>2, <2>3
<1> DEFINE us == <<e>> \o s
           tops == sw[Len(sw)]
<1>3. /\ SwitchesOf(us) = SwitchesOf(s) \cup {Len(s) + 1}
      /\ \A h \in SwitchesOf(s) : /\ SwitchAt(us, sw, h) = SwitchAt(s, sv, h)
                                  /\ Caller(us, h) = Caller(s, h)
      /\ SwitchAt(us, sw, Len(s) + 1) = tops
      /\ Caller(us, Len(s) + 1) = e /\ Len(us) = Len(s) + 1
      /\ EndsOwed(us, sw) = EndsOwed(s, sv) \cup {<<Start(tops.end), Then(e)>>}
      BY <1>1, <1>2, SwitchOnTop, SMTT(30)
<1>4. <<e>> \in Seq(Tasks) /\ AheadIn(<<e>>) = {}
  <2>1. \A i \in 1..Len(<<e>>) : <<e>>[i] = e
        OBVIOUS
  <2>2. Ahead(e) = {}
        BY DEF Ahead
  <2>3. AheadIn(<<e>>) = {}
        BY <2>1, <2>2 DEF AheadIn
  <2> QED  BY <2>3, Single
<1>5. \A h \in SwitchesOf(s) : AheadOf(us, h) = AheadOf(s, h)
  <2> TAKE h \in SwitchesOf(s)
  <2>1. h \in Nat /\ h <= Len(s)
    <3>1. h \in 1..Len(s) /\ Len(s) \in Nat
          BY FinitelyOpen
    <3> QED  BY <3>1
  <2>2. AheadOf(us, h) = AheadIn(<<e>>) \cup AheadOf(s, h)
        BY <1>4, <2>1, AheadGlue
  <2> QED  BY <1>4, <2>2
<1>6. AheadOf(us, Len(s) + 1) = {}
  <2>1. Len(us) \in Nat /\ Len(us) + 1..Len(us) = {}
        BY <1>3
  <2> HIDE DEF us
  <2>2. AheadOf(us, Len(us)) = {}
        BY <2>1 DEF AheadOf
  <2> QED  BY <1>3, <2>2
<1> HIDE DEF us, tops
<1> QED  BY <1>3, <1>5, <1>6 DEF us, tops, sv

\* The end of a switch: what the body and the breaks reach, and the table.
LEMMA EndSwitchSim ==
  ASSUME Base, NEW K, Sim(b, todo, switches, labels, next, K), EndSwitch
  PROVE  SimNext
<1> DEFINE n == Top.node
           s == Tail(todo)
           last == LastSwitch
           end == last.end
           other == IF last.default # 0 THEN last.default ELSE end
           dummy == Top.blk[1]
           ins == Table(n, last.cases, other)
           sv == SubSeq(switches, 1, Len(switches) - 1)
           table == Pos(n, "table")
           Q == Owed(b', s, sv)
           H == (K \cup {}) \cup Q
<1>1. /\ Running /\ Top.op = "endSwitch"
      /\ b' = SwitchToBlock(Ins(SwitchToBlock(JumpToBlock(b, end), dummy), ins), end)
      /\ switches' = sv /\ todo' = s /\ Pop
      /\ next' = next /\ labels' = labels
      BY DEF EndSwitch, At, Frame, ExitSwitch, Pop
<1>2. /\ prog \in Programs /\ n \in DOMAIN prog.node /\ n # 0 /\ Good(b, Instrs)
      /\ s \in Seq(Tasks) /\ Top \in Tasks /\ todo = <<Top>> \o s /\ s # <<>>
      BY <1>1, BaseTop
<1>3. /\ switches \in Seq(SwitchSet) /\ switches # <<>> /\ Len(switches) \in Nat \ {0}
      /\ dummy \in Free(b) /\ end \in Free(b) /\ end # dummy
      /\ ins \in Instrs /\ Terminates(ins) /\ last = switches[Len(switches)]
      BY <1>1, SwitchRecord DEF Base, LastSwitch
<1>4. Len(switches) = Cardinality(SwitchesOf(<<Top>> \o s))
      BY <1>1, AtTop DEF Base, Mirrored
<1>5. ins.op = "table" /\ ins.node = n /\ ins.to = <<other>> /\ ins.cases = last.cases
      BY DEF Table, Instr
<1> HIDE DEF other
<1>6. /\ Extends(b.code, b'.code) /\ Has(b'.code, Start(dummy), ins)
      /\ ~b.filled => Hop(b'.code, Point(b), Start(end))
      /\ Point(b') = Start(end) /\ ~b'.filled
  <2> HIDE DEF n, ins, dummy, end
  <2> QED  BY <1>1, <1>2, <1>3, SwitchCloses
<1> HIDE DEF ins, last
<1>7. /\ \A h \in SwitchesOf(s) : /\ SwitchAt(todo, switches, h) = SwitchAt(s, sv, h)
                                  /\ Caller(todo, h) = Caller(s, h)
                                  /\ h \in SwitchesOf(todo)
                                  /\ AheadOf(todo, h) = AheadOf(s, h)
      /\ Len(s) + 1 \in SwitchesOf(todo)
      /\ SwitchAt(todo, switches, Len(s) + 1) = last
      /\ Caller(todo, Len(s) + 1) = Top
      /\ AheadOf(todo, Len(s) + 1) = {}
      /\ EndsOwed(todo, switches) = EndsOwed(s, sv) \cup {<<Start(end), Then(Top)>>}
  <2>1. LET us == <<Top>> \o s
        IN  /\ \A h \in SwitchesOf(s) : /\ SwitchAt(us, switches, h) = SwitchAt(s, sv, h)
                                        /\ Caller(us, h) = Caller(s, h)
                                        /\ h \in SwitchesOf(us)
                                        /\ AheadOf(us, h) = AheadOf(s, h)
            /\ Len(s) + 1 \in SwitchesOf(us)
            /\ SwitchAt(us, switches, Len(s) + 1) = switches[Len(switches)]
            /\ Caller(us, Len(s) + 1) = Top
            /\ AheadOf(us, Len(s) + 1) = {}
            /\ EndsOwed(us, switches) =
                 EndsOwed(s, sv) \cup {<<Start(switches[Len(switches)].end), Then(Top)>>}
    <3> HIDE DEF s
    <3> QED  BY <1>1, <1>2, <1>3, <1>4, SwitchLeft
  <2> HIDE DEF s, sv
  <2> QED  BY <1>2, <1>3, <2>1
<1>8. SwitchKnown(n, last, {}, K) /\ SwitchesKnown(todo, switches, K)
  <2>1. SwitchesKnown(todo, switches, K)
        BY DEF Sim
  <2> HIDE DEF s
  <2>2. SwitchKnown(Caller(todo, Len(s) + 1).node, SwitchAt(todo, switches, Len(s) + 1),
                    AheadOf(todo, Len(s) + 1), K)
        BY <1>7, <2>1 DEF SwitchesKnown
  <2> QED  BY <1>7, <2>1, <2>2
<1>9. K \subseteq H /\ Q \subseteq H /\ Q = Owed(b', todo', sv)
      BY <1>1
<1> HIDE DEF Q, H, sv, s
<1>10. SwitchesKnown(s, sv, H)
  <2>1. SUFFICES ASSUME NEW h \in SwitchesOf(s)
                 PROVE  SwitchKnown(Caller(s, h).node, SwitchAt(s, sv, h), AheadOf(s, h), H)
        BY DEF SwitchesKnown
  <2>2. SwitchKnown(Caller(s, h).node, SwitchAt(s, sv, h), AheadOf(s, h), K)
    <3>1. SwitchKnown(Caller(todo, h).node, SwitchAt(todo, switches, h), AheadOf(todo, h), K)
          BY <1>7, <1>8 DEF SwitchesKnown
    <3> QED  BY <1>7, <3>1
  <2> QED  BY <1>9, <2>2, Extending, StillKept
<1>11. AllKept(s, b'.code, H) /\ Promises(todo) = Promise(Top) \cup Promises(s)
  <2>1. /\ Promises(todo) = Promise(Top) \cup Promises(s)
        /\ \A c, X : AllKept(todo, c, X) <=> Kept(Top, c, X) /\ AllKept(s, c, X)
        BY <1>2, OneMore
  <2>2. AllKept(s, b.code, K)
        BY <2>1 DEF Sim
  <2>3. \A u : Kept(u, b.code, K) => Kept(u, b'.code, H)
        BY <1>6, <1>9, StillKept
  <2> QED  BY <2>1, <2>2, <2>3 DEF AllKept
<1>12. /\ On(Q, Start(end), Then(Top)) /\ On(Q, Start(end), Leave(n))
       /\ Then(Top) = Silently(Leave(n))
  <2>1. Top.op # "endFunction" /\ Top.op # "post" /\ Owed(b', todo', sv) \subseteq Q
        BY <1>1, <1>9
  <2>2. On(Q, Point(b'), Then(Top)) /\ On(Q, Point(b'), Leave(Top.node))
        BY <1>1, <1>6, <2>1, AfterPop
  <2> QED  BY <1>6, <2>1, <2>2, ThenOf
<1>13. OK(b'.code, Q, H, Start(dummy), table)
  <2>1. ~Silent(table) /\ Observed(table) = [op |-> "table", node |-> n]
        BY <1>2, AtParts DEF table
  <2>2. \A v : On(H, Goal(ins, Start(dummy), v), Evaluated(table, v))
    <3> TAKE v
    <3>1. Evaluated(table, v) = Selected(n, v)
          BY <1>2, Following DEF table
    <3>2. Goal(ins, Start(dummy), v) =
            Start(IF v \in Vals /\ last.cases[v] # 0 THEN last.cases[v] ELSE other)
          BY <1>5 DEF Goal
    <3>3. On(H, Start(end), Leave(n))
          BY <1>9, <1>12, Justifying
    <3> HIDE DEF n, table, dummy
    <3>4. On(H, Start(IF v \in Vals /\ last.cases[v] # 0 THEN last.cases[v] ELSE other), Selected(n, v))
          BY <1>2, <1>8, <1>9, <3>3, Selecting DEF other
    <3> QED  BY <3>1, <3>2, <3>4
  <2>3. ins.op # "jump" /\ Observed(table) = [op |-> ins.op, node |-> ins.node]
        BY <1>5, <2>1
  <2> HIDE DEF n, table, dummy
  <2> QED  BY <1>6, <2>1, <2>2, <2>3, Bearing
<1>14. ~b.filled => OK(b'.code, Q, H, Point(b), NowOf(Top))
  <2>1. NowOf(Top) = Leave(n) /\ Silent(Leave(n))
        BY <1>1, <1>2, AfterStatement DEF NowOf
  <2>2. On(H, Start(end), Silently(Leave(n)))
        BY <1>9, <1>12, Justifying
  <2> QED  BY <1>6, <2>1, <2>2, Bearing
<1>15. Promise(Top) = {<<Start(dummy), table>>}
       BY <1>1 DEF Promise
<1>16. Promises(s) \subseteq Q /\ EndsOwed(s, sv) \subseteq Q
       BY <1>1 DEF Q, Owed
<1>17. \A L, q : <<L, q>> \in Current(b, todo) => ~b.filled /\ L = Point(b) /\ q = NowOf(Top)
       BY DEF Current, Top
<1> HIDE DEF n, table, dummy
<1>18. \A L, q : <<L, q>> \in Owed(b, todo, switches) \cup {} => OK(b'.code, Q, H, L, q)
  <2>1. SUFFICES ASSUME NEW L, NEW q, <<L, q>> \in Owed(b, todo, switches)
                 PROVE  OK(b'.code, Q, H, L, q)
        OBVIOUS
  <2>2. CASE <<L, q>> \in Q
    <3>1. On(Q, L, q)
          BY <2>2, Justifying
    <3> QED  BY <3>1, Bearing
  <2>3. CASE <<L, q>> \in Current(b, todo)
        BY <1>14, <1>17, <2>3
  <2>4. CASE L = Start(dummy) /\ q = table
        BY <1>13, <2>4
  <2>5. CASE L = Start(end) /\ q = Then(Top)
        BY <1>12, <2>5, Bearing
  <2>6. \/ <<L, q>> \in Current(b, todo) \/ <<L, q>> \in Q
        \/ (L = Start(dummy) /\ q = table) \/ (L = Start(end) /\ q = Then(Top))
    <3>1. \/ <<L, q>> \in Current(b, todo) \/ <<L, q>> \in Promises(todo)
          \/ <<L, q>> \in EndsOwed(todo, switches)
          BY <2>1 DEF Owed
    <3>2. <<L, q>> \in Promises(todo) => <<L, q>> \in Q \/ <<L, q>> = <<Start(dummy), table>>
          BY <1>11, <1>15, <1>16
    <3>3. <<L, q>> \in EndsOwed(todo, switches) => <<L, q>> \in Q \/ <<L, q>> = <<Start(end), Then(Top)>>
          BY <1>7, <1>16
    <3> QED  BY <3>1, <3>2, <3>3
  <2> QED  BY <2>2, <2>3, <2>4, <2>5, <2>6
<1>19. LabelsKnown(labels, next, H)
  <2>1. LabelsKnown(labels, next, K)
        BY DEF Sim
  <2> QED  BY <1>9, <2>1, Extending, StillKept
<1>20. Q = Owed(b', s, sv) /\ H = (K \cup {}) \cup Q
       BY DEF Q, H
<1>21. Sim(b', s, sv, labels, next, H)
       BY <1>6, <1>10, <1>11, <1>18, <1>19, <1>20, GrowSim
<1> QED  BY <1>1, <1>21 DEF SimNext


\* Where a case or default starts when it does not share its block with code before it.
LEMMA EntryPlace ==
  ASSUME Good(b, Instrs), ~b.filled => b.code[b.cur] = <<>>
  PROVE  /\ Extends(b.code, AtEntry.code) /\ Point(AtEntry) = Start(EntryBlock)
         /\ ~AtEntry.filled /\ EntryBlock \in Block
         /\ ~b.filled => Point(b) = Start(EntryBlock)
<1>1. CASE b.filled
  <2> DEFINE k == Fresh(b, 1)
             bm == SwitchToBlock(JumpToBlock(CreateBlocks(b, 1), k), k)
  <2>1. k = Fresh(b, 1) /\ bm = SwitchToBlock(JumpToBlock(CreateBlocks(b, 1), k), k)
        OBVIOUS
  <2>2. AtEntry = bm /\ EntryBlock = k
        BY <1>1 DEF AtEntry, EntryBlock
  <2> HIDE DEF k, bm
  <2>3. Extends(b.code, bm.code) /\ Point(bm) = Start(k) /\ ~bm.filled /\ k \in Block
        BY <2>1, OpenPlace
  <2> QED  BY <1>1, <2>2, <2>3
<1>2. CASE ~b.filled
  <2>1. AtEntry = b /\ EntryBlock = b.cur
        BY <1>2 DEF AtEntry, EntryBlock
  <2>2. Len(<<>>) = 0
        OBVIOUS
  <2>3. Point(b) = Start(b.cur)
        BY <1>2, <2>2 DEF Point, Start
  <2>4. b.cur \in Block
        BY FreeFacts
  <2> QED  BY <1>2, <2>1, <2>3, <2>4, Extending
<1> QED  BY <1>1, <1>2

\* The record of the innermost switch is the last one; replacing it touches no other.
LEMMA TopSwitch ==
  ASSUME NEW s \in Seq(Tasks), NEW sw \in Seq(SwitchSet), sw # <<>>,
         Len(sw) = Cardinality(SwitchesOf(s)), NEW w \in SwitchSet, w.end = sw[Len(sw)].end
  PROVE  LET sv == [sw EXCEPT ![Len(sw)] = w]
         IN  /\ EndsOwed(s, sv) = EndsOwed(s, sw)
             /\ \E g \in SwitchesOf(s) :
                  /\ \A h \in SwitchesOf(s) : h <= g
                  /\ SwitchAt(s, sw, g) = sw[Len(sw)] /\ SwitchAt(s, sv, g) = w
                  /\ \A h \in SwitchesOf(s) : h # g => SwitchAt(s, sv, h) = SwitchAt(s, sw, h)
<1> DEFINE sv == [sw EXCEPT ![Len(sw)] = w]
           S == SwitchesOf(s)
           c == Cardinality(S)
<1>1. /\ S \subseteq 1..Len(s) /\ IsFiniteSet(S) /\ c \in Nat /\ Len(s) \in Nat
      BY FinitelyOpen
<1>2. Len(sw) \in Nat /\ Len(sw) # 0 /\ DOMAIN sw = 1..Len(sw)
      OBVIOUS
<1>3. c = Len(sw) /\ c # 0
      BY <1>2
<1>4. S # {}
      BY <1>1, <1>3, FS_EmptySet
<1>5. sv[c] = w /\ \A i \in 1..c : i # c => sv[i] = sw[i]
      BY <1>2, <1>3
<1> DEFINE place(h) == Cardinality(UpTo(S, h))
<1>6. \A h \in S : place(h) \in 1..c
      BY <1>1, UpToIndex
<1>7. /\ \A h : SwitchAt(s, sv, h) = sv[place(h)] /\ SwitchAt(s, sw, h) = sw[place(h)]
      /\ c = Len(sw)
      BY <1>3 DEF SwitchAt
<1> HIDE DEF S
<1>8. PICK g \in S : \A h \in S : h <= g
  <2>1. S \subseteq 0..Len(s)
        BY <1>1
  <2> QED  BY <1>1, <1>4, <2>1, GreatestNumber
<1>9. place(g) = c
  <2>1. UpTo(S, g) = S
        BY <1>8 DEF UpTo
  <2> QED  BY <2>1
<1>10. ASSUME NEW h \in S, h # g
       PROVE  place(h) \in 1..c /\ place(h) # c
  <2>1. UpTo(S, h) \subseteq S \ {g}
    <3>1. h \in Nat /\ g \in Nat /\ h <= g
          BY <1>1, <1>8
    <3>2. ~(g <= h)
          BY <1>10, <3>1
    <3> QED  BY <3>2 DEF UpTo
  <2>2. Cardinality(S \ {g}) = c - 1 /\ IsFiniteSet(S \ {g})
        BY <1>1, <1>8, FS_RemoveElement
  <2>3. Cardinality(UpTo(S, h)) <= Cardinality(S \ {g})
        BY <2>1, <2>2, FS_Subset
  <2>4. place(h) <= c - 1
        BY <2>2, <2>3
  <2>5. place(h) \in 1..c
        BY <1>6
  <2> HIDE DEF place, c
  <2> QED  BY <1>1, <2>4, <2>5
<1> HIDE DEF place, sv, c
<1>11. /\ SwitchAt(s, sw, g) = sw[Len(sw)] /\ SwitchAt(s, sv, g) = w
       /\ \A h \in S : h # g => SwitchAt(s, sv, h) = SwitchAt(s, sw, h)
       BY <1>5, <1>7, <1>9, <1>10
<1>12. \A h \in S : SwitchAt(s, sv, h).end = SwitchAt(s, sw, h).end
       BY <1>11
<1>13. EndsOwed(s, sv) = EndsOwed(s, sw)
       BY <1>12 DEF EndsOwed, S
<1> QED  BY <1>8, <1>11, <1>13 DEF sv, S


\* A case belongs to the innermost switch whose body is being compiled, and to no other.
LEMMA CaseInside ==
  ASSUME Base, Running, Top.op = "stmt", Node(Top.node).kind \in {"case", "default"},
         NEW g \in SwitchesOf(Tail(todo)), \A h \in SwitchesOf(Tail(todo)) : h <= g
  PROVE  /\ Top.node \in Entries(Caller(Tail(todo), g).node, Node(Top.node).kind)
         /\ \A h \in SwitchesOf(Tail(todo)) : h # g =>
              \A kind : Top.node \notin Entries(Caller(Tail(todo), h).node, kind)
<1> DEFINE s == Tail(todo)
           c == Top.node
           ops == {"endSwitch"}
           K == {"switch"}
<1>1. ~IsOpen(Top) /\ Breaking(Top) /\ s = Tail(todo) /\ Top.op # "endFunction"
      BY DEF IsOpen, Breaking, LoopTasks
<1>2. prog \in Programs /\ c \in DOMAIN prog.node
      BY <1>1, BaseTop
<1> HIDE DEF s
<1>3. /\ s \in Seq(Tasks) /\ Nest(s) /\ Kindly(s) /\ \A i \in 1..Len(s) : TaskOK(s[i], prog)
      /\ Around(c, Breakable) = OpenNodes(s, Len(s))
      BY <1>1, TopInside
<1>4. \A t \in Tasks : OfKind(t) => (t.op \in ops <=> IsOpen(t) /\ Node(t.node).kind \in K)
      BY DEF OfKind, IsOpen, LoopTasks
<1>5. K \subseteq Breakable
      BY DEF Breakable
<1>6. OpenAt(s, ops) = SwitchesOf(s)
      BY DEF SwitchesOf
<1> HIDE DEF ops, K
<1>7. g \in OpenAt(s, ops) /\ \A l \in OpenAt(s, ops) : l <= g
      BY <1>6 DEF s
<1>8. g \in OpenAt(s, ops) /\ c \in DOMAIN prog.node
      BY <1>7, <1>2
<1> HIDE DEF c
<1>9. Innermost(c, K) = Caller(s, g).node /\ Around(c, K) # {}
      BY <1>2, <1>3, <1>4, <1>5, <1>7, <1>8, InnermostAt
<1>10. ASSUME NEW h \in SwitchesOf(s), h # g
       PROVE  Caller(s, h).node # Caller(s, g).node
  <2>1. h \in 1..Len(s) /\ g \in 1..Len(s) /\ Len(s) \in Nat /\ h <= g
    <3>1. SwitchesOf(s) \subseteq 1..Len(s) /\ Len(s) \in Nat
          BY <1>3, FinitelyOpen
    <3> QED  BY <3>1, <1>6, <1>7
  <2>2. h \in 1..g - 1
        BY <2>1, <1>10
  <2>3. IsOpen(Caller(s, h)) /\ IsOpen(Caller(s, g))
        BY <1>6, <1>7 DEF SwitchesOf, OpenAt, IsOpen
  <2>4. Around(Caller(s, g).node, Breakable) = OpenNodes(s, g - 1)
        BY <1>3, <2>1, <2>3 DEF Nest
  <2>5. Caller(s, h).node \in OpenNodes(s, g - 1)
        BY <2>2, <2>3 DEF OpenNodes
  <2>6. Caller(s, h).node \in DOMAIN prog.node /\ Caller(s, h).node < Caller(s, g).node
        BY <2>4, <2>5 DEF Around
  <2>7. Caller(s, h).node \in Nat
        BY <1>2, <2>6, NodeFacts
  <2> QED  BY <2>6, <2>7
<1> QED  BY <1>2, <1>9, <1>10 DEF Entries, s, K, c

\* The record of a switch after one of its cases.
LEMMA CaseRecord ==
  ASSUME NEW n, NEW e \in SwitchSet, NEW c \in Entries(n, "case"), e.cases[Node(c).val] = 0,
         NEW blk \in Block, NEW K, NEW H, K \subseteq H, <<Start(blk), Enter(c)>> \in H,
         NEW A, SwitchKnown(n, e, A, K), NEW B, \A m \in A : m \in B \/ m = c
  PROVE  LET w == [e EXCEPT !.cases[Node(c).val] = blk]
         IN  w \in SwitchSet /\ w.end = e.end /\ SwitchKnown(n, w, B, H)
<1> DEFINE v == Node(c).val
           w == [e EXCEPT !.cases[v] = blk]
<1>1. /\ c \in DOMAIN prog.node /\ Node(c).kind = "case" /\ v \in Vals /\ blk # 0 /\ blk \in Nat
      BY DEF Entries, Vals, Block
<1>2. e.cases \in [Vals -> Nat] /\ e.default \in Nat /\ e.end \in Block
      BY DEF SwitchSet, Maps
<1>3. /\ w = [cases |-> [e.cases EXCEPT ![v] = blk], default |-> e.default, end |-> e.end]
      BY DEF SwitchSet
<1>4. w.default = e.default /\ w.end = e.end /\ w.cases = [e.cases EXCEPT ![v] = blk]
      BY <1>3
<1>5. w.cases \in [Vals -> Nat] /\ w.cases[v] = blk /\ \A u \in Vals : u # v => w.cases[u] = e.cases[u]
      BY <1>1, <1>2, <1>4
<1>6. w \in SwitchSet
      BY <1>2, <1>3, <1>4, <1>5 DEF SwitchSet, Maps
<1>7. \A m \in Entries(n, "case") : Node(m).val \in Vals /\ m \in DOMAIN prog.node
      BY DEF Entries, Vals
<1> HIDE DEF w
<1>8. ASSUME NEW m \in Entries(n, "case")
      PROVE  \/ m \in B
             \/ w.cases[Node(m).val] # 0 /\ <<Start(w.cases[Node(m).val]), Enter(m)>> \in H
  <2>1. CASE m = c
        BY <1>1, <1>5, <2>1
  <2>2. CASE m # c
    <3>1. CASE m \in A
          BY <2>2, <3>1
    <3>2. CASE m \notin A
      <4>1. e.cases[Node(m).val] # 0 /\ <<Start(e.cases[Node(m).val]), Enter(m)>> \in K
            BY <3>2 DEF SwitchKnown
      <4>2. Node(m).val # v /\ Node(m).val \in Vals
            BY <4>1, <1>7
      <4>3. w.cases[Node(m).val] = e.cases[Node(m).val]
            BY <4>2, <1>5
      <4> QED  BY <4>1, <4>3
    <3> QED  BY <3>1, <3>2
  <2> QED  BY <2>1, <2>2
<1>9. ASSUME NEW m \in Entries(n, "default")
      PROVE  m \in B \/ (w.default # 0 /\ <<Start(w.default), Enter(m)>> \in H)
  <2>1. m # c
        BY <1>1 DEF Entries
  <2>2. m \in A \/ (e.default # 0 /\ <<Start(e.default), Enter(m)>> \in K)
        BY DEF SwitchKnown
  <2> QED  BY <1>4, <2>1, <2>2
<1>10. ASSUME NEW u \in Vals, w.cases[u] # 0
       PROVE  \E m \in Entries(n, "case") : Node(m).val = u
  <2>1. CASE u = v
        BY <2>1
  <2>2. CASE u # v
    <3>1. e.cases[u] # 0
          BY <1>5, <1>10, <2>2
    <3> HIDE DEF v
    <3> QED  BY <3>1 DEF SwitchKnown
  <2> QED  BY <2>1, <2>2
<1>11. w.default # 0 => Entries(n, "default") # {}
       BY <1>4 DEF SwitchKnown
<1>12. SwitchKnown(n, w, B, H)
       BY <1>8, <1>9, <1>10, <1>11 DEF SwitchKnown
<1> QED  BY <1>4, <1>6, <1>12 DEF w

\* The record of a switch after its default.
LEMMA DefaultRecord ==
  ASSUME NEW n, NEW e \in SwitchSet, NEW c \in Entries(n, "default"), e.default = 0,
         NEW blk \in Block, NEW K, NEW H, K \subseteq H, <<Start(blk), Enter(c)>> \in H,
         NEW A, SwitchKnown(n, e, A, K), NEW B, \A m \in A : m \in B \/ m = c
  PROVE  LET w == [e EXCEPT !.default = blk]
         IN  w \in SwitchSet /\ w.end = e.end /\ SwitchKnown(n, w, B, H)
<1> DEFINE w == [e EXCEPT !.default = blk]
<1>1. c \in DOMAIN prog.node /\ Node(c).kind = "default" /\ blk # 0 /\ blk \in Nat
      BY DEF Entries, Block
<1>2. e.cases \in Maps /\ e.default \in Nat /\ e.end \in Block
      BY DEF SwitchSet
<1>3. w = [cases |-> e.cases, default |-> blk, end |-> e.end]
      BY DEF SwitchSet
<1>4. w.default = blk /\ w.end = e.end /\ w.cases = e.cases
      BY <1>3
<1>5. w \in SwitchSet
      BY <1>1, <1>2, <1>3 DEF SwitchSet
<1> HIDE DEF w
<1>6. ASSUME NEW m \in Entries(n, "case")
      PROVE  \/ m \in B
             \/ w.cases[Node(m).val] # 0 /\ <<Start(w.cases[Node(m).val]), Enter(m)>> \in H
  <2>1. m # c
        BY <1>1 DEF Entries
  <2>2. \/ m \in A
        \/ e.cases[Node(m).val] # 0 /\ <<Start(e.cases[Node(m).val]), Enter(m)>> \in K
        BY DEF SwitchKnown
  <2> QED  BY <1>4, <2>1, <2>2
<1>7. ASSUME NEW m \in Entries(n, "default")
      PROVE  m \in B \/ (w.default # 0 /\ <<Start(w.default), Enter(m)>> \in H)
  <2>1. CASE m = c
        BY <1>1, <1>4, <2>1
  <2>2. CASE m # c
    <3>1. m \in A
          BY DEF SwitchKnown
    <3> QED  BY <2>2, <3>1
  <2> QED  BY <2>1, <2>2
<1>8. \A u \in Vals : w.cases[u] # 0 => \E m \in Entries(n, "case") : Node(m).val = u
      BY <1>4 DEF SwitchKnown
<1>9. Entries(n, "default") # {}
      OBVIOUS
<1>10. SwitchKnown(n, w, B, H)
       BY <1>6, <1>7, <1>8, <1>9 DEF SwitchKnown
<1> QED  BY <1>4, <1>5, <1>10 DEF w


\* The switches after a case or default: only the record of its own has changed.
LEMMA EntryKnown ==
  ASSUME Base, Running, Top.op = "stmt", Node(Top.node).kind \in {"case", "default"},
         switches # <<>>, NEW w \in SwitchSet, w.end = LastSwitch.end,
         NEW K, NEW H, K \subseteq H, SwitchesKnown(todo, switches, K),
         \A n, A, B :
           /\ Top.node \in Entries(n, Node(Top.node).kind) /\ SwitchKnown(n, LastSwitch, A, K)
           /\ \A m \in A : m \in B \/ m = Top.node
           => SwitchKnown(n, w, B, H),
         NEW k, k = Kid(Top.node, 1)
  PROVE  LET sv == [switches EXCEPT ![Len(switches)] = w]
         IN  /\ SwitchesKnown(<<Stmt(k)>> \o Tail(todo), sv, H)
             /\ EndsOwed(Tail(todo), sv) = EndsOwed(Tail(todo), switches)
<1> DEFINE s == Tail(todo)
           c == Top.node
           ts == <<Stmt(k)>>
           r == ts \o s
           sv == [switches EXCEPT ![Len(switches)] = w]
<1>1. /\ prog \in Programs /\ c \in DOMAIN prog.node /\ s \in Seq(Tasks) /\ todo = <<Top>> \o s
      /\ Top \in Tasks /\ switches \in Seq(SwitchSet) /\ Top.op # "endSwitch" /\ Top.op # "endFunction"
      /\ c = Top.node /\ s = Tail(todo)
      BY BaseTop DEF Base, IInv, ContextTypes
<1>2. Len(switches) = Cardinality(SwitchesOf(s))
  <2>1. ~IsOpen(Top)
        BY DEF IsOpen, LoopTasks
  <2>2. Mirrored(s, loops, switches, sawLoop)
        BY <2>1, AtTop DEF Base
  <2> QED  BY <2>2 DEF Mirrored
<1>3. Shape(Top, ts) /\ ts \in Seq(Tasks) /\ \A i \in 1..Len(ts) : ts[i].op # "endSwitch"
  <2>1. Shape(Top, ts) /\ ts = <<Stmt(k)>>
        BY DEF Shape, Marks
  <2>2. Stmt(k).op = "stmt"
        BY ThenOf
  <2>3. ts \in Seq(Tasks)
    <3>1. TaskOK(Top, prog) /\ OfKind(Top)
          BY BaseTop
    <3> HIDE DEF ts
    <3> QED  BY <1>1, <2>1, <3>1, FlowShape
  <2> QED  BY <2>1, <2>2, <2>3
<1> HIDE DEF s, c, ts
<1>4. /\ EndsOwed(s, sv) = EndsOwed(s, switches)
      /\ \E g \in SwitchesOf(s) :
           /\ \A h \in SwitchesOf(s) : h <= g
           /\ SwitchAt(s, switches, g) = LastSwitch /\ SwitchAt(s, sv, g) = w
           /\ \A h \in SwitchesOf(s) : h # g => SwitchAt(s, sv, h) = SwitchAt(s, switches, h)
      BY <1>1, <1>2, TopSwitch DEF LastSwitch
<1> HIDE DEF sv
<1>5. PICK g \in SwitchesOf(s) :
           /\ \A h \in SwitchesOf(s) : h <= g
           /\ SwitchAt(s, switches, g) = LastSwitch /\ SwitchAt(s, sv, g) = w
           /\ \A h \in SwitchesOf(s) : h # g => SwitchAt(s, sv, h) = SwitchAt(s, switches, h)
      BY <1>4
<1>6. /\ c \in Entries(Caller(s, g).node, Node(c).kind)
      /\ \A h \in SwitchesOf(s) : h # g => \A kind : c \notin Entries(Caller(s, h).node, kind)
      BY <1>5, CaseInside DEF s, c
<1>7. SwitchesOf(r) = SwitchesOf(s)
      BY <1>1, <1>3, OwedParts
<1>8. SUFFICES ASSUME NEW h \in SwitchesOf(r)
               PROVE  SwitchKnown(Caller(r, h).node, SwitchAt(r, sv, h), AheadOf(r, h), H)
      BY <1>4 DEF SwitchesKnown, sv, s, ts
<1>9. h \in SwitchesOf(s) /\ h \in 0..Len(s)
  <2>1. h \in 1..Len(s) /\ Len(s) \in Nat
        BY <1>1, <1>7, <1>8, FinitelyOpen
  <2> QED  BY <1>7, <2>1
<1>10. Caller(r, h) = Caller(s, h) /\ SwitchAt(r, sv, h) = SwitchAt(s, sv, h)
       BY <1>1, <1>3, <1>9, SwitchParts
<1>11. /\ h \in SwitchesOf(todo) /\ Caller(todo, h) = Caller(s, h)
       /\ SwitchAt(todo, switches, h) = SwitchAt(s, switches, h)
  <2>1. /\ h \in SwitchesOf(<<Top>> \o s) /\ Caller(<<Top>> \o s, h) = Caller(s, h)
        /\ SwitchAt(<<Top>> \o s, switches, h) = SwitchAt(s, switches, h)
        BY <1>1, <1>9, SwitchUnder
  <2> QED  BY <1>1, <2>1, Zenon
<1> DEFINE m == Caller(s, h).node
           A == AheadOf(todo, h)
           B == AheadOf(r, h)
<1>12. SwitchKnown(m, SwitchAt(s, switches, h), A, K)
       BY <1>11 DEF SwitchesKnown
<1>13. \A j \in A : j \in B \/ j = c
  <2>1. Shape(Top, ts) /\ ts \o Tail(todo) = r /\ h \in 0..Len(Tail(todo))
        BY <1>3, <1>9 DEF s
  <2>2. \A j \in A : j \in B \/ j = Top.node
        BY <1>1, <2>1, AheadStays
  <2> QED  BY <2>2 DEF c
<1> HIDE DEF A, B
<1>14. CASE h = g
  <2>1. SwitchKnown(m, LastSwitch, A, K) /\ SwitchAt(r, sv, h) = w
        BY <1>5, <1>10, <1>12, <1>14
  <2>2. c \in Entries(m, Node(c).kind)
        BY <1>6, <1>14
  <2> HIDE DEF m
  <2>3. SwitchKnown(m, w, B, H)
        BY <1>13, <2>1, <2>2 DEF c
  <2> QED  BY <1>10, <2>1, <2>3 DEF m, B
<1>15. CASE h # g
  <2>1. SwitchAt(r, sv, h) = SwitchAt(s, switches, h)
        BY <1>5, <1>9, <1>10, <1>15
  <2>2. \A kind : c \notin Entries(m, kind)
        BY <1>6, <1>9, <1>15
  <2> HIDE DEF m
  <2>3. Entries(m, "case") \cap A \subseteq B /\ Entries(m, "default") \cap A \subseteq B
        BY <1>13, <2>2
  <2>4. SwitchKnown(m, SwitchAt(s, switches, h), B, H)
        BY <1>12, <2>3, Extending, StillKept
  <2> QED  BY <1>10, <2>1, <2>4 DEF m, B
<1> QED  BY <1>14, <1>15


\* A case or default that starts a block records that block for its statement.
LEMMA EntrySim ==
  ASSUME Base, NEW K, Sim(b, todo, switches, labels, next, K), Running, Top.op = "stmt",
         Node(Top.node).kind \in {"case", "default"}, switches # <<>>,
         ~b.filled => b.code[b.cur] = <<>>,
         NEW w \in SwitchSet, w.end = LastSwitch.end, SetSwitch(w), b' = AtEntry,
         todo' = <<Stmt(Kid(Top.node, 1))>> \o Tail(todo), labels' = labels, next' = next,
         \A H : K \subseteq H /\ <<Start(EntryBlock), Enter(Top.node)>> \in H =>
           \A n, A, B :
             /\ Top.node \in Entries(n, Node(Top.node).kind) /\ SwitchKnown(n, LastSwitch, A, K)
             /\ \A m \in A : m \in B \/ m = Top.node
             => SwitchKnown(n, w, B, H)
  PROVE  SimNext
<1> DEFINE c == Top.node
           k == Kid(c, 1)
           s == Tail(todo)
           ts == <<Stmt(k)>>
           blk == EntryBlock
           N == {<<Start(blk), Enter(c)>>}
           Q == Owed(b', ts \o s, switches')
           H == (K \cup N) \cup Q
<1>1. /\ prog \in Programs /\ Good(b, Instrs) /\ s \in Seq(Tasks) /\ Top \in Tasks
      /\ todo = <<Top>> \o s /\ Top.op # "endSwitch"
      BY BaseTop
<1>2. /\ Extends(b.code, b'.code) /\ Point(b') = Start(blk) /\ ~b'.filled
      /\ ~b.filled => Point(b) = Start(blk)
      BY <1>1, EntryPlace
<1>3. /\ Shape(Top, ts) /\ ts \in Seq(Tasks) /\ Promise(Top) = {}
      /\ \A i \in 1..Len(ts) : ts[i].op = "stmt"
      /\ <<Point(b'), Enter(k)>> \in Q
      /\ NowOf(Top) = Enter(c) /\ Silent(Enter(c)) /\ Silently(Enter(c)) = Enter(k)
  <2>1. k = Kid(Top.node, 1) /\ ts = <<Stmt(k)>> /\ todo' = ts \o Tail(todo)
        /\ Q = Owed(b', todo', switches')
        OBVIOUS
  <2>2. Node(Top.node).kind \in {"case", "default", "label"}
        OBVIOUS
  <2> HIDE DEF Q, k, ts
  <2> QED  BY <1>2, <2>1, <2>2, Marking
<1>4. <<Start(blk), Enter(c)>> \in H /\ K \subseteq H
      OBVIOUS
<1>5. \A L, q : <<L, q>> \in N => L = Start(blk) /\ q = Enter(c)
      OBVIOUS
<1>6. SwitchesKnown(ts \o s, switches', H) /\ EndsOwed(s, switches') = EndsOwed(s, switches)
  <2>1. /\ switches' = [switches EXCEPT ![Len(switches)] = w]
        /\ k = Kid(Top.node, 1) /\ SwitchesKnown(todo, switches, K)
        BY DEF SetSwitch, Sim
  <2>2. \A n, A, B :
           /\ Top.node \in Entries(n, Node(Top.node).kind) /\ SwitchKnown(n, LastSwitch, A, K)
           /\ \A m \in A : m \in B \/ m = Top.node
           => SwitchKnown(n, w, B, H)
        BY <1>4
  <2> HIDE DEF H, k
  <2>3. LET sv == [switches EXCEPT ![Len(switches)] = w]
        IN  /\ SwitchesKnown(<<Stmt(k)>> \o Tail(todo), sv, H)
            /\ EndsOwed(Tail(todo), sv) = EndsOwed(Tail(todo), switches)
        BY <1>4, <2>1, <2>2, EntryKnown
  <2> QED  BY <2>1, <2>3
<1>7. Q = Owed(b', ts \o s, switches') /\ H = (K \cup N) \cup Q
      OBVIOUS
<1> HIDE DEF Q, H, N, ts, k, blk
<1>8. On(Q, Start(blk), Silently(Enter(c)))
      BY <1>2, <1>3, Justifying
<1>9. OK(b'.code, Q, H, Start(blk), Enter(c))
      BY <1>3, <1>8, Bearing
<1>10. \A L, q : <<L, q>> \in Current(b, <<Top>> \o s) =>
         L = Point(b) /\ q = NowOf(Top) /\ ~b.filled
  <2>1. Head(todo) = Top
        BY DEF Top
  <2>2. Current(b, todo) \subseteq IF b.filled THEN {} ELSE {<<Point(b), NowOf(Top)>>}
        BY <2>1 DEF Current
  <2>3. \A L, q : <<L, q>> \in Current(b, todo) => L = Point(b) /\ q = NowOf(Top) /\ ~b.filled
        BY <2>2
  <2> HIDE DEF s
  <2> QED  BY <1>1, <2>3
<1>11. \A L, q : <<L, q>> \in Current(b, <<Top>> \o s) \cup Promise(Top) \cup N =>
         OK(b'.code, Q, H, L, q)
       BY <1>2, <1>3, <1>5, <1>9, <1>10
<1>12. LabelsKnown(labels', next, H)
  <2>1. LabelsKnown(labels, next, K)
        BY DEF Sim
  <2> QED  BY <1>4, <2>1, Extending, StillKept
<1>13. \A i \in 1..Len(ts) : ts[i].op # "endSwitch" /\ Kept(ts[i], b'.code, H)
       BY <1>3 DEF Kept
<1>14. Sim(b, <<Top>> \o s, switches, labels, next, K)
       BY <1>1
<1>15. todo' = ts \o s
       BY DEF ts, k
<1> HIDE DEF s, c
<1>16. Sim(b', ts \o s, switches', labels', next, H)
       BY <1>1, <1>2, <1>3, <1>6, <1>7, <1>11, <1>12, <1>13, <1>14, StepSim
<1>17. Sim(b', todo', switches', labels', next', H)
       BY <1>15, <1>16
<1> QED  BY <1>17 DEF SimNext

\* case.
LEMMA CaseSim ==
  ASSUME Base, NEW K, Sim(b, todo, switches, labels, next, K), Case, err' = "none",
         ~b.filled => b.code[b.cur] = <<>>
  PROVE  SimNext
<1> DEFINE c == Top.node
           v == Node(c).val
           w == [LastSwitch EXCEPT !.cases[v] = EntryBlock]
<1>1. /\ Compiling("case") /\ switches # <<>> /\ LastSwitch.cases[v] = 0 /\ SetSwitch(w)
      /\ b' = AtEntry /\ todo' = <<Stmt(Kid(c, 1))>> \o Tail(todo)
      /\ labels' = labels /\ next' = next
  <2>1. "CaseOutsideSwitch" # "none" /\ "DuplicateCase" # "none"
        OBVIOUS
  <2> QED  BY <2>1 DEF Case, Fail, Push, Frame
<1>2. Running /\ Top.op = "stmt" /\ Node(c).kind = "case"
      BY <1>1 DEF Compiling, At
<1>3. Good(b, Instrs) /\ LastSwitch \in SwitchSet /\ EntryBlock \in Block
  <2>1. Good(b, Instrs)
        BY <1>2, BaseTop
  <2>2. switches \in Seq(SwitchSet) /\ Len(switches) \in 1..Len(switches)
    <3>1. switches \in Seq(SwitchSet)
          BY DEF Base, IInv, ContextTypes
    <3> QED  BY <1>1, <3>1
  <2> QED  BY <2>1, <2>2, EntryPlace DEF LastSwitch
<1> HIDE DEF c
<1>4. ASSUME NEW H, K \subseteq H, <<Start(EntryBlock), Enter(c)>> \in H, NEW n,
             NEW A, NEW B, c \in Entries(n, "case"), SwitchKnown(n, LastSwitch, A, K),
             \A m \in A : m \in B \/ m = c
      PROVE  w \in SwitchSet /\ w.end = LastSwitch.end /\ SwitchKnown(n, w, B, H)
      BY <1>1, <1>3, <1>4, CaseRecord
<1>5. w \in SwitchSet /\ w.end = LastSwitch.end
  <2>1. v \in Vals
    <3>1. c \in DOMAIN prog.node
          BY <1>1, CompilingFacts DEF Base, c
    <3> QED  BY <3>1 DEF Vals
  <2>2. LastSwitch.cases \in [Vals -> Nat] /\ EntryBlock \in Nat
        BY <1>3 DEF SwitchSet, Maps, Block
  <2>3. [LastSwitch.cases EXCEPT ![v] = EntryBlock] \in [Vals -> Nat]
        BY <2>1, <2>2
  <2>4. w = [cases |-> [LastSwitch.cases EXCEPT ![v] = EntryBlock],
             default |-> LastSwitch.default, end |-> LastSwitch.end]
        BY <1>3 DEF SwitchSet
  <2> QED  BY <1>3, <2>3, <2>4 DEF SwitchSet, Maps
<1> HIDE DEF w, v
<1> QED  BY <1>1, <1>2, <1>4, <1>5, EntrySim DEF c

\* default.
LEMMA DefaultSim ==
  ASSUME Base, NEW K, Sim(b, todo, switches, labels, next, K), Default, err' = "none",
         ~b.filled => b.code[b.cur] = <<>>
  PROVE  SimNext
<1> DEFINE c == Top.node
           w == [LastSwitch EXCEPT !.default = EntryBlock]
<1>1. /\ Compiling("default") /\ switches # <<>> /\ LastSwitch.default = 0 /\ SetSwitch(w)
      /\ b' = AtEntry /\ todo' = <<Stmt(Kid(c, 1))>> \o Tail(todo)
      /\ labels' = labels /\ next' = next
  <2>1. "CaseOutsideSwitch" # "none" /\ "DuplicateCase" # "none"
        OBVIOUS
  <2> QED  BY <2>1 DEF Default, Fail, Push, Frame
<1>2. Running /\ Top.op = "stmt" /\ Node(c).kind = "default"
      BY <1>1 DEF Compiling, At
<1>3. Good(b, Instrs) /\ LastSwitch \in SwitchSet /\ EntryBlock \in Block
  <2>1. Good(b, Instrs)
        BY <1>2, BaseTop
  <2>2. switches \in Seq(SwitchSet) /\ Len(switches) \in 1..Len(switches)
    <3>1. switches \in Seq(SwitchSet)
          BY DEF Base, IInv, ContextTypes
    <3> QED  BY <1>1, <3>1
  <2> QED  BY <2>1, <2>2, EntryPlace DEF LastSwitch
<1> HIDE DEF c
<1>4. ASSUME NEW H, K \subseteq H, <<Start(EntryBlock), Enter(c)>> \in H, NEW n,
             NEW A, NEW B, c \in Entries(n, "default"), SwitchKnown(n, LastSwitch, A, K),
             \A m \in A : m \in B \/ m = c
      PROVE  w \in SwitchSet /\ w.end = LastSwitch.end /\ SwitchKnown(n, w, B, H)
      BY <1>1, <1>3, <1>4, DefaultRecord
<1>5. w \in SwitchSet /\ w.end = LastSwitch.end
  <2>1. LastSwitch.cases \in Maps /\ LastSwitch.end \in Block /\ EntryBlock \in Nat
        BY <1>3 DEF SwitchSet, Block
  <2>4. w = [cases |-> LastSwitch.cases, default |-> EntryBlock, end |-> LastSwitch.end]
        BY <1>3 DEF SwitchSet
  <2> QED  BY <2>1, <2>4 DEF SwitchSet
<1> HIDE DEF w
<1> QED  BY <1>1, <1>2, <1>4, <1>5, EntrySim DEF c


-----------------------------------------------------------------------------
(* A do loop's continue block is the one that tests its condition.          *)

\* Entering a loop.
LEMMA LoopsRaised ==
  ASSUME NEW s \in Seq(Tasks), NEW t \in Tasks, t.op \in LoopTasks,
         NEW S, NEW lp \in Seq(S), NEW e \in S, Len(lp) = Cardinality(LoopsOf(s)),
         DoStarts(s, lp), t.op = "endDo" => e[1] = t.blk[2]
  PROVE  DoStarts(<<t>> \o s, Append(lp, e))
<1> DEFINE r == <<t>> \o s
           L == LoopsOf(s)
           sv == Append(lp, e)
<1>1. /\ L \subseteq 1..Len(s) /\ IsFiniteSet(L) /\ Len(s) \in Nat /\ Cardinality(L) \in Nat
      BY FinitelyOpen
<1>2. /\ LoopsOf(r) = L \cup {Len(s) + 1} /\ Cardinality(LoopsOf(r)) = Cardinality(L) + 1
      /\ Caller(r, Len(s) + 1) = t
      BY OpenOnTop DEF LoopsOf
<1>3. \A h \in L : Caller(r, h) = Caller(s, h)
  <2>1. <<t>> \in Seq(Tasks)
        BY Single
  <2> QED  BY <1>1, <2>1, Heights
<1>4. /\ sv[Len(lp) + 1] = e /\ \A i \in 1..Len(lp) : sv[i] = lp[i]
  <2>1. Len(sv) = Len(lp) + 1 /\ sv[Len(sv)] = e /\ \A i \in 1..Len(lp) : sv[i] = lp[i]
        BY AppendTo
  <2> QED  BY <2>1
<1> HIDE DEF L, r, sv
<1>5. ASSUME NEW h \in LoopsOf(r), Caller(r, h).op = "endDo"
      PROVE  sv[Cardinality(UpTo(LoopsOf(r), h))][1] = Caller(r, h).blk[2]
  <2>1. CASE h \in L
    <3>1. Cardinality(UpTo(L, h)) \in 1..Cardinality(L) /\ UpTo(LoopsOf(r), h) = UpTo(L, h)
          BY <1>1, <1>2, <2>1, UpToIndex
    <3>2. Caller(r, h) = Caller(s, h)
          BY <1>3, <2>1
    <3>3. lp[Cardinality(UpTo(L, h))][1] = Caller(s, h).blk[2]
          BY <1>5, <2>1, <3>2 DEF DoStarts, L
    <3>4. sv[Cardinality(UpTo(L, h))] = lp[Cardinality(UpTo(L, h))]
          BY <1>4, <3>1 DEF L
    <3> QED  BY <3>1, <3>2, <3>3, <3>4
  <2>2. CASE h = Len(s) + 1
    <3>1. UpTo(LoopsOf(r), h) = LoopsOf(r)
          BY <1>1, <1>2, <2>2, UpToAll
    <3>2. Cardinality(UpTo(LoopsOf(r), h)) = Len(lp) + 1
          BY <1>2, <3>1 DEF L
    <3> QED  BY <1>2, <1>4, <1>5, <2>2, <3>2
  <2> QED  BY <1>2, <2>1, <2>2
<1> QED  BY <1>5 DEF DoStarts, r, sv

\* Leaving a loop.
LEMMA LoopsLeft ==
  ASSUME NEW s \in Seq(Tasks), NEW t \in Tasks, t.op \in LoopTasks,
         NEW S, NEW lp \in Seq(S), Len(lp) = Cardinality(LoopsOf(<<t>> \o s)),
         DoStarts(<<t>> \o s, lp)
  PROVE  DoStarts(s, SubSeq(lp, 1, Len(lp) - 1))
<1> DEFINE r == <<t>> \o s
           L == LoopsOf(s)
           sv == SubSeq(lp, 1, Len(lp) - 1)
<1>1. /\ L \subseteq 1..Len(s) /\ IsFiniteSet(L) /\ Len(s) \in Nat /\ Cardinality(L) \in Nat
      BY FinitelyOpen
<1>2. /\ LoopsOf(r) = L \cup {Len(s) + 1} /\ Cardinality(LoopsOf(r)) = Cardinality(L) + 1
      BY OpenOnTop DEF LoopsOf
<1>3. \A h \in L : Caller(r, h) = Caller(s, h)
  <2>1. <<t>> \in Seq(Tasks)
        BY Single
  <2> QED  BY <1>1, <2>1, Heights
<1>4. \A i \in 1..Cardinality(L) : sv[i] = lp[i]
  <2>1. Len(lp) - 1 = Cardinality(L) /\ Len(lp) - 1 \in 0..Len(lp)
        BY <1>1, <1>2
  <2>2. \A i \in 1..Len(lp) - 1 : sv[i] = lp[i]
        BY <2>1, FrontOf
  <2> QED  BY <2>1, <2>2
<1> HIDE DEF L, r, sv
<1>5. ASSUME NEW h \in L, Caller(s, h).op = "endDo"
      PROVE  sv[Cardinality(UpTo(L, h))][1] = Caller(s, h).blk[2]
  <2>1. Cardinality(UpTo(L, h)) \in 1..Cardinality(L) /\ UpTo(LoopsOf(r), h) = UpTo(L, h)
        BY <1>1, <1>2, UpToIndex
  <2>2. Caller(r, h) = Caller(s, h)
        BY <1>3
  <2>3. lp[Cardinality(UpTo(L, h))][1] = Caller(s, h).blk[2]
        BY <1>2, <1>5, <2>1, <2>2 DEF DoStarts, r
  <2> QED  BY <1>4, <2>1, <2>3
<1> QED  BY <1>5 DEF DoStarts, L, sv

\* No loop is open in the parts of a statement that is no loop.
LEMMA NoLoopParts ==
  ASSUME NEW t \in Tasks, NEW ts \in Seq(Tasks), Shape(t, ts), t.op # "for",
         t.op = "stmt" => Node(t.node).kind \notin {"while", "do"}
  PROVE  \A i \in 1..Len(ts) : ts[i].op \notin LoopTasks
<1>0. "stmt" \notin LoopTasks
      BY DEF LoopTasks
<1>1. CASE Ends0(t, ts)
  <2>1. Len(ts) = 0
        BY <1>1 DEF Ends0
  <2> QED  BY <2>1
<1>2. CASE Lists(t, ts)
  <2>1. \A i \in DOMAIN ts : ts[i].op = "stmt"
    <3>1. DOMAIN ts = DOMAIN Node(t.node).kids
          /\ \A i \in DOMAIN ts : ts[i] = Stmt(Kid(t.node, i))
          BY <1>2 DEF Lists
    <3> QED  BY <3>1, ThenOf
  <2>2. DOMAIN ts = 1..Len(ts)
        OBVIOUS
  <2> QED  BY <1>0, <2>1, <2>2
<1>3. CASE Marks(t, ts)
  <2> DEFINE x == Stmt(Kid(t.node, 1))
  <2>1. ts = <<x>> /\ x.op = "stmt"
        BY <1>3, ThenOf DEF Marks
  <2> HIDE DEF x
  <2>2. Len(ts) = 1 /\ ts[1] = x
        BY <2>1
  <2> QED  BY <1>0, <2>1, <2>2
<1>4. CASE Splits(t, ts)
  <2>1. PICK i \in 1..2, e \in Tasks :
          e.node = t.node /\ Part(t, i, e.op) /\ ts = <<Stmt(Kid(t.node, i)), e>>
        BY <1>4 DEF Splits
  <2>2. e.op \notin LoopTasks
        BY <2>1 DEF Part, LoopTasks
  <2> DEFINE x == Stmt(Kid(t.node, i))
  <2>3. ts = <<x, e>> /\ x.op = "stmt"
        BY <2>1, ThenOf
  <2> HIDE DEF x
  <2>4. Len(ts) = 2 /\ ts[1] = x /\ ts[2] = e
        BY <2>3
  <2>5. \A j \in 1..Len(ts) : j = 1 \/ j = 2
        BY <2>4
  <2> QED  BY <1>0, <2>2, <2>3, <2>4, <2>5
<1>5. CASE Repeats(t, ts)
      BY <1>5 DEF Repeats
<1> QED  BY <1>1, <1>2, <1>3, <1>4, <1>5 DEF Shape


\* do enters a loop whose continue block tests its condition.
LEMMA DoLoops ==
  ASSUME Base, LoopsStart, Do
  PROVE  DoStarts(todo', loops')
<1> DEFINE n    == Top.node
           t    == Task("endDo", n, <<Header(b), Body(b), End(b)>>, sawLoop)
           x    == Stmt(Kid(n, 1))
           e    == <<Body(b), End(b)>>
           s    == Tail(todo)
<1>1. Compiling("do") /\ todo' = <<x, t>> \o s /\ loops' = Append(loops, e)
      BY DEF Do, Push, EnterLoop
<1>2. /\ Running /\ n \in DOMAIN prog.node /\ Node(n).kind = "do" /\ Top.op = "stmt" /\ ~b.filled
      /\ IInv
      BY <1>1, CompilingFacts DEF JumpTargetKinds, Base
<1>3. /\ prog \in Programs /\ Good(b, Instrs) /\ s \in Seq(Tasks) /\ loops \in Seq(Block \X Block)
      BY <1>2, BaseTop DEF IInv, ContextTypes
<1>4. /\ Header(b) \in Block /\ Body(b) \in Block /\ End(b) \in Block
      BY <1>2, <1>3, EnteredFacts
<1>5. x \in Tasks /\ x.op = "stmt"
      BY <1>2, <1>3, BodyOf, ThenOf
<1>6. t.op = "endDo" /\ t.blk[2] = Body(b) /\ t.op \in LoopTasks
  <2> DEFINE blk == <<Header(b), Body(b), End(b)>>
  <2>1. blk[2] = Body(b) /\ t = Task("endDo", n, blk, sawLoop)
        OBVIOUS
  <2> HIDE DEF blk, t
  <2>2. t.op = "endDo" /\ t.blk = blk
        BY <2>1 DEF Task
  <2> QED  BY <2>1, <2>2 DEF LoopTasks
<1>7. t \in Tasks
  <2>1. todo' \in Seq(Tasks)
    <3>1. IInv'
          BY DoKeeps DEF Base
    <3> QED  BY <3>1 DEF IInv, StackOK, Frames
  <2> HIDE DEF t, x, s
  <2> QED  BY <1>1, <1>3, <2>1, TasksIn
<1>8. e \in Block \X Block /\ e[1] = Body(b)
      BY <1>4
<1>9. DoStarts(s, loops) /\ Len(loops) = Cardinality(LoopsOf(s))
  <2>1. Top.op \notin LoopTasks /\ ~IsOpen(Top)
        BY <1>2 DEF LoopTasks, IsOpen
  <2>2. Mirrored(s, loops, switches, sawLoop)
        BY <1>2, <2>1, AtTop DEF Base
  <2> QED  BY <1>2, <2>1, <2>2, LoopsBelow DEF Mirrored
<1> HIDE DEF t, x, s, e
<1>10. DoStarts(<<t>> \o s, Append(loops, e))
       BY <1>3, <1>6, <1>7, <1>8, <1>9, LoopsRaised
<1>11. todo' = <<x>> \o (<<t>> \o s) /\ <<t>> \o s \in Seq(Tasks)
       BY <1>1, <1>3, <1>5, <1>7, Pair
<1> DEFINE u == <<x>>
<1>12. u \in Seq(Tasks) /\ \A i \in 1..Len(u) : u[i].op \notin LoopTasks
       BY <1>5, Single DEF LoopTasks
<1> HIDE DEF u
<1>13. DoStarts(u \o (<<t>> \o s), Append(loops, e))
       BY <1>10, <1>11, <1>12, DoStartsGlue
<1> QED  BY <1>1, <1>11, <1>13 DEF u

\* while and for enter a loop that is no do loop.
LEMMA WhileLoops ==
  ASSUME Base, LoopsStart, While
  PROVE  DoStarts(todo', loops')
<1> DEFINE n    == Top.node
           t    == Task("endWhile", n, <<Header(b), End(b)>>, sawLoop)
           ts   == LoopBody(n)
           e    == <<Body(b), End(b)>>
           s    == Tail(todo)
<1>1. /\ Compiling("while") \/ At("for")
      /\ todo' = (ts \o <<t>>) \o s /\ loops' = Append(loops, e)
      BY DEF While, Push, EnterLoop
<1>2. /\ Running /\ n \in DOMAIN prog.node /\ n \in Nat /\ Node(n).kind \in {"while", "for"}
      /\ ~b.filled /\ ~IsOpen(Top) /\ IInv
      BY <1>1, WhileTop DEF Base
<1>3. /\ prog \in Programs /\ Good(b, Instrs) /\ s \in Seq(Tasks) /\ loops \in Seq(Block \X Block)
      /\ sawLoop \in BOOLEAN
      BY <1>2, BaseTop DEF IInv, ContextTypes
<1>4. /\ Header(b) \in Block /\ Body(b) \in Block /\ End(b) \in Block
      BY <1>2, <1>3, EnteredFacts
<1>5. ts \in Seq(Tasks) /\ \A i \in 1..Len(ts) : ts[i].op \notin LoopTasks
      BY <1>2, <1>3, LoopBodyInside DEF IsOpen
<1> HIDE DEF ts, n
<1>6. t.op = "endWhile" /\ t.op \in LoopTasks /\ t.op # "endDo"
      BY DEF Task, LoopTasks
<1>7. t \in Tasks
  <2>1. <<Header(b), End(b)>> \in Seq(Block) /\ "endWhile" \in TaskOps
        BY <1>4 DEF TaskOps
  <2> QED  BY <1>2, <1>3, <2>1 DEF Task, Tasks
<1>8. e \in Block \X Block
      BY <1>4
<1>9. DoStarts(s, loops) /\ Len(loops) = Cardinality(LoopsOf(s))
  <2>1. Top.op \notin LoopTasks
        BY <1>2 DEF IsOpen
  <2>2. Mirrored(s, loops, switches, sawLoop)
        BY <1>2, AtTop DEF Base
  <2> QED  BY <1>2, <2>1, <2>2, LoopsBelow DEF Mirrored
<1> HIDE DEF t, s, e
<1>10. DoStarts(<<t>> \o s, Append(loops, e))
       BY <1>3, <1>6, <1>7, <1>8, <1>9, LoopsRaised
<1>11. todo' = ts \o (<<t>> \o s) /\ <<t>> \o s \in Seq(Tasks)
  <2>1. <<t>> \in Seq(Tasks)
        BY <1>7, Single
  <2>2. (ts \o <<t>>) \o s = ts \o (<<t>> \o s)
        BY <1>3, <1>5, <2>1, ConcatAssociative
  <2> QED  BY <1>1, <1>3, <2>1, <2>2, OnTopOf
<1>13. DoStarts(ts \o (<<t>> \o s), Append(loops, e))
       BY <1>5, <1>10, <1>11, DoStartsGlue
<1> QED  BY <1>1, <1>11, <1>13

\* Every step keeps it.
LEMMA StepLoopsStart ==
  ASSUME Base, IInv', LoopsStart, [Next]_vars
  PROVE  LoopsStart'
<1>1. SUFFICES ASSUME err' = "none" PROVE DoStarts(todo', loops')
      BY DEF LoopsStart
<1>2. IInv
      BY DEF Base
<1>3. CASE BeginFunction
  <2> DEFINE x == Stmt(prog.fns[next].body)
             e == Task("endFunction", next, <<>>, FALSE)
  <2>1. todo' = <<x, e>>
        BY <1>3 DEF BeginFunction
  <2>2. x.op = "stmt" /\ e.op = "endFunction"
        BY ThenOf DEF Task
  <2> HIDE DEF x, e
  <2>3. \A i \in 1..Len(todo') : todo'[i] = x \/ todo'[i] = e
    <3>1. Len(todo') = 2 /\ todo'[1] = x /\ todo'[2] = e
          BY <2>1
    <3>2. \A i \in 1..Len(todo') : i = 1 \/ i = 2
          BY <3>1
    <3> QED  BY <3>1, <3>2
  <2>4. \A i \in 1..Len(todo') : todo'[i].op \notin LoopTasks
        BY <2>2, <2>3 DEF LoopTasks
  <2>5. LoopsOf(todo') = {}
    <3>1. \A h \in 1..Len(todo') : Len(todo') + 1 - h \in 1..Len(todo')
          BY <2>1
    <3> QED  BY <2>4, <3>1 DEF LoopsOf, OpenAt, Caller
  <2> QED  BY <2>5 DEF DoStarts
<1>4. CASE EndFunction
  <2>1. Running /\ Top.op = "endFunction" /\ Pop
        BY <1>1, <1>4 DEF EndFunction, At, Fail
  <2>2. todo' = <<>>
        BY <1>2, <2>1, TopFacts DEF Pop
  <2>3. LoopsOf(todo') = {}
    <3>1. Len(<<>>) = 0
          OBVIOUS
    <3> QED  BY <2>2, <3>1 DEF LoopsOf, OpenAt
  <2> QED  BY <2>3 DEF DoStarts
<1>5. CASE Unreachable
      BY <1>1, <1>5 DEF Unreachable, Fail
<1>6. CASE UNCHANGED vars
      BY <1>1, <1>6 DEF vars, LoopsStart
<1>7. CASE Do
      BY <1>7, DoLoops
<1>8. CASE While
      BY <1>8, WhileLoops
<1>9. CASE EndWhile \/ EndDo
  <2>1. /\ Running /\ Top.op \in LoopTasks /\ Pop /\ loops' = SubSeq(loops, 1, Len(loops) - 1)
        BY <1>1, <1>9 DEF EndWhile, EndDo, At, Fail, ExitLoop, LoopTasks
  <2>2. /\ Top \in Tasks /\ Tail(todo) \in Seq(Tasks) /\ todo = <<Top>> \o Tail(todo)
        BY <2>1, BaseTop
  <2>3. Len(loops) = Cardinality(LoopsOf(<<Top>> \o Tail(todo)))
    <3>1. Mirrored(todo, loops, switches, sawLoop)
          BY <2>1 DEF Base, NInv, ContextOK, Running
    <3> QED  BY <2>2, <3>1 DEF Mirrored
  <2>4. DoStarts(<<Top>> \o Tail(todo), loops)
        BY <2>1, <2>2 DEF LoopsStart, Running
  <2>5. loops \in Seq(Block \X Block)
        BY <1>2 DEF IInv, ContextTypes
  <2>6. DoStarts(Tail(todo), SubSeq(loops, 1, Len(loops) - 1))
        BY <2>1, <2>2, <2>3, <2>4, <2>5, LoopsLeft
  <2> QED  BY <2>1, <2>6 DEF Pop
<1>10. CASE /\ Stepping /\ ~Do /\ ~While /\ ~EndWhile /\ ~EndDo
  <2>1. loops' = loops
        BY <1>10 DEF Stepping, Compound, Expression, DeclareStack, Return, If, EndIf, Else, EndElse,
           For, Switch, EndSwitch, EnterSwitch, ExitSwitch, Case, Default, Label, Goto, LoopExit,
           Fail, Frame, Context
  <2>2. /\ Running /\ Top.op \notin LoopTasks /\ Top.op # "for"
        /\ Top.op = "stmt" => Node(Top.node).kind \notin {"while", "do"}
        BY <1>1, <1>10 DEF Stepping, Compound, Expression, DeclareStack, Return, If, EndIf, Else, EndElse,
           For, Switch, EndSwitch, Case, Default, Label, Goto, LoopExit, Compiling, At, LoopTasks
  <2>3. PICK ts : Shape(Top, ts) /\ todo' = ts \o Tail(todo)
        BY <1>1, <1>2, <1>10, StepShape
  <2>4. Top \in Tasks /\ Tail(todo) \in Seq(Tasks) /\ ts \in Seq(Tasks)
    <3>1. prog \in Programs /\ TaskOK(Top, prog) /\ OfKind(Top) /\ Top \in Tasks /\ Tail(todo) \in Seq(Tasks)
          BY <2>2, BaseTop
    <3> QED  BY <2>3, <3>1, FlowShape
  <2>5. \A i \in 1..Len(ts) : ts[i].op \notin LoopTasks
        BY <2>2, <2>3, <2>4, NoLoopParts
  <2>6. DoStarts(Tail(todo), loops)
        BY <2>2, LoopsBelow
  <2> QED  BY <2>1, <2>3, <2>4, <2>5, <2>6, DoStartsGlue
<1> QED  BY <1>3, <1>4, <1>5, <1>6, <1>7, <1>8, <1>9, <1>10, StepKinds


-----------------------------------------------------------------------------
(* Functions begin and end.                                                 *)

\* No switch is open in a stack without the tasks that end one.
LEMMA NoSwitches ==
  ASSUME NEW s, \A i \in 1..Len(s) : s[i].op # "endSwitch", Len(s) \in Nat
  PROVE  SwitchesOf(s) = {}
<1>1. \A h \in 1..Len(s) : Len(s) + 1 - h \in 1..Len(s)
      OBVIOUS
<1> QED  BY <1>1 DEF SwitchesOf, OpenAt, Caller

\* A function begins at the start of its first block, where its body is entered.
LEMMA BeginSim ==
  ASSUME IInv, ScopeOK, BeginFunction
  PROVE  SimNext
<1> DEFINE body == prog.fns[next].body
           x    == Stmt(body)
           e    == Task("endFunction", next, <<>>, FALSE)
           K    == {<<Start(1), Enter(body)>>}
<1>1. /\ err = "none" /\ todo = <<>> /\ b' = EmptyBuilder /\ todo' = <<x, e>>
      /\ switches' = switches /\ labels' = labels /\ next' = next
      BY DEF BeginFunction
<1>2. /\ x.op = "stmt" /\ NowOf(x) = Enter(body) /\ e.op = "endFunction"
      BY ThenOf DEF Task
<1>3. Point(b') = Start(1) /\ ~b'.filled
  <2>1. Len(<<>>) = 0
        OBVIOUS
  <2>2. EmptyBuilder.code[EmptyBuilder.cur] = <<>> /\ EmptyBuilder.cur = 1 /\ ~EmptyBuilder.filled
        BY DEF EmptyBuilder
  <2> QED  BY <1>1, <2>1, <2>2 DEF Point, Start
<1>4. /\ <<Start(1), Enter(body)>> \in K
      /\ \A L, q : <<L, q>> \in K => <<L, q>> = <<Start(1), Enter(body)>>
      OBVIOUS
<1> HIDE DEF x, e
<1>5. /\ Len(todo') = 2 /\ Head(todo') = x /\ todo' # <<>>
      /\ \A i \in 1..Len(todo') : todo'[i] = x \/ todo'[i] = e
  <2>1. Len(todo') = 2 /\ todo'[1] = x /\ todo'[2] = e /\ Head(todo') = x /\ todo' # <<>>
        BY <1>1
  <2>2. \A i \in 1..Len(todo') : i = 1 \/ i = 2
        BY <2>1
  <2> QED  BY <2>1, <2>2
<1>6. SwitchesOf(todo') = {}
      BY <1>2, <1>5, NoSwitches
<1>7. Owed(b', todo', switches') = K
  <2>1. Current(b', todo') = {<<Start(1), Enter(body)>>}
        BY <1>2, <1>3, <1>5 DEF Current
  <2>2. Promises(todo') = {}
        BY <1>2, <1>5 DEF Promises, Promise
  <2>3. EndsOwed(todo', switches') = {}
        BY <1>6 DEF EndsOwed
  <2> QED  BY <2>1, <2>2, <2>3 DEF Owed
<1>8. Follows(b'.code, K, Owed(b', todo', switches'))
      BY <1>7 DEF Follows
<1>9. AllKept(todo', b'.code, K)
      BY <1>2, <1>5 DEF AllKept, Kept
<1>10. SwitchesKnown(todo', switches', K)
       BY <1>6 DEF SwitchesKnown
<1>11. LabelsKnown(labels', next', K)
  <2>1. SUFFICES ASSUME NEW v \in Vals, labels[v] # 0
                 PROVE  \E m \in DOMAIN prog.node :
                          /\ Node(m).kind = "label" /\ Node(m).val = v
                          /\ \E f \in DOMAIN prog.fns : f < next /\ InBody(f, m)
        BY <1>1 DEF LabelsKnown
  <2>2. PICK m \in DOMAIN prog.node, f \in 1..next :
          /\ Node(m).kind = "label" /\ Node(m).val = v /\ InBody(f, m)
          /\ todo = <<>> => f < next
        BY <1>1, <2>1 DEF ScopeOK, LabelsHere
  <2>3. f \in DOMAIN prog.fns
        BY <2>2 DEF InBody
  <2> QED  BY <1>1, <2>2, <2>3
<1> HIDE DEF K
<1>12. Sim(b', todo', switches', labels', next', K)
       BY <1>1, <1>4, <1>8, <1>9, <1>10, <1>11 DEF Sim
<1> QED  BY <1>12 DEF SimNext

Whole(code, f) ==
  \E K : Follows(code, K, {}) /\ <<Start(1), Enter(prog.fns[f].body)>> \in K

\* A finished function owes nothing any more: its code runs as its body says.
LEMMA EndSim ==
  ASSUME Base, NEW K, Sim(b, todo, switches, labels, next, K), EndFunction, err' = "none"
  PROVE  /\ out' = Append(out, b'.code) /\ next' = next + 1 /\ prog' = prog
         /\ Whole(b'.code, next)
<1>1. /\ Running /\ Top.op = "endFunction" /\ b' = ReturnAtTheEnd
      /\ out' = Append(out, b'.code) /\ next' = next + 1 /\ prog' = prog
      BY DEF EndFunction, At, Fail
<1>2. /\ Good(b, Instrs) /\ Top \in Tasks /\ Tail(todo) \in Seq(Tasks) /\ todo = <<Top>> \o Tail(todo)
      BY <1>1, BaseTop
<1>3. Tail(todo) = <<>> /\ todo = <<Top>> /\ Len(todo) = 1
  <2>1. Tail(todo) = <<>>
        BY <1>1, TopFacts DEF Base
  <2>2. <<Top>> \o <<>> = <<Top>> /\ Len(<<Top>>) = 1
        OBVIOUS
  <2> QED  BY <1>2, <2>1, <2>2
<1>4. Head(todo) = Top /\ \A i \in 1..Len(todo) : todo[i] = Top
      BY <1>3 DEF Top
<1>5. SwitchesOf(todo) = {}
  <2>1. \A i \in 1..Len(todo) : todo[i].op # "endSwitch"
        BY <1>1, <1>4
  <2> QED  BY <1>3, <2>1, NoSwitches
<1>6. NowOf(Top) = Pos(0, "end")
      BY <1>1 DEF NowOf
<1>7. Owed(b, todo, switches) = IF b.filled THEN {} ELSE {<<Point(b), Pos(0, "end")>>}
  <2>1. Promises(todo) = {}
        BY <1>1, <1>4 DEF Promises, Promise
  <2>2. EndsOwed(todo, switches) = {}
        BY <1>5 DEF EndsOwed
  <2>3. Current(b, todo) = IF b.filled THEN {} ELSE {<<Point(b), Pos(0, "end")>>}
        BY <1>3, <1>4, <1>6 DEF Current
  <2> QED  BY <2>1, <2>2, <2>3 DEF Owed
<1>8. Extends(b.code, b'.code) /\ (~b.filled => Has(b'.code, Point(b), Ret(0)))
  <2>1. CASE b.filled
        BY <1>1, <2>1, Extending DEF ReturnAtTheEnd
  <2>2. CASE ~b.filled
    <3>1. Ret(0) \in Instrs /\ b' = Ins(b, Ret(0))
      <4>1. 0 \in Nat /\ 1 \in Block
            BY DEF Block
      <4> QED  BY <1>1, <2>2, <4>1, InstrFacts DEF ReturnAtTheEnd
    <3> QED  BY <1>2, <2>2, <3>1, InsPlace
  <2> QED  BY <2>1, <2>2
<1>9. \A L, q : <<L, q>> \in Owed(b, todo, switches) \cup {} =>
        On({}, L, q) \/ Justified(b'.code, (K \cup {}) \cup {}, L, q)
  <2>1. SUFFICES ASSUME ~b.filled
                 PROVE  Justified(b'.code, K, Point(b), Pos(0, "end"))
    <3>1. (K \cup {}) \cup {} = K
          OBVIOUS
    <3>2. \A L, q : <<L, q>> \in Owed(b, todo, switches) =>
            ~b.filled /\ L = Point(b) /\ q = Pos(0, "end")
          BY <1>7
    <3> QED  BY <3>1, <3>2
  <2>2. ~Silent(Pos(0, "end")) /\ Observed(Pos(0, "end")) = [op |-> "ret", node |-> 0]
        BY AtParts
  <2>3. Ret(0).op = "ret" /\ Ret(0).node = 0
        BY DEF Ret, Instr
  <2>4. Runs(b'.code, K, Point(b), Pos(0, "end"))
        BY <1>8, <2>1, <2>2, <2>3 DEF Runs
  <2> QED  BY <2>2, <2>4 DEF Justified
<1>10. Follows(b.code, K, Owed(b, todo, switches)) /\ <<Start(1), Enter(prog.fns[next].body)>> \in K
       BY DEF Sim
<1>11. Follows(b'.code, (K \cup {}) \cup {}, {})
       BY <1>8, <1>9, <1>10, Advance
<1>12. Follows(b'.code, K, {})
  <2>1. (K \cup {}) \cup {} = K
        OBVIOUS
  <2> QED  BY <1>11, <2>1
<1> QED  BY <1>1, <1>10, <1>12 DEF Whole


-----------------------------------------------------------------------------
(* Labels are unique.  A label is seen when its statement is compiled, and   *)
(* labels holds what has been seen since compile began.                     *)

Unseen(m, nx, s) ==
  \/ \E f \in DOMAIN prog.fns : f > nx /\ InBody(f, m)
  \/ s = <<>> /\ InBody(nx, m)
  \/ m \in AheadOf(s, 0)

IsLabel(m) == m \in DOMAIN prog.node /\ Node(m).kind = "label"

OneEach(nx, s, lb) ==
  /\ \A m : IsLabel(m) /\ ~Unseen(m, nx, s) => lb[Node(m).val] # 0
  /\ \A m, n : /\ IsLabel(m) /\ ~Unseen(m, nx, s) /\ IsLabel(n) /\ ~Unseen(n, nx, s)
               /\ Node(m).val = Node(n).val
               => m = n

LabelsSeen == err = "none" => OneEach(next, todo, labels)

\* Nothing has been seen at first.
LEMMA InitLabelsSeen == Init => LabelsSeen
<1> SUFFICES ASSUME Init PROVE LabelsSeen
    OBVIOUS
<1>1. prog \in Programs /\ next = 1 /\ todo = <<>>
      BY DEF Init
<1>2. \A m : IsLabel(m) => Unseen(m, next, todo)
  <2>1. SUFFICES ASSUME NEW m, IsLabel(m) PROVE Unseen(m, next, todo)
        OBVIOUS
  <2>2. PICK f \in DOMAIN prog.fns : InBody(f, m)
        BY <1>1, <2>1, FunctionNodes DEF IsLabel
  <2>3. f = 1 \/ f > 1
    <3>1. f \in 1..Len(prog.fns) /\ Len(prog.fns) \in Nat
          BY <1>1, <2>2, Program
    <3> QED  BY <3>1
  <2> QED  BY <1>1, <2>2, <2>3 DEF Unseen
<1> QED  BY <1>2 DEF LabelsSeen, OneEach

\* What is seen after a step was seen before it, but for one label.
LEMMA OneMoreLabel ==
  ASSUME NEW nx, NEW s, NEW lb \in Maps, OneEach(nx, s, lb), NEW ny, NEW r, NEW c, IsLabel(c),
         lb[Node(c).val] = 0, NEW blk, blk # 0,
         \A m : IsLabel(m) /\ Unseen(m, nx, s) => Unseen(m, ny, r) \/ m = c
  PROVE  OneEach(ny, r, [lb EXCEPT ![Node(c).val] = blk])
<1> DEFINE v == Node(c).val
           lc == [lb EXCEPT ![v] = blk]
<1>1. \A m : IsLabel(m) => Node(m).val \in Vals
      BY DEF IsLabel, Vals
<1>2. lc[v] = blk /\ \A u \in Vals : u # v => lc[u] = lb[u]
  <2>1. v \in Vals
        BY <1>1
  <2> QED  BY <2>1 DEF Maps
<1> HIDE DEF lc
<1>3. \A m : IsLabel(m) /\ ~Unseen(m, ny, r) => m = c \/ lb[Node(m).val] # 0
      BY DEF OneEach
<1>4. \A m : IsLabel(m) /\ ~Unseen(m, ny, r) => lc[Node(m).val] # 0
      BY <1>1, <1>2, <1>3
<1>5. ASSUME NEW m, NEW n, IsLabel(m), ~Unseen(m, ny, r), IsLabel(n), ~Unseen(n, ny, r),
             Node(m).val = Node(n).val
      PROVE  m = n
  <2>1. CASE m = c \/ n = c
        BY <1>3, <1>5, <2>1
  <2>2. CASE m # c /\ n # c
    <3>1. ~Unseen(m, nx, s) /\ ~Unseen(n, nx, s)
          BY <1>5, <2>2
    <3> QED  BY <1>5, <3>1 DEF OneEach
  <2> QED  BY <2>1, <2>2
<1>6. OneEach(ny, r, lc)
      BY <1>4, <1>5 DEF OneEach
<1> QED  BY <1>6 DEF lc

\* What is unseen stays unseen, and the labels stay.
LEMMA NoMoreLabels ==
  ASSUME NEW nx, NEW s, NEW lb, OneEach(nx, s, lb), NEW ny, NEW r,
         \A m : IsLabel(m) /\ Unseen(m, nx, s) => Unseen(m, ny, r)
  PROVE  OneEach(ny, r, lb)
  BY DEF OneEach

\* A function begins: its statements are ahead.
LEMMA BeginSeen ==
  ASSUME IInv, BeginFunction, NEW m, IsLabel(m), Unseen(m, next, todo)
  PROVE  Unseen(m, next, todo')
<1> DEFINE body == prog.fns[next].body
           x    == Stmt(body)
           e    == Task("endFunction", next, <<>>, FALSE)
<1>1. prog \in Programs /\ todo = <<>> /\ todo' = <<x, e>> /\ m \in DOMAIN prog.node
      BY DEF BeginFunction, IInv, IsLabel
<1>2. CASE \E f \in DOMAIN prog.fns : f > next /\ InBody(f, m)
      BY <1>2 DEF Unseen
<1>3. CASE InBody(next, m)
  <2>1. m \in Sub(body)
        BY <1>1, <1>3, FunctionNodes
  <2>2. Ahead(x) = Sub(body)
        BY ThenOf DEF Ahead
  <2> HIDE DEF x, e
  <2>3. Len(todo') = 2 /\ Caller(todo', 2) = x
    <3>1. Len(todo') = 2 /\ todo'[1] = x
          BY <1>1
    <3>2. 2 + 1 - 2 = 1
          OBVIOUS
    <3> QED  BY <3>1, <3>2 DEF Caller
  <2>4. 2 \in 0 + 1..2
        OBVIOUS
  <2>5. Ahead(x) \subseteq AheadOf(todo', 0)
        BY <2>3, <2>4 DEF AheadOf
  <2> QED  BY <2>1, <2>2, <2>5 DEF Unseen
<1>4. CASE m \in AheadOf(todo, 0)
  <2>1. Len(<<>>) = 0 /\ 0 + 1..0 = {}
        OBVIOUS
  <2>2. AheadOf(todo, 0) = {}
        BY <1>1, <2>1 DEF AheadOf
  <2> QED  BY <1>4, <2>2
<1> QED  BY <1>2, <1>3, <1>4 DEF Unseen

\* A function ends: nothing of it is ahead.
LEMMA EndSeen ==
  ASSUME IInv, EndFunction, err' = "none", NEW m, IsLabel(m), Unseen(m, next, todo)
  PROVE  Unseen(m, next', todo')
<1>1. Running /\ Top.op = "endFunction" /\ Pop /\ next' = next + 1
      BY DEF EndFunction, At, Fail
<1>2. todo' = <<>> /\ todo \in Seq(Tasks) /\ todo # <<>> /\ Tail(todo) = <<>>
      BY <1>1, TopFacts DEF Pop, IInv, StackOK, Frames, Running
<1>3. m \notin AheadOf(todo, 0)
  <2>1. Len(todo) = 1 /\ todo[1] = Top
    <3>1. Len(Tail(todo)) = Len(todo) - 1 /\ Len(todo) \in Nat /\ Head(todo) = todo[1]
          BY <1>2, TailOf
    <3>2. Len(<<>>) = 0
          OBVIOUS
    <3>3. Len(Tail(todo)) = 0
          BY <1>2, <3>2
    <3>4. Len(todo) = 1
          BY <3>1, <3>3
    <3> QED  BY <3>1, <3>4 DEF Top
  <2>2. \A k \in 0 + 1..Len(todo) : Caller(todo, k) = Top
    <3>1. \A k \in 0 + 1..1 : 1 + 1 - k = 1
          OBVIOUS
    <3> QED  BY <2>1, <3>1 DEF Caller
  <2>3. Ahead(Top) = {}
        BY <1>1 DEF Ahead
  <2> QED  BY <2>2, <2>3 DEF AheadOf
<1>4. PICK f \in DOMAIN prog.fns : f > next /\ InBody(f, m)
      BY <1>2, <1>3 DEF Unseen
<1>5. f = next + 1 \/ f > next + 1
  <2>1. next \in Nat /\ f \in Nat
    <3>1. DOMAIN prog.fns = 1..Len(prog.fns) /\ Len(prog.fns) \in Nat /\ next \in Nat
          BY Program DEF IInv, ResultTypes
    <3> QED  BY <3>1
  <2> QED  BY <1>4, <2>1
<1> QED  BY <1>1, <1>2, <1>4, <1>5 DEF Unseen


\* Every step keeps it: a second label of a name is refused.
LEMMA StepLabelsSeen ==
  ASSUME Base, IInv', LabelsSeen, [Next]_vars
  PROVE  err' = "none" => OneEach(next', todo', labels')
<1>1. SUFFICES ASSUME err' = "none" PROVE OneEach(next', todo', labels')
      OBVIOUS
<1>2. IInv /\ labels \in Maps /\ prog \in Programs
      BY DEF Base, IInv
<1>3. CASE BeginFunction
  <2>1. OneEach(next, todo, labels) /\ next' = next /\ labels' = labels
        BY <1>3 DEF BeginFunction, LabelsSeen
  <2>2. \A m : IsLabel(m) /\ Unseen(m, next, todo) => Unseen(m, next, todo')
        BY <1>2, <1>3, BeginSeen
  <2> QED  BY <2>1, <2>2, NoMoreLabels
<1>4. CASE EndFunction
  <2>1. OneEach(next, todo, labels) /\ labels' = labels
        BY <1>4 DEF EndFunction, LabelsSeen, At, Running, Fail
  <2>2. \A m : IsLabel(m) /\ Unseen(m, next, todo) => Unseen(m, next', todo')
        BY <1>1, <1>2, <1>4, EndSeen
  <2> QED  BY <2>1, <2>2, NoMoreLabels
<1>5. CASE Unreachable
      BY <1>1, <1>5 DEF Unreachable, Fail
<1>6. CASE UNCHANGED vars
      BY <1>1, <1>6 DEF vars, LabelsSeen
<1>7. CASE Stepping
  <2>1. /\ Running /\ Top.op # "endFunction" /\ Tail(todo) \in Seq(Tasks)
        /\ \E ts : Shape(Top, ts) /\ todo' = ts \o Tail(todo)
        BY <1>1, <1>2, <1>7, StepShape
  <2>2. PICK ts : Shape(Top, ts) /\ todo' = ts \o Tail(todo)
        BY <2>1
  <2>3. todo # <<>> /\ OneEach(next, todo, labels) /\ next' = next
    <3>1. next' = next
          BY <1>7 DEF Stepping, Compound, Expression, DeclareStack, Return, If, EndIf, Else, EndElse,
             For, While, EndWhile, Do, EndDo, Switch, EndSwitch, Case, Default, Label, Goto, LoopExit,
             Fail, Frame
    <3> QED  BY <2>1, <3>1 DEF Running, LabelsSeen
  <2>4. \A m : Unseen(m, next, todo) => Unseen(m, next, todo') \/ (Top.op = "stmt" /\ m = Top.node)
    <3>1. 0 \in 0..Len(Tail(todo))
      <4>1. Len(Tail(todo)) \in Nat
            BY <2>1
      <4> QED  BY <4>1
    <3>2. \A m \in AheadOf(todo, 0) :
            m \in AheadOf(ts \o Tail(todo), 0) \/ (Top.op = "stmt" /\ m = Top.node)
          BY <2>1, <2>2, <3>1, AheadStays
    <3> QED  BY <2>2, <2>3, <3>2 DEF Unseen
  <2>5. CASE Label
    <3> DEFINE c == Top.node
    <3>1. /\ Compiling("label") /\ labels[Node(c).val] = 0
          /\ labels' = [labels EXCEPT ![Node(c).val] = Fresh(b, 1)]
          BY <1>1, <2>5 DEF Label, Bind
    <3>2. IsLabel(c)
          BY <1>2, <3>1, CompilingFacts DEF IsLabel
    <3>3. Fresh(b, 1) # 0
      <4>1. Len(b.code) \in Nat
            BY <1>2, <2>1, TopFacts
      <4> QED  BY <4>1 DEF Fresh
    <3>4. \A m : IsLabel(m) /\ Unseen(m, next, todo) => Unseen(m, next, todo') \/ m = c
          BY <2>4
    <3> HIDE DEF c
    <3>5. OneEach(next, todo', [labels EXCEPT ![Node(c).val] = Fresh(b, 1)])
          BY <1>2, <2>3, <3>1, <3>2, <3>3, <3>4, OneMoreLabel
    <3> QED  BY <2>3, <3>1, <3>5
  <2>6. CASE ~Label
    <3>1. labels' = labels
          BY <1>7, <2>6 DEF Stepping, Compound, Expression, DeclareStack, Return, If, EndIf, Else, EndElse,
             For, While, EndWhile, Do, EndDo, Switch, EndSwitch, Case, Default, Goto, LoopExit,
             Fail, Frame
    <3>2. Top.op = "stmt" => Node(Top.node).kind # "label"
          BY <1>7, <2>6 DEF Stepping, Compound, Expression, DeclareStack, Return, If, EndIf, Else, EndElse,
             For, While, EndWhile, Do, EndDo, Switch, EndSwitch, Case, Default, Goto, LoopExit,
             Compiling, At
    <3>3. \A m : IsLabel(m) /\ Unseen(m, next, todo) => Unseen(m, next, todo')
          BY <2>4, <3>2 DEF IsLabel
    <3> QED  BY <2>3, <3>1, <3>3, NoMoreLabels
  <2> QED  BY <2>5, <2>6
<1> QED  BY <1>3, <1>4, <1>5, <1>6, <1>7, StepKinds

\* A program that compiles has one label of each name.
LEMMA CompiledLabels ==
  ASSUME prog \in Programs, next \in Nat, LabelsSeen, Compiled
  PROVE  NoDouble
<1>1. todo = <<>> /\ next > Len(prog.fns) /\ OneEach(next, todo, labels)
      BY DEF Compiled, LabelsSeen
<1>2. DOMAIN prog.fns = 1..Len(prog.fns) /\ Len(prog.fns) \in Nat
      BY Program
<1>3. \A f \in DOMAIN prog.fns : ~(f > next)
      BY <1>1, <1>2
<1>4. \A m : ~InBody(next, m)
      BY <1>1, <1>2 DEF InBody
<1>5. AheadOf(<<>>, 0) = {}
  <2>1. Len(<<>>) = 0 /\ 0 + 1..0 = {}
        OBVIOUS
  <2> QED  BY <2>1 DEF AheadOf
<1>6. \A m : ~Unseen(m, next, todo)
      BY <1>1, <1>3, <1>4, <1>5 DEF Unseen
<1> QED  BY <1>1, <1>6 DEF OneEach, NoDouble, IsLabel


-----------------------------------------------------------------------------
(* A step of the compiler.                                                  *)

\* Every step inside a function that does not enter a case or default in a block that
\* has code keeps the promises.
LEMMA SteppingSim ==
  ASSUME Base, LoopsStart, OwnLabels, NoDouble, ~SkippingContinue,
         NEW K, Sim(b, todo, switches, labels, next, K), Stepping, err' = "none",
         Case \/ Default => (~b.filled => b.code[b.cur] = <<>>)
  PROVE  SimNext
<1>1. CASE Compound \/ Expression \/ DeclareStack \/ Return
      BY <1>1, CompoundSim, ExpressionSim, DeclareSim, ReturnSim
<1>2. CASE If \/ EndIf \/ Else \/ EndElse
      BY <1>2, IfSim, EndIfSim, ElseSim, EndElseSim
<1>3. CASE For \/ While \/ EndWhile
      BY <1>3, ForSim, WhileSim, EndWhileSim
<1>4. CASE Do
      BY <1>4, DoSim
<1>5. CASE EndDo
      BY <1>5, EndDoSim
<1>6. CASE Switch \/ EndSwitch
      BY <1>6, SwitchSim, EndSwitchSim
<1>7. CASE Case \/ Default
      BY <1>7, CaseSim, DefaultSim
<1>8. CASE Label
      BY <1>8, LabelSim
<1>9. CASE Goto
      BY <1>9, GotoSim
<1>10. CASE LoopExit
      BY <1>10, LoopExitSim
<1> QED  BY <1>1, <1>2, <1>3, <1>4, <1>5, <1>6, <1>7, <1>8, <1>9, <1>10 DEF Stepping

\* What is said of the code does not change with the variables of the compiler.
LEMMA SameJustified ==
  ASSUME prog' = prog
  PROVE  /\ \A K, L, p : On(K, L, p)' <=> On(K, L, p)
         /\ \A c, K, L, q : Justified(c, K, L, q)' <=> Justified(c, K, L, q)
         /\ \A c, K, P : Follows(c, K, P)' <=> Follows(c, K, P)
<1>1. Vals' = Vals
      BY SameSource
<1>2. \A p, q : Falls(p, q)' <=> Falls(p, q)
      BY SamePlaces DEF Falls
<1>3. \A K, L, p : On(K, L, p)' <=> On(K, L, p)
      BY <1>2 DEF On
<1>4. \A ins, L, v : Goal(ins, L, v)' = Goal(ins, L, v)
      BY <1>1 DEF Goal
<1>5. \A c, K, L, q : Runs(c, K, L, q)' <=> Runs(c, K, L, q)
      BY <1>3, <1>4, SamePlaces DEF Runs
<1>6. \A c, K, L, q : Justified(c, K, L, q)' <=> Justified(c, K, L, q)
      BY <1>3, <1>5, SamePlaces DEF Justified
<1>7. \A c, K, P : Follows(c, K, P)' <=> Follows(c, K, P)
      BY <1>6 DEF Follows
<1> QED  BY <1>3, <1>6, <1>7

\* Neither does what the stack promises.
LEMMA SameOwed ==
  ASSUME prog' = prog
  PROVE  /\ \A bl, s, sw : Owed(bl, s, sw)' = Owed(bl, s, sw)
         /\ \A s, c, K : AllKept(s, c, K)' <=> AllKept(s, c, K)
<1>1. \A t : Then(t)' = Then(t) /\ NowOf(t)' = NowOf(t)
      BY SameStack
<1>2. \A n, i : Kid(n, i)' = Kid(n, i)
      BY SameSource
<1>3. \A bl, s : Current(bl, s)' = Current(bl, s)
      BY <1>1 DEF Current
<1>4. \A t : Promise(t)' = Promise(t)
      BY <1>1, <1>2 DEF Promise
<1>5. \A s : Promises(s)' = Promises(s)
      BY <1>4 DEF Promises
<1>6. \A s, sw : EndsOwed(s, sw)' = EndsOwed(s, sw)
      BY <1>1 DEF EndsOwed
<1>7. \A bl, s, sw : Owed(bl, s, sw)' = Owed(bl, s, sw)
      BY <1>3, <1>5, <1>6 DEF Owed
<1>8. \A t, c, K : Kept(t, c, K)' <=> Kept(t, c, K)
      BY <1>2, SameJustified DEF Kept
<1>9. \A s, c, K : AllKept(s, c, K)' <=> AllKept(s, c, K)
      BY <1>8 DEF AllKept
<1> QED  BY <1>7, <1>9

\* Nor what is known of switches and labels.
LEMMA SameSim ==
  ASSUME prog' = prog
  PROVE  /\ \A bl, s, sw, lb, nx, K : Sim(bl, s, sw, lb, nx, K)' <=> Sim(bl, s, sw, lb, nx, K)
         /\ \A c, f : Whole(c, f)' <=> Whole(c, f)
         /\ \A nx, s, lb : OneEach(nx, s, lb)' <=> OneEach(nx, s, lb)
         /\ OwnLabels' <=> OwnLabels
         /\ NoDouble' <=> NoDouble
         /\ SkippingContinue' <=> SkippingContinue
<1>1. /\ \A n : Node(n)' = Node(n)
      /\ \A n, K : Entries(n, K)' = Entries(n, K) /\ Around(n, K)' = Around(n, K)
      /\ \A n, K : Innermost(n, K)' = Innermost(n, K)
      /\ \A f, n : InBody(f, n)' <=> InBody(f, n)
      /\ Vals' = Vals
      BY SameSource
<1>2. \A s, h : AheadOf(s, h)' = AheadOf(s, h)
      BY SameStack
<1>3. \A n, e, A, K : SwitchKnown(n, e, A, K)' <=> SwitchKnown(n, e, A, K)
      BY <1>1 DEF SwitchKnown
<1>4. \A s, sw, K : SwitchesKnown(s, sw, K)' <=> SwitchesKnown(s, sw, K)
      BY <1>2, <1>3 DEF SwitchesKnown
<1>5. \A lb, nx, K : LabelsKnown(lb, nx, K)' <=> LabelsKnown(lb, nx, K)
      BY <1>1 DEF LabelsKnown
<1>6. \A bl, s, sw, lb, nx, K : Sim(bl, s, sw, lb, nx, K)' <=> Sim(bl, s, sw, lb, nx, K)
      BY <1>4, <1>5, SameJustified, SameOwed DEF Sim
<1>7. \A c, f : Whole(c, f)' <=> Whole(c, f)
      BY SameJustified DEF Whole
<1>8. \A m : IsLabel(m)' <=> IsLabel(m)
      BY <1>1 DEF IsLabel
<1>9. \A m, nx, s : Unseen(m, nx, s)' <=> Unseen(m, nx, s)
      BY <1>1, <1>2 DEF Unseen
<1>10. \A nx, s, lb : OneEach(nx, s, lb)' <=> OneEach(nx, s, lb)
       BY <1>1, <1>8, <1>9 DEF OneEach
<1>11. OwnLabels' <=> OwnLabels
       BY <1>1 DEF OwnLabels
<1>12. NoDouble' <=> NoDouble
       BY <1>1 DEF NoDouble
<1>13. SkippingContinue' <=> SkippingContinue
       BY <1>1 DEF SkippingContinue
<1> QED  BY <1>6, <1>7, <1>10, <1>11, <1>12, <1>13

-----------------------------------------------------------------------------
(* The compiler's invariant.                                                *)

\* What is known of the compiler while it works.
Built ==
  /\ IInv /\ NInv /\ CInv /\ Placed
  /\ OwnLabels => LoopsStart /\ LabelsSeen

\* A program that the two known defects of the sources leave alone: its labels
\* are its functions' own and bound once, and no continue is in a while or a for.
Proper == OwnLabels /\ NoDouble /\ ~SkippingContinue

\* The unfinished function keeps the promises of its stack.
Simulated == err = "none" /\ todo # <<>> => \E K : Sim(b, todo, switches, labels, next, K)

\* The finished functions do what their statements say.
Finished ==
  err = "none" => Len(out) = next - 1 /\ \A f \in DOMAIN out : Whole(out[f], f)

Faithful == Proper /\ ~shared => Simulated /\ Finished

\* No step changes the program.
LEMMA SameProgram ==
  ASSUME [Next]_vars
  PROVE  prog' = prog
<1>1. CASE BeginFunction \/ EndFunction \/ Unreachable
      BY <1>1 DEF BeginFunction, EndFunction, Unreachable, Fail
<1>2. CASE Compound \/ Expression \/ DeclareStack \/ Return \/ If \/ EndIf \/ Else \/ EndElse
      BY <1>2 DEF Compound, Expression, DeclareStack, Return, If, EndIf, Else, EndElse, Frame
<1>3. CASE For \/ While \/ EndWhile \/ Do \/ EndDo \/ Switch \/ EndSwitch
      BY <1>3 DEF For, While, EndWhile, Do, EndDo, Switch, EndSwitch, Fail, Frame
<1>4. CASE Case \/ Default \/ Label \/ Goto \/ LoopExit
      BY <1>4 DEF Case, Default, Label, Goto, LoopExit, Fail, Frame
<1>5. CASE UNCHANGED vars
      BY <1>5 DEF vars
<1> QED  BY <1>1, <1>2, <1>3, <1>4, <1>5, StepKinds DEF Stepping

\* A step inside a function finishes none.
LEMMA SameResults ==
  ASSUME Stepping
  PROVE  next' = next /\ out' = out /\ Running
<1>1. CASE Compound \/ Expression \/ DeclareStack \/ Return \/ If \/ EndIf \/ Else \/ EndElse
      BY <1>1 DEF Compound, Expression, DeclareStack, Return, If, EndIf, Else, EndElse, Frame,
                  Compiling, At
<1>2. CASE For \/ While \/ EndWhile \/ Do \/ EndDo \/ Switch \/ EndSwitch
      BY <1>2 DEF For, While, EndWhile, Do, EndDo, Switch, EndSwitch, Fail, Frame, Compiling, At
<1>3. CASE Case \/ Default \/ Label \/ Goto \/ LoopExit
      BY <1>3 DEF Case, Default, Label, Goto, LoopExit, Fail, Frame, Compiling, At
<1> QED  BY <1>1, <1>2, <1>3 DEF Stepping

\* What is known holds at the start.
LEMMA InitBuilt == Init => Built
<1> SUFFICES ASSUME Init PROVE Built
    OBVIOUS
<1>1. IInv /\ NInv /\ CInv /\ Placed /\ LabelsSeen
      BY InitIInv, InitNInv, InitCInv, InitPlaced, InitLabelsSeen
<1>2. LoopsStart
  <2>1. Len(<<>>) = 0
        OBVIOUS
  <2>2. LoopsOf(todo) = {}
        BY <2>1 DEF Init, LoopsOf, OpenAt
  <2> QED  BY <2>2 DEF LoopsStart, DoStarts
<1> QED  BY <1>1, <1>2 DEF Built

\* With what is known, everything holds that the steps rely on.
LEMMA BuiltBase ==
  ASSUME Built, OwnLabels
  PROVE  Base /\ LoopsStart /\ LabelsSeen
BY DEF Built, CInv, Base

\* Every step keeps what is known.
LEMMA StepBuilt ==
  ASSUME Built, [Next]_vars
  PROVE  Built'
<1>1. prog' = prog
      BY SameProgram
<1>2. IInv' /\ NInv' /\ CInv'
      BY StepKeeps, StepContext, StepKeepsCode DEF Built
<1>3. Placed'
      BY <1>2, StepPlaced DEF Built
<1>4. ASSUME OwnLabels' PROVE LoopsStart' /\ LabelsSeen'
  <2>1. OwnLabels
        BY <1>1, <1>4, SameSim
  <2>2. Base /\ LoopsStart /\ LabelsSeen
        BY <2>1, BuiltBase
  <2>3. LoopsStart'
        BY <1>2, <2>2, StepLoopsStart
  <2>4. err' = "none" => OneEach(next', todo', labels')
        BY <1>2, <2>2, StepLabelsSeen
  <2>5. \A nx, s, lb : OneEach(nx, s, lb)' <=> OneEach(nx, s, lb)
        BY <1>1, SameSim
  <2>6. LabelsSeen'
        BY <2>4, <2>5 DEF LabelsSeen
  <2> QED  BY <2>3, <2>6
<1> QED  BY <1>2, <1>3, <1>4 DEF Built

\* A case or default that adds its block to the record of its switch changes it.
LEMMA EntryRecorded ==
  ASSUME Base, Case \/ Default, err' = "none"
  PROVE  switches' # switches /\ Len(switches') = Len(switches)
<1> DEFINE v == Node(Top.node).val
           n == Len(switches)
<1>1. "CaseOutsideSwitch" # "none" /\ "DuplicateCase" # "none"
      OBVIOUS
<1>2. Running /\ Top.op = "stmt" /\ Node(Top.node).kind \in {"case", "default"}
      BY DEF Case, Default, Compiling, At
<1>3. switches # <<>>
      BY <1>1 DEF Case, Default, Fail
<1>4. switches \in Seq(SwitchSet) /\ n \in 1..n
  <2>1. switches \in Seq(SwitchSet)
        BY DEF Base, IInv, ContextTypes
  <2> QED  BY <2>1, <1>3
<1>5. LastSwitch \in SwitchSet
      BY <1>4 DEF LastSwitch
<1>6. EntryBlock \in Block /\ EntryBlock # 0
  <2>1. Good(b, Instrs)
        BY <1>2, BaseTop
  <2>2. EntryBlock \in Block
        BY <2>1, EntryTight
  <2> QED  BY <2>2 DEF Block
<1>7. v \in Vals
  <2>1. Top.node \in DOMAIN prog.node
        BY <1>2, TopHere DEF Base, ScopeOK
  <2> QED  BY <2>1 DEF Vals, Node
<1>8. CASE Case
  <2> DEFINE w == [LastSwitch EXCEPT !.cases[v] = EntryBlock]
  <2>1. LastSwitch.cases[v] = 0 /\ SetSwitch(w)
        BY <1>1, <1>8 DEF Case, Fail
  <2>2. w.cases[v] = EntryBlock
        BY <1>5, <1>7 DEF SwitchSet, Maps
  <2>3. w # switches[n]
        BY <1>6, <2>1, <2>2 DEF LastSwitch
  <2> HIDE DEF w, v
  <2>4. Len(switches') = n /\ switches'[n] = w
        BY <1>4, <2>1, ExceptSeq DEF SetSwitch
  <2> QED  BY <2>3, <2>4
<1>9. CASE Default
  <2> DEFINE w == [LastSwitch EXCEPT !.default = EntryBlock]
  <2>1. LastSwitch.default = 0 /\ SetSwitch(w)
        BY <1>1, <1>9 DEF Default, Fail
  <2>2. w.default = EntryBlock
        BY <1>5 DEF SwitchSet
  <2>3. w # switches[n]
        BY <1>6, <2>1, <2>2 DEF LastSwitch
  <2> HIDE DEF w, v
  <2>4. Len(switches') = n /\ switches'[n] = w
        BY <1>4, <2>1, ExceptSeq DEF SetSwitch
  <2> QED  BY <2>3, <2>4
<1> QED  BY <1>8, <1>9

\* When a step inside a function is not marked as sharing a block, a case or default
\* that takes the current block takes an empty one.
LEMMA EntryAlone ==
  ASSUME Base, Lower, ~shared', err' = "none"
  PROVE  ~shared /\ (Case \/ Default => (~b.filled => b.code[b.cur] = <<>>))
<1>1. shared' = (shared \/ /\ switches' # switches /\ Len(switches') = Len(switches)
                           /\ ~b.filled /\ b.code[b.cur] # <<>>)
      BY DEF Lower
<1>2. ASSUME Case \/ Default PROVE switches' # switches /\ Len(switches') = Len(switches)
      BY <1>2, EntryRecorded
<1> QED  BY <1>1, <1>2

\* Nothing has been compiled at the start.
LEMMA InitFaithful == Init => Faithful
<1> SUFFICES ASSUME Init PROVE Simulated /\ Finished
    BY DEF Faithful
<1>1. todo = <<>> /\ out = <<>> /\ next = 1
      BY DEF Init
<1>2. Len(<<>>) = 0 /\ DOMAIN <<>> = {}
      OBVIOUS
<1> QED  BY <1>1, <1>2 DEF Simulated, Finished

\* The next function is begun with its promises kept.
LEMMA BeginFaithful ==
  ASSUME Base, Finished, BeginFunction
  PROVE  Simulated' /\ Finished'
<1>1. SimNext
      BY BeginSim DEF Base
<1>2. prog' = prog /\ next' = next /\ out' = out /\ err' = err
      BY DEF BeginFunction
<1>3. Simulated'
      BY <1>1, <1>2, SameSim DEF Simulated, SimNext
<1>4. Finished'
      BY <1>2, SameSim DEF Finished
<1> QED  BY <1>3, <1>4

\* A finished function keeps its promises to nobody: it does what it says.
LEMMA EndFaithful ==
  ASSUME Base, Simulated, Finished, EndFunction
  PROVE  Simulated' /\ Finished'
<1>1. CASE err' # "none"
      BY <1>1 DEF Simulated, Finished
<1>2. CASE err' = "none"
  <2>1. Running /\ err = "none" /\ todo # <<>> /\ Top.op = "endFunction"
        BY DEF EndFunction, At, Running
  <2>2. PICK K : Sim(b, todo, switches, labels, next, K)
        BY <2>1 DEF Simulated
  <2>3. /\ out' = Append(out, b'.code) /\ next' = next + 1 /\ prog' = prog
        /\ Whole(b'.code, next)
        BY <1>2, <2>2, EndSim
  <2>4. todo' = <<>>
    <3>1. todo' = Tail(todo)
      <4>1. "MissingReturn" # "none"
            OBVIOUS
      <4> QED  BY <1>2, <4>1 DEF EndFunction, Fail, Pop
    <3>2. Frames(todo, prog)
          BY DEF Base, IInv, StackOK
    <3> QED  BY <2>1, <3>1, <3>2, PopFrames DEF Top
  <2>5. Simulated'
        BY <2>4 DEF Simulated
  <2>6. out \in Seq(Code) /\ next \in Nat
        BY DEF Base, IInv, ResultTypes
  <2>7. Len(out) = next - 1 /\ \A f \in DOMAIN out : Whole(out[f], f)
        BY <2>1 DEF Finished
  <2>8. /\ Len(out') = next /\ DOMAIN out' = 1..next /\ out'[next] = b'.code
        /\ \A f \in 1..Len(out) : out'[f] = out[f]
    <3>1. /\ Len(out') = Len(out) + 1 /\ out'[Len(out) + 1] = b'.code
          /\ \A f \in 1..Len(out) : out'[f] = out[f]
          BY <2>3, <2>6
    <3>2. DOMAIN out' = 1..Len(out) + 1
          BY <2>3, <2>6
    <3> QED  BY <2>6, <2>7, <3>1, <3>2
  <2>9. \A f \in DOMAIN out' : Whole(out'[f], f)
    <3> SUFFICES ASSUME NEW f \in 1..next PROVE Whole(out'[f], f)
        BY <2>8
    <3>1. f = next \/ f \in 1..Len(out)
          BY <2>6, <2>7
    <3>2. f \in 1..Len(out) => f \in DOMAIN out
          BY <2>6
    <3> QED  BY <2>3, <2>7, <2>8, <3>1, <3>2
  <2> QED  BY <2>3, <2>5, <2>6, <2>8, <2>9, SameSim DEF Finished
<1> QED  BY <1>1, <1>2

\* Every step of the compiler keeps its promises.
LEMMA LowerFaithful ==
  ASSUME Built, Faithful, Lower
  PROVE  Faithful'
<1>1. [Next]_vars /\ prog' = prog
      BY SameProgram DEF Lower, Next
<1> SUFFICES ASSUME Proper', ~shared' PROVE Simulated' /\ Finished'
    BY DEF Faithful
<1>2. Proper
      BY <1>1, SameSim DEF Proper
<1>3. Base /\ LoopsStart
      BY <1>2, BuiltBase DEF Proper
<1>4. ~shared
      BY DEF Lower
<1>5. Simulated /\ Finished
      BY <1>2, <1>4 DEF Faithful
<1>6. CASE err' # "none"
      BY <1>6 DEF Simulated, Finished
<1>7. CASE BeginFunction
      BY <1>3, <1>5, <1>7, BeginFaithful
<1>8. CASE EndFunction
      BY <1>3, <1>5, <1>8, EndFaithful
<1>9. CASE Stepping /\ err' = "none"
  <2>1. next' = next /\ out' = out /\ Running
        BY <1>9, SameResults
  <2>2. PICK K : Sim(b, todo, switches, labels, next, K)
        BY <1>5, <2>1 DEF Simulated, Running
  <2>3. Case \/ Default => (~b.filled => b.code[b.cur] = <<>>)
        BY <1>3, <1>9, EntryAlone
  <2>4. SimNext
        BY <1>2, <1>3, <1>9, <2>2, <2>3, SteppingSim DEF Proper
  <2>5. Simulated'
        BY <1>1, <2>4, SameSim DEF Simulated, SimNext
  <2>6. Finished'
        BY <1>1, <1>5, <2>1, SameSim DEF Finished, Running
  <2> QED  BY <2>5, <2>6
<1>10. CASE Unreachable
  <2>1. "UnreachableStatement" # "none"
        OBVIOUS
  <2> QED  BY <1>6, <1>10, <2>1 DEF Unreachable, Fail
<1>11. BeginFunction \/ EndFunction \/ Unreachable \/ Stepping
       BY DEF Lower, Step, Stepping
<1> QED  BY <1>6, <1>7, <1>8, <1>9, <1>10, <1>11

-----------------------------------------------------------------------------
(* The execution.                                                           *)

\* Jumps that lead to a place lead on to where it leads.
LEMMA LeadingOn ==
  ASSUME NEW c, NEW L, NEW M, NEW N, Leads(c, L, M), Leads(c, M, N)
  PROVE  Leads(c, L, N)
<1>1. PICK S : L \in S /\ \A z \in S : z = M \/ \E w \in S : Hop(c, z, w)
      BY DEF Leads
<1>2. PICK R : M \in R /\ \A z \in R : z = N \/ \E w \in R : Hop(c, z, w)
      BY DEF Leads
<1> DEFINE U == S \cup R
<1>3. L \in U
      BY <1>1
<1>4. ASSUME NEW z \in U PROVE z = N \/ \E w \in U : Hop(c, z, w)
      BY <1>1, <1>2
<1> HIDE DEF U
<1> QED  BY <1>3, <1>4 DEF Leads

\* Where the source does not evaluate anything, the code still leads to a place
\* that does what the source does next.
LEMMA SourceOn ==
  ASSUME NEW c, NEW K, Follows(c, K, {}), NEW P, NEW L, Leads(c, P, L), NEW p,
         On(K, L, p), Silent(p)
  PROVE  \E N : Leads(c, P, N) /\ On(K, N, Silently(p))
<1>1. PICK q : Falls(p, q) /\ <<L, q>> \in K
      BY DEF On
<1>2. PICK X : p \in X /\ \A z \in X : z = q \/ (Silent(z) /\ Silently(z) \in X)
      BY <1>1 DEF Falls
<1>3. CASE p # q
  <2>1. Falls(Silently(p), q)
        BY <1>2, <1>3 DEF Falls
  <2> QED  BY <1>1, <2>1 DEF On
<1>4. CASE p = q
  <2>1. Justified(c, K, L, p)
        BY <1>1, <1>4 DEF Follows
  <2>2. PICK N : Leads(c, L, N) /\ On(K, N, Silently(p))
        BY <2>1 DEF Justified
  <2>3. Leads(c, P, N)
        BY <2>2, LeadingOn
  <2> QED  BY <2>2, <2>3
<1> QED  BY <1>3, <1>4

\* Where the source evaluates something, the code evaluates the same, or jumps to
\* where it will.
LEMMA CodeOn ==
  ASSUME NEW c, NEW K, Follows(c, K, {}), NEW P, NEW L, Leads(c, P, L), NEW p,
         On(K, L, p), ~Silent(p)
  PROVE  \/ Runs(c, K, P, p)
         \/ \E M, N : Hop(c, P, M) /\ Leads(c, M, N) /\ On(K, N, p)
<1>1. PICK q : Falls(p, q) /\ <<L, q>> \in K
      BY DEF On
<1>2. p = q
      BY <1>1 DEF Falls
<1>3. PICK S : P \in S /\ \A z \in S : z = L \/ \E w \in S : Hop(c, z, w)
      BY DEF Leads
<1>4. CASE P # L
  <2>1. PICK w \in S : Hop(c, P, w)
        BY <1>3, <1>4
  <2>2. Leads(c, w, L)
        BY <1>3, <2>1 DEF Leads
  <2> QED  BY <2>1, <2>2
<1>5. CASE P = L
  <2>1. Justified(c, K, P, p)
        BY <1>1, <1>2, <1>5 DEF Follows
  <2>2. CASE \E M : Hop(c, P, M) /\ <<M, p>> \in K
    <3>1. PICK M : Hop(c, P, M) /\ <<M, p>> \in K
          BY <2>2
    <3>2. Leads(c, M, M) /\ On(K, M, p)
          BY <3>1, Leading, Justifying
    <3> QED  BY <3>1, <3>2
  <2> QED  BY <2>1, <2>2 DEF Justified
<1> QED  BY <1>4, <1>5

\* A position that the source can be at while it runs.
IsAt(p) ==
  p = Pos(p.node, p.stage) /\ p.stage \in {"enter", "done", "cond", "post", "table", "end"}

\* The source goes from position to position.
LEMMA Positions ==
  /\ \A n : IsAt(Enter(n)) /\ IsAt(Leave(n))
  /\ \A p : IsAt(Silently(p))
  /\ \A p, v : IsAt(Evaluated(p, v))
<1>1. /\ \A n : IsAt(Enter(n)) /\ IsAt(Leave(n)) /\ IsAt(Pos(n, "cond")) /\ IsAt(Pos(n, "post"))
      /\ \A n : IsAt(Pos(n, "table")) /\ IsAt(Pos(n, "end"))
      BY DEF IsAt, Enter, Leave, Pos
<1>2. \A m : IsAt(NextInLoop(m))
      BY <1>1 DEF NextInLoop
<1>3. \A n : IsAt(Begun(n))
      BY <1>1, <1>2 DEF Begun
<1>4. \A n, p : IsAt(AfterKid(n, p))
      BY <1>1 DEF AfterKid
<1>5. \A p : IsAt(Silently(p))
      BY <1>1, <1>3, <1>4 DEF Silently
<1>6. \A n, v : IsAt(Selected(n, v))
      BY <1>1 DEF Selected
<1>7. \A p, v : IsAt(Evaluated(p, v))
      BY <1>1, <1>6 DEF Evaluated
<1> QED  BY <1>1, <1>5, <1>7

\* The positions while there is nothing to run, and while something runs.
AtPlace ==
  \/ at = Idle /\ pc = [fn |-> 0, blk |-> 1, idx |-> 1]
  \/ /\ Compiled /\ pc = [fn |-> pc.fn, blk |-> pc.blk, idx |-> pc.idx]
     /\ IsAt(at) \/ at = Pos(at.node, "returned")

\* The code at pc leads to a place that does what the source does from at.
Abreast(code, p, q) ==
  \E K, L : Follows(code, K, {}) /\ Leads(code, <<p.blk, p.idx>>, L) /\ On(K, L, q)

Together == Proper /\ ~shared /\ Executing => Abreast(out[pc.fn], pc, at)

\* The whole invariant of a compilation and of the execution after it.
SInv == Built /\ Faithful /\ AtPlace /\ Together

\* Running is neither waiting nor having returned.
LEMMA ExecutingAt ==
  ASSUME AtPlace, Executing
  PROVE  /\ Compiled /\ pc = [fn |-> pc.fn, blk |-> pc.blk, idx |-> pc.idx]
         /\ IsAt(at) /\ at # Idle
<1>1. "returned" # "idle" /\ at.stage # "returned" /\ at # Idle /\ Compiled
      BY DEF Executing
<1>2. at # Pos(at.node, "returned")
      BY <1>1 DEF Pos
<1> QED  BY <1>1, <1>2 DEF AtPlace

\* A position of the source is not the one before the execution.
LEMMA NotIdle == \A p : IsAt(p) \/ p = Pos(p.node, "returned") => p # Idle
BY DEF IsAt, Pos, Idle

\* What is known of the code after a step of the execution.
LEMMA StillTogether ==
  ASSUME prog' = prog, UNCHANGED <<vars, shared>>, Proper /\ ~shared => Abreast(out[pc'.fn], pc', at')
  PROVE  Together'
<1>1. Proper' <=> Proper
      BY SameSim DEF Proper
<1>2. \A c, p, q : Abreast(c, p, q)' <=> Abreast(c, p, q)
  <2>1. \A c, L, M : Leads(c, L, M)' <=> Leads(c, L, M)
        BY DEF Leads, Hop, Has, Start
  <2> QED  BY <2>1, SameJustified DEF Abreast
<1>3. out' = out /\ shared' = shared
      BY DEF vars
<1> QED  BY <1>1, <1>2, <1>3 DEF Together

\* The execution leaves the compiler alone.
LEMMA StillBuilt ==
  ASSUME Built, Faithful, UNCHANGED <<vars, shared>>
  PROVE  Built' /\ Faithful' /\ prog' = prog /\ (Compiled' <=> Compiled)
<1>1. [Next]_vars /\ prog' = prog
      BY DEF vars
<1>2. Built'
      BY <1>1, StepBuilt
<1>3. Proper' <=> Proper
      BY <1>1, SameSim DEF Proper
<1>4. /\ b' = b /\ todo' = todo /\ switches' = switches /\ labels' = labels /\ next' = next
      /\ err' = err /\ out' = out /\ shared' = shared
      BY DEF vars
<1>5. Simulated' <=> Simulated
      BY <1>1, <1>4, SameSim DEF Simulated
<1>6. Finished' <=> Finished
      BY <1>1, <1>4, SameSim DEF Finished
<1>7. Faithful'
      BY <1>3, <1>4, <1>5, <1>6 DEF Faithful
<1>8. Compiled' <=> Compiled
      BY <1>1, <1>4 DEF Compiled
<1> QED  BY <1>1, <1>2, <1>7, <1>8

\* At the start there is nothing to run.
LEMMA InitSInv == SInit => SInv
<1> SUFFICES ASSUME SInit PROVE SInv
    OBVIOUS
<1>1. Built /\ Faithful
      BY InitBuilt, InitFaithful DEF SInit
<1>2. AtPlace
      BY DEF SInit, AtPlace
<1>3. Together
      BY DEF SInit, Together, Executing
<1> QED  BY <1>1, <1>2, <1>3 DEF SInv

\* While the compiler works nothing is executed.
LEMMA LowerSInv == SInv /\ Lower => SInv'
<1> SUFFICES ASSUME SInv, Lower PROVE SInv'
    OBVIOUS
<1>1. [Next]_vars
      BY DEF Lower, Next
<1>2. Built' /\ Faithful'
      BY <1>1, StepBuilt, LowerFaithful DEF SInv
<1>3. ~Compiled
  <2>1. ASSUME Compiled PROVE FALSE
    <3>1. ~Running /\ todo = <<>> /\ next > Len(prog.fns)
          BY <2>1 DEF Compiled, Running
    <3>2. next \in Nat /\ Len(prog.fns) \in Nat
      <4>1. prog \in Programs /\ next \in Nat
            BY DEF SInv, Built, IInv, ResultTypes
      <4>2. prog.fns \in Seq([body : DOMAIN prog.node, ret : ReturnKind])
            BY <4>1, ProgramsAssumption DEF ProgramOK
      <4> QED  BY <4>1, <4>2
    <3>3. ~BeginFunction
      <4>1. ~(next <= Len(prog.fns))
            BY <3>1, <3>2
      <4> QED  BY <4>1 DEF BeginFunction
    <3>4. ~EndFunction /\ ~Unreachable
          BY <3>1 DEF EndFunction, Unreachable, At
    <3>5. ~Stepping
          BY <3>1, SameResults
    <3> QED  BY <3>3, <3>4, <3>5 DEF Lower, Step, Stepping
  <2> QED  BY <2>1
<1>4. at = Idle /\ at' = at /\ pc' = pc
      BY <1>3 DEF Lower, SInv, AtPlace
<1>5. AtPlace'
  <2>1. pc = [fn |-> 0, blk |-> 1, idx |-> 1]
        BY <1>3 DEF SInv, AtPlace
  <2> QED  BY <1>4, <2>1 DEF AtPlace, Idle
<1>6. Together'
      BY <1>4 DEF Together, Executing, Idle
<1> QED  BY <1>2, <1>5, <1>6 DEF SInv

\* A function is entered at its first block.
LEMMA CallSInv == SInv /\ Call => SInv'
<1> SUFFICES ASSUME SInv, Call PROVE SInv'
    OBVIOUS
<1>1. PICK f \in DOMAIN prog.fns :
        at' = Enter(prog.fns[f].body) /\ pc' = [pc EXCEPT !.fn = f]
      BY DEF Call
<1>2. /\ Built' /\ Faithful' /\ prog' = prog /\ UNCHANGED <<vars, shared>>
      /\ Compiled /\ Compiled'
      BY StillBuilt DEF Call, SInv
<1>3. pc' = [fn |-> f, blk |-> 1, idx |-> 1]
  <2>1. pc = [fn |-> 0, blk |-> 1, idx |-> 1]
        BY NotIdle DEF Call, SInv, AtPlace
  <2> QED  BY <1>1, <2>1
<1>4. IsAt(at')
      BY <1>1, Positions
<1>5. AtPlace'
      BY <1>2, <1>3, <1>4 DEF AtPlace, IsAt, Pos
<1>6. ASSUME Proper, ~shared PROVE Abreast(out[pc'.fn], pc', at')
  <2>1. Len(out) = next - 1 /\ \A g \in DOMAIN out : Whole(out[g], g)
        BY <1>2, <1>6 DEF SInv, Faithful, Finished, Compiled
  <2>2. f \in DOMAIN out
    <3>1. prog \in Programs /\ next \in Nat /\ out \in Seq(Code)
          BY DEF SInv, Built, IInv, ResultTypes
    <3>2. prog.fns \in Seq([body : DOMAIN prog.node, ret : ReturnKind])
          BY <3>1, ProgramsAssumption DEF ProgramOK
    <3>3. f \in 1..Len(prog.fns) /\ Len(prog.fns) \in Nat
          BY <3>2
    <3>4. next > Len(prog.fns)
          BY <1>2 DEF Compiled
    <3> QED  BY <2>1, <3>1, <3>3, <3>4
  <2>3. PICK K : Follows(out[f], K, {}) /\ <<Start(1), Enter(prog.fns[f].body)>> \in K
        BY <2>1, <2>2 DEF Whole
  <2>4. Leads(out[f], Start(1), Start(1)) /\ On(K, Start(1), at')
        BY <1>1, <2>3, Leading, Justifying
  <2>5. pc'.fn = f /\ <<pc'.blk, pc'.idx>> = Start(1)
        BY <1>3 DEF Start
  <2> QED  BY <2>3, <2>4, <2>5 DEF Abreast
<1>7. Together'
      BY <1>2, <1>6, StillTogether
<1> QED  BY <1>2, <1>5, <1>7 DEF SInv

\* The source moves on and the code already leads there.
LEMMA SourceSInv == SInv /\ SourceStep => SInv'
<1> SUFFICES ASSUME SInv, SourceStep PROVE SInv'
    OBVIOUS
<1>1. Executing /\ Silent(at) /\ at' = Silently(at) /\ pc' = pc
      BY DEF SourceStep, Silent
<1>2. /\ Compiled /\ pc = [fn |-> pc.fn, blk |-> pc.blk, idx |-> pc.idx]
      BY <1>1, ExecutingAt DEF SInv
<1>3. /\ Built' /\ Faithful' /\ prog' = prog /\ UNCHANGED <<vars, shared>>
      /\ Compiled /\ Compiled'
      BY <1>2, StillBuilt DEF SourceStep, SInv
<1>4. IsAt(at')
      BY <1>1, Positions
<1>5. AtPlace'
      BY <1>1, <1>2, <1>3, <1>4 DEF AtPlace, IsAt, Pos
<1>6. ASSUME Proper, ~shared PROVE Abreast(out[pc'.fn], pc', at')
  <2>1. Abreast(out[pc.fn], pc, at)
        BY <1>1, <1>6 DEF SInv, Together
  <2> QED  BY <1>1, <2>1, SourceOn DEF Abreast
<1>7. Together'
      BY <1>3, <1>6, StillTogether
<1> QED  BY <1>3, <1>5, <1>7 DEF SInv

\* The instruction at a place is the one that is run there.
LEMMA InstructionAt ==
  ASSUME NEW ins, Has(out[pc.fn], <<pc.blk, pc.idx>>, ins)
  PROVE  ins = Instruction
BY DEF Has, Instruction

\* The code jumps to a place that leads where it led.
LEMMA CodeSInv == SInv /\ CodeStep => SInv'
<1> SUFFICES ASSUME SInv, CodeStep PROVE SInv'
    OBVIOUS
<1> DEFINE P == <<pc.blk, pc.idx>>
           t == Instruction.to[1]
<1>1. /\ Executing /\ ~Silent(at) /\ at' = at /\ pc' = Goes(t)
      /\ Instruction.op = "jump"
      BY DEF CodeStep, Silent
<1>2. /\ Compiled /\ pc = [fn |-> pc.fn, blk |-> pc.blk, idx |-> pc.idx] /\ IsAt(at)
      BY <1>1, ExecutingAt DEF SInv
<1>3. /\ Built' /\ Faithful' /\ prog' = prog /\ UNCHANGED <<vars, shared>>
      /\ Compiled /\ Compiled'
      BY <1>2, StillBuilt DEF CodeStep, SInv
<1> HIDE DEF t
<1>4. pc' = [fn |-> pc.fn, blk |-> t, idx |-> 1]
      BY <1>1, <1>2 DEF Goes
<1>5. AtPlace'
      BY <1>1, <1>2, <1>3, <1>4 DEF AtPlace, IsAt, Pos
<1>6. ASSUME Proper, ~shared PROVE Abreast(out[pc'.fn], pc', at')
  <2>1. Abreast(out[pc.fn], pc, at)
        BY <1>1, <1>6 DEF SInv, Together
  <2>2. PICK K, L : /\ Follows(out[pc.fn], K, {}) /\ Leads(out[pc.fn], P, L)
                    /\ On(K, L, at)
        BY <2>1 DEF Abreast
  <2>3. ~Runs(out[pc.fn], K, P, at)
        BY <1>1, InstructionAt DEF Runs
  <2>4. PICK M, N : Hop(out[pc.fn], P, M) /\ Leads(out[pc.fn], M, N) /\ On(K, N, at)
        BY <1>1, <2>2, <2>3, CodeOn
  <2>5. M = Start(t)
        BY <2>4, InstructionAt DEF Hop, t
  <2>6. <<pc'.blk, pc'.idx>> = M /\ pc'.fn = pc.fn
        BY <1>4, <2>5 DEF Start
  <2> QED  BY <1>1, <2>2, <2>4, <2>6 DEF Abreast
<1>7. Together'
      BY <1>3, <1>6, StillTogether
<1> QED  BY <1>3, <1>5, <1>7 DEF SInv

\* Where both are about to evaluate, they evaluate the same, and what the code does
\* with the value leads where the source goes with it.
LEMMA MeetingRuns ==
  ASSUME SInv, Meeting, Proper, ~shared
  PROVE  /\ Match
         /\ \E K : /\ Follows(out[pc.fn], K, {})
                   /\ Instruction.op # "ret" =>
                        \A v \in Values(at) :
                          On(K, Goal(Instruction, <<pc.blk, pc.idx>>, v), Evaluated(at, v))
<1> DEFINE P == <<pc.blk, pc.idx>>
<1>1. Executing /\ ~Silent(at) /\ Instruction.op # "jump"
      BY DEF Meeting, Silent
<1>2. PICK K, L : /\ Follows(out[pc.fn], K, {}) /\ Leads(out[pc.fn], P, L)
                  /\ On(K, L, at)
      BY <1>1 DEF SInv, Together, Abreast
<1>3. \A M : ~Hop(out[pc.fn], P, M)
      BY <1>1, InstructionAt DEF Hop
<1>4. Runs(out[pc.fn], K, P, at)
      BY <1>1, <1>2, <1>3, CodeOn
<1>5. /\ Observed(at) = [op |-> Instruction.op, node |-> Instruction.node]
      /\ Instruction.op # "ret" =>
           \A v \in Values(at) : On(K, Goal(Instruction, P, v), Evaluated(at, v))
      BY <1>4, InstructionAt DEF Runs
<1> QED  BY <1>2, <1>5 DEF Match

\* Where the code goes with a value.
LEMMA CodeGoes ==
  ASSUME NEW ins, NEW v, pc = [fn |-> pc.fn, blk |-> pc.blk, idx |-> pc.idx]
  PROVE  /\ CodeAfter(ins, v) = [fn |-> pc.fn, blk |-> CodeAfter(ins, v).blk,
                                 idx |-> CodeAfter(ins, v).idx]
         /\ <<CodeAfter(ins, v).blk, CodeAfter(ins, v).idx>> = Goal(ins, <<pc.blk, pc.idx>>, v)
<1>1. CASE ins.op = "br"
      BY <1>1 DEF CodeAfter, Goal, Goes, Start
<1>2. CASE ins.op = "table"
      BY <1>2 DEF CodeAfter, Goal, Goes, Start
<1>3. CASE ins.op # "br" /\ ins.op # "table"
  <2>1. CodeAfter(ins, v) = [pc EXCEPT !.idx = @ + 1]
        BY <1>3 DEF CodeAfter
  <2>2. [pc EXCEPT !.idx = @ + 1] = [fn |-> pc.fn, blk |-> pc.blk, idx |-> pc.idx + 1]
        OBVIOUS
  <2>3. Goal(ins, <<pc.blk, pc.idx>>, v) = <<pc.blk, pc.idx + 1>>
        BY <1>3 DEF Goal
  <2> QED  BY <2>1, <2>2, <2>3
<1> QED  BY <1>1, <1>2, <1>3

\* An evaluation takes both to places that agree.
LEMMA EvaluateSInv == SInv /\ Evaluate => SInv'
<1> SUFFICES ASSUME SInv, Evaluate PROVE SInv'
    OBVIOUS
<1> DEFINE P == <<pc.blk, pc.idx>>
<1>1. Meeting /\ Match /\ Executing /\ UNCHANGED <<vars, shared>>
      BY DEF Evaluate, Meeting
<1>2. /\ Compiled /\ pc = [fn |-> pc.fn, blk |-> pc.blk, idx |-> pc.idx] /\ IsAt(at)
      BY <1>1, ExecutingAt DEF SInv
<1>3. Built' /\ Faithful' /\ prog' = prog /\ Compiled'
      BY <1>1, <1>2, StillBuilt DEF SInv
<1>4. CASE Observed(at).op = "ret"
  <2>1. pc' = pc /\ at' = [at EXCEPT !.stage = "returned"]
        BY <1>4 DEF Evaluate
  <2>2. at' = Pos(at.node, "returned")
        BY <1>2, <2>1 DEF IsAt, Pos
  <2>3. AtPlace'
        BY <1>2, <1>3, <2>1, <2>2 DEF AtPlace, Pos
  <2>4. ~Executing'
        BY <2>2 DEF Executing, Pos
  <2> QED  BY <1>3, <2>3, <2>4 DEF SInv, Together
<1>5. CASE Observed(at).op # "ret"
  <2>1. PICK v \in Values(at) : at' = Evaluated(at, v) /\ pc' = CodeAfter(Instruction, v)
        BY <1>5 DEF Evaluate
  <2>2. /\ pc' = [fn |-> pc.fn, blk |-> pc'.blk, idx |-> pc'.idx]
        /\ <<pc'.blk, pc'.idx>> = Goal(Instruction, P, v)
        BY <1>2, <2>1, CodeGoes
  <2>3. AtPlace'
    <3>1. IsAt(at')
          BY <2>1, Positions
    <3> QED  BY <1>3, <2>2, <3>1 DEF AtPlace, IsAt, Pos
  <2>4. ASSUME Proper, ~shared PROVE Abreast(out[pc'.fn], pc', at')
    <3>1. Instruction.op # "ret"
          BY <1>1, <1>5 DEF Match
    <3>2. PICK K : Follows(out[pc.fn], K, {}) /\ On(K, Goal(Instruction, P, v), at')
          BY <1>1, <2>1, <2>4, <3>1, MeetingRuns
    <3>3. Leads(out[pc.fn], Goal(Instruction, P, v), Goal(Instruction, P, v))
          BY Leading
    <3>4. pc'.fn = pc.fn
          BY <2>2
    <3> QED  BY <2>2, <3>2, <3>3, <3>4 DEF Abreast
  <2>5. Together'
        BY <1>1, <1>3, <2>4, StillTogether
  <2> QED  BY <1>3, <2>3, <2>5 DEF SInv
<1> QED  BY <1>4, <1>5

\* Nothing changes when nothing happens.
LEMMA StutterSInv == SInv /\ UNCHANGED svars => SInv'
<1> SUFFICES ASSUME SInv, UNCHANGED svars PROVE SInv'
    OBVIOUS
<1>1. UNCHANGED <<vars, shared>> /\ at' = at /\ pc' = pc
      BY DEF svars
<1>2. Built' /\ Faithful' /\ prog' = prog /\ (Compiled' <=> Compiled)
      BY <1>1, StillBuilt DEF SInv
<1>3. AtPlace'
      BY <1>1, <1>2 DEF SInv, AtPlace, IsAt, Pos, Idle
<1>4. Executing' <=> Executing
      BY <1>1, <1>2 DEF Executing, Idle
<1>5. Together'
  <2>1. CASE Executing
        BY <1>1, <1>2, <2>1, StillTogether DEF SInv, Together
  <2>2. CASE ~Executing
        BY <1>4, <2>2 DEF Together
  <2> QED  BY <2>1, <2>2
<1> QED  BY <1>2, <1>3, <1>5 DEF SInv

\* What is known of compilation and execution implies that the code follows its source.
LEMMA SInvAgrees == SInv /\ OwnLabels => CodeFollowsSource
<1> SUFFICES ASSUME SInv, OwnLabels, ~SkippingContinue, ~shared, Meeting PROVE Match
    BY DEF CodeFollowsSource, Agrees
<1>1. Compiled
      BY DEF Meeting, Executing
<1>2. NoDouble
  <2>1. prog \in Programs /\ next \in Nat /\ LabelsSeen
        BY DEF SInv, Built, IInv, ResultTypes
  <2> QED  BY <1>1, <2>1, CompiledLabels
<1> QED  BY <1>2, MeetingRuns DEF Proper

\* The code of every function follows its source: of every program whose functions
\* share no label name with the gotos of another, along every path and for every
\* value of its conditions, the finished blocks evaluate what the statements say, in
\* the order they say, but for the two known defects (a continue in a while or for,
\* and a case that shares its block with the code before it).
THEOREM CodeFollows == SSpec => [](OwnLabels => CodeFollowsSource)
<1>1. SInit => SInv
      BY InitSInv
<1>2. SInv /\ [SNext]_svars => SInv'
      BY LowerSInv, CallSInv, SourceSInv, CodeSInv, EvaluateSInv, StutterSInv DEF SNext, Rest
<1>3. SInv => (OwnLabels => CodeFollowsSource)
      BY SInvAgrees
<1> QED  BY <1>1, <1>2, <1>3, PTL DEF SSpec
=============================================================================
