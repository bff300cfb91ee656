---------------------------- MODULE LoweringCode ----------------------------
(***************************************************************************)
(* Proofs about the code the statement compiler emits, for every program:  *)
(* the verifier of Cranelift accepts each finished function, where labels  *)
(* are not taken from one function to the next.                            *)
(***************************************************************************)
EXTENDS LoweringProofs

-----------------------------------------------------------------------------
(* Where a jump may land: in a block that has been opened, in one that a   *)
(* waiting task opens on every path, or at the end of an open switch.      *)

Opened(bl) == {k \in 1..Len(bl.code) : k = bl.cur \/ bl.code[k] # <<>>}

Due(t) == IF t.op = "else" THEN {t.blk[1]}
          ELSE IF t.op = "endElse" /\ t.flag THEN {} ELSE Pending(t)
DueOf(s) == UNION {Due(s[i]) : i \in 1..Len(s)}
Ends(sw) == {sw[i].end : i \in 1..Len(sw)}

Landing(bl, s, sw) == Opened(bl) \cup DueOf(s) \cup Ends(sw)

(* The nodes of a function, from its body on.                              *)

InBody(f, n) ==
  LET body == prog.fns[f].body
  IN  /\ f \in DOMAIN prog.fns /\ body <= n
      /\ \A k \in body + 1..n : \E j \in body..k - 1 : IsKid(prog.node, k, j)

(* The blocks the compiler holds, to jump to them later.                   *)

Blocks(m)      == {m[v] : v \in Vals} \ {0}
LoopBlocks(lp) == UNION {{lp[i][1], lp[i][2]} : i \in 1..Len(lp)}
CaseBlocks(sw) == UNION {Blocks(sw[i].cases) \cup ({sw[i].default} \ {0}) : i \in 1..Len(sw)}
Heads(s)       == {s[i].blk[1] : i \in {j \in 1..Len(s) : s[j].op \in LoopTasks}}

\* the labels that the function next jumps to
Named     == {v \in Vals : \E n \in DOMAIN prog.node :
                Node(n).kind = "goto" /\ Node(n).val = v /\ InBody(next, n)}
Gotos(lb) == {lb[v] : v \in Named} \ {0}

Held(s, lp, sw, lb) == LoopBlocks(lp) \cup CaseBlocks(sw) \cup Heads(s) \cup Gotos(lb)

(* Every block that is left is terminated, and every target is in L.       *)

Sealed(bl)    == \A k \in 1..Len(bl.code) : k # bl.cur /\ bl.code[k] # <<>> => Ended(bl.code[k])
Lands(bl, L)  == \A k \in 1..Len(bl.code) : \A i \in 1..Len(bl.code[k]) :
                    Targets(bl.code[k][i]) \subseteq L
Tight(bl, L)  == Sealed(bl) /\ Lands(bl, L)

CodeOK ==
  todo # <<>> /\ err = "none" =>
    /\ Caller(todo, 1).op = "endFunction"
    /\ Tight(b, Landing(b, todo, switches))
    /\ Held(todo, loops, switches, labels) \subseteq Landing(b, todo, switches)

(* No goto names a label of another function.  Compiler.labels is never    *)
(* cleared, and such a goto jumps to a block of that function.             *)

OwnLabels ==
  \A f, g \in DOMAIN prog.fns : \A m, n \in DOMAIN prog.node :
    /\ Node(m).kind = "label" /\ InBody(f, m)
    /\ Node(n).kind = "goto" /\ InBody(g, n)
    /\ Node(m).val = Node(n).val
    => f = g

(* What waits belongs to the function next, and what is in labels to it or *)
(* to one before it.                                                       *)

Here(t)   == t.op # "endFunction" => InBody(next, t.node)
TasksHere == \A i \in 1..Len(todo) : Here(todo[i])

LabelsHere ==
  err = "none" =>
    \A v \in Vals : labels[v] # 0 =>
      \E m \in DOMAIN prog.node, f \in 1..next :
        /\ Node(m).kind = "label" /\ Node(m).val = v /\ InBody(f, m)
        /\ todo = <<>> => f < next

ScopeOK == TasksHere /\ LabelsHere

CInv == OwnLabels => CodeOK /\ ScopeOK /\ VerifierAccepts

\* a step inside a function
Coded == err' = "none" => todo' # <<>> /\ CodeOK'

-----------------------------------------------------------------------------
(* What waits belongs to the function that is compiled.                    *)

\* The parts of a statement are in the function it is in.
LEMMA KidInBody ==
  ASSUME prog \in Programs, NEW n \in DOMAIN prog.node, NEW i \in DOMAIN Node(n).kids,
         NEW f, InBody(f, n)
  PROVE  InBody(f, Kid(n, i))
<1> DEFINE c    == Kid(n, i)
           body == prog.fns[f].body
<1>1. /\ DOMAIN prog.node = 1..Len(prog.node) /\ NodeOK(prog.node, n) /\ n \in Nat
      /\ prog.fns \in Seq([body : DOMAIN prog.node, ret : ReturnKind])
  <2>1. ProgramOK(prog)
        BY ProgramsAssumption
  <2>2. DOMAIN prog.node = 1..Len(prog.node)
        BY <2>1 DEF ProgramOK
  <2> QED  BY <2>1, <2>2 DEF ProgramOK
<1>2. c \in DOMAIN prog.node /\ c \in Nat
  <2>1. c \in DOMAIN prog.node
        BY KidInside
  <2> QED  BY <1>1, <2>1
<1>3. /\ c > n /\ IsKid(prog.node, c, n)
      /\ \A k \in n + 1..c - 1 : \E m \in n..k - 1 : IsKid(prog.node, k, m)
      BY <1>1 DEF NodeOK, InSourceOrder, Kid, Node, IsKid
<1>4. /\ f \in DOMAIN prog.fns /\ body <= n
      /\ \A k \in body + 1..n : \E j \in body..k - 1 : IsKid(prog.node, k, j)
      BY DEF InBody
<1>5. body \in Nat
  <2>1. f \in 1..Len(prog.fns)
        BY <1>1, <1>4, LenProperties
  <2>2. body \in DOMAIN prog.node
        BY <2>1, BodyInside
  <2> QED  BY <1>1, <2>2
<1> HIDE DEF c, body
<1>6. ASSUME NEW k \in body + 1..c
      PROVE  \E j \in body..k - 1 : IsKid(prog.node, k, j)
  <2>1. CASE k \in body + 1..n
        BY <1>4, <2>1
  <2>2. CASE k \in n + 1..c - 1
    <3>1. PICK j \in n..k - 1 : IsKid(prog.node, k, j)
          BY <1>3, <2>2
    <3>2. j \in body..k - 1
          BY <1>1, <1>2, <1>4, <1>5, <2>2, <3>1
    <3> QED  BY <3>1, <3>2
  <2>3. CASE k = c
    <3>1. n \in body..k - 1
          BY <1>1, <1>2, <1>3, <1>4, <1>5, <2>3
    <3> QED  BY <1>3, <2>3, <3>1
  <2> QED  BY <1>1, <1>2, <1>3, <1>4, <1>5, <2>1, <2>2, <2>3
<1>7. body <= c
      BY <1>1, <1>2, <1>3, <1>4, <1>5
<1> QED  BY <1>4, <1>6, <1>7 DEF InBody, body, c

\* The task on top and the parts of its statement.
LEMMA TopHere ==
  ASSUME IInv, TasksHere, Running, Top.op # "endFunction"
  PROVE  /\ prog \in Programs /\ Top.node \in DOMAIN prog.node /\ InBody(next, Top.node)
         /\ \A i \in DOMAIN Node(Top.node).kids : InBody(next, Kid(Top.node, i))
         /\ Node(Top.node).kind \in Unary \cup {"if", "for"} => InBody(next, Kid(Top.node, 1))
         /\ Node(Top.node).kind = "for" => InBody(next, Kid(Top.node, 2))
         /\ Len(Node(Top.node).kids) = 2 => InBody(next, Kid(Top.node, 2))
<1> DEFINE n == Top.node
           m == Len(Node(n).kids)
<1>1. todo \in Seq(Tasks) /\ todo # <<>> /\ prog \in Programs
      BY DEF IInv, StackOK, Frames, Running
<1>2. Top = todo[1] /\ 1 \in 1..Len(todo)
      BY <1>1, TailOf DEF Top
<1>3. InBody(next, n) /\ n \in DOMAIN prog.node
      BY <1>2, TopFacts DEF TasksHere, Here, TaskOK
<1> HIDE DEF n
<1>4. \A i \in DOMAIN Node(n).kids : InBody(next, Kid(n, i))
      BY <1>1, <1>3, KidInBody
<1>5. DOMAIN Node(n).kids = 1..m /\ m \in Arity(Node(n).kind) /\ m \in Nat
      BY <1>1, <1>3, NodeFacts, LenProperties
<1>6. /\ Node(n).kind \in Unary => m = 1
      /\ Node(n).kind = "if" => m \in {1, 2}
      /\ Node(n).kind = "for" => m = 2
      BY <1>5 DEF Arity, Unary, Leaves
<1> HIDE DEF m
<1>7. /\ Node(n).kind \in Unary \cup {"if", "for"} => 1 \in 1..m
      /\ Node(n).kind = "for" => 2 \in 1..m
      /\ m = 2 => 2 \in 1..m
      BY <1>5, <1>6
<1> QED  BY <1>1, <1>3, <1>4, <1>5, <1>7 DEF n, m

\* Tasks of the function before tasks of the function.
LEMMA AllHere ==
  ASSUME NEW S, NEW ts \in Seq(S), NEW us \in Seq(S),
         \A i \in 1..Len(ts) : Here(ts[i]), \A i \in 1..Len(us) : Here(us[i])
  PROVE  ts \o us \in Seq(S) /\ \A i \in 1..Len(ts \o us) : Here((ts \o us)[i])
<1> DEFINE r == ts \o us
<1>1. /\ r \in Seq(S) /\ Len(ts) \in Nat /\ Len(us) \in Nat /\ Len(r) = Len(ts) + Len(us)
      /\ \A i \in 1..Len(ts) + Len(us) : r[i] = IF i <= Len(ts) THEN ts[i] ELSE us[i - Len(ts)]
      BY LenProperties, ConcatProperties
<1> HIDE DEF r
<1>2. ASSUME NEW i \in 1..Len(r)
      PROVE  Here(r[i])
  <2>1. CASE i <= Len(ts)
    <3>1. i \in 1..Len(ts)
          BY <1>1, <2>1
    <3> QED  BY <1>1, <2>1, <3>1
  <2>2. CASE ~(i <= Len(ts))
    <3>1. i - Len(ts) \in 1..Len(us) /\ i \in 1..Len(ts) + Len(us)
          BY <1>1, <2>2
    <3> QED  BY <1>1, <2>2, <3>1
  <2> QED  BY <2>1, <2>2
<1> QED  BY <1>1, <1>2 DEF r

\* More tasks of the function, in place of the one on top.
LEMMA TasksStay ==
  ASSUME IInv, TasksHere, Running, prog' = prog, next' = next,
         NEW S, NEW ts \in Seq(S), todo' = ts \o Tail(todo), \A i \in 1..Len(ts) : Here(ts[i])
  PROVE  TasksHere'
<1> DEFINE s == Tail(todo)
           U == S \cup Tasks
<1>1. todo \in Seq(Tasks) /\ todo # <<>>
      BY DEF IInv, StackOK, Frames, Running
<1>2. /\ s \in Seq(Tasks)
      /\ \A i \in 1..Len(s) : s[i] = todo[i + 1] /\ i + 1 \in 1..Len(todo)
      BY <1>1, TailOf
<1>3. \A i \in 1..Len(s) : Here(s[i])
      BY <1>2 DEF TasksHere
<1>4. ts \in Seq(U) /\ s \in Seq(U)
      BY <1>2, SeqDef
<1>5. todo' = ts \o s
      OBVIOUS
<1> HIDE DEF s, U
<1>6. \A i \in 1..Len(ts \o s) : Here((ts \o s)[i])
      BY <1>3, <1>4, AllHere
<1>7. \A t : Here(t)' <=> Here(t)
      BY DEF Here, InBody
<1> QED  BY <1>5, <1>6, <1>7 DEF TasksHere

\* One part of the statement, and what is done when it is compiled.
LEMMA PartHere ==
  ASSUME IInv, TasksHere, Running, Top.op # "endFunction", prog' = prog, next' = next,
         NEW k, InBody(next, k), NEW op, NEW blk, NEW flag,
         Push(<<Stmt(k)>>) \/ Push(<<Stmt(k), Task(op, Top.node, blk, flag)>>)
  PROVE  TasksHere'
<1> DEFINE n == Top.node
           a == Stmt(k)
           t == Task(op, n, blk, flag)
           S == {a, t}
<1>1. InBody(next, n)
      BY TopHere
<1>2. Here(a) /\ Here(t)
      BY <1>1 DEF Here, Stmt, Task
<1>3. Push(<<a>>) \/ Push(<<a, t>>)
      OBVIOUS
<1> HIDE DEF a, t
<1>4. CASE Push(<<a>>)
  <2> DEFINE ts == <<a>>
  <2>1. ts \in Seq(S) /\ Len(ts) = 1 /\ ts[1] = a /\ \A i \in 1..1 : i = 1
        OBVIOUS
  <2>2. todo' = ts \o Tail(todo)
        BY <1>4 DEF Push
  <2> HIDE DEF ts, S
  <2>3. \A i \in 1..Len(ts) : Here(ts[i])
        BY <1>2, <2>1
  <2> QED  BY <2>1, <2>2, <2>3, TasksStay
<1>5. CASE Push(<<a, t>>)
  <2> DEFINE ts == <<a, t>>
  <2>1. ts \in Seq(S) /\ Len(ts) = 2 /\ ts[1] = a /\ ts[2] = t
        /\ \A i \in 1..2 : i = 1 \/ i = 2
        OBVIOUS
  <2>2. todo' = ts \o Tail(todo)
        BY <1>5 DEF Push
  <2> HIDE DEF ts, S
  <2>3. \A i \in 1..Len(ts) : Here(ts[i])
        BY <1>2, <2>1
  <2> QED  BY <2>1, <2>2, <2>3, TasksStay
<1> QED  BY <1>3, <1>4, <1>5

\* A step that leaves the stack alone.
LEMMA SameTasks ==
  ASSUME TasksHere, prog' = prog, next' = next, todo' = todo
  PROVE  TasksHere'
<1>1. \A t : Here(t)' <=> Here(t)
      BY DEF Here, InBody
<1> QED  BY <1>1 DEF TasksHere

\* The task on top is done.
LEMMA PopHere ==
  ASSUME IInv, TasksHere, Running, prog' = prog, next' = next, Pop
  PROVE  TasksHere'
<1>1. Tail(todo) \in Seq(Tasks)
      BY TailOf DEF IInv, StackOK, Frames, Running
<1>2. <<>> \in Seq(Tasks) /\ Len(<<>>) = 0 /\ \A i : i \notin 1..0
      BY EmptySeq
<1>3. todo' = <<>> \o Tail(todo)
      BY <1>1, ConcatEmptySeq DEF Pop
<1> QED  BY <1>2, <1>3, TasksStay

\* Every step inside a function keeps what waits in it.
LEMMA TasksAfter ==
  ASSUME IInv, TasksHere,
         \/ Compound \/ Expression \/ DeclareStack \/ Return \/ If \/ EndIf \/ Else
         \/ EndElse \/ For \/ While \/ EndWhile \/ Do \/ EndDo \/ Switch \/ EndSwitch
         \/ Case \/ Default \/ Label \/ Goto \/ LoopExit
  PROVE  TasksHere' /\ next' = next /\ prog' = prog /\ Running
<1> DEFINE n == Top.node
<1>1. prog' = prog /\ next' = next /\ Running
      BY DEF Compound, Expression, DeclareStack, Return, If, EndIf, Else, EndElse, For, While,
         EndWhile, Do, EndDo, Switch, EndSwitch, Case, Default, Label, Goto, LoopExit, Frame,
         Fail, Compiling, At
<1>2. CASE todo' = todo
      BY <1>1, <1>2, SameTasks
<1>3. CASE Pop
      BY <1>1, <1>3, PopHere
<1>4. CASE Case \/ Default \/ Label
  <2>1. /\ Top.op = "stmt" /\ Node(n).kind \in {"case", "default", "label"}
        /\ todo' = todo \/ Push(<<Stmt(Kid(n, 1))>>)
        BY <1>4 DEF Case, Default, Label, Fail, Compiling, At
  <2>2. InBody(next, Kid(n, 1))
        BY <1>1, <2>1, TopHere DEF Unary
  <2> QED  BY <1>1, <1>2, <2>1, <2>2, PartHere
<1>5. CASE If \/ For \/ Do \/ Switch
  <2>1. /\ Top.op = "stmt" /\ Node(n).kind \in {"if", "for", "do", "switch"}
        /\ \E op, blk, flag : Push(<<Stmt(Kid(n, 1)), Task(op, n, blk, flag)>>)
        BY <1>5 DEF If, For, Do, Switch, Compiling, At
  <2>2. InBody(next, Kid(n, 1))
        BY <1>1, <2>1, TopHere DEF Unary
  <2> QED  BY <1>1, <2>1, <2>2, PartHere
<1>6. CASE Else
  <2>1. Top.op = "else" /\ \E op, blk, flag : Push(<<Stmt(Kid(n, 2)), Task(op, n, blk, flag)>>)
        BY <1>6 DEF Else, At
  <2>2. Len(Node(n).kids) = 2
        BY <1>1, <2>1, TopFacts DEF TaskOK, Node
  <2>3. InBody(next, Kid(n, 2))
        BY <1>1, <2>1, <2>2, TopHere
  <2> QED  BY <1>1, <2>1, <2>3, PartHere
<1>7. CASE While
  <2> DEFINE t == Task("endWhile", n, <<Header(b), End(b)>>, sawLoop)
  <2>1. /\ Compiling("while") \/ At("for")
        /\ Push(LoopBody(n) \o <<t>>)
        BY <1>7 DEF While
  <2>2. Node(n).kind \in {"while", "for"} /\ Top.op # "endFunction"
        BY <2>1, WhileTop DEF Compiling, At
  <2>3. /\ InBody(next, Kid(n, 1))
        /\ Node(n).kind = "for" => InBody(next, Kid(n, 2))
        BY <1>1, <2>2, TopHere DEF Unary
  <2>4. \E k \in {Kid(n, 1), Kid(n, 2)}, p \in {Task("post", n, <<>>, FALSE)} :
          /\ InBody(next, k)
          /\ LoopBody(n) = <<Stmt(k)>> \/ LoopBody(n) = <<Stmt(k), p>>
        BY <2>2, <2>3 DEF LoopBody
  <2>5. PICK k \in {Kid(n, 1), Kid(n, 2)}, p \in {Task("post", n, <<>>, FALSE)} :
          /\ InBody(next, k)
          /\ LoopBody(n) = <<Stmt(k)>> \/ LoopBody(n) = <<Stmt(k), p>>
        BY <2>4
  <2>6. Here(Stmt(k)) /\ Here(p) /\ Here(t)
    <3>1. InBody(next, n)
          BY <1>1, <2>2, TopHere
    <3> QED  BY <2>5, <3>1 DEF Here, Stmt, Task
  <2> DEFINE lb == LoopBody(n)
             a  == Stmt(k)
             e  == <<t>>
             S  == {a, p, t}
  <2>7. todo' = (lb \o e) \o Tail(todo)
        BY <2>1 DEF Push
  <2>8. lb = <<a>> \/ lb = <<a, p>>
        BY <2>5
  <2> HIDE DEF t, a, lb
  <2>9. e \in Seq(S) /\ Len(e) = 1 /\ e[1] = t
        OBVIOUS
  <2>10. lb \in Seq(S) /\ \A i \in 1..Len(lb) : Here(lb[i])
    <3>1. CASE lb = <<a>>
      <4>1. lb \in Seq(S) /\ Len(lb) = 1 /\ lb[1] = a
            BY <3>1
      <4> QED  BY <2>6, <4>1 DEF a
    <3>2. CASE lb = <<a, p>>
      <4>1. lb \in Seq(S) /\ Len(lb) = 2 /\ lb[1] = a /\ lb[2] = p
            BY <3>2
      <4>2. \A i \in 1..2 : i = 1 \/ i = 2
            OBVIOUS
      <4> QED  BY <2>6, <4>1, <4>2 DEF a
    <3> QED  BY <2>8, <3>1, <3>2
  <2>11. \A i \in 1..Len(e) : Here(e[i])
        BY <2>6, <2>9
  <2> HIDE DEF e, S
  <2>12. lb \o e \in Seq(S) /\ \A i \in 1..Len(lb \o e) : Here((lb \o e)[i])
        BY <2>9, <2>10, <2>11, AllHere
  <2> DEFINE ts == lb \o e
  <2>13. ts \in Seq(S) /\ (\A i \in 1..Len(ts) : Here(ts[i])) /\ todo' = ts \o Tail(todo)
        BY <2>7, <2>12
  <2> HIDE DEF ts
  <2> QED  BY <1>1, <2>13, TasksStay
<1>8. CASE Compound
  <2> DEFINE ts == [i \in DOMAIN Node(n).kids |-> Stmt(Kid(n, i))]
             m  == Len(Node(n).kids)
             S  == {Stmt(Kid(n, i)) : i \in DOMAIN Node(n).kids}
  <2>1. Top.op = "stmt" /\ todo' = ts \o Tail(todo)
        BY <1>8 DEF Compound, Push, Compiling, At
  <2>2. /\ prog \in Programs /\ n \in DOMAIN prog.node
        /\ \A i \in DOMAIN Node(n).kids : InBody(next, Kid(n, i))
        BY <1>1, <2>1, TopHere
  <2>3. DOMAIN Node(n).kids = 1..m /\ m \in Nat
        BY <2>2, NodeFacts, LenProperties
  <2> HIDE DEF m
  <2>4. ts \in Seq(S) /\ DOMAIN ts = 1..m
    <3>1. ts \in [1..m -> S]
          BY <2>3
    <3> HIDE DEF ts, S
    <3> QED  BY <2>3, <3>1, SeqDef
  <2>5. Len(ts) = m
        BY <2>3, <2>4, LenProperties
  <2>6. \A i \in 1..Len(ts) : ts[i] = Stmt(Kid(n, i)) /\ InBody(next, Kid(n, i))
        BY <2>2, <2>3, <2>5
  <2>7. \A k : InBody(next, k) => Here(Stmt(k))
        BY DEF Here, Stmt, Task
  <2> HIDE DEF ts, S
  <2>8. \A i \in 1..Len(ts) : Here(ts[i])
        BY <2>6, <2>7
  <2> QED  BY <1>1, <2>1, <2>4, <2>8, TasksStay
<1>9. CASE \/ Expression \/ DeclareStack \/ Return \/ EndIf \/ EndElse \/ EndWhile \/ EndDo
           \/ EndSwitch \/ Goto \/ LoopExit
  <2>1. todo' = todo \/ Pop
        BY <1>9 DEF Expression, DeclareStack, Return, EndIf, EndElse, EndWhile, EndDo,
           EndSwitch, Goto, LoopExit, Fail
  <2> QED  BY <1>2, <1>3, <2>1
<1> QED  BY <1>1, <1>4, <1>5, <1>6, <1>7, <1>8, <1>9

\* A step inside a function keeps what waits and what is bound.
LEMMA InsideScope ==
  ASSUME IInv, ScopeOK, Coded,
         \/ Compound \/ Expression \/ DeclareStack \/ Return \/ If \/ EndIf \/ Else
         \/ EndElse \/ For \/ While \/ EndWhile \/ Do \/ EndDo \/ Switch \/ EndSwitch
         \/ Case \/ Default \/ Label \/ Goto \/ LoopExit
  PROVE  ScopeOK'
<1> DEFINE bound(v) == \E m \in DOMAIN prog.node, f \in 1..next :
                         Node(m).kind = "label" /\ Node(m).val = v /\ InBody(f, m)
<1>1. TasksHere' /\ next' = next /\ prog' = prog /\ Running
      BY TasksAfter DEF ScopeOK
<1> SUFFICES ASSUME err' = "none" PROVE LabelsHere'
    BY <1>1 DEF ScopeOK, LabelsHere
<1>2. todo' # <<>> /\ todo # <<>> /\ err = "none"
      BY <1>1 DEF Coded, Running
<1>3. \A v \in Vals : labels[v] # 0 => bound(v)
      BY <1>2 DEF ScopeOK, LabelsHere
<1>4. \A v \in Vals : labels'[v] # 0 => labels[v] # 0 \/ bound(v)
  <2>1. CASE Label
    <3> DEFINE n == Top.node
    <3>1. /\ Compiling("label")
          /\ labels' = [labels EXCEPT ![Node(n).val] = Fresh(b, 1)]
          BY <2>1 DEF Label, Bind
    <3>2. Top.op # "endFunction" /\ Node(n).kind = "label"
          BY <3>1, CompilingFacts
    <3>3. InBody(next, n) /\ n \in DOMAIN prog.node
          BY <1>1, <3>2, TopHere DEF ScopeOK
    <3>4. next \in 1..next /\ labels \in [Vals -> Nat]
          BY DEF IInv, ResultTypes, Maps
    <3> HIDE DEF n
    <3>5. bound(Node(n).val)
          BY <3>2, <3>3, <3>4 DEF n
    <3>6. \A v \in Vals : v # Node(n).val => labels'[v] = labels[v]
          BY <3>1, <3>4
    <3> HIDE DEF bound
    <3> QED  BY <3>5, <3>6
  <2>2. CASE ~Label
    <3>1. labels' = labels
          BY <2>2 DEF Compound, Expression, DeclareStack, Return, If, EndIf, Else, EndElse,
             For, While, EndWhile, Do, EndDo, Switch, EndSwitch, Case, Default, Goto,
             LoopExit, Fail
    <3> QED  BY <3>1
  <2> QED  BY <2>1, <2>2
<1>5. \A v \in Vals : labels'[v] # 0 => bound(v)
  <2> HIDE DEF bound
  <2> QED  BY <1>3, <1>4
<1>6. Vals' = Vals /\ \A f, m : InBody(f, m)' <=> InBody(f, m)
      BY <1>1 DEF Vals, Node, InBody
<1> QED  BY <1>1, <1>2, <1>5, <1>6 DEF LabelsHere, Node

\* At the end of a function nothing waits, and its labels stay.
LEMMA EndFunctionScope ==
  ASSUME IInv, ScopeOK, EndFunction
  PROVE  ScopeOK'
<1>1. Running /\ Top.op = "endFunction" /\ prog' = prog
      BY DEF EndFunction, At, Fail
<1>2. CASE Fail("MissingReturn") /\ UNCHANGED b
  <2>1. TasksHere'
        BY <1>2, SameTasks DEF ScopeOK, Fail
  <2> QED  BY <1>2, <2>1 DEF ScopeOK, LabelsHere, Fail
<1>3. CASE next' = next + 1 /\ Pop /\ labels' = labels /\ err' = err
  <2>1. todo' = <<>> /\ next \in Nat
        BY <1>1, <1>3, TopFacts DEF Pop, IInv, ResultTypes
  <2>2. Len(todo') = 0 /\ \A i : i \notin 1..0
        BY <2>1, EmptySeq
  <2>3. TasksHere'
        BY <2>2 DEF TasksHere
  <2>4. Vals' = Vals /\ \A f, m : InBody(f, m)' <=> InBody(f, m)
        BY <1>1 DEF Vals, Node, InBody
  <2>5. \A f \in 1..next : f \in 1..next' /\ f < next'
        BY <1>3, <2>1
  <2>6. \A v \in Vals : labels[v] # 0 =>
          \E m \in DOMAIN prog.node, f \in 1..next :
            Node(m).kind = "label" /\ Node(m).val = v /\ InBody(f, m)
        BY <1>1 DEF ScopeOK, LabelsHere, Running
  <2>7. LabelsHere'
        BY <1>1, <1>3, <2>4, <2>5, <2>6 DEF LabelsHere, Node
  <2> QED  BY <2>3, <2>7 DEF ScopeOK
<1> QED  BY <1>2, <1>3 DEF EndFunction

\* A function begins with its body.
LEMMA BeginFunctionScope ==
  ASSUME IInv, ScopeOK, BeginFunction
  PROVE  ScopeOK'
<1> DEFINE k  == prog.fns[next].body
           a  == Stmt(k)
           t  == Task("endFunction", next, <<>>, FALSE)
           ts == <<a, t>>
<1>1. /\ err = "none" /\ todo = <<>> /\ next <= Len(prog.fns) /\ todo' = ts
      /\ prog' = prog /\ next' = next /\ labels' = labels
      BY DEF BeginFunction
<1>2. InBody(next, k)
  <2>1. prog \in Programs /\ next \in Nat \ {0}
        BY DEF IInv, ResultTypes
  <2>2. prog.fns \in Seq([body : DOMAIN prog.node, ret : ReturnKind])
        /\ DOMAIN prog.node = 1..Len(prog.node)
        BY <2>1, ProgramsAssumption DEF ProgramOK
  <2>3. next \in 1..Len(prog.fns) /\ DOMAIN prog.fns = 1..Len(prog.fns)
        BY <1>1, <2>1, <2>2, LenProperties
  <2>4. k \in DOMAIN prog.node
        BY <2>1, <2>3, BodyInside
  <2>5. k \in Nat
        BY <2>2, <2>4
  <2>6. k <= k /\ \A j : j \notin k + 1..k
        BY <2>5
  <2> QED  BY <2>3, <2>6 DEF InBody
<1>3. Here(a) /\ Here(t)
      BY <1>2 DEF Here, Stmt, Task
<1> HIDE DEF a, t
<1>4. Len(ts) = 2 /\ ts[1] = a /\ ts[2] = t /\ \A i \in 1..2 : i = 1 \/ i = 2
      OBVIOUS
<1> HIDE DEF ts
<1>5. (\A x : Here(x)' <=> Here(x)) /\ Vals' = Vals
      /\ \A f, m : InBody(f, m)' <=> InBody(f, m)
      BY <1>1 DEF Here, InBody, Vals, Node
<1>6. TasksHere'
      BY <1>1, <1>3, <1>4, <1>5 DEF TasksHere
<1>7. todo' # <<>>
  <2>1. ts # <<>>
        BY <1>4, EmptySeq
  <2> QED  BY <1>1, <2>1
<1>8. LabelsHere'
      BY <1>1, <1>5, <1>7 DEF ScopeOK, LabelsHere, Node
<1> QED  BY <1>6, <1>8 DEF ScopeOK

-----------------------------------------------------------------------------
(* The builder.                                                            *)

\* More blocks to land in.
LEMMA MoreLanding ==
  ASSUME NEW bl, NEW L, NEW M, L \subseteq M, Tight(bl, L)
  PROVE  Tight(bl, M)
<1>1. ASSUME NEW k \in 1..Len(bl.code), NEW i \in 1..Len(bl.code[k])
      PROVE  Targets(bl.code[k][i]) \subseteq M
      BY <1>1 DEF Tight, Lands
<1> QED  BY <1>1 DEF Tight, Lands

\* An instruction whose targets are known.
LEMMA InsTight ==
  ASSUME NEW bl, Good(bl, Instrs), ~bl.filled, NEW ins \in Instrs,
         NEW L, Tight(bl, L), Targets(ins) \subseteq L
  PROVE  Tight(Ins(bl, ins), L) /\ Opened(bl) \subseteq Opened(Ins(bl, ins))
<1> DEFINE block == bl.code[bl.cur]
           new   == Append(block, ins)
           code  == [bl.code EXCEPT ![bl.cur] = new]
<1>1. /\ bl.code \in Seq(Seq(Instrs)) /\ bl.cur \in 1..Len(bl.code) /\ Len(bl.code) \in Nat
      BY LenProperties DEF Good, Loose, Builder
<1>2. block \in Seq(Instrs) /\ Len(block) \in Nat
      BY <1>1, ElementOfSeq, LenProperties
<1>3. /\ new \in Seq(Instrs) /\ Len(new) = Len(block) + 1 /\ new # <<>>
      /\ \A i \in 1..Len(block) : new[i] = block[i]
      /\ new[Len(block) + 1] = ins
      BY <1>2, AppendProperties
<1>4. /\ Len(code) = Len(bl.code)
      /\ \A j \in 1..Len(bl.code) : code[j] = IF j = bl.cur THEN new ELSE bl.code[j]
      BY <1>1, <1>3, ExceptSeq
<1>5. Ins(bl, ins).code = code /\ Ins(bl, ins).cur = bl.cur
  <2>1. Ins(bl, ins) = [bl EXCEPT !.code = code]
        BY DEF Ins
  <2>2. bl \in Builder(Instrs)
        BY DEF Good, Loose
  <2> HIDE DEF code
  <2> QED  BY <2>1, <2>2, ReplacedIn
<1> HIDE DEF code, new
<1>6. Sealed(Ins(bl, ins))
      BY <1>4, <1>5 DEF Tight, Sealed
<1>7. ASSUME NEW k \in 1..Len(bl.code), NEW i \in 1..Len(code[k])
      PROVE  Targets(code[k][i]) \subseteq L
  <2>1. CASE k = bl.cur
    <3>1. code[k] = new
          BY <1>4, <2>1
    <3>2. i \in 1..Len(block) + 1
          BY <1>3, <3>1
    <3>3. CASE i \in 1..Len(block)
          BY <1>1, <1>3, <2>1, <3>1, <3>3 DEF Tight, Lands
    <3>4. CASE i = Len(block) + 1
          BY <1>3, <3>1, <3>4
    <3>5. i \in 1..Len(block) \/ i = Len(block) + 1
      <4> HIDE DEF block
      <4> QED  BY <1>2, <3>2
    <3> QED  BY <3>3, <3>4, <3>5
  <2>2. CASE k # bl.cur
        BY <1>4, <2>2 DEF Tight, Lands
  <2> QED  BY <2>1, <2>2
<1>8. Lands(Ins(bl, ins), L)
      BY <1>4, <1>5, <1>7 DEF Lands
<1>9. Opened(bl) \subseteq Opened(Ins(bl, ins))
      BY <1>3, <1>4, <1>5 DEF Opened
<1> QED  BY <1>6, <1>8, <1>9 DEF Tight

\* What is set beside a terminator is not part of the code.
LEMMA SameCode ==
  ASSUME NEW bl, NEW bm, NEW L, Tight(bl, L), bm.code = bl.code, bm.cur = bl.cur
  PROVE  Tight(bm, L) /\ Opened(bm) = Opened(bl)
BY DEF Tight, Sealed, Lands, Opened

\* A terminator, with current_block_state set beside it.
LEMMA CloseTight ==
  ASSUME NEW bl, Good(bl, Instrs), ~bl.filled, NEW ins \in Instrs,
         NEW L, Tight(bl, L), Targets(ins) \subseteq L
  PROVE  /\ Tight([Ins(bl, ins) EXCEPT !.filled = TRUE], L)
         /\ Opened(bl) \subseteq Opened([Ins(bl, ins) EXCEPT !.filled = TRUE])
<1> DEFINE r == Ins(bl, ins)
           s == [r EXCEPT !.filled = TRUE]
<1>1. Tight(r, L) /\ Opened(bl) \subseteq Opened(r)
      BY InsTight
<1>2. r \in Builder(Instrs)
      BY InsLemma DEF Loose
<1> HIDE DEF r
<1>3. s.code = r.code /\ s.cur = r.cur
      BY <1>2, ReplacedIn
<1> HIDE DEF s
<1>4. Tight(s, L) /\ Opened(s) = Opened(r)
      BY <1>1, <1>3, SameCode
<1> QED  BY <1>1, <1>4 DEF s, r

\* The targets of each instruction.
LEMMA TargetsOf ==
  ASSUME NEW n, NEW x, NEW y
  PROVE  /\ Targets(Run(n)) = {} /\ Targets(Post(n)) = {} /\ Targets(Ret(n)) = {}
         /\ Targets(Jump(x)) = {x} /\ Targets(Br(n, x, y)) = {x, y}
         /\ \A m : Targets(Table(n, m, x)) = {x} \cup Blocks(m)
<1>1. \A v \in Vals : NoBlocks[v] = 0
      BY DEF NoBlocks
<1>2. DOMAIN <<>> = {} /\ DOMAIN <<x>> = {1} /\ DOMAIN <<x, y>> = {1, 2}
      /\ <<x>>[1] = x /\ <<x, y>>[1] = x /\ <<x, y>>[2] = y
      OBVIOUS
<1>3. \A op, m : Targets(Instr(op, n, <<>>, m)) = Blocks(m)
      BY <1>2 DEF Targets, Instr, Blocks
<1>4. \A op, k, m : Targets(Instr(op, k, <<x>>, m)) = {x} \cup Blocks(m)
      BY <1>2 DEF Targets, Instr, Blocks
<1>5. \A op, m : Targets(Instr(op, n, <<x, y>>, m)) = {x, y} \cup Blocks(m)
      BY <1>2 DEF Targets, Instr, Blocks
<1>6. Blocks(NoBlocks) = {}
      BY <1>1 DEF Blocks
<1> QED  BY <1>3, <1>4, <1>5, <1>6 DEF Run, Post, Ret, Jump, Br, Table

\* jump_to_block: its target is one unless the block is filled already.
LEMMA JumpTight ==
  ASSUME NEW bl, Good(bl, Instrs), NEW t \in Block, NEW L, Tight(bl, L), ~bl.filled => t \in L
  PROVE  /\ Tight(JumpToBlock(bl, t), L) /\ Opened(bl) \subseteq Opened(JumpToBlock(bl, t))
         /\ Ended(JumpToBlock(bl, t).code[JumpToBlock(bl, t).cur])
<1>1. Jump(t) \in Instrs /\ Terminates(Jump(t)) /\ Targets(Jump(t)) = {t}
  <2>1. 0 \in Nat
        OBVIOUS
  <2> QED  BY <2>1, InstrFacts, TargetsOf
<1>2. bl.filled \in BOOLEAN
      BY DEF Good, Loose, Builder
<1>3. CASE bl.filled
      BY <1>3 DEF JumpToBlock, Good
<1>4. CASE ~bl.filled
  <2> DEFINE s == [Ins(bl, Jump(t)) EXCEPT !.filled = TRUE]
  <2>1. JumpToBlock(bl, t) = s
        BY <1>4 DEF JumpToBlock
  <2>2. Tight(s, L) /\ Opened(bl) \subseteq Opened(s)
        BY <1>1, <1>4, CloseTight
  <2>3. Good(s, Instrs)
        BY <1>1, <1>4, CloseLemma
  <2>4. s.filled
    <3>1. Ins(bl, Jump(t)) \in Builder(Instrs)
          BY <1>1, <1>4, InsLemma DEF Loose
    <3> QED  BY <3>1, ReplacedIn
  <2> HIDE DEF s
  <2> QED  BY <2>1, <2>2, <2>3, <2>4 DEF Good
<1> QED  BY <1>2, <1>3, <1>4

\* switch_to_block, where the block that is left is terminated.
LEMMA SwitchTight ==
  ASSUME NEW bl, Loose(bl, Instrs), NEW k \in Free(bl), Ended(bl.code[bl.cur]),
         NEW L, Tight(bl, L)
  PROVE  /\ Tight(SwitchToBlock(bl, k), L)
         /\ Opened(bl) \cup {k} \subseteq Opened(SwitchToBlock(bl, k))
<1>1. k \in 1..Len(bl.code)
      BY DEF Free
<1>2. SwitchToBlock(bl, k).code = bl.code /\ SwitchToBlock(bl, k).cur = k
  <2> DEFINE m == [bl EXCEPT !.cur = k]
  <2>1. m = [code |-> bl.code, cur |-> k, filled |-> bl.filled]
        BY ReplacedIn DEF Loose
  <2>2. SwitchToBlock(bl, k) = [m EXCEPT !.filled = FALSE]
        BY DEF SwitchToBlock, Loose, Builder
  <2>3. m \in Builder(Instrs)
    <3>1. k \in Block
          BY <1>1 DEF Block
    <3> QED  BY <2>1, <3>1 DEF Loose, Builder
  <2> HIDE DEF m
  <2> QED  BY <2>1, <2>2, <2>3, ReplacedIn
<1>3. bl.code[bl.cur] # <<>>
      BY DEF Ended
<1>4. Tight(SwitchToBlock(bl, k), L)
      BY <1>2 DEF Tight, Sealed, Lands
<1>5. Opened(bl) \cup {k} \subseteq Opened(SwitchToBlock(bl, k))
      BY <1>1, <1>2, <1>3 DEF Opened
<1> QED  BY <1>4, <1>5

\* create_block: new blocks are empty.
LEMMA CreateTight ==
  ASSUME NEW bl, Good(bl, Instrs), NEW n \in Nat, NEW L, Tight(bl, L)
  PROVE  /\ Tight(CreateBlocks(bl, n), L)
         /\ Opened(bl) \subseteq Opened(CreateBlocks(bl, n))
<1> DEFINE new  == [i \in 1..n |-> <<>>]
           code == bl.code \o new
<1>1. /\ bl.code \in Seq(Seq(Instrs)) /\ bl.cur \in 1..Len(bl.code) /\ Len(bl.code) \in Nat
      BY LenProperties DEF Good, Loose, Builder
<1>2. new \in Seq(Seq(Instrs)) /\ Len(new) = n /\ \A i \in 1..n : new[i] = <<>>
  <2>1. <<>> \in Seq(Instrs)
        BY EmptySeq
  <2>2. new \in [1..n -> Seq(Instrs)]
        BY <2>1
  <2>3. new \in Seq(Seq(Instrs)) /\ Len(new) = n
        BY <2>2, SeqDef, LenProperties
  <2> QED  BY <2>3
<1>3. CreateBlocks(bl, n).code = code /\ CreateBlocks(bl, n).cur = bl.cur
  <2>1. CreateBlocks(bl, n) = [bl EXCEPT !.code = code]
        BY Zenon DEF CreateBlocks
  <2>2. bl \in Builder(Instrs)
        BY DEF Good, Loose
  <2> HIDE DEF code
  <2> QED  BY <2>1, <2>2, ReplacedIn
<1> HIDE DEF new
<1>4. /\ Len(code) = Len(bl.code) + n
      /\ \A i \in 1..Len(bl.code) + n :
            code[i] = IF i <= Len(bl.code) THEN bl.code[i] ELSE new[i - Len(bl.code)]
  <2>1. code \in Seq(Seq(Instrs)) /\ Len(code) = Len(bl.code) + n
        BY <1>1, <1>2, ConcatProperties
  <2>2. \A i \in 1..Len(bl.code) + n :
            code[i] = IF i <= Len(bl.code) THEN bl.code[i] ELSE new[i - Len(bl.code)]
        BY <1>1, <1>2, ConcatProperties
  <2> HIDE DEF code
  <2> QED  BY <2>1, <2>2
<1> HIDE DEF code
<1>5. \A k \in 1..Len(code) : (k \in 1..Len(bl.code) /\ code[k] = bl.code[k]) \/ code[k] = <<>>
  <2> TAKE k \in 1..Len(code)
  <2>1. k \in 1..Len(bl.code) + n
        BY <1>4
  <2>2. CASE k <= Len(bl.code)
        BY <1>1, <1>4, <2>1, <2>2
  <2>3. CASE ~(k <= Len(bl.code))
    <3>1. k - Len(bl.code) \in 1..n
          BY <1>1, <2>1, <2>3
    <3> QED  BY <1>2, <1>4, <2>1, <2>3, <3>1
  <2> QED  BY <2>2, <2>3
<1>6. \A k \in 1..Len(bl.code) : k \in 1..Len(code) /\ code[k] = bl.code[k]
  <2> TAKE k \in 1..Len(bl.code)
  <2>1. k \in 1..Len(bl.code) + n /\ k <= Len(bl.code)
        BY <1>1
  <2> QED  BY <1>4, <2>1
<1>7. Len(<<>>) = 0 /\ \A i : i \notin 1..0
      BY EmptySeq
<1>8. Tight(CreateBlocks(bl, n), L)
  <2>1. Sealed(CreateBlocks(bl, n))
        BY <1>3, <1>5 DEF Tight, Sealed
  <2>2. ASSUME NEW k \in 1..Len(code), NEW i \in 1..Len(code[k])
        PROVE  Targets(code[k][i]) \subseteq L
        BY <1>5, <1>7 DEF Tight, Lands
  <2>3. Lands(CreateBlocks(bl, n), L)
        BY <1>3, <2>2 DEF Lands
  <2> QED  BY <2>1, <2>3 DEF Tight
<1>9. Opened(bl) \subseteq Opened(CreateBlocks(bl, n))
      BY <1>3, <1>6 DEF Opened
<1> QED  BY <1>8, <1>9

\* There are sets that have all the targets of a block and more.
LEMMA Everywhere ==
  ASSUME NEW bl, Sealed(bl), NEW S
  PROVE  \E L : Tight(bl, L) /\ S \subseteq L
<1> DEFINE In(k) == UNION {Targets(bl.code[k][i]) : i \in 1..Len(bl.code[k])}
           L     == S \cup UNION {In(k) : k \in 1..Len(bl.code)}
<1>1. Lands(bl, L)
      BY DEF Lands
<1>2. S \subseteq L
      OBVIOUS
<1> QED  BY <1>1, <1>2 DEF Tight

-----------------------------------------------------------------------------
(* The call stack.                                                         *)

\* What the tasks of a stack open, and the loops they return to.
LEMMA DueAbove ==
  ASSUME NEW s \in Seq(Tasks), NEW ts \in Seq(Tasks)
  PROVE  /\ DueOf(ts \o s) = DueOf(ts) \cup DueOf(s)
         /\ Heads(ts \o s) = Heads(ts) \cup Heads(s)
<1> DEFINE r == ts \o s
<1>1. /\ Len(ts) \in Nat /\ Len(s) \in Nat /\ Len(r) = Len(ts) + Len(s)
      /\ \A i \in 1..Len(ts) : r[i] = ts[i]
      /\ \A i \in 1..Len(s) : r[i + Len(ts)] = s[i]
      /\ \A i \in 1..Len(r) : i \in 1..Len(ts) \/ i - Len(ts) \in 1..Len(s)
      BY OnTopOf
<1> HIDE DEF r
<1>2. \A i \in 1..Len(r) : \/ i \in 1..Len(ts) /\ r[i] = ts[i]
                           \/ \E j \in 1..Len(s) : r[i] = s[j]
  <2> TAKE i \in 1..Len(r)
  <2>1. CASE i \in 1..Len(ts)
        BY <1>1, <2>1
  <2>2. CASE i - Len(ts) \in 1..Len(s)
    <3>1. (i - Len(ts)) + Len(ts) = i
          BY <1>1
    <3> QED  BY <1>1, <2>2, <3>1
  <2> QED  BY <1>1, <2>1, <2>2
<1>3. \A i \in 1..Len(ts) : i \in 1..Len(r)
      BY <1>1
<1>4. \A i \in 1..Len(s) : i + Len(ts) \in 1..Len(r)
      BY <1>1
<1>5. DueOf(r) = DueOf(ts) \cup DueOf(s)
      BY <1>1, <1>2, <1>3, <1>4 DEF DueOf
<1>6. Heads(r) = Heads(ts) \cup Heads(s)
  <2>1. ASSUME NEW k \in Heads(r) PROVE k \in Heads(ts) \cup Heads(s)
    <3>1. PICK i \in 1..Len(r) : r[i].op \in LoopTasks /\ k = r[i].blk[1]
          BY <2>1 DEF Heads
    <3> QED  BY <1>2, <3>1 DEF Heads
  <2>2. ASSUME NEW k \in Heads(ts) PROVE k \in Heads(r)
    <3>1. PICK i \in 1..Len(ts) : ts[i].op \in LoopTasks /\ k = ts[i].blk[1]
          BY <2>2 DEF Heads
    <3> QED  BY <1>1, <1>3, <3>1 DEF Heads
  <2>3. ASSUME NEW k \in Heads(s) PROVE k \in Heads(r)
    <3>1. PICK i \in 1..Len(s) : s[i].op \in LoopTasks /\ k = s[i].blk[1]
          BY <2>3 DEF Heads
    <3> QED  BY <1>1, <1>4, <3>1 DEF Heads
  <2> QED  BY <2>1, <2>2, <2>3
<1> QED  BY <1>5, <1>6 DEF r

\* One task.
LEMMA DueOne ==
  ASSUME NEW t \in Tasks
  PROVE  /\ DueOf(<<t>>) = Due(t)
         /\ Heads(<<t>>) = IF t.op \in LoopTasks THEN {t.blk[1]} ELSE {}
<1> DEFINE r == <<t>>
<1>1. Len(r) = 1 /\ r[1] = t
      BY Single
<1> HIDE DEF r
<1>2. \A i \in 1..1 : i = 1
      OBVIOUS
<1>3. DueOf(r) = Due(t)
      BY <1>1, <1>2 DEF DueOf
<1>4. Heads(r) = IF t.op \in LoopTasks THEN {t.blk[1]} ELSE {}
      BY <1>1, <1>2 DEF Heads
<1> QED  BY <1>3, <1>4 DEF r

\* Statements that are still to be compiled promise nothing.
LEMMA NothingDue ==
  ASSUME NEW ts, \A i \in 1..Len(ts) : ts[i].op \in Plain \cup {"endFunction"}
  PROVE  DueOf(ts) = {} /\ Heads(ts) = {}
<1>1. \A i \in 1..Len(ts) : Due(ts[i]) = {} /\ ts[i].op \notin LoopTasks
      BY DEF Due, Pending, Opens, Plain, LoopTasks
<1> QED  BY <1>1 DEF DueOf, Heads

\* A statement of a given number.
LEMMA StmtDue ==
  ASSUME NEW k
  PROVE  DueOf(<<Stmt(k)>>) = {} /\ Heads(<<Stmt(k)>>) = {}
<1>1. Len(<<Stmt(k)>>) = 1 /\ <<Stmt(k)>>[1].op = "stmt"
      BY DEF Stmt, Task
<1>2. \A i \in 1..1 : i = 1
      OBVIOUS
<1> QED  BY <1>1, <1>2, NothingDue DEF Plain

-----------------------------------------------------------------------------
(* The steps.                                                              *)

\* The task on top and the rest, as the code sees them.
LEMMA CodeTop ==
  ASSUME IInv, CodeOK, Running
  PROVE  /\ Tight(b, Landing(b, todo, switches))
         /\ Held(todo, loops, switches, labels) \subseteq Landing(b, todo, switches)
         /\ Caller(todo, 1).op = "endFunction"
         /\ todo = <<Top>> \o Tail(todo) /\ Top \in Tasks /\ Tail(todo) \in Seq(Tasks)
         /\ DueOf(todo) = Due(Top) \cup DueOf(Tail(todo))
         /\ Heads(Tail(todo)) \subseteq Heads(todo)
         /\ Top.op \in LoopTasks => Top.blk[1] \in Heads(todo)
<1>1. todo \in Seq(Tasks) /\ todo # <<>> /\ err = "none"
      BY DEF IInv, StackOK, Frames, Running
<1>2. Top \in Tasks /\ Tail(todo) \in Seq(Tasks) /\ todo = <<Top>> \o Tail(todo)
      BY <1>1, HeadTailProperties, HeadTailConcat DEF Top
<1>3. <<Top>> \in Seq(Tasks)
      BY <1>2, Single
<1>4. /\ DueOf(<<Top>> \o Tail(todo)) = DueOf(<<Top>>) \cup DueOf(Tail(todo))
      /\ Heads(<<Top>> \o Tail(todo)) = Heads(<<Top>>) \cup Heads(Tail(todo))
      BY <1>2, <1>3, DueAbove
<1>5. /\ DueOf(<<Top>>) = Due(Top)
      /\ Heads(<<Top>>) = IF Top.op \in LoopTasks THEN {Top.blk[1]} ELSE {}
      BY <1>2, DueOne
<1>6. /\ DueOf(todo) = Due(Top) \cup DueOf(Tail(todo))
      /\ Heads(Tail(todo)) \subseteq Heads(todo)
      /\ Top.op \in LoopTasks => Top.blk[1] \in Heads(todo)
      BY <1>2, <1>4, <1>5
<1> QED  BY <1>1, <1>2, <1>6 DEF CodeOK

\* The function is at the bottom of the stack.
LEMMA SameBottom ==
  ASSUME NEW s \in Seq(Tasks), NEW t \in Tasks, t.op # "endFunction", NEW ts \in Seq(Tasks),
         Caller(<<t>> \o s, 1).op = "endFunction"
  PROVE  ts \o s # <<>> /\ Caller(ts \o s, 1).op = "endFunction"
<1> DEFINE r == ts \o s
           q == <<t>> \o s
<1>1. <<t>> \in Seq(Tasks) /\ Len(<<t>>) = 1 /\ <<t>>[1] = t
      BY Single
<1>2. /\ Len(s) \in Nat /\ Len(q) = 1 + Len(s)
      /\ \A h \in 1..Len(s) : Caller(q, h) = Caller(s, h)
      /\ \A h \in 1..Len(q) : h \in 1..Len(s) \/ \E i \in 1..1 : Caller(q, h) = <<t>>[i]
      BY <1>1, Heights, ZenonT(40)
<1>3. /\ Len(ts) \in Nat /\ Len(r) = Len(ts) + Len(s)
      /\ \A h \in 1..Len(s) : Caller(r, h) = Caller(s, h)
      BY Heights
<1> HIDE DEF q, r
<1>4. 1 \in 1..Len(q)
      BY <1>2
<1>5. ~(1 \in 1..Len(s)) => Caller(q, 1) = t
      BY <1>1, <1>2, <1>4
<1>6. 1 \in 1..Len(s)
      BY <1>5 DEF q
<1>7. Caller(r, 1).op = "endFunction"
      BY <1>2, <1>3, <1>6 DEF q
<1>8. Len(r) # 0
      BY <1>2, <1>3, <1>6
<1>9. r # <<>>
      BY <1>8, EmptySeq
<1> QED  BY <1>7, <1>9 DEF r

\* Where a jump may land, it may land after the step.
LEMMA Reached ==
  ASSUME IInv, CodeOK, Running, NEW ts \in Seq(Tasks), todo' = ts \o Tail(todo),
         Opened(b) \subseteq Opened(b'),
         Due(Top) \subseteq Landing(b', todo', switches'),
         Ends(switches) \subseteq Landing(b', todo', switches')
  PROVE  /\ Landing(b, todo, switches) \subseteq Landing(b', todo', switches')
         /\ Tight(b, Landing(b', todo', switches'))
         /\ Held(todo, loops, switches, labels) \subseteq Landing(b', todo', switches')
         /\ Heads(todo') \subseteq Heads(ts) \cup Landing(b', todo', switches')
         /\ DueOf(ts) \subseteq Landing(b', todo', switches')
<1> DEFINE L == Landing(b, todo, switches)
           M == Landing(b', todo', switches')
           s == Tail(todo)
<1>1. /\ Tight(b, L) /\ Held(todo, loops, switches, labels) \subseteq L
      /\ s \in Seq(Tasks) /\ DueOf(todo) = Due(Top) \cup DueOf(s)
      /\ Heads(s) \subseteq Heads(todo)
      BY CodeTop
<1> HIDE DEF s
<1>2. DueOf(todo') = DueOf(ts) \cup DueOf(s) /\ Heads(todo') = Heads(ts) \cup Heads(s)
      BY <1>1, DueAbove DEF s
<1>3. L \subseteq M
      BY <1>1, <1>2 DEF Landing
<1>4. DueOf(ts) \subseteq M
      BY <1>2 DEF Landing
<1>5. Heads(todo) \subseteq L
      BY <1>1 DEF Held
<1> HIDE DEF L, M
<1>6. Tight(b, M)
      BY <1>1, <1>3, MoreLanding
<1> QED  BY <1>1, <1>2, <1>3, <1>4, <1>5, <1>6 DEF L, M

\* What the code is after the step.
LEMMA Emitted ==
  ASSUME IInv, CodeOK, Running, Top.op # "endFunction", prog' = prog, next' = next,
         NEW ts \in Seq(Tasks), todo' = ts \o Tail(todo),
         Opened(b) \subseteq Opened(b'),
         Due(Top) \subseteq Landing(b', todo', switches'),
         Ends(switches) \subseteq Landing(b', todo', switches'),
         Tight(b', Landing(b', todo', switches')),
         Heads(ts) \subseteq Landing(b', todo', switches'),
         LoopBlocks(loops') \subseteq LoopBlocks(loops) \cup Landing(b', todo', switches'),
         CaseBlocks(switches') \subseteq CaseBlocks(switches) \cup Landing(b', todo', switches'),
         Gotos(labels') \subseteq Gotos(labels) \cup Landing(b', todo', switches')
  PROVE  Coded
<1> DEFINE M == Landing(b', todo', switches')
<1>1. Held(todo, loops, switches, labels) \subseteq M /\ Heads(todo') \subseteq Heads(ts) \cup M
      BY Reached
<1>2. Tight(b', M) /\ Heads(ts) \subseteq M
      OBVIOUS
<1>3. Held(todo', loops', switches', labels') \subseteq M
      BY <1>1, <1>2 DEF Held
<1>4. Vals' = Vals /\ Named' = Named
  <2>1. Vals' = Vals
        BY DEF Vals, Node
  <2>2. \A n : InBody(next, n)' <=> InBody(next, n)
        BY DEF InBody
  <2> QED  BY <2>1, <2>2 DEF Named, Node
<1>5. \A ins : Targets(ins)' = Targets(ins)
      BY <1>4 DEF Targets
<1>6. (\A m : Blocks(m)' = Blocks(m)) /\ (\A m : Gotos(m)' = Gotos(m))
      BY <1>4 DEF Blocks, Gotos
<1>7. Held(todo, loops, switches, labels)' = Held(todo', loops', switches', labels')
      BY <1>6 DEF Held, CaseBlocks
<1>8. Tight(b, Landing(b, todo, switches))' <=> Tight(b', M)
      BY <1>5 DEF Tight, Lands
<1>9. todo' # <<>> /\ Caller(todo', 1).op = "endFunction"
  <2>1. /\ todo = <<Top>> \o Tail(todo) /\ Top \in Tasks /\ Tail(todo) \in Seq(Tasks)
        /\ Caller(todo, 1).op = "endFunction"
        BY CodeTop
  <2> DEFINE s == Tail(todo)
  <2> HIDE DEF s
  <2>2. ts \o s # <<>> /\ Caller(ts \o s, 1).op = "endFunction"
        BY <2>1, SameBottom DEF s
  <2> QED  BY <2>2 DEF s
<1>10. CodeOK'
      BY <1>2, <1>3, <1>7, <1>8, <1>9 DEF CodeOK
<1> QED  BY <1>9, <1>10 DEF Coded

\* The same where the targets are shown to be in any set that has the old and
\* the new ones.
LEMMA StepCode ==
  ASSUME IInv, CodeOK, Running, Top.op # "endFunction", prog' = prog, next' = next,
         NEW ts \in Seq(Tasks), todo' = ts \o Tail(todo),
         Opened(b) \subseteq Opened(b'),
         Due(Top) \subseteq Opened(b') \cup DueOf(ts),
         Ends(switches) \subseteq Ends(switches') \cup Opened(b'),
         \A M : /\ Landing(b, todo, switches) \subseteq M
                /\ Held(todo, loops, switches, labels) \subseteq M
                /\ Opened(b') \cup DueOf(ts) \cup Ends(switches') \subseteq M
                /\ Tight(b, M)
                => /\ Tight(b', M) /\ Heads(ts) \subseteq M
                   /\ LoopBlocks(loops') \subseteq M /\ CaseBlocks(switches') \subseteq M
                   /\ Gotos(labels') \subseteq M
  PROVE  Coded
<1> DEFINE M == Landing(b', todo', switches')
           s == Tail(todo)
<1>1. s \in Seq(Tasks)
      BY CodeTop
<1>2. DueOf(todo') = DueOf(ts) \cup DueOf(s)
      BY <1>1, DueAbove
<1>3. Opened(b') \cup DueOf(ts) \cup Ends(switches') \subseteq M
      BY <1>2 DEF Landing
<1>4. Due(Top) \subseteq M /\ Ends(switches) \subseteq M
      BY <1>3
<1>5. /\ Landing(b, todo, switches) \subseteq M /\ Tight(b, M)
      /\ Held(todo, loops, switches, labels) \subseteq M
      BY <1>4, Reached
<1> HIDE DEF M, s
<1>6. /\ Tight(b', M) /\ Heads(ts) \subseteq M
      /\ LoopBlocks(loops') \subseteq M /\ CaseBlocks(switches') \subseteq M
      /\ Gotos(labels') \subseteq M
      BY <1>3, <1>5
<1>7. /\ LoopBlocks(loops') \subseteq LoopBlocks(loops) \cup M
      /\ CaseBlocks(switches') \subseteq CaseBlocks(switches) \cup M
      /\ Gotos(labels') \subseteq Gotos(labels) \cup M
      BY <1>6
<1> QED  BY <1>4, <1>6, <1>7, Emitted DEF M

\* Nothing is entered or left, and no label is bound.
LEMMA PlainCode ==
  ASSUME IInv, CodeOK, Running, Top.op # "endFunction", prog' = prog, next' = next,
         NEW ts \in Seq(Tasks), todo' = ts \o Tail(todo),
         Opened(b) \subseteq Opened(b'), Due(Top) \subseteq Opened(b') \cup DueOf(ts),
         Heads(ts) = {}, UNCHANGED <<labels, Context>>,
         \A M : /\ Landing(b, todo, switches) \cup Opened(b') \cup DueOf(ts) \subseteq M
                /\ Held(todo, loops, switches, labels) \subseteq M
                /\ Tight(b, M)
                => Tight(b', M)
  PROVE  Coded
<1>1. loops' = loops /\ switches' = switches /\ labels' = labels
      BY DEF Context
<1>2. Ends(switches) \subseteq Ends(switches') \cup Opened(b')
      BY <1>1
<1>3. ASSUME NEW M, Landing(b, todo, switches) \subseteq M,
             Held(todo, loops, switches, labels) \subseteq M,
             Opened(b') \cup DueOf(ts) \cup Ends(switches') \subseteq M, Tight(b, M)
      PROVE  /\ Tight(b', M) /\ Heads(ts) \subseteq M
             /\ LoopBlocks(loops') \subseteq M /\ CaseBlocks(switches') \subseteq M
             /\ Gotos(labels') \subseteq M
  <2>1. Tight(b', M)
        BY <1>3
  <2>2. Held(todo, loops', switches', labels') \subseteq M
        BY <1>1, <1>3
  <2> QED  BY <2>1, <2>2 DEF Held
<1> QED  BY <1>2, <1>3, StepCode

\* The task on top is done.
LEMMA PopCode ==
  ASSUME IInv, CodeOK, Running, Top.op # "endFunction", prog' = prog, next' = next, Pop, UNCHANGED <<labels, Context>>,
         Opened(b) \subseteq Opened(b'), Due(Top) \subseteq Opened(b'),
         \A M : /\ Landing(b, todo, switches) \cup Opened(b') \subseteq M
                /\ Held(todo, loops, switches, labels) \subseteq M
                /\ Tight(b, M)
                => Tight(b', M)
  PROVE  Coded
<1>1. Tail(todo) \in Seq(Tasks) /\ <<>> \in Seq(Tasks) /\ Len(<<>>) = 0 /\ \A i : i \notin 1..0
      BY CodeTop, EmptySeq
<1>2. todo' = <<>> \o Tail(todo)
      BY <1>1, ConcatEmptySeq DEF Pop
<1>3. DueOf(<<>>) = {} /\ Heads(<<>>) = {}
      BY <1>1 DEF DueOf, Heads
<1>4. Due(Top) \subseteq Opened(b') \cup DueOf(<<>>)
      OBVIOUS
<1>5. \A M : /\ Landing(b, todo, switches) \cup Opened(b') \cup DueOf(<<>>) \subseteq M
             /\ Held(todo, loops, switches, labels) \subseteq M
             /\ Tight(b, M)
             => Tight(b', M)
      OBVIOUS
<1> QED  BY <1>1, <1>2, <1>3, <1>4, <1>5, PlainCode

\* jump_to_block, then switch_to_block.
LEMMA JumpAndOpen ==
  ASSUME NEW bl, Good(bl, Instrs), NEW t \in Block, NEW k \in Free(bl)
  PROVE  /\ Good(SwitchToBlock(JumpToBlock(bl, t), k), Instrs)
         /\ ~SwitchToBlock(JumpToBlock(bl, t), k).filled
         /\ Free(bl) \ {k} \subseteq Free(SwitchToBlock(JumpToBlock(bl, t), k))
         /\ \A L : Tight(bl, L) /\ (~bl.filled => t \in L) =>
              /\ Tight(SwitchToBlock(JumpToBlock(bl, t), k), L)
              /\ Opened(bl) \cup {k} \subseteq Opened(SwitchToBlock(JumpToBlock(bl, t), k))
<1> DEFINE j == JumpToBlock(bl, t)
<1>1. Good(j, Instrs) /\ Free(bl) \subseteq Free(j)
      BY FreeJump
<1>2. \A L : Tight(bl, L) /\ (~bl.filled => t \in L) =>
        Tight(j, L) /\ Opened(bl) \subseteq Opened(j) /\ Ended(j.code[j.cur])
      BY JumpTight
<1> HIDE DEF j
<1>3. Loose(j, Instrs) /\ k \in Free(j)
      BY <1>1 DEF Good
<1>4. /\ Good(SwitchToBlock(j, k), Instrs) /\ ~SwitchToBlock(j, k).filled
      /\ Free(j) \ {k} \subseteq Free(SwitchToBlock(j, k))
      BY <1>3, FreeSwitch
<1>5. ASSUME NEW L, Tight(bl, L), ~bl.filled => t \in L
      PROVE  /\ Tight(SwitchToBlock(j, k), L)
             /\ Opened(bl) \cup {k} \subseteq Opened(SwitchToBlock(j, k))
  <2>1. Tight(j, L) /\ Opened(bl) \subseteq Opened(j) /\ Ended(j.code[j.cur])
        BY <1>2, <1>5
  <2>2. /\ Tight(SwitchToBlock(j, k), L)
        /\ Opened(j) \cup {k} \subseteq Opened(SwitchToBlock(j, k))
        BY <1>3, <2>1, SwitchTight
  <2> QED  BY <2>1, <2>2
<1>6. Free(bl) \ {k} \subseteq Free(SwitchToBlock(j, k))
      BY <1>1, <1>4
<1> QED  BY <1>4, <1>5, <1>6 DEF j

\* A statement promises nothing.
LEMMA StmtTop ==
  ASSUME Top.op \in Plain \cup {"endFunction"}
  PROVE  Due(Top) = {}
BY DEF Due, Pending, Opens, Plain

\* What adds no code: declarations, blocks and the beginning of a for.
LEMMA SilentCode ==
  ASSUME IInv, CodeOK, DeclareStack \/ Compound \/ For
  PROVE  Coded
<1>1. /\ Running /\ Top.op = "stmt" /\ b' = b /\ prog' = prog /\ next' = next /\ UNCHANGED <<labels, Context>>
      BY DEF DeclareStack, Compound, For, Compiling, At, Frame
<1>2. Due(Top) = {}
      BY <1>1, StmtTop DEF Plain
<1>3. CASE DeclareStack
      BY <1>1, <1>2, <1>3, PopCode DEF DeclareStack
<1>4. CASE Compound
  <2> DEFINE n  == Top.node
             ts == [i \in DOMAIN Node(n).kids |-> Stmt(Kid(n, i))]
  <2>1. Node(n).kind = "compound" /\ n \in DOMAIN prog.node /\ todo' = ts \o Tail(todo)
        BY <1>4, CompilingFacts DEF Compound, Push
  <2>2. Node(n).kids \in Seq(DOMAIN prog.node) /\ DOMAIN Node(n).kids = 1..Len(Node(n).kids)
        /\ Len(Node(n).kids) \in Nat /\ prog \in Programs
        /\ \A i \in 1..Len(Node(n).kids) : Kid(n, i) \in DOMAIN prog.node
        BY <2>1, NodeFacts, LenProperties DEF IInv
  <2>3. \A i \in DOMAIN Node(n).kids :
          Stmt(Kid(n, i)) \in Tasks /\ Stmt(Kid(n, i)).op = "stmt"
        BY <2>2, StmtFacts
  <2>4. ts \in Seq(Tasks) /\ Len(ts) = Len(Node(n).kids)
    <3>1. ts \in [1..Len(Node(n).kids) -> Tasks]
          BY <2>2, <2>3
    <3> QED  BY <2>2, <3>1, SeqDef, LenProperties
  <2>5. \A i \in 1..Len(ts) : ts[i].op = "stmt"
        BY <2>2, <2>3, <2>4
  <2> HIDE DEF ts
  <2>6. DueOf(ts) = {} /\ Heads(ts) = {}
        BY <2>5, NothingDue DEF Plain
  <2> QED  BY <1>1, <1>2, <2>1, <2>4, <2>6, PlainCode
<1>5. CASE For
  <2> DEFINE n  == Top.node
             k  == Kid(n, 1)
             t  == Task("for", n, <<>>, FALSE)
             ts == <<Stmt(k), t>>
  <2>1. Node(n).kind = "for" /\ n \in DOMAIN prog.node /\ n \in Nat /\ todo' = ts \o Tail(todo)
        BY <1>5, CompilingFacts DEF For, Push
  <2>2. k \in DOMAIN prog.node /\ prog \in Programs
        BY <2>1, KidFacts DEF IInv
  <2> HIDE DEF k, n
  <2>3. Stmt(k) \in Tasks /\ Stmt(k).op = "stmt"
        BY <2>2, StmtFacts
  <2>4. t \in Tasks /\ t.op = "for"
    <3>1. <<>> \in Seq(Block) /\ "for" \in TaskOps /\ FALSE \in BOOLEAN
          BY EmptySeq DEF TaskOps
    <3> QED  BY <2>1, <3>1 DEF Task, Tasks
  <2> HIDE DEF t
  <2>5. ts \in Seq(Tasks) /\ Len(ts) = 2 /\ ts[1] = Stmt(k) /\ ts[2] = t
        BY <2>3, <2>4
  <2> HIDE DEF ts
  <2>6. \A i \in 1..2 : i = 1 \/ i = 2
        OBVIOUS
  <2>7. \A i \in 1..Len(ts) : ts[i].op \in Plain
        BY <2>3, <2>4, <2>5, <2>6 DEF Plain
  <2>8. DueOf(ts) = {} /\ Heads(ts) = {}
        BY <2>7, NothingDue
  <2> QED  BY <1>1, <1>2, <2>1, <2>5, <2>8, PlainCode
<1> QED  BY <1>3, <1>4, <1>5

\* Straight-line code and return jump nowhere.
LEMMA ExpressionCode ==
  ASSUME IInv, CodeOK, Expression \/ Return
  PROVE  Coded
<1>1. /\ Running /\ Top.op \in {"stmt", "post"} /\ Pop /\ prog' = prog /\ next' = next
      /\ UNCHANGED <<labels, Context>> /\ ~b.filled
      /\ \/ b' = Ins(b, Run(Top.node)) \/ b' = Ins(b, Post(Top.node))
         \/ b' = [Ins(b, Ret(Top.node)) EXCEPT !.filled = TRUE]
      BY DEF Expression, Return, Compiling, Reachable, JumpTargetKinds, At, Frame
<1>2. Due(Top) = {} /\ Good(b, Instrs) /\ Top.node \in Nat
      BY <1>1, StmtTop, TopFacts DEF Plain, Tasks
<1>3. /\ Run(Top.node) \in Instrs /\ Post(Top.node) \in Instrs /\ Ret(Top.node) \in Instrs
  <2>1. 1 \in Block
        BY DEF Block
  <2> QED  BY <1>2, <2>1, InstrFacts
<1>4. ASSUME NEW M, Tight(b, M)
      PROVE  Tight(b', M) /\ Opened(b) \subseteq Opened(b')
  <2>1. /\ Targets(Run(Top.node)) \subseteq M /\ Targets(Post(Top.node)) \subseteq M
        /\ Targets(Ret(Top.node)) \subseteq M
        BY TargetsOf
  <2> QED  BY <1>1, <1>2, <1>3, <1>4, <2>1, InsTight, CloseTight
<1>5. Opened(b) \subseteq Opened(b')
  <2>1. Tight(b, Landing(b, todo, switches))
        BY <1>1, CodeTop
  <2> QED  BY <1>4, <2>1
<1> QED  BY <1>1, <1>2, <1>4, <1>5, PopCode

\* goto and break jump to a block that is held.
LEMMA JumpCode ==
  ASSUME IInv, CodeOK, TasksHere, Goto \/ LoopExit
  PROVE  Coded
<1>1. CASE err' # "none"
      BY <1>1 DEF Coded
<1>2. CASE err' = "none"
  <2>1. /\ Running /\ Top.op = "stmt" /\ Pop /\ prog' = prog /\ next' = next /\ UNCHANGED <<labels, Context>>
        /\ \E t \in Held(todo, loops, switches, labels) \cup Landing(b, todo, switches) :
              t \in Block /\ b' = JumpToBlock(b, t)
    <3>1. CASE Goto
      <4> DEFINE t == labels[Node(Top.node).val]
      <4>1. /\ Compiling("goto") /\ t # 0 /\ b' = JumpToBlock(b, t) /\ Pop /\ prog' = prog /\ next' = next
            /\ UNCHANGED <<labels, Context>>
            BY <1>2, <3>1 DEF Goto, Fail, Frame
      <4>2. Running /\ Top.op = "stmt" /\ Node(Top.node).kind = "goto"
            /\ Top.node \in DOMAIN prog.node
            BY <4>1, CompilingFacts
      <4>3. Node(Top.node).val \in Vals /\ labels \in Maps
            BY <4>2, NodeFacts DEF IInv
      <4>4. t \in Block
            BY <4>1, <4>3 DEF Maps, Block
      <4>5. InBody(next, Top.node)
            BY <4>2, TopHere
      <4>6. t \in Held(todo, loops, switches, labels)
        <5>1. Node(Top.node).val \in Named
              BY <4>2, <4>3, <4>5 DEF Named
        <5> QED  BY <4>1, <5>1 DEF Held, Gotos
      <4> HIDE DEF t
      <4> QED  BY <4>1, <4>2, <4>4, <4>6
    <3>2. CASE LoopExit
      <4>1. PICK kind \in {"break", "continue"} :
              /\ Compiling(kind)
              /\ LET target == ExitTarget(kind)
                 IN  \/ "error" \in DOMAIN target /\ Fail(target.error)
                     \/ /\ "block" \in DOMAIN target /\ b' = JumpToBlock(b, target.block)
                        /\ Pop /\ UNCHANGED <<labels, Context>> /\ Frame
            BY <3>2 DEF LoopExit
      <4>2. ~("error" \in DOMAIN ExitTarget(kind) /\ Fail(ExitTarget(kind).error))
            BY <1>2 DEF ExitTarget, Fail
      <4> DEFINE t == ExitTarget(kind).block
      <4>3. /\ Compiling(kind) /\ "block" \in DOMAIN ExitTarget(kind) /\ b' = JumpToBlock(b, t)
            /\ Pop /\ prog' = prog /\ next' = next /\ UNCHANGED <<labels, Context>>
            BY <4>1, <4>2 DEF Frame
      <4>4. Running /\ Top.op = "stmt"
            BY <4>3 DEF Compiling, At
      <4>5. loops \in Seq(Block \X Block) /\ switches \in Seq(SwitchSet)
            BY DEF IInv, ContextTypes
      <4>6. \/ loops # <<>> /\ t \in {loops[Len(loops)][1], loops[Len(loops)][2]}
            \/ switches # <<>> /\ t = LastSwitch.end
            BY <4>3 DEF ExitTarget
      <4> HIDE DEF t
      <4>7. CASE loops # <<>> /\ t \in {loops[Len(loops)][1], loops[Len(loops)][2]}
        <5>1. Len(loops) \in 1..Len(loops) /\ loops[Len(loops)] \in Block \X Block
          <6>1. Len(loops) \in Nat /\ Len(loops) # 0
                BY <4>5, <4>7, EmptySeq, LenProperties
          <6>2. Len(loops) \in 1..Len(loops)
                BY <6>1
          <6> QED  BY <4>5, <6>2, ElementOfSeq
        <5>2. t \in LoopBlocks(loops) /\ t \in Block
              BY <4>7, <5>1 DEF LoopBlocks
        <5>3. t \in Held(todo, loops, switches, labels)
              BY <5>2 DEF Held
        <5> QED  BY <4>3, <4>4, <5>2, <5>3
      <4>8. CASE switches # <<>> /\ t = LastSwitch.end
        <5>1. Len(switches) \in 1..Len(switches)
          <6>1. Len(switches) \in Nat /\ Len(switches) # 0
                BY <4>5, <4>8, EmptySeq, LenProperties
          <6> QED  BY <6>1
        <5>2. t \in Ends(switches) /\ t \in Block
              BY <4>8, <5>1, LastSwitchFacts DEF Ends, LastSwitch
        <5>3. t \in Landing(b, todo, switches)
              BY <5>2 DEF Landing
        <5> QED  BY <4>3, <4>4, <5>2, <5>3
      <4> QED  BY <4>6, <4>7, <4>8
    <3> QED  BY <3>1, <3>2
  <2>2. PICK t \in Held(todo, loops, switches, labels) \cup Landing(b, todo, switches) :
          t \in Block /\ b' = JumpToBlock(b, t)
        BY <2>1
  <2>3. Due(Top) = {} /\ Good(b, Instrs)
        BY <2>1, StmtTop, TopFacts DEF Plain
  <2>4. ASSUME NEW M, Tight(b, M), t \in M
        PROVE  Tight(b', M) /\ Opened(b) \subseteq Opened(b')
        BY <2>2, <2>3, <2>4, JumpTight
  <2>5. /\ Tight(b, Landing(b, todo, switches))
        /\ Held(todo, loops, switches, labels) \subseteq Landing(b, todo, switches)
        BY <2>1, CodeTop
  <2>6. Opened(b) \subseteq Opened(b')
        BY <2>2, <2>4, <2>5
  <2>7. \A M : /\ Landing(b, todo, switches) \subseteq M
               /\ Held(todo, loops, switches, labels) \subseteq M
               /\ Tight(b, M)
               => Tight(b', M)
        BY <2>2, <2>4
  <2> QED  BY <2>1, <2>3, <2>6, <2>7, PopCode
<1> QED  BY <1>1, <1>2

\* A terminator, then switch_to_block.
LEMMA InsAndOpen ==
  ASSUME NEW bl, Good(bl, Instrs), ~bl.filled, NEW ins \in Instrs, Terminates(ins),
         NEW k \in Free(bl)
  PROVE  /\ Good(SwitchToBlock(Ins(bl, ins), k), Instrs)
         /\ ~SwitchToBlock(Ins(bl, ins), k).filled
         /\ Free(bl) \ {k} \subseteq Free(SwitchToBlock(Ins(bl, ins), k))
         /\ \A L : Tight(bl, L) /\ Targets(ins) \subseteq L =>
              /\ Tight(SwitchToBlock(Ins(bl, ins), k), L)
              /\ Opened(bl) \cup {k} \subseteq Opened(SwitchToBlock(Ins(bl, ins), k))
<1> DEFINE r == Ins(bl, ins)
<1>1. /\ Loose(r, Instrs) /\ r.cur = bl.cur /\ Ended(r.code[r.cur])
  <2>1. Loose(r, Instrs) /\ r.cur = bl.cur /\ (Ended(r.code[bl.cur]) <=> Terminates(ins))
        BY InsLemma
  <2> HIDE DEF r
  <2> QED  BY <2>1
<1>2. Free(bl) \subseteq Free(r)
      BY FreeIns
<1>3. \A L : Tight(bl, L) /\ Targets(ins) \subseteq L => Tight(r, L) /\ Opened(bl) \subseteq Opened(r)
      BY InsTight
<1> HIDE DEF r
<1>4. k \in Free(r)
      BY <1>2
<1>5. /\ Good(SwitchToBlock(r, k), Instrs) /\ ~SwitchToBlock(r, k).filled
      /\ Free(r) \ {k} \subseteq Free(SwitchToBlock(r, k))
      BY <1>1, <1>4, FreeSwitch
<1>6. ASSUME NEW L, Tight(bl, L), Targets(ins) \subseteq L
      PROVE  /\ Tight(SwitchToBlock(r, k), L)
             /\ Opened(bl) \cup {k} \subseteq Opened(SwitchToBlock(r, k))
  <2>1. Tight(r, L) /\ Opened(bl) \subseteq Opened(r)
        BY <1>3, <1>6
  <2>2. /\ Tight(SwitchToBlock(r, k), L)
        /\ Opened(r) \cup {k} \subseteq Opened(SwitchToBlock(r, k))
        BY <1>1, <1>4, <2>1, SwitchTight
  <2> QED  BY <2>1, <2>2
<1>7. Free(bl) \ {k} \subseteq Free(SwitchToBlock(r, k))
      BY <1>2, <1>5
<1> QED  BY <1>5, <1>6, <1>7 DEF r

\* Two tasks.
LEMMA TwoOf ==
  ASSUME NEW S, NEW x \in S, NEW t \in S
  PROVE  <<x, t>> \in Seq(S) /\ Len(<<x, t>>) = 2 /\ <<x, t>>[1] = x /\ <<x, t>>[2] = t
OBVIOUS

\* A statement, then what is done after it.
LEMMA TwoDue ==
  ASSUME NEW x \in Tasks, x.op = "stmt", NEW t \in Tasks
  PROVE  /\ <<x, t>> \in Seq(Tasks) /\ DueOf(<<x, t>>) = Due(t)
         /\ t.op \in LoopTasks => Heads(<<x, t>>) = {t.blk[1]}
         /\ t.op \notin LoopTasks => Heads(<<x, t>>) = {}
<1> DEFINE ts == <<x, t>>
<1>1. x.op = "stmt"
      OBVIOUS
<1>2. ts \in Seq(Tasks) /\ Len(ts) = 2 /\ ts[1] = x /\ ts[2] = t
      BY TwoOf
<1> HIDE DEF ts
<1>3. Due(x) = {} /\ x.op \notin LoopTasks
      BY <1>1 DEF Due, Pending, Opens, Plain, LoopTasks
<1>4. \A i \in 1..2 : i = 1 \/ i = 2
      OBVIOUS
<1>5. DueOf(ts) = Due(t)
      BY <1>2, <1>3, <1>4 DEF DueOf
<1>6. /\ t.op \in LoopTasks => Heads(ts) = {t.blk[1]}
      /\ t.op \notin LoopTasks => Heads(ts) = {}
      BY <1>2, <1>3, <1>4 DEF Heads
<1> QED  BY <1>2, <1>5, <1>6 DEF ts

\* if: the block that is not the body is opened later.
LEMMA IfCode ==
  ASSUME IInv, CodeOK, If
  PROVE  Coded
<1> DEFINE n    == Top.node
           k    == Kid(n, 1)
           body == Fresh(b, 1)
           end  == Fresh(b, 2)
           els  == Fresh(b, 3)
           t    == Task("endIf", n, <<end>>, FALSE)
           u    == Task("else", n, <<els, end>>, FALSE)
<1>1. /\ Running /\ Top.op = "stmt" /\ Node(n).kind = "if"
      /\ n \in DOMAIN prog.node /\ n \in Nat /\ ~b.filled
      BY CompilingFacts DEF If, JumpTargetKinds
<1>2. /\ prog' = prog /\ next' = next /\ UNCHANGED <<labels, Context>>
      /\ \/ /\ b' = SwitchToBlock(Ins(CreateBlocks(b, 2), Br(n, body, end)), body)
            /\ todo' = <<Stmt(k), t>> \o Tail(todo)
         \/ /\ b' = SwitchToBlock(Ins(CreateBlocks(b, 3), Br(n, body, els)), body)
            /\ todo' = <<Stmt(k), u>> \o Tail(todo)
      BY DEF If, Frame, Push
<1>3. Due(Top) = {} /\ Good(b, Instrs) /\ Len(b.code) \in Nat /\ prog \in Programs
      BY <1>1, StmtTop, TopFacts DEF Plain, IInv
<1>4. body \in Block /\ end \in Block /\ els \in Block
      BY <1>3 DEF Fresh, Block
<1>5. Stmt(k) \in Tasks /\ Stmt(k).op = "stmt"
      BY <1>1, <1>3, KidFacts, StmtFacts
<1>6. ASSUME NEW m \in {2, 3}, NEW x \in Block, NEW M, Tight(b, M), {body, x} \subseteq M
      PROVE  LET r == SwitchToBlock(Ins(CreateBlocks(b, m), Br(n, body, x)), body)
             IN  Tight(r, M) /\ Opened(b) \cup {body} \subseteq Opened(r)
  <2> DEFINE c   == CreateBlocks(b, m)
             ins == Br(n, body, x)
  <2>1. m \in Nat /\ 1 \in 1..m
        OBVIOUS
  <2>2. Good(c, Instrs) /\ ~c.filled /\ body \in Free(c)
        BY <1>1, <1>3, <2>1, FreeCreate
  <2>3. Tight(c, M) /\ Opened(b) \subseteq Opened(c)
        BY <1>3, <1>6, <2>1, CreateTight
  <2> HIDE DEF c, n, body
  <2>4. ins \in Instrs /\ Terminates(ins) /\ Targets(ins) = {body, x}
        BY <1>1, <1>4, InstrFacts, TargetsOf
  <2> HIDE DEF ins
  <2>5. /\ Tight(SwitchToBlock(Ins(c, ins), body), M)
        /\ Opened(c) \cup {body} \subseteq Opened(SwitchToBlock(Ins(c, ins), body))
        BY <1>6, <2>2, <2>3, <2>4, InsAndOpen
  <2>6. Opened(b) \cup {body} \subseteq Opened(SwitchToBlock(Ins(c, ins), body))
        BY <2>3, <2>5
  <2> QED  BY <2>5, <2>6 DEF c, ins
<1>7. \A x : \E L : Tight(b, L) /\ {body, x} \subseteq L
  <2>1. Tight(b, Landing(b, todo, switches))
        BY <1>1, CodeTop
  <2>2. Sealed(b)
        BY <2>1 DEF Tight
  <2> TAKE x
  <2> DEFINE S == {body, x}
  <2> HIDE DEF S
  <2>3. \E L : Tight(b, L) /\ S \subseteq L
        BY <2>2, Everywhere
  <2> QED  BY <2>3 DEF S
<1> HIDE DEF k, n, body, end, els
<1>8. CASE /\ b' = SwitchToBlock(Ins(CreateBlocks(b, 2), Br(n, body, end)), body)
           /\ todo' = <<Stmt(k), t>> \o Tail(todo)
  <2>1. t \in Tasks /\ t.op = "endIf" /\ t.blk = <<end>>
    <3>1. <<end>> \in Seq(Block) /\ "endIf" \in TaskOps
          BY <1>4 DEF TaskOps
    <3> QED  BY <1>1, <3>1 DEF Task, Tasks
  <2> HIDE DEF t
  <2>2. end \in Due(t)
        BY <2>1 DEF Due, Pending, Opens, Plain
  <2>3. <<Stmt(k), t>> \in Seq(Tasks) /\ DueOf(<<Stmt(k), t>>) = Due(t) /\ Heads(<<Stmt(k), t>>) = {}
    <3>1. t.op \notin LoopTasks
          BY <2>1 DEF LoopTasks
    <3> QED  BY <1>5, <2>1, <3>1, TwoDue
  <2>4. \A M : Tight(b, M) /\ {body, end} \subseteq M =>
          Tight(b', M) /\ Opened(b) \cup {body} \subseteq Opened(b')
        BY <1>4, <1>6, <1>8
  <2>5. Opened(b) \cup {body} \subseteq Opened(b')
        BY <1>7, <2>4
  <2>6. \A M : /\ Landing(b, todo, switches) \cup Opened(b') \cup DueOf(<<Stmt(k), t>>) \subseteq M
               /\ Held(todo, loops, switches, labels) \subseteq M
               /\ Tight(b, M)
               => Tight(b', M)
        BY <2>2, <2>3, <2>4, <2>5
  <2> DEFINE ts == <<Stmt(k), t>>
  <2>7. /\ ts \in Seq(Tasks) /\ Heads(ts) = {} /\ todo' = ts \o Tail(todo)
        /\ Due(Top) \subseteq Opened(b') \cup DueOf(ts) /\ Opened(b) \subseteq Opened(b')
        /\ \A M : /\ Landing(b, todo, switches) \cup Opened(b') \cup DueOf(ts) \subseteq M
                  /\ Held(todo, loops, switches, labels) \subseteq M
                  /\ Tight(b, M)
                  => Tight(b', M)
        BY <1>3, <1>8, <2>3, <2>5, <2>6
  <2> HIDE DEF ts
  <2> QED  BY <1>1, <1>2, <2>7, PlainCode
<1>9. CASE /\ b' = SwitchToBlock(Ins(CreateBlocks(b, 3), Br(n, body, els)), body)
           /\ todo' = <<Stmt(k), u>> \o Tail(todo)
  <2>1. u \in Tasks /\ u.op = "else" /\ u.blk = <<els, end>>
    <3>1. <<els, end>> \in Seq(Block) /\ "else" \in TaskOps
          BY <1>4 DEF TaskOps
    <3> QED  BY <1>1, <3>1 DEF Task, Tasks
  <2> HIDE DEF u
  <2>2. els \in Due(u)
        BY <2>1 DEF Due
  <2>3. <<Stmt(k), u>> \in Seq(Tasks) /\ DueOf(<<Stmt(k), u>>) = Due(u) /\ Heads(<<Stmt(k), u>>) = {}
    <3>1. u.op \notin LoopTasks
          BY <2>1 DEF LoopTasks
    <3> QED  BY <1>5, <2>1, <3>1, TwoDue
  <2>4. \A M : Tight(b, M) /\ {body, els} \subseteq M =>
          Tight(b', M) /\ Opened(b) \cup {body} \subseteq Opened(b')
        BY <1>4, <1>6, <1>9
  <2>5. Opened(b) \cup {body} \subseteq Opened(b')
        BY <1>7, <2>4
  <2>6. \A M : /\ Landing(b, todo, switches) \cup Opened(b') \cup DueOf(<<Stmt(k), u>>) \subseteq M
               /\ Held(todo, loops, switches, labels) \subseteq M
               /\ Tight(b, M)
               => Tight(b', M)
        BY <2>2, <2>3, <2>4, <2>5
  <2> DEFINE ts == <<Stmt(k), u>>
  <2>7. /\ ts \in Seq(Tasks) /\ Heads(ts) = {} /\ todo' = ts \o Tail(todo)
        /\ Due(Top) \subseteq Opened(b') \cup DueOf(ts) /\ Opened(b) \subseteq Opened(b')
        /\ \A M : /\ Landing(b, todo, switches) \cup Opened(b') \cup DueOf(ts) \subseteq M
                  /\ Held(todo, loops, switches, labels) \subseteq M
                  /\ Tight(b, M)
                  => Tight(b', M)
        BY <1>3, <1>9, <2>3, <2>5, <2>6
  <2> HIDE DEF ts
  <2> QED  BY <1>1, <1>2, <2>7, PlainCode
<1> QED  BY <1>2, <1>8, <1>9

\* The blocks a task opens when it is done.
LEMMA TopBlocks ==
  ASSUME IInv, Running, Top.op \notin Plain \cup {"endFunction"}
  PROVE  /\ Good(b, Instrs) /\ Top \in Tasks /\ Top.node \in Nat
         /\ \A i \in Opens(Top.op) : Top.blk[i] \in Free(b) /\ Top.blk[i] \in Block
         /\ Due(Top) \subseteq {Top.blk[i] : i \in Opens(Top.op)}
         /\ Due(Top) \subseteq DueOf(todo)
<1>1. /\ Good(b, Instrs) /\ Top \in Tasks /\ Pending(Top) \subseteq Free(b)
      BY TopFacts
<1>2. \A i \in Opens(Top.op) : Top.blk[i] \in Pending(Top)
      BY DEF Pending
<1>3. Free(b) \subseteq Block
      BY <1>1, FreeFacts
<1>4. Due(Top) \subseteq {Top.blk[i] : i \in Opens(Top.op)}
  <2>1. 1 \in {1, 2}
        OBVIOUS
  <2>2. CASE Top.op = "else"
        BY <2>1, <2>2 DEF Due, Opens, Plain
  <2>3. CASE Top.op # "else"
        BY <2>3 DEF Due, Pending
  <2> QED  BY <2>2, <2>3
<1>5. Due(Top) \subseteq DueOf(todo)
  <2>1. todo \in Seq(Tasks) /\ todo # <<>>
        BY DEF IInv, StackOK, Frames, Running
  <2>2. 1 \in 1..Len(todo) /\ todo[1] = Top
        BY <2>1, TailOf DEF Top
  <2> QED  BY <2>2 DEF DueOf
<1>6. Top.node \in Nat
      BY <1>1 DEF Tasks
<1> QED  BY <1>1, <1>2, <1>3, <1>4, <1>5, <1>6

\* The end of an if opens the block that is left.
LEMMA EndIfCode ==
  ASSUME IInv, CodeOK, EndIf \/ EndElse
  PROVE  Coded
<1> DEFINE end == Top.blk[1]
<1>1. /\ Running /\ Top.op \in {"endIf", "endElse"} /\ Pop /\ prog' = prog /\ next' = next
      /\ UNCHANGED <<labels, Context>>
      BY DEF EndIf, EndElse, At, Frame
<1>2. /\ Good(b, Instrs) /\ end \in Free(b) /\ end \in Block /\ Due(Top) \subseteq {end}
      /\ Due(Top) \subseteq DueOf(todo)
  <2>1. Opens(Top.op) = {1} /\ Top.op \notin Plain \cup {"endFunction"}
        BY <1>1 DEF Opens, Plain
  <2> QED  BY <1>1, <2>1, TopBlocks
<1>3. CASE Top.op = "endElse" /\ b.filled /\ Top.flag
  <2>1. b' = b
        BY <1>3 DEF EndIf, EndElse, At
  <2>2. Due(Top) = {}
        BY <1>3 DEF Due
  <2> QED  BY <1>1, <2>1, <2>2, PopCode
<1>4. CASE ~(Top.op = "endElse" /\ b.filled /\ Top.flag)
  <2>1. b' = SwitchToBlock(JumpToBlock(b, end), end)
        BY <1>1, <1>4 DEF EndIf, EndElse, At, JumpToBlock
  <2> HIDE DEF end
  <2>2. \A L : Tight(b, L) /\ end \in L =>
          Tight(b', L) /\ Opened(b) \cup {end} \subseteq Opened(b')
        BY <1>2, <2>1, JumpAndOpen
  <2>3. Opened(b) \cup {end} \subseteq Opened(b')
    <3> DEFINE S == {end}
    <3>1. Tight(b, Landing(b, todo, switches))
          BY <1>1, CodeTop
    <3>2. Sealed(b)
          BY <3>1 DEF Tight
    <3> HIDE DEF S
    <3>3. \E L : Tight(b, L) /\ S \subseteq L
          BY <3>2, Everywhere
    <3> QED  BY <2>2, <3>3 DEF S
  <2>4. \A M : /\ Landing(b, todo, switches) \cup Opened(b') \subseteq M
               /\ Held(todo, loops, switches, labels) \subseteq M
               /\ Tight(b, M)
               => Tight(b', M)
        BY <2>2, <2>3
  <2>5. Opened(b) \subseteq Opened(b') /\ Due(Top) \subseteq Opened(b')
        BY <1>2, <2>3
  <2> QED  BY <1>1, <2>4, <2>5, PopCode
<1> QED  BY <1>3, <1>4

\* else: the end of the if is opened later, unless both branches return.
LEMMA ElseCode ==
  ASSUME IInv, CodeOK, Else
  PROVE  Coded
<1> DEFINE n   == Top.node
           k   == Kid(n, 2)
           els == Top.blk[1]
           end == Top.blk[2]
           t   == Task("endElse", n, <<end>>, IfHasReturn)
<1>1. /\ Running /\ Top.op = "else" /\ prog' = prog /\ next' = next /\ UNCHANGED <<labels, Context>>
      /\ b' = SwitchToBlock(JumpToBlock(b, end), els) /\ todo' = <<Stmt(k), t>> \o Tail(todo)
      BY DEF Else, At, Frame, Push
<1>2. /\ Good(b, Instrs) /\ els \in Free(b) /\ els \in Block /\ end \in Block
      /\ Due(Top) = {els} /\ n \in Nat
  <2>1. Opens(Top.op) = {1, 2} /\ Top.op \notin Plain \cup {"endFunction"}
        BY <1>1 DEF Opens, Plain
  <2>2. Due(Top) = {els}
        BY <1>1 DEF Due
  <2> QED  BY <1>1, <2>1, <2>2, TopBlocks
<1>3. Stmt(k) \in Tasks /\ Stmt(k).op = "stmt"
  <2>1. n \in DOMAIN prog.node /\ Len(Node(n).kids) = 2 /\ prog \in Programs
        BY <1>1, TopFacts DEF TaskOK, Node, IInv
  <2> QED  BY <2>1, KidFacts, StmtFacts
<1>4. b.filled \in BOOLEAN
      BY <1>1, TopFacts
<1> HIDE DEF k, n, els, end
<1>5. t \in Tasks /\ t.op = "endElse" /\ t.blk = <<end>> /\ t.flag = b.filled
  <2>1. <<end>> \in Seq(Block) /\ "endElse" \in TaskOps
        BY <1>2 DEF TaskOps
  <2> QED  BY <1>2, <1>4, <2>1 DEF Task, Tasks, IfHasReturn
<1> HIDE DEF t
<1>6. ~b.filled => end \in Due(t)
      BY <1>5 DEF Due, Pending, Opens, Plain
<1> DEFINE ts == <<Stmt(k), t>>
<1>7. ts \in Seq(Tasks) /\ DueOf(ts) = Due(t) /\ Heads(ts) = {}
  <2>1. t.op \notin LoopTasks
        BY <1>5 DEF LoopTasks
  <2> QED  BY <1>3, <1>5, <2>1, TwoDue
<1>8. \A L : Tight(b, L) /\ (~b.filled => end \in L) =>
        Tight(b', L) /\ Opened(b) \cup {els} \subseteq Opened(b')
      BY <1>1, <1>2, JumpAndOpen
<1>9. Opened(b) \cup {els} \subseteq Opened(b')
  <2> DEFINE S == {end}
  <2>1. Tight(b, Landing(b, todo, switches))
        BY <1>1, CodeTop
  <2>2. Sealed(b)
        BY <2>1 DEF Tight
  <2> HIDE DEF S
  <2>3. \E L : Tight(b, L) /\ S \subseteq L
        BY <2>2, Everywhere
  <2> QED  BY <1>8, <2>3 DEF S
<1> HIDE DEF ts
<1>10. \A M : /\ Landing(b, todo, switches) \cup Opened(b') \cup DueOf(ts) \subseteq M
              /\ Held(todo, loops, switches, labels) \subseteq M
              /\ Tight(b, M)
              => Tight(b', M)
      BY <1>6, <1>7, <1>8
<1>11. Due(Top) \subseteq Opened(b') \cup DueOf(ts) /\ Opened(b) \subseteq Opened(b')
      BY <1>2, <1>9
<1> QED  BY <1>1, <1>7, <1>10, <1>11, PlainCode DEF ts

-----------------------------------------------------------------------------
(* Loops.                                                                  *)

\* A stack without its last entry.
LEMMA Front ==
  ASSUME NEW S, NEW q \in Seq(S)
  PROVE  /\ q # <<>> => Len(SubSeq(q, 1, Len(q) - 1)) = Len(q) - 1
         /\ \A i \in 1..Len(SubSeq(q, 1, Len(q) - 1)) :
              i \in 1..Len(q) /\ SubSeq(q, 1, Len(q) - 1)[i] = q[i]
<1> DEFINE n == Len(q)
           r == SubSeq(q, 1, n - 1)
<1>1. n \in Nat
      BY LenProperties
<1>2. CASE n = 0
  <2>1. q = <<>> /\ 1 \in Int /\ n - 1 \in Int /\ n - 1 < 1
        BY <1>2, EmptySeq
  <2>2. r = <<>>
        BY <2>1, SubSeqEmpty
  <2>3. Len(<<>>) = 0 /\ \A i : i \notin 1..0
        BY EmptySeq
  <2> HIDE DEF n, r
  <2> QED  BY <2>1, <2>2, <2>3
<1>3. CASE n # 0
  <2>1. n - 1 \in 0..n
        BY <1>1, <1>3
  <2>2. Len(r) = n - 1 /\ \A i \in 1..n - 1 : r[i] = q[i]
        BY <2>1, FrontOf
  <2> HIDE DEF n, r
  <2>3. \A i \in 1..n - 1 : i \in 1..n
        BY <1>1
  <2>4. (q # <<>> => Len(r) = n - 1) /\ \A i \in 1..Len(r) : i \in 1..n /\ r[i] = q[i]
        BY <2>2, <2>3
  <2> QED  BY <2>4 DEF n, r
<1> HIDE DEF n, r
<1>4. (q # <<>> => Len(r) = n - 1) /\ \A i \in 1..Len(r) : i \in 1..n /\ r[i] = q[i]
      BY <1>2, <1>3 DEF n, r
<1> QED  BY <1>4 DEF n, r

\* The blocks of the loops when one is entered or left.
LEMMA LoopStack ==
  ASSUME NEW S, NEW lp \in Seq(S), NEW e \in S
  PROVE  /\ LoopBlocks(Append(lp, e)) = LoopBlocks(lp) \cup {e[1], e[2]}
         /\ LoopBlocks(SubSeq(lp, 1, Len(lp) - 1)) \subseteq LoopBlocks(lp)
<1> DEFINE n == Len(lp)
           q == Append(lp, e)
           r == SubSeq(lp, 1, n - 1)
<1>1. n \in Nat /\ Len(q) = n + 1 /\ q[n + 1] = e /\ \A i \in 1..n : q[i] = lp[i]
      BY AppendProperties, LenProperties
<1>2. \A i \in 1..Len(r) : i \in 1..n /\ r[i] = lp[i]
      BY Front
<1> HIDE DEF q, r
<1>3. LoopBlocks(q) = LoopBlocks(lp) \cup {e[1], e[2]}
  <2> HIDE DEF n
  <2>1. \A i \in 1..n + 1 : i \in 1..n \/ i = n + 1
        BY <1>1
  <2>2. n + 1 \in 1..n + 1 /\ \A i \in 1..n : i \in 1..n + 1
        BY <1>1
  <2>3. LoopBlocks(q) = UNION {{q[i][1], q[i][2]} : i \in 1..n + 1}
        BY <1>1 DEF LoopBlocks
  <2>4. LoopBlocks(lp) = UNION {{q[i][1], q[i][2]} : i \in 1..n}
        BY <1>1 DEF LoopBlocks, n
  <2> QED  BY <1>1, <2>1, <2>2, <2>3, <2>4
<1>4. LoopBlocks(r) \subseteq LoopBlocks(lp)
      BY <1>2 DEF LoopBlocks
<1> QED  BY <1>3, <1>4 DEF q, r

\* enter_loop leaves the block for header_body.
LEMMA EnteredTight ==
  ASSUME Good(b, Instrs), ~b.filled
  PROVE  /\ Good(Entered, Instrs) /\ ~Entered.filled
         /\ Body(b) \in Free(Entered) /\ End(b) \in Free(Entered)
         /\ Header(b) \in Block /\ Body(b) \in Block /\ End(b) \in Block
         /\ \A L : Tight(b, L) /\ Header(b) \in L =>
              Tight(Entered, L) /\ Opened(b) \cup {Header(b)} \subseteq Opened(Entered)
<1> DEFINE c   == CreateBlocks(b, 3)
           h   == Header(b)
           ins == Jump(h)
<1>1. /\ Good(Entered, Instrs) /\ ~Entered.filled
      /\ Body(b) \in Free(Entered) /\ End(b) \in Free(Entered)
      /\ h \in Block /\ Body(b) \in Block /\ End(b) \in Block
      BY EnteredFacts
<1>2. 3 \in Nat /\ 1 \in 1..3 /\ 0 \in Nat
      OBVIOUS
<1>3. Good(c, Instrs) /\ ~c.filled /\ h \in Free(c)
      BY <1>2, FreeCreate DEF Header
<1>4. \A L : Tight(b, L) => Tight(c, L) /\ Opened(b) \subseteq Opened(c)
      BY <1>2, CreateTight
<1>5. ins \in Instrs /\ Terminates(ins) /\ Targets(ins) = {h}
      BY <1>1, <1>2, InstrFacts, TargetsOf
<1>6. Entered = SwitchToBlock(Ins(c, ins), h)
      BY DEF Entered
<1> HIDE DEF c, h, ins
<1>7. \A L : Tight(c, L) /\ Targets(ins) \subseteq L =>
        Tight(Entered, L) /\ Opened(c) \cup {h} \subseteq Opened(Entered)
      BY <1>3, <1>5, <1>6, InsAndOpen
<1>8. \A L : Tight(b, L) /\ h \in L =>
        Tight(Entered, L) /\ Opened(b) \cup {h} \subseteq Opened(Entered)
      BY <1>4, <1>5, <1>7
<1> QED  BY <1>1, <1>8 DEF h

\* A loop is entered: continue goes to its body, break to its end.
LEMMA EnterLoopCode ==
  ASSUME IInv, CodeOK, Running, Top.op # "endFunction", prog' = prog, next' = next, labels' = labels,
         Due(Top) = {}, EnterLoop,
         Body(b) \in Block, End(b) \in Block,
         NEW t \in Tasks, NEW ts \in Seq(Tasks), todo' = ts \o Tail(todo),
         DueOf(ts) = Due(t), Heads(ts) = {Header(b)},
         {Header(b), Body(b), End(b)} \subseteq Opened(b') \cup Due(t),
         Opened(b) \subseteq Opened(b'),
         \A M : Tight(b, M) /\ {Header(b), Body(b), End(b)} \subseteq M => Tight(b', M)
  PROVE  Coded
<1> DEFINE e == <<Body(b), End(b)>>
<1>1. switches' = switches /\ loops' = Append(loops, e)
      BY DEF EnterLoop
<1>2. loops \in Seq(Block \X Block) /\ e \in Block \X Block /\ e[1] = Body(b) /\ e[2] = End(b)
      BY DEF IInv, ContextTypes
<1> HIDE DEF e
<1>3. LoopBlocks(loops') = LoopBlocks(loops) \cup {Body(b), End(b)}
  <2> DEFINE P == Block \X Block
  <2>1. loops \in Seq(P) /\ e \in P
        BY <1>2
  <2> HIDE DEF P
  <2>2. LoopBlocks(Append(loops, e)) = LoopBlocks(loops) \cup {e[1], e[2]}
        BY <2>1, LoopStack
  <2> QED  BY <1>1, <1>2, <2>2
<1>4. ASSUME NEW M, Landing(b, todo, switches) \subseteq M,
             Held(todo, loops, switches, labels) \subseteq M,
             Opened(b') \cup DueOf(ts) \cup Ends(switches') \subseteq M, Tight(b, M)
      PROVE  /\ Tight(b', M) /\ Heads(ts) \subseteq M
             /\ LoopBlocks(loops') \subseteq M /\ CaseBlocks(switches') \subseteq M
             /\ Gotos(labels') \subseteq M
  <2>1. {Header(b), Body(b), End(b)} \subseteq M
        BY <1>4
  <2>2. Tight(b', M)
        BY <1>4, <2>1
  <2>3. Held(todo, loops, switches', labels') \subseteq M
        BY <1>1, <1>4
  <2>4. /\ LoopBlocks(loops) \subseteq M /\ CaseBlocks(switches') \subseteq M
        /\ Gotos(labels') \subseteq M
        BY <2>3 DEF Held
  <2> QED  BY <1>3, <2>1, <2>2, <2>4
<1>5. Ends(switches) \subseteq Ends(switches') \cup Opened(b')
      BY <1>1
<1> QED  BY <1>4, <1>5, StepCode

\* What a loop needs is in some set of blocks to land in.
LEMMA LoopOpened ==
  ASSUME IInv, CodeOK, Running, NEW S, NEW T,
         \A M : Tight(b, M) /\ S \subseteq M => T \subseteq Opened(b')
  PROVE  T \subseteq Opened(b')
<1>1. Tight(b, Landing(b, todo, switches))
      BY CodeTop
<1>2. Sealed(b)
      BY <1>1 DEF Tight
<1>3. \E L : Tight(b, L) /\ S \subseteq L
      BY <1>2, Everywhere
<1> QED  BY <1>3

\* while and for: the body is opened, the end is opened after it.
LEMMA WhileCode ==
  ASSUME IInv, CodeOK, While
  PROVE  Coded
<1> DEFINE n    == Top.node
           body == Body(b)
           end  == End(b)
           head == Header(b)
           ins  == Br(n, body, end)
           t    == Task("endWhile", n, <<head, end>>, sawLoop)
           us   == LoopBody(n)
           ts   == us \o <<t>>
           S    == {head, body, end}
<1>1. /\ Compiling("while") \/ At("for")
      /\ \/ b' = SwitchToBlock(Ins(Entered, ins), body)
         \/ b' = SwitchToBlock(JumpToBlock(Entered, body), body)
      /\ todo' = ts \o Tail(todo) /\ EnterLoop /\ prog' = prog /\ next' = next /\ labels' = labels
      BY DEF While, Push, Frame
<1>2. /\ Running /\ n \in DOMAIN prog.node /\ n \in Nat /\ Node(n).kind \in {"while", "for"}
      /\ ~b.filled
      BY <1>1, WhileTop
<1>3. Due(Top) = {} /\ Top.op # "endFunction"
      BY <1>1, StmtTop DEF Compiling, At, Plain
<1>4. Good(b, Instrs) /\ prog \in Programs /\ sawLoop \in BOOLEAN
      BY <1>2, TopFacts DEF IInv, ContextTypes
<1>5. /\ Good(Entered, Instrs) /\ ~Entered.filled
      /\ body \in Free(Entered) /\ end \in Free(Entered)
      /\ head \in Block /\ body \in Block /\ end \in Block
      /\ \A L : Tight(b, L) /\ head \in L =>
           Tight(Entered, L) /\ Opened(b) \cup {head} \subseteq Opened(Entered)
      BY <1>2, <1>4, EnteredTight
<1>6. ins \in Instrs /\ Terminates(ins) /\ Targets(ins) = {body, end}
      BY <1>2, <1>5, InstrFacts, TargetsOf
<1>7. us \in Seq(Tasks) /\ \A i \in 1..Len(us) : us[i].op \in Plain
      BY <1>2, <1>4, LoopBodyFacts DEF Inner, Plain
<1> HIDE DEF n, body, end, head, ins, us
<1>8. \A L : Tight(Entered, L) /\ {body, end} \subseteq L =>
        Tight(b', L) /\ Opened(Entered) \cup {body} \subseteq Opened(b')
  <2>1. CASE b' = SwitchToBlock(Ins(Entered, ins), body)
        BY <1>5, <1>6, <2>1, InsAndOpen
  <2>2. CASE b' = SwitchToBlock(JumpToBlock(Entered, body), body)
        BY <1>5, <2>2, JumpAndOpen
  <2> QED  BY <1>1, <2>1, <2>2
<1>9. \A M : Tight(b, M) /\ S \subseteq M =>
        Tight(b', M) /\ Opened(b) \cup {head, body} \subseteq Opened(b')
      BY <1>5, <1>8
<1>10. t \in Tasks /\ t.op = "endWhile" /\ t.blk = <<head, end>>
  <2>1. <<head, end>> \in Seq(Block) /\ "endWhile" \in TaskOps
        BY <1>5 DEF TaskOps
  <2> QED  BY <1>2, <1>4, <2>1 DEF Task, Tasks
<1> HIDE DEF t
<1>11. Due(t) = {end} /\ t.op \in LoopTasks /\ t.blk[1] = head
      BY <1>10 DEF Due, Pending, Opens, Plain, LoopTasks
<1>12. ts \in Seq(Tasks) /\ DueOf(ts) = Due(t) /\ Heads(ts) = {head}
  <2>1. <<t>> \in Seq(Tasks)
        BY <1>10, Single
  <2>2. DueOf(us) = {} /\ Heads(us) = {}
        BY <1>7, NothingDue
  <2>3. DueOf(<<t>>) = Due(t) /\ Heads(<<t>>) = {head}
        BY <1>10, <1>11, DueOne
  <2>4. ts \in Seq(Tasks)
        BY <1>7, <2>1, OnTopOf
  <2>5. DueOf(ts) = DueOf(us) \cup DueOf(<<t>>) /\ Heads(ts) = Heads(us) \cup Heads(<<t>>)
        BY <1>7, <2>1, DueAbove
  <2> QED  BY <2>2, <2>3, <2>4, <2>5
<1> HIDE DEF ts, S
<1>13. Opened(b) \cup {head, body} \subseteq Opened(b')
  <2> DEFINE T == Opened(b) \cup {head, body}
  <2>1. \A M : Tight(b, M) /\ S \subseteq M => T \subseteq Opened(b')
        BY <1>9
  <2> HIDE DEF T
  <2>2. T \subseteq Opened(b')
        BY <1>2, <2>1, LoopOpened
  <2> QED  BY <2>2 DEF T
<1>14. /\ S \subseteq Opened(b') \cup Due(t) /\ Opened(b) \subseteq Opened(b')
       /\ \A M : Tight(b, M) /\ S \subseteq M => Tight(b', M)
      BY <1>9, <1>11, <1>13 DEF S
<1> QED  BY <1>1, <1>2, <1>3, <1>5, <1>10, <1>12, <1>14, EnterLoopCode
            DEF S, head, body, end

\* do: the test and the end are opened after the body.
LEMMA DoCode ==
  ASSUME IInv, CodeOK, Do
  PROVE  Coded
<1> DEFINE n    == Top.node
           k    == Kid(n, 1)
           body == Body(b)
           end  == End(b)
           head == Header(b)
           t    == Task("endDo", n, <<head, body, end>>, sawLoop)
           ts   == <<Stmt(k), t>>
           S    == {head, body, end}
<1>1. /\ Compiling("do") /\ b' = Entered /\ todo' = ts \o Tail(todo)
      /\ EnterLoop /\ prog' = prog /\ next' = next /\ labels' = labels
      BY DEF Do, Push, Frame
<1>2. /\ Running /\ n \in DOMAIN prog.node /\ n \in Nat /\ Node(n).kind = "do"
      /\ ~b.filled /\ Top.op = "stmt"
      BY <1>1, CompilingFacts DEF JumpTargetKinds
<1>3. Due(Top) = {}
      BY <1>2, StmtTop DEF Plain
<1>4. Good(b, Instrs) /\ prog \in Programs /\ sawLoop \in BOOLEAN
      BY <1>2, TopFacts DEF IInv, ContextTypes
<1>5. /\ head \in Block /\ body \in Block /\ end \in Block
      /\ \A L : Tight(b, L) /\ head \in L =>
           Tight(Entered, L) /\ Opened(b) \cup {head} \subseteq Opened(Entered)
      BY <1>2, <1>4, EnteredTight
<1>6. Stmt(k) \in Tasks /\ Stmt(k).op = "stmt"
      BY <1>2, <1>4, BodyOf, StmtFacts
<1> HIDE DEF n, k, body, end, head
<1>7. \A M : Tight(b, M) /\ S \subseteq M =>
        Tight(b', M) /\ Opened(b) \cup {head} \subseteq Opened(b')
      BY <1>1, <1>5
<1>8. t \in Tasks /\ t.op = "endDo" /\ t.blk = <<head, body, end>>
  <2>1. <<head, body, end>> \in Seq(Block) /\ "endDo" \in TaskOps
        BY <1>5 DEF TaskOps
  <2> QED  BY <1>2, <1>4, <2>1 DEF Task, Tasks
<1> HIDE DEF t
<1>9. Due(t) = {body, end} /\ t.op \in LoopTasks /\ t.blk[1] = head
      BY <1>8 DEF Due, Pending, Opens, Plain, LoopTasks
<1>10. ts \in Seq(Tasks) /\ DueOf(ts) = Due(t) /\ Heads(ts) = {head}
      BY <1>6, <1>8, <1>9, TwoDue
<1> HIDE DEF ts, S
<1>11. Opened(b) \cup {head} \subseteq Opened(b')
  <2> DEFINE T == Opened(b) \cup {head}
  <2>1. \A M : Tight(b, M) /\ S \subseteq M => T \subseteq Opened(b')
        BY <1>7
  <2> HIDE DEF T
  <2>2. T \subseteq Opened(b')
        BY <1>2, <2>1, LoopOpened
  <2> QED  BY <2>2 DEF T
<1>12. /\ S \subseteq Opened(b') \cup Due(t) /\ Opened(b) \subseteq Opened(b')
       /\ \A M : Tight(b, M) /\ S \subseteq M => Tight(b', M)
      BY <1>7, <1>9, <1>11 DEF S
<1> QED  BY <1>1, <1>2, <1>3, <1>5, <1>8, <1>10, <1>12, EnterLoopCode
            DEF S, head, body, end

\* What is left is closed: the task on top is done and its context restored.
LEMMA LeaveCode ==
  ASSUME IInv, CodeOK, Running, Top.op # "endFunction", prog' = prog, next' = next, Pop, labels' = labels,
         Opened(b) \subseteq Opened(b'), Due(Top) \subseteq Opened(b'),
         Ends(switches) \subseteq Ends(switches') \cup Opened(b'),
         Ends(switches') \subseteq Ends(switches),
         LoopBlocks(loops') \subseteq LoopBlocks(loops),
         CaseBlocks(switches') \subseteq CaseBlocks(switches),
         \A M : /\ Landing(b, todo, switches) \cup Opened(b') \subseteq M
                /\ Held(todo, loops, switches, labels) \subseteq M
                /\ Tight(b, M)
                => Tight(b', M)
  PROVE  Coded
<1>1. Tail(todo) \in Seq(Tasks) /\ <<>> \in Seq(Tasks) /\ Len(<<>>) = 0 /\ \A i : i \notin 1..0
      BY CodeTop, EmptySeq
<1>2. todo' = <<>> \o Tail(todo)
      BY <1>1, ConcatEmptySeq DEF Pop
<1>3. DueOf(<<>>) = {} /\ Heads(<<>>) = {}
      BY <1>1 DEF DueOf, Heads
<1>4. ASSUME NEW M, Landing(b, todo, switches) \subseteq M,
             Held(todo, loops, switches, labels) \subseteq M,
             Opened(b') \cup DueOf(<<>>) \cup Ends(switches') \subseteq M, Tight(b, M)
      PROVE  /\ Tight(b', M) /\ Heads(<<>>) \subseteq M
             /\ LoopBlocks(loops') \subseteq M /\ CaseBlocks(switches') \subseteq M
             /\ Gotos(labels') \subseteq M
  <2>1. Tight(b', M)
        BY <1>4
  <2>2. LoopBlocks(loops) \subseteq M /\ CaseBlocks(switches) \subseteq M /\ Gotos(labels) \subseteq M
        BY <1>4 DEF Held
  <2> QED  BY <1>3, <2>1, <2>2
<1>5. Due(Top) \subseteq Opened(b') \cup DueOf(<<>>)
      OBVIOUS
<1> QED  BY <1>1, <1>2, <1>4, <1>5, StepCode

\* A loop is left: its end is opened.
LEMMA LeaveLoopCode ==
  ASSUME IInv, CodeOK, Running, Top.op \in LoopTasks, prog' = prog, next' = next, Pop, labels' = labels,
         ExitLoop(Top.flag), NEW S, S \subseteq Landing(b, todo, switches),
         \A M : Tight(b, M) /\ S \subseteq M =>
           Tight(b', M) /\ Opened(b) \cup Due(Top) \subseteq Opened(b')
  PROVE  Coded
<1>1. switches' = switches /\ loops' = SubSeq(loops, 1, Len(loops) - 1)
      BY DEF ExitLoop
<1>2. LoopBlocks(loops') \subseteq LoopBlocks(loops)
  <2> DEFINE P == Block \X Block
             e == <<1, 1>>
  <2>1. loops \in Seq(P) /\ e \in P
        BY DEF IInv, ContextTypes, Block
  <2> HIDE DEF P, e
  <2>2. LoopBlocks(SubSeq(loops, 1, Len(loops) - 1)) \subseteq LoopBlocks(loops)
        BY <2>1, LoopStack
  <2> QED  BY <1>1, <2>2
<1>3. Tight(b, Landing(b, todo, switches))
      BY CodeTop
<1>4. Opened(b) \cup Due(Top) \subseteq Opened(b')
      BY <1>3
<1>5. /\ Ends(switches) \subseteq Ends(switches') \cup Opened(b')
      /\ Ends(switches') \subseteq Ends(switches)
      /\ CaseBlocks(switches') \subseteq CaseBlocks(switches)
      /\ Opened(b) \subseteq Opened(b') /\ Due(Top) \subseteq Opened(b')
      BY <1>1, <1>4
<1>6. \A M : /\ Landing(b, todo, switches) \cup Opened(b') \subseteq M
             /\ Held(todo, loops, switches, labels) \subseteq M
             /\ Tight(b, M)
             => Tight(b', M)
      OBVIOUS
<1>7. Top.op # "endFunction"
      BY DEF LoopTasks
<1> QED  BY <1>2, <1>5, <1>6, <1>7, LeaveCode

\* The end of while and for.
LEMMA EndWhileCode ==
  ASSUME IInv, CodeOK, EndWhile
  PROVE  Coded
<1> DEFINE head == Top.blk[1]
           end  == Top.blk[2]
<1>1. /\ Running /\ Top.op = "endWhile" /\ prog' = prog /\ next' = next /\ Pop /\ labels' = labels
      /\ ExitLoop(Top.flag) /\ b' = SwitchToBlock(JumpToBlock(b, head), end)
      BY DEF EndWhile, At, Frame
<1>2. /\ Good(b, Instrs) /\ Top \in Tasks /\ end \in Free(b) /\ end \in Block
      /\ Due(Top) \subseteq {end}
  <2>1. Opens(Top.op) = {2} /\ Top.op \notin Plain \cup {"endFunction"}
        BY <1>1 DEF Opens, Plain
  <2> QED  BY <1>1, <2>1, TopBlocks
<1>3. head \in Block
  <2>1. TaskOK(Top, prog)
        BY <1>1, TopFacts
  <2>2. 1 \in 1..Width(Top.op)
        BY <1>1 DEF Width, Plain
  <2> QED  BY <2>1, <2>2, BlkFacts
<1>4. Top.op \in LoopTasks
      BY <1>1 DEF LoopTasks
<1>5. head \in Landing(b, todo, switches)
  <2>1. head \in Heads(todo) /\ Held(todo, loops, switches, labels) \subseteq Landing(b, todo, switches)
        BY <1>1, <1>4, CodeTop
  <2> QED  BY <2>1 DEF Held
<1> HIDE DEF head, end
<1>6. \A M : Tight(b, M) /\ head \in M =>
        Tight(b', M) /\ Opened(b) \cup {end} \subseteq Opened(b')
      BY <1>1, <1>2, <1>3, JumpAndOpen
<1> DEFINE S == {head}
<1>7. /\ S \subseteq Landing(b, todo, switches)
      /\ \A M : Tight(b, M) /\ S \subseteq M =>
           Tight(b', M) /\ Opened(b) \cup Due(Top) \subseteq Opened(b')
      BY <1>2, <1>5, <1>6
<1> HIDE DEF S
<1> QED  BY <1>1, <1>4, <1>7, LeaveLoopCode

\* The end of do: the test jumps back or out.
LEMMA EndDoCode ==
  ASSUME IInv, CodeOK, EndDo
  PROVE  Coded
<1>1. CASE err' # "none"
      BY <1>1 DEF Coded
<1>2. CASE err' = "none"
  <2> DEFINE n      == Top.node
             head   == Top.blk[1]
             test   == Top.blk[2]
             end    == Top.blk[3]
             ins    == Br(n, head, end)
             bottom == SwitchToBlock(JumpToBlock(b, test), test)
  <2>1. /\ Running /\ Top.op = "endDo" /\ prog' = prog /\ next' = next /\ Pop /\ labels' = labels
        /\ ExitLoop(Top.flag) /\ b' = SwitchToBlock(Ins(bottom, ins), end)
        BY <1>2 DEF EndDo, At, Frame, Fail
  <2>2. /\ Good(b, Instrs) /\ Top \in Tasks /\ n \in Nat /\ test \in Free(b) /\ test \in Block
        /\ end \in Free(b) /\ end \in Block /\ Due(Top) \subseteq {test, end}
        /\ Due(Top) \subseteq DueOf(todo)
    <3>1. Opens(Top.op) = {2, 3} /\ Top.op \notin Plain \cup {"endFunction"}
          BY <2>1 DEF Opens, Plain
    <3> QED  BY <2>1, <3>1, TopBlocks
  <2>3. head \in Block /\ test # end
    <3>1. TaskOK(Top, prog)
          BY <2>1, TopFacts
    <3>2. 1 \in 1..Width(Top.op)
          BY <2>1 DEF Width, Plain
    <3>3. Opens(Top.op) = {2, 3} /\ 2 # 3
          BY <2>1 DEF Opens, Plain
    <3>4. test # end
          BY <3>1, <3>3 DEF TaskOK
    <3> QED  BY <3>1, <3>2, <3>4, BlkFacts
  <2>4. Top.op \in LoopTasks
        BY <2>1 DEF LoopTasks
  <2>5. {head, test, end} \subseteq Landing(b, todo, switches)
    <3>1. head \in Heads(todo) /\ Held(todo, loops, switches, labels) \subseteq Landing(b, todo, switches)
          BY <2>1, <2>4, CodeTop
    <3>2. {test, end} \subseteq Due(Top)
          BY <2>1 DEF Due, Pending, Opens, Plain
    <3> QED  BY <2>2, <3>1, <3>2 DEF Held, Landing
  <2> HIDE DEF n, head, test, end
  <2>6. ins \in Instrs /\ Terminates(ins) /\ Targets(ins) = {head, end}
        BY <2>2, <2>3, InstrFacts, TargetsOf
  <2>7. /\ Good(bottom, Instrs) /\ ~bottom.filled /\ Free(b) \ {test} \subseteq Free(bottom)
        /\ \A M : Tight(b, M) /\ test \in M =>
             Tight(bottom, M) /\ Opened(b) \cup {test} \subseteq Opened(bottom)
        BY <2>2, JumpAndOpen
  <2> HIDE DEF bottom, ins
  <2>8. end \in Free(bottom)
        BY <2>2, <2>3, <2>7
  <2>9. \A M : Tight(bottom, M) /\ Targets(ins) \subseteq M =>
          Tight(b', M) /\ Opened(bottom) \cup {end} \subseteq Opened(b')
        BY <2>1, <2>6, <2>7, <2>8, InsAndOpen
  <2> DEFINE S == {head, test, end}
  <2>10. /\ S \subseteq Landing(b, todo, switches)
         /\ \A M : Tight(b, M) /\ S \subseteq M =>
              Tight(b', M) /\ Opened(b) \cup Due(Top) \subseteq Opened(b')
         BY <2>2, <2>5, <2>6, <2>7, <2>9
  <2> HIDE DEF S
  <2> QED  BY <2>1, <2>4, <2>10, LeaveLoopCode
<1> QED  BY <1>1, <1>2

-----------------------------------------------------------------------------
(* switch, case, default and labels.                                       *)

\* The blocks of the switches when one is entered or left.
LEMMA SwitchStack ==
  ASSUME NEW S, NEW sw \in Seq(S), NEW w \in S
  PROVE  /\ Ends(Append(sw, w)) = Ends(sw) \cup {w.end}
         /\ CaseBlocks(Append(sw, w)) =
              CaseBlocks(sw) \cup Blocks(w.cases) \cup ({w.default} \ {0})
         /\ Ends(SubSeq(sw, 1, Len(sw) - 1)) \subseteq Ends(sw)
         /\ CaseBlocks(SubSeq(sw, 1, Len(sw) - 1)) \subseteq CaseBlocks(sw)
         /\ sw # <<>> => Ends(sw) \subseteq
              Ends(SubSeq(sw, 1, Len(sw) - 1)) \cup {sw[Len(sw)].end}
<1> DEFINE n    == Len(sw)
           q    == Append(sw, w)
           r    == SubSeq(sw, 1, n - 1)
           C(e) == Blocks(e.cases) \cup ({e.default} \ {0})
<1>1. n \in Nat /\ Len(q) = n + 1 /\ q[n + 1] = w /\ \A i \in 1..n : q[i] = sw[i]
      BY AppendProperties, LenProperties
<1>2. (sw # <<>> => Len(r) = n - 1) /\ \A i \in 1..Len(r) : i \in 1..n /\ r[i] = sw[i]
      BY Front
<1>3. /\ CaseBlocks(q) = UNION {C(q[i]) : i \in 1..Len(q)}
      /\ CaseBlocks(r) = UNION {C(r[i]) : i \in 1..Len(r)}
      /\ CaseBlocks(sw) = UNION {C(sw[i]) : i \in 1..n}
      BY Zenon DEF CaseBlocks
<1>4. /\ Ends(q) = {q[i].end : i \in 1..Len(q)} /\ Ends(r) = {r[i].end : i \in 1..Len(r)}
      /\ Ends(sw) = {sw[i].end : i \in 1..n}
      BY Zenon DEF Ends
<1> HIDE DEF n, q, r, C
<1>5. /\ \A i \in 1..n + 1 : i \in 1..n \/ i = n + 1
      /\ n + 1 \in 1..n + 1 /\ \A i \in 1..n : i \in 1..n + 1
      BY <1>1
<1>6. Ends(q) = Ends(sw) \cup {w.end}
      BY <1>1, <1>4, <1>5
<1>7. CaseBlocks(q) = CaseBlocks(sw) \cup C(w)
  <2>1. (UNION {C(q[i]) : i \in 1..n + 1}) = (UNION {C(q[i]) : i \in 1..n}) \cup C(q[n + 1])
    <3> DEFINE m == n + 1
               I == 1..m
               J == 1..n
    <3>1. I = J \cup {m}
          BY <1>5
    <3> HIDE DEF m, I, J
    <3>2. (UNION {C(q[i]) : i \in I}) = (UNION {C(q[i]) : i \in J}) \cup C(q[m])
          BY <3>1
    <3> QED  BY <3>2 DEF m, I, J
  <2>2. (UNION {C(q[i]) : i \in 1..n}) = (UNION {C(sw[i]) : i \in 1..n})
        BY <1>1
  <2> QED  BY <1>1, <1>3, <2>1, <2>2
<1>8. Ends(r) \subseteq Ends(sw) /\ CaseBlocks(r) \subseteq CaseBlocks(sw)
      BY <1>2, <1>3, <1>4
<1>9. sw # <<>> => Ends(sw) \subseteq Ends(r) \cup {sw[n].end}
  <2> SUFFICES ASSUME sw # <<>>, NEW i \in 1..n
               PROVE  i = n \/ i \in 1..Len(r)
      BY <1>2, <1>4
  <2> QED  BY <1>1, <1>2
<1> QED  BY <1>6, <1>7, <1>8, <1>9 DEF n, q, r, C

\* switch: the table goes to dummy_block, which is opened after the body.
LEMMA SwitchCode ==
  ASSUME IInv, CodeOK, Switch
  PROVE  Coded
<1> DEFINE n     == Top.node
           k     == Kid(n, 1)
           dummy == Fresh(b, 1)
           start == Fresh(b, 2)
           end   == Fresh(b, 3)
           c     == CreateBlocks(b, 3)
           i     == Ins(c, Run(n))
           w     == [cases |-> NoBlocks, default |-> 0, end |-> end]
           t     == Task("endSwitch", n, <<dummy>>, sawLoop)
           ts    == <<Stmt(k), t>>
           S     == {dummy}
<1>1. /\ Compiling("switch") /\ b' = SwitchToBlock(JumpToBlock(i, dummy), start)
      /\ switches' = Append(switches, w) /\ loops' = loops /\ labels' = labels
      /\ todo' = ts \o Tail(todo) /\ prog' = prog /\ next' = next
      BY DEF Switch, Push, Frame, EnterSwitch
<1>2. /\ Running /\ n \in DOMAIN prog.node /\ n \in Nat /\ Node(n).kind = "switch"
      /\ ~b.filled /\ Top.op = "stmt"
      BY <1>1, CompilingFacts DEF JumpTargetKinds
<1>3. Due(Top) = {}
      BY <1>2, StmtTop DEF Plain
<1>4. /\ Good(b, Instrs) /\ prog \in Programs /\ sawLoop \in BOOLEAN
      /\ switches \in Seq(SwitchSet)
      BY <1>2, TopFacts DEF IInv, ContextTypes
<1>5. /\ Good(c, Instrs) /\ ~c.filled /\ {dummy, start} \subseteq Free(c)
      /\ dummy \in Block /\ start \in Block /\ end \in Block
  <2>1. 3 \in Nat /\ 1 \in 1..3 /\ 2 \in 1..3 /\ 3 \in 1..3
        OBVIOUS
  <2>2. /\ Good(c, Instrs) /\ c.filled = b.filled
        /\ \A m \in 1..3 : Fresh(b, m) \in Free(c) \ Free(b) /\ Fresh(b, m) \in Block
        BY <1>4, <2>1, FreeCreate
  <2> QED  BY <1>2, <2>1, <2>2
<1>6. \A L : Tight(b, L) => Tight(c, L) /\ Opened(b) \subseteq Opened(c)
  <2>1. 3 \in Nat
        OBVIOUS
  <2> QED  BY <1>4, <2>1, CreateTight
<1>7. Stmt(k) \in Tasks /\ Stmt(k).op = "stmt"
      BY <1>2, <1>4, BodyOf, StmtFacts
<1> HIDE DEF c, n, k, dummy, start, end
<1>8. Run(n) \in Instrs /\ ~Terminates(Run(n)) /\ Targets(Run(n)) = {}
      BY <1>2, <1>5, InstrFacts, TargetsOf
<1>9. Good(i, Instrs) /\ Free(c) \subseteq Free(i)
      BY <1>5, <1>8, FreeIns
<1>10. \A L : Tight(c, L) => Tight(i, L) /\ Opened(c) \subseteq Opened(i)
  <2> TAKE L
  <2>1. Targets(Run(n)) \subseteq L
        BY <1>8
  <2> QED  BY <1>5, <1>8, <2>1, InsTight
<1> HIDE DEF i
<1>11. \A L : Tight(i, L) /\ dummy \in L =>
         Tight(b', L) /\ Opened(i) \cup {start} \subseteq Opened(b')
  <2>1. start \in Free(i)
        BY <1>5, <1>9
  <2> QED  BY <1>1, <1>5, <1>9, <2>1, JumpAndOpen
<1>12. \A M : Tight(b, M) /\ S \subseteq M => Tight(b', M) /\ Opened(b) \subseteq Opened(b')
      BY <1>6, <1>10, <1>11
<1>13. t \in Tasks /\ t.op = "endSwitch" /\ t.blk = <<dummy>>
  <2>1. <<dummy>> \in Seq(Block) /\ "endSwitch" \in TaskOps
        BY <1>5 DEF TaskOps
  <2> QED  BY <1>2, <1>4, <2>1 DEF Task, Tasks
<1> HIDE DEF t
<1>14. Due(t) = {dummy} /\ t.op \notin LoopTasks
      BY <1>13 DEF Due, Pending, Opens, Plain, LoopTasks
<1>15. ts \in Seq(Tasks) /\ DueOf(ts) = S /\ Heads(ts) = {}
      BY <1>7, <1>13, <1>14, TwoDue
<1> HIDE DEF ts, S
<1>16. Opened(b) \subseteq Opened(b')
  <2> DEFINE T == Opened(b)
  <2>1. \A M : Tight(b, M) /\ S \subseteq M => T \subseteq Opened(b')
        BY <1>12
  <2> HIDE DEF T
  <2>2. T \subseteq Opened(b')
        BY <1>2, <2>1, LoopOpened
  <2> QED  BY <2>2 DEF T
<1>17. w \in SwitchSet /\ w.end = end /\ w.default = 0 /\ w.cases = NoBlocks
  <2>1. NoBlocks \in Maps
        BY DEF NoBlocks, Maps
  <2> QED  BY <1>5, <2>1 DEF SwitchSet
<1> HIDE DEF w
<1>18. Ends(switches') = Ends(switches) \cup {end} /\ CaseBlocks(switches') = CaseBlocks(switches)
  <2>1. Blocks(NoBlocks) = {}
        BY DEF Blocks, NoBlocks
  <2>2. /\ Ends(switches') = Ends(switches) \cup {w.end}
        /\ CaseBlocks(switches') =
             CaseBlocks(switches) \cup Blocks(w.cases) \cup ({w.default} \ {0})
    <3>1. w \in SwitchSet /\ switches \in Seq(SwitchSet)
          BY <1>4, <1>17
    <3>2. /\ Ends(Append(switches, w)) = Ends(switches) \cup {w.end}
          /\ CaseBlocks(Append(switches, w)) =
               CaseBlocks(switches) \cup Blocks(w.cases) \cup ({w.default} \ {0})
          BY <3>1, SwitchStack
    <3>3. switches' = Append(switches, w)
          BY <1>1
    <3> QED  BY <3>2, <3>3, Zenon
  <2>3. {0} \ {0} = {}
        OBVIOUS
  <2> QED  BY <1>17, <2>1, <2>2, <2>3
<1>19. ASSUME NEW M, Landing(b, todo, switches) \subseteq M,
              Held(todo, loops, switches, labels) \subseteq M,
              Opened(b') \cup DueOf(ts) \cup Ends(switches') \subseteq M, Tight(b, M)
       PROVE  /\ Tight(b', M) /\ Heads(ts) \subseteq M
              /\ LoopBlocks(loops') \subseteq M /\ CaseBlocks(switches') \subseteq M
              /\ Gotos(labels') \subseteq M
  <2>1. S \subseteq M
        BY <1>15, <1>19
  <2>2. Tight(b', M)
        BY <1>12, <1>19, <2>1
  <2>3. LoopBlocks(loops) \subseteq M /\ CaseBlocks(switches) \subseteq M /\ Gotos(labels) \subseteq M
        BY <1>19 DEF Held
  <2> QED  BY <1>1, <1>15, <1>18, <2>2, <2>3
<1>20. /\ Ends(switches) \subseteq Ends(switches') \cup Opened(b')
       /\ Due(Top) \subseteq Opened(b') \cup DueOf(ts)
      BY <1>3, <1>18
<1> QED  BY <1>1, <1>2, <1>15, <1>16, <1>19, <1>20, StepCode

\* The end of a switch: the table, then end_block.
LEMMA EndSwitchCode ==
  ASSUME IInv, CodeOK, EndSwitch
  PROVE  Coded
<1> DEFINE n     == Top.node
           last  == LastSwitch
           end   == last.end
           other == IF last.default # 0 THEN last.default ELSE end
           dummy == Top.blk[1]
           atTop == SwitchToBlock(JumpToBlock(b, end), dummy)
           ins   == Table(n, last.cases, other)
           S     == Blocks(last.cases) \cup {end, other}
<1>1. /\ Running /\ Top.op = "endSwitch" /\ b' = SwitchToBlock(Ins(atTop, ins), end)
      /\ switches' = SubSeq(switches, 1, Len(switches) - 1) /\ loops' = loops
      /\ Pop /\ prog' = prog /\ next' = next /\ labels' = labels
      BY DEF EndSwitch, At, Frame, ExitSwitch
<1>2. /\ Good(b, Instrs) /\ Top \in Tasks /\ n \in Nat /\ dummy \in Free(b) /\ dummy \in Block
      /\ Due(Top) \subseteq {dummy} /\ Due(Top) \subseteq DueOf(todo)
  <2>1. Opens(Top.op) = {1} /\ Top.op \notin Plain \cup {"endFunction"}
        BY <1>1 DEF Opens, Plain
  <2> QED  BY <1>1, <2>1, TopBlocks
<1>3. switches \in Seq(SwitchSet) /\ switches # <<>> /\ Len(switches) \in 1..Len(switches)
  <2>1. switches \in Seq(SwitchSet) /\ Len(switches) > 0 /\ Len(switches) \in Nat
        BY <1>1, TopFacts DEF IInv, ContextTypes
  <2> QED  BY <2>1, EmptySeq
<1>4. last \in SwitchSet /\ end \in Block
      BY <1>3, LastSwitchFacts
<1>5. last.cases \in Maps /\ last.default \in Nat
      BY <1>4 DEF SwitchSet
<1>6. other \in Block
      BY <1>4, <1>5 DEF Block
<1>7. end \in Free(b) /\ end # dummy
  <2> DEFINE s == Tail(todo)
  <2>1. Reserved(s, Free(b) \ Pending(Top), switches)
        BY <1>1, TopFacts
  <2>2. Pending(Top) = {dummy}
        BY <1>1 DEF Pending, Opens, Plain
  <2>3. end \in Free(b) \ Pending(Top)
        BY <1>3, <2>1 DEF Reserved, LastSwitch
  <2> QED  BY <2>2, <2>3
<1>8. S \subseteq Landing(b, todo, switches)
  <2>1. end \in Ends(switches)
        BY <1>3 DEF Ends, LastSwitch
  <2>2. Blocks(last.cases) \cup ({last.default} \ {0}) \subseteq CaseBlocks(switches)
        BY <1>3 DEF CaseBlocks, LastSwitch
  <2>3. Held(todo, loops, switches, labels) \subseteq Landing(b, todo, switches)
        BY <1>1, CodeTop
  <2>4. other = end \/ other \in {last.default} \ {0}
        OBVIOUS
  <2> HIDE DEF other, end, last
  <2> QED  BY <2>1, <2>2, <2>3, <2>4 DEF Landing, Held
<1> HIDE DEF n, end, other, dummy, last
<1>9. ins \in Instrs /\ Terminates(ins) /\ Targets(ins) = {other} \cup Blocks(last.cases)
      BY <1>2, <1>5, <1>6, InstrFacts, TargetsOf
<1>10. /\ Good(atTop, Instrs) /\ ~atTop.filled /\ Free(b) \ {dummy} \subseteq Free(atTop)
       /\ \A M : Tight(b, M) /\ (~b.filled => end \in M) =>
            Tight(atTop, M) /\ Opened(b) \cup {dummy} \subseteq Opened(atTop)
      BY <1>2, <1>4, JumpAndOpen
<1> HIDE DEF atTop, ins
<1>11. end \in Free(atTop)
      BY <1>7, <1>10
<1>12. \A M : Tight(atTop, M) /\ Targets(ins) \subseteq M =>
         Tight(b', M) /\ Opened(atTop) \cup {end} \subseteq Opened(b')
      BY <1>1, <1>9, <1>10, <1>11, InsAndOpen
<1>13. \A M : Tight(b, M) /\ S \subseteq M =>
         Tight(b', M) /\ Opened(b) \cup {dummy, end} \subseteq Opened(b')
      BY <1>9, <1>10, <1>12
<1> HIDE DEF S
<1>14. Tight(b, Landing(b, todo, switches))
      BY <1>1, CodeTop
<1>15. Opened(b) \cup {dummy, end} \subseteq Opened(b')
      BY <1>8, <1>13, <1>14
<1>16. /\ Ends(switches) \subseteq Ends(switches') \cup {end} /\ Ends(switches') \subseteq Ends(switches)
       /\ CaseBlocks(switches') \subseteq CaseBlocks(switches)
      BY <1>1, <1>3, <1>4, SwitchStack DEF end, last, LastSwitch
<1>17. \A M : /\ Landing(b, todo, switches) \cup Opened(b') \subseteq M
              /\ Held(todo, loops, switches, labels) \subseteq M
              /\ Tight(b, M)
              => Tight(b', M)
      BY <1>8, <1>13
<1>18. /\ Opened(b) \subseteq Opened(b') /\ Due(Top) \subseteq Opened(b')
       /\ Ends(switches) \subseteq Ends(switches') \cup Opened(b')
       /\ LoopBlocks(loops') \subseteq LoopBlocks(loops)
      BY <1>1, <1>2, <1>15, <1>16
<1> QED  BY <1>1, <1>16, <1>17, <1>18, LeaveCode

\* case and default start a block where the current one is terminated.
LEMMA EntryTight ==
  ASSUME Good(b, Instrs)
  PROVE  /\ EntryBlock \in Block
         /\ \A L : Tight(b, L) =>
              Tight(AtEntry, L) /\ Opened(b) \cup {EntryBlock} \subseteq Opened(AtEntry)
<1>1. EntryBlock \in Block
      BY EntryFacts
<1>2. CASE ~b.filled
  <2>1. AtEntry = b /\ EntryBlock = b.cur /\ b.cur \in Opened(b)
        BY <1>2 DEF AtEntry, EntryBlock, Opened, Good, Loose
  <2> QED  BY <1>1, <2>1
<1>3. CASE b.filled
  <2> DEFINE blk == Fresh(b, 1)
             c   == CreateBlocks(b, 1)
  <2>1. 1 \in Nat /\ 1 \in 1..1
        OBVIOUS
  <2>2. Good(c, Instrs) /\ c.filled = b.filled /\ blk \in Free(c) /\ blk \in Block
        BY <2>1, FreeCreate
  <2>3. \A L : Tight(b, L) => Tight(c, L) /\ Opened(b) \subseteq Opened(c)
        BY <2>1, CreateTight
  <2>4. AtEntry = SwitchToBlock(JumpToBlock(c, blk), blk) /\ EntryBlock = blk
        BY <1>3 DEF AtEntry, EntryBlock
  <2> HIDE DEF blk, c
  <2>5. \A L : Tight(c, L) =>
          Tight(AtEntry, L) /\ Opened(c) \cup {blk} \subseteq Opened(AtEntry)
        BY <1>3, <2>2, <2>4, JumpAndOpen
  <2> QED  BY <1>1, <2>3, <2>4, <2>5
<1> QED  BY <1>2, <1>3

\* An entry of the innermost switch is noted.
LEMMA EntryCode ==
  ASSUME IInv, CodeOK, Running, Top.op = "stmt", prog' = prog, next' = next, switches # <<>>,
         NEW k, Stmt(k) \in Tasks, todo' = <<Stmt(k)>> \o Tail(todo),
         b' = AtEntry, UNCHANGED <<labels, loops>>, NEW w \in SwitchSet, SetSwitch(w),
         w.end = LastSwitch.end,
         Blocks(w.cases) \subseteq Blocks(LastSwitch.cases) \cup {EntryBlock},
         w.default \in {LastSwitch.default, EntryBlock}
  PROVE  Coded
<1> DEFINE n  == Len(switches)
           ts == <<Stmt(k)>>
           C(e) == Blocks(e.cases) \cup ({e.default} \ {0})
<1>1. Good(b, Instrs) /\ switches \in Seq(SwitchSet) /\ n \in 1..n
  <2>1. switches \in Seq(SwitchSet)
        BY DEF IInv, ContextTypes
  <2>2. n \in Nat /\ n # 0
        BY <2>1, EmptySeq, LenProperties
  <2>3. n \in 1..n
        BY <2>2
  <2> QED  BY <2>1, <2>3, TopFacts
<1>2. \A L : Tight(b, L) =>
        Tight(b', L) /\ Opened(b) \cup {EntryBlock} \subseteq Opened(b')
      BY <1>1, EntryTight
<1>3. Tight(b, Landing(b, todo, switches))
      BY CodeTop
<1>4. Opened(b) \cup {EntryBlock} \subseteq Opened(b')
      BY <1>2, <1>3
<1>5. Len(switches') = n /\ \A i \in 1..n : switches'[i] = IF i = n THEN w ELSE switches[i]
      BY <1>1, ExceptSeq DEF SetSwitch
<1>6. Ends(switches') = Ends(switches)
  <2>1. \A i \in 1..n : switches'[i].end = switches[i].end
        BY <1>5 DEF LastSwitch
  <2> HIDE DEF n
  <2>2. Ends(switches') = {switches'[i].end : i \in 1..n}
        BY <1>5 DEF Ends
  <2>3. Ends(switches) = {switches[i].end : i \in 1..n}
        BY DEF Ends, n
  <2> QED  BY <2>1, <2>2, <2>3
<1>7. CaseBlocks(switches') \subseteq CaseBlocks(switches) \cup {EntryBlock}
  <2>1. \A i \in 1..n : C(switches'[i]) \subseteq C(switches[i]) \cup {EntryBlock}
    <3>1. C(w) \subseteq C(switches[n]) \cup {EntryBlock}
          BY DEF LastSwitch
    <3> HIDE DEF C, n
    <3> QED  BY <1>5, <3>1
  <2>2. CaseBlocks(switches') = (UNION {C(switches'[i]) : i \in 1..Len(switches')})
        BY Zenon DEF CaseBlocks
  <2>3. CaseBlocks(switches) = (UNION {C(switches[i]) : i \in 1..n})
        BY Zenon DEF CaseBlocks
  <2> HIDE DEF C, n
  <2> QED  BY <1>5, <2>1, <2>2, <2>3
<1>8. ts \in Seq(Tasks) /\ DueOf(ts) = {} /\ Heads(ts) = {}
      BY Single, StmtDue
<1>9. Due(Top) = {}
      BY StmtTop DEF Plain
<1> HIDE DEF ts
<1>10. ASSUME NEW M, Landing(b, todo, switches) \subseteq M,
              Held(todo, loops, switches, labels) \subseteq M,
              Opened(b') \cup DueOf(ts) \cup Ends(switches') \subseteq M, Tight(b, M)
       PROVE  /\ Tight(b', M) /\ Heads(ts) \subseteq M
              /\ LoopBlocks(loops') \subseteq M /\ CaseBlocks(switches') \subseteq M
              /\ Gotos(labels') \subseteq M
  <2>1. Tight(b', M) /\ EntryBlock \in M
        BY <1>2, <1>4, <1>10
  <2>2. LoopBlocks(loops) \subseteq M /\ CaseBlocks(switches) \subseteq M /\ Gotos(labels) \subseteq M
        BY <1>10 DEF Held
  <2> QED  BY <1>7, <1>8, <2>1, <2>2
<1>11. /\ Opened(b) \subseteq Opened(b') /\ Due(Top) \subseteq Opened(b') \cup DueOf(ts)
       /\ Ends(switches) \subseteq Ends(switches') \cup Opened(b')
       /\ todo' = ts \o Tail(todo)
      BY <1>4, <1>6, <1>9 DEF ts
<1> QED  BY <1>8, <1>10, <1>11, StepCode

\* case and default.
LEMMA CaseCode ==
  ASSUME IInv, CodeOK, Case \/ Default
  PROVE  Coded
<1>1. CASE err' # "none"
      BY <1>1 DEF Coded
<1>2. CASE err' = "none"
  <2> DEFINE n == Top.node
             k == Kid(n, 1)
             v == Node(n).val
             last == LastSwitch
             w == [last EXCEPT !.cases[v] = EntryBlock]
             u == [last EXCEPT !.default = EntryBlock]
  <2>1. /\ Compiling("case") \/ Compiling("default")
        /\ switches # <<>>
        /\ SetSwitch(w) \/ SetSwitch(u)
        /\ b' = AtEntry /\ todo' = <<Stmt(k)>> \o Tail(todo)
        /\ prog' = prog /\ next' = next /\ UNCHANGED <<labels, loops>>
        BY <1>2 DEF Case, Default, Fail, Push, Frame
  <2>2. switches # <<>>
        BY <1>2 DEF Case, Default, Fail
  <2>3. /\ Running /\ Top.op = "stmt" /\ n \in DOMAIN prog.node
        /\ Node(n).kind \in {"case", "default"} /\ prog \in Programs
        BY <2>1, CompilingFacts DEF IInv
  <2>4. Stmt(k) \in Tasks /\ v \in Vals
    <3>1. k \in DOMAIN prog.node /\ v \in Vals
          BY <2>3, KidFacts, NodeFacts DEF Unary
    <3> QED  BY <2>3, <3>1, StmtFacts
  <2>5. last \in [cases : [Vals -> Nat], default : Nat, end : Block]
        BY <2>2, LastSwitchFacts DEF SwitchSet, Maps
  <2>6. EntryBlock \in Nat /\ EntryBlock \in Block
    <3>1. EntryBlock \in Block
          BY <2>3, TopFacts, EntryTight
    <3> QED  BY <3>1 DEF Block
  <2> HIDE DEF n, k, v, last
  <2>7. /\ w \in [cases : [Vals -> Nat], default : Nat, end : Block]
        /\ w.end = last.end /\ w.default = last.default
        /\ \A x \in Vals : w.cases[x] = IF x = v THEN EntryBlock ELSE last.cases[x]
        BY <2>4, <2>5, <2>6
  <2>8. /\ u \in [cases : [Vals -> Nat], default : Nat, end : Block]
        /\ u.end = last.end /\ u.default = EntryBlock /\ u.cases = last.cases
        BY <2>4, <2>5, <2>6
  <2> HIDE DEF w, u
  <2>9. /\ w \in SwitchSet /\ w.end = LastSwitch.end
        /\ Blocks(w.cases) \subseteq Blocks(LastSwitch.cases) \cup {EntryBlock}
        /\ w.default \in {LastSwitch.default, EntryBlock}
        BY <2>7 DEF SwitchSet, Maps, Blocks, last
  <2>10. /\ u \in SwitchSet /\ u.end = LastSwitch.end
         /\ Blocks(u.cases) \subseteq Blocks(LastSwitch.cases) \cup {EntryBlock}
         /\ u.default \in {LastSwitch.default, EntryBlock}
         BY <2>8 DEF SwitchSet, Maps, Blocks, last
  <2>11. CASE SetSwitch(w)
         BY <2>1, <2>2, <2>3, <2>4, <2>9, <2>11, EntryCode
  <2>12. CASE SetSwitch(u)
         BY <2>1, <2>2, <2>3, <2>4, <2>10, <2>12, EntryCode
  <2> QED  BY <2>1, <2>11, <2>12
<1> QED  BY <1>1, <1>2

\* A label starts a block and is bound to it.
LEMMA LabelCode ==
  ASSUME IInv, CodeOK, Label
  PROVE  Coded
<1>1. CASE err' # "none"
      BY <1>1 DEF Coded
<1>2. CASE err' = "none"
  <2> DEFINE n   == Top.node
             k   == Kid(n, 1)
             v   == Node(n).val
             blk == Fresh(b, 1)
             c   == CreateBlocks(b, 1)
             ts  == <<Stmt(k)>>
             S   == {blk}
  <2>1. /\ Compiling("label") /\ b' = SwitchToBlock(JumpToBlock(c, blk), blk)
        /\ labels' = [labels EXCEPT ![v] = blk] /\ todo' = ts \o Tail(todo)
        /\ prog' = prog /\ next' = next /\ loops' = loops /\ switches' = switches
        BY <1>2 DEF Label, Bind, Push, Context
  <2>2. /\ Running /\ Top.op = "stmt" /\ n \in DOMAIN prog.node
        /\ Node(n).kind = "label" /\ prog \in Programs
        BY <2>1, CompilingFacts DEF IInv
  <2>3. Stmt(k) \in Tasks
    <3>1. k \in DOMAIN prog.node
          BY <2>2, KidFacts DEF Unary
    <3> QED  BY <2>2, <3>1, StmtFacts
  <2>4. Good(b, Instrs) /\ Due(Top) = {} /\ labels \in [Vals -> Nat]
        BY <2>2, TopFacts, StmtTop DEF Plain, IInv, Maps
  <2>5. 1 \in Nat /\ 1 \in 1..1
        OBVIOUS
  <2>6. Good(c, Instrs) /\ blk \in Free(c) /\ blk \in Block
        BY <2>4, <2>5, FreeCreate
  <2>7. \A L : Tight(b, L) => Tight(c, L) /\ Opened(b) \subseteq Opened(c)
        BY <2>4, <2>5, CreateTight
  <2>8. ts \in Seq(Tasks) /\ DueOf(ts) = {} /\ Heads(ts) = {}
        BY <2>3, Single, StmtDue
  <2> HIDE DEF n, k, v, blk, c, ts
  <2>9. \A L : Tight(c, L) /\ blk \in L =>
          Tight(b', L) /\ Opened(c) \cup {blk} \subseteq Opened(b')
        BY <2>1, <2>6, JumpAndOpen
  <2>10. \A M : Tight(b, M) /\ S \subseteq M =>
           Tight(b', M) /\ Opened(b) \cup {blk} \subseteq Opened(b')
        BY <2>7, <2>9
  <2> HIDE DEF S
  <2>11. Opened(b) \cup {blk} \subseteq Opened(b')
    <3> DEFINE T == Opened(b) \cup {blk}
    <3>1. \A M : Tight(b, M) /\ S \subseteq M => T \subseteq Opened(b')
          BY <2>10
    <3> HIDE DEF T
    <3>2. T \subseteq Opened(b')
          BY <2>2, <3>1, LoopOpened
    <3> QED  BY <3>2 DEF T
  <2>12. Gotos(labels') \subseteq Gotos(labels) \cup {blk}
    <3>1. \A x \in Vals : labels'[x] = labels[x] \/ labels'[x] = blk
          BY <2>1, <2>4
    <3> QED  BY <3>1 DEF Gotos, Named
  <2>13. ASSUME NEW M, Landing(b, todo, switches) \subseteq M,
                Held(todo, loops, switches, labels) \subseteq M,
                Opened(b') \cup DueOf(ts) \cup Ends(switches') \subseteq M, Tight(b, M)
         PROVE  /\ Tight(b', M) /\ Heads(ts) \subseteq M
                /\ LoopBlocks(loops') \subseteq M /\ CaseBlocks(switches') \subseteq M
                /\ Gotos(labels') \subseteq M
    <3>1. S \subseteq M /\ blk \in M
          BY <2>11, <2>13 DEF S
    <3>2. Tight(b', M)
          BY <2>10, <2>13, <3>1
    <3>3. LoopBlocks(loops) \subseteq M /\ CaseBlocks(switches) \subseteq M /\ Gotos(labels) \subseteq M
          BY <2>13 DEF Held
    <3> QED  BY <2>1, <2>8, <2>12, <3>1, <3>2, <3>3
  <2>14. /\ Opened(b) \subseteq Opened(b') /\ Due(Top) \subseteq Opened(b') \cup DueOf(ts)
         /\ Ends(switches) \subseteq Ends(switches') \cup Opened(b')
        BY <2>1, <2>4, <2>11
  <2> QED  BY <2>1, <2>2, <2>8, <2>13, <2>14, StepCode
<1> QED  BY <1>1, <1>2

-----------------------------------------------------------------------------
(* Functions, and the theorem.                                             *)

\* What the verifier asks of one function.
Accepted(code) ==
  \A k \in DOMAIN code :
    /\ code[k] # <<>> => Ended(code[k])
    /\ \A i \in DOMAIN code[k] : \A t \in Targets(code[k][i]) :
          t \in DOMAIN code /\ code[t] # <<>>

\* A builder that is tight on its own blocks, with the last of them terminated.
LEMMA TightAccepted ==
  ASSUME NEW bl, bl \in Builder(Instrs), Tight(bl, Opened(bl)), bl.cur \in 1..Len(bl.code),
         Ended(bl.code[bl.cur])
  PROVE  Accepted(bl.code)
<1>1. bl.code \in Seq(Seq(Instrs)) /\ DOMAIN bl.code = 1..Len(bl.code)
      BY LenProperties DEF Builder
<1>2. \A k \in 1..Len(bl.code) : DOMAIN bl.code[k] = 1..Len(bl.code[k])
      BY <1>1, ElementOfSeq, LenProperties
<1>3. \A k \in 1..Len(bl.code) : bl.code[k] # <<>> => Ended(bl.code[k])
      BY DEF Tight, Sealed
<1>4. \A t \in Opened(bl) : t \in DOMAIN bl.code /\ bl.code[t] # <<>>
      BY <1>1 DEF Opened, Ended
<1>5. \A k \in 1..Len(bl.code) : \A i \in 1..Len(bl.code[k]) :
        Targets(bl.code[k][i]) \subseteq Opened(bl)
      BY DEF Tight, Lands
<1> QED  BY <1>1, <1>2, <1>3, <1>4, <1>5 DEF Accepted

\* No switch is open where only the function itself is on the stack.
LEMMA NoSwitchLeft ==
  ASSUME NEW n, NEW saw, Nested(<<>>, n, saw)
  PROVE  n = 0
<1>1. PICK h : Depths(<<>>, n, saw, h)
      BY DEF Nested
<1>2. Len(<<>>) = 0
      BY EmptySeq
<1> QED  BY <1>1, <1>2 DEF Depths

\* A step that ends no function keeps the functions that are finished.
LEMMA SameOutput ==
  ASSUME VerifierAccepts, prog' = prog, out' = out
  PROVE  VerifierAccepts'
<1>1. Vals' = Vals
      BY DEF Vals, Node
<1>2. \A ins : Targets(ins)' = Targets(ins)
      BY <1>1 DEF Targets
<1> QED  BY <1>2 DEF VerifierAccepts

\* A function that is finished is one the verifier accepts.
LEMMA EndFunctionCode ==
  ASSUME IInv, CodeOK, VerifierAccepts, EndFunction
  PROVE  CodeOK' /\ VerifierAccepts'
<1>1. Running /\ Top.op = "endFunction" /\ prog' = prog
      BY DEF EndFunction, At, Fail
<1>2. CASE Fail("MissingReturn") /\ UNCHANGED b
      BY <1>1, <1>2, SameOutput DEF CodeOK, Fail
<1>3. CASE /\ b' = ReturnAtTheEnd
           /\ out' = Append(out, b'.code)
           /\ next' = next + 1
           /\ Pop
  <2>1. /\ Good(b, Instrs) /\ Tail(todo) = <<>> /\ ~IsOpen(Top)
        /\ Nested(Tail(todo), Len(switches), sawLoop)
        /\ next \in Nat \ {0} /\ switches \in Seq(SwitchSet) /\ out \in Seq(Code)
        BY <1>1, TopFacts DEF IInv, ContextTypes, ResultTypes, IsOpen, LoopTasks
  <2>2. todo' = <<>>
        BY <1>3, <2>1 DEF Pop
  <2>3. CodeOK'
        BY <2>2 DEF CodeOK
  <2>4. switches = <<>>
        BY <2>1, NoSwitchLeft, EmptySeq
  <2>5. Landing(b, todo, switches) = Opened(b)
    <3>1. DueOf(todo) = Due(Top) \cup DueOf(Tail(todo)) /\ Due(Top) = {}
          BY <1>1, CodeTop, StmtTop
    <3>2. Len(<<>>) = 0 /\ \A i : i \notin 1..0
          BY EmptySeq
    <3>3. DueOf(<<>>) = {} /\ Ends(<<>>) = {}
          BY <3>2 DEF DueOf, Ends
    <3> QED  BY <2>1, <2>4, <3>1, <3>3 DEF Landing
  <2>6. Tight(b, Opened(b))
        BY <1>1, <2>5, CodeTop
  <2>7. /\ b' \in Builder(Instrs) /\ b'.cur \in 1..Len(b'.code) /\ Ended(b'.code[b'.cur])
        /\ Tight(b', Opened(b'))
    <3>1. CASE b.filled
      <4>1. b' = b
            BY <1>3, <3>1 DEF ReturnAtTheEnd
      <4> QED  BY <2>1, <2>6, <3>1, <4>1 DEF Good, Loose
    <3>2. CASE ~b.filled
      <4> DEFINE r == Ins(b, Ret(0))
      <4>1. b' = r
            BY <1>3, <3>2 DEF ReturnAtTheEnd
      <4>2. Ret(0) \in Instrs /\ Terminates(Ret(0)) /\ Targets(Ret(0)) \subseteq Opened(b)
        <5>1. 0 \in Nat /\ 1 \in Block
              BY DEF Block
        <5>2. Targets(Ret(0)) = {}
              BY TargetsOf
        <5> QED  BY <5>1, <5>2, InstrFacts
      <4>3. /\ Loose(r, Instrs) /\ r.cur = b.cur
            /\ Ended(r.code[b.cur]) <=> Terminates(Ret(0))
            BY <2>1, <3>2, <4>2, InsLemma
      <4>4. Tight(r, Opened(b)) /\ Opened(b) \subseteq Opened(r)
            BY <2>1, <2>6, <3>2, <4>2, InsTight
      <4> HIDE DEF r
      <4>5. Tight(r, Opened(r))
            BY <4>4, MoreLanding
      <4> QED  BY <4>1, <4>2, <4>3, <4>5 DEF Loose
    <3> QED  BY <3>1, <3>2
  <2>8. Accepted(b'.code)
        BY <2>7, TightAccepted
  <2>9. VerifierAccepts'
    <3> DEFINE n == Len(out)
               c == b'.code
    <3>1. n \in Nat /\ DOMAIN out = 1..n
          BY <2>1, LenProperties
    <3>2. c \in Code
          BY <2>7 DEF Builder, Code, Instrs
    <3>3. /\ out' \in Seq(Code) /\ Len(out') = n + 1
          /\ \A i \in 1..n : out'[i] = out[i]
          /\ out'[n + 1] = c
          BY <1>3, <2>1, <3>2, AppendProperties
    <3>4. DOMAIN out' = 1..n + 1
          BY <3>3, LenProperties
    <3>5. \A f \in 1..n : Accepted(out[f])
          BY <3>1 DEF VerifierAccepts, Accepted
    <3> HIDE DEF n, c
    <3>6. \A f \in 1..n + 1 : f \in 1..n \/ f = n + 1
          BY <3>1 DEF n
    <3>7. \A f \in DOMAIN out' : Accepted(out'[f])
          BY <2>8, <3>3, <3>4, <3>5, <3>6 DEF c
    <3>8. Vals' = Vals
          BY <1>1 DEF Vals, Node
    <3>9. \A ins : Targets(ins)' = Targets(ins)
          BY <3>8 DEF Targets
    <3> QED  BY <3>7, <3>9 DEF VerifierAccepts, Accepted
  <2> QED  BY <2>3, <2>9
<1> QED  BY <1>2, <1>3 DEF EndFunction

\* A function begins with nothing to land in but its first block, and with no
\* label to jump to.
LEMMA BeginFunctionCode ==
  ASSUME IInv, NInv, OwnLabels, LabelsHere, VerifierAccepts, BeginFunction
  PROVE  CodeOK' /\ VerifierAccepts'
<1> DEFINE k  == prog.fns[next].body
           t  == Task("endFunction", next, <<>>, FALSE)
           ts == <<Stmt(k), t>>
<1>1. /\ err = "none" /\ todo = <<>> /\ next <= Len(prog.fns) /\ b' = EmptyBuilder
      /\ todo' = ts /\ UNCHANGED <<prog, next, loops, switches, sawLoop, labels, out, err>>
      BY DEF BeginFunction
<1>2. /\ prog \in Programs /\ next \in Nat \ {0} /\ loops \in Seq(Block \X Block)
      /\ switches \in Seq(SwitchSet) /\ Mirrored(todo, loops, switches, sawLoop)
      BY <1>1 DEF IInv, ContextTypes, ResultTypes, NInv, ContextOK
<1>3. k \in DOMAIN prog.node
  <2>1. next \in 1..Len(prog.fns)
        BY <1>1, <1>2
  <2> QED  BY <1>2, <2>1, BodyInside
<1> HIDE DEF k
<1>4. Stmt(k) \in Tasks /\ Stmt(k).op = "stmt"
      BY <1>2, <1>3, StmtFacts
<1>5. t \in Tasks /\ t.op = "endFunction"
  <2>1. <<>> \in Seq(Block) /\ "endFunction" \in TaskOps /\ FALSE \in BOOLEAN
        BY EmptySeq DEF TaskOps
  <2> QED  BY <1>2, <2>1 DEF Task, Tasks
<1> HIDE DEF t
<1>6. ts \in Seq(Tasks) /\ Len(ts) = 2 /\ ts[1] = Stmt(k) /\ ts[2] = t
      BY <1>4, <1>5, TwoOf
<1> HIDE DEF ts
<1>7. todo' # <<>> /\ Caller(todo', 1).op = "endFunction"
  <2>1. ts # <<>>
        BY <1>6, EmptySeq
  <2>2. Len(ts) + 1 - 1 = 2
        BY <1>6
  <2> QED  BY <1>1, <1>5, <1>6, <2>1, <2>2 DEF Caller
<1>8. loops = <<>> /\ switches = <<>>
  <2>1. Len(todo) = 0 /\ \A h : h \notin 1..0
        BY <1>1, EmptySeq
  <2>2. LoopsOf(todo) = {} /\ SwitchesOf(todo) = {}
        BY <2>1 DEF LoopsOf, SwitchesOf, OpenAt
  <2>3. Cardinality({}) = 0
        BY FS_EmptySet
  <2>4. Len(loops) = 0 /\ Len(switches) = 0
        BY <1>2, <2>2, <2>3 DEF Mirrored
  <2> QED  BY <1>2, <2>4, EmptySeq
<1>9. Len(<<>>) = 0 /\ \A i : i \notin 1..0
      BY EmptySeq
<1>10. LoopBlocks(loops) = {} /\ CaseBlocks(switches) = {}
      BY <1>8, <1>9 DEF LoopBlocks, CaseBlocks
<1>11. Heads(ts) = {}
  <2>1. \A i \in 1..2 : i = 1 \/ i = 2
        OBVIOUS
  <2>2. \A i \in 1..Len(ts) : ts[i].op \in Plain \cup {"endFunction"}
        BY <1>4, <1>5, <1>6, <2>1 DEF Plain
  <2> QED  BY <2>2, NothingDue
<1>12. Gotos(labels) = {}
  <2> SUFFICES ASSUME NEW v \in Named, labels[v] # 0 PROVE FALSE
      BY DEF Gotos
  <2>1. PICK n \in DOMAIN prog.node :
          Node(n).kind = "goto" /\ Node(n).val = v /\ InBody(next, n)
        BY DEF Named
  <2>2. PICK m \in DOMAIN prog.node, f \in 1..next :
          Node(m).kind = "label" /\ Node(m).val = v /\ InBody(f, m) /\ f < next
        BY <1>1 DEF LabelsHere, Named
  <2>3. f = next
        BY <2>1, <2>2 DEF OwnLabels, InBody
  <2> QED  BY <1>2, <2>2, <2>3
<1>13. \A M : Tight(b', M)
  <2>1. b'.code = <<<<>>>> /\ b'.cur = 1
        BY <1>1 DEF EmptyBuilder
  <2>2. Len(<<<<>>>>) = 1 /\ <<<<>>>>[1] = <<>>
        OBVIOUS
  <2>3. \A i \in 1..1 : i = 1
        OBVIOUS
  <2>4. Sealed(b')
        BY <2>1, <2>2, <2>3 DEF Sealed
  <2>5. \A M : Lands(b', M)
        BY <1>9, <2>1, <2>2, <2>3 DEF Lands
  <2> QED  BY <2>4, <2>5 DEF Tight
<1>14. Held(ts, loops, switches, labels) = {}
      BY <1>10, <1>11, <1>12 DEF Held
<1>15. CodeOK'
  <2>1. Vals' = Vals /\ Named' = Named
    <3>1. Vals' = Vals /\ \A n : InBody(next, n)' <=> InBody(next, n)
          BY <1>1 DEF Vals, Node, InBody
    <3> QED  BY <1>1, <3>1 DEF Named, Node
  <2>2. \A ins : Targets(ins)' = Targets(ins)
        BY <2>1 DEF Targets
  <2>3. (\A m : Blocks(m)' = Blocks(m)) /\ (\A m : Gotos(m)' = Gotos(m))
        BY <2>1 DEF Blocks, Gotos
  <2>4. Held(todo, loops, switches, labels)' = Held(ts, loops, switches, labels)
        BY <1>1, <2>3 DEF Held, CaseBlocks
  <2>5. Tight(b, Landing(b, todo, switches))' <=> Tight(b', Landing(b', todo', switches'))
        BY <2>2 DEF Tight, Lands
  <2> QED  BY <1>7, <1>13, <1>14, <2>4, <2>5 DEF CodeOK
<1>16. VerifierAccepts'
      BY <1>1, SameOutput
<1> QED  BY <1>15, <1>16

\* A step inside a function.
LEMMA InsideCode ==
  ASSUME VerifierAccepts, prog' = prog, out' = out, Coded
  PROVE  CodeOK' /\ VerifierAccepts'
<1>1. VerifierAccepts'
      BY SameOutput
<1>2. CASE err' = "none"
      BY <1>1, <1>2 DEF Coded
<1>3. CASE err' # "none"
      BY <1>1, <1>3 DEF CodeOK
<1> QED  BY <1>2, <1>3

\* The invariant holds initially.
LEMMA InitCInv == Init => CInv
<1> SUFFICES ASSUME Init PROVE CInv
    OBVIOUS
<1>1. todo = <<>> /\ labels = NoBlocks /\ out = <<>>
      BY DEF Init
<1>2. VerifierAccepts
  <2>1. DOMAIN <<>> = {}
        OBVIOUS
  <2> QED  BY <1>1, <2>1 DEF VerifierAccepts
<1>3. ScopeOK
  <2>1. Len(todo) = 0 /\ \A i : i \notin 1..0
        BY <1>1, EmptySeq
  <2>2. \A v \in Vals : labels[v] = 0
        BY <1>1 DEF NoBlocks
  <2> QED  BY <2>1, <2>2 DEF ScopeOK, TasksHere, LabelsHere
<1> QED  BY <1>1, <1>2, <1>3 DEF CInv, CodeOK

\* Every step keeps the invariant.
LEMMA StepKeepsCode == IInv /\ NInv /\ CInv /\ [Next]_vars => CInv'
<1> SUFFICES ASSUME IInv, NInv, CInv, [Next]_vars PROVE CInv'
    OBVIOUS
<1>1. prog' = prog
      BY DEF Next, Done, Step, vars, BeginFunction, EndFunction, Unreachable, Compound,
             Expression, DeclareStack, Return, If, EndIf, Else, EndElse, For, While, EndWhile,
             Do, EndDo, Switch, EndSwitch, Case, Default, Label, Goto, LoopExit, Frame, Fail
<1>2. OwnLabels' <=> OwnLabels
      BY <1>1 DEF OwnLabels, InBody, Node
<1> SUFFICES ASSUME OwnLabels PROVE CodeOK' /\ ScopeOK' /\ VerifierAccepts'
    BY <1>2 DEF CInv
<1>3. CodeOK /\ ScopeOK /\ VerifierAccepts
      BY DEF CInv
<1>4. CASE UNCHANGED vars
  <2>1. VerifierAccepts'
        BY <1>3, <1>4, SameOutput DEF vars
  <2>2. ScopeOK'
        BY <1>3, <1>4 DEF vars, ScopeOK, TasksHere, LabelsHere, Here, InBody, Vals, Node
  <2>3. CodeOK'
        BY <1>3, <1>4 DEF vars, CodeOK, Caller, Tight, Sealed, Lands, Landing, Opened, Held,
           Gotos, Named, InBody, Blocks, CaseBlocks, Targets, Vals, Node
  <2> QED  BY <2>1, <2>2, <2>3
<1>5. CASE BeginFunction
      BY <1>3, <1>5, BeginFunctionCode, BeginFunctionScope DEF ScopeOK
<1>6. CASE EndFunction
      BY <1>3, <1>6, EndFunctionCode, EndFunctionScope
<1>7. ASSUME \/ Compound \/ Expression \/ DeclareStack \/ Return \/ If \/ EndIf \/ Else
             \/ EndElse \/ For \/ While \/ EndWhile \/ Do \/ EndDo \/ Switch \/ EndSwitch
             \/ Case \/ Default \/ Label \/ Goto \/ LoopExit
      PROVE  CodeOK' /\ ScopeOK' /\ VerifierAccepts'
  <2>1. out' = out
        BY <1>7 DEF Compound, Expression, DeclareStack, Return, If, EndIf, Else, EndElse,
             For, While, EndWhile, Do, EndDo, Switch, EndSwitch, Case, Default, Label, Goto,
             LoopExit, Frame, Fail
  <2>2. Coded
        BY <1>3, <1>7, SilentCode, ExpressionCode, JumpCode, IfCode, EndIfCode, ElseCode,
           WhileCode, DoCode, EndWhileCode, EndDoCode, SwitchCode, EndSwitchCode, CaseCode,
           LabelCode DEF ScopeOK
  <2>3. ScopeOK'
        BY <1>3, <1>7, <2>2, InsideScope
  <2> QED  BY <1>1, <1>3, <2>1, <2>2, <2>3, InsideCode
<1>8. CASE Unreachable
  <2>1. /\ err' # "none" /\ out' = out
        /\ todo' = todo /\ next' = next
        BY <1>8 DEF Unreachable, Fail
  <2>2. ScopeOK'
        BY <1>1, <1>3, <2>1, SameTasks DEF ScopeOK, LabelsHere
  <2> QED  BY <1>1, <1>3, <2>1, <2>2, InsideCode DEF Coded
<1> QED  BY <1>4, <1>5, <1>6, <1>7, <1>8 DEF Next, Step, Done

\* compile_func never panics on what the statement compiler built: the verifier
\* accepts each function, for every program in which no goto names a label of
\* another function.
THEOREM VerifierAcceptsCode == Spec => [](OwnLabels => VerifierAccepts)
<1>1. CInv => (OwnLabels => VerifierAccepts)
      BY DEF CInv
<1> QED  BY <1>1, InitIInv, StepKeeps, InitNInv, StepContext, InitCInv, StepKeepsCode, PTL
         DEF Spec

=============================================================================
