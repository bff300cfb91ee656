-------------------------- MODULE LoweringSemantics --------------------------
(***************************************************************************)
(* What Lowering promises: the blocks of a function do what its statements *)
(* say.  Once a program is compiled, a function is executed twice in       *)
(* parallel, by the rules of C for its statements (position at) and by its *)
(* blocks (position pc).  The two meet at every expression they evaluate,  *)
(* where the environment chooses the value: they must always be about to   *)
(* evaluate the same one.                                                  *)
(***************************************************************************)
EXTENDS Lowering, FiniteSets, FiniteSetsExt

VARIABLES
  at,      \* where the source is: a node and how far it has come with it
  pc,      \* where the code is: function, block and instruction
  shared   \* a case or default was entered in a block that had code

svars == <<vars, at, pc, shared>>

Idle          == [node |-> 0, stage |-> "idle"]
Pos(n, stage) == [node |-> n, stage |-> stage]
Enter(n)      == Pos(n, "enter")
Leave(n)      == Pos(n, "done")

-----------------------------------------------------------------------------
(* The source.  Its statements are those analyze/stmt.rs builds, with the   *)
(* meaning of the paragraphs of the C standard cited there.                 *)

LoopKinds == {"while", "for", "do"}

Parent(n) ==
  IF \E m \in DOMAIN prog.node : IsKid(prog.node, n, m)
  THEN CHOOSE m \in DOMAIN prog.node : IsKid(prog.node, n, m)
  ELSE 0

Innermost(n, kinds) == Max(Around(n, kinds))

LastKid(n) == Kid(n, Len(Node(n).kids))

SameFunction(n, m) ==
  \A f \in DOMAIN prog.fns : (prog.fns[f].body <= n) = (prog.fns[f].body <= m)

LabelNode(n) ==
  CHOOSE m \in DOMAIN prog.node :
    /\ Node(m).kind = "label" /\ Node(m).val = Node(n).val
    /\ SameFunction(n, m)

NextInLoop(m) == Pos(m, IF Node(m).kind = "for" THEN "post" ELSE "cond")

\* the statement that a switch n selects for the value v
Entries(n, kind) ==
  {c \in DOMAIN prog.node :
     /\ Node(c).kind = kind
     /\ Around(c, {"switch"}) # {}
     /\ Innermost(c, {"switch"}) = n}

Selected(n, v) ==
  LET cases == {c \in Entries(n, "case") : Node(c).val = v}
      other == Entries(n, "default")
  IN  IF cases # {} THEN Enter(Max(cases))
      ELSE IF other # {} THEN Enter(Max(other))
      ELSE Leave(n)

AfterKid(n, p) ==
  LET i == CHOOSE j \in DOMAIN Node(p).kids : Kid(p, j) = n
  IN  CASE Node(p).kind = "compound" ->
             IF i < Len(Node(p).kids) THEN Enter(Kid(p, i + 1)) ELSE Leave(p)
        [] Node(p).kind \in {"while", "do"} -> Pos(p, "cond")
        [] Node(p).kind = "for" -> Pos(p, IF i = 1 THEN "cond" ELSE "post")
        [] OTHER -> Leave(p)

\* what is evaluated at a position, as an instruction evaluates it; "none"
\* where nothing is
Observed(p) ==
  LET kind == IF p.node = 0 THEN "none" ELSE Node(p.node).kind
      is(op) == [op |-> op, node |-> p.node]
  IN  CASE p.stage = "end"                                  -> is("ret")
        [] p.stage = "enter" /\ kind \in {"expr", "switch"} -> is("run")
        [] p.stage = "enter" /\ kind = "return"             -> is("ret")
        [] p.stage = "enter" /\ kind = "if"                 -> is("br")
        [] p.stage = "table"                                -> is("table")
        [] p.stage = "post" /\ "post" \in Node(p.node).opts -> is("post")
        [] p.stage = "cond" /\ (kind = "for" => "cond" \in Node(p.node).opts) -> is("br")
        [] OTHER                                            -> [op |-> "none"]

\* the next position after entering a statement that evaluates nothing itself
Begun(n) ==
  LET kind == Node(n).kind
  IN  CASE kind = "decl" \/ (kind = "compound" /\ Node(n).kids = <<>>) -> Leave(n)
        [] kind = "while"    -> Pos(n, "cond")
        [] kind = "break"    -> Leave(Innermost(n, Breakable))
        [] kind = "continue" -> NextInLoop(Innermost(n, LoopKinds))
        [] kind = "goto"     -> Enter(LabelNode(n))
        [] OTHER             -> Enter(Kid(n, 1))

\* the next position where nothing is evaluated
Silently(p) ==
  LET n == p.node
  IN  CASE p.stage = "done" ->
             IF Parent(n) = 0 THEN Pos(0, "end") ELSE AfterKid(n, Parent(n))
        [] p.stage = "cond" -> Enter(LastKid(n))       \* for (;;)
        [] p.stage = "post" -> Pos(n, "cond")
        [] OTHER            -> Begun(n)

\* the next position after an evaluation that gave v (0 is false)
Evaluated(p, v) ==
  LET n         == p.node
      enter(kind) == p.stage = "enter" /\ Node(n).kind = kind
  IN  CASE p.stage = "table" -> Selected(n, v)
        [] p.stage = "post"  -> Pos(n, "cond")
        [] p.stage = "cond"  -> IF v # 0 THEN Enter(LastKid(n)) ELSE Leave(n)
        [] enter("if") ->
             IF v # 0 THEN Enter(Kid(n, 1))
             ELSE IF Len(Node(n).kids) = 2 THEN Enter(Kid(n, 2)) ELSE Leave(n)
        [] enter("switch") -> Pos(n, "table")
        [] OTHER -> Leave(n)

Values(p) ==
  CASE p.stage = "table" -> {0} \cup {Node(c).val : c \in Entries(p.node, "case")}
    [] Observed(p).op = "br" -> {0, 1}
    [] OTHER -> {0}

-----------------------------------------------------------------------------
(* The code.                                                                *)

Instruction == out[pc.fn][pc.blk][pc.idx]
Goes(blk)   == [pc EXCEPT !.blk = blk, !.idx = 1]

CodeAfter(ins, v) ==
  CASE ins.op = "br"    -> Goes(ins.to[IF v # 0 THEN 1 ELSE 2])
    [] ins.op = "table" -> Goes(IF v \in Vals /\ ins.cases[v] # 0 THEN ins.cases[v] ELSE ins.to[1])
    [] OTHER            -> [pc EXCEPT !.idx = @ + 1]

-----------------------------------------------------------------------------

SInit ==
  /\ Init
  /\ at = Idle
  /\ pc = [fn |-> 0, blk |-> 1, idx |-> 1]
  /\ shared = FALSE

\* the compiler at work
Lower ==
  /\ Step
  /\ shared' = (shared \/ /\ switches' # switches /\ Len(switches') = Len(switches)
                          /\ ~b.filled /\ b.code[b.cur] # <<>>)
  /\ UNCHANGED <<at, pc>>

Call ==
  /\ Compiled /\ at = Idle
  /\ \E f \in DOMAIN prog.fns :
       /\ at' = Enter(prog.fns[f].body)
       /\ pc' = [pc EXCEPT !.fn = f]
  /\ UNCHANGED <<vars, shared>>

Executing == Compiled /\ at # Idle /\ at.stage # "returned"

SourceStep ==
  /\ Executing /\ Observed(at).op = "none"
  /\ at' = Silently(at)
  /\ UNCHANGED <<vars, pc, shared>>

CodeStep ==
  /\ Executing /\ Observed(at).op # "none"
  /\ Instruction.op = "jump"
  /\ pc' = Goes(Instruction.to[1])
  /\ UNCHANGED <<vars, at, shared>>

Meeting == Executing /\ Observed(at).op # "none" /\ Instruction.op # "jump"
Match   == Observed(at) = [op |-> Instruction.op, node |-> Instruction.node]

Evaluate ==
  /\ Meeting /\ Match
  /\ IF Observed(at).op = "ret"
     THEN at' = [at EXCEPT !.stage = "returned"] /\ UNCHANGED pc
     ELSE \E v \in Values(at) :
            /\ at' = Evaluated(at, v)
            /\ pc' = CodeAfter(Instruction, v)
  /\ UNCHANGED <<vars, shared>>

\* the program was refused, or has returned, or the two have parted
Rest ==
  /\ err # "none" \/ at.stage = "returned" \/ (Meeting /\ ~Match)
  /\ UNCHANGED svars

SNext == Lower \/ Call \/ SourceStep \/ CodeStep \/ Evaluate \/ Rest

SSpec == SInit /\ [][SNext]_svars

\* the compiler runs until it returns, and so does compiled code
SFairSpec == SSpec /\ WF_svars(SNext)

-----------------------------------------------------------------------------
(* Properties.                                                              *)

\* a continue whose loop is a while or a for
SkippingContinue ==
  \E n \in DOMAIN prog.node :
    /\ Node(n).kind = "continue"
    /\ Around(n, LoopKinds) # {}
    /\ Node(Innermost(n, LoopKinds)).kind # "do"

Agrees == Meeting => Match

\* Every accepted function runs as its statements say, along every path and
\* for every value of its conditions, but for the two known defects: a
\* continue in a while or for, and a case that shares its block with the code
\* before it.
CodeFollowsSource == SkippingContinue \/ shared \/ Agrees

\* The code never loops without evaluating anything while its statements have
\* something to evaluate.
CodeArrives ==
  (Executing /\ Observed(at).op # "none") ~> (SkippingContinue \/ shared \/ Meeting)

\* analyze/stmt.rs:83 builds "6.8.6.2 The continue statement", and loop_exit
\* (codegen/stmt.rs:317) calls the block it jumps to loop_start: the next thing
\* evaluated is the condition of the loop, or the last expression of a for.
ContinueFollowsStandard == shared \/ Agrees

=============================================================================
