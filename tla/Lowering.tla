------------------------------ MODULE Lowering ------------------------------
(***************************************************************************)
(* The statement compiler of src/src/codegen/stmt.rs together with         *)
(* compile_func and the function loop of compile in codegen/mod.rs: it     *)
(* walks the statements of each function and appends instructions to the   *)
(* basic blocks of a Cranelift FunctionBuilder.                            *)
(*                                                                         *)
(* The Rust recursion is an explicit stack of tasks: a task is either a    *)
(* statement still to be compiled or what a caller does after a recursive  *)
(* call returns, with the local variables that call kept.  A program is a  *)
(* table of statement nodes; the value of an expression, and the           *)
(* instructions that compute it, are one instruction that names the node.  *)
(***************************************************************************)
EXTENDS Naturals, Sequences, FiniteSets

CONSTANT Programs  \* the programs a behaviour may compile

Leaves     == {"expr", "decl", "return", "break", "continue", "goto"}
Unary      == {"while", "do", "switch", "case", "default", "label"}
Kinds      == Leaves \cup Unary \cup {"compound", "if", "for"}
Opts       == {"cond", "post"}         \* the optional parts a "for" has
ReturnKind == {"void", "value", "main"}

Arity(kind) == CASE kind \in Leaves    -> {0}
                 [] kind \in Unary     -> {1}
                 [] kind = "if"        -> {1, 2}
                 [] kind = "for"       -> {2}   \* <<init, body>>
                 [] kind = "compound"  -> Nat

IsKid(table, k, n) == \E i \in DOMAIN table[n].kids : table[n].kids[i] = k

\* Nodes are numbered in source order: a node, then the subtrees of its kids,
\* one after the other.
InSourceOrder(table, n) ==
  \A i \in DOMAIN table[n].kids :
    /\ table[n].kids[i] > n
    /\ \A j \in DOMAIN table[n].kids : j < i => table[n].kids[j] < table[n].kids[i]
    /\ \A k \in n + 1..table[n].kids[i] - 1 : \E m \in n..k - 1 : IsKid(table, k, m)

NodeOK(table, n) ==
  /\ table[n].kind \in Kinds
  /\ table[n].kids \in Seq(DOMAIN table)
  /\ Len(table[n].kids) \in Arity(table[n].kind)
  /\ InSourceOrder(table, n)
  /\ table[n].val \in Nat
  /\ table[n].opts \subseteq Opts
  /\ table[n].kind = "for" => table[table[n].kids[1]].kind \in {"expr", "decl"}

\* A statement has one owner (a Box or a Vec of Stmt), or is the body of a function,
\* and there are no others.
Owned(p) ==
  /\ \A k, m, n \in DOMAIN p.node : IsKid(p.node, k, m) /\ IsKid(p.node, k, n) => m = n
  /\ \A f \in DOMAIN p.fns : \A n \in DOMAIN p.node : ~IsKid(p.node, p.fns[f].body, n)
  /\ \A k \in DOMAIN p.node : \/ \E n \in DOMAIN p.node : IsKid(p.node, k, n)
                              \/ \E f \in DOMAIN p.fns : p.fns[f].body = k

\* A program: a table of nodes and the functions, each a body and a kind of
\* result ("main" returns 0 when it falls off its end).
ProgramOK(p) ==
  /\ DOMAIN p.node = 1..Len(p.node)
  /\ \A n \in DOMAIN p.node : NodeOK(p.node, n)
  /\ p.fns \in Seq([body : DOMAIN p.node, ret : ReturnKind])
  /\ Owned(p)

ASSUME ProgramsAssumption == \A p \in Programs : ProgramOK(p)

Errors == {"UnreachableStatement", "CaseOutsideSwitch", "DuplicateCase",
           "LabelRedeclaration", "UndeclaredLabel", "NotInLoopOrSwitch",
           "ContinueNotInLoop", "MissingReturn", "PanicNotInSwitch"}

VARIABLES
  prog,      \* the program being compiled
  next,      \* the function compile() takes next
  todo,      \* the call stack, innermost task first
  b,         \* FunctionBuilder and current_block_state
  loops,     \* Compiler.loops: <<block continue jumps to, block break jumps to>>
  switches,  \* Compiler.switches
  sawLoop,   \* Compiler.last_saw_loop
  labels,    \* Compiler.labels
  out,       \* the finished functions, in order
  err        \* the error that stopped compile(), or "none"

vars == <<prog, next, todo, b, loops, switches, sawLoop, labels, out, err>>

-----------------------------------------------------------------------------
(* Instructions.  "run" stands for the straight-line code of an expression, *)
(* "br" for a brif on a condition, "table" for what Switch::emit produces.  *)

Node(n) == prog.node[n]

\* The HashMaps from case values and label names to blocks; 0 is no block.
Vals     == {Node(n).val : n \in DOMAIN prog.node}
NoBlocks == [v \in Vals |-> 0]

Instr(op, n, to, cases) == [op |-> op, node |-> n, to |-> to, cases |-> cases]

Run(n)         == Instr("run",  n, <<>>, NoBlocks)
Post(n)        == Instr("post", n, <<>>, NoBlocks)
Br(n, yes, no) == Instr("br",   n, <<yes, no>>, NoBlocks)
Jump(target)   == Instr("jump", 0, <<target>>, NoBlocks)
Ret(n)         == Instr("ret",  n, <<>>, NoBlocks)
Table(n, cases, default) == Instr("table", n, <<default>>, cases)

Terminates(ins) == ins.op \in {"br", "jump", "ret", "table"}

(* The builder: code[k] is the code of block k, cur the block instructions  *)
(* go to, filled is current_block_state = BlockState::Filled.               *)

EmptyBuilder == [code |-> <<<<>>>>, cur |-> 1, filled |-> FALSE]

Fresh(bl, i) == Len(bl.code) + i     \* the i-th block created from here

CreateOneLess(bl, count) ==       \* seeded defect: a block is missing
  [bl EXCEPT !.code = @ \o [i \in 1..count - 1 |-> <<>>]]

CreateBlocks(bl, count) ==
  [bl EXCEPT !.code = @ \o [i \in 1..count |-> <<>>]]

Ins(bl, ins) == [bl EXCEPT !.code[bl.cur] = Append(@, ins)]

JumpToBlock(bl, target) ==
  IF bl.filled THEN bl ELSE [Ins(bl, Jump(target)) EXCEPT !.filled = TRUE]

SwitchToBlock(bl, target) == [bl EXCEPT !.cur = target, !.filled = FALSE]

-----------------------------------------------------------------------------
(* Tasks.                                                                   *)

Task(op, n, blk, flag) == [op |-> op, node |-> n, blk |-> blk, flag |-> flag]
Stmt(n)                == Task("stmt", n, <<>>, FALSE)

Kid(n, i)       == Node(n).kids[i]
JumpTargetKinds == {"case", "default", "label"}       \* is_jump_target

Running  == err = "none" /\ todo # <<>>
Top      == Head(todo)
At(op)   == Running /\ Top.op = op

ReachableAlways(kind) == TRUE     \* seeded defect: no check for dead code
Reachable(kind) == ~b.filled \/ kind \in JumpTargetKinds

\* compile_stmt is called on a statement of this kind and passes its check
Compiling(kind) == At("stmt") /\ Node(Top.node).kind = kind /\ Reachable(kind)

Push(tasks) == todo' = tasks \o Tail(todo)
Pop         == todo' = Tail(todo)

FailSilently(reason) ==           \* seeded defect: the error is lost
  UNCHANGED <<prog, next, todo, loops, switches, sawLoop, labels, out, err>>

Fail(reason) ==
  /\ err' = reason
  /\ UNCHANGED <<prog, next, todo, loops, switches, sawLoop, labels, out>>

\* what most operations leave alone
Frame   == UNCHANGED <<prog, next, out, err>>
Context == <<loops, switches, sawLoop>>

-----------------------------------------------------------------------------
(* compile_func and the loop of compile.                                    *)

Init ==
  /\ prog \in Programs
  /\ next = 1
  /\ todo = <<>>
  /\ b = EmptyBuilder
  /\ loops = <<>> /\ switches = <<>> /\ sawLoop = TRUE
  /\ labels = NoBlocks
  /\ out = <<>>
  /\ err = "none"

BeginFunction ==
  /\ err = "none" /\ todo = <<>> /\ next <= Len(prog.fns)
  /\ b' = EmptyBuilder
  /\ todo' = <<Stmt(prog.fns[next].body), Task("endFunction", next, <<>>, FALSE)>>
  /\ UNCHANGED <<prog, next, loops, switches, sawLoop, labels, out, err>>

NoReturnAdded  == b               \* seeded defect: a block is left open
ReturnAtTheEnd == IF b.filled THEN b ELSE Ins(b, Ret(0))

EndFunction ==
  /\ At("endFunction")
  /\ \/ /\ ~b.filled /\ prog.fns[Top.node].ret = "value"
        /\ Fail("MissingReturn") /\ UNCHANGED b
     \/ /\ b.filled \/ prog.fns[Top.node].ret # "value"
        /\ b' = ReturnAtTheEnd
        /\ out' = Append(out, b'.code)
        /\ next' = next + 1
        /\ Pop
        /\ UNCHANGED <<prog, loops, switches, sawLoop, labels, err>>

-----------------------------------------------------------------------------
(* Statements that call no other part of the statement compiler.            *)

Unreachable ==
  /\ \/ At("stmt") /\ ~Reachable(Node(Top.node).kind)
     \/ At("post") /\ b.filled
  /\ Fail("UnreachableStatement") /\ UNCHANGED b

Compound ==
  /\ Compiling("compound")
  /\ Push([i \in DOMAIN Node(Top.node).kids |-> Stmt(Kid(Top.node, i))])
  /\ UNCHANGED <<b, labels, Context>> /\ Frame

\* an expression statement, or a declaration with an initialiser
Expression ==
  /\ \/ Compiling("expr") /\ b' = Ins(b, Run(Top.node))
     \/ At("post") /\ ~b.filled /\ b' = Ins(b, Post(Top.node))
  /\ Pop
  /\ UNCHANGED <<labels, Context>> /\ Frame

\* a declaration without an initialiser reserves a stack slot, no code
DeclareStack ==
  /\ Compiling("decl")
  /\ Pop
  /\ UNCHANGED <<b, labels, Context>> /\ Frame

Return ==
  /\ Compiling("return")
  /\ b' = [Ins(b, Ret(Top.node)) EXCEPT !.filled = TRUE]
  /\ Pop
  /\ UNCHANGED <<labels, Context>> /\ Frame

-----------------------------------------------------------------------------
(* if_stmt: blocks are created in the order if_body, end_body, else_body.   *)

If ==
  /\ Compiling("if")
  /\ LET n    == Top.node
         body == Fresh(b, 1)
         end  == Fresh(b, 2)
         els  == Fresh(b, 3)
     IN  \/ /\ Len(Node(n).kids) = 1
            /\ b' = SwitchToBlock(Ins(CreateBlocks(b, 2), Br(n, body, end)), body)
            /\ Push(<<Stmt(Kid(n, 1)), Task("endIf", n, <<end>>, FALSE)>>)
         \/ /\ Len(Node(n).kids) = 2
            /\ b' = SwitchToBlock(Ins(CreateBlocks(b, 3), Br(n, body, els)), body)
            /\ Push(<<Stmt(Kid(n, 1)), Task("else", n, <<els, end>>, FALSE)>>)
  /\ UNCHANGED <<labels, Context>> /\ Frame

EndIf ==
  /\ At("endIf")
  /\ LET end == Top.blk[1] IN b' = SwitchToBlock(JumpToBlock(b, end), end)
  /\ Pop
  /\ UNCHANGED <<labels, Context>> /\ Frame

IfAlwaysReturns == TRUE           \* seeded defect: end_body is never opened
IfHasReturn     == b.filled

Else ==
  /\ At("else")
  /\ LET els == Top.blk[1]
         end == Top.blk[2]
     IN  /\ b' = SwitchToBlock(JumpToBlock(b, end), els)
         /\ Push(<<Stmt(Kid(Top.node, 2)),
                   Task("endElse", Top.node, <<end>>, IfHasReturn)>>)
  /\ UNCHANGED <<labels, Context>> /\ Frame

EndElse ==
  /\ At("endElse")
  /\ LET end == Top.blk[1]
     IN  b' = IF ~b.filled THEN SwitchToBlock(JumpToBlock(b, end), end)
              ELSE IF ~Top.flag THEN SwitchToBlock(b, end)
              ELSE b
  /\ Pop
  /\ UNCHANGED <<labels, Context>> /\ Frame

-----------------------------------------------------------------------------
(* Loops.  enter_loop creates header_body, loop_body and end_body, pushes   *)
(* (loop_body, end_body) and switches to header_body.                       *)

Header(bl) == Fresh(bl, 1)
Body(bl)   == Fresh(bl, 2)
End(bl)    == Fresh(bl, 3)

EnterLoop ==
  /\ loops' = Append(loops, <<Body(b), End(b)>>)
  /\ sawLoop' = TRUE
  /\ UNCHANGED switches

Entered == SwitchToBlock(Ins(CreateBlocks(b, 3), Jump(Header(b))), Header(b))

ExitLoopKept(old) ==              \* seeded defect: the loop is not popped
  sawLoop' = old /\ UNCHANGED <<loops, switches>>

ExitLoopFlag(old) ==              \* seeded defect: the flag is not restored
  /\ loops' = SubSeq(loops, 1, Len(loops) - 1)
  /\ UNCHANGED <<sawLoop, switches>>

ExitLoop(old) ==
  /\ loops' = SubSeq(loops, 1, Len(loops) - 1)
  /\ sawLoop' = old
  /\ UNCHANGED switches

\* for_loop: the init statement, then while_stmt with post_loop appended to
\* the statements of the body
For ==
  /\ Compiling("for")
  /\ Push(<<Stmt(Kid(Top.node, 1)), Task("for", Top.node, <<>>, FALSE)>>)
  /\ UNCHANGED <<b, labels, Context>> /\ Frame

LoopBody(n) ==
  IF Node(n).kind = "while" THEN <<Stmt(Kid(n, 1))>>
  ELSE IF "post" \in Node(n).opts
  THEN <<Stmt(Kid(n, 2)), Task("post", n, <<>>, FALSE)>>
  ELSE <<Stmt(Kid(n, 2))>>

ForCondition(n) == "cond" \in Node(n).opts     \* seeded defect: while (c) is while (1)
HasCondition(n) == Node(n).kind = "while" \/ "cond" \in Node(n).opts

While ==
  /\ Compiling("while") \/ At("for")
  /\ LET n    == Top.node
         test == IF HasCondition(n) THEN Ins(Entered, Br(n, Body(b), End(b)))
                         ELSE JumpToBlock(Entered, Body(b))
     IN  /\ b' = SwitchToBlock(test, Body(b))
         /\ Push(LoopBody(n) \o
                 <<Task("endWhile", n, <<Header(b), End(b)>>, sawLoop)>>)
  /\ EnterLoop
  /\ UNCHANGED labels /\ Frame

EndWhile ==
  /\ At("endWhile")
  /\ b' = SwitchToBlock(JumpToBlock(b, Top.blk[1]), Top.blk[2])
  /\ ExitLoop(Top.flag)
  /\ Pop
  /\ UNCHANGED labels /\ Frame

Do ==
  /\ Compiling("do")
  /\ b' = Entered
  /\ EnterLoop
  /\ Push(<<Stmt(Kid(Top.node, 1)),
            Task("endDo", Top.node, <<Header(b), Body(b), End(b)>>, sawLoop)>>)
  /\ UNCHANGED labels /\ Frame

EndDo ==
  /\ At("endDo")
  /\ \/ /\ b.filled
        /\ Fail("UnreachableStatement") /\ UNCHANGED b
     \/ /\ ~b.filled
        /\ LET header == Top.blk[1]
               test   == Top.blk[2]
               end    == Top.blk[3]
               bottom == SwitchToBlock(JumpToBlock(b, test), test)
           IN  b' = SwitchToBlock(Ins(bottom, Br(Top.node, header, end)), end)
        /\ ExitLoop(Top.flag)
        /\ Pop
        /\ UNCHANGED labels /\ Frame

-----------------------------------------------------------------------------
(* switch, case and default.  The body is compiled first, into start_block; *)
(* the table goes to dummy_block afterwards.                                *)

EnterAsLoop(end) ==               \* seeded defect: the flag is not cleared
  /\ switches' = Append(switches, [cases |-> NoBlocks, default |-> 0, end |-> end])
  /\ UNCHANGED <<loops, sawLoop>>

EnterSwitch(end) ==
  /\ switches' = Append(switches, [cases |-> NoBlocks, default |-> 0, end |-> end])
  /\ sawLoop' = FALSE
  /\ UNCHANGED loops

ExitSwitch(old) ==
  /\ switches' = SubSeq(switches, 1, Len(switches) - 1)
  /\ sawLoop' = old
  /\ UNCHANGED loops

Switch ==
  /\ Compiling("switch")
  /\ LET dummy == Fresh(b, 1)
         start == Fresh(b, 2)
         end   == Fresh(b, 3)
     IN  /\ b' = SwitchToBlock(JumpToBlock(Ins(CreateBlocks(b, 3), Run(Top.node)),
                                           dummy), start)
         /\ EnterSwitch(end)
         /\ Push(<<Stmt(Kid(Top.node, 1)),
                   Task("endSwitch", Top.node, <<dummy>>, sawLoop)>>)
  /\ UNCHANGED labels /\ Frame

LastSwitch == switches[Len(switches)]

EndSwitch ==
  /\ At("endSwitch")
  /\ LET end    == LastSwitch.end
         other  == IF LastSwitch.default # 0 THEN LastSwitch.default ELSE end
         atTop  == SwitchToBlock(JumpToBlock(b, end), Top.blk[1])
     IN  b' = SwitchToBlock(Ins(atTop, Table(Top.node, LastSwitch.cases, other)), end)
  /\ ExitSwitch(Top.flag)
  /\ Pop
  /\ UNCHANGED labels /\ Frame

\* Both case and default take the current block when the state is Empty and
\* a new one otherwise.
CurrentBlock == b.cur             \* seeded defect: the new block is not recorded
EntryBlock   == IF b.filled THEN Fresh(b, 1) ELSE b.cur

AtEntry ==
  IF b.filled
  THEN SwitchToBlock(JumpToBlock(CreateBlocks(b, 1), Fresh(b, 1)), Fresh(b, 1))
  ELSE b

SetSwitch(s) == switches' = [switches EXCEPT ![Len(switches)] = s]

Case ==
  /\ Compiling("case")
  /\ LET v == Node(Top.node).val
     IN  \/ switches = <<>> /\ Fail("CaseOutsideSwitch") /\ UNCHANGED b
         \/ /\ switches # <<>> /\ LastSwitch.cases[v] # 0
            /\ Fail("DuplicateCase") /\ UNCHANGED b
         \/ /\ switches # <<>> /\ LastSwitch.cases[v] = 0
            /\ SetSwitch([LastSwitch EXCEPT !.cases[v] = EntryBlock])
            /\ b' = AtEntry
            /\ Push(<<Stmt(Kid(Top.node, 1))>>)
            /\ UNCHANGED <<labels, loops, sawLoop>> /\ Frame

Default ==
  /\ Compiling("default")
  /\ \/ switches = <<>> /\ Fail("CaseOutsideSwitch") /\ UNCHANGED b
     \/ /\ switches # <<>> /\ LastSwitch.default # 0
        /\ Fail("DuplicateCase") /\ UNCHANGED b
     \/ /\ switches # <<>> /\ LastSwitch.default = 0
        /\ SetSwitch([LastSwitch EXCEPT !.default = EntryBlock])
        /\ b' = AtEntry
        /\ Push(<<Stmt(Kid(Top.node, 1))>>)
        /\ UNCHANGED <<labels, loops, sawLoop>> /\ Frame

-----------------------------------------------------------------------------
(* Labels and jumps.                                                        *)

BindCurrent(name, blk) ==         \* seeded defect: the block before the label
  labels' = [labels EXCEPT ![name] = b.cur]

Bind(name, blk) == labels' = [labels EXCEPT ![name] = blk]

\* the new block is opened and the name bound before the redeclaration is seen
Label ==
  /\ Compiling("label")
  /\ LET name == Node(Top.node).val
         blk  == Fresh(b, 1)
     IN  /\ b' = SwitchToBlock(JumpToBlock(CreateBlocks(b, 1), blk), blk)
         /\ Bind(name, blk)
         /\ \/ /\ labels[name] # 0
               /\ err' = "LabelRedeclaration"
               /\ UNCHANGED todo
            \/ /\ labels[name] = 0
               /\ Push(<<Stmt(Kid(Top.node, 1))>>)
               /\ UNCHANGED err
  /\ UNCHANGED <<prog, next, out, Context>>

Goto ==
  /\ Compiling("goto")
  /\ LET name == Node(Top.node).val
     IN  \/ /\ labels[name] = 0
            /\ Fail("UndeclaredLabel") /\ UNCHANGED b
         \/ /\ labels[name] # 0
            /\ b' = JumpToBlock(b, labels[name])
            /\ Pop
            /\ UNCHANGED <<labels, Context>> /\ Frame

\* loop_exit: the block break or continue jumps to, or the reason there is none
ExitTarget(kind) ==
  IF sawLoop
  THEN IF loops = <<>> THEN [error |-> "NotInLoopOrSwitch"]
       ELSE [block |-> loops[Len(loops)][IF kind = "break" THEN 2 ELSE 1]]
  ELSE IF kind = "continue" THEN [error |-> "ContinueNotInLoop"]
  ELSE IF switches = <<>> THEN [error |-> "PanicNotInSwitch"]
  ELSE [block |-> LastSwitch.end]

LoopExit ==
  \E kind \in {"break", "continue"} :
    /\ Compiling(kind)
    /\ LET target == ExitTarget(kind)
       IN  \/ /\ "error" \in DOMAIN target
              /\ Fail(target.error) /\ UNCHANGED b
           \/ /\ "block" \in DOMAIN target
              /\ b' = JumpToBlock(b, target.block)
              /\ Pop
              /\ UNCHANGED <<labels, Context>> /\ Frame

-----------------------------------------------------------------------------

Compiled == err = "none" /\ todo = <<>> /\ next > Len(prog.fns)
Stopped  == err # "none" \/ Compiled

Step ==
  \/ BeginFunction \/ EndFunction
  \/ Unreachable \/ Compound \/ Expression \/ DeclareStack \/ Return
  \/ If \/ EndIf \/ Else \/ EndElse
  \/ For \/ While \/ EndWhile \/ Do \/ EndDo
  \/ Switch \/ EndSwitch \/ Case \/ Default
  \/ Label \/ Goto \/ LoopExit

\* compile() has returned
Done == Stopped /\ UNCHANGED vars

Next == Step \/ Done

Spec == Init /\ [][Next]_vars

\* compile() is one sequential call: it runs until it returns
FairSpec == Spec /\ WF_vars(Step)

-----------------------------------------------------------------------------
(* Properties.                                                              *)

Block   == Nat \ {0}
TaskOps == {"stmt", "post", "for", "endIf", "else", "endElse", "endWhile",
            "endDo", "endSwitch", "endFunction"}
Ops     == {"run", "post", "br", "jump", "ret", "table"}

Maps    == [Vals -> Nat]
Code  == Seq(Seq([op : Ops, node : Nat, to : Seq(Block), cases : Maps]))
Tasks == [op : TaskOps, node : Nat, blk : Seq(Block), flag : BOOLEAN]

\* Every variable holds what its Rust field can hold.
TypeOK ==
  /\ next \in Nat
  /\ todo \in Seq(Tasks)
  /\ b \in [code : Code, cur : Block, filled : BOOLEAN] /\ b.cur <= Len(b.code)
  /\ loops \in Seq(Block \X Block)
  /\ switches \in Seq([cases : Maps, default : Nat, end : Block])
  /\ sawLoop \in BOOLEAN
  /\ labels \in Maps
  /\ out \in Seq(Code)
  /\ err \in Errors \cup {"none"}

Ended(code) == code # <<>> /\ Terminates(code[Len(code)])

\* current_block_state says what the builder holds: it is Filled exactly when
\* the current block has its terminator, and no path through the statement
\* compiler puts an instruction after a terminator (Cranelift refuses one).
BlockStateTracksBuilder ==
  /\ todo # <<>> => (b.filled <=> Ended(b.code[b.cur]))
  /\ \A k \in DOMAIN b.code : \A i \in 1..Len(b.code[k]) - 1 :
        ~Terminates(b.code[k][i])

Targets(ins) ==
  {ins.to[i] : i \in DOMAIN ins.to} \cup ({ins.cases[v] : v \in Vals} \ {0})

\* compile_func panics when codegen::verify_function refuses a function.  It
\* accepts every function that reaches it: each block that has code ends in a
\* terminator, and each target of a jump is a block of this function with code.
VerifierAccepts ==
  \A f \in DOMAIN out : \A k \in DOMAIN out[f] :
    /\ out[f][k] # <<>> => Ended(out[f][k])
    /\ \A i \in DOMAIN out[f][k] : \A t \in Targets(out[f][k][i]) :
          t \in DOMAIN out[f] /\ out[f][t] # <<>>

LoopTasks == {"endWhile", "endDo"}
IsOpen(t) == t.op \in LoopTasks \cup {"endSwitch"}

\* the task at height h of the call stack s, the function itself at height 1
Caller(s, h)   == s[Len(s) + 1 - h]
OpenAt(s, ops) == {h \in 1..Len(s) : Caller(s, h).op \in ops}
OpenLoops      == OpenAt(todo, LoopTasks)
OpenSwitches   == OpenAt(todo, {"endSwitch"})

\* The context stacks mirror the loops and switches that are being compiled:
\* last_saw_loop tells what the innermost one is, each entry of loops ends
\* where its loop ends, and nothing is left open after a function, whatever
\* the nesting and whichever error path was not taken.
ContextMatchesNesting ==
  err = "none" =>
    /\ sawLoop = (\A s \in OpenSwitches : \E l \in OpenLoops : l > s)
    /\ Len(loops) = Cardinality(OpenLoops)
    /\ Len(switches) = Cardinality(OpenSwitches)
    /\ \A h \in OpenLoops :
         LET task == Caller(todo, h)
         IN  loops[Cardinality({l \in OpenLoops : l <= h})][2] = task.blk[Len(task.blk)]

\* A break finds the switch it leaves: the expect("should be in a switch if
\* last_saw_loop is false") of loop_exit never fails, after any sequence of
\* loops and switches, nested or one after the other.
BreakFindsSwitch == ~sawLoop => switches # <<>>

\* the nodes of the given kinds around n in the source: every node from the
\* first of its subtree up to n has its parent in the subtree
Around(n, kinds) ==
  {m \in DOMAIN prog.node :
     /\ m < n /\ Node(m).kind \in kinds
     /\ \A k \in m + 1..n : \E j \in m..k - 1 : IsKid(prog.node, k, j)}

Breakable == {"while", "for", "do", "switch"}

\* break is rejected exactly when no loop or switch of the source is around
\* it in the function.
BreakScope ==
  Compiling("break") =>
    ("block" \in DOMAIN ExitTarget("break")) = (Around(Top.node, Breakable) # {})

\* compile returns for every program.
Returns == <>Stopped

=============================================================================
