---------------------------- MODULE Declarations ----------------------------
(***************************************************************************)
(* The declarations of one identifier x, from the source to the object     *)
(* file: declare, parse_declaration and FunctionAnalyzer of                *)
(* parser/analyze/mod.rs put them in scopes and accept or reject them; if  *)
(* all are accepted, compile of codegen/mod.rs declares and defines x in   *)
(* the Cranelift module (declare_func, store_static) and on the stack of   *)
(* functions (declare_stack).                                              *)
(*                                                                         *)
(* The source is chosen item by item: declarations of x in the file and in *)
(* blocks, definitions of x as a function and of other functions, uses of  *)
(* x.  x is not a typedef name here.  std says what C11 6.2.1, 6.2.2, 6.7  *)
(* and 6.9 say about the same source.                                      *)
(***************************************************************************)
EXTENDS Naturals, Sequences

CONSTANTS
  FileDecls,    \* the declarations of x a source may have at file scope
  BodyDecls,    \* and in a function
  Definitions,  \* the function definitions of x
  MaxItems      \* bound on the items of a source

Classes  == {"none", "auto", "register", "static", "extern"}
Types    == {"t", "u", "unprototyped"}   \* int x() is unprototyped
Declared ==
  [form : {"object"}, class : Classes, type : {"t", "u"}, init : BOOLEAN] \cup
  [form : {"function"}, class : Classes, type : Types, init : {FALSE}]

ASSUME DeclarationsAssumption ==
  /\ FileDecls \subseteq Declared
  /\ BodyDecls \subseteq Declared
  /\ Definitions \subseteq [class : Classes, type : Types]
  /\ MaxItems \in Nat

VARIABLES
  phase,        \* "read", "compile" or "done"
  items,        \* how many items have been read
  store,        \* the Variables; a Symbol is an index in this table
  scope,        \* Analyzer.scope: the symbol of x in each scope, or 0
  initialized,  \* Analyzer.initialized
  hir,          \* what the backend does, in order
  std,          \* the standard's view of the source
  pos,          \* how much of hir has been compiled
  function,     \* the function being compiled: where it begins in hir
  module,       \* x in the Cranelift module
  ids,          \* Compiler.declarations
  result        \* how compile() ended: outcome, reason

front == <<store, scope, initialized, hir>>
back  == <<pos, function, module, ids>>
vars  == <<phase, items, front, std, back, result>>

Finished(outcome, reason) == [outcome |-> outcome, reason |-> reason]
Pending == Finished("none", "none")

-----------------------------------------------------------------------------
(* What the standard says: env holds, for each open scope, what x denotes:  *)
(* <<>> nothing, <<0>> the x with linkage, <<s>> the local object declared  *)
(* as symbol s.                                                             *)

Nothing == <<>>
Linked  == <<0>>

Visible(env) ==
  LET in == {i \in DOMAIN env : env[i] # Nothing}
  IN  IF in = {} THEN Nothing ELSE env[CHOOSE i \in in : \A j \in in : j <= i]

AtFile(env) == Len(env) = 1

\* 6.2.2: a declaration of x that declares no local object gives it linkage
IsLocal(d, env) ==
  ~AtFile(env) /\ d.form = "object" /\ d.class # "extern"

LinkageOf(d, env) ==
  IF d.class = "static" THEN "internal"
  ELSE IF d.form = "object" /\ d.class # "extern" THEN "external"
  ELSE IF Visible(env) = Linked THEN std.linkage ELSE "external"

Faults == {"class", "duplicate", "linkage", "form", "type", "redefinition"}

BadClass(d, env) ==
  \/ d.class \in {"auto", "register"} /\ (d.form = "function" \/ AtFile(env))
  \/ d.class = "static" /\ d.form = "function" /\ ~AtFile(env)
  \/ d.class = "extern" /\ d.init /\ ~AtFile(env)

Defines(d, def) == def \/ (AtFile(std.env) /\ d.init)

\* 6.7 and 6.9: what is wrong with a declaration, a function definition if def
Wrong(d, def) ==
  LET env    == std.env
      here   == env[Len(env)]
      linked == ~IsLocal(d, env)
  IN  {w \in Faults :
         \/ w = "class" /\ BadClass(d, env)
         \/ w = "duplicate" /\ here # Nothing /\ ~(linked /\ here = Linked)
         \/ linked /\ \/ w = "linkage" /\ std.linkage \notin {"none", LinkageOf(d, env)}
                      \/ w = "form" /\ std.form \notin {"none", d.form}
                      \/ w = "type" /\ {"t", "u"} \subseteq std.types \cup {d.type}
                      \/ w = "redefinition" /\ Defines(d, def) /\ std.defined}

SetLast(s, v) == [s EXCEPT ![Len(s)] = v]

StdDeclare(d, def) ==
  LET faults == [std EXCEPT !.faults = @ \cup Wrong(d, def)]
  IN  IF IsLocal(d, std.env)
      THEN [faults EXCEPT !.env = SetLast(@, <<Len(store) + 1>>)]
      ELSE [faults EXCEPT !.env       = SetLast(@, Linked),
                          !.linkage   = LinkageOf(d, std.env),
                          !.form      = d.form,
                          !.types     = @ \cup {d.type},
                          !.defined   = @ \/ Defines(d, def),
                          !.tentative = @ \/ (/\ AtFile(std.env) /\ d.form = "object"
                                              /\ d.class # "extern")]

-----------------------------------------------------------------------------
(* declare, and what its callers do with the storage class.                 *)

Storage(class) ==
  CASE class \in {"none", "auto"} -> "Auto"
    [] class = "register"         -> "Register"
    [] class = "static"           -> "Static"
    [] class = "extern"           -> "Extern"

Variable(form, sc, type) == [form |-> form, sc |-> sc, type |-> type]

\* PartialEq of FunctionType: without parameters it is equal to every other
SameType(v, w) ==
  /\ v.form = w.form
  /\ v.type = w.type \/ "unprototyped" \in {v.type, w.type}

OnlySame(old, new) ==             \* seeded defect: extern int x; int x;
  \/ SameType(old, new) /\ old.sc = new.sc
  \/ old.sc \in {"Static", "Auto"} /\ new.sc = "Extern"

MayFollow(old, new) ==
  \/ SameType(old, new) /\ old.sc = new.sc
  \/ old.sc \in {"Static", "Auto"} /\ new.sc = "Extern"
  \/ old.sc = "Extern" /\ new.sc # "Static"

IsGlobal == Len(scope) = 1

\* the error declare reports for a symbol that replaces old, 0 if none
DeclareError(old, new, init) ==
  IF old = 0 THEN "none"
  ELSE IF ~(IsGlobal /\ MayFollow(store[old], new)) THEN "IncompatibleRedeclaration"
  ELSE IF init /\ old \in initialized THEN "Redefinition"
  ELSE "none"

\* The first error decides: check_semantics returns Err whatever follows.
Reject(reason) ==
  /\ phase' = "done"
  /\ result' = Finished("error", reason)
  /\ UNCHANGED <<items, initialized, hir, back>>

Emit(events) == hir' = hir \o events
Event(op, sym, denotes) == [op |-> op, sym |-> sym, denotes |-> denotes]

Reading == phase = "read" /\ items < MaxItems

Accept == items' = items + 1 /\ UNCHANGED <<phase, back, result>>

Symbol == Len(store) + 1

\* scope.insert, at the end of declare
Insert(variable) ==
  /\ store' = Append(store, variable)
  /\ scope' = SetLast(scope, Symbol)

-----------------------------------------------------------------------------
(* The source.                                                              *)

\* parse_declaration of one declarator
Declare(d) ==
  LET sc    == IF d.class = "extern" /\ d.form = "object" /\ d.init THEN "Auto"
               ELSE Storage(d.class)
      new   == Variable(d.form, sc, d.type)
      error == IF d.class = "auto" /\ IsGlobal THEN "AutoAtGlobalScope"
               ELSE DeclareError(scope[Len(scope)], new, d.init)
  IN  /\ Reading
      /\ std' = StdDeclare(d, FALSE)
      /\ Insert(new)
      /\ \/ error # "none" /\ Reject(error)
         \/ /\ error = "none"
            /\ initialized' = initialized \cup (IF d.init THEN {Symbol} ELSE {})
            /\ Emit(<<Event(IF IsGlobal THEN "global" ELSE "local", Symbol, Nothing)>>)
            /\ Accept

DeclareInFile  == IsGlobal  /\ \E d \in FileDecls : Declare(d)
DeclareInBlock == ~IsGlobal /\ \E d \in BodyDecls : Declare(d)

WithScope(table, symbol) == Append(table, symbol)

\* The parameter is inserted in the scope of the body without declare.
Parameter(param, new) ==
  IF param THEN new \o <<Variable("object", "Auto", "t")>> ELSE new

\* FunctionAnalyzer::analyze up to the body, for x itself.  The insert that
\* follows the body inserts the same symbol again.
DefineX ==
  /\ Reading /\ IsGlobal
  /\ \E d \in Definitions, param \in BOOLEAN :
       LET sc    == IF d.class = "static" THEN "Static" ELSE "Extern"
           decl  == [form |-> "function", class |-> d.class, type |-> d.type, init |-> FALSE]
           new   == Variable("function", sc, d.type)
           seen  == StdDeclare(decl, TRUE)
           error == IF d.class \in {"auto", "register"} THEN "InvalidFuncStorageClass"
                    ELSE DeclareError(scope[1], new, TRUE)
       IN  \/ error # "none" /\ std' = seen /\ Insert(new) /\ Reject(error)
           \/ /\ error = "none"
              /\ store' = Parameter(param, Append(store, new))
              /\ scope' = WithScope(<<Symbol>>, IF param THEN Symbol + 1 ELSE 0)
              /\ std' = [seen EXCEPT !.env = @ \o <<IF param THEN <<Symbol + 1>> ELSE Nothing>>]
              /\ Emit(<<Event("function", Symbol, Nothing)>> \o
                      (IF param THEN <<Event("param", Symbol + 1, Nothing)>> ELSE <<>>))
              /\ UNCHANGED initialized
              /\ Accept

\* the same for a function of another name
DefineOther ==
  /\ Reading /\ IsGlobal
  /\ \E param \in BOOLEAN :
       /\ store' = Parameter(param, store)
       /\ scope' = WithScope(scope, IF param THEN Symbol ELSE 0)
       /\ std' = [std EXCEPT !.env = Append(@, IF param THEN <<Symbol>> ELSE Nothing)]
       /\ Emit(<<Event("function", 0, Nothing)>> \o
               (IF param THEN <<Event("param", Symbol, Nothing)>> ELSE <<>>))
       /\ UNCHANGED initialized
       /\ Accept

OpenBlock ==
  /\ Reading /\ ~IsGlobal
  /\ scope' = Append(scope, 0)
  /\ std' = [std EXCEPT !.env = Append(@, Nothing)]
  /\ UNCHANGED <<store, initialized, hir>>
  /\ Accept

Exit(table) == SubSeq(table, 1, Len(table) - 1)

\* the end of a block; of a function, when it was opened last
Close ==
  /\ phase = "read" /\ ~IsGlobal
  /\ scope' = Exit(scope)
  /\ std' = [std EXCEPT !.env = Exit(@)]
  /\ IF Len(std.env) = 2 THEN Emit(<<Event("end", 0, Nothing)>>) ELSE UNCHANGED hir
  /\ UNCHANGED <<phase, items, store, initialized, back, result>>

Holding == {i \in DOMAIN scope : scope[i] # 0}

Outermost ==                      \* seeded defect: the scopes are not reversed
  IF Holding = {} THEN 0 ELSE scope[CHOOSE i \in Holding : \A j \in Holding : i <= j]

\* Scope::get: the symbol of the innermost scope that has one
Get == IF Holding = {} THEN 0 ELSE scope[CHOOSE i \in Holding : \A j \in Holding : j <= i]

\* parse_id
Use ==
  /\ Reading /\ ~IsGlobal
  /\ \/ Get = 0 /\ Reject("UndeclaredVar")
     \/ /\ Get # 0
        /\ Emit(<<Event("load", Get, Visible(std.env))>>)
        /\ UNCHANGED initialized
        /\ Accept
  /\ UNCHANGED <<store, scope, std>>

EndOfFile ==
  /\ phase = "read" /\ IsGlobal
  /\ \/ hir = <<>> /\ Reject("EmptyProgram")
     \/ /\ hir # <<>>
        /\ phase' = "compile"
        /\ UNCHANGED <<items, initialized, hir, back, result>>
  /\ UNCHANGED <<store, scope, std>>

-----------------------------------------------------------------------------
(* The backend.  Of the Cranelift module only x is kept: its linkage is     *)
(* merged from all its declarations, its signature is that of the first.    *)

At(op) == phase = "compile" /\ pos < Len(hir) /\ hir[pos + 1].op = op
Sym    == hir[pos + 1].sym

Merge(a, b) ==
  IF "Export" \in {a, b} THEN "Export" ELSE IF "Local" \in {a, b} THEN "Local" ELSE "Import"

Merged(kind, linkage, sig) ==
  IF module.kind = "none"
  THEN [kind |-> kind, linkage |-> linkage, sig |-> sig, defined |-> FALSE]
  ELSE [module EXCEPT !.linkage = Merge(@, linkage)]

Continue == pos' = pos + 1 /\ UNCHANGED <<phase, items, front, std, result>>

Stop(outcome, reason) ==
  /\ phase' = "done"
  /\ result' = Finished(outcome, reason)
  /\ UNCHANGED <<items, front, std, back>>

Id(kind)         == [kind |-> kind, fn |-> 0]
Slot             == [kind |-> "local", fn |-> function]
Declares(sym, id) ==
  ids' = [s \in DOMAIN ids \cup {sym} |-> IF s = sym THEN id ELSE ids[s]]

StaticIfDefined(sc, isDefinition) ==       \* seeded defect
  CASE isDefinition /\ sc \in {"Auto", "Extern"} -> "Export"
    [] isDefinition /\ sc = "Static"             -> "Local"
    [] OTHER                                     -> "Import"

FuncLinkage(sc, isDefinition) ==
  CASE sc \in {"Auto", "Extern"} -> IF isDefinition THEN "Export" ELSE "Import"
    [] OTHER                     -> "Local"

\* why declare_func panics, or "none"
FuncPanic(sym) ==
  CASE store[sym].sc = "Register"      -> "unreachable storage class"
    [] module.kind = "data"            -> "IncompatibleDeclaration"
    [] module.kind = "func" /\ module.sig # store[sym].type -> "IncompatibleSignature"
    [] OTHER                           -> "none"

DeclareFunc(sym, isDefinition) ==
  IF ~isDefinition /\ sym \in DOMAIN ids
  THEN Continue /\ UNCHANGED <<module, ids, function>>
  ELSE \/ FuncPanic(sym) # "none" /\ Stop("panic", FuncPanic(sym))
       \/ /\ FuncPanic(sym) = "none"
          /\ module' = Merged("func", FuncLinkage(store[sym].sc, isDefinition),
                              store[sym].type)
          /\ Declares(sym, Id("func"))
          /\ function' = IF isDefinition THEN pos + 1 ELSE function
          /\ Continue

DataLinkage(sc) ==
  CASE sc = "Extern" -> "Import" [] sc = "Static" -> "Local" [] sc = "Auto" -> "Export"

NeverAgain(sc) == sc = "Extern" \/ module.defined   \* seeded defect: defined once
OnlyDeclared(sc) == sc = "Extern"

\* store_static; linkage Import returns before define_data
StoreStatic(sym) ==
  LET sc     == store[sym].sc
      merged == Merged("data", DataLinkage(sc), "none")
      reason == CASE sc = "Register"                          -> "illegal storage class"
                  [] module.kind = "func"                     -> "IncompatibleDeclaration"
                  [] ~OnlyDeclared(sc) /\ module.defined      -> "DuplicateDefinition"
                  [] OTHER                                    -> "none"
  IN  \/ reason # "none" /\ Stop("error", reason)
      \/ /\ reason = "none"
         /\ module' = [merged EXCEPT !.defined = @ \/ ~OnlyDeclared(sc)]
         /\ Declares(sym, Id("global"))
         /\ UNCHANGED function
         /\ Continue

\* the loop of compile, for a declaration that is not a function definition
CompileGlobal ==
  /\ At("global")
  /\ \/ store[Sym].form = "function" /\ DeclareFunc(Sym, FALSE)
     \/ store[Sym].form = "object" /\ StoreStatic(Sym)

\* compile_func up to the statements of the body
CompileFunction ==
  /\ At("function")
  /\ \/ Sym # 0 /\ DeclareFunc(Sym, TRUE)
     \/ /\ Sym = 0
        /\ function' = pos + 1
        /\ UNCHANGED <<module, ids>>
        /\ Continue

Unstored == UNCHANGED ids         \* seeded defect: store_stack_params is skipped
StoreParam == Declares(Sym, Slot)

CompileParam ==
  /\ At("param")
  /\ StoreParam
  /\ UNCHANGED <<module, function>>
  /\ Continue

\* declare_stack: every object of a block gets a slot, whatever its class
DeclareStack ==
  /\ At("local")
  /\ \/ store[Sym].form = "function" /\ DeclareFunc(Sym, FALSE)
     \/ /\ store[Sym].form = "object"
        /\ Declares(Sym, Slot)
        /\ UNCHANGED <<module, function>>
        /\ Continue

\* load_addr
Load ==
  /\ At("load")
  /\ \/ Sym \notin DOMAIN ids /\ Stop("panic", "variable not declared")
     \/ Sym \in DOMAIN ids /\ UNCHANGED <<module, ids, function>> /\ Continue

\* the end of compile_func: define_function
EndFunction ==
  /\ At("end")
  /\ LET sym == hir[function].sym
     IN  \/ sym # 0 /\ module.defined /\ Stop("panic", "DuplicateDefinition")
         \/ /\ sym = 0 \/ ~module.defined
            /\ module' = [module EXCEPT !.defined = @ \/ sym # 0]
            /\ UNCHANGED <<ids, function>>
            /\ Continue

Emitted ==
  /\ phase = "compile" /\ pos = Len(hir)
  /\ Stop("ok", "none")

-----------------------------------------------------------------------------

Init ==
  /\ phase = "read" /\ items = 0
  /\ store = <<>> /\ scope = <<0>> /\ initialized = {} /\ hir = <<>>
  /\ std = [env |-> <<Nothing>>, linkage |-> "none", form |-> "none", types |-> {},
            defined |-> FALSE, tentative |-> FALSE, faults |-> {}]
  /\ pos = 0 /\ function = 0 /\ ids = <<>>
  /\ module = [kind |-> "none", linkage |-> "none", sig |-> "none", defined |-> FALSE]
  /\ result = Pending

Step ==
  \/ DeclareInFile \/ DeclareInBlock \/ DefineX \/ DefineOther
  \/ OpenBlock \/ Close \/ Use \/ EndOfFile
  \/ CompileGlobal \/ CompileFunction \/ CompileParam \/ DeclareStack
  \/ Load \/ EndFunction \/ Emitted

Done == phase = "done" /\ UNCHANGED vars

Next == Step \/ Done

Spec == Init /\ [][Next]_vars

-----------------------------------------------------------------------------
(* Properties.                                                              *)

Ended     == result.outcome # "none"
Succeeded == result.outcome = "ok"
Valid     == std.faults = {}

\* Known: int x(); and int x(int); are compatible, but not to the module.
MixesPrototypes == std.form = "function" /\ \E t, u \in std.types : t # u

\* No panic of the backend, "definition error", "bug in parser: loaded a
\* variable that was not declared" or that of a declaration the module refuses,
\* is reached from a source that is valid C, whatever declarations came before.
ValidNeverPanics == Valid /\ ~MixesPrototypes => result.outcome # "panic"

Definers == {i \in DOMAIN hir : /\ hir[i].op = "global"
                                /\ store[hir[i].sym].form = "object"
                                /\ store[hir[i].sym].sc # "Extern"}

\* A valid source compiles, when x has external linkage: however often and in
\* whatever order it is declared with and without extern, declare accepts the
\* next declaration though it looks at the last one only.  Known rejections:
\* declaring x twice in a block, and tentative definitions (two Definers).
ExternalCompiles ==
  /\ Ended /\ Valid /\ ~MixesPrototypes
  /\ std.linkage = "external"
  /\ result.reason \notin {"UndeclaredVar", "EmptyProgram"}
  => \/ Succeeded
     \/ ~IsGlobal /\ result.reason = "IncompatibleRedeclaration"
     \/ result.reason = "DuplicateDefinition" /\ \E i, j \in Definers : i # j

\* A second definition is caught by declare or by the module, also when other
\* declarations stand between the two: initialized knows only the first.
RedefinitionCaught == "redefinition" \in std.faults => ~Succeeded

\* Known: the definition of a static function without static is exported.
DefinedAsExtern ==
  \E i \in DOMAIN hir : /\ hir[i].op = "function" /\ hir[i].sym # 0
                        /\ store[hir[i].sym].sc = "Extern"

\* The symbol the object file has for x follows 6.2.2: all declarations merged
\* give the linkage that the first one determined, and a definition exactly
\* when the source has one, tentative ones included.
SymbolAgrees ==
  Succeeded /\ Valid /\ module.kind # "none" =>
    /\ module.defined = (std.defined \/ std.tentative)
    /\ IF std.linkage = "external"
       THEN module.linkage = IF module.defined THEN "Export" ELSE "Import"
       ELSE module.linkage = "Local" \/ DefinedAsExtern

Denoted(sym) ==
  IF ids[sym].kind \in {"func", "global"} THEN Linked
  ELSE IF ids[sym].fn = function THEN <<sym>> ELSE Nothing

\* Known: extern int x; in a block reserves a slot.
ExternSlot(sym) ==
  store[sym].form = "object" /\ store[sym].sc = "Extern" /\ ids[sym].kind = "local"

\* What a use loads is what x denotes there in the source: the innermost
\* declaration, in a slot of the same function or with linkage, and declarations
\* has it by then although analysis of the whole file came before.
UseDenotes ==
  At("load") /\ Valid /\ Sym \in DOMAIN ids =>
    Denoted(Sym) = hir[pos + 1].denotes \/ ExternSlot(Sym)

\* CHANGELOG.md, 0.8.0, says of static int f(); int f(); that it is no error,
\* and so does the comment on 6.2.2p4 in declare.  declare accepts extern there,
\* but a declaration without a class is Auto.
StaticThenPlain ==
  Ended /\ Valid /\ IsGlobal /\ std.form = "function" =>
    result.reason # "IncompatibleRedeclaration"

=============================================================================
