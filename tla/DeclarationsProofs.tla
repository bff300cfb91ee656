------------------------ MODULE DeclarationsProofs ------------------------
(***************************************************************************)
(* Proofs about Declarations: for sources of any length over any set of    *)
(* declarations, what the analyzer accepts is compiled without a panic to  *)
(* the symbol and the slots that C gives it.  The inductive invariant is   *)
(* stated first, with the steps that read the source, which keep it and    *)
(* reject only what C rejects or one of the known rejections; then come    *)
(* the steps of the backend, and what the invariant says of every source.  *)
(***************************************************************************)
EXTENDS Declarations, SequenceTheorems, TLAPS

Ops       == {"global", "local", "function", "param", "load", "end"}
Events    == [op : Ops, sym : Nat, denotes : Seq(Nat)]
Variables == [form : {"object", "function"}, type : Types,
              sc : {"Auto", "Register", "Static", "Extern"}]

-----------------------------------------------------------------------------
(* What an event e of hir is, with the table st of variables.              *)

\* it declares its symbol
Names(e) == e.op \in {"global", "local", "param"} \/ (e.op = "function" /\ e.sym # 0)

\* to have a stack slot, or to be known to the module
InSlot(st, e)   == e.op = "param" \/ (e.op = "local" /\ st[e.sym].form = "object")
InModule(st, e) == Names(e) /\ ~InSlot(st, e)

\* it defines x in the module
Defining(st, e) ==
  \/ e.op = "function" /\ e.sym # 0
  \/ e.op = "global" /\ st[e.sym].form = "object" /\ st[e.sym].sc # "Extern"

\* what a use of the symbol denotes; the slot of an extern object is as it may be
DenotedBy(st, e, d) ==
  IF InSlot(st, e) THEN st[e.sym].sc = "Extern" \/ d = <<e.sym>> ELSE d = Linked

\* after p events of h a function is open
Inside(h, p) ==
  \E f \in 1..p : h[f].op = "function" /\ \A k \in f + 1..p : h[k].op # "end"

\* no function begins after event j, up to event p
SameBody(h, j, p) == \A k \in j + 1..p : h[k].op # "function"

-----------------------------------------------------------------------------
(* The invariant while the source is read.                                 *)

\* each event declares a symbol of its own, functions are not nested
HirOK(h, st) ==
  /\ h \in Seq(Events)
  /\ \A i \in 1..Len(h) : Names(h[i]) =>
       /\ h[i].sym \in 1..Len(st)
       /\ h[i].op = "param" => st[h[i].sym].form = "object"
       /\ h[i].op = "function" =>
            st[h[i].sym].form = "function" /\ st[h[i].sym].sc \in {"Static", "Extern"}
  /\ \A i, j \in 1..Len(h) : i < j /\ Names(h[i]) /\ Names(h[j]) => h[i].sym < h[j].sym
  /\ \A i \in 1..Len(h) : h[i].op \in {"global", "function"} <=> ~Inside(h, i - 1)

\* a use has its declaration before it, in the same function if it is a slot
LoadsOK(h, st, valid) ==
  \A i \in 1..Len(h) : h[i].op = "load" =>
    \E j \in 1..i - 1 :
      /\ Names(h[j]) /\ h[j].sym = h[i].sym
      /\ InSlot(st, h[j]) => SameBody(h, j, i)
      /\ valid => DenotedBy(st, h[j], h[i].denotes)

\* up to each scope, x is nowhere declared or there is an innermost scope of it
Innermost(sc) ==
  \A n \in 0..Len(sc) :
    \/ \A i \in 1..n : sc[i] = 0
    \/ \E m \in 1..n : sc[m] # 0 /\ \A i \in m + 1..n : sc[i] = 0

\* event j declared symbol s, which scope i has for x; d is what x denotes there
Entered(h, st, valid, i, s, d, j) ==
  /\ Names(h[j]) /\ h[j].sym = s
  /\ i = 1 => h[j].op \in {"global", "function"}
  /\ i # 1 => SameBody(h, j, Len(h))
  /\ valid => DenotedBy(st, h[j], d)

ScopeOK(h, st, sc, env, valid) ==
  /\ sc \in Seq(0..Len(st)) /\ sc # <<>>
  /\ env \in Seq(Seq(Nat)) /\ Len(env) = Len(sc)
  /\ Innermost(sc)
  /\ \A i \in 1..Len(sc) : sc[i] = 0 <=> env[i] = Nothing
  /\ \A i \in 1..Len(sc) : sc[i] # 0 =>
       \E j \in 1..Len(h) : Entered(h, st, valid, i, sc[i], env[i], j)

\* the standard's view: std is a record of these fields
StdTypes(s) ==
  /\ s \in [env : Seq(Seq(Nat)), linkage : {"none", "internal", "external"},
            form : {"none", "object", "function"}, types : SUBSET Types,
            defined : BOOLEAN, tentative : BOOLEAN, faults : SUBSET Faults]

\* what it counts as a definition is a defining event
DefinitionsOK(h, st, s) ==
  /\ (s.defined \/ s.tentative) <=> \E i \in 1..Len(h) : Defining(st, h[i])
  /\ \A i \in 1..Len(h) : h[i].op = "function" /\ h[i].sym # 0 => s.defined
  /\ s.defined => \E i \in 1..Len(h) : Defining(st, h[i])
  /\ "redefinition" \in s.faults =>
       \E i, j \in 1..Len(h) : i # j /\ Defining(st, h[i]) /\ Defining(st, h[j])

\* of a valid source the declarations that reach the module agree
AgreeOK(h, st, s) ==
  /\ \A i \in 1..Len(h) : InModule(st, h[i]) =>
       /\ st[h[i].sym].form = s.form /\ st[h[i].sym].type \in s.types
       /\ st[h[i].sym].sc # "Register"
       /\ s.linkage # "none"
       /\ s.linkage = "external" => st[h[i].sym].sc # "Static"
  /\ s.linkage = "internal" =>
       \E i \in 1..Len(h) : InModule(st, h[i]) /\ st[h[i].sym].sc = "Static"
  /\ \A i, j \in 1..Len(h) :
       h[i].op = "function" /\ h[i].sym # 0 /\ h[j].op = "function" /\ h[j].sym # 0 => i = j
  /\ ~({"t", "u"} \subseteq s.types)

Front ==
  /\ store \in Seq(Variables)
  /\ initialized \subseteq 1..Len(store)
  /\ StdTypes(std)
  /\ HirOK(hir, store)
  /\ LoadsOK(hir, store, Valid)
  /\ ScopeOK(hir, store, scope, std.env, Valid)
  /\ IsGlobal <=> ~Inside(hir, Len(hir))
  /\ DefinitionsOK(hir, store, std)
  /\ scope[1] \in initialized => std.defined
  /\ \A i \in 1..Len(std.env) : std.env[i] = Linked => std.linkage # "none"
  /\ Valid => AgreeOK(hir, store, std)

-----------------------------------------------------------------------------
(* The invariant while hir is compiled: p events are done.                 *)

\* f is where the last function of p events begins, 0 if there is none
LastFunction(h, p, f) ==
  \/ f = 0 /\ \A k \in 1..p : h[k].op # "function"
  \/ f \in 1..p /\ h[f].op = "function" /\ SameBody(h, f, p)

\* event i has defined x
Defined(h, st, p, i) ==
  /\ i \in 1..p /\ Defining(st, h[i])
  /\ h[i].op = "function" => \E e \in i + 1..p : h[e].op = "end"

IdsOK(h, st, p, table) ==
  /\ \A s \in DOMAIN table : \E j \in 1..p : Names(h[j]) /\ h[j].sym = s
  /\ \A j \in 1..p : Names(h[j]) =>
       /\ h[j].sym \in DOMAIN table
       /\ InSlot(st, h[j]) => /\ table[h[j].sym].kind = "local"
                              /\ LastFunction(h, j, table[h[j].sym].fn)
       /\ ~InSlot(st, h[j]) => table[h[j].sym].kind \in {"func", "global"}

\* what an event adds to the linkage of x
Exports(st, e) ==
  \/ e.op = "function" /\ e.sym # 0 /\ st[e.sym].sc \in {"Auto", "Extern"}
  \/ e.op = "global" /\ st[e.sym].form = "object" /\ st[e.sym].sc = "Auto"
Hides(st, e) == InModule(st, e) /\ st[e.sym].sc = "Static"

ModuleOK(h, st, p, m) ==
  /\ m \in [kind : {"none", "func", "data"}, linkage : {"none", "Import", "Local", "Export"},
            sig : Types \cup {"none"}, defined : BOOLEAN]
  /\ m.defined <=> \E i \in 1..p : Defined(h, st, p, i)
  /\ \A i, j \in 1..p : Defined(h, st, p, i) /\ Defined(h, st, p, j) => i = j
  /\ m.kind = "func" => \E i \in 1..p : /\ InModule(st, h[i])
                                       /\ st[h[i].sym].form = "function"
                                       /\ st[h[i].sym].type = m.sig
  /\ m.kind = "data" => \E i \in 1..p : InModule(st, h[i]) /\ st[h[i].sym].form = "object"
  /\ \A i \in 1..p : InModule(st, h[i]) => m.kind # "none"
  /\ m.kind # "none" => m.linkage # "none"
  /\ m.linkage = "Export" <=> \E i \in 1..p : Exports(st, h[i])
  /\ m.linkage \in {"Local", "Export"} <=> \E i \in 1..p : Exports(st, h[i]) \/ Hides(st, h[i])

Back ==
  /\ pos \in 0..Len(hir)
  /\ LastFunction(hir, pos, function)
  /\ IdsOK(hir, store, pos, ids)
  /\ ModuleOK(hir, store, pos, module)

Started ==
  /\ pos = 0 /\ function = 0 /\ ids = <<>>
  /\ module = [kind |-> "none", linkage |-> "none", sig |-> "none", defined |-> FALSE]

\* what is claimed of a compilation that has ended
Outcome ==
  ValidNeverPanics /\ ExternalCompiles /\ RedefinitionCaught /\ SymbolAgrees

IInv ==
  /\ phase \in {"read", "compile", "done"}
  /\ phase \in {"read", "compile"} => result = Pending /\ Front
  /\ phase = "read" => Started
  /\ phase = "compile" => Back /\ Len(scope) = 1
  /\ phase = "done" => Outcome

-----------------------------------------------------------------------------
(* Events and variables.                                                   *)

\* The next sequence of events is the last one and e.
Grown(h, e, g) ==
  /\ h \in Seq(Events) /\ g \in Seq(Events) /\ Len(h) \in Nat
  /\ Len(g) = Len(h) + 1
  /\ \A i \in 1..Len(h) : g[i] = h[i]
  /\ g[Len(h) + 1] = e

\* Append makes it so.
LEMMA AppendGrows ==
  ASSUME NEW h \in Seq(Events), NEW e \in Events
  PROVE  Grown(h, e, Append(h, e))
BY AppendProperties, LenProperties DEF Grown

\* Emit appends one event, or two.
LEMMA EmitIsAppend ==
  ASSUME NEW h \in Seq(Events), NEW e \in Events, NEW f \in Events
  PROVE  /\ h \o <<e>> = Append(h, e)
         /\ h \o (<<e>> \o <<>>) = Append(h, e)
         /\ h \o (<<e>> \o <<f>>) = Append(Append(h, e), f)
<1>1. h \o <<e>> = Append(h, e)
      BY AppendIsConcat
<1>2. <<e>> \in Seq(Events) /\ <<f>> \in Seq(Events)
      BY EmptySeq, AppendProperties
<1>3. <<e>> \o <<>> = <<e>>
      BY <1>2, ConcatEmptySeq
<1>4. h \o (<<e>> \o <<f>>) = (h \o <<e>>) \o <<f>>
      BY <1>2, ConcatAssociative
<1>5. Append(h, e) \in Seq(Events)
      BY AppendProperties
<1>6. Append(h, e) \o <<f>> = Append(Append(h, e), f)
      BY <1>5, AppendIsConcat
<1> QED  BY <1>1, <1>3, <1>4, <1>6

\* The table st of variables has become tt.
Extends(st, tt) ==
  /\ Len(st) \in Nat /\ Len(tt) \in Nat /\ Len(st) <= Len(tt)
  /\ \A s \in 1..Len(st) : tt[s] = st[s]

\* An event is what it was when more variables are declared.
LEMMA SameEvent ==
  ASSUME NEW st, NEW tt, Extends(st, tt), NEW e, Names(e) => e.sym \in 1..Len(st)
  PROVE  /\ InSlot(st, e) <=> InSlot(tt, e)
         /\ InModule(st, e) <=> InModule(tt, e)
         /\ Defining(st, e) <=> Defining(tt, e)
         /\ Names(e) => tt[e.sym] = st[e.sym] /\ e.sym \in 1..Len(tt)
         /\ Names(e) => \A d : DenotedBy(st, e, d) <=> DenotedBy(tt, e, d)
BY DEF Extends, Names, InSlot, InModule, Defining, DenotedBy

\* A function is open after e if it was and e does not end it, or if e begins one.
LEMMA InsideGrows ==
  ASSUME NEW h, NEW e, NEW g, Grown(h, e, g)
  PROVE  /\ \A p \in 0..Len(h) : Inside(g, p) <=> Inside(h, p)
         /\ Inside(g, Len(g)) <=> e.op = "function" \/ (Inside(h, Len(h)) /\ e.op # "end")
<1>1. /\ Len(h) \in Nat /\ Len(g) = Len(h) + 1 /\ g[Len(h) + 1] = e
      /\ \A i \in 1..Len(h) : g[i] = h[i]
      BY DEF Grown
<1>2. ASSUME NEW p \in 0..Len(h) PROVE Inside(g, p) <=> Inside(h, p)
      BY <1>1 DEF Inside
<1>3. Inside(g, Len(g)) => e.op = "function" \/ (Inside(h, Len(h)) /\ e.op # "end")
      BY <1>1 DEF Inside
<1>4. e.op = "function" => Inside(g, Len(g))
      BY <1>1 DEF Inside
<1>5. ASSUME Inside(h, Len(h)), e.op # "end" PROVE Inside(g, Len(g))
  <2>1. PICK f \in 1..Len(h) : h[f].op = "function" /\ \A k \in f + 1..Len(h) : h[k].op # "end"
        BY <1>5 DEF Inside
  <2>2. f \in 1..Len(g) /\ g[f].op = "function"
        BY <1>1, <2>1
  <2>3. ASSUME NEW k \in f + 1..Len(g) PROVE g[k].op # "end"
        BY <1>1, <1>5, <2>1
  <2> QED  BY <2>2, <2>3 DEF Inside
<1> QED  BY <1>2, <1>3, <1>4, <1>5

\* More variables.
LEMMA HirStore ==
  ASSUME NEW h, NEW st, NEW tt, Extends(st, tt), HirOK(h, st)
  PROVE  HirOK(h, tt)
BY DEF HirOK, Extends, Names

\* One more event.
LEMMA HirGrows ==
  ASSUME NEW h, NEW st, HirOK(h, st), NEW e, NEW g, Grown(h, e, g),
         Names(e) => /\ e.sym \in 1..Len(st)
                     /\ \A i \in 1..Len(h) : Names(h[i]) => h[i].sym < e.sym
                     /\ e.op = "param" => st[e.sym].form = "object"
                     /\ e.op = "function" => /\ st[e.sym].form = "function"
                                             /\ st[e.sym].sc \in {"Static", "Extern"},
         e.op \in {"global", "function"} <=> ~Inside(h, Len(h))
  PROVE  HirOK(g, st)
<1>1. /\ Len(h) \in Nat /\ Len(g) = Len(h) + 1 /\ g[Len(h) + 1] = e /\ g \in Seq(Events)
      /\ \A i \in 1..Len(h) : g[i] = h[i]
      BY DEF Grown
<1>2. \A p \in 0..Len(h) : Inside(g, p) <=> Inside(h, p)
      BY InsideGrows
<1>3. \A i \in 1..Len(g) : i \in 1..Len(h) \/ i = Len(h) + 1
      BY <1>1
<1>4. \A i \in 1..Len(g) : g[i].op \in {"global", "function"} <=> ~Inside(g, i - 1)
  <2>1. TAKE i \in 1..Len(g)
  <2>2. CASE i \in 1..Len(h)
    <3>1. i - 1 \in 0..Len(h)
          BY <1>1, <2>2
    <3> QED  BY <1>1, <1>2, <2>2, <3>1 DEF HirOK
  <2>3. CASE i = Len(h) + 1
    <3>1. i - 1 = Len(h) /\ Len(h) \in 0..Len(h)
          BY <1>1, <2>3
    <3> QED  BY <1>1, <1>2, <2>3, <3>1
  <2> QED  BY <1>3, <2>2, <2>3
<1>5. \A i \in 1..Len(g) : Names(g[i]) =>
        /\ g[i].sym \in 1..Len(st)
        /\ g[i].op = "param" => st[g[i].sym].form = "object"
        /\ g[i].op = "function" =>
             st[g[i].sym].form = "function" /\ st[g[i].sym].sc \in {"Static", "Extern"}
      BY <1>1, <1>3, SMTT(20) DEF HirOK
<1>6. \A i, j \in 1..Len(g) : i < j /\ Names(g[i]) /\ Names(g[j]) => g[i].sym < g[j].sym
  <2>1. TAKE i, j \in 1..Len(g)
  <2>2. HAVE i < j /\ Names(g[i]) /\ Names(g[j])
  <2>3. i \in 1..Len(h)
        BY <1>1, <2>2
  <2>4. CASE j \in 1..Len(h)
        BY <1>1, <2>2, <2>3, <2>4 DEF HirOK
  <2>5. CASE j = Len(h) + 1
        BY <1>1, <2>2, <2>3, <2>5
  <2> QED  BY <1>3, <2>4, <2>5
<1> QED  BY <1>1, <1>4, <1>5, <1>6 DEF HirOK

\* Uses of what more variables stand beside, of a source that may now be invalid.
LEMMA LoadsStore ==
  ASSUME NEW h, NEW st, NEW tt, Extends(st, tt), HirOK(h, st),
         NEW v, NEW w, w => v, LoadsOK(h, st, v)
  PROVE  LoadsOK(h, tt, w)
<1> SUFFICES ASSUME NEW i \in 1..Len(h), h[i].op = "load"
             PROVE  \E j \in 1..i - 1 :
                      /\ Names(h[j]) /\ h[j].sym = h[i].sym
                      /\ InSlot(tt, h[j]) => SameBody(h, j, i)
                      /\ w => DenotedBy(tt, h[j], h[i].denotes)
    BY DEF LoadsOK
<1>1. PICK j \in 1..i - 1 : /\ Names(h[j]) /\ h[j].sym = h[i].sym
                            /\ InSlot(st, h[j]) => SameBody(h, j, i)
                            /\ v => DenotedBy(st, h[j], h[i].denotes)
      BY DEF LoadsOK
<1>2. h \in Seq(Events)
      BY DEF HirOK
<1>3. j \in 1..Len(h)
      BY <1>2, LenProperties
<1>4. h[j].sym \in 1..Len(st)
      BY <1>1, <1>3 DEF HirOK
<1> QED  BY <1>1, <1>4, SameEvent

\* One more event; if it is a use, its declaration is there.
LEMMA LoadsGrow ==
  ASSUME NEW h, NEW st, NEW v, LoadsOK(h, st, v), NEW e, NEW g, Grown(h, e, g),
         e.op = "load" =>
           \E j \in 1..Len(h) :
             /\ Names(h[j]) /\ h[j].sym = e.sym
             /\ InSlot(st, h[j]) => SameBody(h, j, Len(h))
             /\ v => DenotedBy(st, h[j], e.denotes)
  PROVE  LoadsOK(g, st, v)
<1>1. /\ Len(h) \in Nat /\ Len(g) = Len(h) + 1 /\ g[Len(h) + 1] = e
      /\ \A i \in 1..Len(h) : g[i] = h[i]
      BY DEF Grown
<1> SUFFICES ASSUME NEW i \in 1..Len(g), g[i].op = "load"
             PROVE  \E j \in 1..i - 1 :
                      /\ Names(g[j]) /\ g[j].sym = g[i].sym
                      /\ InSlot(st, g[j]) => SameBody(g, j, i)
                      /\ v => DenotedBy(st, g[j], g[i].denotes)
    BY DEF LoadsOK
<1>2. CASE i \in 1..Len(h)
  <2>1. PICK j \in 1..i - 1 : /\ Names(h[j]) /\ h[j].sym = h[i].sym
                              /\ InSlot(st, h[j]) => SameBody(h, j, i)
                              /\ v => DenotedBy(st, h[j], h[i].denotes)
        BY <1>1, <1>2 DEF LoadsOK
  <2>2. g[j] = h[j] /\ g[i] = h[i]
        BY <1>1, <1>2
  <2>3. SameBody(h, j, i) => SameBody(g, j, i)
        BY <1>1, <1>2 DEF SameBody
  <2> QED  BY <2>1, <2>2, <2>3
<1>3. CASE i = Len(h) + 1
  <2>1. PICK j \in 1..Len(h) : /\ Names(h[j]) /\ h[j].sym = e.sym
                               /\ InSlot(st, h[j]) => SameBody(h, j, Len(h))
                               /\ v => DenotedBy(st, h[j], e.denotes)
        BY <1>1, <1>3
  <2>2. g[j] = h[j] /\ g[i] = e /\ j \in 1..i - 1
        BY <1>1, <1>3
  <2>3. SameBody(h, j, Len(h)) => SameBody(g, j, i)
        BY <1>1, <1>3 DEF SameBody
  <2> QED  BY <2>1, <2>2, <2>3
<1> QED  BY <1>1, <1>2, <1>3

-----------------------------------------------------------------------------
(* Scopes.                                                                 *)

\* More variables, and a source that may now be invalid.
LEMMA ScopeStore ==
  ASSUME NEW h, NEW st, NEW tt, Extends(st, tt), HirOK(h, st),
         NEW sc, NEW env, NEW v, NEW w, w => v, ScopeOK(h, st, sc, env, v)
  PROVE  ScopeOK(h, tt, sc, env, w)
<1>1. sc \in Seq(0..Len(tt))
  <2>1. sc \in Seq(0..Len(st)) /\ 0..Len(st) \subseteq 0..Len(tt)
        BY DEF ScopeOK, Extends
  <2> QED  BY <2>1, SeqMonotonic
<1>2. ASSUME NEW i \in 1..Len(sc), sc[i] # 0
      PROVE  \E j \in 1..Len(h) : Entered(h, tt, w, i, sc[i], env[i], j)
  <2>1. PICK j \in 1..Len(h) : Entered(h, st, v, i, sc[i], env[i], j)
        BY <1>2 DEF ScopeOK
  <2>2. Names(h[j]) /\ h[j].sym \in 1..Len(st)
        BY <2>1 DEF Entered, HirOK
  <2>3. v => DenotedBy(st, h[j], env[i])
        BY <2>1 DEF Entered
  <2>4. w => DenotedBy(tt, h[j], env[i])
        BY <2>2, <2>3, SameEvent
  <2>5. Entered(h, tt, w, i, sc[i], env[i], j)
        BY <2>1, <2>4 DEF Entered
  <2> QED  BY <2>5
<1> QED  BY <1>1, <1>2 DEF ScopeOK

\* One more event, which begins no function unless only the file's scope is open.
LEMMA ScopeEvent ==
  ASSUME NEW h, NEW st, NEW sc, NEW env, NEW v, ScopeOK(h, st, sc, env, v),
         NEW e, NEW g, Grown(h, e, g), e.op # "function" \/ Len(sc) = 1
  PROVE  ScopeOK(g, st, sc, env, v)
<1>1. /\ Len(h) \in Nat /\ Len(g) = Len(h) + 1 /\ g[Len(h) + 1] = e
      /\ \A i \in 1..Len(h) : g[i] = h[i]
      BY DEF Grown
<1>2. ASSUME NEW i \in 1..Len(sc), sc[i] # 0
      PROVE  \E j \in 1..Len(g) : Entered(g, st, v, i, sc[i], env[i], j)
  <2>1. PICK j \in 1..Len(h) : Entered(h, st, v, i, sc[i], env[i], j)
        BY <1>2 DEF ScopeOK
  <2>2. j \in 1..Len(g) /\ g[j] = h[j]
        BY <1>1
  <2>3. ASSUME i # 1 PROVE e.op # "function"
    <3>1. Len(sc) \in Nat
          BY LenProperties DEF ScopeOK
    <3>2. Len(sc) # 1
          BY <1>2, <2>3, <3>1
    <3> QED  BY <3>2
  <2>4. i # 1 => SameBody(g, j, Len(g))
    <3>1. ASSUME i # 1, NEW k \in j + 1..Len(g) PROVE g[k].op # "function"
          BY <1>1, <2>1, <2>3, <3>1, SMTT(20) DEF Entered, SameBody
    <3> QED  BY <3>1 DEF SameBody
  <2>5. Entered(g, st, v, i, sc[i], env[i], j)
        BY <2>1, <2>2, <2>4 DEF Entered
  <2> QED  BY <2>2, <2>5
<1> QED  BY <1>2 DEF ScopeOK

\* The innermost scope gets symbol s for x, which denotes d there.
LEMMA ScopeSet ==
  ASSUME NEW h, NEW st, Len(st) \in Nat, NEW sc, NEW env, NEW v, ScopeOK(h, st, sc, env, v),
         NEW s \in 1..Len(st), NEW d \in Seq(Nat), d # Nothing,
         NEW j \in 1..Len(h), Entered(h, st, v, Len(sc), s, d, j)
  PROVE  /\ ScopeOK(h, st, SetLast(sc, s), SetLast(env, d), v)
         /\ Len(SetLast(sc, s)) = Len(sc)
<1> DEFINE n  == Len(sc)
           tc == SetLast(sc, s)
           fn == SetLast(env, d)
<1>1. /\ sc \in Seq(0..Len(st)) /\ env \in Seq(Seq(Nat)) /\ Len(env) = n
      /\ n \in Nat /\ n # 0 /\ n \in 1..Len(sc) /\ n \in 1..Len(env)
      BY EmptySeq, LenProperties DEF ScopeOK
<1>2. s \in 0..Len(st) /\ s # 0
      OBVIOUS
<1>3. /\ tc \in Seq(0..Len(st)) /\ Len(tc) = n
      /\ \A i \in 1..n : tc[i] = IF i = n THEN s ELSE sc[i]
      BY <1>1, <1>2, ExceptSeq DEF SetLast
<1>4. /\ fn \in Seq(Seq(Nat)) /\ Len(fn) = n
      /\ \A i \in 1..n : fn[i] = IF i = n THEN d ELSE env[i]
  <2>1. fn = [env EXCEPT ![n] = d]
        BY <1>1 DEF SetLast
  <2> HIDE DEF fn
  <2> QED  BY <1>1, <2>1, ExceptSeq
<1> HIDE DEF tc, fn
<1>5. Innermost(tc)
  <2> SUFFICES ASSUME NEW k \in 0..n
               PROVE  \/ \A i \in 1..k : tc[i] = 0
                      \/ \E m \in 1..k : tc[m] # 0 /\ \A i \in m + 1..k : tc[i] = 0
      BY <1>3 DEF Innermost
  <2>1. CASE k = n
    <3>1. tc[n] # 0 /\ n \in 1..k /\ \A i \in n + 1..k : tc[i] = 0
      <4>1. n \in 1..n /\ tc[n] = s
            BY <1>1, <1>3
      <4> QED  BY <1>1, <1>2, <2>1, <4>1
    <3> QED  BY <3>1
  <2>2. CASE k # n
    <3>1. \A i \in 1..k : tc[i] = sc[i] /\ i \in 1..n
          BY <1>1, <1>3, <2>2, SMTT(20)
    <3>2. \/ \A i \in 1..k : sc[i] = 0
          \/ \E m \in 1..k : sc[m] # 0 /\ \A i \in m + 1..k : sc[i] = 0
          BY DEF ScopeOK, Innermost
    <3>3. CASE \A i \in 1..k : sc[i] = 0
          BY <3>1, <3>3
    <3>4. CASE \E m \in 1..k : sc[m] # 0 /\ \A i \in m + 1..k : sc[i] = 0
      <4>1. PICK m \in 1..k : sc[m] # 0 /\ \A i \in m + 1..k : sc[i] = 0
            BY <3>4
      <4>2. \A i \in m + 1..k : i \in 1..k
            OBVIOUS
      <4> QED  BY <3>1, <4>1, <4>2
    <3> QED  BY <3>2, <3>3, <3>4
  <2> QED  BY <2>1, <2>2
<1>6. \A i \in 1..n : tc[i] = 0 <=> fn[i] = Nothing
      BY <1>2, <1>3, <1>4 DEF ScopeOK
<1>7. ASSUME NEW i \in 1..n, tc[i] # 0
      PROVE  \E k \in 1..Len(h) : Entered(h, st, v, i, tc[i], fn[i], k)
  <2>1. CASE i = n
        BY <1>3, <1>4, <2>1
  <2>2. CASE i # n
        BY <1>3, <1>4, <1>7, <2>2 DEF ScopeOK
  <2> QED  BY <2>1, <2>2
<1>8. tc # <<>>
      BY <1>1, <1>3, EmptySeq
<1>9. ScopeOK(h, st, tc, fn, v)
      BY <1>3, <1>4, <1>5, <1>6, <1>7, <1>8 DEF ScopeOK
<1> QED  BY <1>3, <1>9 DEF tc, fn

\* A new scope, with nothing in it or with symbol s for x.
LEMMA ScopePush ==
  ASSUME NEW h, NEW st, Len(st) \in Nat, NEW sc, NEW env, NEW v, ScopeOK(h, st, sc, env, v),
         NEW s \in 0..Len(st), NEW d \in Seq(Nat), s = 0 <=> d = Nothing,
         s # 0 => \E j \in 1..Len(h) : Entered(h, st, v, Len(sc) + 1, s, d, j)
  PROVE  /\ ScopeOK(h, st, Append(sc, s), Append(env, d), v)
         /\ Len(Append(sc, s)) = Len(sc) + 1
<1> DEFINE n  == Len(sc)
           tc == Append(sc, s)
           fn == Append(env, d)
<1>1. /\ sc \in Seq(0..Len(st)) /\ env \in Seq(Seq(Nat)) /\ Len(env) = n /\ n \in Nat
      BY LenProperties DEF ScopeOK
<1>2. /\ tc \in Seq(0..Len(st)) /\ tc # <<>> /\ Len(tc) = n + 1
      /\ \A i \in 1..n : tc[i] = sc[i]
      /\ tc[n + 1] = s
  <2> DEFINE R == 0..Len(st)
  <2>1. sc \in Seq(R) /\ s \in R
        BY <1>1
  <2> HIDE DEF R
  <2>2. /\ tc \in Seq(R) /\ tc # <<>> /\ Len(tc) = Len(sc) + 1
        /\ \A i \in 1..Len(sc) : tc[i] = sc[i]
        /\ tc[Len(sc) + 1] = s
        BY <2>1, AppendProperties
  <2> QED  BY <2>2 DEF R
<1>3. /\ fn \in Seq(Seq(Nat)) /\ Len(fn) = n + 1
      /\ \A i \in 1..n : fn[i] = env[i]
      /\ fn[n + 1] = d
  <2>1. /\ Len(fn) = Len(env) + 1 /\ \A i \in 1..Len(env) : fn[i] = env[i]
        /\ fn[Len(env) + 1] = d /\ fn \in Seq(Seq(Nat))
        BY <1>1, AppendProperties
  <2> QED  BY <1>1, <2>1
<1> HIDE DEF tc, fn
<1>4. \A i \in 1..n + 1 : i \in 1..n \/ i = n + 1
      BY <1>1
<1>5. Innermost(tc)
  <2> SUFFICES ASSUME NEW k \in 0..n + 1
               PROVE  \/ \A i \in 1..k : tc[i] = 0
                      \/ \E m \in 1..k : tc[m] # 0 /\ \A i \in m + 1..k : tc[i] = 0
      BY <1>2 DEF Innermost
  <2>1. \A q \in 0..n : \/ \A i \in 1..q : tc[i] = 0
                        \/ \E m \in 1..q : tc[m] # 0 /\ \A i \in m + 1..q : tc[i] = 0
    <3>1. TAKE q \in 0..n
    <3>2. \A i \in 1..q : tc[i] = sc[i]
          BY <1>1, <1>2
    <3>3. CASE \A i \in 1..q : sc[i] = 0
          BY <3>2, <3>3
    <3>4. CASE \E m \in 1..q : sc[m] # 0 /\ \A i \in m + 1..q : sc[i] = 0
      <4>1. PICK m \in 1..q : sc[m] # 0 /\ \A i \in m + 1..q : sc[i] = 0
            BY <3>4
      <4>2. \A i \in m + 1..q : i \in 1..q
            OBVIOUS
      <4> QED  BY <3>2, <4>1, <4>2
    <3> QED  BY <3>3, <3>4 DEF ScopeOK, Innermost
  <2>2. CASE k # n + 1
    <3>1. k \in 0..n
          BY <1>1, <2>2
    <3> QED  BY <2>1, <3>1
  <2>3. CASE k = n + 1 /\ s # 0
    <3>1. tc[n + 1] # 0 /\ n + 1 \in 1..k /\ \A i \in (n + 1) + 1..k : tc[i] = 0
          BY <1>1, <1>2, <2>3
    <3> QED  BY <3>1
  <2>4. CASE k = n + 1 /\ s = 0
    <3>1. n \in 0..n /\ tc[n + 1] = 0
          BY <1>1, <1>2, <2>4
    <3>2. CASE \A i \in 1..n : tc[i] = 0
          BY <1>4, <2>4, <3>1, <3>2
    <3>3. CASE \E m \in 1..n : tc[m] # 0 /\ \A i \in m + 1..n : tc[i] = 0
      <4>1. PICK m \in 1..n : tc[m] # 0 /\ \A i \in m + 1..n : tc[i] = 0
            BY <3>3
      <4>2. m \in 1..k /\ \A i \in m + 1..k : i \in m + 1..n \/ i = n + 1
        <5>1. n \in Nat /\ k = n + 1
              BY <1>1, <2>4
        <5> HIDE DEF n
        <5> QED  BY <5>1
      <4> QED  BY <3>1, <4>1, <4>2
    <3> QED  BY <2>1, <3>1, <3>2, <3>3
  <2> QED  BY <2>2, <2>3, <2>4
<1>6. \A i \in 1..n + 1 : tc[i] = 0 <=> fn[i] = Nothing
      BY <1>2, <1>3, <1>4 DEF ScopeOK
<1>7. ASSUME NEW i \in 1..n + 1, tc[i] # 0
      PROVE  \E k \in 1..Len(h) : Entered(h, st, v, i, tc[i], fn[i], k)
  <2>1. CASE i = n + 1
        BY <1>2, <1>3, <1>7, <2>1
  <2>2. CASE i \in 1..n
        BY <1>2, <1>3, <1>7, <2>2 DEF ScopeOK
  <2> QED  BY <1>4, <2>1, <2>2
<1>8. ScopeOK(h, st, tc, fn, v)
      BY <1>2, <1>3, <1>5, <1>6, <1>7 DEF ScopeOK
<1> QED  BY <1>2, <1>8 DEF tc, fn

\* The innermost scope is left.
LEMMA ScopeExit ==
  ASSUME NEW h, NEW st, Len(st) \in Nat, NEW sc, NEW env, NEW v, ScopeOK(h, st, sc, env, v),
         Len(sc) # 1
  PROVE  /\ ScopeOK(h, st, Exit(sc), Exit(env), v)
         /\ Len(Exit(sc)) = Len(sc) - 1 /\ Exit(sc)[1] = sc[1]
         /\ \A i \in 1..Len(Exit(env)) : Exit(env)[i] = env[i] /\ i \in 1..Len(env)
<1> DEFINE n  == Len(sc) - 1
           tc == Exit(sc)
           fn == Exit(env)
<1>1. /\ sc \in Seq(0..Len(st)) /\ env \in Seq(Seq(Nat)) /\ Len(env) = n + 1
      /\ n \in Nat /\ n # 0 /\ Len(sc) = n + 1
      BY EmptySeq, LenProperties DEF ScopeOK
<1>2. \A i \in 1..n : sc[i] \in 0..Len(st) /\ env[i] \in Seq(Nat)
  <2>1. \A i \in 1..n : i \in 1..Len(sc) /\ i \in 1..Len(env)
        BY <1>1
  <2> QED  BY <1>1, <2>1, ElementOfSeq
<1>3. /\ tc \in Seq(0..Len(st)) /\ Len(tc) = n /\ \A i \in 1..n : tc[i] = sc[i]
  <2>1. tc = SubSeq(sc, 1, n)
        BY DEF Exit
  <2>2. 1 \in Int /\ n \in Int /\ n - 1 + 1 = n /\ 1 <= n /\ \A i \in 1..n : 1 + i - 1 = i
        BY <1>1
  <2> HIDE DEF tc, n
  <2> QED  BY <1>2, <2>1, <2>2, SubSeqProperties
<1>4. /\ fn \in Seq(Seq(Nat)) /\ Len(fn) = n /\ \A i \in 1..n : fn[i] = env[i]
  <2>1. fn = SubSeq(env, 1, n)
        BY <1>1 DEF Exit
  <2>2. 1 \in Int /\ n \in Int /\ n - 1 + 1 = n /\ 1 <= n /\ \A i \in 1..n : 1 + i - 1 = i
        BY <1>1
  <2> HIDE DEF fn, n
  <2> QED  BY <1>2, <2>1, <2>2, SubSeqProperties
<1> HIDE DEF tc, fn
<1>5. \A i \in 1..n : i \in 1..Len(sc) /\ i \in 1..Len(env)
      BY <1>1
<1>6. Innermost(tc)
  <2> SUFFICES ASSUME NEW k \in 0..n
               PROVE  \/ \A i \in 1..k : tc[i] = 0
                      \/ \E m \in 1..k : tc[m] # 0 /\ \A i \in m + 1..k : tc[i] = 0
      BY <1>3 DEF Innermost
  <2>1. \A i \in 1..k : tc[i] = sc[i]
        BY <1>1, <1>3
  <2>2. k \in 0..Len(sc)
        BY <1>1
  <2>3. CASE \A i \in 1..k : sc[i] = 0
        BY <2>1, <2>3
  <2>4. CASE \E m \in 1..k : sc[m] # 0 /\ \A i \in m + 1..k : sc[i] = 0
    <3>1. PICK m \in 1..k : sc[m] # 0 /\ \A i \in m + 1..k : sc[i] = 0
          BY <2>4
    <3>2. \A i \in m + 1..k : i \in 1..k
          OBVIOUS
    <3> QED  BY <2>1, <3>1, <3>2
  <2> QED  BY <2>2, <2>3, <2>4 DEF ScopeOK, Innermost
<1>7. /\ \A i \in 1..n : tc[i] = 0 <=> fn[i] = Nothing
      /\ \A i \in 1..n : tc[i] # 0 =>
           \E k \in 1..Len(h) : Entered(h, st, v, i, tc[i], fn[i], k)
      BY <1>3, <1>4, <1>5 DEF ScopeOK
<1>8. tc # <<>>
      BY <1>1, <1>3, EmptySeq
<1>9. ScopeOK(h, st, tc, fn, v)
      BY <1>3, <1>4, <1>6, <1>7, <1>8 DEF ScopeOK
<1>10. tc[1] = sc[1]
      BY <1>1, <1>3
<1> QED  BY <1>1, <1>3, <1>4, <1>5, <1>9, <1>10 DEF tc, fn

\* Scope::get and the standard find x in the same scope.
LEMMA GetFacts ==
  ASSUME NEW v, ScopeOK(hir, store, scope, std.env, v)
  PROVE  \/ Get = 0 /\ Visible(std.env) = Nothing
         \/ \E m \in 1..Len(scope) :
              scope[m] # 0 /\ Get = scope[m] /\ Visible(std.env) = std.env[m]
<1> DEFINE n  == Len(scope)
           in == {i \in DOMAIN std.env : std.env[i] # Nothing}
<1>1. /\ DOMAIN scope = 1..n /\ DOMAIN std.env = 1..n /\ n \in Nat
      /\ \A i \in 1..n : scope[i] = 0 <=> std.env[i] = Nothing
      BY LenProperties DEF ScopeOK
<1>2. in = Holding
      BY <1>1 DEF Holding
<1>3. \/ \A i \in 1..n : scope[i] = 0
      \/ \E m \in 1..n : scope[m] # 0 /\ \A i \in m + 1..n : scope[i] = 0
  <2>1. n \in 0..n /\ Innermost(scope)
        BY <1>1 DEF ScopeOK
  <2> QED  BY <2>1 DEF Innermost
<1>4. Visible(std.env) = IF in = {} THEN Nothing
                         ELSE std.env[CHOOSE i \in in : \A j \in in : j <= i]
      BY DEF Visible
<1> HIDE DEF in
<1>5. CASE \A i \in 1..n : scope[i] = 0
  <2>1. Holding = {}
        BY <1>1, <1>5 DEF Holding
  <2> QED  BY <1>2, <1>4, <2>1 DEF Get
<1>6. CASE \E m \in 1..n : scope[m] # 0 /\ \A i \in m + 1..n : scope[i] = 0
  <2>1. PICK m \in 1..n : scope[m] # 0 /\ \A i \in m + 1..n : scope[i] = 0
        BY <1>6
  <2>2. m \in Holding /\ \A j \in Holding : j <= m /\ j \in Nat
        BY <1>1, <2>1 DEF Holding
  <2>3. \A i \in Holding : (\A j \in Holding : j <= i) => i = m
        BY <2>2
  <2>4. (CHOOSE i \in Holding : \A j \in Holding : j <= i) = m
        BY <2>2, <2>3
  <2>5. Get = scope[m]
        BY <2>2, <2>4 DEF Get
  <2>6. Visible(std.env) = std.env[m]
        BY <1>2, <1>4, <2>2, <2>4
  <2> QED  BY <2>1, <2>5, <2>6
<1> QED  BY <1>3, <1>5, <1>6

-----------------------------------------------------------------------------
(* A declaration in the eyes of the standard.                              *)

\* What x may denote.
LEMMA Denotations ==
  /\ Linked # Nothing /\ Linked \in Seq(Nat) /\ Nothing \in Seq(Nat)
  /\ \A s \in Nat : <<s>> # Nothing /\ <<s>> \in Seq(Nat) /\ (<<s>> = Linked => s = 0)
<1>1. \A s \in Nat : <<s>> \in Seq(Nat) /\ Len(<<s>>) = 1 /\ <<s>>[1] = s
      BY EmptySeq, AppendProperties
<1>2. Len(<<>>) = 0 /\ <<>> \in Seq(Nat)
      BY EmptySeq
<1>3. \A s \in Nat : <<s>> # <<>>
      BY <1>1, <1>2
<1>4. 0 \in Nat
      OBVIOUS
<1> QED  BY <1>1, <1>2, <1>3, <1>4 DEF Linked, Nothing

\* The kinds of faults, one by one.
LEMMA WrongFacts ==
  ASSUME NEW d, NEW def
  PROVE  /\ Wrong(d, def) \subseteq Faults
         /\ BadClass(d, std.env) => "class" \in Wrong(d, def)
         /\ ~IsLocal(d, std.env) =>
              /\ std.linkage \notin {"none", LinkageOf(d, std.env)} =>
                   "linkage" \in Wrong(d, def)
              /\ std.form \notin {"none", d.form} => "form" \in Wrong(d, def)
              /\ {"t", "u"} \subseteq std.types \cup {d.type} => "type" \in Wrong(d, def)
              /\ Defines(d, def) /\ std.defined => "redefinition" \in Wrong(d, def)
         /\ "redefinition" \in Wrong(d, def) =>
              ~IsLocal(d, std.env) /\ Defines(d, def) /\ std.defined
<1>1. "class" \in Faults /\ "linkage" \in Faults /\ "form" \in Faults /\ "type" \in Faults
      /\ "redefinition" \in Faults
      BY DEF Faults
<1> QED  BY <1>1 DEF Wrong

\* The declaration of a local object changes what x denotes here, no more.
LEMMA LocalStd ==
  ASSUME StdTypes(std), NEW d, NEW def, IsLocal(d, std.env),
         Len(store) \in Nat, Len(std.env) \in Nat, Len(std.env) # 0
  PROVE  LET s == StdDeclare(d, def)
         IN  /\ StdTypes(s)
             /\ s.env = SetLast(std.env, <<Len(store) + 1>>)
             /\ s.faults = std.faults \cup Wrong(d, def)
             /\ s.linkage = std.linkage /\ s.form = std.form /\ s.types = std.types
             /\ s.defined = std.defined /\ s.tentative = std.tentative
<1> DEFINE s == StdDeclare(d, def)
           w == Wrong(d, def)
<1>1. s = [[std EXCEPT !.faults = @ \cup w] EXCEPT !.env = SetLast(@, <<Len(store) + 1>>)]
      BY DEF StdDeclare
<1>2. w \subseteq Faults
      BY WrongFacts
<1>3. <<Len(store) + 1>> \in Seq(Nat)
      BY EmptySeq, AppendProperties
<1>4. SetLast(std.env, <<Len(store) + 1>>) \in Seq(Seq(Nat))
  <2>1. std.env \in Seq(Seq(Nat))
        BY DEF StdTypes
  <2>2. Len(std.env) \in 1..Len(std.env)
        OBVIOUS
  <2> QED  BY <1>3, <2>1, <2>2, ExceptSeq DEF SetLast
<1> HIDE DEF s, w
<1>5. /\ s.env = SetLast(std.env, <<Len(store) + 1>>)
      /\ s.faults = std.faults \cup w
      /\ s.linkage = std.linkage /\ s.form = std.form /\ s.types = std.types
      /\ s.defined = std.defined /\ s.tentative = std.tentative
      BY <1>1 DEF StdTypes
<1>6. StdTypes(s)
      BY <1>1, <1>2, <1>4 DEF StdTypes
<1> QED  BY <1>5, <1>6 DEF s, w

\* Any other declaration counts for the x with linkage.
LEMMA LinkedStd ==
  ASSUME StdTypes(std), NEW d \in Declared, NEW def \in BOOLEAN, ~IsLocal(d, std.env),
         Len(std.env) \in Nat, Len(std.env) # 0
  PROVE  LET s == StdDeclare(d, def)
         IN  /\ StdTypes(s)
             /\ s.env = SetLast(std.env, Linked)
             /\ s.faults = std.faults \cup Wrong(d, def)
             /\ s.linkage = LinkageOf(d, std.env) /\ s.form = d.form
             /\ s.types = std.types \cup {d.type}
             /\ s.defined = (std.defined \/ Defines(d, def))
             /\ s.tentative = (std.tentative \/ (/\ AtFile(std.env) /\ d.form = "object"
                                                 /\ d.class # "extern"))
<1> DEFINE s == StdDeclare(d, def)
           w == Wrong(d, def)
           k == LinkageOf(d, std.env)
           e == SetLast(std.env, Linked)
           b == Defines(d, def)
           t == AtFile(std.env) /\ d.form = "object" /\ d.class # "extern"
<1>1. s = [[std EXCEPT !.faults = @ \cup w]
             EXCEPT !.env = e, !.linkage = k, !.form = d.form, !.types = @ \cup {d.type},
                    !.defined = @ \/ b, !.tentative = @ \/ t]
      BY DEF StdDeclare, StdTypes
<1>2. w \subseteq Faults
      BY WrongFacts
<1>3. k \in {"none", "internal", "external"}
      BY DEF LinkageOf, StdTypes
<1>4. e \in Seq(Seq(Nat))
  <2>1. std.env \in Seq(Seq(Nat))
        BY DEF StdTypes
  <2>2. Linked \in Seq(Nat)
        BY EmptySeq, AppendProperties DEF Linked
  <2>3. Len(std.env) \in 1..Len(std.env)
        OBVIOUS
  <2> QED  BY <2>1, <2>2, <2>3, ExceptSeq DEF SetLast
<1>5. d.form \in {"object", "function"} /\ d.type \in Types
      BY DEF Declared, Types
<1>6. b \in BOOLEAN /\ t \in BOOLEAN
      BY DEF Defines, AtFile
<1> HIDE DEF s, w, k, e, b, t
<1>7. /\ s.env = e /\ s.faults = std.faults \cup w /\ s.linkage = k /\ s.form = d.form
      /\ s.types = std.types \cup {d.type}
      /\ s.defined = (std.defined \/ b) /\ s.tentative = (std.tentative \/ t)
      BY <1>1 DEF StdTypes
<1>8. StdTypes(s)
      BY <1>1, <1>2, <1>3, <1>4, <1>5, <1>6 DEF StdTypes
<1> QED  BY <1>7, <1>8 DEF s, w, k, e, b, t

-----------------------------------------------------------------------------
(* The table of variables and the events of hir.                           *)

\* One more variable.
LEMMA OneMore ==
  ASSUME NEW st \in Seq(Variables), NEW v \in Variables
  PROVE  /\ Append(st, v) \in Seq(Variables) /\ Len(st) \in Nat
         /\ Len(Append(st, v)) = Len(st) + 1 /\ Append(st, v)[Len(st) + 1] = v
         /\ Extends(st, Append(st, v))
<1>1. /\ Append(st, v) \in Seq(Variables) /\ Len(Append(st, v)) = Len(st) + 1
      /\ Append(st, v)[Len(st) + 1] = v
      /\ \A i \in 1..Len(st) : Append(st, v)[i] = st[i]
      BY AppendProperties
<1>2. Len(st) \in Nat
      BY LenProperties
<1> QED  BY <1>1, <1>2 DEF Extends

\* A table extends itself.
LEMMA ExtendsItself ==
  ASSUME NEW st \in Seq(Variables)
  PROVE  Extends(st, st)
BY LenProperties DEF Extends

\* An event that does not reach the module leaves what is said of the others.
LEMMA PlainEvent ==
  ASSUME NEW h, NEW st, NEW tt, Extends(st, tt), HirOK(h, st),
         NEW e, NEW g, Grown(h, e, g), ~InModule(tt, e), e.op # "global",
         NEW s
  PROVE  /\ DefinitionsOK(h, st, s) => DefinitionsOK(g, tt, s)
         /\ AgreeOK(h, st, s) => AgreeOK(g, tt, s)
<1>1. /\ Len(h) \in Nat /\ Len(g) = Len(h) + 1 /\ g[Len(h) + 1] = e
      /\ \A i \in 1..Len(h) : g[i] = h[i]
      BY DEF Grown
<1>2. \A i \in 1..Len(g) : i \in 1..Len(h) \/ i = Len(h) + 1
      BY <1>1
<1>3. \A i \in 1..Len(h) : i \in 1..Len(g)
      BY <1>1
<1>4. ASSUME NEW i \in 1..Len(h)
      PROVE  /\ Defining(tt, g[i]) <=> Defining(st, h[i])
             /\ InModule(tt, g[i]) <=> InModule(st, h[i])
             /\ Names(h[i]) => tt[g[i].sym] = st[h[i].sym]
      BY <1>1, SameEvent DEF HirOK
<1>5. ~Defining(tt, e) /\ ~(e.op = "function" /\ e.sym # 0)
      BY DEF Defining, InModule, InSlot, Names
<1>6. ASSUME DefinitionsOK(h, st, s) PROVE DefinitionsOK(g, tt, s)
  <2>1. (\E i \in 1..Len(g) : Defining(tt, g[i])) <=> \E i \in 1..Len(h) : Defining(st, h[i])
        BY <1>1, <1>2, <1>3, <1>4, <1>5
  <2>2. \A i \in 1..Len(g) : g[i].op = "function" /\ g[i].sym # 0 => s.defined
        BY <1>1, <1>2, <1>5, <1>6 DEF DefinitionsOK
  <2>3. ASSUME "redefinition" \in s.faults
        PROVE  \E i, j \in 1..Len(g) : i # j /\ Defining(tt, g[i]) /\ Defining(tt, g[j])
    <3>1. PICK i, j \in 1..Len(h) : i # j /\ Defining(st, h[i]) /\ Defining(st, h[j])
          BY <1>6, <2>3 DEF DefinitionsOK
    <3> QED  BY <1>3, <1>4, <3>1
  <2> QED  BY <1>6, <2>1, <2>2, <2>3 DEF DefinitionsOK
<1>7. ASSUME AgreeOK(h, st, s) PROVE AgreeOK(g, tt, s)
  <2>1. ASSUME NEW i \in 1..Len(g), InModule(tt, g[i])
        PROVE  /\ tt[g[i].sym].form = s.form /\ tt[g[i].sym].type \in s.types
               /\ tt[g[i].sym].sc # "Register"
               /\ s.linkage # "none"
               /\ s.linkage = "external" => tt[g[i].sym].sc # "Static"
    <3>1. i \in 1..Len(h)
          BY <1>1, <1>2, <2>1
    <3>2. InModule(st, h[i]) /\ Names(h[i]) /\ tt[g[i].sym] = st[h[i].sym]
          BY <1>4, <2>1, <3>1 DEF InModule
    <3> QED  BY <1>7, <3>1, <3>2 DEF AgreeOK
  <2>2. ASSUME s.linkage = "internal"
        PROVE  \E i \in 1..Len(g) : InModule(tt, g[i]) /\ tt[g[i].sym].sc = "Static"
    <3>1. PICK i \in 1..Len(h) : InModule(st, h[i]) /\ st[h[i].sym].sc = "Static"
          BY <1>7, <2>2 DEF AgreeOK
    <3>2. Names(h[i])
          BY <3>1 DEF InModule
    <3> QED  BY <1>3, <1>4, <3>1, <3>2
  <2>3. \A i, j \in 1..Len(g) : g[i].op = "function" /\ g[i].sym # 0
                                /\ g[j].op = "function" /\ g[j].sym # 0 => i = j
        BY <1>1, <1>2, <1>5, <1>7 DEF AgreeOK
  <2>4. ~({"t", "u"} \subseteq s.types)
        BY <1>7 DEF AgreeOK
  <2> QED  BY <2>1, <2>2, <2>3, <2>4 DEF AgreeOK
<1> QED  BY <1>6, <1>7

-----------------------------------------------------------------------------
(* A declaration that is accepted.                                         *)

\* d, a function definition if def, is put in the table as v and in hir as e.
Announces(d, def, v, e) ==
  /\ d \in Declared /\ def \in BOOLEAN /\ v \in Variables
  /\ v.form = d.form /\ v.type = d.type
  /\ v.sc = "Static" <=> d.class = "static"
  /\ v.sc = "Register" => d.class = "register"
  /\ d.form = "object" => (v.sc = "Extern" <=> d.class = "extern" /\ ~d.init)
  /\ def => IsGlobal /\ d.form = "function" /\ v.sc \in {"Static", "Extern"}
  /\ e = Event(IF def THEN "function" ELSE IF IsGlobal THEN "global" ELSE "local",
               Symbol, Nothing)

\* What there is of the invariant to build on.
LEMMA FrontFacts ==
  ASSUME Front
  PROVE  /\ Len(store) \in Nat /\ Symbol \in Nat /\ Symbol = Len(store) + 1
         /\ Len(scope) \in Nat /\ Len(scope) # 0 /\ Len(std.env) = Len(scope)
         /\ DOMAIN scope = 1..Len(scope) /\ DOMAIN hir = 1..Len(hir) /\ Len(hir) \in Nat
         /\ AtFile(std.env) <=> IsGlobal
         /\ \A i \in 1..Len(scope) : scope[i] \in 0..Len(store)
         /\ \A i \in 1..Len(hir) : hir[i] \in Events
         /\ \A s \in 1..Len(store) : store[s] \in Variables
         /\ Valid \in BOOLEAN
<1>1. store \in Seq(Variables) /\ hir \in Seq(Events)
      /\ scope \in Seq(0..Len(store)) /\ scope # <<>> /\ Len(std.env) = Len(scope)
      BY DEF Front, HirOK, ScopeOK
<1>2. Len(store) \in Nat /\ \A s \in 1..Len(store) : store[s] \in Variables
      BY <1>1, LenProperties, ElementOfSeq
<1>3. /\ Len(hir) \in Nat /\ DOMAIN hir = 1..Len(hir)
      /\ \A i \in 1..Len(hir) : hir[i] \in Events
      BY <1>1, LenProperties, ElementOfSeq
<1>4. Len(scope) \in Nat /\ DOMAIN scope = 1..Len(scope) /\ Len(scope) # 0
      /\ \A i \in 1..Len(scope) : scope[i] \in 0..Len(store)
  <2> DEFINE R == 0..Len(store)
  <2> HIDE DEF R
  <2>1. scope \in Seq(R)
        BY <1>1 DEF R
  <2>2. Len(scope) \in Nat /\ DOMAIN scope = 1..Len(scope) /\ Len(scope) # 0
        /\ \A i \in 1..Len(scope) : scope[i] \in R
        BY <1>1, <2>1, LenProperties, ElementOfSeq, EmptySeq
  <2> QED  BY <2>2 DEF R
<1> QED  BY <1>1, <1>2, <1>3, <1>4 DEF Symbol, AtFile, IsGlobal, Valid

\* x has linkage where the standard finds the x with linkage.
LEMMA LinkageKnown ==
  ASSUME Front, NEW d
  PROVE  LinkageOf(d, std.env) # "none"
<1>1. ScopeOK(hir, store, scope, std.env, Valid)
      BY DEF Front
<1>2. Visible(std.env) = Linked => std.linkage # "none"
  <2>1. CASE Get = 0 /\ Visible(std.env) = Nothing
        BY <2>1, Denotations
  <2>2. CASE \E m \in 1..Len(scope) :
               scope[m] # 0 /\ Get = scope[m] /\ Visible(std.env) = std.env[m]
        BY <2>2, FrontFacts DEF Front
  <2> QED  BY <1>1, <2>1, <2>2, GetFacts
<1> QED  BY <1>2 DEF LinkageOf

\* A declaration in the table and in hir.
LEMMA AnnouncedHir ==
  ASSUME Front, NEW d, NEW def, NEW v, NEW e, Announces(d, def, v, e), NEW g, Grown(hir, e, g)
  PROVE  LET tt == Append(store, v)
         IN  /\ tt \in Seq(Variables) /\ Len(tt) = Symbol /\ tt[Symbol] = v
             /\ Extends(store, tt)
             /\ HirOK(hir, tt) /\ HirOK(g, tt)
             /\ \A w : (w => Valid) => LoadsOK(g, tt, w)
<1> DEFINE tt == Append(store, v)
<1>1. /\ tt \in Seq(Variables) /\ Len(tt) = Symbol /\ tt[Symbol] = v
      /\ Extends(store, tt) /\ Len(store) \in Nat
      BY OneMore DEF Front, Announces, Symbol
<1> HIDE DEF tt
<1>2. HirOK(hir, tt)
      BY <1>1, HirStore DEF Front
<1>3. e.op = (IF def THEN "function" ELSE IF IsGlobal THEN "global" ELSE "local")
      /\ e.sym = Symbol
      BY DEF Announces, Event
<1>4. e.sym \in 1..Len(tt)
      BY <1>1, <1>3 DEF Symbol
<1>5. \A i \in 1..Len(hir) : Names(hir[i]) => hir[i].sym < e.sym
      BY <1>1, <1>3 DEF Front, HirOK, Symbol
<1>6. e.op = "function" => tt[e.sym].form = "function" /\ tt[e.sym].sc \in {"Static", "Extern"}
      BY <1>1, <1>3 DEF Announces
<1>7. e.op \in {"global", "function"} <=> ~Inside(hir, Len(hir))
      BY <1>3 DEF Front, Announces
<1>8. HirOK(g, tt)
      BY <1>2, <1>3, <1>4, <1>5, <1>6, <1>7, HirGrows
<1>9. ASSUME NEW w, w => Valid PROVE LoadsOK(g, tt, w)
  <2>1. HirOK(hir, store) /\ LoadsOK(hir, store, Valid)
        BY DEF Front
  <2>2. LoadsOK(hir, tt, w)
        BY <1>1, <1>9, <2>1, LoadsStore
  <2> QED  BY <1>3, <2>2, LoadsGrow
<1> QED  BY <1>1, <1>2, <1>8, <1>9 DEF tt

\* and in the standard's view.
LEMMA AnnouncedStd ==
  ASSUME Front, NEW d, NEW def, NEW v, NEW e, Announces(d, def, v, e)
  PROVE  LET s == StdDeclare(d, def)
         IN  /\ StdTypes(s) /\ s.faults = std.faults \cup Wrong(d, def)
             /\ s.env = SetLast(std.env, IF IsLocal(d, std.env) THEN <<Symbol>> ELSE Linked)
             /\ \A i \in 1..Len(s.env) : s.env[i] = Linked => s.linkage # "none"
<1> DEFINE s == StdDeclare(d, def)
           n == Len(std.env)
           x == IF IsLocal(d, std.env) THEN <<Symbol>> ELSE Linked
<1>1. StdTypes(std) /\ Len(store) \in Nat /\ n \in Nat /\ n # 0 /\ Symbol = Len(store) + 1
      /\ Symbol \in Nat /\ \A i \in 1..Len(std.env) : std.env[i] = Linked => std.linkage # "none"
      BY FrontFacts DEF Front
<1>2. x \in Seq(Nat)
      BY <1>1, Denotations
<1>3. std.env \in Seq(Seq(Nat)) /\ n \in 1..Len(std.env)
      BY <1>1 DEF StdTypes
<1> HIDE DEF x
<1>4. Len(SetLast(std.env, x)) = n
      /\ \A i \in 1..n : SetLast(std.env, x)[i] = IF i = n THEN x ELSE std.env[i]
      BY <1>2, <1>3, ExceptSeq DEF SetLast
<1>5. CASE IsLocal(d, std.env)
  <2>1. /\ StdTypes(s) /\ s.faults = std.faults \cup Wrong(d, def)
        /\ s.env = SetLast(std.env, <<Symbol>>) /\ s.linkage = std.linkage
        BY <1>1, <1>5, LocalStd
  <2>2. x = <<Symbol>> /\ x # Linked
        BY <1>1, <1>5, Denotations DEF x
  <2> QED  BY <1>1, <1>4, <2>1, <2>2 DEF x
<1>6. CASE ~IsLocal(d, std.env)
  <2>1. d \in Declared /\ def \in BOOLEAN
        BY DEF Announces
  <2>2. /\ StdTypes(s) /\ s.faults = std.faults \cup Wrong(d, def)
        /\ s.env = SetLast(std.env, Linked) /\ s.linkage = LinkageOf(d, std.env)
        BY <1>1, <1>6, <2>1, LinkedStd
  <2> QED  BY <1>6, <2>2, LinkageKnown DEF x
<1> QED  BY <1>5, <1>6

\* and in the scope.
LEMMA AnnouncedScope ==
  ASSUME Front, NEW d, NEW def, NEW v, NEW e, Announces(d, def, v, e), NEW g, Grown(hir, e, g)
  PROVE  LET s  == StdDeclare(d, def)
             tt == Append(store, v)
         IN  /\ ScopeOK(g, tt, SetLast(scope, Symbol), s.env, s.faults = {})
             /\ Len(SetLast(scope, Symbol)) = Len(scope)
<1> DEFINE s  == StdDeclare(d, def)
           tt == Append(store, v)
           n  == Len(scope)
           x  == IF IsLocal(d, std.env) THEN <<Symbol>> ELSE Linked
           w  == s.faults = {}
<1>1. /\ tt \in Seq(Variables) /\ Len(tt) = Symbol /\ tt[Symbol] = v /\ Extends(store, tt)
      BY AnnouncedHir
<1>2. s.faults = std.faults \cup Wrong(d, def) /\ s.env = SetLast(std.env, x)
      BY AnnouncedStd
<1>3. /\ Symbol \in Nat /\ Symbol # 0 /\ n \in Nat /\ n # 0 /\ (AtFile(std.env) <=> IsGlobal)
      /\ Len(hir) \in Nat
      BY FrontFacts
<1>4. x \in Seq(Nat) /\ x # Nothing
      BY <1>3, Denotations
<1>5. e.op = (IF def THEN "function" ELSE IF IsGlobal THEN "global" ELSE "local")
      /\ e.sym = Symbol /\ v.form = d.form
      BY DEF Announces, Event
<1>6. w => DenotedBy(tt, e, x)
  <2>1. ASSUME w PROVE ~BadClass(d, std.env)
        BY <1>2, <2>1, WrongFacts
  <2>2. CASE InSlot(tt, e)
    <3>1. e.op = "local" /\ v.form = "object" /\ ~IsGlobal
          BY <1>1, <1>5, <2>2 DEF InSlot
    <3>2. CASE IsLocal(d, std.env)
          BY <1>5, <2>2, <3>2 DEF DenotedBy
    <3>3. CASE ~IsLocal(d, std.env)
      <4>1. d.class = "extern" /\ d.form = "object"
            BY <1>3, <1>5, <3>1, <3>3 DEF IsLocal
      <4>2. w => ~d.init
            BY <1>3, <2>1, <3>1, <4>1 DEF BadClass
      <4>3. w => v.sc = "Extern"
            BY <4>1, <4>2 DEF Announces
      <4> QED  BY <1>1, <1>5, <2>2, <4>3 DEF DenotedBy
    <3> QED  BY <3>2, <3>3
  <2>3. CASE ~InSlot(tt, e)
    <3>1. IsGlobal \/ v.form = "function"
          BY <1>1, <1>5, <2>3 DEF InSlot, Announces, Variables
    <3>2. ~IsLocal(d, std.env)
          BY <1>3, <1>5, <3>1 DEF IsLocal
    <3> QED  BY <2>3, <3>2 DEF DenotedBy
  <2> QED  BY <2>2, <2>3
<1>7. Len(hir) + 1 \in 1..Len(g) /\ g[Len(hir) + 1] = e /\ Len(g) = Len(hir) + 1
      BY <1>3 DEF Grown
<1>8. e.op # "function" \/ n = 1
      BY <1>5 DEF Announces, IsGlobal
<1>9. w => Valid
      BY <1>2 DEF Valid
<1> HIDE DEF tt, s, w, x
<1>10. ScopeOK(hir, tt, scope, std.env, w)
  <2>1. HirOK(hir, store) /\ ScopeOK(hir, store, scope, std.env, Valid)
        BY DEF Front
  <2> QED  BY <1>1, <1>9, <2>1, ScopeStore
<1>11. ScopeOK(g, tt, scope, std.env, w)
       BY <1>8, <1>10, ScopeEvent
<1>12. Entered(g, tt, w, n, Symbol, x, Len(hir) + 1)
  <2>1. Names(e) /\ e.sym = Symbol
        BY <1>3, <1>5 DEF Names
  <2>2. n = 1 => e.op \in {"global", "function"}
        BY <1>5 DEF IsGlobal
  <2>3. SameBody(g, Len(hir) + 1, Len(g))
        BY <1>3, <1>7 DEF SameBody
  <2> QED  BY <1>6, <1>7, <2>1, <2>2, <2>3 DEF Entered
<1>13. Symbol \in 1..Len(tt) /\ Len(tt) \in Nat
       BY <1>1, <1>3
<1>14. /\ ScopeOK(g, tt, SetLast(scope, Symbol), SetLast(std.env, x), w)
       /\ Len(SetLast(scope, Symbol)) = Len(scope)
       BY <1>4, <1>7, <1>11, <1>12, <1>13, ScopeSet
<1> QED  BY <1>2, <1>14 DEF tt, s, w

\* It defines x when the standard says so.
LEMMA AnnouncedDefinitions ==
  ASSUME Front, NEW d, NEW def, NEW v, NEW e, Announces(d, def, v, e), NEW g, Grown(hir, e, g)
  PROVE  DefinitionsOK(g, Append(store, v), StdDeclare(d, def))
<1> DEFINE s  == StdDeclare(d, def)
           tt == Append(store, v)
<1>1. /\ tt[Symbol] = v /\ Extends(store, tt) /\ HirOK(hir, store)
      BY AnnouncedHir DEF Front
<1>2. /\ Symbol \in Nat /\ Symbol # 0 /\ (AtFile(std.env) <=> IsGlobal)
      /\ Len(std.env) \in Nat /\ Len(std.env) # 0 /\ Len(store) \in Nat
      BY FrontFacts
<1>3. /\ e.op = (IF def THEN "function" ELSE IF IsGlobal THEN "global" ELSE "local")
      /\ e.sym = Symbol
      BY DEF Announces, Event
<1>4. StdTypes(std) /\ DefinitionsOK(hir, store, std)
      BY DEF Front
<1>5. /\ Len(hir) \in Nat /\ Len(g) = Len(hir) + 1 /\ g[Len(hir) + 1] = e
      /\ \A i \in 1..Len(hir) : g[i] = hir[i]
      BY DEF Grown
<1>6. \A i \in 1..Len(g) : i \in 1..Len(hir) \/ i = Len(hir) + 1
      BY <1>5
<1>7. (\A i \in 1..Len(hir) : i \in 1..Len(g)) /\ Len(hir) + 1 \in 1..Len(g)
      BY <1>5
<1>8. ASSUME NEW i \in 1..Len(hir)
      PROVE  Defining(tt, g[i]) <=> Defining(store, hir[i])
      BY <1>1, <1>5, SameEvent DEF HirOK
<1>9. Defining(tt, e) <=> def \/ (IsGlobal /\ d.form = "object" /\ (d.class # "extern" \/ d.init))
      BY <1>1, <1>2, <1>3 DEF Defining, Announces
<1>10. d.init => d.form = "object"
       BY DEF Announces, Declared
<1>11. ~IsLocal(d, std.env) \/ ~(def \/ IsGlobal)
       BY <1>2 DEF IsLocal, Announces
<1>12. /\ s.faults = std.faults \cup Wrong(d, def)
       /\ StdTypes(s)
       BY AnnouncedStd
<1>13. /\ s.defined = (std.defined \/ (~IsLocal(d, std.env) /\ Defines(d, def)))
       /\ s.tentative = (std.tentative \/ (/\ ~IsLocal(d, std.env) /\ AtFile(std.env)
                                           /\ d.form = "object" /\ d.class # "extern"))
  <2>1. CASE IsLocal(d, std.env)
    <3>1. s.defined = std.defined /\ s.tentative = std.tentative
          BY <1>2, <1>4, <2>1, LocalStd
    <3> QED  BY <1>4, <2>1, <3>1 DEF StdTypes
  <2>2. CASE ~IsLocal(d, std.env)
    <3>1. d \in Declared /\ def \in BOOLEAN
          BY DEF Announces
    <3> QED  BY <1>2, <1>4, <2>2, <3>1, LinkedStd
  <2> QED  BY <2>1, <2>2
<1>14. (~IsLocal(d, std.env) /\ Defines(d, def)) <=> def \/ (IsGlobal /\ d.init)
       BY <1>2, <1>11 DEF Defines
<1> HIDE DEF s, tt
<1>15. (s.defined \/ s.tentative) <=> (std.defined \/ std.tentative) \/ Defining(tt, e)
       BY <1>2, <1>9, <1>10, <1>11, <1>13, <1>14
<1>16. (\E i \in 1..Len(g) : Defining(tt, g[i]))
         <=> (\E i \in 1..Len(hir) : Defining(store, hir[i])) \/ Defining(tt, e)
       BY <1>5, <1>6, <1>7, <1>8
<1>17. (s.defined \/ s.tentative) <=> \E i \in 1..Len(g) : Defining(tt, g[i])
       BY <1>4, <1>15, <1>16 DEF DefinitionsOK
<1>18. \A i \in 1..Len(g) : g[i].op = "function" /\ g[i].sym # 0 => s.defined
       BY <1>3, <1>4, <1>5, <1>6, <1>13, <1>14 DEF DefinitionsOK
<1>19. ASSUME "redefinition" \in s.faults
       PROVE  \E i, j \in 1..Len(g) : i # j /\ Defining(tt, g[i]) /\ Defining(tt, g[j])
  <2>1. CASE "redefinition" \in std.faults
    <3>1. PICK i, j \in 1..Len(hir) : i # j /\ Defining(store, hir[i]) /\ Defining(store, hir[j])
          BY <1>4, <2>1 DEF DefinitionsOK
    <3> QED  BY <1>7, <1>8, <3>1
  <2>2. CASE "redefinition" \in Wrong(d, def)
    <3>1. ~IsLocal(d, std.env) /\ Defines(d, def) /\ std.defined
          BY <2>2, WrongFacts
    <3>2. PICK i \in 1..Len(hir) : Defining(store, hir[i])
          BY <1>4, <3>1 DEF DefinitionsOK
    <3>3. Defining(tt, e)
          BY <1>9, <1>10, <1>14, <3>1
    <3>4. i # Len(hir) + 1
          BY <1>5
    <3> QED  BY <1>5, <1>7, <1>8, <3>2, <3>3, <3>4
  <2> QED  BY <1>12, <1>19, <2>1, <2>2
<1> QED  BY <1>17, <1>18, <1>19 DEF DefinitionsOK, s, tt

\* If it is valid, it agrees with what was declared before.
LEMMA AnnouncedAgree ==
  ASSUME Front, NEW d, NEW def, NEW v, NEW e, Announces(d, def, v, e), NEW g, Grown(hir, e, g),
         StdDeclare(d, def).faults = {}
  PROVE  AgreeOK(g, Append(store, v), StdDeclare(d, def))
<1> DEFINE s  == StdDeclare(d, def)
           tt == Append(store, v)
<1>1. /\ tt[Symbol] = v /\ Extends(store, tt) /\ HirOK(hir, store)
      BY AnnouncedHir DEF Front
<1>2. /\ Symbol \in Nat /\ Symbol # 0 /\ (AtFile(std.env) <=> IsGlobal)
      /\ Len(std.env) \in Nat /\ Len(std.env) # 0 /\ Len(store) \in Nat
      BY FrontFacts
<1>3. /\ e.op = (IF def THEN "function" ELSE IF IsGlobal THEN "global" ELSE "local")
      /\ e.sym = Symbol
      BY DEF Announces, Event
<1>4. Valid /\ Wrong(d, def) = {}
      BY AnnouncedStd DEF Valid
<1>5. StdTypes(std) /\ DefinitionsOK(hir, store, std) /\ AgreeOK(hir, store, std)
      BY <1>4 DEF Front
<1>6. CASE IsLocal(d, std.env)
  <2>1. /\ s.linkage = std.linkage /\ s.form = std.form /\ s.types = std.types
        BY <1>2, <1>5, <1>6, LocalStd
  <2>2. e.op = "local" /\ v.form = "object"
        BY <1>2, <1>3, <1>6 DEF IsLocal, Announces
  <2>3. ~InModule(tt, e)
        BY <1>1, <1>3, <2>2 DEF InModule, InSlot
  <2> HIDE DEF s, tt
  <2>4. AgreeOK(g, tt, std)
        BY <1>1, <1>5, <2>2, <2>3, PlainEvent
  <2>5. AgreeOK(g, tt, s)
        BY <2>1, <2>4 DEF AgreeOK
  <2> QED  BY <2>5 DEF s, tt
<1>7. CASE ~IsLocal(d, std.env)
  <2>1. d \in Declared /\ def \in BOOLEAN /\ v \in Variables
        BY DEF Announces
  <2>2. /\ s.linkage = LinkageOf(d, std.env) /\ s.form = d.form
        /\ s.types = std.types \cup {d.type}
        BY <1>2, <1>5, <1>7, <2>1, LinkedStd
  <2>3. /\ std.linkage \in {"none", s.linkage} /\ std.form \in {"none", d.form}
        /\ ~({"t", "u"} \subseteq std.types \cup {d.type})
        /\ ~(Defines(d, def) /\ std.defined) /\ ~BadClass(d, std.env)
        BY <1>4, <1>7, <2>2, WrongFacts
  <2>4. s.linkage # "none"
        BY <2>2, LinkageKnown
  <2>5. /\ Len(hir) \in Nat /\ Len(g) = Len(hir) + 1 /\ g[Len(hir) + 1] = e
        /\ \A i \in 1..Len(hir) : g[i] = hir[i]
        BY DEF Grown
  <2>6. (\A i \in 1..Len(g) : i \in 1..Len(hir) \/ i = Len(hir) + 1)
        /\ (\A i \in 1..Len(hir) : i \in 1..Len(g)) /\ Len(hir) + 1 \in 1..Len(g)
        BY <2>5
  <2>7. ASSUME NEW i \in 1..Len(hir)
        PROVE  /\ InModule(tt, g[i]) <=> InModule(store, hir[i])
               /\ Names(hir[i]) => tt[g[i].sym] = store[hir[i].sym]
                                   /\ store[hir[i].sym] \in Variables
    <3>1. Names(hir[i]) => hir[i].sym \in 1..Len(store)
          BY <1>1 DEF HirOK
    <3> QED  BY <1>1, <2>5, <3>1, SameEvent, FrontFacts
  <2>8. InModule(tt, e) <=> IsGlobal \/ d.form = "function"
        BY <1>1, <1>2, <1>3, <2>1 DEF InModule, InSlot, Names, Announces, Variables
  <2>9. v.sc # "Register" \/ ~InModule(tt, e)
        BY <1>2, <2>3, <2>8 DEF Announces, BadClass
  <2>10. s.linkage = "external" => d.class # "static"
        BY <2>2 DEF LinkageOf
  <2>11. \A i \in 1..Len(g) : InModule(tt, g[i]) =>
           /\ tt[g[i].sym].form = s.form /\ tt[g[i].sym].type \in s.types
           /\ tt[g[i].sym].sc # "Register"
           /\ s.linkage # "none"
           /\ s.linkage = "external" => tt[g[i].sym].sc # "Static"
    <3>1. TAKE i \in 1..Len(g)
    <3>2. HAVE InModule(tt, g[i])
    <3>3. CASE i \in 1..Len(hir)
      <4>1. InModule(store, hir[i]) /\ Names(hir[i])
            /\ tt[g[i].sym] = store[hir[i].sym] /\ store[hir[i].sym] \in Variables
            BY <2>7, <3>2, <3>3 DEF InModule
      <4>2. /\ store[hir[i].sym].form = std.form /\ store[hir[i].sym].type \in std.types
            /\ store[hir[i].sym].sc # "Register"
            /\ std.linkage # "none"
            /\ std.linkage = "external" => store[hir[i].sym].sc # "Static"
            BY <1>5, <3>3, <4>1 DEF AgreeOK
      <4>3. std.form # "none"
            BY <4>1, <4>2 DEF Variables
      <4> QED  BY <2>2, <2>3, <2>4, <4>1, <4>2, <4>3
    <3>4. CASE i = Len(hir) + 1
      <4>1. g[i] = e /\ tt[g[i].sym] = v
            BY <1>1, <1>3, <2>5, <3>4
      <4>2. v.form = d.form /\ v.type = d.type /\ (v.sc = "Static" <=> d.class = "static")
            BY DEF Announces
      <4> QED  BY <2>2, <2>4, <2>9, <2>10, <3>2, <4>1, <4>2
    <3> QED  BY <2>6, <3>3, <3>4
  <2>12. ASSUME s.linkage = "internal"
         PROVE  \E i \in 1..Len(g) : InModule(tt, g[i]) /\ tt[g[i].sym].sc = "Static"
    <3>1. CASE std.linkage = "internal"
      <4>1. PICK i \in 1..Len(hir) : InModule(store, hir[i]) /\ store[hir[i].sym].sc = "Static"
            BY <1>5, <3>1 DEF AgreeOK
      <4> QED  BY <2>6, <2>7, <4>1 DEF InModule
    <3>2. CASE std.linkage = "none"
      <4>1. Visible(std.env) # Linked
        <5>1. CASE Get = 0 /\ Visible(std.env) = Nothing
              BY <5>1, Denotations
        <5>2. CASE \E m \in 1..Len(scope) :
                     scope[m] # 0 /\ Get = scope[m] /\ Visible(std.env) = std.env[m]
              BY <3>2, <5>2, FrontFacts DEF Front
        <5>3. ScopeOK(hir, store, scope, std.env, Valid)
              BY DEF Front
        <5> QED  BY <5>1, <5>2, <5>3, GetFacts
      <4>2. d.class = "static"
            BY <2>2, <2>12, <4>1 DEF LinkageOf
      <4>3. v.sc = "Static"
            BY <4>2 DEF Announces
      <4>4. IsGlobal \/ d.form = "function"
            BY <1>2, <1>7, <2>1, <4>2 DEF IsLocal, Declared
      <4> QED  BY <1>1, <1>3, <2>5, <2>6, <2>8, <4>3, <4>4
    <3> QED  BY <2>3, <2>12, <3>1, <3>2
  <2>13. \A i, j \in 1..Len(g) : g[i].op = "function" /\ g[i].sym # 0
                                 /\ g[j].op = "function" /\ g[j].sym # 0 => i = j
    <3>1. CASE ~def
      <4>1. e.op # "function"
            BY <1>3, <3>1
      <4> QED  BY <1>5, <2>5, <2>6, <4>1 DEF AgreeOK
    <3>2. CASE def
      <4>1. ~std.defined
            BY <2>3, <3>2 DEF Defines
      <4>2. \A i \in 1..Len(hir) : ~(hir[i].op = "function" /\ hir[i].sym # 0)
            BY <1>5, <4>1 DEF DefinitionsOK
      <4> QED  BY <2>5, <2>6, <4>2
    <3> QED  BY <3>1, <3>2
  <2>14. ~({"t", "u"} \subseteq s.types)
         BY <2>2, <2>3
  <2> QED  BY <2>11, <2>12, <2>13, <2>14 DEF AgreeOK
<1> QED  BY <1>6, <1>7

-----------------------------------------------------------------------------
(* A declaration that is rejected.                                         *)

\* What ends in an error that no valid source with external linkage can meet,
\* or in a block, has the promised outcome.
LEMMA ErrorOutcome ==
  ASSUME NEW reason, result' = Finished("error", reason),
         /\ Valid' /\ std'.linkage = "external"
         /\ reason \notin {"UndeclaredVar", "EmptyProgram"}
         => ~IsGlobal' /\ reason = "IncompatibleRedeclaration"
  PROVE  Outcome'
BY DEF Outcome, ValidNeverPanics, ExternalCompiles, RedefinitionCaught, SymbolAgrees,
       Succeeded, Finished

\* declare rejects, of the valid sources with external linkage, only what is
\* declared twice in a block.
LEMMA Rejected ==
  ASSUME Front, NEW d, NEW def, NEW v, NEW e, Announces(d, def, v, e),
         std' = StdDeclare(d, def), scope' = SetLast(scope, Symbol),
         NEW reason, result' = Finished("error", reason),
         BadClass(d, std.env)
           \/ (reason # "none" /\ reason = DeclareError(scope[Len(scope)], v, d.init \/ def))
  PROVE  Outcome'
<1>1. Len(scope') = Len(scope) /\ (AtFile(std.env) <=> IsGlobal) /\ Len(scope) \in Nat
      /\ Len(scope) # 0
  <2>1. scope \in Seq(0..Symbol) /\ Symbol \in 0..Symbol
    <3>1. 0..Len(store) \subseteq 0..Symbol /\ Symbol \in 0..Symbol
          BY FrontFacts
    <3>2. scope \in Seq(0..Len(store))
          BY DEF Front, ScopeOK
    <3> QED  BY <3>1, <3>2, SeqMonotonic
  <2>2. Len(scope) \in 1..Len(scope)
        BY FrontFacts
  <2> DEFINE R == 0..Symbol
  <2> HIDE DEF R
  <2>3. scope \in Seq(R) /\ Symbol \in R
        BY <2>1 DEF R
  <2>4. Len(SetLast(scope, Symbol)) = Len(scope)
        BY <2>2, <2>3, ExceptSeq DEF SetLast
  <2> QED  BY <2>4, FrontFacts
<1>2. ASSUME Valid', std'.linkage = "external", IsGlobal
      PROVE  FALSE
  <2>1. Valid /\ Wrong(d, def) = {}
        BY <1>2, AnnouncedStd DEF Valid
  <2>2. ~BadClass(d, std.env) /\ ~IsLocal(d, std.env) /\ AtFile(std.env)
        BY <1>1, <1>2, <2>1, WrongFacts DEF IsLocal
  <2>3. /\ StdTypes(std) /\ AgreeOK(hir, store, std)
        /\ ScopeOK(hir, store, scope, std.env, Valid)
        /\ Len(scope) = 1
        BY <1>2, <2>1 DEF Front, IsGlobal
  <2>4. d \in Declared /\ def \in BOOLEAN /\ v \in Variables
        BY DEF Announces
  <2>5. LinkageOf(d, std.env) = "external"
        BY <1>1, <1>2, <2>2, <2>3, <2>4, FrontFacts, LinkedStd
  <2>6. /\ std.linkage \in {"none", "external"} /\ std.form \in {"none", d.form}
        /\ ~({"t", "u"} \subseteq std.types \cup {d.type})
        /\ ~(Defines(d, def) /\ std.defined)
        BY <2>1, <2>2, <2>5, WrongFacts
  <2> DEFINE old == scope[1]
  <2>7. /\ old # 0
        /\ \/ ~MayFollow(store[old], v)
           \/ (d.init \/ def) /\ old \in initialized
        BY <1>2, <2>2, <2>3 DEF DeclareError
  <2>8. PICK j \in 1..Len(hir) : hir[j].sym = old /\ hir[j].op \in {"global", "function"}
                                 /\ Names(hir[j])
        BY <2>3, <2>7 DEF ScopeOK, Entered
  <2>9. InModule(store, hir[j]) /\ store[old] \in Variables
    <3>1. old \in 1..Len(store)
          BY <2>8 DEF Front, HirOK
    <3> QED  BY <2>8, <3>1, FrontFacts DEF InModule, InSlot
  <2>10. /\ store[old].form = std.form /\ store[old].type \in std.types
         /\ store[old].sc # "Register" /\ std.linkage # "none"
         /\ std.linkage = "external" => store[old].sc # "Static"
         BY <2>3, <2>8, <2>9 DEF AgreeOK
  <2>11. CASE ~MayFollow(store[old], v)
    <3>1. store[old].sc \in {"Auto", "Extern"}
          BY <2>6, <2>9, <2>10 DEF Variables
    <3>2. v.sc \in {"Auto", "Extern"}
      <4>1. d.class # "static"
            BY <2>5 DEF LinkageOf
      <4>2. d.class # "register"
            BY <2>2 DEF BadClass
      <4> QED  BY <2>4, <4>1, <4>2 DEF Announces, Variables
    <3>3. v.form = store[old].form
          BY <2>6, <2>9, <2>10 DEF Announces, Variables
    <3>4. v.type = store[old].type \/ "unprototyped" \in {v.type, store[old].type}
      <4>1. v.type \in {"t", "u", "unprototyped"} /\ store[old].type \in {"t", "u", "unprototyped"}
            BY <2>4, <2>9 DEF Variables, Types
      <4>2. v.type = d.type
            BY DEF Announces
      <4> QED  BY <2>6, <2>10, <4>1, <4>2
    <3>5. SameType(store[old], v)
          BY <3>3, <3>4 DEF SameType
    <3> QED  BY <2>11, <3>1, <3>2, <3>5 DEF MayFollow
  <2>12. CASE (d.init \/ def) /\ old \in initialized
    <3>1. std.defined
          BY <2>12 DEF Front
    <3>2. Defines(d, def)
          BY <2>2, <2>12 DEF Defines
    <3> QED  BY <2>6, <3>1, <3>2
  <2> QED  BY <2>7, <2>11, <2>12
<1>3. ASSUME Valid', ~IsGlobal PROVE reason = "IncompatibleRedeclaration"
  <2>1. ~BadClass(d, std.env)
        BY <1>3, AnnouncedStd, WrongFacts DEF Valid
  <2> QED  BY <1>3, <2>1 DEF DeclareError
<1>4. IsGlobal' <=> IsGlobal
      BY <1>1 DEF IsGlobal
<1> QED  BY <1>2, <1>3, <1>4, ErrorOutcome

-----------------------------------------------------------------------------
(* The steps that read the source.                                         *)

\* The invariant of a state of the analyzer: it goes on or it has stopped.
ReadOn == phase' = "read" /\ result' = Pending /\ Front' /\ Started'
Stopped == phase' = "done" /\ Outcome'

\* declare of one declarator.
LEMMA DeclareStep ==
  ASSUME phase = "read", result = Pending, Front, Started,
         NEW d \in Declared, Declare(d)
  PROVE  ReadOn \/ Stopped
<1> DEFINE sc    == IF d.class = "extern" /\ d.form = "object" /\ d.init THEN "Auto"
                    ELSE Storage(d.class)
           new   == Variable(d.form, sc, d.type)
           error == IF d.class = "auto" /\ IsGlobal THEN "AutoAtGlobalScope"
                    ELSE DeclareError(scope[Len(scope)], new, d.init)
           e     == Event(IF IsGlobal THEN "global" ELSE "local", Symbol, Nothing)
<1>1. /\ std' = StdDeclare(d, FALSE) /\ Insert(new)
      /\ \/ error # "none" /\ Reject(error)
         \/ /\ error = "none"
            /\ initialized' = initialized \cup (IF d.init THEN {Symbol} ELSE {})
            /\ Emit(<<e>>)
            /\ Accept
      BY DEF Declare
<1>2. d.class \in Classes /\ d.form \in {"object", "function"} /\ d.type \in Types
      /\ d.init \in BOOLEAN
      BY DEF Declared, Types
<1>3. /\ sc \in {"Auto", "Register", "Static", "Extern"}
      /\ sc = "Static" <=> d.class = "static"
      /\ sc = "Register" => d.class = "register"
      /\ d.form = "object" => (sc = "Extern" <=> d.class = "extern" /\ ~d.init)
  <2>1. d.class \in {"none", "auto", "register", "static", "extern"}
        BY <1>2 DEF Classes
  <2>2. CASE d.class = "extern"
        BY <2>2 DEF Storage
  <2>3. CASE d.class # "extern"
        BY <2>1, <2>3 DEF Storage
  <2> QED  BY <2>2, <2>3
<1> HIDE DEF sc
<1>4. new \in Variables /\ new.form = d.form /\ new.type = d.type /\ new.sc = sc
      BY <1>2, <1>3 DEF Variable, Variables
<1>5. Announces(d, FALSE, new, e)
      BY <1>3, <1>4 DEF Announces
<1> HIDE DEF new
<1>6. CASE error # "none" /\ Reject(error)
  <2>1. phase' = "done" /\ result' = Finished("error", error) /\ scope' = SetLast(scope, Symbol)
        BY <1>1, <1>6 DEF Reject, Insert
  <2>2. CASE d.class = "auto" /\ IsGlobal
    <3>1. BadClass(d, std.env)
          BY <2>2, FrontFacts DEF BadClass
    <3>2. Outcome'
          BY <1>1, <1>5, <2>1, <3>1, Rejected
    <3> QED  BY <2>1, <3>2 DEF Stopped
  <2>3. CASE ~(d.class = "auto" /\ IsGlobal)
    <3>1. error # "none" /\ error = DeclareError(scope[Len(scope)], new, d.init \/ FALSE)
          BY <1>2, <1>6, <2>3
    <3> HIDE DEF error
    <3>2. Outcome'
          BY <1>1, <1>5, <2>1, <3>1, Rejected
    <3> QED  BY <2>1, <3>2 DEF Stopped
  <2> QED  BY <2>2, <2>3
<1>7. CASE error = "none" /\ Accept /\ Emit(<<e>>)
           /\ initialized' = initialized \cup (IF d.init THEN {Symbol} ELSE {})
  <2> DEFINE g == Append(hir, e)
  <2>1. Symbol \in Nat /\ Symbol = Len(store) + 1 /\ Len(scope) \in Nat /\ Len(scope) # 0
        /\ (AtFile(std.env) <=> IsGlobal) /\ Len(std.env) \in Nat /\ Len(std.env) # 0
        /\ Len(store) \in Nat
        BY FrontFacts
  <2>2. e \in Events
        BY <2>1, Denotations DEF Event, Events, Ops
  <2>3. hir \in Seq(Events)
        BY DEF Front, HirOK
  <2>4. Grown(hir, e, g)
        BY <2>2, <2>3, AppendGrows
  <2>5. hir' = g
        BY <1>7, <2>2, <2>3, EmitIsAppend DEF Emit
  <2>6. store' = Append(store, new) /\ scope' = SetLast(scope, Symbol)
        BY <1>1 DEF Insert
  <2>7. e.op = (IF IsGlobal THEN "global" ELSE "local")
        BY DEF Event
  <2> HIDE DEF g, e, error
  <2>0. /\ initialized \subseteq 1..Len(store)
        /\ \A s \in initialized' : s \in initialized \/ (s = Symbol /\ d.init)
        /\ Symbol \notin initialized
        BY <1>7, <2>1 DEF Front
  <2>8. /\ store' \in Seq(Variables) /\ Len(store') = Symbol
        /\ HirOK(hir', store')
        /\ LoadsOK(hir', store', Valid')
    <3>1. Valid' => Valid
          BY <1>1, <1>5, AnnouncedStd DEF Valid
    <3> QED  BY <1>5, <2>4, <2>5, <2>6, <3>1, AnnouncedHir
  <2>9. /\ ScopeOK(hir', store', scope', std'.env, Valid')
        /\ Len(scope') = Len(scope)
        BY <1>1, <1>5, <2>4, <2>5, <2>6, AnnouncedScope DEF Valid
  <2>10. /\ StdTypes(std')
         /\ \A i \in 1..Len(std'.env) : std'.env[i] = Linked => std'.linkage # "none"
         BY <1>1, <1>5, AnnouncedStd
  <2>11. DefinitionsOK(hir', store', std')
         BY <1>1, <1>5, <2>4, <2>5, <2>6, AnnouncedDefinitions
  <2>12. Valid' => AgreeOK(hir', store', std')
         BY <1>1, <1>5, <2>4, <2>5, <2>6, AnnouncedAgree DEF Valid
  <2>13. IsGlobal' <=> ~Inside(hir', Len(hir'))
         BY <2>4, <2>5, <2>7, <2>9, InsideGrows DEF Front, IsGlobal
  <2>14. initialized' \subseteq 1..Len(store')
     <3>1. 1..Len(store) \subseteq 1..Symbol /\ Symbol \in 1..Symbol
          BY <2>1
    <3>2. ASSUME NEW s \in initialized' PROVE s \in 1..Symbol
          BY <2>0, <3>1, <3>2
    <3>3. Len(store') = Symbol
          BY <2>8
    <3> QED  BY <3>2, <3>3
  <2>15. scope'[1] \in initialized' => std'.defined
    <3>1. scope \in [1..Len(scope) -> 0..Len(store)] /\ 1 \in 1..Len(scope)
      <4> DEFINE R == 0..Len(store)
      <4>1. scope \in Seq(R)
            BY DEF Front, ScopeOK
      <4> HIDE DEF R
      <4>2. scope \in [1..Len(scope) -> R]
            BY <4>1, LenProperties
      <4> QED  BY <2>1, <4>2 DEF R
    <3>2. scope'[1] = IF Len(scope) = 1 THEN Symbol ELSE scope[1]
          BY <2>1, <2>6, <3>1 DEF SetLast
    <3>3. CASE IsLocal(d, std.env)
      <4>1. scope'[1] = scope[1] /\ scope[1] # Symbol
            BY <2>1, <3>1, <3>2, <3>3 DEF IsLocal, AtFile, IsGlobal
      <4>2. std'.defined = std.defined
            BY <1>1, <2>1, <3>3, LocalStd DEF Front
      <4>3. scope[1] \in initialized => std.defined
            BY DEF Front
      <4> QED  BY <2>0, <4>1, <4>2, <4>3
    <3>4. CASE ~IsLocal(d, std.env)
      <4>1. std'.defined = (std.defined \/ Defines(d, FALSE))
            BY <1>1, <2>1, <3>4, LinkedStd DEF Front
      <4>2. scope[1] \in initialized => std.defined
            BY DEF Front
      <4>3. CASE Len(scope) = 1
        <5>1. scope'[1] = Symbol /\ Symbol \notin initialized
              BY <2>0, <3>2, <4>3
        <5>2. Symbol \in initialized' => d.init
              BY <2>0, <5>1
        <5>3. d.init => Defines(d, FALSE)
              BY <2>1, <4>3 DEF Defines, IsGlobal
        <5> QED  BY <4>1, <5>1, <5>2, <5>3
      <4>4. CASE Len(scope) # 1
        <5>1. scope'[1] = scope[1] /\ scope[1] # Symbol
              BY <2>1, <3>1, <3>2, <4>4
        <5> QED  BY <2>0, <4>1, <4>2, <5>1
      <4> QED  BY <4>3, <4>4
    <3> QED  BY <3>3, <3>4
  <2>16. Front'
         BY <2>8, <2>9, <2>10, <2>11, <2>12, <2>13, <2>14, <2>15 DEF Front
  <2> QED  BY <1>7, <2>16 DEF Accept, ReadOn, Started, back
<1> QED  BY <1>1, <1>6, <1>7

\* The part of the invariant that is about scopes, variables and events.
Body(h, st, sc, env, s, w) ==
  /\ st \in Seq(Variables)
  /\ HirOK(h, st) /\ LoadsOK(h, st, w) /\ ScopeOK(h, st, sc, env, w)
  /\ DefinitionsOK(h, st, s)
  /\ w => AgreeOK(h, st, s)

\* A scope is opened.
LEMMA BodyPush ==
  ASSUME NEW h, NEW st, NEW sc, NEW env, NEW s, NEW w, Body(h, st, sc, env, s, w)
  PROVE  /\ Body(h, st, Append(sc, 0), Append(env, Nothing), s, w)
         /\ Len(Append(sc, 0)) = Len(sc) + 1
<1>1. Len(st) \in Nat
      BY LenProperties DEF Body
<1>2. 0 \in 0..Len(st) /\ Nothing \in Seq(Nat)
      BY <1>1, Denotations
<1>3. ScopeOK(h, st, sc, env, w)
      BY DEF Body
<1>4. /\ ScopeOK(h, st, Append(sc, 0), Append(env, Nothing), w)
      /\ Len(Append(sc, 0)) = Len(sc) + 1
      BY <1>1, <1>2, <1>3, ScopePush
<1> QED  BY <1>4 DEF Body

\* An event that declares nothing.
LEMMA BodyEvent ==
  ASSUME NEW h, NEW st, NEW sc, NEW env, NEW s, NEW w, Body(h, st, sc, env, s, w),
         NEW e \in Events, ~Names(e),
         e.op \in {"global", "function"} <=> ~Inside(h, Len(h)),
         e.op # "function" \/ Len(sc) = 1,
         e.op = "load" =>
           \E j \in 1..Len(h) :
             /\ Names(h[j]) /\ h[j].sym = e.sym
             /\ InSlot(st, h[j]) => SameBody(h, j, Len(h))
             /\ w => DenotedBy(st, h[j], e.denotes)
  PROVE  /\ Body(Append(h, e), st, sc, env, s, w)
         /\ Grown(h, e, Append(h, e))
<1> DEFINE g == Append(h, e)
<1>1. h \in Seq(Events)
      BY DEF Body, HirOK
<1>2. Grown(h, e, g)
      BY <1>1, AppendGrows
<1> HIDE DEF g
<1>3. Extends(st, st) /\ st \in Seq(Variables)
      BY ExtendsItself DEF Body
<1>4. HirOK(g, st)
      BY <1>2, HirGrows DEF Body
<1>5. LoadsOK(g, st, w)
      BY <1>2, LoadsGrow DEF Body
<1>6. ScopeOK(g, st, sc, env, w)
      BY <1>2, ScopeEvent DEF Body
<1>7. ~InModule(st, e) /\ e.op # "global"
      BY DEF InModule, Names
<1>8. /\ DefinitionsOK(g, st, s)
      /\ w => AgreeOK(g, st, s)
      BY <1>2, <1>3, <1>7, PlainEvent DEF Body
<1> QED  BY <1>2, <1>3, <1>4, <1>5, <1>6, <1>8 DEF Body, g

\* A scope is opened with a parameter in it.
LEMMA BodyParam ==
  ASSUME NEW h, NEW st, NEW sc, NEW env, NEW s, NEW w, Body(h, st, sc, env, s, w),
         Inside(h, Len(h)), Len(sc) \in Nat, Len(sc) # 0
  PROVE  LET n  == Len(st) + 1
             e  == Event("param", n, Nothing)
             g  == Append(h, e)
             tt == Append(st, Variable("object", "Auto", "t"))
         IN  /\ e \in Events
             /\ Body(g, tt, Append(sc, n), Append(env, <<n>>), s, w)
             /\ Grown(h, e, g) /\ Inside(g, Len(g))
             /\ Len(Append(sc, n)) = Len(sc) + 1
             /\ Len(tt) = n
<1> DEFINE n  == Len(st) + 1
           v  == Variable("object", "Auto", "t")
           e  == Event("param", n, Nothing)
           g  == Append(h, e)
           tt == Append(st, v)
<1>1. v \in Variables /\ v.form = "object"
      BY DEF Variable, Variables, Types
<1>2. /\ tt \in Seq(Variables) /\ Len(st) \in Nat /\ Len(tt) = n /\ tt[n] = v
      /\ Extends(st, tt)
      BY <1>1, OneMore DEF Body
<1>3. e \in Events /\ e.op = "param" /\ e.sym = n
      BY <1>2, Denotations DEF Event, Events, Ops
<1>4. h \in Seq(Events) /\ HirOK(h, st)
      BY DEF Body, HirOK
<1>5. Grown(h, e, g)
      BY <1>3, <1>4, AppendGrows
<1> HIDE DEF e, g, v, tt
<1>6. Inside(g, Len(g))
      BY <1>3, <1>5, InsideGrows
<1>7. HirOK(h, tt)
      BY <1>2, <1>4, HirStore
<1>8. \A i \in 1..Len(h) : Names(h[i]) => h[i].sym < e.sym
      BY <1>2, <1>3, <1>4 DEF HirOK
<1>9. e.sym \in 1..Len(tt) /\ tt[e.sym].form = "object"
      BY <1>1, <1>2, <1>3
<1>10. HirOK(g, tt)
       BY <1>3, <1>5, <1>7, <1>8, <1>9, HirGrows
<1>11. LoadsOK(g, tt, w)
  <2>1. LoadsOK(h, tt, w)
        BY <1>2, <1>4, LoadsStore DEF Body
  <2> QED  BY <1>3, <1>5, <2>1, LoadsGrow
<1>12. /\ ScopeOK(g, tt, Append(sc, n), Append(env, <<n>>), w)
       /\ Len(Append(sc, n)) = Len(sc) + 1
  <2>1. ScopeOK(h, tt, sc, env, w)
        BY <1>2, <1>4, ScopeStore DEF Body
  <2>2. ScopeOK(g, tt, sc, env, w)
        BY <1>3, <1>5, <2>1, ScopeEvent
  <2>3. <<n>> \in Seq(Nat) /\ <<n>> # Nothing /\ n # 0 /\ n \in 0..Len(tt) /\ Len(tt) \in Nat
        BY <1>2, Denotations
  <2>4. Len(g) = Len(h) + 1 /\ Len(h) \in Nat /\ g[Len(h) + 1] = e
        BY <1>5 DEF Grown
  <2>5. Entered(g, tt, w, Len(sc) + 1, n, <<n>>, Len(h) + 1)
    <3>1. Names(e) /\ InSlot(tt, e)
          BY <1>3 DEF Names, InSlot
    <3>2. SameBody(g, Len(h) + 1, Len(g))
          BY <2>4 DEF SameBody
    <3>3. DenotedBy(tt, e, <<n>>)
          BY <1>3, <3>1 DEF DenotedBy
    <3>4. Len(sc) + 1 # 1
          OBVIOUS
    <3> QED  BY <1>3, <2>4, <3>1, <3>2, <3>3, <3>4 DEF Entered
  <2>6. Len(h) + 1 \in 1..Len(g)
        BY <2>4
  <2>7. \E j \in 1..Len(g) : Entered(g, tt, w, Len(sc) + 1, n, <<n>>, j)
        BY <2>5, <2>6
  <2> HIDE DEF n
  <2> QED  BY <2>2, <2>3, <2>7, ScopePush
<1>13. ~InModule(tt, e) /\ e.op # "global"
       BY <1>3 DEF InModule, InSlot
<1>14. /\ DefinitionsOK(g, tt, s)
       /\ w => AgreeOK(g, tt, s)
       BY <1>2, <1>4, <1>5, <1>13, PlainEvent DEF Body
<1>15. Body(g, tt, Append(sc, n), Append(env, <<n>>), s, w)
       BY <1>2, <1>10, <1>11, <1>12, <1>14 DEF Body
<1> QED  BY <1>2, <1>3, <1>5, <1>6, <1>12, <1>15 DEF e, g, v, tt

\* What the standard says besides what x denotes stays.
LEMMA StdEnv ==
  ASSUME NEW s, StdTypes(s), NEW env \in Seq(Seq(Nat))
  PROVE  LET t == [s EXCEPT !.env = env]
         IN  /\ StdTypes(t) /\ t.env = env /\ t.faults = s.faults
             /\ t.linkage = s.linkage /\ t.defined = s.defined
             /\ \A h, st, sc, w : Body(h, st, sc, env, s, w) => Body(h, st, sc, env, t, w)
<1> DEFINE t == [s EXCEPT !.env = env]
<1>1. StdTypes(t)
      BY DEF StdTypes
<1>2. /\ t.env = env /\ t.linkage = s.linkage /\ t.form = s.form /\ t.types = s.types
      /\ t.defined = s.defined /\ t.tentative = s.tentative /\ t.faults = s.faults
      BY DEF StdTypes
<1> HIDE DEF t
<1>3. ASSUME NEW h, NEW st, NEW sc, NEW w, Body(h, st, sc, env, s, w)
      PROVE  Body(h, st, sc, env, t, w)
  <2>1. DefinitionsOK(h, st, s) => DefinitionsOK(h, st, t)
        BY <1>2 DEF DefinitionsOK
  <2>2. AgreeOK(h, st, s) => AgreeOK(h, st, t)
        BY <1>2 DEF AgreeOK
  <2> QED  BY <1>3, <2>1, <2>2 DEF Body
<1> QED  BY <1>1, <1>2, <1>3 DEF t

\* A scope in which x does not have linkage.
LEMMA PushedEnv ==
  ASSUME NEW env \in Seq(Seq(Nat)), NEW x \in Seq(Nat), x # Linked,
         NEW P, \A i \in 1..Len(env) : env[i] = Linked => P
  PROVE  /\ \A i \in 1..Len(Append(env, x)) : Append(env, x)[i] = Linked => P
         /\ env \o <<x>> = Append(env, x) /\ Append(env, x) \in Seq(Seq(Nat))
<1>1. /\ Len(Append(env, x)) = Len(env) + 1 /\ Append(env, x)[Len(env) + 1] = x
      /\ \A i \in 1..Len(env) : Append(env, x)[i] = env[i]
      /\ Append(env, x) \in Seq(Seq(Nat)) /\ Len(env) \in Nat
      BY AppendProperties, LenProperties
<1>2. \A i \in 1..Len(env) + 1 : i \in 1..Len(env) \/ i = Len(env) + 1
      BY <1>1
<1>3. env \o <<x>> = Append(env, x)
      BY AppendIsConcat
<1> QED  BY <1>1, <1>2, <1>3

\* The parts put together again.
LEMMA FrontAgain ==
  ASSUME Body(hir', store', scope', std'.env, std', Valid'), StdTypes(std'),
         initialized' \subseteq 1..Len(store'),
         IsGlobal' <=> ~Inside(hir', Len(hir')),
         scope'[1] \in initialized' => std'.defined,
         \A i \in 1..Len(std'.env) : std'.env[i] = Linked => std'.linkage # "none"
  PROVE  Front'
BY DEF Front, Body

\* and taken apart.
LEMMA FrontParts ==
  ASSUME Front
  PROVE  Body(hir, store, scope, std.env, std, Valid)
BY DEF Front, Body

\* The definition of a function of another name.
LEMMA DefineOtherStep ==
  ASSUME phase = "read", result = Pending, Front, Started, DefineOther
  PROVE  ReadOn
<1> DEFINE e  == Event("function", 0, Nothing)
           g  == Append(hir, e)
           n  == Len(store) + 1
           e2 == Event("param", n, Nothing)
           v  == Variable("object", "Auto", "t")
<1>1. IsGlobal /\ initialized' = initialized /\ Accept
      BY DEF DefineOther
<1>2. PICK param \in BOOLEAN :
        /\ store' = Parameter(param, store)
        /\ scope' = WithScope(scope, IF param THEN Symbol ELSE 0)
        /\ std' = [std EXCEPT !.env = Append(@, IF param THEN <<Symbol>> ELSE Nothing)]
        /\ Emit(<<e>> \o (IF param THEN <<Event("param", Symbol, Nothing)>> ELSE <<>>))
      BY DEF DefineOther
<1>3. /\ Symbol = n /\ n \in Nat /\ n # 0 /\ Len(scope) = 1 /\ Len(store) \in Nat
      /\ hir \in Seq(Events) /\ std.env \in Seq(Seq(Nat)) /\ scope[1] \in 0..Len(store)
      BY <1>1, FrontFacts DEF IsGlobal, Front, HirOK, ScopeOK
<1>4. e \in Events /\ ~Names(e) /\ e.op = "function"
      BY Denotations DEF Event, Events, Ops, Names
<1>5. Body(g, store, scope, std.env, std, Valid) /\ Grown(hir, e, g)
  <2>1. ~Inside(hir, Len(hir))
        BY <1>1 DEF Front
  <2> HIDE DEF e
  <2> QED  BY <1>3, <1>4, <2>1, FrontParts, BodyEvent
<1>6. Inside(g, Len(g))
  <2> HIDE DEF g
  <2> QED  BY <1>4, <1>5, InsideGrows
<1>7. StdTypes(std) /\ \A i \in 1..Len(std.env) : std.env[i] = Linked => std.linkage # "none"
      BY DEF Front
<1>8. scope' = Append(scope, IF param THEN n ELSE 0) /\ scope'[1] = scope[1]
  <2>1. scope' = Append(scope, IF param THEN n ELSE 0)
        BY <1>2, <1>3 DEF WithScope
  <2>2. scope \in Seq(Nat) /\ 1 \in 1..Len(scope)
    <3>1. scope \in Seq(0..Len(store)) /\ 0..Len(store) \subseteq Nat
          BY <1>3 DEF Front, ScopeOK
    <3> QED  BY <1>3, <3>1, SeqMonotonic
  <2>3. (IF param THEN n ELSE 0) \in Nat
        BY <1>3
  <2> QED  BY <2>1, <2>2, <2>3, AppendProperties
<1>9. CASE ~param
  <2>1. hir' = g /\ store' = store
        BY <1>2, <1>3, <1>4, <1>9, EmitIsAppend DEF Emit, Parameter
  <2>2. scope' = Append(scope, 0) /\ std' = [std EXCEPT !.env = Append(std.env, Nothing)]
        BY <1>2, <1>8, <1>9, <1>7 DEF StdTypes
  <2>3. /\ Body(g, store, Append(scope, 0), Append(std.env, Nothing), std, Valid)
        /\ Len(scope') = 2
    <3>1. Body(g, store, scope, std.env, std, Valid)
          BY <1>5
    <3> HIDE DEF g
    <3>2. /\ Body(g, store, Append(scope, 0), Append(std.env, Nothing), std, Valid)
          /\ Len(Append(scope, 0)) = Len(scope) + 1
          BY <3>1, BodyPush
    <3> QED  BY <1>3, <2>2, <3>2
  <2>4. /\ \A i \in 1..Len(Append(std.env, Nothing)) :
             Append(std.env, Nothing)[i] = Linked => std.linkage # "none"
        /\ Append(std.env, Nothing) \in Seq(Seq(Nat))
        BY <1>3, <1>7, Denotations, PushedEnv
  <2>5. /\ StdTypes(std') /\ std'.env = Append(std.env, Nothing) /\ std'.linkage = std.linkage
        /\ std'.defined = std.defined /\ std'.faults = std.faults
        /\ Body(g, store, Append(scope, 0), Append(std.env, Nothing), std', Valid)
        BY <1>7, <2>2, <2>3, <2>4, StdEnv
  <2>6. Body(hir', store', scope', std'.env, std', Valid')
        BY <2>1, <2>2, <2>5 DEF Valid
  <2>7. ~IsGlobal' /\ Inside(hir', Len(hir'))
        BY <1>6, <2>1, <2>3 DEF IsGlobal
  <2>8. initialized' \subseteq 1..Len(store') /\ (scope'[1] \in initialized' => std'.defined)
        BY <1>1, <1>8, <2>1, <2>5 DEF Front
  <2> QED  BY <1>1, <2>4, <2>5, <2>6, <2>7, <2>8, FrontAgain DEF Accept, ReadOn, Started, back
<1>10. CASE param
  <2> DEFINE tt == Append(store, v)
             gg == Append(g, e2)
  <2>1. /\ e2 \in Events
        /\ Body(gg, tt, Append(scope, n), Append(std.env, <<n>>), std, Valid)
        /\ Inside(gg, Len(gg)) /\ Len(Append(scope, n)) = Len(scope) + 1
        /\ Len(tt) = n
    <3>1. Body(g, store, scope, std.env, std, Valid) /\ Inside(g, Len(g))
          /\ Len(scope) \in Nat /\ Len(scope) # 0
          BY <1>3, <1>5, <1>6
    <3> HIDE DEF g
    <3> QED  BY <3>1, BodyParam
  <2>2. hir' = gg
        BY <1>2, <1>3, <1>4, <1>10, <2>1, EmitIsAppend DEF Emit
  <2>3. store' = tt
    <3>1. store \in Seq(Variables) /\ v \in Variables
          BY DEF Front, Variable, Variables, Types
    <3> QED  BY <1>2, <1>10, <3>1, AppendIsConcat DEF Parameter
  <2>4. scope' = Append(scope, n) /\ std' = [std EXCEPT !.env = Append(std.env, <<n>>)]
        BY <1>2, <1>3, <1>8, <1>10, <1>7 DEF StdTypes
  <2> HIDE DEF tt, gg
  <2>5. /\ \A i \in 1..Len(Append(std.env, <<n>>)) :
             Append(std.env, <<n>>)[i] = Linked => std.linkage # "none"
        /\ Append(std.env, <<n>>) \in Seq(Seq(Nat))
    <3>1. <<n>> \in Seq(Nat) /\ <<n>> # Linked
          BY <1>3, Denotations
    <3> QED  BY <1>3, <1>7, <3>1, PushedEnv
  <2>6. /\ StdTypes(std') /\ std'.env = Append(std.env, <<n>>) /\ std'.linkage = std.linkage
        /\ std'.defined = std.defined /\ std'.faults = std.faults
        /\ Body(gg, tt, Append(scope, n), Append(std.env, <<n>>), std', Valid)
        BY <1>7, <2>1, <2>4, <2>5, StdEnv
  <2>7. Body(hir', store', scope', std'.env, std', Valid')
        BY <2>2, <2>3, <2>4, <2>6 DEF Valid
  <2>8. ~IsGlobal' /\ Inside(hir', Len(hir'))
        BY <1>3, <2>1, <2>2, <2>4 DEF IsGlobal
  <2>9. initialized' \subseteq 1..Len(store') /\ (scope'[1] \in initialized' => std'.defined)
    <3>1. initialized \subseteq 1..Len(store) /\ 1..Len(store) \subseteq 1..n
          BY <1>3 DEF Front
    <3> QED  BY <1>1, <1>8, <2>1, <2>3, <2>6, <3>1 DEF Front
  <2> QED  BY <1>1, <2>5, <2>6, <2>7, <2>8, <2>9, FrontAgain DEF Accept, ReadOn, Started, back
<1> QED  BY <1>9, <1>10

\* The only scope is the file's.
LEMMA OneScope ==
  ASSUME Front, IsGlobal
  PROVE  SetLast(scope, Symbol) = <<Symbol>>
<1>1. scope \in Seq(Nat) /\ Len(scope) = 1 /\ Symbol \in Nat /\ Len(scope) \in 1..Len(scope)
  <2>1. scope \in Seq(0..Len(store)) /\ 0..Len(store) \subseteq Nat
        BY FrontFacts DEF Front, ScopeOK
  <2>2. scope \in Seq(Nat)
        BY <2>1, SeqMonotonic
  <2> QED  BY <2>2, FrontFacts DEF IsGlobal
<1>2. /\ SetLast(scope, Symbol) \in Seq(Nat) /\ Len(SetLast(scope, Symbol)) = 1
      /\ SetLast(scope, Symbol)[1] = Symbol
  <2>1. SetLast(scope, Symbol) = [scope EXCEPT ![1] = Symbol] /\ 1 \in 1..Len(scope)
        BY <1>1 DEF SetLast
  <2>2. /\ [scope EXCEPT ![1] = Symbol] \in Seq(Nat)
        /\ Len([scope EXCEPT ![1] = Symbol]) = Len(scope)
        /\ [scope EXCEPT ![1] = Symbol][1] = Symbol
        BY <1>1, <2>1, ExceptSeq
  <2> QED  BY <1>1, <2>1, <2>2
<1>3. <<Symbol>> \in Seq(Nat) /\ Len(<<Symbol>>) = 1 /\ <<Symbol>>[1] = Symbol
      BY <1>1, EmptySeq, AppendProperties
<1>4. \A i \in 1..Len(<<Symbol>>) : i = 1
      BY <1>3
<1> HIDE DEF SetLast
<1> QED  BY <1>2, <1>3, <1>4, SeqEqual

\* The definition of x.
LEMMA DefineXStep ==
  ASSUME phase = "read", result = Pending, Front, Started, DefineX
  PROVE  ReadOn \/ Stopped
<1>1. PICK d \in Definitions, param \in BOOLEAN :
       LET sc    == IF d.class = "static" THEN "Static" ELSE "Extern"
           decl  == [form |-> "function", class |-> d.class, type |-> d.type, init |-> FALSE]
           new   == Variable("function", sc, d.type)
           seen  == StdDeclare(decl, TRUE)
           error == IF d.class \in {"auto", "register"} THEN "InvalidFuncStorageClass"
                    ELSE DeclareError(scope[1], new, TRUE)
       IN  \/ error # "none" /\ std' = seen /\ Insert(new) /\ Reject(error)
           \/ /\ error = "none"
              /\ store' = Parameter(param, Append(store, new))
              /\ scope' = WithScope(<<Symbol>>, IF param THEN Symbol + 1 ELSE 0)
              /\ std' = [seen EXCEPT !.env = @ \o <<IF param THEN <<Symbol + 1>> ELSE Nothing>>]
              /\ Emit(<<Event("function", Symbol, Nothing)>> \o
                      (IF param THEN <<Event("param", Symbol + 1, Nothing)>> ELSE <<>>))
              /\ UNCHANGED initialized
              /\ Accept
      BY DEF DefineX
<1> DEFINE sc    == IF d.class = "static" THEN "Static" ELSE "Extern"
           decl  == [form |-> "function", class |-> d.class, type |-> d.type, init |-> FALSE]
           new   == Variable("function", sc, d.type)
           seen  == StdDeclare(decl, TRUE)
           error == IF d.class \in {"auto", "register"} THEN "InvalidFuncStorageClass"
                    ELSE DeclareError(scope[1], new, TRUE)
           e     == Event("function", Symbol, Nothing)
           g     == Append(hir, e)
           tt    == Append(store, new)
           w     == seen.faults = {}
           n     == Symbol + 1
           v     == Variable("object", "Auto", "t")
           e2    == Event("param", n, Nothing)
<1>2. IsGlobal /\ Len(scope) = 1
      BY DEF DefineX, IsGlobal
<1>3. d.class \in Classes /\ d.type \in Types
      BY DeclarationsAssumption
<1>4. /\ decl \in Declared /\ decl.form = "function" /\ decl.class = d.class
      /\ decl.type = d.type /\ decl.init = FALSE
      BY <1>3 DEF Declared
<1> HIDE DEF decl
<1>5. new \in Variables /\ new.form = "function" /\ new.type = d.type /\ new.sc = sc
      BY <1>3 DEF Variable, Variables
<1>6. Announces(decl, TRUE, new, e)
      BY <1>2, <1>4, <1>5 DEF Announces
<1>7. CASE error # "none" /\ std' = seen /\ Insert(new) /\ Reject(error)
  <2>1. /\ phase' = "done" /\ result' = Finished("error", error)
        /\ scope' = SetLast(scope, Symbol) /\ std' = StdDeclare(decl, TRUE)
        BY <1>7 DEF Reject, Insert
  <2>2. CASE d.class \in {"auto", "register"}
    <3>1. BadClass(decl, std.env)
          BY <1>4, <2>2 DEF BadClass
    <3> HIDE DEF new, error
    <3>2. Outcome'
          BY <1>6, <2>1, <3>1, Rejected
    <3> QED  BY <2>1, <3>2 DEF Stopped
  <2>3. CASE d.class \notin {"auto", "register"}
    <3>1. error # "none" /\ error = DeclareError(scope[Len(scope)], new, decl.init \/ TRUE)
      <4>1. (decl.init \/ TRUE) = TRUE
            BY <1>4
      <4> QED  BY <1>2, <1>7, <2>3, <4>1
    <3> HIDE DEF new, error
    <3>2. Outcome'
          BY <1>6, <2>1, <3>1, Rejected
    <3> QED  BY <2>1, <3>2 DEF Stopped
  <2> QED  BY <2>2, <2>3
<1>8. CASE /\ error = "none"
           /\ store' = Parameter(param, tt)
           /\ scope' = WithScope(<<Symbol>>, IF param THEN n ELSE 0)
           /\ std' = [seen EXCEPT !.env = @ \o <<IF param THEN <<n>> ELSE Nothing>>]
           /\ Emit(<<e>> \o (IF param THEN <<e2>> ELSE <<>>))
           /\ UNCHANGED initialized
           /\ Accept
  <2>1. /\ Symbol \in Nat /\ Symbol = Len(store) + 1 /\ n \in Nat /\ n # 0 /\ Len(store) \in Nat
        BY FrontFacts
  <2>2. hir \in Seq(Events) /\ e \in Events /\ e.op = "function"
        BY <2>1, Denotations DEF Front, HirOK, Event, Events, Ops
  <2>3. Grown(hir, e, g)
        BY <2>2, AppendGrows
  <2>4. /\ StdTypes(seen) /\ seen.faults = std.faults \cup Wrong(decl, TRUE)
        /\ \A i \in 1..Len(seen.env) : seen.env[i] = Linked => seen.linkage # "none"
        BY <1>6, AnnouncedStd
  <2>5. seen.env \in Seq(Seq(Nat))
    <3> HIDE DEF seen
    <3> QED  BY <2>4 DEF StdTypes
  <2> HIDE DEF e, g, new
  <2>6. Body(g, tt, <<Symbol>>, seen.env, seen, w) /\ Len(tt) = Symbol
    <3>1. w => Valid
          BY <2>4 DEF Valid
    <3>2. /\ tt \in Seq(Variables) /\ Len(tt) = Symbol
          /\ HirOK(g, tt) /\ LoadsOK(g, tt, w)
          BY <1>6, <2>3, <3>1, AnnouncedHir
    <3>3. ScopeOK(g, tt, <<Symbol>>, seen.env, w)
          BY <1>2, <1>6, <2>3, AnnouncedScope, OneScope
    <3>4. DefinitionsOK(g, tt, seen)
          BY <1>6, <2>3, AnnouncedDefinitions
    <3>5. w => AgreeOK(g, tt, seen)
          BY <1>6, <2>3, AnnouncedAgree
    <3> QED  BY <3>2, <3>3, <3>4, <3>5 DEF Body
  <2>7. Inside(g, Len(g))
        BY <2>2, <2>3, InsideGrows
  <2> HIDE DEF tt, seen
  <2>8. Len(<<Symbol>>) = 1 /\ <<Symbol>> \in Seq(Nat) /\ <<Symbol>>[1] = Symbol
        BY <2>1, EmptySeq, AppendProperties
  <2>9. scope' = Append(<<Symbol>>, IF param THEN n ELSE 0) /\ scope'[1] = Symbol
    <3>1. scope' = Append(<<Symbol>>, IF param THEN n ELSE 0)
          BY <1>8 DEF WithScope
    <3>2. (IF param THEN n ELSE 0) \in Nat /\ 1 \in 1..Len(<<Symbol>>)
          BY <2>1, <2>8
    <3> QED  BY <2>8, <3>1, <3>2, AppendProperties
  <2>10. initialized' \subseteq 1..Len(store) /\ (scope'[1] \in initialized' => std'.defined)
         BY <1>8, <2>1, <2>9 DEF Front
  <2>11. CASE ~param
    <3>1. hir' = g /\ store' = tt
          BY <1>8, <2>2, <2>11, EmitIsAppend DEF Emit, Parameter, g
    <3>2. /\ \A i \in 1..Len(Append(seen.env, Nothing)) :
               Append(seen.env, Nothing)[i] = Linked => seen.linkage # "none"
          /\ Append(seen.env, Nothing) \in Seq(Seq(Nat))
          /\ seen.env \o <<Nothing>> = Append(seen.env, Nothing)
          BY <2>4, <2>5, Denotations, PushedEnv
    <3>3. scope' = Append(<<Symbol>>, 0) /\ std' = [seen EXCEPT !.env = Append(seen.env, Nothing)]
          BY <1>8, <2>4, <2>9, <2>11, <3>2 DEF StdTypes
    <3>4. /\ Body(g, tt, Append(<<Symbol>>, 0), Append(seen.env, Nothing), seen, w)
          /\ Len(scope') = 2
      <4>1. /\ Body(g, tt, Append(<<Symbol>>, 0), Append(seen.env, Nothing), seen, w)
            /\ Len(Append(<<Symbol>>, 0)) = Len(<<Symbol>>) + 1
            BY <2>6, BodyPush
      <4> QED  BY <2>8, <3>3, <4>1
    <3>5. /\ StdTypes(std') /\ std'.env = Append(seen.env, Nothing)
          /\ std'.linkage = seen.linkage /\ std'.faults = seen.faults
          /\ Body(g, tt, Append(<<Symbol>>, 0), Append(seen.env, Nothing), std', w)
          BY <2>4, <3>2, <3>3, <3>4, StdEnv
    <3>6. Body(hir', store', scope', std'.env, std', Valid')
          BY <3>1, <3>3, <3>5 DEF Valid
    <3>7. ~IsGlobal' /\ Inside(hir', Len(hir'))
          BY <2>7, <3>1, <3>4 DEF IsGlobal
    <3>8. initialized' \subseteq 1..Len(store')
      <4>1. 1..Len(store) \subseteq 1..Symbol
            BY <2>1
      <4> QED  BY <2>6, <2>10, <3>1, <4>1
    <3> QED  BY <1>8, <2>10, <3>2, <3>5, <3>6, <3>7, <3>8, FrontAgain
             DEF Accept, ReadOn, Started, back
  <2>12. CASE param
    <3> DEFINE t2 == Append(tt, v)
               g2 == Append(g, e2)
    <3>1. /\ e2 \in Events
          /\ Body(g2, t2, Append(<<Symbol>>, n), Append(seen.env, <<n>>), seen, w)
          /\ Inside(g2, Len(g2)) /\ Len(Append(<<Symbol>>, n)) = 2
          /\ Len(t2) = n
      <4>1. n = Len(tt) + 1 /\ Len(<<Symbol>>) \in Nat /\ Len(<<Symbol>>) # 0
            BY <2>6, <2>8
      <4>2. LET m == Len(tt) + 1
            IN  /\ Event("param", m, Nothing) \in Events
                /\ Body(Append(g, Event("param", m, Nothing)), t2,
                        Append(<<Symbol>>, m), Append(seen.env, <<m>>), seen, w)
                /\ Inside(Append(g, Event("param", m, Nothing)),
                          Len(Append(g, Event("param", m, Nothing))))
                /\ Len(Append(<<Symbol>>, m)) = Len(<<Symbol>>) + 1
                /\ Len(t2) = m
            BY <2>6, <2>7, <4>1, BodyParam
      <4> QED  BY <2>8, <4>1, <4>2
    <3>2. hir' = g2
          BY <1>8, <2>2, <2>12, <3>1, EmitIsAppend DEF Emit, g
    <3>3. store' = t2
      <4>1. tt \in Seq(Variables) /\ v \in Variables
            BY <2>6 DEF Body, Variable, Variables, Types
      <4> QED  BY <1>8, <2>12, <4>1, AppendIsConcat DEF Parameter
    <3>4. /\ \A i \in 1..Len(Append(seen.env, <<n>>)) :
               Append(seen.env, <<n>>)[i] = Linked => seen.linkage # "none"
          /\ Append(seen.env, <<n>>) \in Seq(Seq(Nat))
          /\ seen.env \o <<<<n>>>> = Append(seen.env, <<n>>)
      <4>1. <<n>> \in Seq(Nat) /\ <<n>> # Linked
            BY <2>1, Denotations
      <4> QED  BY <2>4, <2>5, <4>1, PushedEnv
    <3>5. scope' = Append(<<Symbol>>, n) /\ std' = [seen EXCEPT !.env = Append(seen.env, <<n>>)]
          BY <1>8, <2>4, <2>9, <2>12, <3>4 DEF StdTypes
    <3> HIDE DEF t2, g2
    <3>6. /\ StdTypes(std') /\ std'.env = Append(seen.env, <<n>>)
          /\ std'.linkage = seen.linkage /\ std'.faults = seen.faults
          /\ Body(g2, t2, Append(<<Symbol>>, n), Append(seen.env, <<n>>), std', w)
          BY <2>4, <3>1, <3>4, <3>5, StdEnv
    <3>7. Body(hir', store', scope', std'.env, std', Valid')
          BY <3>2, <3>3, <3>5, <3>6 DEF Valid
    <3>8. ~IsGlobal' /\ Inside(hir', Len(hir'))
          BY <3>1, <3>2, <3>5 DEF IsGlobal
    <3>9. initialized' \subseteq 1..Len(store')
      <4>1. 1..Len(store) \subseteq 1..n
            BY <2>1
      <4> QED  BY <2>10, <3>1, <3>3, <4>1
    <3> QED  BY <1>8, <2>10, <3>4, <3>6, <3>7, <3>8, <3>9, FrontAgain
             DEF Accept, ReadOn, Started, back
  <2> QED  BY <2>11, <2>12
<1>9. \/ error # "none" /\ std' = seen /\ Insert(new) /\ Reject(error)
      \/ /\ error = "none"
         /\ store' = Parameter(param, tt)
         /\ scope' = WithScope(<<Symbol>>, IF param THEN n ELSE 0)
         /\ std' = [seen EXCEPT !.env = @ \o <<IF param THEN <<n>> ELSE Nothing>>]
         /\ Emit(<<e>> \o (IF param THEN <<e2>> ELSE <<>>))
         /\ UNCHANGED initialized
         /\ Accept
      BY <1>1 DEF decl
<1> QED  BY <1>7, <1>8, <1>9

\* A block of a function.
LEMMA OpenBlockStep ==
  ASSUME phase = "read", result = Pending, Front, Started, OpenBlock
  PROVE  ReadOn
<1>1. /\ ~IsGlobal /\ scope' = Append(scope, 0)
      /\ std' = [std EXCEPT !.env = Append(std.env, Nothing)]
      /\ store' = store /\ initialized' = initialized /\ hir' = hir /\ Accept
      BY DEF OpenBlock, Front, StdTypes
<1>2. /\ StdTypes(std) /\ std.env \in Seq(Seq(Nat)) /\ Len(scope) \in Nat /\ Len(scope) # 0
      /\ Len(scope) # 1 /\ Inside(hir, Len(hir))
      /\ \A i \in 1..Len(std.env) : std.env[i] = Linked => std.linkage # "none"
      BY <1>1, FrontFacts DEF Front, IsGlobal, ScopeOK
<1>3. /\ Body(hir, store, Append(scope, 0), Append(std.env, Nothing), std, Valid)
      /\ Len(scope') = Len(scope) + 1
      BY <1>1, FrontParts, BodyPush
<1>4. /\ \A i \in 1..Len(Append(std.env, Nothing)) :
           Append(std.env, Nothing)[i] = Linked => std.linkage # "none"
      /\ Append(std.env, Nothing) \in Seq(Seq(Nat))
      BY <1>2, Denotations, PushedEnv
<1>5. /\ StdTypes(std') /\ std'.env = Append(std.env, Nothing) /\ std'.linkage = std.linkage
      /\ std'.defined = std.defined /\ std'.faults = std.faults
      /\ Body(hir, store, Append(scope, 0), Append(std.env, Nothing), std', Valid)
      BY <1>1, <1>2, <1>3, <1>4, StdEnv
<1>6. Body(hir', store', scope', std'.env, std', Valid')
      BY <1>1, <1>5 DEF Valid
<1>7. ~IsGlobal' /\ Inside(hir', Len(hir'))
      BY <1>1, <1>2, <1>3 DEF IsGlobal
<1>8. scope'[1] = scope[1]
  <2>1. scope \in Seq(Nat) /\ 1 \in 1..Len(scope) /\ 0 \in Nat
    <3>1. scope \in Seq(0..Len(store)) /\ 0..Len(store) \subseteq Nat
          BY FrontFacts DEF Front, ScopeOK
    <3> QED  BY <1>2, <3>1, SeqMonotonic
  <2> QED  BY <1>1, <2>1, AppendProperties
<1>9. initialized' \subseteq 1..Len(store') /\ (scope'[1] \in initialized' => std'.defined)
      BY <1>1, <1>5, <1>8 DEF Front
<1> QED  BY <1>1, <1>4, <1>5, <1>6, <1>7, <1>9, FrontAgain DEF Accept, ReadOn, Started, back

\* The end of a block, or of a function.
LEMMA CloseStep ==
  ASSUME phase = "read", result = Pending, Front, Started, Close
  PROVE  ReadOn
<1> DEFINE e == Event("end", 0, Nothing)
           g == Append(hir, e)
<1>1. /\ ~IsGlobal /\ scope' = Exit(scope)
      /\ std' = [std EXCEPT !.env = Exit(std.env)]
      /\ store' = store /\ initialized' = initialized
      /\ phase' = phase /\ result' = result /\ UNCHANGED back
      /\ IF Len(std.env) = 2 THEN Emit(<<e>>) ELSE hir' = hir
      BY DEF Close, Front, StdTypes
<1>2. /\ StdTypes(std) /\ Len(scope) \in Nat /\ Len(scope) # 0 /\ Len(std.env) = Len(scope)
      /\ Len(scope) # 1 /\ Inside(hir, Len(hir)) /\ Len(store) \in Nat
      /\ \A i \in 1..Len(std.env) : std.env[i] = Linked => std.linkage # "none"
      BY <1>1, FrontFacts DEF Front, IsGlobal
<1>3. ASSUME NEW h, Body(h, store, scope, std.env, std, Valid)
      PROVE  /\ Body(h, store, Exit(scope), Exit(std.env), std, Valid)
             /\ Len(Exit(scope)) = Len(scope) - 1 /\ Exit(scope)[1] = scope[1]
             /\ \A i \in 1..Len(Exit(std.env)) : Exit(std.env)[i] = std.env[i]
                                                 /\ i \in 1..Len(std.env)
             /\ Exit(std.env) \in Seq(Seq(Nat))
  <2>1. ScopeOK(h, store, scope, std.env, Valid)
        BY <1>3 DEF Body
  <2>2. /\ ScopeOK(h, store, Exit(scope), Exit(std.env), Valid)
        /\ Len(Exit(scope)) = Len(scope) - 1 /\ Exit(scope)[1] = scope[1]
        /\ \A i \in 1..Len(Exit(std.env)) : Exit(std.env)[i] = std.env[i]
                                            /\ i \in 1..Len(std.env)
        BY <1>2, <2>1, ScopeExit, ZenonT(40)
  <2> QED  BY <1>3, <2>2 DEF Body, ScopeOK
<1>4. ASSUME Body(hir', store, scope, std.env, std, Valid),
             IsGlobal' <=> ~Inside(hir', Len(hir'))
      PROVE  ReadOn
  <2>1. /\ Body(hir', store, Exit(scope), Exit(std.env), std, Valid)
        /\ Exit(scope)[1] = scope[1]
        /\ \A i \in 1..Len(Exit(std.env)) : Exit(std.env)[i] = std.env[i]
                                            /\ i \in 1..Len(std.env)
        /\ Exit(std.env) \in Seq(Seq(Nat))
        BY <1>3, <1>4
  <2>2. /\ StdTypes(std') /\ std'.env = Exit(std.env) /\ std'.linkage = std.linkage
        /\ std'.defined = std.defined /\ std'.faults = std.faults
        /\ Body(hir', store, Exit(scope), Exit(std.env), std', Valid)
        BY <1>1, <1>2, <2>1, StdEnv
  <2>3. Body(hir', store', scope', std'.env, std', Valid')
        BY <1>1, <2>2 DEF Valid
  <2>4. initialized' \subseteq 1..Len(store') /\ (scope'[1] \in initialized' => std'.defined)
        BY <1>1, <2>1, <2>2 DEF Front
  <2>5. \A i \in 1..Len(std'.env) : std'.env[i] = Linked => std'.linkage # "none"
        BY <1>2, <2>1, <2>2
  <2>6. Front'
        BY <1>4, <2>2, <2>3, <2>4, <2>5, FrontAgain
  <2> QED  BY <1>1, <2>6 DEF ReadOn, Started, back
<1>5. Len(scope') = Len(scope) - 1
      BY <1>1, <1>3, FrontParts
<1>6. CASE Len(std.env) = 2
  <2>1. e \in Events /\ ~Names(e) /\ e.op = "end" /\ hir \in Seq(Events)
        BY Denotations DEF Event, Events, Ops, Names, Front, HirOK
  <2>2. hir' = g
        BY <1>1, <1>6, <2>1, EmitIsAppend DEF Emit
  <2> HIDE DEF e
  <2>3. Body(g, store, scope, std.env, std, Valid) /\ Grown(hir, e, g)
        BY <1>2, <2>1, FrontParts, BodyEvent
  <2> HIDE DEF g
  <2>4. ~Inside(g, Len(g))
        BY <2>1, <2>3, InsideGrows
  <2>5. IsGlobal' <=> ~Inside(hir', Len(hir'))
        BY <1>2, <1>5, <1>6, <2>2, <2>4 DEF IsGlobal
  <2> QED  BY <1>4, <2>2, <2>3, <2>5
<1>7. CASE Len(std.env) # 2
  <2>1. hir' = hir
        BY <1>1, <1>7
  <2>2. IsGlobal' <=> ~Inside(hir', Len(hir'))
        BY <1>2, <1>5, <1>7, <2>1 DEF IsGlobal
  <2> QED  BY <1>4, <2>1, <2>2, FrontParts
<1> QED  BY <1>6, <1>7

\* A use of x.
LEMMA UseStep ==
  ASSUME phase = "read", result = Pending, Front, Started, Use
  PROVE  ReadOn \/ Stopped
<1>1. ~IsGlobal /\ store' = store /\ scope' = scope /\ std' = std
      BY DEF Use
<1>2. CASE Get = 0 /\ Reject("UndeclaredVar")
  <2>1. phase' = "done" /\ result' = Finished("error", "UndeclaredVar")
        BY <1>2 DEF Reject
  <2> QED  BY <2>1, ErrorOutcome DEF Stopped
<1>3. CASE /\ Get # 0 /\ initialized' = initialized /\ Accept
           /\ Emit(<<Event("load", Get, Visible(std.env))>>)
  <2> DEFINE e == Event("load", Get, Visible(std.env))
             g == Append(hir, e)
  <2>1. ScopeOK(hir, store, scope, std.env, Valid)
        BY DEF Front
  <2>2. PICK m \in 1..Len(scope) :
          scope[m] # 0 /\ Get = scope[m] /\ Visible(std.env) = std.env[m]
        BY <1>3, <2>1, GetFacts
  <2>3. PICK j \in 1..Len(hir) : Entered(hir, store, Valid, m, scope[m], std.env[m], j)
        BY <2>1, <2>2 DEF ScopeOK
  <2>4. /\ Names(hir[j]) /\ hir[j].sym = Get
        /\ InSlot(store, hir[j]) => SameBody(hir, j, Len(hir))
        /\ Valid => DenotedBy(store, hir[j], Visible(std.env))
        BY <2>2, <2>3 DEF Entered, InSlot
  <2>5. Get \in Nat /\ Visible(std.env) \in Seq(Nat)
    <3>1. scope[m] \in Nat
          BY FrontFacts
    <3>2. std.env \in Seq(Seq(Nat)) /\ m \in 1..Len(std.env)
          BY <2>1 DEF ScopeOK
    <3> QED  BY <2>2, <3>1, <3>2, ElementOfSeq
  <2>6. e \in Events /\ ~Names(e) /\ e.op = "load" /\ hir \in Seq(Events)
        /\ e.sym = Get /\ e.denotes = Visible(std.env)
        BY <2>5 DEF Event, Events, Ops, Names, Front, HirOK
  <2>7. hir' = g
        BY <1>3, <2>6, EmitIsAppend DEF Emit
  <2>8. Inside(hir, Len(hir))
        BY <1>1 DEF Front
  <2> HIDE DEF e
  <2>9. Body(g, store, scope, std.env, std, Valid) /\ Grown(hir, e, g)
        BY <2>4, <2>6, <2>8, FrontParts, BodyEvent
  <2> HIDE DEF g
  <2>10. Inside(g, Len(g))
         BY <2>6, <2>8, <2>9, InsideGrows
  <2>11. Body(hir', store', scope', std'.env, std', Valid')
         BY <1>1, <2>7, <2>9 DEF Valid
  <2>12. /\ StdTypes(std') /\ initialized' \subseteq 1..Len(store')
         /\ scope'[1] \in initialized' => std'.defined
         /\ \A i \in 1..Len(std'.env) : std'.env[i] = Linked => std'.linkage # "none"
         BY <1>1, <1>3 DEF Front
  <2>13. IsGlobal' <=> ~Inside(hir', Len(hir'))
         BY <1>1, <2>7, <2>10 DEF IsGlobal
  <2>14. Front'
         BY <2>11, <2>12, <2>13, FrontAgain
  <2> QED  BY <1>3, <2>14 DEF Accept, ReadOn, Started, back
<1> QED  BY <1>2, <1>3 DEF Use

\* The end of the source.
LEMMA EndOfFileStep ==
  ASSUME phase = "read", result = Pending, Front, Started, EndOfFile
  PROVE  \/ Stopped
         \/ /\ phase' = "compile" /\ result' = Pending /\ Front' /\ Started'
            /\ Len(scope') = 1
<1>1. IsGlobal /\ store' = store /\ scope' = scope /\ std' = std
      BY DEF EndOfFile
<1>2. CASE Reject("EmptyProgram")
  <2>1. phase' = "done" /\ result' = Finished("error", "EmptyProgram")
        BY <1>2 DEF Reject
  <2> QED  BY <2>1, ErrorOutcome DEF Stopped
<1>3. CASE phase' = "compile" /\ UNCHANGED <<items, initialized, hir, back, result>>
  <2>1. Front'
        BY <1>1, <1>3 DEF Front, Valid, IsGlobal
  <2> QED  BY <1>1, <1>3, <2>1 DEF Started, back, IsGlobal
<1> QED  BY <1>2, <1>3 DEF EndOfFile

-----------------------------------------------------------------------------
(* One more event compiled.                                                *)

\* The next event of hir.
Compiling(h, st, p) ==
  /\ h \in Seq(Events) /\ HirOK(h, st) /\ st \in Seq(Variables)
  /\ p \in 0..Len(h) /\ p < Len(h)

\* Its place, and what it is.
LEMMA NextEvent ==
  ASSUME NEW h, NEW st, NEW p, Compiling(h, st, p)
  PROVE  /\ p \in Nat /\ Len(h) \in Nat /\ p + 1 \in 1..Len(h) /\ p + 1 \in 0..Len(h)
         /\ h[p + 1] \in Events
         /\ Names(h[p + 1]) => h[p + 1].sym \in 1..Len(st) /\ st[h[p + 1].sym] \in Variables
         /\ \A i \in 1..p : i \in 1..p + 1 /\ i \in 1..Len(h)
         /\ \A i \in 1..p + 1 : i \in 1..p \/ i = p + 1
<1>1. Len(h) \in Nat /\ \A i \in 1..Len(h) : h[i] \in Events
      BY LenProperties, ElementOfSeq DEF Compiling
<1>2. \A s \in 1..Len(st) : st[s] \in Variables
      BY ElementOfSeq DEF Compiling
<1> QED  BY <1>1, <1>2 DEF Compiling, HirOK

\* The last function is still the last, or the event begins one.
LEMMA LastGrows ==
  ASSUME NEW h, NEW p \in Nat, NEW f, LastFunction(h, p, f)
  PROVE  /\ h[p + 1].op # "function" => LastFunction(h, p + 1, f)
         /\ h[p + 1].op = "function" => LastFunction(h, p + 1, p + 1)
<1>1. \A k \in 1..p + 1 : k \in 1..p \/ k = p + 1
      OBVIOUS
<1>2. ASSUME h[p + 1].op # "function" PROVE LastFunction(h, p + 1, f)
  <2>1. CASE f = 0 /\ \A k \in 1..p : h[k].op # "function"
        BY <1>1, <1>2, <2>1 DEF LastFunction
  <2>2. CASE f \in 1..p /\ h[f].op = "function" /\ SameBody(h, f, p)
    <3>1. f \in 1..p + 1 /\ SameBody(h, f, p + 1)
          BY <1>2, <2>2 DEF SameBody
    <3> QED  BY <2>2, <3>1 DEF LastFunction
  <2> QED  BY <2>1, <2>2 DEF LastFunction
<1>3. SameBody(h, p + 1, p + 1) /\ p + 1 \in 1..p + 1
      BY DEF SameBody
<1> QED  BY <1>2, <1>3 DEF LastFunction

\* The function an event belongs to is one, if no function begins in between.
LEMMA SameLast ==
  ASSUME NEW h, NEW p \in Nat, NEW j \in 1..p, NEW f, NEW g,
         LastFunction(h, j, f), LastFunction(h, p, g), SameBody(h, j, p)
  PROVE  f = g
<1>1. \A k \in 1..p : k \in 1..j \/ k \in j + 1..p
      OBVIOUS
<1>2. CASE f = 0 /\ \A k \in 1..j : h[k].op # "function"
  <2>1. \A k \in 1..p : h[k].op # "function"
        BY <1>1, <1>2 DEF SameBody
  <2> QED  BY <1>2, <2>1 DEF LastFunction
<1>3. CASE f \in 1..j /\ h[f].op = "function" /\ SameBody(h, f, j)
  <2>1. f \in 1..p /\ \A k \in f + 1..p : h[k].op # "function"
        BY <1>3 DEF SameBody
  <2>2. g # 0
        BY <1>3, <2>1 DEF LastFunction
  <2>3. g \in 1..p /\ h[g].op = "function" /\ \A k \in g + 1..p : h[k].op # "function"
        BY <2>2 DEF LastFunction, SameBody
  <2>4. ~(f < g) /\ ~(g < f)
        BY <1>3, <2>1, <2>3
  <2> QED  BY <2>1, <2>3, <2>4
<1> QED  BY <1>2, <1>3 DEF LastFunction

\* The symbol of the next event is new to declarations.
LEMMA Fresh ==
  ASSUME NEW h, NEW st, NEW p, Compiling(h, st, p), Names(h[p + 1]),
         NEW table, IdsOK(h, st, p, table)
  PROVE  h[p + 1].sym \notin DOMAIN table
<1> SUFFICES ASSUME h[p + 1].sym \in DOMAIN table PROVE FALSE
    OBVIOUS
<1>1. PICK j \in 1..p : Names(h[j]) /\ h[j].sym = h[p + 1].sym
      BY DEF IdsOK
<1>2. j \in 1..Len(h) /\ p + 1 \in 1..Len(h) /\ j < p + 1
      BY NextEvent
<1>3. h[j].sym < h[p + 1].sym /\ h[j].sym \in Nat
      BY <1>1, <1>2, NextEvent DEF Compiling, HirOK
<1> QED  BY <1>1, <1>3

\* An event that declares nothing leaves declarations as they are.
LEMMA IdsStay ==
  ASSUME NEW h, NEW st, NEW p, Compiling(h, st, p), ~Names(h[p + 1]),
         NEW table, IdsOK(h, st, p, table)
  PROVE  IdsOK(h, st, p + 1, table)
<1>1. \A j \in 1..p : j \in 1..p + 1
      BY NextEvent
<1>2. \A j \in 1..p + 1 : Names(h[j]) => j \in 1..p
      BY NextEvent
<1> QED  BY <1>1, <1>2 DEF IdsOK

\* Any other is entered.
LEMMA IdsEntered ==
  ASSUME NEW h, NEW st, NEW p, Compiling(h, st, p), Names(h[p + 1]),
         NEW table, IdsOK(h, st, p, table), NEW id,
         InSlot(st, h[p + 1]) => id.kind = "local" /\ LastFunction(h, p + 1, id.fn),
         ~InSlot(st, h[p + 1]) => id.kind \in {"func", "global"}
  PROVE  IdsOK(h, st, p + 1,
               [s \in DOMAIN table \cup {h[p + 1].sym} |->
                  IF s = h[p + 1].sym THEN id ELSE table[s]])
<1> DEFINE sym == h[p + 1].sym
           new == [s \in DOMAIN table \cup {sym} |-> IF s = sym THEN id ELSE table[s]]
<1>1. sym \notin DOMAIN table
      BY Fresh
<1>2. DOMAIN new = DOMAIN table \cup {sym} /\ new[sym] = id
      /\ \A s \in DOMAIN table : new[s] = table[s]
      BY <1>1
<1> HIDE DEF new
<1>3. ASSUME NEW s \in DOMAIN new
      PROVE  \E j \in 1..p + 1 : Names(h[j]) /\ h[j].sym = s
  <2>1. CASE s = sym
    <3>1. p + 1 \in 1..p + 1
          BY NextEvent
    <3> QED  BY <2>1, <3>1
  <2>2. CASE s \in DOMAIN table
    <3>1. PICK j \in 1..p : Names(h[j]) /\ h[j].sym = s
          BY <2>2 DEF IdsOK
    <3> QED  BY <3>1, NextEvent
  <2> QED  BY <1>2, <1>3, <2>1, <2>2
<1>4. ASSUME NEW j \in 1..p + 1, Names(h[j])
      PROVE  /\ h[j].sym \in DOMAIN new
             /\ InSlot(st, h[j]) => /\ new[h[j].sym].kind = "local"
                                    /\ LastFunction(h, j, new[h[j].sym].fn)
             /\ ~InSlot(st, h[j]) => new[h[j].sym].kind \in {"func", "global"}
  <2>1. CASE j = p + 1
        BY <1>2, <2>1
  <2>2. CASE j \in 1..p
    <3>1. h[j].sym \in DOMAIN table
          BY <1>4, <2>2 DEF IdsOK
    <3> QED  BY <1>2, <1>4, <2>2, <3>1 DEF IdsOK
  <2> QED  BY <2>1, <2>2, NextEvent
<1>5. IdsOK(h, st, p + 1, new)
      BY <1>3, <1>4 DEF IdsOK
<1> QED  BY <1>5 DEF new

-----------------------------------------------------------------------------
(* x in the module.                                                        *)

\* What the events have defined so far; a function is defined at its end.
LEMMA DefinedGrows ==
  ASSUME NEW h, NEW st, NEW p, Compiling(h, st, p), h[p + 1].op # "end", NEW i
  PROVE  Defined(h, st, p + 1, i) <=>
           \/ Defined(h, st, p, i)
           \/ i = p + 1 /\ Defining(st, h[p + 1]) /\ h[p + 1].op # "function"
<1>1. p \in Nat /\ (\A k \in 1..p + 1 : k \in 1..p \/ k = p + 1) /\ \A k \in 1..p : k \in 1..p + 1
      BY NextEvent
<1>2. ASSUME Defined(h, st, p, i) PROVE Defined(h, st, p + 1, i)
  <2>1. i \in 1..p + 1 /\ Defining(st, h[i])
        BY <1>1, <1>2 DEF Defined
  <2>2. ASSUME h[i].op = "function" PROVE \E e \in i + 1..p + 1 : h[e].op = "end"
    <3>1. PICK e \in i + 1..p : h[e].op = "end"
          BY <1>2, <2>2 DEF Defined
    <3>2. e \in i + 1..p + 1
          BY <1>1
    <3> QED  BY <3>1, <3>2
  <2> QED  BY <2>1, <2>2 DEF Defined
<1>3. ASSUME Defined(h, st, p + 1, i), i # p + 1 PROVE Defined(h, st, p, i)
  <2>1. i \in 1..p /\ Defining(st, h[i])
        BY <1>1, <1>3 DEF Defined
  <2>2. ASSUME h[i].op = "function" PROVE \E e \in i + 1..p : h[e].op = "end"
    <3>1. PICK e \in i + 1..p + 1 : h[e].op = "end"
          BY <1>3, <2>2 DEF Defined
    <3>2. e # p + 1
          BY <3>1
    <3>3. e \in i + 1..p
          BY <1>1, <2>1, <3>2
    <3> QED  BY <3>1, <3>3
  <2> QED  BY <2>1, <2>2 DEF Defined
<1>4. ASSUME i = p + 1
      PROVE  Defined(h, st, p + 1, i) <=> Defining(st, h[p + 1]) /\ h[p + 1].op # "function"
  <2>1. ~ \E e \in p + 1 + 1..p + 1 : h[e].op = "end"
        BY <1>1
  <2>2. p + 1 \in 1..p + 1
        BY <1>1
  <2> QED  BY <1>4, <2>1, <2>2 DEF Defined
<1>5. i = p + 1 => ~Defined(h, st, p, i)
      BY <1>1 DEF Defined
<1> QED  BY <1>2, <1>3, <1>4, <1>5

\* An event that is not for x in the module.
LEMMA ModuleStay ==
  ASSUME NEW h, NEW st, NEW p, Compiling(h, st, p), h[p + 1].op # "end", ~InModule(st, h[p + 1]),
         NEW m, ModuleOK(h, st, p, m)
  PROVE  ModuleOK(h, st, p + 1, m)
<1>1. (\A k \in 1..p + 1 : k \in 1..p \/ k = p + 1) /\ \A k \in 1..p : k \in 1..p + 1
      BY NextEvent
<1>2. ~Defining(st, h[p + 1]) /\ ~Exports(st, h[p + 1]) /\ ~Hides(st, h[p + 1])
      BY DEF Defining, InModule, InSlot, Names, Exports, Hides
<1>3. \A i : Defined(h, st, p + 1, i) <=> Defined(h, st, p, i)
      BY <1>2, DefinedGrows
<1>4. /\ (\E i \in 1..p + 1 : Defined(h, st, p + 1, i)) <=> \E i \in 1..p : Defined(h, st, p, i)
      /\ \A i, j \in 1..p + 1 : Defined(h, st, p + 1, i) /\ Defined(h, st, p + 1, j) => i = j
  <2>1. \A i : Defined(h, st, p, i) => i \in 1..p
        BY DEF Defined
  <2> QED  BY <1>1, <1>3, <2>1 DEF ModuleOK
<1>5. /\ (\E i \in 1..p + 1 : Exports(st, h[i])) <=> \E i \in 1..p : Exports(st, h[i])
      /\ (\E i \in 1..p + 1 : Exports(st, h[i]) \/ Hides(st, h[i]))
           <=> \E i \in 1..p : Exports(st, h[i]) \/ Hides(st, h[i])
      BY <1>1, <1>2
<1>6. /\ m.kind = "func" => \E i \in 1..p + 1 : /\ InModule(st, h[i])
                                               /\ st[h[i].sym].form = "function"
                                               /\ st[h[i].sym].type = m.sig
      /\ m.kind = "data" => \E i \in 1..p + 1 : InModule(st, h[i])
                                                /\ st[h[i].sym].form = "object"
      /\ \A i \in 1..p + 1 : InModule(st, h[i]) => m.kind # "none"
      BY <1>1 DEF ModuleOK
<1> QED  BY <1>4, <1>5, <1>6 DEF ModuleOK

\* One that is: kind, signature and linkage are those of the first, merged with
\* what the event adds, and it may define x.
LEMMA ModuleMerged ==
  ASSUME NEW h, NEW st, NEW p, Compiling(h, st, p), h[p + 1].op # "end", InModule(st, h[p + 1]),
         NEW m, ModuleOK(h, st, p, m),
         NEW kind \in {"func", "data"}, m.kind \in {"none", kind},
         kind = "func" <=> st[h[p + 1].sym].form = "function",
         NEW linkage \in {"Import", "Local", "Export"},
         linkage = "Export" <=> Exports(st, h[p + 1]),
         linkage = "Local" <=> Hides(st, h[p + 1]) /\ ~Exports(st, h[p + 1]),
         NEW sig \in Types \cup {"none"}, kind = "func" => sig = st[h[p + 1].sym].type,
         NEW new \in [kind : {"func", "data"}, linkage : {"Import", "Local", "Export"},
                      sig : Types \cup {"none"}, defined : BOOLEAN],
         new.kind = kind, new.sig = (IF m.kind = "none" THEN sig ELSE m.sig),
         new.linkage = (IF m.kind = "none" THEN linkage ELSE Merge(m.linkage, linkage)),
         new.defined <=> m.defined \/ (Defining(st, h[p + 1]) /\ h[p + 1].op # "function"),
         ~(m.defined /\ Defining(st, h[p + 1]) /\ h[p + 1].op # "function")
  PROVE  ModuleOK(h, st, p + 1, new)
<1> DEFINE e == h[p + 1]
<1>1. (\A k \in 1..p + 1 : k \in 1..p \/ k = p + 1) /\ (\A k \in 1..p : k \in 1..p + 1)
      /\ p + 1 \in 1..p + 1
      BY NextEvent
<1>2. \A i : Defined(h, st, p + 1, i) <=>
               \/ Defined(h, st, p, i)
               \/ i = p + 1 /\ Defining(st, e) /\ e.op # "function"
      BY DefinedGrows
<1>3. \A i : Defined(h, st, p, i) => i \in 1..p
      BY DEF Defined
<1>4. /\ new.defined <=> \E i \in 1..p + 1 : Defined(h, st, p + 1, i)
      /\ \A i, j \in 1..p + 1 : Defined(h, st, p + 1, i) /\ Defined(h, st, p + 1, j) => i = j
  <2>1. m.defined <=> \E i \in 1..p : Defined(h, st, p, i)
        BY DEF ModuleOK
  <2>2. \A i, j \in 1..p : Defined(h, st, p, i) /\ Defined(h, st, p, j) => i = j
        BY DEF ModuleOK
  <2> HIDE DEF e
  <2> QED  BY <1>1, <1>2, <1>3, <2>1, <2>2 DEF e
<1>5. st[e.sym] \in Variables
      BY NextEvent DEF InModule
<1>6. m.kind = "none" => \A i \in 1..p : ~InModule(st, h[i])
      BY DEF ModuleOK
<1>7. \A i \in 1..p : Exports(st, h[i]) \/ Hides(st, h[i]) => InModule(st, h[i])
  <2>1. TAKE i \in 1..p
  <2> QED  BY DEF Exports, Hides, InModule, InSlot, Names
<1>8. /\ (\E i \in 1..p + 1 : Exports(st, h[i])) <=>
           (\E i \in 1..p : Exports(st, h[i])) \/ Exports(st, e)
      /\ (\E i \in 1..p + 1 : Exports(st, h[i]) \/ Hides(st, h[i])) <=>
           (\E i \in 1..p : Exports(st, h[i]) \/ Hides(st, h[i])) \/ Exports(st, e) \/ Hides(st, e)
      BY <1>1
<1>9. /\ new.linkage = "Export" <=> \E i \in 1..p + 1 : Exports(st, h[i])
      /\ new.linkage \in {"Local", "Export"} <=>
           \E i \in 1..p + 1 : Exports(st, h[i]) \/ Hides(st, h[i])
  <2>1. CASE m.kind = "none"
    <3>1. (~ \E i \in 1..p : Exports(st, h[i]))
          /\ ~ \E i \in 1..p : Exports(st, h[i]) \/ Hides(st, h[i])
          BY <1>6, <1>7, <2>1
    <3> QED  BY <1>8, <2>1, <3>1
  <2>2. CASE m.kind # "none"
    <3>1. /\ m.linkage \in {"Import", "Local", "Export"}
          /\ m.linkage = "Export" <=> \E i \in 1..p : Exports(st, h[i])
          /\ m.linkage \in {"Local", "Export"} <=>
               \E i \in 1..p : Exports(st, h[i]) \/ Hides(st, h[i])
          BY <2>2 DEF ModuleOK
    <3>2. /\ new.linkage = "Export" <=> m.linkage = "Export" \/ linkage = "Export"
          /\ new.linkage \in {"Local", "Export"} <=>
               m.linkage \in {"Local", "Export"} \/ linkage \in {"Local", "Export"}
          BY <2>2, <3>1 DEF Merge
    <3>3. linkage \in {"Local", "Export"} <=> Exports(st, e) \/ Hides(st, e)
          OBVIOUS
    <3> QED  BY <1>8, <3>1, <3>2, <3>3
  <2> QED  BY <2>1, <2>2
<1>10. new.kind = "func" => \E i \in 1..p + 1 : /\ InModule(st, h[i])
                                               /\ st[h[i].sym].form = "function"
                                               /\ st[h[i].sym].type = new.sig
  <2>1. CASE m.kind = "none"
        BY <1>1, <2>1
  <2>2. CASE m.kind # "none"
    <3>1. new.sig = m.sig /\ new.kind = m.kind
          BY <2>2
    <3> QED  BY <1>1, <3>1 DEF ModuleOK
  <2> QED  BY <2>1, <2>2
<1>11. new.kind = "data" => \E i \in 1..p + 1 : InModule(st, h[i])
                                               /\ st[h[i].sym].form = "object"
  <2>1. st[e.sym].form \in {"object", "function"}
        BY <1>5 DEF Variables
  <2> QED  BY <1>1, <2>1
<1> QED  BY <1>4, <1>9, <1>10, <1>11 DEF ModuleOK

-----------------------------------------------------------------------------
(* The steps of the backend.                                               *)

\* While hir is compiled.
Compilation == phase = "compile" /\ result = Pending /\ Front /\ Back /\ Len(scope) = 1

\* The next event.
LEMMA BackFacts ==
  ASSUME Compilation, NEW op, At(op)
  PROVE  /\ Compiling(hir, store, pos) /\ pos \in Nat
         /\ hir[pos + 1].op = op /\ Sym = hir[pos + 1].sym
<1>1. Compiling(hir, store, pos)
      BY DEF Compilation, At, Front, HirOK, Back, Compiling
<1> QED  BY <1>1, NextEvent DEF At, Sym

\* The source stays as it is.
LEMMA FrontKept ==
  ASSUME Compilation, UNCHANGED front, UNCHANGED std
  PROVE  /\ Front' /\ Len(scope') = 1 /\ (Valid' <=> Valid)
         /\ MixesPrototypes' <=> MixesPrototypes
         /\ hir' = hir /\ store' = store /\ std' = std
BY DEF Compilation, Front, front, Valid, IsGlobal, MixesPrototypes

\* The compilation goes on.
LEMMA GoesOn ==
  ASSUME Compilation, Compiling(hir, store, pos), Continue,
         LastFunction(hir, pos + 1, function'), IdsOK(hir, store, pos + 1, ids'),
         ModuleOK(hir, store, pos + 1, module')
  PROVE  Compilation'
<1>1. Front' /\ Len(scope') = 1 /\ hir' = hir /\ store' = store
      BY FrontKept DEF Continue
<1>2. pos' = pos + 1 /\ pos' \in 0..Len(hir)
      BY NextEvent DEF Continue
<1>3. Back'
      BY <1>1, <1>2 DEF Back
<1> QED  BY <1>1, <1>3 DEF Compilation, Continue

\* A panic that no valid source meets, or an error that is known.
LEMMA StopOutcome ==
  ASSUME Compilation, NEW outcome \in {"panic", "error"}, NEW reason, Stop(outcome, reason),
         Valid /\ ~MixesPrototypes =>
           outcome = "error" /\ reason = "DuplicateDefinition" /\ \E i, j \in Definers : i # j
  PROVE  Stopped
<1>1. UNCHANGED front /\ UNCHANGED std /\ phase' = "done" /\ result' = Finished(outcome, reason)
      BY DEF Stop
<1>2. /\ Valid' <=> Valid
      /\ MixesPrototypes' <=> MixesPrototypes
      /\ hir' = hir /\ store' = store
      BY <1>1, FrontKept
<1>3. Definers' = Definers
      BY <1>2 DEF Definers
<1>4. result'.outcome = outcome /\ result'.reason = reason
      BY <1>1 DEF Finished
<1>5. ~Succeeded'
      BY <1>4 DEF Succeeded
<1>6. ValidNeverPanics'
      BY <1>2, <1>4 DEF ValidNeverPanics
<1>7. ExternalCompiles'
      BY <1>2, <1>3, <1>4 DEF ExternalCompiles
<1>8. RedefinitionCaught' /\ SymbolAgrees'
      BY <1>5 DEF RedefinitionCaught, SymbolAgrees
<1> QED  BY <1>1, <1>6, <1>7, <1>8 DEF Stopped, Outcome

\* What the declarations of a valid source agree on.
LEMMA ValidModule ==
  ASSUME Compilation, Valid, Compiling(hir, store, pos), InModule(store, hir[pos + 1])
  PROVE  LET v == store[hir[pos + 1].sym]
         IN  /\ v.sc # "Register"
             /\ module.kind = "func" => v.form = "function"
             /\ module.kind = "data" => v.form = "object"
             /\ v.form = "function" /\ module.kind = "func" /\ module.sig # v.type
                  => MixesPrototypes
             /\ \A i \in 1..pos : Defined(hir, store, pos, i) =>
                  store[hir[i].sym].form = v.form
<1> DEFINE v == store[hir[pos + 1].sym]
<1>1. AgreeOK(hir, store, std) /\ ModuleOK(hir, store, pos, module)
      BY DEF Compilation, Front, Back
<1>2. pos + 1 \in 1..Len(hir) /\ \A i \in 1..pos : i \in 1..Len(hir)
      BY NextEvent
<1>3. v.form = std.form /\ v.type \in std.types /\ v.sc # "Register"
      BY <1>1, <1>2 DEF AgreeOK
<1>4. \A i \in 1..pos : InModule(store, hir[i]) =>
        store[hir[i].sym].form = std.form /\ store[hir[i].sym].type \in std.types
      BY <1>1, <1>2 DEF AgreeOK
<1>5. module.kind = "func" =>
        std.form = "function" /\ module.sig \in std.types
      BY <1>1, <1>4 DEF ModuleOK
<1>6. module.kind = "data" => std.form = "object"
      BY <1>1, <1>4 DEF ModuleOK
<1>7. \A i \in 1..pos : Defined(hir, store, pos, i) => InModule(store, hir[i])
      BY DEF Defined, Defining, InModule, InSlot, Names
<1> HIDE DEF v
<1>8. v.form = "function" /\ module.kind = "func" /\ module.sig # v.type => MixesPrototypes
      BY <1>3, <1>5 DEF MixesPrototypes
<1>9. \A i \in 1..pos : Defined(hir, store, pos, i) => store[hir[i].sym].form = v.form
      BY <1>3, <1>4, <1>7
<1> QED  BY <1>3, <1>5, <1>6, <1>8, <1>9 DEF v

\* declare_func, for a declaration or for a definition.
LEMMA DeclareFuncStep ==
  ASSUME Compilation, Compiling(hir, store, pos),
         NEW isDefinition \in BOOLEAN, isDefinition <=> hir[pos + 1].op = "function",
         hir[pos + 1].op # "end", InModule(store, hir[pos + 1]),
         store[hir[pos + 1].sym].form = "function",
         DeclareFunc(hir[pos + 1].sym, isDefinition)
  PROVE  Compilation' \/ Stopped
<1> DEFINE e == hir[pos + 1]
           v == store[e.sym]
           k == FuncLinkage(v.sc, isDefinition)
<1>1. /\ LastFunction(hir, pos, function) /\ IdsOK(hir, store, pos, ids)
      /\ ModuleOK(hir, store, pos, module)
      BY DEF Compilation, Back
<1>2. Names(e) /\ ~InSlot(store, e)
      BY DEF InModule
<1>3. v \in Variables /\ pos \in Nat
      BY <1>2, NextEvent
<1>4. e.sym \notin DOMAIN ids
      BY <1>1, <1>2, Fresh
<1>5. CASE FuncPanic(e.sym) # "none" /\ Stop("panic", FuncPanic(e.sym))
  <2>1. ~(Valid /\ ~MixesPrototypes)
    <3> SUFFICES ASSUME Valid, ~MixesPrototypes PROVE FALSE
        OBVIOUS
    <3>1. v.sc # "Register" /\ module.kind # "data"
          /\ ~(module.kind = "func" /\ module.sig # v.type)
          BY ValidModule
    <3> HIDE DEF e
    <3> QED  BY <1>5, <3>1 DEF FuncPanic
  <2> QED  BY <1>5, <2>1, StopOutcome
<1>6. CASE /\ FuncPanic(e.sym) = "none"
           /\ module' = Merged("func", k, v.type)
           /\ Declares(e.sym, Id("func"))
           /\ function' = IF isDefinition THEN pos + 1 ELSE function
           /\ Continue
  <2>1. v.sc # "Register" /\ module.kind # "data"
        /\ ~(module.kind = "func" /\ module.sig # v.type)
    <3> HIDE DEF e
    <3> QED  BY <1>6 DEF FuncPanic
  <2>2. LastFunction(hir, pos + 1, function')
        BY <1>1, <1>3, <1>6, LastGrows
  <2>3. IdsOK(hir, store, pos + 1, ids')
    <3>1. Id("func").kind = "func"
          BY DEF Id
    <3>2. ids' = [s \in DOMAIN ids \cup {e.sym} |-> IF s = e.sym THEN Id("func") ELSE ids[s]]
          BY <1>6 DEF Declares
    <3> QED  BY <1>1, <1>2, <3>1, <3>2, IdsEntered
  <2>4. /\ k \in {"Import", "Local", "Export"}
        /\ k = "Export" <=> Exports(store, e)
        /\ k = "Local" <=> Hides(store, e) /\ ~Exports(store, e)
    <3>1. v.sc \in {"Auto", "Static", "Extern"}
          BY <1>3, <2>1 DEF Variables
    <3>2. e.sym # 0
          BY <1>2, NextEvent
    <3>3. Exports(store, e) <=> isDefinition /\ v.sc \in {"Auto", "Extern"}
          BY <3>2 DEF Exports
    <3>4. Hides(store, e) <=> v.sc = "Static"
          BY DEF Hides
    <3> HIDE DEF v, e
    <3>5. k = IF v.sc \in {"Auto", "Extern"} THEN IF isDefinition THEN "Export" ELSE "Import"
              ELSE "Local"
          BY DEF FuncLinkage
    <3> HIDE DEF k
    <3> QED  BY <3>1, <3>3, <3>4, <3>5
  <2>5. v.type \in Types
        BY <1>3 DEF Variables
  <2>6. ~(Defining(store, e) /\ e.op # "function")
        BY DEF Defining
  <2> HIDE DEF k, v, e
  <2>7. /\ module' \in [kind : {"func", "data"}, linkage : {"Import", "Local", "Export"},
                        sig : Types \cup {"none"}, defined : BOOLEAN]
        /\ module'.kind = "func"
        /\ module'.sig = (IF module.kind = "none" THEN v.type ELSE module.sig)
        /\ module'.linkage = (IF module.kind = "none" THEN k ELSE Merge(module.linkage, k))
        /\ module'.defined <=> module.defined
    <3>1. module \in [kind : {"none", "func", "data"},
                      linkage : {"none", "Import", "Local", "Export"},
                      sig : Types \cup {"none"}, defined : BOOLEAN]
          BY <1>1 DEF ModuleOK
    <3>2. CASE module.kind = "none"
      <4>1. module' = [kind |-> "func", linkage |-> k, sig |-> v.type, defined |-> FALSE]
            BY <1>6, <3>2 DEF Merged
      <4>2. ~module.defined
        <5>1. \A i \in 1..pos : ~InModule(store, hir[i])
              BY <1>1, <3>2 DEF ModuleOK
        <5>2. \A i \in 1..pos : ~Defined(hir, store, pos, i)
              BY <5>1 DEF Defined, Defining, InModule, InSlot, Names
        <5> QED  BY <1>1, <5>2 DEF ModuleOK
      <4> QED  BY <2>4, <2>5, <3>1, <3>2, <4>1, <4>2
    <3>3. CASE module.kind # "none"
      <4>1. module' = [module EXCEPT !.linkage = Merge(module.linkage, k)]
            BY <1>6, <3>1, <3>3 DEF Merged
      <4>2. module.linkage \in {"Import", "Local", "Export"}
            BY <1>1, <3>3 DEF ModuleOK
      <4>3. Merge(module.linkage, k) \in {"Import", "Local", "Export"}
            BY DEF Merge
      <4>4. module.kind = "func"
            BY <2>1, <3>1, <3>3
      <4> QED  BY <3>1, <3>3, <4>1, <4>3, <4>4
    <3> QED  BY <3>2, <3>3
  <2>8. module.kind \in {"none", "func"}
        BY <1>1, <2>1 DEF ModuleOK
  <2>9. ModuleOK(hir, store, pos + 1, module')
    <3>1. store[hir[pos + 1].sym] = v /\ hir[pos + 1] = e
          BY DEF v, e
    <3> DEFINE new == module'
    <3>2. new = module'
          OBVIOUS
    <3> HIDE DEF new
    <3> QED  BY <1>1, <2>4, <2>5, <2>6, <2>7, <2>8, <3>1, <3>2, ModuleMerged
  <2> QED  BY <1>6, <2>2, <2>3, <2>9, GoesOn
<1> QED  BY <1>4, <1>5, <1>6 DEF DeclareFunc

\* store_static, for an object declared at file scope.
LEMMA StoreStaticStep ==
  ASSUME Compilation, Compiling(hir, store, pos), hir[pos + 1].op = "global",
         store[hir[pos + 1].sym].form = "object", StoreStatic(hir[pos + 1].sym)
  PROVE  Compilation' \/ Stopped
<1> DEFINE e      == hir[pos + 1]
           v      == store[e.sym]
           k      == DataLinkage(v.sc)
           merged == Merged("data", k, "none")
           reason == CASE v.sc = "Register"                          -> "illegal storage class"
                       [] module.kind = "func"                       -> "IncompatibleDeclaration"
                       [] ~OnlyDeclared(v.sc) /\ module.defined      -> "DuplicateDefinition"
                       [] OTHER                                      -> "none"
<1>1. /\ LastFunction(hir, pos, function) /\ IdsOK(hir, store, pos, ids)
      /\ ModuleOK(hir, store, pos, module)
      BY DEF Compilation, Back
<1>2. Names(e) /\ ~InSlot(store, e) /\ InModule(store, e)
      BY DEF InModule, InSlot, Names
<1>3. v \in Variables /\ pos \in Nat
      BY <1>2, NextEvent
<1>4. \/ reason # "none" /\ Stop("error", reason)
      \/ /\ reason = "none"
         /\ module' = [merged EXCEPT !.defined = @ \/ ~OnlyDeclared(v.sc)]
         /\ Declares(e.sym, Id("global"))
         /\ UNCHANGED function
         /\ Continue
      BY DEF StoreStatic
<1>5. Defining(store, e) <=> v.sc # "Extern"
      BY DEF Defining
<1>6. CASE reason # "none" /\ Stop("error", reason)
  <2>1. ASSUME Valid, ~MixesPrototypes
        PROVE  reason = "DuplicateDefinition" /\ \E i, j \in Definers : i # j
    <3>1. /\ v.sc # "Register" /\ module.kind # "func"
          /\ \A i \in 1..pos : Defined(hir, store, pos, i) =>
               store[hir[i].sym].form = "object"
          BY <1>2, <2>1, ValidModule
    <3> HIDE DEF e
    <3>2. reason = "DuplicateDefinition" /\ v.sc # "Extern" /\ module.defined
      <4> HIDE DEF v
      <4> QED  BY <1>6, <3>1 DEF OnlyDeclared
    <3>3. PICK i \in 1..pos : Defined(hir, store, pos, i)
          BY <1>1, <3>2 DEF ModuleOK
    <3>4. i \in 1..Len(hir) /\ pos + 1 \in 1..Len(hir) /\ i # pos + 1
          BY NextEvent
    <3>5. DOMAIN hir = 1..Len(hir)
          BY FrontFacts DEF Compilation
    <3>6. i \in Definers
      <4>1. Defining(store, hir[i]) /\ store[hir[i].sym].form = "object"
            BY <3>1, <3>3 DEF Defined
      <4>2. hir[i].op # "function"
            BY <3>4, <4>1 DEF Compilation, Front, HirOK, Names, Defining
      <4> QED  BY <3>4, <3>5, <4>1, <4>2 DEF Definers, Defining
    <3>7. pos + 1 \in Definers
          BY <3>2, <3>4, <3>5 DEF Definers, e
    <3> QED  BY <3>2, <3>4, <3>6, <3>7
  <2> HIDE DEF reason
  <2> QED  BY <1>6, <2>1, StopOutcome
<1>7. CASE /\ reason = "none"
           /\ module' = [merged EXCEPT !.defined = @ \/ ~OnlyDeclared(v.sc)]
           /\ Declares(e.sym, Id("global"))
           /\ UNCHANGED function
           /\ Continue
  <2>1. v.sc # "Register" /\ module.kind # "func" /\ ~(v.sc # "Extern" /\ module.defined)
    <3> HIDE DEF v
    <3> QED  BY <1>7 DEF OnlyDeclared
  <2>2. LastFunction(hir, pos + 1, function')
        BY <1>1, <1>3, <1>7, LastGrows
  <2>3. IdsOK(hir, store, pos + 1, ids')
    <3>1. Id("global").kind = "global"
          BY DEF Id
    <3>2. ids' = [s \in DOMAIN ids \cup {e.sym} |-> IF s = e.sym THEN Id("global") ELSE ids[s]]
          BY <1>7 DEF Declares
    <3> QED  BY <1>1, <1>2, <3>1, <3>2, IdsEntered
  <2>4. /\ k \in {"Import", "Local", "Export"}
        /\ k = "Export" <=> Exports(store, e)
        /\ k = "Local" <=> Hides(store, e) /\ ~Exports(store, e)
    <3>1. v.sc \in {"Auto", "Static", "Extern"}
          BY <1>3, <2>1 DEF Variables
    <3>2. Exports(store, e) <=> v.sc = "Auto"
          BY DEF Exports
    <3>3. Hides(store, e) <=> v.sc = "Static"
          BY <1>2 DEF Hides
    <3> HIDE DEF v, e
    <3>4. (v.sc = "Auto" => k = "Export") /\ (v.sc = "Static" => k = "Local")
          /\ (v.sc = "Extern" => k = "Import")
          BY DEF DataLinkage
    <3> HIDE DEF k
    <3> QED  BY <3>1, <3>2, <3>3, <3>4
  <2> HIDE DEF k, v, e, reason
  <2>5. /\ module' \in [kind : {"func", "data"}, linkage : {"Import", "Local", "Export"},
                        sig : Types \cup {"none"}, defined : BOOLEAN]
        /\ module'.kind = "data"
        /\ module'.sig = (IF module.kind = "none" THEN "none" ELSE module.sig)
        /\ module'.linkage = (IF module.kind = "none" THEN k ELSE Merge(module.linkage, k))
        /\ module'.defined <=> module.defined \/ v.sc # "Extern"
    <3>1. module \in [kind : {"none", "func", "data"},
                      linkage : {"none", "Import", "Local", "Export"},
                      sig : Types \cup {"none"}, defined : BOOLEAN]
          BY <1>1 DEF ModuleOK
    <3>2. CASE module.kind = "none"
      <4>1. merged = [kind |-> "data", linkage |-> k, sig |-> "none", defined |-> FALSE]
            BY <3>2 DEF Merged
      <4>2. ~module.defined
        <5>1. \A i \in 1..pos : ~InModule(store, hir[i])
              BY <1>1, <3>2 DEF ModuleOK
        <5>2. \A i \in 1..pos : ~Defined(hir, store, pos, i)
              BY <5>1 DEF Defined, Defining, InModule, InSlot, Names
        <5> QED  BY <1>1, <5>2 DEF ModuleOK
      <4>3. module' = [kind |-> "data", linkage |-> k, sig |-> "none",
                       defined |-> v.sc # "Extern"]
        <5> HIDE DEF merged
        <5> QED  BY <1>7, <4>1 DEF OnlyDeclared
      <4> QED  BY <2>4, <3>1, <3>2, <4>2, <4>3
    <3>3. CASE module.kind # "none"
      <4>1. merged = [module EXCEPT !.linkage = Merge(module.linkage, k)]
            BY <3>1, <3>3 DEF Merged
      <4>2. Merge(module.linkage, k) \in {"Import", "Local", "Export"}
            BY DEF Merge
      <4>3. module.kind = "data"
            BY <2>1, <3>1, <3>3
      <4> HIDE DEF merged
      <4>4. /\ merged \in [kind : {"func", "data"}, linkage : {"Import", "Local", "Export"},
                           sig : Types \cup {"none"}, defined : BOOLEAN]
            /\ merged.kind = "data" /\ merged.sig = module.sig
            /\ merged.linkage = Merge(module.linkage, k) /\ merged.defined = module.defined
            BY <3>1, <4>1, <4>2, <4>3
      <4>5. module' = [merged EXCEPT !.defined = merged.defined \/ v.sc # "Extern"]
            BY <1>7, <4>4 DEF OnlyDeclared
      <4> QED  BY <3>3, <4>4, <4>5
    <3> QED  BY <3>2, <3>3
  <2>6. module.kind \in {"none", "data"}
        BY <1>1, <2>1 DEF ModuleOK
  <2>7. ModuleOK(hir, store, pos + 1, module')
    <3>1. store[hir[pos + 1].sym] = v /\ hir[pos + 1] = e
          BY DEF v, e
    <3>2. e.op = "global" /\ v.form = "object"
          BY <3>1
    <3> DEFINE new == module'
    <3>3. new = module'
          OBVIOUS
    <3> HIDE DEF new
    <3> QED  BY <1>1, <1>2, <1>5, <2>1, <2>4, <2>5, <2>6, <3>1, <3>2, <3>3, ModuleMerged
  <2> QED  BY <1>7, <2>2, <2>3, <2>7, GoesOn
<1> QED  BY <1>4, <1>6, <1>7

\* The loop of compile and declare_stack.
LEMMA CompileGlobalStep ==
  ASSUME Compilation, CompileGlobal
  PROVE  Compilation' \/ Stopped
<1>1. /\ Compiling(hir, store, pos) /\ hir[pos + 1].op = "global" /\ Sym = hir[pos + 1].sym
      BY BackFacts DEF CompileGlobal
<1>2. InModule(store, hir[pos + 1])
      BY <1>1 DEF InModule, InSlot, Names
<1>3. CASE store[Sym].form = "function" /\ DeclareFunc(Sym, FALSE)
      BY <1>1, <1>2, <1>3, DeclareFuncStep
<1>4. CASE store[Sym].form = "object" /\ StoreStatic(Sym)
      BY <1>1, <1>4, StoreStaticStep
<1> QED  BY <1>3, <1>4 DEF CompileGlobal

\* An event of a function that gets a slot there.
LEMMA SlotStep ==
  ASSUME Compilation, Compiling(hir, store, pos), InSlot(store, hir[pos + 1]),
         Names(hir[pos + 1]), hir[pos + 1].op # "function", hir[pos + 1].op # "end",
         Declares(hir[pos + 1].sym, Slot), UNCHANGED <<module, function>>, Continue
  PROVE  Compilation'
<1>1. /\ LastFunction(hir, pos, function) /\ IdsOK(hir, store, pos, ids)
      /\ ModuleOK(hir, store, pos, module) /\ pos \in Nat
      BY NextEvent DEF Compilation, Back
<1>2. LastFunction(hir, pos + 1, function)
      BY <1>1, LastGrows
<1>3. Slot.kind = "local" /\ Slot.fn = function
      BY DEF Slot
<1>4. IdsOK(hir, store, pos + 1, ids')
      BY <1>1, <1>2, <1>3, IdsEntered DEF Declares
<1>5. ModuleOK(hir, store, pos + 1, module)
      BY <1>1, ModuleStay DEF InModule
<1> QED  BY <1>2, <1>4, <1>5, GoesOn

\* declare_stack: an object of a block gets a slot, anything else is the module's.
LEMMA DeclareStackStep ==
  ASSUME Compilation, DeclareStack
  PROVE  Compilation' \/ Stopped
<1>1. /\ Compiling(hir, store, pos) /\ hir[pos + 1].op = "local" /\ Sym = hir[pos + 1].sym
      BY BackFacts DEF DeclareStack
<1>2. CASE store[Sym].form = "function" /\ DeclareFunc(Sym, FALSE)
  <2>1. InModule(store, hir[pos + 1])
        BY <1>1, <1>2 DEF InModule, InSlot, Names
  <2> QED  BY <1>1, <1>2, <2>1, DeclareFuncStep
<1>3. CASE store[Sym].form = "object" /\ Declares(Sym, Slot) /\ UNCHANGED <<module, function>>
           /\ Continue
      BY <1>1, <1>3, SlotStep DEF InSlot, Names
<1> QED  BY <1>2, <1>3 DEF DeclareStack

\* store_stack_params.
LEMMA CompileParamStep ==
  ASSUME Compilation, CompileParam
  PROVE  Compilation'
<1>1. /\ Compiling(hir, store, pos) /\ hir[pos + 1].op = "param" /\ Sym = hir[pos + 1].sym
      BY BackFacts DEF CompileParam
<1> QED  BY <1>1, SlotStep DEF CompileParam, StoreParam, InSlot, Names

\* compile_func up to the statements.
LEMMA CompileFunctionStep ==
  ASSUME Compilation, CompileFunction
  PROVE  Compilation' \/ Stopped
<1>1. /\ Compiling(hir, store, pos) /\ hir[pos + 1].op = "function" /\ Sym = hir[pos + 1].sym
      BY BackFacts DEF CompileFunction
<1>2. CASE Sym # 0 /\ DeclareFunc(Sym, TRUE)
  <2>1. InModule(store, hir[pos + 1]) /\ Names(hir[pos + 1])
        BY <1>1, <1>2 DEF InModule, InSlot, Names
  <2>2. store[hir[pos + 1].sym].form = "function"
        BY <1>1, <2>1, NextEvent DEF Compiling, HirOK
  <2> QED  BY <1>1, <1>2, <2>1, <2>2, DeclareFuncStep
<1>3. CASE Sym = 0 /\ function' = pos + 1 /\ UNCHANGED <<module, ids>> /\ Continue
  <2>1. ~Names(hir[pos + 1])
        BY <1>1, <1>3 DEF Names
  <2>2. /\ LastFunction(hir, pos, function) /\ IdsOK(hir, store, pos, ids)
        /\ ModuleOK(hir, store, pos, module) /\ pos \in Nat
        BY <1>1, NextEvent DEF Compilation, Back
  <2>3. LastFunction(hir, pos + 1, function')
        BY <1>1, <1>3, <2>2, LastGrows
  <2>4. IdsOK(hir, store, pos + 1, ids)
        BY <1>1, <2>1, <2>2, IdsStay
  <2>5. ModuleOK(hir, store, pos + 1, module)
        BY <1>1, <2>1, <2>2, ModuleStay DEF InModule
  <2> QED  BY <1>1, <1>3, <2>3, <2>4, <2>5, GoesOn
<1> QED  BY <1>2, <1>3 DEF CompileFunction

\* load_addr: whatever is used has been declared before.
LEMMA LoadStep ==
  ASSUME Compilation, Load
  PROVE  Compilation'
<1>1. /\ Compiling(hir, store, pos) /\ hir[pos + 1].op = "load" /\ Sym = hir[pos + 1].sym
      BY BackFacts DEF Load
<1>2. /\ LastFunction(hir, pos, function) /\ IdsOK(hir, store, pos, ids)
      /\ ModuleOK(hir, store, pos, module) /\ pos \in Nat
      BY <1>1, NextEvent DEF Compilation, Back
<1>3. Sym \in DOMAIN ids
  <2>1. LoadsOK(hir, store, Valid) /\ pos + 1 \in 1..Len(hir)
        BY <1>1, NextEvent DEF Compilation, Front
  <2>2. PICK j \in 1..(pos + 1) - 1 : Names(hir[j]) /\ hir[j].sym = hir[pos + 1].sym
        BY <1>1, <2>1 DEF LoadsOK
  <2>3. j \in 1..pos
        BY <1>2
  <2> QED  BY <1>1, <1>2, <2>2, <2>3 DEF IdsOK
<1>4. UNCHANGED <<module, ids, function>> /\ Continue
      BY <1>3 DEF Load
<1>5. ~Names(hir[pos + 1])
      BY <1>1 DEF Names
<1>6. LastFunction(hir, pos + 1, function)
      BY <1>1, <1>2, LastGrows
<1>7. IdsOK(hir, store, pos + 1, ids)
      BY <1>1, <1>2, <1>5, IdsStay
<1>8. ModuleOK(hir, store, pos + 1, module)
      BY <1>1, <1>2, <1>5, ModuleStay DEF InModule
<1> QED  BY <1>1, <1>4, <1>6, <1>7, <1>8, GoesOn

\* define_function, at the end of the function that is open.
LEMMA EndFunctionStep ==
  ASSUME Compilation, EndFunction
  PROVE  Compilation' \/ Stopped
<1> DEFINE f   == function
           sym == hir[f].sym
<1>1. /\ Compiling(hir, store, pos) /\ hir[pos + 1].op = "end"
      BY BackFacts DEF EndFunction
<1>2. /\ LastFunction(hir, pos, f) /\ IdsOK(hir, store, pos, ids)
      /\ ModuleOK(hir, store, pos, module) /\ HirOK(hir, store)
      BY DEF Compilation, Back, Front
<1>3. pos \in Nat /\ pos + 1 \in 1..Len(hir) /\ (\A k \in 1..pos : k \in 1..pos + 1 /\ k \in 1..Len(hir))
      /\ (\A k \in 1..pos + 1 : k \in 1..pos \/ k = pos + 1) /\ Len(hir) \in Nat
      BY <1>1, NextEvent
<1>4. PICK g \in 1..pos : hir[g].op = "function" /\ \A k \in g + 1..pos : hir[k].op # "end"
  <2>1. Inside(hir, (pos + 1) - 1)
        BY <1>1, <1>2, <1>3 DEF HirOK
  <2>2. (pos + 1) - 1 = pos
        BY <1>3
  <2> QED  BY <2>1, <2>2 DEF Inside
<1>5. f \in 1..pos /\ hir[f].op = "function" /\ (\A k \in f + 1..pos : hir[k].op # "function")
      BY <1>2, <1>4 DEF LastFunction, SameBody
<1>6. \A k \in f + 1..pos : hir[k].op # "end"
  <2>1. ~(f < g)
        BY <1>3, <1>4, <1>5
  <2> QED  BY <1>3, <1>4, <1>5, <2>1
<1>7. ~Defined(hir, store, pos, f)
      BY <1>5, <1>6 DEF Defined
<1>8. Defining(store, hir[f]) <=> sym # 0
      BY <1>5 DEF Defining
<1>9. \A i : Defined(hir, store, pos, i) => i \in 1..pos
      BY DEF Defined
<1>10. ASSUME NEW i PROVE Defined(hir, store, pos + 1, i) <=>
                            Defined(hir, store, pos, i) \/ (i = f /\ sym # 0)
  <2>1. ASSUME Defined(hir, store, pos, i) PROVE Defined(hir, store, pos + 1, i)
    <3>1. i \in 1..pos + 1 /\ Defining(store, hir[i])
          BY <1>3, <2>1 DEF Defined
    <3>2. ASSUME hir[i].op = "function" PROVE \E e \in i + 1..pos + 1 : hir[e].op = "end"
      <4>1. PICK e \in i + 1..pos : hir[e].op = "end"
            BY <2>1, <3>2 DEF Defined
      <4>2. e \in i + 1..pos + 1
            BY <1>3
      <4> QED  BY <4>1, <4>2
    <3> QED  BY <3>1, <3>2 DEF Defined
  <2>2. ASSUME i = f, sym # 0 PROVE Defined(hir, store, pos + 1, i)
    <3>1. i \in 1..pos + 1 /\ Defining(store, hir[i])
          BY <1>3, <1>5, <1>8, <2>2
    <3>2. pos + 1 \in i + 1..pos + 1
          BY <1>3, <1>5, <2>2
    <3> QED  BY <1>1, <3>1, <3>2 DEF Defined
  <2>3. ASSUME Defined(hir, store, pos + 1, i), i # f PROVE Defined(hir, store, pos, i)
    <3>1. i \in 1..pos /\ Defining(store, hir[i])
      <4>1. i # pos + 1
            BY <1>1, <2>3 DEF Defined, Defining
      <4> QED  BY <1>3, <2>3, <4>1 DEF Defined
    <3>2. ASSUME hir[i].op = "function" PROVE \E e \in i + 1..pos : hir[e].op = "end"
      <4>1. i < f
            BY <1>3, <1>5, <2>3, <3>1, <3>2
      <4>2. ~Inside(hir, f - 1)
            BY <1>2, <1>3, <1>5 DEF HirOK
      <4>3. i \in 1..f - 1
            BY <1>3, <1>5, <3>1, <4>1
      <4>4. PICK e \in i + 1..f - 1 : hir[e].op = "end"
            BY <3>2, <4>2, <4>3 DEF Inside
      <4>5. e \in i + 1..pos
            BY <1>3, <1>5
      <4> QED  BY <4>4, <4>5
    <3> QED  BY <3>1, <3>2 DEF Defined
  <2>4. Defined(hir, store, pos + 1, f) => sym # 0
        BY <1>8 DEF Defined
  <2> QED  BY <2>1, <2>2, <2>3, <2>4
<1>11. /\ module.defined <=> \E i \in 1..pos : Defined(hir, store, pos, i)
       /\ \A i, j \in 1..pos : Defined(hir, store, pos, i) /\ Defined(hir, store, pos, j) => i = j
       BY <1>2 DEF ModuleOK
<1>12. CASE sym # 0 /\ module.defined /\ Stop("panic", "DuplicateDefinition")
  <2>1. ASSUME Valid PROVE FALSE
    <3>1. PICK i \in 1..pos : Defined(hir, store, pos, i)
          BY <1>11, <1>12
    <3>2. AgreeOK(hir, store, std)
          BY <2>1 DEF Compilation, Front
    <3>3. Defining(store, hir[i]) /\ i \in 1..Len(hir) /\ f \in 1..Len(hir)
          BY <1>3, <1>5, <3>1 DEF Defined
    <3>4. CASE hir[i].op = "function"
      <4>1. hir[i].sym # 0
            BY <3>3, <3>4 DEF Defining
      <4>2. i = f
            BY <1>5, <1>12, <3>2, <3>3, <3>4, <4>1 DEF AgreeOK
      <4> QED  BY <1>7, <3>1, <4>2
    <3>5. CASE hir[i].op # "function"
      <4>1. InModule(store, hir[i]) /\ store[hir[i].sym].form = "object"
            BY <3>3, <3>5 DEF Defining, InModule, InSlot, Names
      <4>2. InModule(store, hir[f]) /\ store[sym].form = "function"
        <5>1. Names(hir[f])
              BY <1>5, <1>12 DEF Names
        <5> QED  BY <1>2, <1>5, <3>3, <5>1 DEF HirOK, InModule, InSlot
      <4> QED  BY <3>2, <3>3, <4>1, <4>2 DEF AgreeOK
    <3> QED  BY <3>4, <3>5
  <2> QED  BY <1>12, <2>1, StopOutcome
<1>13. CASE /\ sym = 0 \/ ~module.defined
            /\ module' = [module EXCEPT !.defined = @ \/ sym # 0]
            /\ UNCHANGED <<ids, function>>
            /\ Continue
  <2>1. LastFunction(hir, pos + 1, f)
        BY <1>1, <1>2, <1>3, LastGrows
  <2>2. IdsOK(hir, store, pos + 1, ids)
        BY <1>1, <1>2, IdsStay DEF Names
  <2>3. module \in [kind : {"none", "func", "data"},
                    linkage : {"none", "Import", "Local", "Export"},
                    sig : Types \cup {"none"}, defined : BOOLEAN]
        BY <1>2 DEF ModuleOK
  <2> DEFINE new == module'
             b   == sym # 0
  <2>4. new = [module EXCEPT !.defined = module.defined \/ b]
        BY <1>13, <2>3
  <2> HIDE DEF new, b
  <2>5. /\ new \in [kind : {"none", "func", "data"},
                    linkage : {"none", "Import", "Local", "Export"},
                    sig : Types \cup {"none"}, defined : BOOLEAN]
        /\ new.kind = module.kind /\ new.sig = module.sig /\ new.linkage = module.linkage
        /\ new.defined = (module.defined \/ b)
    <3>1. (module.defined \/ b) \in BOOLEAN
          OBVIOUS
    <3> QED  BY <2>3, <2>4, <3>1
  <2>6. ~InModule(store, hir[pos + 1]) /\ ~Exports(store, hir[pos + 1])
        /\ ~Hides(store, hir[pos + 1])
        BY <1>1 DEF InModule, Names, Exports, Hides
  <2>7. /\ new.defined <=> \E i \in 1..pos + 1 : Defined(hir, store, pos + 1, i)
        /\ \A i, j \in 1..pos + 1 :
             Defined(hir, store, pos + 1, i) /\ Defined(hir, store, pos + 1, j) => i = j
    <3>1. b <=> sym # 0
          BY DEF b
    <3>2. sym = 0 \/ ~module.defined
          BY <1>13
    <3> HIDE DEF sym
    <3>3. new.defined <=> \E i \in 1..pos + 1 : Defined(hir, store, pos + 1, i)
          BY <1>3, <1>5, <1>9, <1>10, <1>11, <2>5, <3>1
    <3>4. ASSUME NEW i \in 1..pos + 1, NEW j \in 1..pos + 1,
                 Defined(hir, store, pos + 1, i), Defined(hir, store, pos + 1, j)
          PROVE  i = j
      <4>1. CASE sym = 0
            BY <1>9, <1>10, <1>11, <3>4, <4>1
      <4>2. CASE ~module.defined
            BY <1>9, <1>10, <1>11, <3>4, <4>2
      <4> QED  BY <3>2, <4>1, <4>2
    <3> QED  BY <3>3, <3>4
  <2>8. /\ (\E i \in 1..pos + 1 : Exports(store, hir[i])) <=>
             \E i \in 1..pos : Exports(store, hir[i])
        /\ (\E i \in 1..pos + 1 : Exports(store, hir[i]) \/ Hides(store, hir[i])) <=>
             \E i \in 1..pos : Exports(store, hir[i]) \/ Hides(store, hir[i])
        /\ \A i \in 1..pos + 1 : InModule(store, hir[i]) => i \in 1..pos
        BY <1>3, <2>6
  <2>9. /\ new.kind = "func" => \E i \in 1..pos + 1 : /\ InModule(store, hir[i])
                                                     /\ store[hir[i].sym].form = "function"
                                                     /\ store[hir[i].sym].type = new.sig
        /\ new.kind = "data" => \E i \in 1..pos + 1 : InModule(store, hir[i])
                                                      /\ store[hir[i].sym].form = "object"
        /\ \A i \in 1..pos + 1 : InModule(store, hir[i]) => new.kind # "none"
        BY <1>2, <1>3, <2>5, <2>8 DEF ModuleOK
  <2>10. ModuleOK(hir, store, pos + 1, new)
         BY <1>2, <2>5, <2>7, <2>8, <2>9 DEF ModuleOK
  <2> QED  BY <1>1, <1>13, <2>1, <2>2, <2>10, GoesOn DEF new
<1> QED  BY <1>12, <1>13 DEF EndFunction

\* All of hir is compiled: the module has what the declarations say.
LEMMA EmittedStep ==
  ASSUME Compilation, Emitted
  PROVE  Stopped
<1> DEFINE n == Len(hir)
<1>1. /\ UNCHANGED front /\ UNCHANGED std /\ phase' = "done" /\ module' = module
      /\ result' = Finished("ok", "none")
      BY DEF Emitted, Stop, back
<1>2. pos = n /\ ModuleOK(hir, store, n, module) /\ HirOK(hir, store) /\ n \in Nat
      /\ StdTypes(std) /\ DefinitionsOK(hir, store, std) /\ (Valid => AgreeOK(hir, store, std))
      /\ ~Inside(hir, n) /\ DOMAIN hir = 1..n
  <2>1. Front /\ IsGlobal
        BY DEF Compilation, IsGlobal
  <2> QED  BY <2>1, FrontFacts DEF Emitted, Compilation, Back, Front
<1> HIDE DEF n
<1>3. \A i \in 1..n : Defining(store, hir[i]) <=> Defined(hir, store, n, i)
  <2>1. TAKE i \in 1..n
  <2>2. hir[i].op = "function" => \E e \in i + 1..n : hir[e].op = "end"
        BY <1>2 DEF Inside
  <2> QED  BY <2>2 DEF Defined
<1>4. /\ Valid' <=> Valid
      /\ hir' = hir /\ store' = store /\ std' = std
      BY <1>1, FrontKept
<1>5. result'.outcome = "ok"
      BY <1>1 DEF Finished
<1>6. ValidNeverPanics' /\ ExternalCompiles'
      BY <1>5 DEF ValidNeverPanics, ExternalCompiles, Succeeded
<1>7. "redefinition" \notin std.faults
  <2> SUFFICES ASSUME "redefinition" \in std.faults PROVE FALSE
      OBVIOUS
  <2>1. PICK i, j \in 1..n : i # j /\ Defining(store, hir[i]) /\ Defining(store, hir[j])
        BY <1>2 DEF DefinitionsOK, n
  <2> QED  BY <1>2, <1>3, <2>1 DEF ModuleOK
<1>8. RedefinitionCaught'
      BY <1>4, <1>7 DEF RedefinitionCaught
<1>9. ASSUME Valid, module.kind # "none"
      PROVE  /\ module.defined = (std.defined \/ std.tentative)
             /\ IF std.linkage = "external"
                THEN module.linkage = IF module.defined THEN "Export" ELSE "Import"
                ELSE module.linkage = "Local" \/ DefinedAsExtern
  <2>1. module.defined <=> (std.defined \/ std.tentative)
        BY <1>2, <1>3 DEF ModuleOK, DefinitionsOK, n
  <2>2. module.defined \in BOOLEAN /\ std.defined \in BOOLEAN /\ std.tentative \in BOOLEAN
        /\ module.linkage \in {"Import", "Local", "Export"}
        BY <1>2, <1>9 DEF ModuleOK, StdTypes
  <2>3. PICK r \in 1..n : InModule(store, hir[r])
        BY <1>2, <1>9 DEF ModuleOK
  <2>4. AgreeOK(hir, store, std)
        BY <1>2, <1>9
  <2>5. \A i \in 1..n : InModule(store, hir[i]) => store[hir[i].sym] \in Variables
    <3>1. TAKE i \in 1..n
    <3>2. HAVE InModule(store, hir[i])
    <3>3. hir[i].sym \in 1..Len(store)
          BY <1>2, <3>2 DEF HirOK, InModule, n
    <3> QED  BY <3>3, FrontFacts DEF Compilation
  <2>6. \A i \in 1..n : Exports(store, hir[i]) \/ Hides(store, hir[i])
                        \/ Defining(store, hir[i]) => InModule(store, hir[i])
        BY DEF Exports, Hides, Defining, InModule, InSlot, Names
  <2>7. CASE std.linkage = "external"
    <3>1. \A i \in 1..n : InModule(store, hir[i]) =>
            store[hir[i].sym].sc \in {"Auto", "Extern"}
          BY <2>4, <2>5, <2>7 DEF AgreeOK, Variables, n
    <3>2. \A i \in 1..n : ~Hides(store, hir[i])
          BY <3>1 DEF Hides
    <3>3. \A i \in 1..n : Exports(store, hir[i]) <=> Defining(store, hir[i])
      <4>1. TAKE i \in 1..n
      <4>2. Exports(store, hir[i]) => Defining(store, hir[i])
            BY DEF Exports, Defining
      <4>3. ASSUME Defining(store, hir[i]) PROVE Exports(store, hir[i])
        <5>1. store[hir[i].sym].sc \in {"Auto", "Extern"}
              BY <2>6, <3>1, <4>3
        <5> QED  BY <4>3, <5>1 DEF Exports, Defining
      <4> QED  BY <4>2, <4>3
    <3>4. module.linkage = "Export" <=> module.defined
          BY <1>2, <1>3, <3>3 DEF ModuleOK
    <3>5. module.linkage = "Local" => module.linkage = "Export"
          BY <1>2, <3>2 DEF ModuleOK
    <3> QED  BY <2>1, <2>2, <2>7, <3>4, <3>5
  <2>8. CASE std.linkage # "external"
    <3>1. std.linkage = "internal"
          BY <1>2, <2>3, <2>4, <2>8 DEF AgreeOK, StdTypes, n
    <3>2. PICK k \in 1..n : InModule(store, hir[k]) /\ store[hir[k].sym].sc = "Static"
          BY <2>4, <3>1 DEF AgreeOK, n
    <3>3. module.linkage \in {"Local", "Export"}
          BY <1>2, <3>2 DEF ModuleOK, Hides
    <3>4. ASSUME module.linkage = "Export" PROVE DefinedAsExtern
      <4>1. PICK i \in 1..n : Exports(store, hir[i])
            BY <1>2, <3>4 DEF ModuleOK
      <4>2. CASE hir[i].op = "function"
        <5>1. hir[i].sym # 0 /\ Names(hir[i]) /\ store[hir[i].sym].sc # "Static"
              BY <4>1, <4>2 DEF Exports, Names
        <5>2. store[hir[i].sym].sc = "Extern"
              BY <1>2, <4>2, <5>1 DEF HirOK, n
        <5> QED  BY <1>2, <4>2, <5>1, <5>2 DEF DefinedAsExtern
      <4>3. CASE hir[i].op # "function"
        <5>1. hir[i].op = "global" /\ store[hir[i].sym].form = "object"
              /\ store[hir[i].sym].sc = "Auto"
              BY <4>1, <4>3 DEF Exports
        <5>2. store[hir[k].sym].form = "object"
              BY <2>4, <2>6, <3>2, <4>1, <5>1 DEF AgreeOK, n
        <5>3. hir[k].op = "global"
          <6>1. hir[k].op # "function"
                BY <1>2, <3>2, <5>2 DEF HirOK, InModule, n
          <6> QED  BY <3>2, <5>2, <6>1 DEF InModule, InSlot, Names
        <5>4. Defining(store, hir[i]) /\ Defining(store, hir[k]) /\ i # k
              BY <3>2, <5>1, <5>2, <5>3 DEF Defining
        <5> QED  BY <1>2, <1>3, <5>4 DEF ModuleOK
      <4> QED  BY <4>2, <4>3
    <3> QED  BY <2>1, <2>2, <2>8, <3>3, <3>4
  <2> QED  BY <2>7, <2>8
<1>10. SymbolAgrees'
  <2>1. DefinedAsExtern' <=> DefinedAsExtern
        BY <1>4 DEF DefinedAsExtern
  <2> QED  BY <1>1, <1>4, <1>9, <2>1 DEF SymbolAgrees
<1> QED  BY <1>1, <1>6, <1>8, <1>10 DEF Stopped, Outcome

-----------------------------------------------------------------------------
(* Every source.                                                           *)

\* Before anything is read.
LEMMA InitInvariant ==
  ASSUME Init
  PROVE  IInv
<1>1. /\ store = <<>> /\ scope = <<0>> /\ initialized = {} /\ hir = <<>>
      /\ std = [env |-> <<Nothing>>, linkage |-> "none", form |-> "none", types |-> {},
                defined |-> FALSE, tentative |-> FALSE, faults |-> {}]
      /\ phase = "read" /\ result = Pending
      BY DEF Init
<1>2. <<>> \in Seq(Variables) /\ <<>> \in Seq(Events) /\ Len(<<>>) = 0
      BY EmptySeq
<1>3. /\ <<0>> \in Seq({0}) /\ Len(<<0>>) = 1 /\ <<0>>[1] = 0 /\ <<0>> # <<>>
  <2>1. <<0>> \in Seq({0}) /\ Len(<<0>>) = 1 /\ <<0>>[1] = 0
        BY EmptySeq, AppendProperties
  <2> QED  BY <1>2, <2>1
<1>4. /\ <<Nothing>> \in Seq(Seq(Nat)) /\ Len(<<Nothing>>) = 1 /\ <<Nothing>>[1] = Nothing
      BY Denotations, EmptySeq, AppendProperties
<1>5. \A i \in 1..0 : FALSE
      OBVIOUS
<1>6. \A i \in 1..1 : i = 1
      OBVIOUS
<1>7. \A p \in 0..0 : ~Inside(hir, p)
      BY <1>5 DEF Inside
<1>8. StdTypes(std)
      BY <1>1, <1>4 DEF StdTypes
<1>9. HirOK(hir, store)
      BY <1>1, <1>2, <1>5 DEF HirOK
<1>10. LoadsOK(hir, store, Valid)
       BY <1>1, <1>2, <1>5 DEF LoadsOK
<1>11. ScopeOK(hir, store, scope, std.env, Valid)
  <2>1. std.env = <<Nothing>>
        BY <1>1
  <2>2. {0} = 0..Len(store)
        BY <1>1, <1>2
  <2>3. Innermost(scope)
    <3>1. \A n \in 0..1 : \A i \in 1..n : scope[i] = 0
          BY <1>1, <1>3
    <3> QED  BY <1>1, <1>3, <3>1 DEF Innermost
  <2> QED  BY <1>1, <1>3, <1>4, <1>6, <2>1, <2>2, <2>3 DEF ScopeOK
<1>12. DefinitionsOK(hir, store, std)
       BY <1>1, <1>2, <1>5 DEF DefinitionsOK
<1>13. AgreeOK(hir, store, std)
       BY <1>1, <1>2, <1>5 DEF AgreeOK
<1>14. IsGlobal /\ ~Inside(hir, Len(hir))
       BY <1>1, <1>2, <1>3, <1>7 DEF IsGlobal
<1>15. \A i \in 1..Len(std.env) : std.env[i] = Linked => std.linkage # "none"
       BY <1>1, <1>4, <1>6, Denotations
<1>16. store \in Seq(Variables) /\ initialized \subseteq 1..Len(store)
       /\ (scope[1] \in initialized => std.defined)
       BY <1>1, <1>2
<1>17. Front
       BY <1>8, <1>9, <1>10, <1>11, <1>12, <1>13, <1>14, <1>15, <1>16 DEF Front
<1>18. Started
       BY DEF Init, Started
<1> QED  BY <1>1, <1>17, <1>18 DEF IInv

\* The backend begins with nothing.
LEMMA BackStarts ==
  ASSUME Front, Started
  PROVE  Back
<1>1. /\ pos = 0 /\ function = 0 /\ ids = <<>>
      /\ module = [kind |-> "none", linkage |-> "none", sig |-> "none", defined |-> FALSE]
      BY DEF Started
<1>2. DOMAIN ids = {}
  <2>1. <<>> \in Seq({}) /\ Len(<<>>) = 0
        BY EmptySeq
  <2> QED  BY <1>1, <2>1, LenProperties
<1>3. \A i \in 1..0 : FALSE
      OBVIOUS
<1>4. pos \in 0..Len(hir)
      BY <1>1, FrontFacts
<1>5. LastFunction(hir, pos, function)
      BY <1>1, <1>3 DEF LastFunction
<1>6. IdsOK(hir, store, pos, ids)
      BY <1>1, <1>2, <1>3 DEF IdsOK
<1>7. ModuleOK(hir, store, pos, module)
      BY <1>1, <1>3 DEF ModuleOK
<1> QED  BY <1>4, <1>5, <1>6, <1>7 DEF Back

\* Every step keeps the invariant.
LEMMA StepInvariant ==
  ASSUME IInv, [Next]_vars
  PROVE  IInv'
<1>1. CASE UNCHANGED vars
  <2>1. /\ phase' = phase /\ result' = result /\ store' = store /\ scope' = scope
        /\ initialized' = initialized /\ hir' = hir /\ std' = std
        /\ pos' = pos /\ function' = function /\ module' = module /\ ids' = ids
        BY <1>1 DEF vars, front, back
  <2>2. Front' <=> Front
        BY <2>1 DEF Front, Valid, IsGlobal
  <2>3. (Started' <=> Started) /\ (Back' <=> Back)
        BY <2>1 DEF Started, Back
  <2>4. Outcome' <=> Outcome
        BY <2>1 DEF Outcome, ValidNeverPanics, ExternalCompiles, RedefinitionCaught, SymbolAgrees,
                    Valid, MixesPrototypes, Ended, Succeeded, IsGlobal, Definers, DefinedAsExtern
  <2> QED  BY <2>1, <2>2, <2>3, <2>4 DEF IInv
<1>2. ASSUME phase = "read"
      PROVE  result = Pending /\ Front /\ Started
      BY <1>2 DEF IInv
<1>3. ASSUME phase = "compile"
      PROVE  Compilation
      BY <1>3 DEF IInv, Compilation
<1>4. ReadOn \/ Stopped => IInv'
      BY DEF ReadOn, Stopped, IInv
<1>5. Compilation' \/ Stopped => IInv'
      BY DEF Compilation, Stopped, IInv
<1>6. CASE DeclareInFile \/ DeclareInBlock
  <2>1. PICK d \in FileDecls \cup BodyDecls : Declare(d)
        BY <1>6 DEF DeclareInFile, DeclareInBlock
  <2>2. d \in Declared
        BY DeclarationsAssumption
  <2>3. phase = "read"
        BY <2>1 DEF Declare, Reading
  <2> QED  BY <1>2, <1>4, <2>1, <2>2, <2>3, DeclareStep
<1>7. CASE DefineX
      BY <1>2, <1>4, <1>7, DefineXStep DEF DefineX, Reading
<1>8. CASE DefineOther
      BY <1>2, <1>4, <1>8, DefineOtherStep DEF DefineOther, Reading
<1>9. CASE OpenBlock
      BY <1>2, <1>4, <1>9, OpenBlockStep DEF OpenBlock, Reading
<1>10. CASE Close
       BY <1>2, <1>4, <1>10, CloseStep DEF Close
<1>11. CASE Use
       BY <1>2, <1>4, <1>11, UseStep DEF Use, Reading
<1>12. CASE EndOfFile
  <2>1. \/ Stopped
        \/ /\ phase' = "compile" /\ result' = Pending /\ Front' /\ Started'
           /\ Len(scope') = 1
        BY <1>2, <1>12, EndOfFileStep DEF EndOfFile
  <2>2. ASSUME Front', Started' PROVE Back'
        BY <2>2, BackStarts, PTL
  <2> QED  BY <1>4, <1>5, <2>1, <2>2 DEF Compilation
<1>13. CASE CompileGlobal
       BY <1>3, <1>5, <1>13, CompileGlobalStep DEF CompileGlobal, At
<1>14. CASE CompileFunction
       BY <1>3, <1>5, <1>14, CompileFunctionStep DEF CompileFunction, At
<1>15. CASE CompileParam
       BY <1>3, <1>5, <1>15, CompileParamStep DEF CompileParam, At
<1>16. CASE DeclareStack
       BY <1>3, <1>5, <1>16, DeclareStackStep DEF DeclareStack, At
<1>17. CASE Load
       BY <1>3, <1>5, <1>17, LoadStep DEF Load, At
<1>18. CASE EndFunction
       BY <1>3, <1>5, <1>18, EndFunctionStep DEF EndFunction, At
<1>19. CASE Emitted
       BY <1>3, <1>5, <1>19, EmittedStep DEF Emitted
<1>20. CASE Done
       BY <1>1, <1>20 DEF Done
<1> QED  BY <1>1, <1>6, <1>7, <1>8, <1>9, <1>10, <1>11, <1>12, <1>13, <1>14, <1>15, <1>16,
            <1>17, <1>18, <1>19, <1>20 DEF Next, Step

\* The invariant holds of every source, however long, over any declarations.
THEOREM Invariance == Spec => []IInv
<1>1. Init => IInv
      BY InitInvariant
<1>2. IInv /\ [Next]_vars => IInv'
      BY StepInvariant
<1> QED  BY <1>1, <1>2, PTL DEF Spec

\* Before the compilation has ended nothing is claimed of its result.
LEMMA OutcomeHolds ==
  ASSUME IInv
  PROVE  Outcome
<1>1. CASE phase = "done"
      BY <1>1 DEF IInv
<1>2. CASE phase # "done"
  <2>1. result = Pending
        BY <1>2 DEF IInv
  <2>2. result.outcome = "none"
        BY <2>1 DEF Pending, Finished
  <2> QED  BY <2>2 DEF Outcome, ValidNeverPanics, ExternalCompiles, RedefinitionCaught,
                       SymbolAgrees, Ended, Succeeded
<1> QED  BY <1>1, <1>2

\* A use of x loads what x denotes there: the declaration that it goes back to
\* is compiled, in a slot of the function that is open or for the module.
LEMMA UseHolds ==
  ASSUME IInv
  PROVE  UseDenotes
<1> SUFFICES ASSUME At("load"), Valid, Sym \in DOMAIN ids
             PROVE  Denoted(Sym) = hir[pos + 1].denotes \/ ExternSlot(Sym)
    BY DEF UseDenotes
<1>1. Compilation
      BY DEF IInv, At, Compilation
<1>2. /\ Compiling(hir, store, pos) /\ hir[pos + 1].op = "load" /\ Sym = hir[pos + 1].sym
      /\ pos \in Nat
      BY <1>1, BackFacts
<1>3. /\ LastFunction(hir, pos, function) /\ IdsOK(hir, store, pos, ids)
      /\ LoadsOK(hir, store, Valid) /\ HirOK(hir, store)
      BY <1>1 DEF Compilation, Back, Front
<1>4. PICK j \in 1..(pos + 1) - 1 :
        /\ Names(hir[j]) /\ hir[j].sym = hir[pos + 1].sym
        /\ InSlot(store, hir[j]) => SameBody(hir, j, pos + 1)
        /\ Valid => DenotedBy(store, hir[j], hir[pos + 1].denotes)
      BY <1>2, <1>3, NextEvent DEF LoadsOK
<1>5. j \in 1..pos /\ j \in 1..Len(hir)
      BY <1>2, NextEvent
<1>6. CASE InSlot(store, hir[j])
  <2>1. ids[Sym].kind = "local" /\ LastFunction(hir, j, ids[Sym].fn)
        BY <1>2, <1>3, <1>4, <1>5, <1>6 DEF IdsOK
  <2>2. SameBody(hir, j, pos)
        BY <1>2, <1>4, <1>6 DEF SameBody
  <2>3. ids[Sym].fn = function
        BY <1>2, <1>3, <1>5, <2>1, <2>2, SameLast
  <2>4. Denoted(Sym) = <<Sym>>
        BY <2>1, <2>3 DEF Denoted
  <2>5. store[Sym].form = "object"
        BY <1>2, <1>3, <1>4, <1>5, <1>6 DEF InSlot, HirOK
  <2> QED  BY <1>2, <1>4, <1>6, <2>1, <2>4, <2>5 DEF DenotedBy, ExternSlot
<1>7. CASE ~InSlot(store, hir[j])
  <2>1. ids[Sym].kind \in {"func", "global"}
        BY <1>2, <1>3, <1>4, <1>5, <1>7 DEF IdsOK
  <2> QED  BY <1>4, <1>7, <2>1 DEF Denoted, DenotedBy
<1> QED  BY <1>6, <1>7

\* ValidNeverPanics: of a valid source that does not mix int x() with a
\* prototype, compile, declare_func, load_addr and compile_func never panic.
THEOREM NoPanicOfValidSource == Spec => []ValidNeverPanics
<1>1. IInv => ValidNeverPanics
      BY OutcomeHolds DEF Outcome
<1> QED  BY <1>1, Invariance, PTL

\* ExternalCompiles: declare and store_static reject no valid source in which x
\* has external linkage, but for x declared twice in a block and for tentative
\* definitions.
THEOREM ExternalLinkageCompiles == Spec => []ExternalCompiles
<1>1. IInv => ExternalCompiles
      BY OutcomeHolds DEF Outcome
<1> QED  BY <1>1, Invariance, PTL

\* RedefinitionCaught: a second definition of x, wherever it stands, ends in an
\* error of declare or of the module.
THEOREM SecondDefinitionCaught == Spec => []RedefinitionCaught
<1>1. IInv => RedefinitionCaught
      BY OutcomeHolds DEF Outcome
<1> QED  BY <1>1, Invariance, PTL

\* SymbolAgrees: the linkage merged over all declarations is that of the first,
\* and the object file defines x exactly when the source does.
THEOREM SymbolFollowsC == Spec => []SymbolAgrees
<1>1. IInv => SymbolAgrees
      BY OutcomeHolds DEF Outcome
<1> QED  BY <1>1, Invariance, PTL

\* UseDenotes: parse_id and load_addr give a use of x what C 6.2.1 gives it.
THEOREM UseFollowsScope == Spec => []UseDenotes
<1>1. IInv => UseDenotes
      BY UseHolds
<1> QED  BY <1>1, Invariance, PTL

\* load_addr finds every symbol, of valid and of invalid sources: "bug in
\* parser: loaded a variable that was not declared" is never reached.
THEOREM LoadsDeclared ==
  Spec => [](At("load") => Sym \in DOMAIN ids)
<1>1. IInv => (At("load") => Sym \in DOMAIN ids)
  <2> SUFFICES ASSUME IInv, At("load") PROVE Sym \in DOMAIN ids
      OBVIOUS
  <2>1. Compilation
        BY DEF IInv, At, Compilation
  <2>2. /\ Compiling(hir, store, pos) /\ hir[pos + 1].op = "load" /\ Sym = hir[pos + 1].sym
        /\ pos \in Nat
        BY <2>1, BackFacts
  <2>3. LoadsOK(hir, store, Valid) /\ IdsOK(hir, store, pos, ids) /\ pos + 1 \in 1..Len(hir)
        BY <2>1, <2>2, NextEvent DEF Compilation, Front, Back
  <2>4. PICK j \in 1..(pos + 1) - 1 : Names(hir[j]) /\ hir[j].sym = hir[pos + 1].sym
        BY <2>2, <2>3 DEF LoadsOK
  <2>5. j \in 1..pos
        BY <2>2
  <2> QED  BY <2>2, <2>3, <2>4, <2>5 DEF IdsOK
<1> QED  BY <1>1, Invariance, PTL

=============================================================================
