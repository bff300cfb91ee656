--------------------------- MODULE LoweringSource ---------------------------
(***************************************************************************)
(* What the code of a function owes to its statements while the statement  *)
(* compiler works, for every program: where the source goes next at each   *)
(* position, what the call stack says of the source, and which places of   *)
(* the code do what the source does from which position (Sim).             *)
(***************************************************************************)
EXTENDS LoweringSemantics, LoweringCode, WellFoundedInduction

-----------------------------------------------------------------------------
(* The tree of the source.  The subtree of a node is a range of nodes.     *)

Sub(n) ==
  {k \in DOMAIN prog.node :
     n <= k /\ \A j \in n + 1..k : \E i \in n..j - 1 : IsKid(prog.node, j, i)}

\* A program, as far as the proofs need it.
LEMMA Program ==
  ASSUME prog \in Programs
  PROVE  /\ DOMAIN prog.node = 1..Len(prog.node) /\ Len(prog.node) \in Nat
         /\ \A n \in DOMAIN prog.node : n \in Nat /\ n > 0 /\ NodeOK(prog.node, n)
         /\ \A k, m, n \in DOMAIN prog.node :
              IsKid(prog.node, k, m) /\ IsKid(prog.node, k, n) => m = n
         /\ \A f \in DOMAIN prog.fns :
              /\ prog.fns[f].body \in DOMAIN prog.node
              /\ \A n \in DOMAIN prog.node : ~IsKid(prog.node, prog.fns[f].body, n)
         /\ \A k \in DOMAIN prog.node :
              \/ \E n \in DOMAIN prog.node : IsKid(prog.node, k, n)
              \/ \E f \in DOMAIN prog.fns : prog.fns[f].body = k
         /\ DOMAIN prog.fns = 1..Len(prog.fns) /\ Len(prog.fns) \in Nat
<1>1. ProgramOK(prog)
      BY ProgramsAssumption
<1>2. DOMAIN prog.node = 1..Len(prog.node) /\ Len(prog.node) \in Nat
  <2>1. prog.fns \in Seq([body : DOMAIN prog.node, ret : ReturnKind])
        BY <1>1 DEF ProgramOK
  <2>2. DOMAIN prog.node = 1..Len(prog.node)
        BY <1>1 DEF ProgramOK
  <2> QED  BY <1>1, <2>2 DEF ProgramOK
<1>3. \A n \in DOMAIN prog.node : n \in Nat /\ n > 0 /\ NodeOK(prog.node, n)
      BY <1>1, <1>2 DEF ProgramOK
<1>4. /\ prog.fns \in Seq([body : DOMAIN prog.node, ret : ReturnKind])
      /\ DOMAIN prog.fns = 1..Len(prog.fns) /\ Len(prog.fns) \in Nat
      BY <1>1, LenProperties DEF ProgramOK
<1>5. \A f \in DOMAIN prog.fns : prog.fns[f].body \in DOMAIN prog.node
  <2>1. TAKE f \in DOMAIN prog.fns
  <2>2. prog.fns[f] \in [body : DOMAIN prog.node, ret : ReturnKind]
        BY <1>4, ElementOfSeq
  <2> QED  BY <2>2
<1> QED  BY <1>1, <1>2, <1>3, <1>4, <1>5, Zenon DEF ProgramOK, Owned

\* The kids of a node: later ones, whose only owner it is, in order.
LEMMA Kids ==
  ASSUME prog \in Programs, NEW n \in DOMAIN prog.node, NEW i \in DOMAIN Node(n).kids
  PROVE  /\ Kid(n, i) \in DOMAIN prog.node /\ Kid(n, i) > n /\ IsKid(prog.node, Kid(n, i), n)
         /\ DOMAIN Node(n).kids = 1..Len(Node(n).kids) /\ Len(Node(n).kids) \in Nat
         /\ \A j \in n + 1..Kid(n, i) - 1 : \E m \in n..j - 1 : IsKid(prog.node, j, m)
         /\ \A j \in DOMAIN Node(n).kids : Kid(n, j) = Kid(n, i) => j = i
         /\ \A j \in DOMAIN Node(n).kids : j < i => Kid(n, j) < Kid(n, i)
         /\ \A m \in DOMAIN prog.node : IsKid(prog.node, Kid(n, i), m) => m = n
<1>1. /\ NodeOK(prog.node, n) /\ n \in Nat
      /\ \A k \in DOMAIN prog.node : k \in Nat
      BY Program
<1>2. /\ prog.node[n].kids \in Seq(DOMAIN prog.node)
      /\ DOMAIN Node(n).kids = 1..Len(Node(n).kids) /\ Len(Node(n).kids) \in Nat
      BY <1>1, LenProperties DEF NodeOK, Node
<1>3. \A j \in DOMAIN Node(n).kids : Kid(n, j) \in DOMAIN prog.node
      BY <1>2, ElementOfSeq DEF Kid, Node
<1>4. \A j \in DOMAIN Node(n).kids :
        /\ Kid(n, j) > n
        /\ \A k \in DOMAIN Node(n).kids : k < j => Kid(n, k) < Kid(n, j)
        /\ \A k \in n + 1..Kid(n, j) - 1 : \E m \in n..k - 1 : IsKid(prog.node, k, m)
      BY <1>1, Zenon DEF NodeOK, InSourceOrder, Kid, Node
<1>5. IsKid(prog.node, Kid(n, i), n)
      BY Zenon DEF IsKid, Kid, Node
<1>6. \A j \in DOMAIN Node(n).kids : Kid(n, j) = Kid(n, i) => j = i
  <2>1. SUFFICES ASSUME NEW j \in DOMAIN Node(n).kids, Kid(n, j) = Kid(n, i), j # i
                 PROVE  FALSE
        OBVIOUS
  <2>2. Kid(n, i) \in Nat /\ Kid(n, j) \in Nat
        BY <1>1, <1>3
  <2>3. CASE j < i
        BY <1>4, <2>1, <2>2, <2>3
  <2>4. CASE i < j
        BY <1>4, <2>1, <2>2, <2>4
  <2> QED  BY <1>2, <2>1, <2>3, <2>4
<1>7. \A m \in DOMAIN prog.node : IsKid(prog.node, Kid(n, i), m) => m = n
      BY <1>3, <1>5, Program, Zenon
<1> QED  BY <1>2, <1>3, <1>4, <1>5, <1>6, <1>7

\* A node is in its subtree, and its kids and theirs are.
LEMMA SubOf ==
  ASSUME prog \in Programs, NEW n \in DOMAIN prog.node
  PROVE  /\ n \in Sub(n)
         /\ \A m \in DOMAIN prog.node : n \in Sub(m) =>
              \A i \in DOMAIN Node(n).kids : Kid(n, i) \in Sub(m)
<1>1. n \in Nat /\ \A k \in DOMAIN prog.node : k \in Nat
      BY Program
<1>2. n \in Sub(n)
      BY <1>1 DEF Sub
<1>3. ASSUME NEW m \in DOMAIN prog.node, n \in Sub(m), NEW i \in DOMAIN Node(n).kids
      PROVE  Kid(n, i) \in Sub(m)
  <2> DEFINE c == Kid(n, i)
  <2>1. /\ c \in DOMAIN prog.node /\ c > n /\ IsKid(prog.node, c, n)
        /\ \A j \in n + 1..c - 1 : \E k \in n..j - 1 : IsKid(prog.node, j, k)
        BY Kids
  <2>2. /\ m <= n /\ m \in Nat /\ c \in Nat
        /\ \A j \in m + 1..n : \E k \in m..j - 1 : IsKid(prog.node, j, k)
        BY <1>1, <1>3, <2>1 DEF Sub
  <2> HIDE DEF c
  <2>3. ASSUME NEW j \in m + 1..c
        PROVE  \E k \in m..j - 1 : IsKid(prog.node, j, k)
    <3>1. CASE j \in m + 1..n
          BY <2>2, <3>1
    <3>2. CASE j \in n + 1..c - 1
      <4>1. PICK k \in n..j - 1 : IsKid(prog.node, j, k)
            BY <2>1, <3>2
      <4>2. k \in m..j - 1
            BY <1>1, <2>2, <3>2, <4>1
      <4> QED  BY <4>1, <4>2
    <3>3. CASE j = c
      <4>1. n \in m..j - 1
            BY <1>1, <2>1, <2>2, <3>3
      <4> QED  BY <2>1, <3>3, <4>1
    <3> QED  BY <1>1, <2>1, <2>2, <3>1, <3>2, <3>3
  <2>4. c \in Sub(m)
        BY <1>1, <2>1, <2>2, <2>3 DEF Sub
  <2> QED  BY <2>4 DEF c
<1> QED  BY <1>2, <1>3

Smaller == {ss \in Nat \X Nat : ss[1] < ss[2]}

\* A set of numbers with a bound has a greatest one.
LEMMA GreatestNumber ==
  ASSUME NEW n \in Nat, NEW S, S \subseteq 0..n, S # {}
  PROVE  \E g \in S : \A k \in S : k <= g
<1> DEFINE T == {n - k : k \in S}
<1>1. T \subseteq Nat /\ T # {}
  <2>1. \A k \in S : k \in 0..n /\ n - k \in Nat
        OBVIOUS
  <2> QED  BY <2>1
<1>2. IsWellFoundedOn(Smaller, Nat)
  <2>1. Smaller = OpToRel(<, Nat)
        BY DEF Smaller, OpToRel
  <2> QED  BY <2>1, NatLessThanWellFounded
<1>3. PICK x \in T : \A y \in T : <<y, x>> \notin Smaller
      BY <1>1, <1>2, WFMin
<1>4. PICK g \in S : x = n - g
      BY <1>3
<1>5. ASSUME NEW k \in S PROVE k <= g
  <2>1. <<n - k, n - g>> \notin Smaller /\ n - k \in Nat /\ n - g \in Nat /\ k \in Nat /\ g \in Nat
        BY <1>1, <1>3, <1>4
  <2>2. ~(n - k < n - g)
        BY <2>1 DEF Smaller
  <2> QED  BY <2>1, <2>2
<1> QED  BY <1>4, <1>5

\* What is below a node is below one of its kids.
LEMMA SubParts ==
  ASSUME prog \in Programs, NEW n \in DOMAIN prog.node, NEW k \in Sub(n), k # n
  PROVE  \E i \in DOMAIN Node(n).kids : k \in Sub(Kid(n, i))
<1>1. /\ n \in Nat /\ k \in Nat /\ n < k /\ k \in DOMAIN prog.node
      /\ \A j \in n + 1..k : \E i \in n..j - 1 : IsKid(prog.node, j, i)
  <2>1. n \in Nat /\ k \in DOMAIN prog.node /\ k \in Nat
        BY Program DEF Sub
  <2> QED  BY <2>1 DEF Sub
<1>2. DOMAIN prog.node = 1..Len(prog.node) /\ Len(prog.node) \in Nat
      BY Program
<1> DEFINE S == {c \in DOMAIN prog.node : c <= k /\ IsKid(prog.node, c, n)}
<1>3. n + 1 \in S
  <2>1. n + 1 \in n + 1..k
        BY <1>1
  <2>2. PICK i \in n..n : IsKid(prog.node, n + 1, i)
        BY <1>1, <2>1
  <2>3. i = n /\ n + 1 \in DOMAIN prog.node
        BY <1>1, <1>2
  <2> QED  BY <1>1, <2>2, <2>3
<1>4. S \subseteq 0..k
      BY <1>1, <1>2
<1>5. PICK c \in S : \A d \in S : d <= c
  <2>1. S # {}
        BY <1>3, Zenon
  <2> QED  BY <1>1, <1>4, <2>1, GreatestNumber, Zenon
<1>6. PICK i \in DOMAIN Node(n).kids : c = Kid(n, i)
      BY <1>5 DEF IsKid, Kid, Node
<1>7. c \in DOMAIN prog.node /\ c \in Nat /\ n < c /\ c <= k
      BY <1>1, <1>2, <1>5, <1>6, Kids
<1>8. ASSUME NEW j \in c + 1..k
      PROVE  \E m \in c..j - 1 : IsKid(prog.node, j, m)
  <2>1. PICK m \in n..j - 1 : IsKid(prog.node, j, m)
        BY <1>1, <1>7
  <2>2. j \in DOMAIN prog.node /\ m \in DOMAIN prog.node /\ m \in Nat /\ j \in Nat /\ j <= k
        BY <1>1, <1>2, <1>7
  <2>3. m # n
    <3>1. SUFFICES ASSUME m = n PROVE FALSE
          OBVIOUS
    <3>2. j \in S
          BY <2>1, <2>2, <3>1
    <3> QED  BY <1>5, <1>7, <2>2, <3>2
  <2>4. ASSUME m < c PROVE FALSE
    <3>1. PICK l \in DOMAIN Node(m).kids : j = Kid(m, l)
          BY <2>1 DEF IsKid, Kid, Node
    <3>2. \A d \in m + 1..j - 1 : \E e \in m..d - 1 : IsKid(prog.node, d, e)
          BY <2>2, <3>1, Kids, Zenon
    <3>3. c \in m + 1..j - 1
          BY <1>7, <2>2, <2>4
    <3>4. PICK e \in m..c - 1 : IsKid(prog.node, c, e)
          BY <3>2, <3>3
    <3>5. e \in DOMAIN prog.node /\ e # n
          BY <1>1, <1>2, <1>7, <2>1, <2>2, <2>3
    <3> QED  BY <1>1, <1>5, <3>4, <3>5, <1>7, Program
  <2> QED  BY <1>7, <2>1, <2>2, <2>4
<1>9. k \in Sub(c)
      BY <1>1, <1>7, <1>8 DEF Sub
<1> QED  BY <1>6, <1>9

\* What is around a node are the nodes whose subtree it is in.
LEMMA AroundSub ==
  ASSUME prog \in Programs, NEW n \in DOMAIN prog.node, NEW K
  PROVE  Around(n, K) = {m \in DOMAIN prog.node : m < n /\ Node(m).kind \in K /\ n \in Sub(m)}
<1>1. \A k \in DOMAIN prog.node : k \in Nat
      BY Program
<1>2. \A m \in DOMAIN prog.node : m < n => m <= n
      BY <1>1
<1>3. \A m \in DOMAIN prog.node : m < n =>
        (n \in Sub(m) <=> \A k \in m + 1..n : \E j \in m..k - 1 : IsKid(prog.node, k, j))
      BY <1>2 DEF Sub
<1> QED  BY <1>3, Zenon DEF Around

\* What is around a kid is around its owner, or is the owner.
LEMMA AroundKid ==
  ASSUME prog \in Programs, NEW n \in DOMAIN prog.node, NEW i \in DOMAIN Node(n).kids, NEW K
  PROVE  Around(Kid(n, i), K) = Around(n, K) \cup (IF Node(n).kind \in K THEN {n} ELSE {})
<1> DEFINE c == Kid(n, i)
<1>1. /\ c \in DOMAIN prog.node /\ n < c /\ n \in Nat /\ c \in Nat
      /\ \A m \in DOMAIN prog.node : m \in Nat /\ (IsKid(prog.node, c, m) => m = n)
      /\ DOMAIN prog.node = 1..Len(prog.node) /\ Len(prog.node) \in Nat
      BY Kids, Program
<1>2. \A m \in DOMAIN prog.node : n \in Sub(m) => c \in Sub(m)
      BY SubOf
<1>3. n \in Sub(n)
      BY SubOf
<1>4. ASSUME NEW m \in DOMAIN prog.node, c \in Sub(m), m # c
      PROVE  n \in Sub(m) /\ m <= n
  <2>1. /\ m \in Nat /\ m < c
        /\ \A j \in m + 1..c : \E k \in m..j - 1 : IsKid(prog.node, j, k)
        BY <1>1, <1>4 DEF Sub
  <2>2. PICK k \in m..c - 1 : IsKid(prog.node, c, k)
        BY <1>1, <2>1
  <2>3. k \in DOMAIN prog.node
        BY <1>1, <2>1
  <2>4. k = n
        BY <1>1, <2>2, <2>3
  <2>5. m <= n /\ \A j \in m + 1..n : j \in m + 1..c
        BY <1>1, <2>1, <2>4
  <2> QED  BY <1>1, <2>1, <2>5 DEF Sub
<1>5. /\ Around(c, K) = {m \in DOMAIN prog.node : m < c /\ Node(m).kind \in K /\ c \in Sub(m)}
      /\ Around(n, K) = {m \in DOMAIN prog.node : m < n /\ Node(m).kind \in K /\ n \in Sub(m)}
      BY <1>1, AroundSub
<1> HIDE DEF c
<1>6. ASSUME NEW m \in Around(c, K)
      PROVE  m \in Around(n, K) \cup (IF Node(n).kind \in K THEN {n} ELSE {})
  <2>1. m \in DOMAIN prog.node /\ m < c /\ Node(m).kind \in K /\ c \in Sub(m) /\ m \in Nat /\ m # c
        BY <1>1, <1>5, <1>6
  <2>2. n \in Sub(m) /\ m <= n
        BY <1>4, <2>1
  <2>3. CASE m = n
        BY <2>1, <2>3
  <2>4. CASE m # n
        BY <1>1, <1>5, <2>1, <2>2, <2>4
  <2> QED  BY <2>3, <2>4
<1>7. ASSUME NEW m \in Around(n, K) PROVE m \in Around(c, K)
  <2>1. m \in DOMAIN prog.node /\ m < n /\ Node(m).kind \in K /\ n \in Sub(m) /\ m \in Nat
        BY <1>1, <1>5, <1>7
  <2> QED  BY <1>1, <1>2, <1>5, <2>1
<1>8. ASSUME Node(n).kind \in K PROVE n \in Around(c, K)
      BY <1>1, <1>2, <1>3, <1>5, <1>8
<1> QED  BY <1>6, <1>7, <1>8 DEF c

\* Functions: a node is in one, and the nodes of one are in the same.
LEMMA FunctionNodes ==
  ASSUME prog \in Programs
  PROVE  /\ \A f : \A n \in DOMAIN prog.node :
              InBody(f, n) <=> f \in DOMAIN prog.fns /\ n \in Sub(prog.fns[f].body)
         /\ \A n \in DOMAIN prog.node : \E f \in DOMAIN prog.fns : InBody(f, n)
         /\ \A f : \A m, n \in DOMAIN prog.node : InBody(f, m) /\ InBody(f, n) => SameFunction(m, n)
<1>1. /\ DOMAIN prog.node = 1..Len(prog.node) /\ Len(prog.node) \in Nat
      /\ \A f \in DOMAIN prog.fns : /\ prog.fns[f].body \in DOMAIN prog.node
                                    /\ prog.fns[f].body \in Nat
      /\ \A n \in DOMAIN prog.node : n \in Nat /\ n > 0
      BY Program
<1>2. ASSUME NEW f, NEW n \in DOMAIN prog.node
      PROVE  InBody(f, n) <=> f \in DOMAIN prog.fns /\ n \in Sub(prog.fns[f].body)
      BY <1>2, Zenon DEF InBody, Sub
<1>3. ASSUME NEW n \in DOMAIN prog.node
      PROVE  \E f \in DOMAIN prog.fns : InBody(f, n)
  <2> DEFINE S == {r \in DOMAIN prog.node :
                     r <= n /\ \A m \in DOMAIN prog.node : ~IsKid(prog.node, r, m)}
  <2>1. 1 \in S
    <3>1. ASSUME NEW m \in DOMAIN prog.node, IsKid(prog.node, 1, m) PROVE FALSE
      <4>1. PICK i \in DOMAIN Node(m).kids : 1 = Kid(m, i)
            BY <3>1 DEF IsKid, Kid, Node
      <4>2. m < 1
            BY <4>1, Kids
      <4> QED  BY <1>1, <4>2
    <3>2. 1 \in DOMAIN prog.node /\ 1 <= n
          BY <1>1
    <3> QED  BY <3>1, <3>2
  <2>2. S \subseteq 0..n
        BY <1>1
  <2>3. PICK r \in S : \A k \in S : k <= r
    <3>1. S # {} /\ n \in Nat
          BY <1>1, <2>1
    <3> QED  BY <2>2, <3>1, GreatestNumber, Zenon
  <2>4. r \in DOMAIN prog.node /\ r <= n /\ \A m \in DOMAIN prog.node : ~IsKid(prog.node, r, m)
        OBVIOUS
  <2>5. PICK f \in DOMAIN prog.fns : prog.fns[f].body = r
        BY <2>4, Program
  <2>6. ASSUME NEW j \in r + 1..n
        PROVE  \E m \in r..j - 1 : IsKid(prog.node, j, m)
    <3>1. j \in DOMAIN prog.node /\ j \in Nat /\ r \in Nat /\ r < j /\ j <= n
          BY <1>1, <2>4
    <3>2. j \notin S
          BY <2>3, <3>1
    <3>3. PICK m \in DOMAIN prog.node : IsKid(prog.node, j, m)
          BY <3>1, <3>2
    <3>4. PICK i \in DOMAIN Node(m).kids : j = Kid(m, i)
          BY <3>3 DEF IsKid, Kid, Node
    <3>5. m < j /\ m \in Nat
          BY <1>1, <3>4, Kids
    <3>6. ASSUME m < r PROVE FALSE
      <4>1. \A d \in m + 1..j - 1 : \E e \in m..d - 1 : IsKid(prog.node, d, e)
            BY <3>4, Kids, Zenon
      <4>2. r \in m + 1..j - 1
            BY <3>1, <3>5, <3>6
      <4>3. PICK e \in m..r - 1 : IsKid(prog.node, r, e)
            BY <4>1, <4>2
      <4>4. e \in DOMAIN prog.node
            BY <1>1, <2>4, <3>5, <4>3
      <4> QED  BY <2>4, <4>3, <4>4
    <3> QED  BY <3>1, <3>3, <3>5, <3>6
  <2>7. n \in Sub(r)
        BY <2>4, <2>6 DEF Sub
  <2> QED  BY <1>2, <2>5, <2>7
<1>4. ASSUME NEW f, NEW m \in DOMAIN prog.node, NEW n \in DOMAIN prog.node,
             InBody(f, m), NEW g \in DOMAIN prog.fns,
             InBody(f, n), prog.fns[g].body <= n
      PROVE  prog.fns[g].body <= m
  <2> DEFINE r == prog.fns[f].body
             x == prog.fns[g].body
  <2>1. /\ r <= n /\ r <= m /\ \A j \in r + 1..n : \E i \in r..j - 1 : IsKid(prog.node, j, i)
        /\ r \in DOMAIN prog.node /\ r \in Nat
        BY <1>1, <1>4 DEF InBody
  <2>2. /\ x \in DOMAIN prog.node /\ x <= n /\ x \in Nat /\ m \in Nat /\ n \in Nat
        /\ \A i \in DOMAIN prog.node : ~IsKid(prog.node, x, i)
        BY <1>1, <1>4, Program
  <2> HIDE DEF r, x
  <2>3. ASSUME r < x PROVE FALSE
    <3>1. x \in r + 1..n
          BY <2>1, <2>2, <2>3
    <3>2. PICK i \in r..x - 1 : IsKid(prog.node, x, i)
          BY <2>1, <3>1
    <3>3. i \in DOMAIN prog.node
          BY <1>1, <2>1, <2>2, <3>2
    <3> QED  BY <2>2, <3>2, <3>3
  <2>4. x <= m
        BY <2>1, <2>2, <2>3
  <2> QED  BY <2>4 DEF x
<1>5. ASSUME NEW f, NEW m \in DOMAIN prog.node, NEW n \in DOMAIN prog.node,
             InBody(f, m), InBody(f, n)
      PROVE  SameFunction(m, n)
  <2>1. SUFFICES ASSUME NEW g \in DOMAIN prog.fns
                 PROVE  (prog.fns[g].body <= m) = (prog.fns[g].body <= n)
        BY DEF SameFunction
  <2>2. prog.fns[g].body <= n => prog.fns[g].body <= m
        BY <1>4, <1>5, <2>1
  <2>3. prog.fns[g].body <= m => prog.fns[g].body <= n
        BY <1>4, <1>5, <2>1
  <2> QED  BY <2>2, <2>3
<1> QED  BY <1>2, <1>3, <1>5

\* The greatest number of a set.
LEMMA MaxIs ==
  ASSUME NEW S, S \subseteq Nat, NEW x \in S, \A y \in S : y <= x
  PROVE  Max(S) = x
<1>1. \A y \in S : x >= y
      OBVIOUS
<1>2. \A z \in S : (\A y \in S : z >= y) => z = x
      OBVIOUS
<1> QED  BY <1>1, <1>2 DEF Max

-----------------------------------------------------------------------------
(* What the source does at each position.                                  *)

Silent(q) == Observed(q).op = "none"

\* The node a statement is part of.
LEMMA Parents ==
  ASSUME prog \in Programs
  PROVE  /\ \A n \in DOMAIN prog.node : \A i \in DOMAIN Node(n).kids :
              Parent(Kid(n, i)) = n /\ Parent(Kid(n, i)) # 0
         /\ \A f \in DOMAIN prog.fns : Parent(prog.fns[f].body) = 0
<1>1. ASSUME NEW n \in DOMAIN prog.node, NEW i \in DOMAIN Node(n).kids
      PROVE  Parent(Kid(n, i)) = n /\ Parent(Kid(n, i)) # 0
  <2>1. /\ IsKid(prog.node, Kid(n, i), n) /\ n \in Nat /\ n > 0
        /\ \A m \in DOMAIN prog.node : IsKid(prog.node, Kid(n, i), m) => m = n
        BY Kids, Program
  <2>2. Parent(Kid(n, i)) = n
        BY <2>1, Zenon DEF Parent
  <2> QED  BY <2>1, <2>2
<1>2. ASSUME NEW f \in DOMAIN prog.fns
      PROVE  Parent(prog.fns[f].body) = 0
      BY Program, Zenon DEF Parent
<1> QED  BY <1>1, <1>2

\* After a statement: nothing is evaluated before the one it is part of goes on.
LEMMA AfterStatement ==
  ASSUME prog \in Programs
  PROVE  /\ \A n : Silent(Leave(n))
         /\ \A f \in DOMAIN prog.fns : Silently(Leave(prog.fns[f].body)) = Pos(0, "end")
<1>1. \A n : Silent(Leave(n))
      BY DEF Silent, Observed, Leave, Pos
<1>2. \A n : Silently(Leave(n)) = IF Parent(n) = 0 THEN Pos(0, "end") ELSE AfterKid(n, Parent(n))
      BY DEF Silently, Leave, Pos
<1>3. \A f \in DOMAIN prog.fns : Silently(Leave(prog.fns[f].body)) = Pos(0, "end")
      BY <1>2, Parents
<1> QED  BY <1>1, <1>3

\* Where a part of a statement leads.
LEMMA AfterPart ==
  ASSUME prog \in Programs, NEW n \in DOMAIN prog.node, NEW i \in DOMAIN Node(n).kids
  PROVE  /\ Node(n).kind = "compound" /\ i < Len(Node(n).kids) =>
              Silently(Leave(Kid(n, i))) = Enter(Kid(n, i + 1))
         /\ Node(n).kind = "compound" /\ ~(i < Len(Node(n).kids)) =>
              Silently(Leave(Kid(n, i))) = Leave(n)
         /\ Node(n).kind \in {"while", "do"} => Silently(Leave(Kid(n, i))) = Pos(n, "cond")
         /\ Node(n).kind = "for" /\ i = 1 => Silently(Leave(Kid(n, i))) = Pos(n, "cond")
         /\ Node(n).kind = "for" /\ i # 1 => Silently(Leave(Kid(n, i))) = Pos(n, "post")
         /\ Node(n).kind \notin {"compound", "while", "do", "for"} =>
              Silently(Leave(Kid(n, i))) = Leave(n)
<1> DEFINE p == Silently(Leave(Kid(n, i)))
<1>1. p = AfterKid(Kid(n, i), n)
  <2>1. p = IF Parent(Kid(n, i)) = 0 THEN Pos(0, "end")
            ELSE AfterKid(Kid(n, i), Parent(Kid(n, i)))
        BY DEF Silently, Leave, Pos
  <2> QED  BY <2>1, Parents
<1>2. (CHOOSE j \in DOMAIN Node(n).kids : Kid(n, j) = Kid(n, i)) = i
      BY Kids, Zenon
<1> HIDE DEF p
<1>3. Node(n).kind = "compound" /\ i < Len(Node(n).kids) => p = Enter(Kid(n, i + 1))
      BY <1>1, <1>2 DEF AfterKid
<1>4. Node(n).kind = "compound" /\ ~(i < Len(Node(n).kids)) => p = Leave(n)
      BY <1>1, <1>2 DEF AfterKid
<1>5. Node(n).kind \in {"while", "do"} => p = Pos(n, "cond")
      BY <1>1 DEF AfterKid
<1>6. Node(n).kind = "for" /\ i = 1 => p = Pos(n, "cond")
      BY <1>1, <1>2 DEF AfterKid
<1>7. Node(n).kind = "for" /\ i # 1 => p = Pos(n, "post")
      BY <1>1, <1>2 DEF AfterKid
<1>8. Node(n).kind \notin {"compound", "while", "do", "for"} => p = Leave(n)
      BY <1>1 DEF AfterKid
<1> QED  BY <1>3, <1>4, <1>5, <1>6, <1>7, <1>8 DEF p

\* What is entered: an expression, a return, an if and a switch are evaluated,
\* the other statements lead to their parts or out of what they leave.
LEMMA AtStatement ==
  ASSUME NEW n, n # 0
  PROVE  /\ Node(n).kind \in {"expr", "switch"} =>
              ~Silent(Enter(n)) /\ Observed(Enter(n)) = [op |-> "run", node |-> n]
         /\ Node(n).kind = "return" =>
              ~Silent(Enter(n)) /\ Observed(Enter(n)) = [op |-> "ret", node |-> n]
         /\ Node(n).kind = "if" =>
              ~Silent(Enter(n)) /\ Observed(Enter(n)) = [op |-> "br", node |-> n]
         /\ Node(n).kind \notin {"expr", "switch", "return", "if"} =>
              Silent(Enter(n)) /\ Silently(Enter(n)) = Begun(n)
<1>1. Enter(n).node = n /\ Enter(n).stage = "enter"
      BY DEF Enter, Pos
<1>2. Node(n).kind \in {"expr", "switch"} =>
              ~Silent(Enter(n)) /\ Observed(Enter(n)) = [op |-> "run", node |-> n]
      BY <1>1 DEF Silent, Observed
<1>3. Node(n).kind = "return" =>
              ~Silent(Enter(n)) /\ Observed(Enter(n)) = [op |-> "ret", node |-> n]
      BY <1>1 DEF Silent, Observed
<1>4. Node(n).kind = "if" =>
              ~Silent(Enter(n)) /\ Observed(Enter(n)) = [op |-> "br", node |-> n]
      BY <1>1 DEF Silent, Observed
<1>5. Node(n).kind \notin {"expr", "switch", "return", "if"} => Silent(Enter(n))
      BY <1>1 DEF Silent, Observed
<1>6. Silently(Enter(n)) = Begun(n)
      BY <1>1 DEF Silently
<1> QED  BY <1>2, <1>3, <1>4, <1>5, <1>6

\* What a statement that evaluates nothing leads to.
LEMMA Beginning ==
  ASSUME NEW n
  PROVE  /\ Node(n).kind = "decl" => Begun(n) = Leave(n)
         /\ Node(n).kind = "compound" =>
              Begun(n) = IF Node(n).kids = <<>> THEN Leave(n) ELSE Enter(Kid(n, 1))
         /\ Node(n).kind = "while" => Begun(n) = Pos(n, "cond")
         /\ Node(n).kind = "break" => Begun(n) = Leave(Innermost(n, Breakable))
         /\ Node(n).kind = "continue" => Begun(n) = NextInLoop(Innermost(n, LoopKinds))
         /\ Node(n).kind = "goto" => Begun(n) = Enter(LabelNode(n))
         /\ Node(n).kind \in {"for", "do", "case", "default", "label"} => Begun(n) = Enter(Kid(n, 1))
BY DEF Begun

\* The tests of loops, the last expression of a for and the table of a switch.
LEMMA AtParts ==
  ASSUME NEW n, n # 0
  PROVE  /\ ~Silent(Pos(n, "table")) /\ Observed(Pos(n, "table")) = [op |-> "table", node |-> n]
         /\ "post" \in Node(n).opts =>
              ~Silent(Pos(n, "post")) /\ Observed(Pos(n, "post")) = [op |-> "post", node |-> n]
         /\ "post" \notin Node(n).opts => Silent(Pos(n, "post"))
         /\ Silently(Pos(n, "post")) = Pos(n, "cond")
         /\ (Node(n).kind = "for" => "cond" \in Node(n).opts) =>
              ~Silent(Pos(n, "cond")) /\ Observed(Pos(n, "cond")) = [op |-> "br", node |-> n]
         /\ ~(Node(n).kind = "for" => "cond" \in Node(n).opts) => Silent(Pos(n, "cond"))
         /\ Silently(Pos(n, "cond")) = Enter(LastKid(n))
         /\ ~Silent(Pos(0, "end")) /\ Observed(Pos(0, "end")) = [op |-> "ret", node |-> 0]
<1>1. \A m, s : Pos(m, s).node = m /\ Pos(m, s).stage = s
      BY DEF Pos
<1>2. ~Silent(Pos(n, "table")) /\ Observed(Pos(n, "table")) = [op |-> "table", node |-> n]
      BY <1>1 DEF Silent, Observed
<1>3. /\ "post" \in Node(n).opts =>
              ~Silent(Pos(n, "post")) /\ Observed(Pos(n, "post")) = [op |-> "post", node |-> n]
      /\ "post" \notin Node(n).opts => Silent(Pos(n, "post"))
      BY <1>1 DEF Silent, Observed
<1>4. /\ (Node(n).kind = "for" => "cond" \in Node(n).opts) =>
              ~Silent(Pos(n, "cond")) /\ Observed(Pos(n, "cond")) = [op |-> "br", node |-> n]
      /\ ~(Node(n).kind = "for" => "cond" \in Node(n).opts) => Silent(Pos(n, "cond"))
      BY <1>1 DEF Silent, Observed
<1>5. Silently(Pos(n, "post")) = Pos(n, "cond") /\ Silently(Pos(n, "cond")) = Enter(LastKid(n))
      BY <1>1 DEF Silently
<1>6. ~Silent(Pos(0, "end")) /\ Observed(Pos(0, "end")) = [op |-> "ret", node |-> 0]
      BY <1>1 DEF Silent, Observed
<1> QED  BY <1>2, <1>3, <1>4, <1>5, <1>6

\* What follows an evaluation.
LEMMA Following ==
  ASSUME NEW n, n # 0, NEW v
  PROVE  /\ Node(n).kind = "expr" => Evaluated(Enter(n), v) = Leave(n)
         /\ Node(n).kind = "switch" => Evaluated(Enter(n), v) = Pos(n, "table")
         /\ Node(n).kind = "if" =>
              Evaluated(Enter(n), v) = IF v # 0 THEN Enter(Kid(n, 1))
                                       ELSE IF Len(Node(n).kids) = 2 THEN Enter(Kid(n, 2))
                                       ELSE Leave(n)
         /\ Evaluated(Pos(n, "table"), v) = Selected(n, v)
         /\ Evaluated(Pos(n, "post"), v) = Pos(n, "cond")
         /\ Evaluated(Pos(n, "cond"), v) = IF v # 0 THEN Enter(LastKid(n)) ELSE Leave(n)
         /\ v \in Values(Pos(n, "table")) => v \in {0} \cup {Node(c).val : c \in Entries(n, "case")}
<1>1. \A m, s : Pos(m, s).node = m /\ Pos(m, s).stage = s
      BY DEF Pos
<1>2. /\ Node(n).kind = "expr" => Evaluated(Enter(n), v) = Leave(n)
      /\ Node(n).kind = "switch" => Evaluated(Enter(n), v) = Pos(n, "table")
      BY <1>1 DEF Evaluated, Enter
<1>3. Node(n).kind = "if" =>
              Evaluated(Enter(n), v) = IF v # 0 THEN Enter(Kid(n, 1))
                                       ELSE IF Len(Node(n).kids) = 2 THEN Enter(Kid(n, 2))
                                       ELSE Leave(n)
  <2>1. Enter(n).node = n /\ Enter(n).stage = "enter"
        BY <1>1 DEF Enter
  <2> QED  BY <2>1 DEF Evaluated
<1>4. /\ Evaluated(Pos(n, "table"), v) = Selected(n, v)
      /\ Evaluated(Pos(n, "post"), v) = Pos(n, "cond")
      /\ Evaluated(Pos(n, "cond"), v) = IF v # 0 THEN Enter(LastKid(n)) ELSE Leave(n)
      BY <1>1 DEF Evaluated
<1>5. Observed(Pos(n, "table")).op = "table"
      BY AtParts
<1>6. Values(Pos(n, "table")) = {0} \cup {Node(c).val : c \in Entries(n, "case")}
      BY <1>1, <1>5 DEF Values
<1> QED  BY <1>2, <1>3, <1>4, <1>6

-----------------------------------------------------------------------------
(* What the call stack says of the source, whatever code is produced.      *)

\* What is executed next where the task t is at work, and what after it.
NowOf(t) ==
  IF t.op = "stmt" THEN Enter(t.node)
  ELSE IF t.op = "post" THEN Pos(t.node, "post")
  ELSE IF t.op \in {"for", "endWhile", "endDo"} THEN Pos(t.node, "cond")
  ELSE IF t.op = "endFunction" THEN Pos(0, "end") ELSE Leave(t.node)

Then(t) == IF t.op = "post" THEN Pos(t.node, "cond") ELSE Silently(Leave(t.node))

\* From p the source comes to q without evaluating anything.
Falls(p, q) == \E X : p \in X /\ \A z \in X : z = q \/ (Silent(z) /\ Silently(z) \in X)

Flow(s) == \A i \in 1..Len(s) : i + 1 <= Len(s) => Falls(Then(s[i]), NowOf(s[i + 1]))

\* A task is about a statement of its kind.
OfKind(t) ==
  /\ t.op \in {"endIf", "else", "endElse"} => Node(t.node).kind = "if"
  /\ t.op = "endWhile" => Node(t.node).kind \in {"while", "for"}
  /\ t.op \in {"for", "post"} => Node(t.node).kind = "for"
  /\ t.op = "post" => "post" \in Node(t.node).opts
  /\ t.op = "endDo" => Node(t.node).kind = "do"
  /\ t.op = "endSwitch" => Node(t.node).kind = "switch"

Kindly(s) == \A i \in 1..Len(s) : OfKind(s[i])

\* The nodes that the task t still compiles.
Ahead(t) ==
  IF t.op = "stmt" THEN Sub(t.node)
  ELSE IF t.op \in {"else", "for"} THEN Sub(Kid(t.node, 2)) ELSE {}

\* The tasks ts take the place of the task t.
Part(t, i, op) ==
  \/ t.op = "stmt" /\ Node(t.node).kind = "if" /\ Len(Node(t.node).kids) = 1 /\ i = 1 /\ op = "endIf"
  \/ t.op = "stmt" /\ Node(t.node).kind = "if" /\ Len(Node(t.node).kids) = 2 /\ i = 1 /\ op = "else"
  \/ t.op = "else" /\ i = 2 /\ op = "endElse"
  \/ t.op = "stmt" /\ Node(t.node).kind = "for" /\ i = 1 /\ op = "for"
  \/ t.op = "stmt" /\ Node(t.node).kind = "while" /\ i = 1 /\ op = "endWhile"
  \/ t.op = "for" /\ "post" \notin Node(t.node).opts /\ i = 2 /\ op = "endWhile"
  \/ t.op = "stmt" /\ Node(t.node).kind = "do" /\ i = 1 /\ op = "endDo"
  \/ t.op = "stmt" /\ Node(t.node).kind = "switch" /\ i = 1 /\ op = "endSwitch"

Ends0(t, ts) ==
  /\ ts = <<>>
  /\ \/ t.op = "stmt" /\ Node(t.node).kind \in Leaves
     \/ t.op \notin {"stmt", "for", "else", "endFunction"}

Lists(t, ts) ==
  /\ t.op = "stmt" /\ Node(t.node).kind = "compound"
  /\ ts = [i \in DOMAIN Node(t.node).kids |-> Stmt(Kid(t.node, i))]

Marks(t, ts) ==
  /\ t.op = "stmt" /\ Node(t.node).kind \in {"case", "default", "label"}
  /\ ts = <<Stmt(Kid(t.node, 1))>>

Splits(t, ts) ==
  \E i \in 1..2, e \in Tasks :
    /\ e.node = t.node /\ Part(t, i, e.op) /\ ts = <<Stmt(Kid(t.node, i)), e>>

Repeats(t, ts) ==
  \E p \in Tasks, e \in Tasks :
    /\ t.op = "for" /\ "post" \in Node(t.node).opts
    /\ p.op = "post" /\ p.node = t.node /\ e.op = "endWhile" /\ e.node = t.node
    /\ ts = <<Stmt(Kid(t.node, 2)), p, e>>

Shape(t, ts) == Ends0(t, ts) \/ Lists(t, ts) \/ Marks(t, ts) \/ Splits(t, ts) \/ Repeats(t, ts)

\* From position to position.
LEMMA Falling ==
  /\ \A p : Falls(p, p)
  /\ \A p : Silent(p) => Falls(p, Silently(p))
  /\ \A p, q, r : Falls(p, q) /\ Falls(q, r) => Falls(p, r)
<1>1. ASSUME NEW p PROVE Falls(p, p)
  <2>1. p \in {p} /\ \A z \in {p} : z = p \/ (Silent(z) /\ Silently(z) \in {p})
        OBVIOUS
  <2> QED  BY <2>1, Zenon DEF Falls
<1>2. ASSUME NEW p, Silent(p) PROVE Falls(p, Silently(p))
  <2> DEFINE X == {p, Silently(p)}
  <2>1. p \in X /\ \A z \in X : z = Silently(p) \/ (Silent(z) /\ Silently(z) \in X)
        BY <1>2
  <2> QED  BY <2>1, Zenon DEF Falls
<1>3. ASSUME NEW p, NEW q, NEW r, Falls(p, q), Falls(q, r) PROVE Falls(p, r)
  <2>1. PICK X : p \in X /\ \A z \in X : z = q \/ (Silent(z) /\ Silently(z) \in X)
        BY <1>3, Zenon DEF Falls
  <2>2. PICK Y : q \in Y /\ \A z \in Y : z = r \/ (Silent(z) /\ Silently(z) \in Y)
        BY <1>3, Zenon DEF Falls
  <2> DEFINE W == X \cup Y
  <2>3. p \in W /\ \A z \in W : z = r \/ (Silent(z) /\ Silently(z) \in W)
        BY <2>1, <2>2
  <2> QED  BY <2>3, Zenon DEF Falls
<1> QED  BY <1>1, <1>2, <1>3

\* A part of a statement leads to what its caller does next.
LEMMA PartFlow ==
  ASSUME prog \in Programs, NEW t \in Tasks, TaskOK(t, prog), OfKind(t), NEW i \in 1..2,
         NEW e \in Tasks, e.node = t.node, Part(t, i, e.op)
  PROVE  /\ t.node \in DOMAIN prog.node /\ i \in DOMAIN Node(t.node).kids
         /\ Falls(Silently(Leave(Kid(t.node, i))), NowOf(e))
         /\ OfKind(e) /\ e.op \notin {"stmt", "post", "endFunction"}
<1> DEFINE n == t.node
<1>1. n \in DOMAIN prog.node /\ n # 0 /\ NodeOK(prog.node, n)
  <2>1. t.op # "endFunction"
        BY DEF Part
  <2> QED  BY <2>1, Program DEF TaskOK
<1>2. /\ DOMAIN Node(n).kids = 1..Len(Node(n).kids) /\ Len(Node(n).kids) \in Arity(Node(n).kind)
  <2>1. Node(n).kids \in Seq(DOMAIN prog.node) /\ Len(Node(n).kids) \in Arity(Node(n).kind)
        BY <1>1 DEF NodeOK, Node
  <2> QED  BY <2>1, LenProperties
<1>3. t.op = "else" => Node(n).kind = "if" /\ Len(Node(n).kids) = 2
      BY DEF OfKind, TaskOK, Node
<1>4. t.op = "for" => Node(n).kind = "for"
      BY DEF OfKind
<1>5. /\ Node(n).kind \in {"while", "do", "switch"} => Len(Node(n).kids) = 1
      /\ Node(n).kind = "for" => Len(Node(n).kids) = 2
      BY <1>2 DEF Arity, Unary, Leaves
<1>6. i \in DOMAIN Node(n).kids
  <2>1. Len(Node(n).kids) = 2 \/ (Len(Node(n).kids) = 1 /\ i = 1)
        BY <1>3, <1>4, <1>5 DEF Part
  <2> HIDE DEF n
  <2>2. DOMAIN Node(n).kids = 1..Len(Node(n).kids)
        BY <1>2
  <2>3. CASE Len(Node(n).kids) = 2
    <3>1. DOMAIN Node(n).kids = 1..2
          BY <2>2, <2>3
    <3> QED  BY <3>1
  <2>4. CASE Len(Node(n).kids) = 1 /\ i = 1
    <3>1. DOMAIN Node(n).kids = 1..1
          BY <2>2, <2>4
    <3> QED  BY <2>4, <3>1
  <2> QED  BY <2>1, <2>3, <2>4
<1> DEFINE p == Silently(Leave(Kid(n, i)))
<1>7. /\ Node(n).kind \in {"while", "do"} => p = Pos(n, "cond")
      /\ Node(n).kind = "for" /\ i = 1 => p = Pos(n, "cond")
      /\ Node(n).kind = "for" /\ i # 1 => p = Pos(n, "post")
      /\ Node(n).kind \notin {"compound", "while", "do", "for"} => p = Leave(n)
      BY <1>1, <1>6, AfterPart
<1>8. "post" \notin Node(n).opts =>
        Silent(Pos(n, "post")) /\ Silently(Pos(n, "post")) = Pos(n, "cond")
      BY <1>1, AtParts
<1>9. \A q : Falls(q, q) /\ (Silent(q) => Falls(q, Silently(q)))
      BY Falling, Zenon
<1> HIDE DEF p, n
<1>10. CASE e.op \in {"endIf", "else", "endElse"}
  <2>1. Node(n).kind = "if" /\ OfKind(e)
        BY <1>3, <1>10 DEF Part, OfKind, n
  <2>2. NowOf(e) = Leave(n)
        BY <1>10 DEF NowOf, n
  <2>3. p = Leave(n)
        BY <1>7, <2>1
  <2> QED  BY <1>1, <1>6, <1>9, <1>10, <2>1, <2>2, <2>3 DEF p, n
<1>11. CASE e.op = "endSwitch"
  <2>1. Node(n).kind = "switch" /\ OfKind(e)
        BY <1>11 DEF Part, OfKind, n
  <2>2. NowOf(e) = Leave(n)
        BY <1>11 DEF NowOf, n
  <2>3. p = Leave(n)
        BY <1>7, <2>1
  <2> QED  BY <1>1, <1>6, <1>9, <1>11, <2>1, <2>2, <2>3 DEF p, n
<1>12. CASE e.op \in {"for", "endWhile", "endDo"}
  <2>1. /\ Node(n).kind \in {"while", "do", "for"} /\ OfKind(e)
        /\ Node(n).kind = "for" /\ i # 1 => "post" \notin Node(n).opts
        BY <1>4, <1>12 DEF Part, OfKind, n
  <2>2. NowOf(e) = Pos(n, "cond")
        BY <1>12 DEF NowOf, n
  <2>3. Falls(p, Pos(n, "cond"))
    <3>1. CASE Node(n).kind = "for" /\ i # 1
          BY <1>7, <1>8, <1>9, <2>1, <3>1
    <3>2. CASE ~(Node(n).kind = "for" /\ i # 1)
      <4>1. p = Pos(n, "cond")
            BY <1>7, <2>1, <3>2
      <4> QED  BY <1>9, <4>1
    <3> QED  BY <3>1, <3>2
  <2> QED  BY <1>1, <1>6, <1>12, <2>1, <2>2, <2>3 DEF p, n
<1> QED  BY <1>10, <1>11, <1>12 DEF Part

\* Flow in a stack, from its parts.
LEMMA FlowGlue ==
  ASSUME NEW ts \in Seq(Tasks), NEW s \in Seq(Tasks)
  PROVE  /\ Flow(ts \o s) => Flow(s)
         /\ Flow(ts \o s) /\ ts # <<>> /\ s # <<>> => Falls(Then(ts[Len(ts)]), NowOf(s[1]))
         /\ /\ Flow(ts) /\ Flow(s)
            /\ ts # <<>> /\ s # <<>> => Falls(Then(ts[Len(ts)]), NowOf(s[1]))
            => Flow(ts \o s)
<1> DEFINE r == ts \o s
<1>1. /\ Len(r) = Len(ts) + Len(s) /\ Len(ts) \in Nat /\ Len(s) \in Nat
      /\ \A i \in 1..Len(ts) : r[i] = ts[i]
      /\ \A i \in 1..Len(s) : r[i + Len(ts)] = s[i]
      BY OnTopOf
<1>2. (ts # <<>> <=> Len(ts) > 0) /\ (s # <<>> <=> Len(s) > 0)
      BY EmptySeq, LenProperties
<1> HIDE DEF r
<1>3. ASSUME Flow(r), NEW i \in 1..Len(s), i + 1 <= Len(s)
      PROVE  Falls(Then(s[i]), NowOf(s[i + 1]))
  <2>1. i + Len(ts) \in 1..Len(r) /\ (i + Len(ts)) + 1 <= Len(r)
        BY <1>1, <1>3
  <2>2. Falls(Then(r[i + Len(ts)]), NowOf(r[(i + Len(ts)) + 1]))
        BY <1>3, <2>1 DEF Flow
  <2>3. (i + Len(ts)) + 1 = (i + 1) + Len(ts) /\ i + 1 \in 1..Len(s)
        BY <1>1, <1>3
  <2> QED  BY <1>1, <2>2, <2>3
<1>4. ASSUME Flow(r), ts # <<>>, s # <<>>
      PROVE  Falls(Then(ts[Len(ts)]), NowOf(s[1]))
  <2>1. Len(ts) \in 1..Len(r) /\ Len(ts) + 1 <= Len(r) /\ Len(ts) \in 1..Len(ts) /\ 1 \in 1..Len(s)
        BY <1>1, <1>2, <1>4
  <2>2. Falls(Then(r[Len(ts)]), NowOf(r[Len(ts) + 1]))
        BY <1>4, <2>1 DEF Flow
  <2>3. r[Len(ts) + 1] = s[1] /\ r[Len(ts)] = ts[Len(ts)]
    <3>1. 1 + Len(ts) = Len(ts) + 1
          BY <1>1
    <3> QED  BY <1>1, <2>1, <3>1
  <2> QED  BY <2>2, <2>3
<1>5. ASSUME Flow(ts), Flow(s),
             ts # <<>> /\ s # <<>> => Falls(Then(ts[Len(ts)]), NowOf(s[1])),
             NEW i \in 1..Len(r), i + 1 <= Len(r)
      PROVE  Falls(Then(r[i]), NowOf(r[i + 1]))
  <2>1. CASE i + 1 <= Len(ts)
    <3>1. i \in 1..Len(ts) /\ i + 1 \in 1..Len(ts)
          BY <1>1, <2>1
    <3>2. Falls(Then(ts[i]), NowOf(ts[i + 1]))
          BY <1>5, <2>1, <3>1 DEF Flow
    <3> QED  BY <1>1, <3>1, <3>2
  <2>2. CASE i = Len(ts)
    <3>1. Len(ts) > 0 /\ Len(s) > 0 /\ i \in 1..Len(ts) /\ 1 \in 1..Len(s) /\ i + 1 = 1 + Len(ts)
          BY <1>1, <1>5, <2>2
    <3>2. r[i] = ts[Len(ts)] /\ r[i + 1] = s[1]
          BY <1>1, <2>2, <3>1
    <3> QED  BY <1>2, <1>5, <3>1, <3>2
  <2>3. CASE i > Len(ts)
    <3>1. PICK j \in 1..Len(s) : i = j + Len(ts) /\ i + 1 = (j + 1) + Len(ts) /\ j + 1 \in 1..Len(s)
      <4>1. i - Len(ts) \in 1..Len(s) /\ i = (i - Len(ts)) + Len(ts)
            /\ i + 1 = ((i - Len(ts)) + 1) + Len(ts) /\ (i - Len(ts)) + 1 \in 1..Len(s)
            BY <1>1, <1>5, <2>3
      <4> QED  BY <4>1
    <3>2. j + 1 <= Len(s)
          BY <3>1
    <3>3. Falls(Then(s[j]), NowOf(s[j + 1]))
          BY <1>5, <3>1, <3>2 DEF Flow
    <3> QED  BY <1>1, <3>1, <3>3
  <2> QED  BY <1>1, <1>5, <2>1, <2>2, <2>3
<1>6. Flow(r) => Flow(s)
      BY <1>3 DEF Flow
<1>7. /\ Flow(ts) /\ Flow(s)
      /\ ts # <<>> /\ s # <<>> => Falls(Then(ts[Len(ts)]), NowOf(s[1]))
      => Flow(r)
      BY <1>5 DEF Flow
<1> QED  BY <1>4, <1>6, <1>7 DEF r

\* What a task to compile a statement stands for.
LEMMA ThenOf ==
  /\ \A n : Then(Stmt(n)) = Silently(Leave(n)) /\ NowOf(Stmt(n)) = Enter(n)
  /\ \A n : Stmt(n).op = "stmt" /\ Stmt(n).node = n
  /\ \A t : t.op # "post" => Then(t) = Silently(Leave(t.node))
BY DEF Then, NowOf, Stmt, Task

\* What takes the place of a task leads where the task leads.
LEMMA FlowShape ==
  ASSUME prog \in Programs, NEW t \in Tasks, TaskOK(t, prog), OfKind(t), NEW ts, Shape(t, ts)
  PROVE  /\ ts \in Seq(Tasks) /\ Kindly(ts) /\ Flow(ts)
         /\ ts # <<>> => Falls(Then(ts[Len(ts)]), Then(t))
         /\ t.node \in DOMAIN prog.node
         /\ \A i \in 1..Len(ts) : ts[i].op # "endFunction"
<1> DEFINE n == t.node
           p == Silently(Leave(t.node))
           Fine == /\ ts \in Seq(Tasks) /\ Kindly(ts) /\ Flow(ts)
                   /\ ts # <<>> => Falls(Then(ts[Len(ts)]), Then(t))
                   /\ t.node \in DOMAIN prog.node
                   /\ \A i \in 1..Len(ts) : ts[i].op # "endFunction"
<1>1. \A q, r : Falls(q, q) /\ (Silent(q) => Falls(q, Silently(q)))
      BY Falling, Zenon
<1>2. \A m \in DOMAIN prog.node : Stmt(m) \in Tasks /\ OfKind(Stmt(m))
  <2>1. TAKE m \in DOMAIN prog.node
  <2>2. Stmt(m).op = "stmt" /\ Stmt(m) \in Tasks
        BY StmtFacts
  <2> QED  BY <2>2 DEF OfKind
<1>3. Silent(Leave(n))
      BY AfterStatement
<1>4. CASE Ends0(t, ts)
  <2>1. ts = <<>>
        BY <1>4 DEF Ends0
  <2>2. t.node \in DOMAIN prog.node
        BY <1>4 DEF Ends0, TaskOK
  <2> QED  BY <2>1, <2>2 DEF Kindly, Flow
<1>5. CASE Lists(t, ts)
  <2>1. /\ t.op = "stmt" /\ Node(n).kind = "compound"
        /\ ts = [i \in DOMAIN Node(n).kids |-> Stmt(Kid(n, i))]
        BY <1>5 DEF Lists
  <2>2. n \in DOMAIN prog.node /\ Node(n).kids \in Seq(DOMAIN prog.node)
        BY <2>1, NodeFacts DEF TaskOK
  <2>3. DOMAIN Node(n).kids = 1..Len(Node(n).kids) /\ Len(Node(n).kids) \in Nat
        BY <2>2, LenProperties
  <2>4. \A i \in DOMAIN Node(n).kids : Kid(n, i) \in DOMAIN prog.node /\ Stmt(Kid(n, i)) \in Tasks
        BY <1>2, <2>2, Kids
  <2>5. Then(t) = p
        BY <2>1, ThenOf
  <2> HIDE DEF n
  <2>6. /\ ts \in Seq(Tasks) /\ Len(ts) = Len(Node(n).kids) /\ Len(ts) \in Nat
        /\ \A i \in 1..Len(ts) : ts[i] = Stmt(Kid(n, i)) /\ i \in DOMAIN Node(n).kids
    <3>1. ts = [i \in 1..Len(Node(n).kids) |-> Stmt(Kid(n, i))]
          BY <2>1, <2>3
    <3>2. ts \in [1..Len(Node(n).kids) -> Tasks]
          BY <2>3, <2>4, <3>1
    <3>3. ts \in Seq(Tasks)
          BY <2>3, <3>2, SeqDef
    <3>4. Len(ts) = Len(Node(n).kids)
          BY <2>3, <3>2, <3>3, LenProperties
    <3> QED  BY <2>3, <3>1, <3>3, <3>4
  <2>7. \A i \in 1..Len(ts) : ts[i].op = "stmt" /\ OfKind(ts[i])
    <3>1. TAKE i \in 1..Len(ts)
    <3> QED  BY <1>2, <2>4, <2>6, ThenOf
  <2>8. ASSUME NEW i \in 1..Len(ts), i + 1 <= Len(ts)
        PROVE  Falls(Then(ts[i]), NowOf(ts[i + 1]))
    <3>1. i + 1 \in 1..Len(ts) /\ i < Len(Node(n).kids)
          BY <2>6, <2>8
    <3>2. Then(ts[i]) = Silently(Leave(Kid(n, i))) /\ NowOf(ts[i + 1]) = Enter(Kid(n, i + 1))
          BY <2>6, <3>1, ThenOf
    <3>3. Silently(Leave(Kid(n, i))) = Enter(Kid(n, i + 1))
          BY <2>1, <2>2, <2>6, <3>1, AfterPart DEF n
    <3> QED  BY <1>1, <3>2, <3>3
  <2>9. ASSUME ts # <<>> PROVE Falls(Then(ts[Len(ts)]), p)
    <3>1. Len(ts) \in 1..Len(ts) /\ ~(Len(ts) < Len(Node(n).kids))
          BY <2>6, <2>9
    <3>2. Then(ts[Len(ts)]) = Silently(Leave(Kid(n, Len(ts))))
          BY <2>6, <3>1, ThenOf
    <3>3. Silently(Leave(Kid(n, Len(ts)))) = Leave(n)
          BY <2>1, <2>2, <2>6, <3>1, AfterPart
    <3> QED  BY <1>1, <1>3, <3>2, <3>3 DEF n
  <2> QED  BY <2>2, <2>5, <2>6, <2>7, <2>8, <2>9 DEF Kindly, Flow, n
<1>6. CASE Marks(t, ts)
  <2>1. /\ t.op = "stmt" /\ Node(n).kind \in {"case", "default", "label"}
        /\ ts = <<Stmt(Kid(n, 1))>>
        BY <1>6 DEF Marks
  <2>2. n \in DOMAIN prog.node /\ Kid(n, 1) \in DOMAIN prog.node /\ Len(Node(n).kids) = 1
        BY <2>1, NodeFacts, KidFacts DEF TaskOK, Unary, Arity, Leaves
  <2>3. 1 \in DOMAIN Node(n).kids
    <3>1. Node(n).kids \in Seq(DOMAIN prog.node)
          BY <2>2, NodeFacts
    <3> QED  BY <2>2, <3>1, LenProperties
  <2>4. Then(t) = p /\ Then(Stmt(Kid(n, 1))) = Silently(Leave(Kid(n, 1)))
        BY <2>1, ThenOf
  <2>5. Silently(Leave(Kid(n, 1))) = Leave(n)
        BY <2>1, <2>2, <2>3, AfterPart
  <2>6. Falls(Then(Stmt(Kid(n, 1))), Then(t))
        BY <1>1, <1>3, <2>4, <2>5
  <2>7. Stmt(Kid(n, 1)) \in Tasks /\ OfKind(Stmt(Kid(n, 1))) /\ Stmt(Kid(n, 1)).op = "stmt"
        BY <1>2, <2>2, ThenOf
  <2> DEFINE x == Stmt(Kid(n, 1))
  <2> HIDE DEF x, p, n
  <2>8. ts = <<x>>
        BY <2>1 DEF x
  <2>9. ts \in Seq(Tasks) /\ Len(ts) = 1 /\ ts[1] = x
        BY <2>7, <2>8 DEF x
  <2>10. \A i \in 1..Len(ts) : OfKind(ts[i]) /\ ts[i].op # "endFunction"
        BY <2>7, <2>9 DEF x
  <2>11. Flow(ts)
        BY <2>9 DEF Flow
  <2> QED  BY <2>2, <2>6, <2>9, <2>10, <2>11 DEF Kindly, x, n
<1>7. CASE Splits(t, ts)
  <2>1. PICK i \in 1..2, e \in Tasks :
          e.node = t.node /\ Part(t, i, e.op) /\ ts = <<Stmt(Kid(t.node, i)), e>>
        BY <1>7 DEF Splits
  <2>2. /\ n \in DOMAIN prog.node /\ i \in DOMAIN Node(n).kids
        /\ Falls(Silently(Leave(Kid(n, i))), NowOf(e))
        /\ OfKind(e) /\ e.op \notin {"stmt", "post", "endFunction"}
        BY <2>1, PartFlow
  <2>3. Kid(n, i) \in DOMAIN prog.node
        BY <2>2, Kids
  <2> DEFINE x == Stmt(Kid(n, i))
  <2>4. x \in Tasks /\ OfKind(x) /\ x.op = "stmt" /\ Then(x) = Silently(Leave(Kid(n, i)))
        BY <1>2, <2>3, ThenOf
  <2>5. Then(e) = p /\ Then(t) = p
    <3>1. t.op # "post"
          BY <2>1 DEF Part
    <3> QED  BY <2>1, <2>2, <3>1, ThenOf
  <2>6. ts = <<x, e>>
        BY <2>1
  <2> HIDE DEF x, p, n
  <2>7. ts \in Seq(Tasks) /\ Len(ts) = 2 /\ ts[1] = x /\ ts[2] = e
        BY <2>4, <2>6
  <2>8. \A j \in 1..Len(ts) : OfKind(ts[j]) /\ ts[j].op # "endFunction"
        BY <2>2, <2>4, <2>7
  <2>9. Falls(Then(ts[1]), NowOf(ts[2]))
        BY <2>2, <2>4, <2>7
  <2>10. Flow(ts)
    <3>1. \A j \in 1..2 : j + 1 <= 2 => j = 1
          OBVIOUS
    <3> QED  BY <2>7, <2>9, <3>1 DEF Flow
  <2> QED  BY <1>1, <2>2, <2>5, <2>7, <2>8, <2>10 DEF Kindly, n
<1>8. CASE Repeats(t, ts)
  <2>1. PICK q \in Tasks, e \in Tasks :
          /\ t.op = "for" /\ "post" \in Node(n).opts
          /\ q.op = "post" /\ q.node = n /\ e.op = "endWhile" /\ e.node = n
          /\ ts = <<Stmt(Kid(n, 2)), q, e>>
        BY <1>8 DEF Repeats
  <2>2. n \in DOMAIN prog.node /\ Node(n).kind = "for"
        BY <2>1 DEF TaskOK, OfKind
  <2>3. Kid(n, 2) \in DOMAIN prog.node /\ 2 \in DOMAIN Node(n).kids
    <3>1. Node(n).kids \in Seq(DOMAIN prog.node) /\ Len(Node(n).kids) = 2
          BY <2>2, NodeFacts DEF Arity, Unary, Leaves
    <3> QED  BY <2>2, <3>1, KidFacts, LenProperties
  <2> DEFINE x == Stmt(Kid(n, 2))
  <2>4. x \in Tasks /\ OfKind(x) /\ x.op = "stmt" /\ Then(x) = Silently(Leave(Kid(n, 2)))
        BY <1>2, <2>3, ThenOf
  <2>5. Silently(Leave(Kid(n, 2))) = Pos(n, "post")
        BY <2>2, <2>3, AfterPart
  <2>6. /\ OfKind(q) /\ OfKind(e) /\ NowOf(q) = Pos(n, "post") /\ NowOf(e) = Pos(n, "cond")
        /\ Then(q) = Pos(n, "cond") /\ Then(e) = p /\ Then(t) = p
        BY <2>1, <2>2 DEF OfKind, NowOf, Then
  <2>7. ts = <<x, q, e>>
        BY <2>1
  <2>8. q.op = "post" /\ e.op = "endWhile"
        BY <2>1
  <2> HIDE DEF x, p, n
  <2>9. ts \in Seq(Tasks) /\ Len(ts) = 3 /\ ts[1] = x /\ ts[2] = q /\ ts[3] = e
        BY <2>4, <2>7
  <2>10. \A j \in 1..Len(ts) : OfKind(ts[j]) /\ ts[j].op # "endFunction"
    <3>1. \A j \in 1..3 : j = 1 \/ j = 2 \/ j = 3
          OBVIOUS
    <3> QED  BY <2>4, <2>6, <2>8, <2>9, <3>1
  <2>11. Falls(Then(ts[1]), NowOf(ts[2])) /\ Falls(Then(ts[2]), NowOf(ts[3]))
        BY <1>1, <2>4, <2>5, <2>6, <2>9
  <2>12. Flow(ts)
    <3>1. \A j \in 1..3 : j + 1 <= 3 => (j = 1 /\ j + 1 = 2) \/ (j = 2 /\ j + 1 = 3)
          OBVIOUS
    <3> QED  BY <2>9, <2>11, <3>1 DEF Flow
  <2> QED  BY <1>1, <2>2, <2>6, <2>9, <2>10, <2>12 DEF Kindly, n
<1> QED  BY <1>4, <1>5, <1>6, <1>7, <1>8 DEF Shape

AheadIn(ts)   == UNION {Ahead(ts[i]) : i \in 1..Len(ts)}
AheadOf(s, h) == UNION {Ahead(Caller(s, k)) : k \in h + 1..Len(s)}

\* What a task still compiles is compiled by what takes its place, but for the
\* statement it was itself about.
LEMMA AheadShape ==
  ASSUME prog \in Programs, NEW t \in Tasks, TaskOK(t, prog), OfKind(t), NEW ts, Shape(t, ts),
         NEW k \in Ahead(t)
  PROVE  k \in AheadIn(ts) \/ (t.op = "stmt" /\ k = t.node)
<1> DEFINE n == t.node
<1>1. \A m : Ahead(Stmt(m)) = Sub(m)
      BY ThenOf DEF Ahead
<1>2. t.op \in {"stmt", "else", "for"}
      BY DEF Ahead
<1>3. n \in DOMAIN prog.node
      BY <1>2 DEF TaskOK
<1>4. ASSUME t.op = "stmt", k # n
      PROVE  \E i \in DOMAIN Node(n).kids : k \in Sub(Kid(n, i))
      BY <1>3, <1>4, SubParts DEF Ahead
<1>5. CASE Ends0(t, ts)
  <2>1. t.op = "stmt" /\ Node(n).kind \in Leaves
        BY <1>2, <1>5 DEF Ends0
  <2>2. Node(n).kids \in Seq(DOMAIN prog.node) /\ Len(Node(n).kids) = 0
    <3>1. Node(n).kids \in Seq(DOMAIN prog.node) /\ Len(Node(n).kids) \in Arity(Node(n).kind)
          BY <1>3, NodeFacts
    <3>2. Arity(Node(n).kind) = {0}
          BY <2>1 DEF Arity, Leaves, Unary
    <3> QED  BY <3>1, <3>2
  <2>3. DOMAIN Node(n).kids = {}
    <3>1. DOMAIN Node(n).kids = 1..0
          BY <2>2, LenProperties
    <3> QED  BY <3>1
  <2> QED  BY <1>4, <2>1, <2>3
<1>6. CASE Lists(t, ts)
  <2>1. /\ t.op = "stmt" /\ ts = [i \in DOMAIN Node(n).kids |-> Stmt(Kid(n, i))]
        BY <1>6 DEF Lists
  <2>2. SUFFICES ASSUME k # n PROVE k \in AheadIn(ts)
        BY <2>1
  <2>3. PICK i \in DOMAIN Node(n).kids : k \in Sub(Kid(n, i))
        BY <1>4, <2>1, <2>2
  <2>4. ts \in Seq(Tasks)
        BY FlowShape
  <2>5. ts[i] = Stmt(Kid(n, i)) /\ i \in 1..Len(ts)
    <3>1. DOMAIN ts = DOMAIN Node(n).kids /\ DOMAIN ts = 1..Len(ts)
          BY <2>1, <2>4, LenProperties
    <3> QED  BY <2>1, <3>1
  <2> QED  BY <1>1, <2>3, <2>5 DEF AheadIn
<1>7. CASE Marks(t, ts)
  <2>1. t.op = "stmt" /\ Node(n).kind \in {"case", "default", "label"} /\ ts = <<Stmt(Kid(n, 1))>>
        BY <1>7 DEF Marks
  <2>2. SUFFICES ASSUME k # n PROVE k \in AheadIn(ts)
        BY <2>1
  <2>3. PICK i \in DOMAIN Node(n).kids : k \in Sub(Kid(n, i))
        BY <1>4, <2>1, <2>2
  <2>4. i = 1
    <3>1. Node(n).kids \in Seq(DOMAIN prog.node) /\ Len(Node(n).kids) = 1
          BY <1>3, <2>1, NodeFacts DEF Arity, Unary, Leaves
    <3>2. DOMAIN Node(n).kids = 1..1
          BY <3>1, LenProperties
    <3> QED  BY <3>2
  <2>5. ts[1] = Stmt(Kid(n, 1)) /\ 1 \in 1..Len(ts)
        BY <2>1
  <2> QED  BY <1>1, <2>3, <2>4, <2>5 DEF AheadIn
<1>8. CASE Splits(t, ts)
  <2>1. PICK i \in 1..2, e \in Tasks :
          e.node = n /\ Part(t, i, e.op) /\ ts = <<Stmt(Kid(n, i)), e>>
        BY <1>8 DEF Splits
  <2>2. /\ ts[1] = Stmt(Kid(n, i)) /\ ts[2] = e /\ 1 \in 1..Len(ts) /\ 2 \in 1..Len(ts)
        BY <2>1
  <2>3. Sub(Kid(n, i)) \subseteq AheadIn(ts) /\ Ahead(e) \subseteq AheadIn(ts)
        BY <1>1, <2>2 DEF AheadIn
  <2>4. CASE t.op = "stmt"
    <3>1. SUFFICES ASSUME k # n PROVE k \in AheadIn(ts)
          BY <2>4
    <3>2. PICK j \in DOMAIN Node(n).kids : k \in Sub(Kid(n, j))
          BY <1>4, <2>4, <3>1
    <3>3. Node(n).kids \in Seq(DOMAIN prog.node) /\ Len(Node(n).kids) \in Arity(Node(n).kind)
          BY <1>3, NodeFacts
    <3>4. DOMAIN Node(n).kids = 1..Len(Node(n).kids)
          BY <3>3, LenProperties
    <3>5. i = 1
          BY <2>1, <2>4 DEF Part
    <3>6. CASE Len(Node(n).kids) = 1
      <4>1. DOMAIN Node(n).kids = 1..1
            BY <3>4, <3>6
      <4>2. j = 1
            BY <4>1
      <4> QED  BY <2>3, <3>2, <3>5, <4>2
    <3>7. CASE Len(Node(n).kids) = 2
      <4>1. DOMAIN Node(n).kids = 1..2
            BY <3>4, <3>7
      <4>2. j = 1 \/ j = 2
            BY <4>1
      <4>3. e.op \in {"else", "for"}
        <5>1. Node(n).kind \in {"while", "do", "switch"} => Len(Node(n).kids) = 1
              BY <3>3 DEF Arity, Unary, Leaves
        <5> QED  BY <2>1, <2>4, <3>7, <5>1 DEF Part
      <4>4. Ahead(e) = Sub(Kid(n, 2))
            BY <2>1, <4>3 DEF Ahead
      <4> QED  BY <2>3, <3>2, <3>5, <4>2, <4>4
    <3> QED  BY <2>1, <2>4, <3>3, <3>6, <3>7 DEF Part, Arity, Unary, Leaves
  <2>5. CASE t.op # "stmt"
    <3>1. i = 2
          BY <2>1, <2>5 DEF Part
    <3>2. k \in Sub(Kid(n, 2))
          BY <1>2, <2>5 DEF Ahead
    <3> QED  BY <2>3, <3>1, <3>2
  <2> QED  BY <2>4, <2>5
<1>9. CASE Repeats(t, ts)
  <2>1. t.op = "for" /\ ts[1] = Stmt(Kid(n, 2)) /\ 1 \in 1..Len(ts)
        BY <1>9 DEF Repeats
  <2>2. k \in Sub(Kid(n, 2))
        BY <2>1 DEF Ahead
  <2> QED  BY <1>1, <2>1, <2>2 DEF AheadIn
<1> QED  BY <1>5, <1>6, <1>7, <1>8, <1>9 DEF Shape

\* What lies ahead in a stack, from its parts.
LEMMA AheadGlue ==
  ASSUME NEW ts \in Seq(Tasks), NEW s \in Seq(Tasks), NEW h \in Nat, h <= Len(s)
  PROVE  AheadOf(ts \o s, h) = AheadIn(ts) \cup AheadOf(s, h)
<1>1. /\ Len(s) \in Nat /\ Len(ts) \in Nat /\ Len(ts \o s) = Len(ts) + Len(s)
      /\ \A k \in 1..Len(s) : Caller(ts \o s, k) = Caller(s, k)
      /\ \A i \in 1..Len(ts) : (ts \o s)[i] = ts[i]
      BY Heights, OnTopOf
<1>2. \A k \in Len(s) + 1..Len(s) + Len(ts) :
        /\ Len(ts) + Len(s) + 1 - k \in 1..Len(ts)
        /\ Caller(ts \o s, k) = ts[Len(ts) + Len(s) + 1 - k]
  <2>1. TAKE k \in Len(s) + 1..Len(s) + Len(ts)
  <2>2. Len(ts) + Len(s) + 1 - k \in 1..Len(ts)
        BY <1>1
  <2> QED  BY <1>1, <2>2 DEF Caller
<1>3. \A i \in 1..Len(ts) : \E k \in Len(s) + 1..Len(s) + Len(ts) : Caller(ts \o s, k) = ts[i]
  <2>1. TAKE i \in 1..Len(ts)
  <2>2. /\ Len(ts) + Len(s) + 1 - i \in Len(s) + 1..Len(s) + Len(ts)
        /\ Len(ts) + Len(s) + 1 - (Len(ts) + Len(s) + 1 - i) = i
        BY <1>1
  <2> QED  BY <1>2, <2>2
<1>4. /\ \A k \in h + 1..Len(ts) + Len(s) : k \in h + 1..Len(s) \/ k \in Len(s) + 1..Len(s) + Len(ts)
      /\ \A k \in h + 1..Len(s) : k \in 1..Len(s) /\ k \in h + 1..Len(ts) + Len(s)
      /\ \A k \in Len(s) + 1..Len(s) + Len(ts) : k \in h + 1..Len(ts) + Len(s)
      BY <1>1
<1>5. ASSUME NEW x \in AheadOf(ts \o s, h) PROVE x \in AheadIn(ts) \cup AheadOf(s, h)
  <2>1. PICK k \in h + 1..Len(ts) + Len(s) : x \in Ahead(Caller(ts \o s, k))
        BY <1>1, <1>5 DEF AheadOf
  <2>2. CASE k \in h + 1..Len(s)
        BY <1>1, <1>4, <2>1, <2>2 DEF AheadOf
  <2>3. CASE k \in Len(s) + 1..Len(s) + Len(ts)
        BY <1>2, <2>1, <2>3 DEF AheadIn
  <2> QED  BY <1>4, <2>2, <2>3
<1>6. ASSUME NEW x \in AheadIn(ts) PROVE x \in AheadOf(ts \o s, h)
  <2>1. PICK i \in 1..Len(ts) : x \in Ahead(ts[i])
        BY <1>6 DEF AheadIn
  <2>2. PICK k \in Len(s) + 1..Len(s) + Len(ts) : Caller(ts \o s, k) = ts[i]
        BY <1>3
  <2> QED  BY <1>1, <1>4, <2>1, <2>2 DEF AheadOf
<1>7. ASSUME NEW x \in AheadOf(s, h) PROVE x \in AheadOf(ts \o s, h)
  <2>1. PICK k \in h + 1..Len(s) : x \in Ahead(Caller(s, k))
        BY <1>7 DEF AheadOf
  <2> QED  BY <1>1, <1>4, <2>1 DEF AheadOf
<1> QED  BY <1>5, <1>6, <1>7

\* The nodes of the loops and switches that are open up to a height.
OpenNodes(s, h) == {Caller(s, l).node : l \in {k \in 1..h : IsOpen(Caller(s, k))}}

\* What is around the node of a task in the source is what is open below it.
Nest(s) ==
  \A h \in 1..Len(s) :
    IsOpen(Caller(s, h)) \/ Breaking(Caller(s, h)) =>
      Around(Caller(s, h).node, Breakable) = OpenNodes(s, h - 1)

\* What is open below a height stays so; an open task adds its node.
LEMMA OpenBelow ==
  ASSUME NEW ts \in Seq(Tasks), NEW s \in Seq(Tasks)
  PROVE  /\ \A h \in 0..Len(s) : OpenNodes(ts \o s, h) = OpenNodes(s, h)
         /\ \A t \in Tasks : IsOpen(t) =>
              OpenNodes(<<t>> \o s, Len(s) + 1) = OpenNodes(s, Len(s)) \cup {t.node}
         /\ (\A i \in 1..Len(ts) : ~IsOpen(ts[i])) =>
              \A h \in Len(s)..Len(ts \o s) : OpenNodes(ts \o s, h) = OpenNodes(s, Len(s))
<1>1. \A us \in Seq(Tasks) :
        /\ Len(s) \in Nat /\ Len(us) \in Nat /\ Len(us \o s) = Len(us) + Len(s)
        /\ \A h \in 1..Len(s) : Caller(us \o s, h) = Caller(s, h)
        /\ \A h \in 1..Len(us \o s) :
             \/ h \in 1..Len(s)
             \/ h > Len(s) /\ \E i \in 1..Len(us) : Caller(us \o s, h) = us[i]
      BY Heights
<1>2. ASSUME NEW h \in 0..Len(s) PROVE OpenNodes(ts \o s, h) = OpenNodes(s, h)
  <2>1. \A l \in 1..h : l \in 1..Len(s)
        BY <1>1
  <2>2. \A l \in 1..h : Caller(ts \o s, l) = Caller(s, l)
        BY <1>1, <2>1
  <2> QED  BY <2>2 DEF OpenNodes
<1>3. ASSUME NEW t \in Tasks, IsOpen(t)
      PROVE  OpenNodes(<<t>> \o s, Len(s) + 1) = OpenNodes(s, Len(s)) \cup {t.node}
  <2>1. /\ Caller(<<t>> \o s, Len(s) + 1) = t
        /\ \A h \in 1..Len(s) : Caller(<<t>> \o s, h) = Caller(s, h)
        BY <1>3, BelowTop
  <2>2. /\ \A l \in 1..Len(s) + 1 : l \in 1..Len(s) \/ l = Len(s) + 1
        /\ \A l \in 1..Len(s) : l \in 1..Len(s) + 1
        /\ Len(s) + 1 \in 1..Len(s) + 1
        BY <1>1
  <2>3. ASSUME NEW x PROVE x \in OpenNodes(<<t>> \o s, Len(s) + 1)
                           <=> x \in OpenNodes(s, Len(s)) \/ x = t.node
    <3>1. x \in OpenNodes(<<t>> \o s, Len(s) + 1) <=>
          \E l \in 1..Len(s) + 1 : IsOpen(Caller(<<t>> \o s, l)) /\ x = Caller(<<t>> \o s, l).node
          BY DEF OpenNodes
    <3>2. x \in OpenNodes(s, Len(s)) <=>
          \E l \in 1..Len(s) : IsOpen(Caller(s, l)) /\ x = Caller(s, l).node
          BY DEF OpenNodes
    <3> QED  BY <1>3, <2>1, <2>2, <3>1, <3>2
  <2> QED  BY <2>3
<1>4. ASSUME \A i \in 1..Len(ts) : ~IsOpen(ts[i]), NEW h \in Len(s)..Len(ts \o s)
      PROVE  OpenNodes(ts \o s, h) = OpenNodes(s, Len(s))
  <2>1. \A l \in 1..h : l \in 1..Len(ts \o s)
        BY <1>1
  <2>2. \A l \in 1..h : l \in 1..Len(s) \/ ~IsOpen(Caller(ts \o s, l))
        BY <1>1, <1>4, <2>1
  <2>3. \A l \in 1..Len(s) : l \in 1..h
        BY <1>1
  <2>4. {k \in 1..h : IsOpen(Caller(ts \o s, k))} = {k \in 1..Len(s) : IsOpen(Caller(s, k))}
        BY <1>1, <2>2, <2>3
  <2>5. \A k \in {k \in 1..Len(s) : IsOpen(Caller(s, k))} : Caller(ts \o s, k) = Caller(s, k)
        BY <1>1
  <2> QED  BY <2>4, <2>5 DEF OpenNodes
<1> QED  BY <1>2, <1>3, <1>4

\* Nesting in a stack, from its parts.
LEMMA NestGlue ==
  ASSUME NEW s \in Seq(Tasks)
  PROVE  /\ \A t \in Tasks : Nest(<<t>> \o s) =>
              /\ Nest(s)
              /\ IsOpen(t) \/ Breaking(t) => Around(t.node, Breakable) = OpenNodes(s, Len(s))
         /\ \A t \in Tasks :
              /\ Nest(s) /\ IsOpen(t) /\ Around(t.node, Breakable) = OpenNodes(s, Len(s))
              => Nest(<<t>> \o s)
         /\ \A ts \in Seq(Tasks) :
              /\ Nest(s)
              /\ \A i \in 1..Len(ts) :
                   /\ ~IsOpen(ts[i])
                   /\ Breaking(ts[i]) => Around(ts[i].node, Breakable) = OpenNodes(s, Len(s))
              => Nest(ts \o s)
<1>1. \A us \in Seq(Tasks) :
        /\ Len(s) \in Nat /\ Len(us) \in Nat /\ Len(us \o s) = Len(us) + Len(s)
        /\ \A h \in 1..Len(s) : Caller(us \o s, h) = Caller(s, h) /\ h \in 1..Len(us \o s)
        /\ \A h \in 1..Len(us \o s) :
             \/ h \in 1..Len(s)
             \/ h > Len(s) /\ \E i \in 1..Len(us) : Caller(us \o s, h) = us[i]
      BY Heights
<1>2. \A h \in 1..Len(s) : h - 1 \in 0..Len(s)
      BY <1>1
<1>3. \A us \in Seq(Tasks) : \A h \in 1..Len(s) : OpenNodes(us \o s, h - 1) = OpenNodes(s, h - 1)
      BY <1>2, OpenBelow
<1>4. ASSUME NEW t \in Tasks
      PROVE  /\ <<t>> \o s \in Seq(Tasks) /\ <<t>> \in Seq(Tasks)
             /\ Len(<<t>> \o s) = Len(s) + 1 /\ Caller(<<t>> \o s, Len(s) + 1) = t
             /\ Len(s) + 1 \in 1..Len(<<t>> \o s) /\ (Len(s) + 1) - 1 = Len(s)
             /\ OpenNodes(<<t>> \o s, Len(s)) = OpenNodes(s, Len(s))
             /\ \A h \in 1..Len(<<t>> \o s) : h \in 1..Len(s) \/ h = Len(s) + 1
  <2>1. <<t>> \in Seq(Tasks) /\ Len(<<t>>) = 1 /\ <<t>>[1] = t
        BY Single
  <2>2. Len(<<t>> \o s) = Len(s) + 1
        BY <1>1, <2>1
  <2>3. Caller(<<t>> \o s, Len(s) + 1) = t
    <3>1. (<<t>> \o s)[1] = t
          BY <2>1, OnTopOf
    <3>2. Len(<<t>> \o s) + 1 - (Len(s) + 1) = 1
          BY <1>1, <2>2
    <3> QED  BY <3>1, <3>2 DEF Caller
  <2>4. <<t>> \o s \in Seq(Tasks)
        BY <2>1, OnTopOf
  <2>5. /\ Len(s) + 1 \in 1..Len(s) + 1 /\ (Len(s) + 1) - 1 = Len(s) /\ Len(s) \in 0..Len(s)
        /\ \A h \in 1..Len(s) + 1 : h \in 1..Len(s) \/ h = Len(s) + 1
        BY <1>1
  <2>6. OpenNodes(<<t>> \o s, Len(s)) = OpenNodes(s, Len(s))
        BY <2>1, <2>5, OpenBelow
  <2> QED  BY <2>1, <2>2, <2>3, <2>4, <2>5, <2>6
<1>5. ASSUME NEW t \in Tasks, Nest(<<t>> \o s)
      PROVE  /\ Nest(s)
             /\ IsOpen(t) \/ Breaking(t) => Around(t.node, Breakable) = OpenNodes(s, Len(s))
  <2>1. Nest(s)
        BY <1>1, <1>3, <1>4, <1>5 DEF Nest
  <2>2. IsOpen(t) \/ Breaking(t) => Around(t.node, Breakable) = OpenNodes(<<t>> \o s, (Len(s) + 1) - 1)
        BY <1>4, <1>5 DEF Nest
  <2> QED  BY <1>4, <2>1, <2>2
<1>6. ASSUME NEW t \in Tasks, Nest(s), IsOpen(t),
             Around(t.node, Breakable) = OpenNodes(s, Len(s))
      PROVE  Nest(<<t>> \o s)
  <2>1. SUFFICES ASSUME NEW h \in 1..Len(<<t>> \o s),
                        IsOpen(Caller(<<t>> \o s, h)) \/ Breaking(Caller(<<t>> \o s, h))
                 PROVE  Around(Caller(<<t>> \o s, h).node, Breakable) = OpenNodes(<<t>> \o s, h - 1)
        BY DEF Nest
  <2>2. CASE h \in 1..Len(s)
        BY <1>1, <1>3, <1>4, <1>6, <2>1, <2>2 DEF Nest
  <2>3. CASE h = Len(s) + 1
        BY <1>4, <1>6, <2>3
  <2> QED  BY <1>4, <2>2, <2>3
<1>7. ASSUME NEW ts \in Seq(Tasks), Nest(s),
             \A i \in 1..Len(ts) :
                   /\ ~IsOpen(ts[i])
                   /\ Breaking(ts[i]) => Around(ts[i].node, Breakable) = OpenNodes(s, Len(s))
      PROVE  Nest(ts \o s)
  <2>1. SUFFICES ASSUME NEW h \in 1..Len(ts \o s),
                        IsOpen(Caller(ts \o s, h)) \/ Breaking(Caller(ts \o s, h))
                 PROVE  Around(Caller(ts \o s, h).node, Breakable) = OpenNodes(ts \o s, h - 1)
        BY DEF Nest
  <2>2. CASE h \in 1..Len(s)
        BY <1>1, <1>3, <1>7, <2>1, <2>2 DEF Nest
  <2>3. CASE h > Len(s) /\ \E i \in 1..Len(ts) : Caller(ts \o s, h) = ts[i]
    <3>1. h - 1 \in Len(s)..Len(ts \o s)
          BY <1>1, <2>3
    <3>2. OpenNodes(ts \o s, h - 1) = OpenNodes(s, Len(s))
          BY <1>7, <3>1, OpenBelow
    <3> QED  BY <1>7, <2>1, <2>3, <3>2
  <2> QED  BY <1>1, <2>2, <2>3
<1> QED  BY <1>5, <1>6, <1>7

\* What takes the place of a task is nested as the source is.
LEMMA NestShape ==
  ASSUME prog \in Programs, NEW s \in Seq(Tasks), NEW t \in Tasks, TaskOK(t, prog), OfKind(t),
         Nest(<<t>> \o s), NEW ts, Shape(t, ts)
  PROVE  Nest(ts \o s)
<1> DEFINE n == t.node
           O == OpenNodes(s, Len(s))
<1>1. Nest(s) /\ (IsOpen(t) \/ Breaking(t) => Around(n, Breakable) = O)
      BY NestGlue
<1>2. ts \in Seq(Tasks) /\ n \in DOMAIN prog.node
      BY FlowShape
<1>3. \A m : Stmt(m).op = "stmt" /\ Stmt(m).node = m /\ ~IsOpen(Stmt(m))
      BY ThenOf DEF IsOpen, LoopTasks
<1>4. \A i \in DOMAIN Node(n).kids :
        /\ Stmt(Kid(n, i)) \in Tasks
        /\ Node(n).kind \notin Breakable => Around(Kid(n, i), Breakable) = Around(n, Breakable)
        /\ Node(n).kind \in Breakable => Around(Kid(n, i), Breakable) = Around(n, Breakable) \cup {n}
  <2>1. TAKE i \in DOMAIN Node(n).kids
  <2>2. Kid(n, i) \in DOMAIN prog.node
        BY <1>2, Kids
  <2>3. Around(Kid(n, i), Breakable)
        = Around(n, Breakable) \cup (IF Node(n).kind \in Breakable THEN {n} ELSE {})
        BY <1>2, AroundKid
  <2> QED  BY <2>2, <2>3, StmtFacts
<1>5. \A us \in Seq(Tasks) :
        (\A i \in 1..Len(us) :
           ~IsOpen(us[i]) /\ (Breaking(us[i]) => Around(us[i].node, Breakable) = O))
        => Nest(us \o s)
      BY <1>1, NestGlue
<1> HIDE DEF O
<1>6. CASE Ends0(t, ts)
  <2>1. ts = <<>> /\ Len(ts) = 0
        BY <1>6 DEF Ends0
  <2>2. \A i \in 1..Len(ts) : FALSE
        BY <2>1
  <2> QED  BY <1>2, <1>5, <2>2
<1>7. CASE Lists(t, ts)
  <2>1. /\ t.op = "stmt" /\ Node(n).kind = "compound"
        /\ ts = [i \in DOMAIN Node(n).kids |-> Stmt(Kid(n, i))]
        BY <1>7 DEF Lists
  <2>2. Around(n, Breakable) = O /\ Node(n).kind \notin Breakable
        BY <1>1, <2>1 DEF Breaking, Breakable
  <2>3. \A i \in 1..Len(ts) : i \in DOMAIN Node(n).kids /\ ts[i] = Stmt(Kid(n, i))
    <3>1. DOMAIN ts = DOMAIN Node(n).kids /\ DOMAIN ts = 1..Len(ts)
          BY <1>2, <2>1, LenProperties
    <3> QED  BY <2>1, <3>1
  <2>4. \A i \in 1..Len(ts) : ~IsOpen(ts[i]) /\ Around(ts[i].node, Breakable) = O
        BY <1>3, <1>4, <2>2, <2>3
  <2> QED  BY <1>2, <1>5, <2>4
<1>8. CASE Marks(t, ts)
  <2>1. /\ t.op = "stmt" /\ Node(n).kind \in {"case", "default", "label"}
        /\ ts = <<Stmt(Kid(n, 1))>>
        BY <1>8 DEF Marks
  <2>2. Around(n, Breakable) = O /\ Node(n).kind \notin Breakable
        BY <1>1, <2>1 DEF Breaking, Breakable
  <2>3. 1 \in DOMAIN Node(n).kids
    <3>1. Node(n).kids \in Seq(DOMAIN prog.node) /\ Len(Node(n).kids) = 1
          BY <1>2, <2>1, NodeFacts DEF Arity, Unary, Leaves
    <3> QED  BY <3>1, LenProperties
  <2>4. \A i \in 1..Len(ts) : ts[i] = Stmt(Kid(n, 1))
        BY <2>1
  <2>5. \A i \in 1..Len(ts) : ~IsOpen(ts[i]) /\ Around(ts[i].node, Breakable) = O
        BY <1>3, <1>4, <2>2, <2>3, <2>4
  <2> QED  BY <1>2, <1>5, <2>5
<1>9. CASE Splits(t, ts)
  <2>1. PICK i \in 1..2, e \in Tasks :
          e.node = n /\ Part(t, i, e.op) /\ ts = <<Stmt(Kid(n, i)), e>>
        BY <1>9 DEF Splits
  <2>2. i \in DOMAIN Node(n).kids /\ OfKind(e)
        BY <2>1, PartFlow
  <2>3. Around(n, Breakable) = O
        BY <1>1, <2>1 DEF Breaking, Part
  <2> DEFINE x == Stmt(Kid(n, i))
  <2>4. x \in Tasks /\ ~IsOpen(x) /\ x.node = Kid(n, i) /\ x.op = "stmt"
        BY <1>3, <1>4, <2>2
  <2>5. ts = <<x, e>>
        BY <2>1
  <2>6. IsOpen(e) => Node(n).kind \in Breakable
        BY <2>1, <2>2 DEF IsOpen, LoopTasks, OfKind, Breakable
  <2>7. ~IsOpen(e) => (Breaking(x) => Around(x.node, Breakable) = O)
    <3>1. CASE e.op = "for"
      <4>1. Node(n).kind = "for" /\ i = 1
            BY <2>1, <3>1 DEF Part
      <4>2. Node(Kid(n, 1)).kind \in {"expr", "decl"}
            BY <1>2, <4>1, NodeFacts
      <4> QED  BY <2>4, <4>1, <4>2 DEF Breaking
    <3>2. CASE e.op # "for"
      <4>1. ~IsOpen(e) => Node(n).kind \notin Breakable
        <5>1. t.op = "else" => Node(n).kind = "if"
              BY DEF OfKind
        <5> QED  BY <2>1, <3>2, <5>1 DEF Part, IsOpen, LoopTasks, Breakable
      <4> QED  BY <1>4, <2>2, <2>3, <2>4, <4>1
    <3> QED  BY <3>1, <3>2
  <2> HIDE DEF x
  <2>8. CASE ~IsOpen(e)
    <3>1. \A j \in 1..Len(ts) : (j = 1 /\ ts[j] = x) \/ (j = 2 /\ ts[j] = e)
      <4>1. Len(ts) = 2 /\ ts[1] = x /\ ts[2] = e
            BY <2>5
      <4>2. \A j \in 1..2 : j = 1 \/ j = 2
            OBVIOUS
      <4> QED  BY <4>1, <4>2
    <3> QED  BY <1>2, <1>5, <2>1, <2>3, <2>4, <2>7, <2>8, <3>1
  <2>9. CASE IsOpen(e)
    <3>1. Nest(<<e>> \o s) /\ <<e>> \o s \in Seq(Tasks) /\ <<e>> \in Seq(Tasks)
      <4>1. <<e>> \in Seq(Tasks)
            BY Single
      <4> QED  BY <1>1, <2>1, <2>3, <2>9, <4>1, NestGlue, OnTopOf DEF O
    <3>2. Len(<<e>> \o s) = Len(s) + 1
          BY <2>9, BelowTop
    <3>3. OpenNodes(<<e>> \o s, Len(<<e>> \o s)) = O \cup {n}
          BY <2>1, <2>9, <3>2, OpenBelow DEF O
    <3>4. Around(x.node, Breakable) = O \cup {n}
          BY <1>4, <2>2, <2>3, <2>4, <2>6, <2>9
    <3>5. <<x>> \in Seq(Tasks) /\ Len(<<x>>) = 1 /\ <<x>>[1] = x
          BY <2>4, Single
    <3>6. Nest(<<x>> \o (<<e>> \o s))
      <4>1. \A j \in 1..Len(<<x>>) : ~IsOpen(<<x>>[j]) /\
              (Breaking(<<x>>[j]) => Around(<<x>>[j].node, Breakable)
                                     = OpenNodes(<<e>> \o s, Len(<<e>> \o s)))
        <5>1. \A j \in 1..Len(<<x>>) : <<x>>[j] = x
              BY <3>5
        <5> QED  BY <2>4, <3>3, <3>4, <5>1
      <4> QED  BY <3>1, <3>5, <4>1, NestGlue
    <3>7. ts \o s = <<x>> \o (<<e>> \o s)
          BY <2>4, <2>5, Pair
    <3> QED  BY <3>6, <3>7
  <2> QED  BY <2>8, <2>9
<1>10. CASE Repeats(t, ts)
  <2>1. PICK q \in Tasks, e \in Tasks :
          /\ t.op = "for"
          /\ q.op = "post" /\ q.node = n /\ e.op = "endWhile" /\ e.node = n
          /\ ts = <<Stmt(Kid(n, 2)), q, e>>
        BY <1>10 DEF Repeats
  <2>2. Node(n).kind = "for" /\ Node(n).kind \in Breakable
        BY <2>1 DEF OfKind, Breakable
  <2>3. 2 \in DOMAIN Node(n).kids
    <3>1. Node(n).kids \in Seq(DOMAIN prog.node) /\ Len(Node(n).kids) = 2
          BY <1>2, <2>2, NodeFacts DEF Arity, Unary, Leaves
    <3> QED  BY <3>1, LenProperties
  <2>4. Around(n, Breakable) = O
        BY <1>1, <2>1 DEF Breaking
  <2>5. IsOpen(e) /\ ~IsOpen(q) /\ ~Breaking(q)
        BY <2>1 DEF IsOpen, LoopTasks, Breaking
  <2> DEFINE x == Stmt(Kid(n, 2))
  <2>6. x \in Tasks /\ ~IsOpen(x) /\ Around(x.node, Breakable) = O \cup {n}
        BY <1>3, <1>4, <2>2, <2>3, <2>4
  <2>7. ts = <<x, q, e>>
        BY <2>1
  <2> HIDE DEF x
  <2>8. Nest(<<e>> \o s) /\ <<e>> \o s \in Seq(Tasks) /\ <<e>> \in Seq(Tasks)
    <3>1. <<e>> \in Seq(Tasks)
          BY Single
    <3> QED  BY <1>1, <2>1, <2>4, <2>5, <3>1, NestGlue, OnTopOf DEF O
  <2>9. Len(<<e>> \o s) = Len(s) + 1
        BY <2>5, BelowTop
  <2>10. OpenNodes(<<e>> \o s, Len(<<e>> \o s)) = O \cup {n}
        BY <2>1, <2>5, <2>9, OpenBelow DEF O
  <2>11. <<x, q>> \in Seq(Tasks) /\ Len(<<x, q>>) = 2 /\ <<x, q>>[1] = x /\ <<x, q>>[2] = q
        BY <2>6, TwoOf
  <2>12. Nest(<<x, q>> \o (<<e>> \o s))
    <3>1. \A j \in 1..Len(<<x, q>>) : j = 1 \/ j = 2
          BY <2>11
    <3>2. \A j \in 1..Len(<<x, q>>) : ~IsOpen(<<x, q>>[j]) /\
              (Breaking(<<x, q>>[j]) => Around(<<x, q>>[j].node, Breakable)
                                     = OpenNodes(<<e>> \o s, Len(<<e>> \o s)))
          BY <2>5, <2>6, <2>10, <2>11, <3>1
    <3> QED  BY <2>8, <2>11, <3>2, NestGlue
  <2>13. ts \o s = <<x, q>> \o (<<e>> \o s)
        BY <2>6, <2>7
  <2> QED  BY <2>12, <2>13
<1> QED  BY <1>6, <1>7, <1>8, <1>9, <1>10 DEF Shape

\* The innermost statement of some kinds around a node is that of the topmost
\* open task of these kinds.
LEMMA InnermostIs ==
  ASSUME prog \in Programs, NEW s \in Seq(Tasks), Nest(s), Kindly(s),
         \A i \in 1..Len(s) : TaskOK(s[i], prog),
         NEW n \in DOMAIN prog.node, Around(n, Breakable) = OpenNodes(s, Len(s)),
         NEW ops, NEW K, K \subseteq Breakable,
         \A t \in Tasks : OfKind(t) =>
           (t.op \in ops <=> IsOpen(t) /\ Node(t.node).kind \in K)
  PROVE  /\ Around(n, K) = {Caller(s, l).node : l \in OpenAt(s, ops)}
         /\ \A g \in OpenAt(s, ops) : (\A l \in OpenAt(s, ops) : l <= g) =>
              Innermost(n, K) = Caller(s, g).node
<1>1. Len(s) \in Nat /\ \A l \in 1..Len(s) : Len(s) + 1 - l \in 1..Len(s)
      BY LenProperties
<1>2. \A l \in 1..Len(s) : /\ Caller(s, l) \in Tasks /\ OfKind(Caller(s, l))
                           /\ TaskOK(Caller(s, l), prog)
      BY <1>1, ElementOfSeq DEF Caller, Kindly
<1>3. \A l \in OpenAt(s, ops) : l \in 1..Len(s) /\ IsOpen(Caller(s, l))
                                 /\ Node(Caller(s, l).node).kind \in K
      BY <1>2 DEF OpenAt
<1>4. Around(n, K) = {m \in OpenNodes(s, Len(s)) : Node(m).kind \in K}
  <2>1. Around(n, K) = {m \in Around(n, Breakable) : Node(m).kind \in K}
        BY AroundSub
  <2> QED  BY <2>1
<1>5. ASSUME NEW m
      PROVE  m \in Around(n, K) <=> \E l \in OpenAt(s, ops) : m = Caller(s, l).node
  <2>1. m \in OpenNodes(s, Len(s)) <=>
        \E l \in 1..Len(s) : IsOpen(Caller(s, l)) /\ m = Caller(s, l).node
        BY DEF OpenNodes
  <2>2. \A l \in 1..Len(s) : IsOpen(Caller(s, l)) /\ Node(Caller(s, l).node).kind \in K
                             => l \in OpenAt(s, ops)
        BY <1>2 DEF OpenAt
  <2> QED  BY <1>3, <1>4, <2>1, <2>2
<1>6. Around(n, K) = {Caller(s, l).node : l \in OpenAt(s, ops)}
      BY <1>5
<1>7. ASSUME NEW g \in OpenAt(s, ops), \A l \in OpenAt(s, ops) : l <= g
      PROVE  Innermost(n, K) = Caller(s, g).node
  <2> DEFINE m == Caller(s, g).node
  <2>1. m \in Around(n, K)
        BY <1>5
  <2>2. Around(n, K) \subseteq Nat
        BY Program, AroundSub
  <2>3. m \in DOMAIN prog.node /\ m \in Nat
        BY <2>1, <2>2, AroundSub
  <2>4. ASSUME NEW l \in OpenAt(s, ops), l < g
        PROVE  Caller(s, l).node <= m
    <3>1. Around(m, Breakable) = OpenNodes(s, g - 1)
          BY <1>3 DEF Nest
    <3>2. l \in 1..g - 1
          BY <1>1, <1>3, <2>4
    <3>3. Caller(s, l).node \in OpenNodes(s, g - 1)
          BY <1>3, <3>2 DEF OpenNodes
    <3>4. Caller(s, l).node < m /\ Caller(s, l).node \in DOMAIN prog.node
          BY <2>3, <3>1, <3>3, AroundSub
    <3> QED  BY <2>3, <3>4, Program
  <2>5. \A y \in Around(n, K) : y <= m
    <3>1. SUFFICES ASSUME NEW l \in OpenAt(s, ops) PROVE Caller(s, l).node <= m
          BY <1>5
    <3>2. l = g \/ l < g
          BY <1>3, <1>7
    <3> QED  BY <2>3, <2>4, <3>2
  <2>6. Max(Around(n, K)) = m
    <3> HIDE DEF m
    <3> QED  BY <2>1, <2>2, <2>5, MaxIs
  <2> QED  BY <2>6 DEF Innermost
<1> QED  BY <1>6, <1>7

\* The steps inside a function.
Stepping ==
  \/ Compound \/ Expression \/ DeclareStack \/ Return \/ If \/ EndIf \/ Else
  \/ EndElse \/ For \/ While \/ EndWhile \/ Do \/ EndDo \/ Switch \/ EndSwitch
  \/ Case \/ Default \/ Label \/ Goto \/ LoopExit

\* The kinds of steps.
LEMMA StepKinds ==
  ASSUME [Next]_vars
  PROVE  BeginFunction \/ EndFunction \/ Unreachable \/ Stepping \/ UNCHANGED vars
BY DEF Next, Step, Stepping, Done

\* Tasks on top of others.
LEMMA TasksIn ==
  ASSUME NEW x, NEW q, NEW e, NEW s \in Seq(Tasks)
  PROVE  /\ <<x, e>> \o s \in Seq(Tasks) => x \in Tasks /\ e \in Tasks
         /\ <<x, q, e>> \o s \in Seq(Tasks) => q \in Tasks /\ e \in Tasks
<1> DEFINE S == Tasks \cup {x, q, e}
<1>1. s \in Seq(S)
  <2>1. Tasks \subseteq S
        OBVIOUS
  <2> HIDE DEF S
  <2>2. DOMAIN s = 1..Len(s) /\ Len(s) \in Nat /\ s \in [1..Len(s) -> S]
        BY <2>1, ElementOfSeq, LenProperties
  <2> QED  BY <2>2, SeqDef
<1>2. /\ <<x, e>> \in Seq(S) /\ Len(<<x, e>>) = 2 /\ <<x, e>>[1] = x /\ <<x, e>>[2] = e
      /\ <<x, q, e>> \in Seq(S) /\ Len(<<x, q, e>>) = 3 /\ <<x, q, e>>[2] = q /\ <<x, q, e>>[3] = e
  <2>1. x \in S /\ q \in S /\ e \in S
        OBVIOUS
  <2> HIDE DEF S
  <2> QED  BY <2>1
<1> HIDE DEF S
<1>3. ASSUME <<x, e>> \o s \in Seq(Tasks) PROVE x \in Tasks /\ e \in Tasks
  <2> DEFINE r == <<x, e>> \o s
  <2>1. Len(r) = 2 + Len(s) /\ Len(s) \in Nat /\ r[1] = x /\ r[2] = e
        BY <1>1, <1>2, OnTopOf
  <2>2. 1 \in 1..Len(r) /\ 2 \in 1..Len(r) /\ r \in Seq(Tasks)
        BY <1>3, <2>1
  <2> HIDE DEF r
  <2> QED  BY <2>1, <2>2, ElementOfSeq
<1>4. ASSUME <<x, q, e>> \o s \in Seq(Tasks) PROVE q \in Tasks /\ e \in Tasks
  <2> DEFINE r == <<x, q, e>> \o s
  <2>1. Len(r) = 3 + Len(s) /\ Len(s) \in Nat /\ r[2] = q /\ r[3] = e
        BY <1>1, <1>2, OnTopOf
  <2>2. 2 \in 1..Len(r) /\ 3 \in 1..Len(r) /\ r \in Seq(Tasks)
        BY <1>4, <2>1
  <2> HIDE DEF r
  <2> QED  BY <2>1, <2>2, ElementOfSeq
<1> QED  BY <1>3, <1>4

\* Sequences written out.
LEMMA Joined ==
  ASSUME NEW x, NEW q, NEW e
  PROVE  <<x>> \o <<e>> = <<x, e>> /\ <<x, q>> \o <<e>> = <<x, q, e>>
<1> DEFINE S == {x, q, e}
<1>1. x \in S /\ q \in S /\ e \in S
      OBVIOUS
<1> HIDE DEF S
<1>2. ASSUME NEW ts \in Seq(S), NEW us \in Seq(S), Len(us) = Len(ts) + 1,
             \A i \in 1..Len(ts) : us[i] = ts[i], us[Len(us)] = e
      PROVE  ts \o <<e>> = us
  <2>1. <<e>> \in Seq(S) /\ Len(<<e>>) = 1 /\ <<e>>[1] = e
        BY <1>1
  <2> DEFINE r == ts \o <<e>>
  <2>2. /\ r \in Seq(S) /\ Len(r) = Len(us) /\ Len(ts) \in Nat
        /\ \A i \in 1..Len(ts) : r[i] = ts[i]
        /\ r[1 + Len(ts)] = e
        BY <1>2, <2>1, OnTopOf
  <2> HIDE DEF r
  <2>3. \A i \in 1..Len(r) : i \in 1..Len(ts) \/ (i = Len(us) /\ i = 1 + Len(ts))
        BY <1>2, <2>2
  <2>4. \A i \in 1..Len(r) : r[i] = us[i]
        BY <1>2, <2>2, <2>3
  <2>5. r = us
        BY <1>2, <2>2, <2>4, SeqEqual
  <2> QED  BY <2>5 DEF r
<1>3. /\ <<x>> \in Seq(S) /\ Len(<<x>>) = 1 /\ <<x>>[1] = x
      /\ <<x, e>> \in Seq(S) /\ Len(<<x, e>>) = 2 /\ <<x, e>>[1] = x /\ <<x, e>>[2] = e
      /\ <<x, q>> \in Seq(S) /\ Len(<<x, q>>) = 2 /\ <<x, q>>[1] = x /\ <<x, q>>[2] = q
      /\ <<x, q, e>> \in Seq(S) /\ Len(<<x, q, e>>) = 3 /\ <<x, q, e>>[1] = x
      /\ <<x, q, e>>[2] = q /\ <<x, q, e>>[3] = e
      BY <1>1
<1> DEFINE x1 == <<x>>
           x2 == <<x, q>>
           y1 == <<x, e>>
           y2 == <<x, q, e>>
<1>4. \A i \in 1..1 : i = 1
      OBVIOUS
<1>5. \A i \in 1..2 : i = 1 \/ i = 2
      OBVIOUS
<1> HIDE DEF x1, x2, y1, y2
<1>6. x1 \o <<e>> = y1
  <2>1. /\ x1 \in Seq(S) /\ y1 \in Seq(S) /\ Len(x1) = 1 /\ Len(y1) = 2
        /\ x1[1] = x /\ y1[1] = x /\ y1[2] = e
        BY <1>3 DEF x1, y1
  <2>2. \A i \in 1..Len(x1) : y1[i] = x1[i]
        BY <1>4, <2>1
  <2>3. Len(y1) = Len(x1) + 1 /\ y1[Len(y1)] = e
        BY <2>1
  <2> QED  BY <1>2, <2>1, <2>2, <2>3
<1>7. x2 \o <<e>> = y2
  <2>1. /\ x2 \in Seq(S) /\ y2 \in Seq(S) /\ Len(x2) = 2 /\ Len(y2) = 3
        /\ x2[1] = x /\ x2[2] = q /\ y2[1] = x /\ y2[2] = q /\ y2[3] = e
        BY <1>3 DEF x2, y2
  <2>2. \A i \in 1..Len(x2) : y2[i] = x2[i]
        BY <1>5, <2>1
  <2>3. Len(y2) = Len(x2) + 1 /\ y2[Len(y2)] = e
        BY <2>1
  <2> QED  BY <1>2, <2>1, <2>2, <2>3
<1> QED  BY <1>6, <1>7 DEF x1, x2, y1, y2

\* A task that is taken off the stack leaves nothing.
LEMMA PopShape ==
  ASSUME IInv, Running, Pop, Ends0(Top, <<>>)
  PROVE  \E ts : Shape(Top, ts) /\ todo' = ts \o Tail(todo)
<1>1. Tail(todo) \in Seq(Tasks)
      BY TopFacts DEF Frames
<1>2. <<>> \o Tail(todo) = Tail(todo)
      BY <1>1
<1> QED  BY <1>2, Zenon DEF Pop, Shape

\* A statement that is compiled in two parts leaves its first part and what follows it.
LEMMA SplitShape ==
  ASSUME IInv, IInv', Running, NEW i \in 1..2, NEW op, NEW blk, NEW flag,
         Part(Top, i, op), Push(<<Stmt(Kid(Top.node, i)), Task(op, Top.node, blk, flag)>>)
  PROVE  \E ts : Shape(Top, ts) /\ todo' = ts \o Tail(todo)
<1> DEFINE x == Stmt(Kid(Top.node, i))
           e == Task(op, Top.node, blk, flag)
<1>1. Tail(todo) \in Seq(Tasks) /\ todo' \in Seq(Tasks) /\ todo' = <<x, e>> \o Tail(todo)
      BY TopFacts DEF Frames, Push, IInv, StackOK
<1>2. e.op = op /\ e.node = Top.node
      BY DEF Task
<1> HIDE DEF e
<1>3. e \in Tasks
  <2> HIDE DEF x
  <2> QED  BY <1>1, TasksIn
<1>4. Splits(Top, <<x, e>>)
      BY <1>2, <1>3, Zenon DEF Splits
<1> QED  BY <1>1, <1>4, Zenon DEF Shape

\* Every step inside a function has one of the shapes.
LEMMA StepShape ==
  ASSUME IInv, IInv', Stepping, err' = "none"
  PROVE  /\ Running /\ Top.op # "endFunction" /\ Tail(todo) \in Seq(Tasks)
         /\ \E ts : Shape(Top, ts) /\ todo' = ts \o Tail(todo)
<1> DEFINE Fine == \E ts : Shape(Top, ts) /\ todo' = ts \o Tail(todo)
<1> SUFFICES Running /\ Top.op # "endFunction" /\ Fine
    BY TopFacts DEF Frames
<1>1. \A reason \in Errors : Fail(reason) => err' # "none"
      BY DEF Fail, Errors
<1>2. \A kind : Compiling(kind) => Running /\ Top.op = "stmt" /\ Node(Top.node).kind = kind
      BY DEF Compiling, At
<1>3. \A op : At(op) => Running /\ Top.op = op
      BY DEF At
<1>4. \A kind \in Leaves : Compiling(kind) /\ Pop => Running /\ Top.op # "endFunction" /\ Fine
  <2>1. SUFFICES ASSUME NEW kind \in Leaves, Compiling(kind), Pop
                 PROVE  Running /\ Top.op # "endFunction" /\ Fine
        OBVIOUS
  <2>2. Running /\ Top.op = "stmt" /\ Node(Top.node).kind = kind
        BY <1>2, <2>1
  <2>3. Ends0(Top, <<>>)
        BY <2>1, <2>2 DEF Ends0
  <2> QED  BY <2>1, <2>2, <2>3, PopShape
<1>5. \A op \in {"post", "endIf", "endElse", "endWhile", "endDo", "endSwitch"} :
        At(op) /\ Pop => Running /\ Top.op # "endFunction" /\ Fine
  <2>1. SUFFICES ASSUME NEW op \in {"post", "endIf", "endElse", "endWhile", "endDo", "endSwitch"},
                        At(op), Pop
                 PROVE  Running /\ Top.op # "endFunction" /\ Fine
        OBVIOUS
  <2>2. Running /\ Top.op = op
        BY <1>3, <2>1
  <2>3. Ends0(Top, <<>>)
        BY <2>1, <2>2 DEF Ends0
  <2> QED  BY <2>1, <2>2, <2>3, PopShape
<1>6. ASSUME NEW kind \in {"case", "default", "label"}, Compiling(kind),
             Push(<<Stmt(Kid(Top.node, 1))>>)
      PROVE  Running /\ Top.op # "endFunction" /\ Fine
  <2>1. Running /\ Top.op = "stmt" /\ Node(Top.node).kind = kind
        BY <1>2, <1>6
  <2>2. Marks(Top, <<Stmt(Kid(Top.node, 1))>>)
        BY <1>6, <2>1 DEF Marks
  <2>3. Fine
        BY <1>6, <2>2, Zenon DEF Push, Shape
  <2> QED  BY <2>1, <2>3
<1>7. ASSUME Running, Top.op # "endFunction", NEW i \in 1..2, NEW op, NEW blk, NEW flag,
             Part(Top, i, op), Push(<<Stmt(Kid(Top.node, i)), Task(op, Top.node, blk, flag)>>)
      PROVE  Running /\ Top.op # "endFunction" /\ Fine
      BY <1>7, SplitShape
<1>8. CASE Compound
  <2>1. /\ Running /\ Top.op = "stmt" /\ Node(Top.node).kind = "compound"
        /\ todo' = [i \in DOMAIN Node(Top.node).kids |-> Stmt(Kid(Top.node, i))] \o Tail(todo)
        BY <1>2, <1>8 DEF Compound, Push
  <2>2. Lists(Top, [i \in DOMAIN Node(Top.node).kids |-> Stmt(Kid(Top.node, i))])
        BY <2>1 DEF Lists
  <2>3. Fine
        BY <2>1, <2>2, Zenon DEF Shape
  <2> QED  BY <2>1, <2>3
<1>9. CASE Expression
      BY <1>4, <1>5, <1>9 DEF Expression, Leaves
<1>10. CASE DeclareStack \/ Return
      BY <1>4, <1>10 DEF DeclareStack, Return, Leaves
<1>11. CASE If
  <2>1. Running /\ Top.op = "stmt" /\ Node(Top.node).kind = "if"
        BY <1>2, <1>11 DEF If
  <2>2. \/ /\ Len(Node(Top.node).kids) = 1
           /\ Push(<<Stmt(Kid(Top.node, 1)), Task("endIf", Top.node, <<Fresh(b, 2)>>, FALSE)>>)
        \/ /\ Len(Node(Top.node).kids) = 2
           /\ Push(<<Stmt(Kid(Top.node, 1)),
                     Task("else", Top.node, <<Fresh(b, 3), Fresh(b, 2)>>, FALSE)>>)
        BY <1>11 DEF If
  <2>3. Len(Node(Top.node).kids) = 1 => Part(Top, 1, "endIf")
        BY <2>1 DEF Part
  <2>4. Len(Node(Top.node).kids) = 2 => Part(Top, 1, "else")
        BY <2>1 DEF Part
  <2>5. 1 \in 1..2
        OBVIOUS
  <2> QED  BY <1>7, <2>1, <2>2, <2>3, <2>4, <2>5
<1>12. CASE Else
  <2>1. /\ Running /\ Top.op = "else"
        /\ Push(<<Stmt(Kid(Top.node, 2)),
                  Task("endElse", Top.node, <<Top.blk[2]>>, IfHasReturn)>>)
        BY <1>3, <1>12 DEF Else
  <2>2. Part(Top, 2, "endElse") /\ 2 \in 1..2
        BY <2>1 DEF Part
  <2> QED  BY <1>7, <2>1, <2>2
<1>13. CASE For
  <2>1. /\ Running /\ Top.op = "stmt" /\ Node(Top.node).kind = "for"
        /\ Push(<<Stmt(Kid(Top.node, 1)), Task("for", Top.node, <<>>, FALSE)>>)
        BY <1>2, <1>13 DEF For
  <2>2. Part(Top, 1, "for") /\ 1 \in 1..2
        BY <2>1 DEF Part
  <2> QED  BY <1>7, <2>1, <2>2
<1>14. CASE While
  <2>1. /\ Running /\ Top.node \in DOMAIN prog.node
        /\ Node(Top.node).kind \in {"while", "for"}
        BY <1>14, WhileTop DEF While
  <2>2. \/ Top.op = "stmt" /\ Node(Top.node).kind = "while"
        \/ Top.op = "for" /\ Node(Top.node).kind = "for"
    <3>1. \/ Top.op = "stmt" /\ Node(Top.node).kind = "while"
          \/ Top.op = "for"
          BY <1>2, <1>3, <1>14 DEF While
    <3>2. Top.op = "for" => Node(Top.node).kind = "for"
          BY <2>1, TopFacts DEF TaskOK, Node
    <3> QED  BY <3>1, <3>2
  <2> DEFINE e == Task("endWhile", Top.node, <<Header(b), End(b)>>, sawLoop)
  <2>3. Push(LoopBody(Top.node) \o <<e>>)
        BY <1>14 DEF While
  <2>4. CASE Node(Top.node).kind = "while"
    <3>1. LoopBody(Top.node) \o <<e>> = <<Stmt(Kid(Top.node, 1)), e>>
      <4>1. LoopBody(Top.node) = <<Stmt(Kid(Top.node, 1))>>
            BY <2>4 DEF LoopBody
      <4> HIDE DEF e
      <4> QED  BY <4>1, Joined
    <3>2. Part(Top, 1, "endWhile") /\ 1 \in 1..2
          BY <2>2, <2>4 DEF Part
    <3> QED  BY <1>7, <2>1, <2>2, <2>3, <3>1, <3>2
  <2>5. CASE Node(Top.node).kind = "for" /\ "post" \notin Node(Top.node).opts
    <3>1. LoopBody(Top.node) \o <<e>> = <<Stmt(Kid(Top.node, 2)), e>>
      <4>1. LoopBody(Top.node) = <<Stmt(Kid(Top.node, 2))>>
            BY <2>5 DEF LoopBody
      <4> HIDE DEF e
      <4> QED  BY <4>1, Joined
    <3>2. Part(Top, 2, "endWhile") /\ 2 \in 1..2
          BY <2>2, <2>5 DEF Part
    <3> QED  BY <1>7, <2>1, <2>2, <2>3, <3>1, <3>2
  <2>6. CASE Node(Top.node).kind = "for" /\ "post" \in Node(Top.node).opts
    <3> DEFINE q == Task("post", Top.node, <<>>, FALSE)
    <3>1. LoopBody(Top.node) \o <<e>> = <<Stmt(Kid(Top.node, 2)), q, e>>
      <4>1. LoopBody(Top.node) = <<Stmt(Kid(Top.node, 2)), q>>
            BY <2>6 DEF LoopBody
      <4> HIDE DEF e, q
      <4> QED  BY <4>1, Joined
    <3>2. /\ q.op = "post" /\ q.node = Top.node /\ e.op = "endWhile" /\ e.node = Top.node
          BY DEF Task
    <3>3. /\ Tail(todo) \in Seq(Tasks) /\ todo' \in Seq(Tasks)
          /\ todo' = <<Stmt(Kid(Top.node, 2)), q, e>> \o Tail(todo)
          BY <2>1, <2>3, <3>1, TopFacts DEF Frames, Push, IInv, StackOK
    <3> HIDE DEF q, e
    <3>4. q \in Tasks /\ e \in Tasks
          BY <3>3, TasksIn
    <3>5. Repeats(Top, <<Stmt(Kid(Top.node, 2)), q, e>>)
          BY <2>2, <2>6, <3>2, <3>4 DEF Repeats
    <3>6. Fine
          BY <3>3, <3>5, Zenon DEF Shape
    <3> QED  BY <2>1, <2>2, <3>6
  <2> QED  BY <2>1, <2>4, <2>5, <2>6
<1>15. CASE Do
  <2>1. /\ Running /\ Top.op = "stmt" /\ Node(Top.node).kind = "do"
        /\ Push(<<Stmt(Kid(Top.node, 1)),
                  Task("endDo", Top.node, <<Header(b), Body(b), End(b)>>, sawLoop)>>)
        BY <1>2, <1>15 DEF Do
  <2>2. Part(Top, 1, "endDo") /\ 1 \in 1..2
        BY <2>1 DEF Part
  <2> QED  BY <1>7, <2>1, <2>2
<1>16. CASE Switch
  <2>1. /\ Running /\ Top.op = "stmt" /\ Node(Top.node).kind = "switch"
        /\ Push(<<Stmt(Kid(Top.node, 1)),
                  Task("endSwitch", Top.node, <<Fresh(b, 1)>>, sawLoop)>>)
        BY <1>2, <1>16 DEF Switch
  <2>2. Part(Top, 1, "endSwitch") /\ 1 \in 1..2
        BY <2>1 DEF Part
  <2> QED  BY <1>7, <2>1, <2>2
<1>17. CASE EndIf \/ EndElse \/ EndWhile \/ EndSwitch
      BY <1>5, <1>17 DEF EndIf, EndElse, EndWhile, EndSwitch
<1>18. CASE EndDo
      BY <1>1, <1>5, <1>18 DEF EndDo, Errors
<1>19. CASE Case
  <2>1. Compiling("case") /\ Push(<<Stmt(Kid(Top.node, 1))>>)
        BY <1>1, <1>19 DEF Case, Errors
  <2> QED  BY <1>6, <2>1
<1>20. CASE Default
  <2>1. Compiling("default") /\ Push(<<Stmt(Kid(Top.node, 1))>>)
        BY <1>1, <1>20 DEF Default, Errors
  <2> QED  BY <1>6, <2>1
<1>21. CASE Label
  <2>1. Compiling("label") /\ Push(<<Stmt(Kid(Top.node, 1))>>)
        BY <1>21 DEF Label
  <2> QED  BY <1>6, <2>1
<1>22. CASE Goto
  <2>1. Compiling("goto") /\ Pop
        BY <1>1, <1>22 DEF Goto, Errors
  <2> QED  BY <1>4, <2>1 DEF Leaves
<1>23. CASE LoopExit
  <2>1. PICK kind \in {"break", "continue"} :
          /\ Compiling(kind)
          /\ LET target == ExitTarget(kind)
             IN  \/ "error" \in DOMAIN target /\ Fail(target.error)
                 \/ Pop
        BY <1>23 DEF LoopExit
  <2>2. "error" \in DOMAIN ExitTarget(kind) => ExitTarget(kind).error \in Errors
        BY DEF ExitTarget, Errors
  <2>3. Pop
        BY <1>1, <2>1, <2>2
  <2> QED  BY <1>4, <2>1, <2>3 DEF Leaves
<1> QED  BY <1>8, <1>9, <1>10, <1>11, <1>12, <1>13, <1>14, <1>15, <1>16, <1>17, <1>18, <1>19,
            <1>20, <1>21, <1>22, <1>23 DEF Stepping

-----------------------------------------------------------------------------
(* The program does not change, and what is said of it does not.           *)

\* The relations of the nodes stay the same.
LEMMA SameSource ==
  ASSUME prog' = prog
  PROVE  /\ \A n : Node(n)' = Node(n) /\ Sub(n)' = Sub(n)
         /\ \A n, i : Kid(n, i)' = Kid(n, i)
         /\ \A n, K : Around(n, K)' = Around(n, K) /\ Innermost(n, K)' = Innermost(n, K)
         /\ \A n, K : Entries(n, K)' = Entries(n, K)
         /\ \A f, n : InBody(f, n)' <=> InBody(f, n)
         /\ Vals' = Vals
<1>1. \A n : Node(n)' = Node(n)
      BY DEF Node
<1>2. \A n : Sub(n)' = Sub(n)
      BY DEF Sub, IsKid
<1>3. \A n, i : Kid(n, i)' = Kid(n, i)
      BY <1>1 DEF Kid
<1>4. \A n, K : Around(n, K)' = Around(n, K)
      BY <1>1 DEF Around, IsKid
<1>5. \A n, K : Innermost(n, K)' = Innermost(n, K)
  <2>1. TAKE n, K
  <2>2. Max(Around(n, K))' = Max(Around(n, K))
        BY <1>4 DEF Max
  <2> QED  BY <2>2 DEF Innermost
<1>6. \A n, K : Entries(n, K)' = Entries(n, K)
  <2>1. \A n, K : Entries(n, K)' = {c \in DOMAIN prog.node :
           /\ Node(c).kind = K
           /\ Around(c, {"switch"}) # {}
           /\ Innermost(c, {"switch"}) = n}
        BY <1>1, <1>4, <1>5 DEF Entries
  <2> QED  BY <2>1 DEF Entries
<1>7. \A f, n : InBody(f, n)' <=> InBody(f, n)
      BY DEF InBody, IsKid
<1>8. Vals' = Vals
      BY <1>1 DEF Vals
<1> QED  BY <1>1, <1>2, <1>3, <1>4, <1>5, <1>6, <1>7, <1>8

\* The meaning of the positions stays the same.
LEMMA SamePlaces ==
  ASSUME prog' = prog
  PROVE  /\ \A q : Silent(q)' <=> Silent(q)
         /\ \A q : Observed(q)' = Observed(q)
         /\ \A q : Silently(q)' = Silently(q)
         /\ \A q, v : Evaluated(q, v)' = Evaluated(q, v)
         /\ \A q : Values(q)' = Values(q)
<1>1. /\ \A n : Node(n)' = Node(n) /\ Sub(n)' = Sub(n)
      /\ \A n, i : Kid(n, i)' = Kid(n, i)
      /\ \A n, K : Around(n, K)' = Around(n, K) /\ Innermost(n, K)' = Innermost(n, K)
      /\ \A n, K : Entries(n, K)' = Entries(n, K)
      BY SameSource
<1>2. \A q : Observed(q)' = Observed(q)
      BY DEF Observed, Node
<1>3. \A q : Silent(q)' <=> Silent(q)
      BY <1>2 DEF Silent
<1>4. \A n : Parent(n)' = Parent(n)
      BY DEF Parent, IsKid
<1>5. \A n : LastKid(n)' = LastKid(n)
      BY <1>1 DEF LastKid
<1>6. \A n, p : AfterKid(n, p)' = AfterKid(n, p)
      BY DEF AfterKid, Kid, Node
<1>7. \A n, m : SameFunction(n, m)' <=> SameFunction(n, m)
      BY DEF SameFunction
<1>8. \A n : LabelNode(n)' = LabelNode(n)
      BY <1>1, <1>7 DEF LabelNode
<1>9. \A m : NextInLoop(m)' = NextInLoop(m)
      BY <1>1 DEF NextInLoop
<1>10. \A n : Begun(n)' = Begun(n)
      BY <1>1, <1>8, <1>9 DEF Begun
<1>11. \A q : Silently(q)' = Silently(q)
      BY <1>4, <1>5, <1>6, <1>10 DEF Silently
<1>12. \A n, v : Selected(n, v)' = Selected(n, v)
  <2>1. \A S : Max(S)' = Max(S)
        BY DEF Max
  <2> QED  BY <1>1, <2>1 DEF Selected
<1>13. \A q, v : Evaluated(q, v)' = Evaluated(q, v)
      BY <1>1, <1>5, <1>12 DEF Evaluated
<1>14. \A q : Values(q)' = Values(q)
      BY <1>1, <1>2 DEF Values
<1> QED  BY <1>2, <1>3, <1>11, <1>13, <1>14

\* What the tasks stand for stays the same.
LEMMA SameStack ==
  ASSUME prog' = prog
  PROVE  /\ \A t : Ahead(t)' = Ahead(t) /\ NowOf(t)' = NowOf(t) /\ Then(t)' = Then(t)
         /\ \A s : Kindly(s)' <=> Kindly(s)
         /\ \A s : Flow(s)' <=> Flow(s)
         /\ \A s : Nest(s)' <=> Nest(s)
         /\ \A s, h : AheadOf(s, h)' = AheadOf(s, h)
<1>1. /\ \A n : Node(n)' = Node(n) /\ Sub(n)' = Sub(n)
      /\ \A n, i : Kid(n, i)' = Kid(n, i)
      /\ \A n, K : Around(n, K)' = Around(n, K)
      BY SameSource
<1>2. \A q : (Silent(q)' <=> Silent(q)) /\ Silently(q)' = Silently(q)
      BY SamePlaces
<1>3. \A t : Ahead(t)' = Ahead(t)
      BY <1>1 DEF Ahead
<1>4. \A t : NowOf(t)' = NowOf(t)
      BY DEF NowOf
<1>5. \A t : Then(t)' = Then(t)
      BY <1>2 DEF Then
<1>6. \A s : Kindly(s)' <=> Kindly(s)
      BY <1>1 DEF Kindly, OfKind
<1>7. \A p, q : Falls(p, q)' <=> Falls(p, q)
      BY <1>2 DEF Falls
<1>8. \A s : Flow(s)' <=> Flow(s)
      BY <1>4, <1>5, <1>7 DEF Flow
<1>9. \A s : Nest(s)' <=> Nest(s)
      BY <1>1 DEF Nest, Breaking
<1>10. \A s, h : AheadOf(s, h)' = AheadOf(s, h)
      BY <1>3 DEF AheadOf
<1> QED  BY <1>3, <1>4, <1>5, <1>6, <1>8, <1>9, <1>10

Placed == err = "none" => Kindly(todo) /\ Flow(todo) /\ Nest(todo)

\* An empty stack is in order.
LEMMA PlacedNothing == Kindly(<<>>) /\ Flow(<<>>) /\ Nest(<<>>)
BY DEF Kindly, Flow, Nest

\* The stack of a function that begins is in order.
LEMMA PlacedBegin ==
  ASSUME IInv, BeginFunction
  PROVE  Kindly(todo') /\ Flow(todo') /\ Nest(todo')
<1> DEFINE x == Stmt(prog.fns[next].body)
           e == Task("endFunction", next, <<>>, FALSE)
<1>1. /\ prog \in Programs /\ next \in 1..Len(prog.fns) /\ todo' = <<x, e>>
      BY DEF BeginFunction, IInv, ResultTypes
<1>2. prog.fns[next].body \in DOMAIN prog.node /\ Around(prog.fns[next].body, Breakable) = {}
      BY <1>1, BodyInside DEF Inside
<1>3. /\ x \in Tasks /\ x.op = "stmt" /\ x.node = prog.fns[next].body
      /\ Then(x) = Pos(0, "end")
  <2>1. prog.fns[next].body \in DOMAIN prog.node /\ next \in DOMAIN prog.fns
        BY <1>1, <1>2, Program
  <2> QED  BY <1>1, <2>1, StmtFacts, ThenOf, AfterStatement
<1>4. e \in Tasks /\ e.op = "endFunction" /\ NowOf(e) = Pos(0, "end")
  <2>1. e.op = "endFunction"
        BY DEF Task
  <2>2. next \in Nat /\ <<>> \in Seq(Block)
        BY <1>1
  <2>3. e \in Tasks
        BY <2>2 DEF Task, Tasks, TaskOps
  <2> QED  BY <2>1, <2>3 DEF NowOf
<1>5. OfKind(x) /\ OfKind(e) /\ ~IsOpen(x) /\ ~IsOpen(e) /\ ~Breaking(e)
      BY <1>3, <1>4 DEF OfKind, IsOpen, LoopTasks, Breaking
<1> HIDE DEF x, e
<1>6. /\ <<x, e>> \in Seq(Tasks) /\ Len(<<x, e>>) = 2 /\ <<x, e>>[1] = x /\ <<x, e>>[2] = e
      /\ <<>> \in Seq(Tasks) /\ Len(<<>>) = 0 /\ <<x, e>> \o <<>> = <<x, e>>
  <2>1. <<x, e>> \in Seq(Tasks)
        BY <1>3, <1>4
  <2> DEFINE s == <<x, e>>
  <2>2. s \in Seq(Tasks)
        BY <2>1
  <2> HIDE DEF s
  <2>3. s \o <<>> = s
        BY <2>2
  <2> QED  BY <1>3, <1>4, <2>1, <2>3 DEF s
<1>7. \A i \in 1..2 : (i = 1 \/ i = 2) /\ (i + 1 <= 2 => i = 1)
      OBVIOUS
<1>8. Kindly(<<x, e>>)
      BY <1>5, <1>6, <1>7 DEF Kindly
<1>9. Flow(<<x, e>>)
  <2>1. Falls(Pos(0, "end"), Pos(0, "end"))
        BY Falling, Zenon
  <2> QED  BY <1>3, <1>4, <1>6, <1>7, <2>1 DEF Flow
<1>10. Nest(<<x, e>>)
  <2>1. OpenNodes(<<>>, Len(<<>>)) = {}
        BY <1>6 DEF OpenNodes
  <2>2. \A i \in 1..Len(<<x, e>>) :
          /\ ~IsOpen(<<x, e>>[i])
          /\ Breaking(<<x, e>>[i]) =>
               Around(<<x, e>>[i].node, Breakable) = OpenNodes(<<>>, Len(<<>>))
        BY <1>2, <1>3, <1>5, <1>6, <1>7, <2>1
  <2>3. Nest(<<x, e>> \o <<>>)
        BY <1>6, <2>2, PlacedNothing, NestGlue
  <2> QED  BY <1>6, <2>3
<1> QED  BY <1>1, <1>8, <1>9, <1>10

\* A stack stays in order when its top is replaced by what it leaves.
LEMMA PlacedShape ==
  ASSUME IInv, Running, Kindly(todo), Flow(todo), Nest(todo), NEW ts, Shape(Top, ts)
  PROVE  /\ ts \in Seq(Tasks) /\ Tail(todo) \in Seq(Tasks) /\ todo = <<Top>> \o Tail(todo)
         /\ Kindly(Tail(todo)) /\ Flow(Tail(todo)) /\ Nest(Tail(todo))
         /\ Kindly(ts) /\ Flow(ts) /\ OfKind(Top)
         /\ Tail(todo) # <<>> => Falls(Then(Top), NowOf(Tail(todo)[1]))
         /\ Kindly(ts \o Tail(todo)) /\ Flow(ts \o Tail(todo)) /\ Nest(ts \o Tail(todo))
<1>1. /\ prog \in Programs /\ Top \in Tasks /\ TaskOK(Top, prog) /\ Tail(todo) \in Seq(Tasks)
      /\ todo \in Seq(Tasks) /\ todo # <<>>
      BY TopFacts DEF Frames, IInv, StackOK, Running
<1>2. todo = <<Top>> \o Tail(todo) /\ todo[1] = Top
      BY <1>1, HeadTailConcat, TailOf DEF Top
<1>3. <<Top>> \in Seq(Tasks) /\ Len(<<Top>>) = 1 /\ <<Top>>[1] = Top
      BY <1>1, Single
<1>4. /\ Len(todo) \in Nat \ {0} /\ Len(Tail(todo)) = Len(todo) - 1
      /\ \A i \in 1..Len(Tail(todo)) : Tail(todo)[i] = todo[i + 1] /\ i + 1 \in 1..Len(todo)
      /\ 1 \in 1..Len(todo)
      BY <1>1, TailOf
<1>5. OfKind(Top) /\ Kindly(Tail(todo))
      BY <1>2, <1>4 DEF Kindly
<1>6. /\ ts \in Seq(Tasks) /\ Kindly(ts) /\ Flow(ts)
      /\ ts # <<>> => Falls(Then(ts[Len(ts)]), Then(Top))
      BY <1>1, <1>5, FlowShape
<1>7. /\ Flow(Tail(todo))
      /\ Tail(todo) # <<>> => Falls(Then(Top), NowOf(Tail(todo)[1]))
  <2>1. <<Top>> # <<>> /\ Flow(<<Top>> \o Tail(todo))
        BY <1>2
  <2> QED  BY <1>1, <1>3, <2>1, FlowGlue
<1>8. Nest(<<Top>> \o Tail(todo)) /\ Nest(Tail(todo))
  <2>1. Nest(<<Top>> \o Tail(todo))
        BY <1>2
  <2> QED  BY <1>1, <2>1, NestGlue
<1>9. Nest(ts \o Tail(todo))
      BY <1>1, <1>5, <1>8, NestShape
<1>10. Flow(ts \o Tail(todo))
  <2>1. ts # <<>> /\ Tail(todo) # <<>> => Falls(Then(ts[Len(ts)]), NowOf(Tail(todo)[1]))
        BY <1>6, <1>7, Falling, Zenon
  <2> QED  BY <1>1, <1>6, <1>7, <2>1, FlowGlue
<1>11. Kindly(ts \o Tail(todo))
  <2>1. SUFFICES ASSUME NEW i \in 1..Len(ts \o Tail(todo)) PROVE OfKind((ts \o Tail(todo))[i])
        BY DEF Kindly
  <2>2. /\ \A j \in 1..Len(ts) : (ts \o Tail(todo))[j] = ts[j]
        /\ \A j \in 1..Len(Tail(todo)) : (ts \o Tail(todo))[j + Len(ts)] = Tail(todo)[j]
        /\ i \in 1..Len(ts) \/ i - Len(ts) \in 1..Len(Tail(todo))
        /\ Len(ts) \in Nat
        BY <1>1, <1>6, OnTopOf
  <2>3. i = (i - Len(ts)) + Len(ts)
        BY <2>1, <2>2
  <2> QED  BY <1>5, <1>6, <2>2, <2>3 DEF Kindly
<1> QED  BY <1>1, <1>2, <1>5, <1>6, <1>7, <1>8, <1>9, <1>10, <1>11

\* Every step keeps the stack in order.
LEMMA StepPlaced ==
  ASSUME IInv, IInv', Placed, [Next]_vars
  PROVE  Placed'
<1>1. prog' = prog
      BY StepKinds DEF Next, Step, Done, vars, BeginFunction, EndFunction, Unreachable, Compound,
         Expression, DeclareStack, Return, If, EndIf, Else, EndElse, For, While, EndWhile, Do, EndDo,
         Switch, EndSwitch, Case, Default, Label, Goto, LoopExit, Fail, Frame
<1>2. /\ Kindly(todo)' <=> Kindly(todo')
      /\ Flow(todo)' <=> Flow(todo')
      /\ Nest(todo)' <=> Nest(todo')
      BY <1>1, SameStack
<1>3. SUFFICES ASSUME err' = "none" PROVE Kindly(todo') /\ Flow(todo') /\ Nest(todo')
      BY <1>2 DEF Placed
<1>4. CASE BeginFunction
      BY <1>4, PlacedBegin
<1>5. CASE EndFunction
  <2>1. Running /\ Top.op = "endFunction" /\ Pop
        BY <1>3, <1>5 DEF EndFunction, At, Fail
  <2>2. todo' = <<>>
        BY <2>1, TopFacts DEF Pop
  <2> QED  BY <2>2, PlacedNothing
<1>6. CASE Unreachable
      BY <1>3, <1>6 DEF Unreachable, Fail
<1>7. CASE Stepping
  <2>1. /\ Running
        /\ \E ts : Shape(Top, ts) /\ todo' = ts \o Tail(todo)
        BY <1>3, <1>7, StepShape
  <2>2. PICK ts : Shape(Top, ts) /\ todo' = ts \o Tail(todo)
        BY <2>1
  <2>3. Kindly(todo) /\ Flow(todo) /\ Nest(todo)
        BY <2>1 DEF Running, Placed
  <2>4. Kindly(ts \o Tail(todo)) /\ Flow(ts \o Tail(todo)) /\ Nest(ts \o Tail(todo))
        BY <2>1, <2>2, <2>3, PlacedShape
  <2> QED  BY <2>2, <2>4
<1>8. CASE UNCHANGED vars
      BY <1>3, <1>8 DEF vars, Placed
<1> QED  BY <1>4, <1>5, <1>6, <1>7, <1>8, StepKinds

\* The stack is in order at the start.
LEMMA InitPlaced == Init => Placed
BY PlacedNothing DEF Init, Placed

-----------------------------------------------------------------------------
(* Places of the code, and what is known of them.  A pair <<L, q>> of K     *)
(* says that code about to run at the place L does what the source does     *)
(* from the position q.  A pair is borne out by the code at L, which leads  *)
(* to other pairs of K; the pairs of P are still owed: their place has no   *)
(* code yet.                                                                *)

Start(k)  == <<k, 1>>
Point(bl) == <<bl.cur, Len(bl.code[bl.cur]) + 1>>

Has(code, L, ins) ==
  /\ L[1] \in 1..Len(code) /\ L[2] \in 1..Len(code[L[1]])
  /\ code[L[1]][L[2]] = ins

Hop(code, L, M)   == \E ins : Has(code, L, ins) /\ ins.op = "jump" /\ M = Start(ins.to[1])

\* jumps, and nothing else, lead from L to M (or on for ever)
Leads(code, L, M) == \E S : L \in S /\ \A z \in S : z = M \/ \E w \in S : Hop(code, z, w)

\* where the instruction ins at L goes when the value is v
Goal(ins, L, v) ==
  IF ins.op = "br" THEN Start(ins.to[IF v # 0 THEN 1 ELSE 2])
  ELSE IF ins.op = "table"
  THEN Start(IF v \in Vals /\ ins.cases[v] # 0 THEN ins.cases[v] ELSE ins.to[1])
  ELSE <<L[1], L[2] + 1>>

On(K, L, p) == \E q : Falls(p, q) /\ <<L, q>> \in K

Runs(code, K, L, q) ==
  \E ins :
    /\ Has(code, L, ins) /\ ins.op # "jump"
    /\ Observed(q) = [op |-> ins.op, node |-> ins.node]
    /\ ins.op # "ret" => \A v \in Values(q) : On(K, Goal(ins, L, v), Evaluated(q, v))

Justified(code, K, L, q) ==
  \/ Silent(q) /\ \E M : Leads(code, L, M) /\ On(K, M, Silently(q))
  \/ ~Silent(q) /\ Runs(code, K, L, q)
  \/ ~Silent(q) /\ \E M : Hop(code, L, M) /\ <<M, q>> \in K

Follows(code, K, P) ==
  /\ P \subseteq K
  /\ \A L, q : <<L, q>> \in K => <<L, q>> \in P \/ Justified(code, K, L, q)

Extends(c, d) ==
  \A k \in 1..Len(c) :
    /\ k \in 1..Len(d)
    /\ \A i \in 1..Len(c[k]) : i \in 1..Len(d[k]) /\ d[k][i] = c[k][i]

\* Code only grows: what was there stays where it was.
LEMMA Extending ==
  /\ \A c : Extends(c, c)
  /\ \A c, d, e : Extends(c, d) /\ Extends(d, e) => Extends(c, e)
  /\ \A c, d, L, ins : Extends(c, d) /\ Has(c, L, ins) => Has(d, L, ins)
<1>1. \A c : Extends(c, c)
      BY DEF Extends
<1>2. \A c, d, e : Extends(c, d) /\ Extends(d, e) => Extends(c, e)
      BY DEF Extends
<1>3. \A c, d, L, ins : Extends(c, d) /\ Has(c, L, ins) => Has(d, L, ins)
      BY DEF Extends, Has
<1> QED  BY <1>1, <1>2, <1>3

\* Jumps lead from a place to itself, on through another jump, and as far in
\* longer code.
LEMMA Leading ==
  /\ \A c, L : Leads(c, L, L)
  /\ \A c, L, M, N : Hop(c, L, M) /\ Leads(c, M, N) => Leads(c, L, N)
  /\ \A c, d, L, M : Extends(c, d) /\ Hop(c, L, M) => Hop(d, L, M)
  /\ \A c, d, L, M : Extends(c, d) /\ Leads(c, L, M) => Leads(d, L, M)
<1>1. \A c, L : Leads(c, L, L)
  <2>1. TAKE c, L
  <2> DEFINE S == {L}
  <2>2. L \in S /\ \A z \in S : z = L \/ \E w \in S : Hop(c, z, w)
        OBVIOUS
  <2> HIDE DEF S
  <2> QED  BY <2>2, Zenon DEF Leads
<1>2. \A c, L, M, N : Hop(c, L, M) /\ Leads(c, M, N) => Leads(c, L, N)
  <2>1. SUFFICES ASSUME NEW c, NEW L, NEW M, NEW N, Hop(c, L, M), Leads(c, M, N)
                 PROVE  Leads(c, L, N)
        OBVIOUS
  <2>2. PICK S : M \in S /\ \A z \in S : z = N \/ \E w \in S : Hop(c, z, w)
        BY <2>1 DEF Leads
  <2>3. /\ L \in S \cup {L}
        /\ \A z \in S \cup {L} : z = N \/ \E w \in S \cup {L} : Hop(c, z, w)
        BY <2>1, <2>2
  <2> QED  BY <2>3, Zenon DEF Leads
<1>3. \A c, d, L, M : Extends(c, d) /\ Hop(c, L, M) => Hop(d, L, M)
      BY Extending DEF Hop
<1>4. \A c, d, L, M : Extends(c, d) /\ Leads(c, L, M) => Leads(d, L, M)
      BY <1>3, Zenon DEF Leads
<1> QED  BY <1>1, <1>2, <1>3, <1>4

\* More pairs and more code bear out no less.
LEMMA StillJustified ==
  ASSUME NEW c, NEW d, Extends(c, d), NEW K, NEW H, K \subseteq H, NEW L, NEW q,
         Justified(c, K, L, q)
  PROVE  Justified(d, H, L, q)
<1>1. \A M, p : On(K, M, p) => On(H, M, p)
      BY DEF On
<1>2. CASE Silent(q) /\ \E M : Leads(c, L, M) /\ On(K, M, Silently(q))
      BY <1>1, <1>2, Leading, Zenon DEF Justified
<1>3. CASE ~Silent(q) /\ Runs(c, K, L, q)
  <2>1. PICK ins : /\ Has(c, L, ins) /\ ins.op # "jump"
                   /\ Observed(q) = [op |-> ins.op, node |-> ins.node]
                   /\ ins.op # "ret" =>
                        \A v \in Values(q) : On(K, Goal(ins, L, v), Evaluated(q, v))
        BY <1>3 DEF Runs
  <2>2. Has(d, L, ins)
        BY <2>1, Extending
  <2>3. Runs(d, H, L, q)
        BY <1>1, <2>1, <2>2, Zenon DEF Runs
  <2> QED  BY <1>3, <2>3 DEF Justified
<1>4. CASE ~Silent(q) /\ \E M : Hop(c, L, M) /\ <<M, q>> \in K
      BY <1>4, Leading DEF Justified
<1> QED  BY <1>2, <1>3, <1>4 DEF Justified

\* The pairs known before a step and those it adds are borne out when each one
\* that was owed, and each new one, is borne out or leads on to what is owed now.
LEMMA Advance ==
  ASSUME NEW c, NEW d, Extends(c, d), NEW K, NEW P, Follows(c, K, P), NEW N, NEW Q,
         \A L, q : <<L, q>> \in P \cup N =>
           On(Q, L, q) \/ Justified(d, (K \cup N) \cup Q, L, q)
  PROVE  Follows(d, (K \cup N) \cup Q, Q)
<1> DEFINE H == (K \cup N) \cup Q
<1>1. \A L, q : On(Q, L, q) => <<L, q>> \in Q \/ Justified(d, H, L, q)
  <2>1. SUFFICES ASSUME NEW L, NEW q, On(Q, L, q), <<L, q>> \notin Q
                 PROVE  Justified(d, H, L, q)
        OBVIOUS
  <2>2. PICK r : Falls(q, r) /\ <<L, r>> \in Q
        BY <2>1 DEF On
  <2>3. q # r
        BY <2>1, <2>2
  <2>4. PICK X : q \in X /\ \A z \in X : z = r \/ (Silent(z) /\ Silently(z) \in X)
        BY <2>2 DEF Falls
  <2>5. Silent(q) /\ Silently(q) \in X
        BY <2>3, <2>4
  <2>6. Falls(Silently(q), r)
        BY <2>4, <2>5 DEF Falls
  <2>7. On(H, L, Silently(q))
        BY <2>2, <2>6, Zenon DEF On
  <2> QED  BY <2>5, <2>7, Leading, Zenon DEF Justified
<1>2. K \subseteq H /\ Q \subseteq H
      OBVIOUS
<1>3. ASSUME NEW L, NEW q, <<L, q>> \in H
      PROVE  <<L, q>> \in Q \/ Justified(d, H, L, q)
  <2> HIDE DEF H
  <2>1. CASE <<L, q>> \in P \cup N
        BY <1>1, <2>1 DEF H
  <2>2. CASE <<L, q>> \notin P \cup N /\ <<L, q>> \in K
    <3>1. Justified(c, K, L, q)
          BY <2>2 DEF Follows
    <3> QED  BY <1>2, <3>1, StillJustified
  <2> QED  BY <1>3, <2>1, <2>2 DEF H
<1> QED  BY <1>2, <1>3 DEF Follows

\* What an instruction put at the end of the current block does to the code.
LEMMA InsPlace ==
  ASSUME NEW bl, Good(bl, Instrs), ~bl.filled, NEW ins \in Instrs
  PROVE  /\ Extends(bl.code, Ins(bl, ins).code) /\ Has(Ins(bl, ins).code, Point(bl), ins)
         /\ Point(Ins(bl, ins)) = <<Point(bl)[1], Point(bl)[2] + 1>>
<1> DEFINE k == bl.cur
           c == bl.code
           d == [c EXCEPT ![k] = Append(@, ins)]
<1>1. bl \in Builder(Instrs) /\ k \in 1..Len(c) /\ c \in Seq(Seq(Instrs))
      BY DEF Good, Loose, Builder
<1>2. c[k] \in Seq(Instrs) /\ Len(c[k]) \in Nat
      BY <1>1
<1>3. Ins(bl, ins) = [code |-> d, cur |-> k, filled |-> bl.filled]
  <2>1. Ins(bl, ins) = [bl EXCEPT !.code = d]
        BY DEF Ins
  <2> HIDE DEF d
  <2> QED  BY <1>1, <2>1, ReplacedIn
<1>4. /\ DOMAIN d = 1..Len(c) /\ Len(d) = Len(c) /\ d[k] = Append(c[k], ins)
      /\ \A j \in 1..Len(c) : j # k => d[j] = c[j]
      BY <1>1
<1>5. /\ Len(Append(c[k], ins)) = Len(c[k]) + 1
      /\ Append(c[k], ins)[Len(c[k]) + 1] = ins
      /\ \A i \in 1..Len(c[k]) : Append(c[k], ins)[i] = c[k][i]
      BY <1>2
<1>6. Extends(c, d)
  <2>1. SUFFICES ASSUME NEW j \in 1..Len(c)
                 PROVE  /\ j \in 1..Len(d)
                        /\ \A i \in 1..Len(c[j]) : i \in 1..Len(d[j]) /\ d[j][i] = c[j][i]
        BY DEF Extends
  <2>2. CASE j = k
        BY <1>1, <1>2, <1>4, <1>5, <2>2
  <2>3. CASE j # k
        BY <1>4, <2>3
  <2> QED  BY <2>2, <2>3
<1>7. Has(d, <<k, Len(c[k]) + 1>>, ins)
  <2>1. /\ k \in 1..Len(d) /\ Len(c[k]) + 1 \in 1..Len(d[k]) /\ d[k][Len(c[k]) + 1] = ins
        BY <1>1, <1>2, <1>4, <1>5
  <2> QED  BY <2>1 DEF Has
<1> HIDE DEF d
<1>8. Point(Ins(bl, ins)) = <<k, Len(c[k]) + 2>> /\ Point(bl) = <<k, Len(c[k]) + 1>>
  <2>1. Ins(bl, ins).code = d /\ Ins(bl, ins).cur = k
        BY <1>3
  <2>2. Len(d[k]) + 1 = Len(c[k]) + 2
        BY <1>1, <1>2, <1>4, <1>5
  <2> QED  BY <2>1, <2>2 DEF Point, k, c
<1> QED  BY <1>2, <1>3, <1>6, <1>7, <1>8

\* New blocks leave the code and the current place as they are.
LEMMA CreatePlace ==
  ASSUME NEW bl, Good(bl, Instrs), NEW n \in Nat
  PROVE  /\ Extends(bl.code, CreateBlocks(bl, n).code)
         /\ Point(CreateBlocks(bl, n)) = Point(bl)
<1> DEFINE c == bl.code
           e == [i \in 1..n |-> <<>>]
           d == c \o e
<1>1. bl \in Builder(Instrs) /\ bl.cur \in 1..Len(c) /\ c \in Seq(Seq(Instrs))
      BY DEF Good, Loose, Builder
<1>2. CreateBlocks(bl, n) = [code |-> d, cur |-> bl.cur, filled |-> bl.filled]
  <2>1. CreateBlocks(bl, n) = [bl EXCEPT !.code = d]
        BY DEF CreateBlocks
  <2> HIDE DEF d
  <2> QED  BY <1>1, <2>1, ReplacedIn
<1>3. <<>> \in Seq(Instrs) /\ e \in Seq(Seq(Instrs))
      OBVIOUS
<1>4. Len(d) = Len(c) + Len(e) /\ Len(e) \in Nat /\ \A j \in 1..Len(c) : d[j] = c[j]
      BY <1>1, <1>3, OnTopOf
<1>5. Len(c) \in Nat
      BY <1>1
<1> HIDE DEF d, e
<1>6. Extends(c, d)
      BY <1>4, <1>5 DEF Extends
<1>7. CreateBlocks(bl, n).code = d /\ CreateBlocks(bl, n).cur = bl.cur
      BY <1>2
<1>8. d[bl.cur] = c[bl.cur]
      BY <1>1, <1>4
<1> QED  BY <1>6, <1>7, <1>8 DEF Point

\* Opening an untouched block moves the current place to its first instruction.
LEMMA SwitchPlace ==
  ASSUME NEW bl, Loose(bl, Instrs), NEW k \in Free(bl)
  PROVE  /\ SwitchToBlock(bl, k).code = bl.code /\ Point(SwitchToBlock(bl, k)) = Start(k)
<1>1. bl \in Builder(Instrs) /\ k \in 1..Len(bl.code) /\ bl.code[k] = <<>>
      BY DEF Loose, Free, Untouched
<1>2. SwitchToBlock(bl, k).code = bl.code /\ SwitchToBlock(bl, k).cur = k
      BY <1>1 DEF SwitchToBlock, Builder
<1> QED  BY <1>1, <1>2 DEF Point, Start

\* A jump at the end of the current block, which then is filled.
LEMMA JumpPlace ==
  ASSUME NEW bl, Good(bl, Instrs), NEW t \in Block
  PROVE  /\ Extends(bl.code, JumpToBlock(bl, t).code)
         /\ ~bl.filled => Hop(JumpToBlock(bl, t).code, Point(bl), Start(t))
         /\ JumpToBlock(bl, t).filled
<1>1. CASE bl.filled
      BY <1>1, Extending DEF JumpToBlock
<1>2. CASE ~bl.filled
  <2>1. Jump(t) \in Instrs
        BY InstrFacts, 0 \in Nat DEF Jump
  <2>2. /\ Extends(bl.code, Ins(bl, Jump(t)).code)
        /\ Has(Ins(bl, Jump(t)).code, Point(bl), Jump(t))
        BY <1>2, <2>1, InsPlace
  <2>3. Ins(bl, Jump(t)) \in Builder(Instrs)
        BY <1>2, <2>1, InsLemma DEF Loose
  <2>4. /\ JumpToBlock(bl, t).code = Ins(bl, Jump(t)).code
        /\ JumpToBlock(bl, t).filled
        BY <1>2, <2>3, ReplacedIn DEF JumpToBlock
  <2>5. Jump(t).op = "jump" /\ Jump(t).to[1] = t
        BY DEF Jump, Instr
  <2>6. Hop(JumpToBlock(bl, t).code, Point(bl), Start(t))
        BY <2>2, <2>4, <2>5 DEF Hop
  <2> QED  BY <2>2, <2>4, <2>6
<1> QED  BY <1>1, <1>2 DEF Good, Loose, Builder

\* An instruction that ends the current block, and another block opened.
LEMMA InsOpens ==
  ASSUME NEW bl, Good(bl, Instrs), ~bl.filled, NEW ins \in Instrs, Terminates(ins),
         NEW k \in Free(bl)
  PROVE  /\ Extends(bl.code, SwitchToBlock(Ins(bl, ins), k).code)
         /\ Has(SwitchToBlock(Ins(bl, ins), k).code, Point(bl), ins)
         /\ Point(SwitchToBlock(Ins(bl, ins), k)) = Start(k)
<1>1. Loose(Ins(bl, ins), Instrs) /\ k \in Free(Ins(bl, ins))
      BY FreeIns
<1> QED  BY <1>1, InsPlace, SwitchPlace

\* A jump, unless the current block has its terminator, and another block opened.
LEMMA JumpOpens ==
  ASSUME NEW bl, Good(bl, Instrs), NEW t \in Block, NEW k \in Free(bl)
  PROVE  /\ Extends(bl.code, SwitchToBlock(JumpToBlock(bl, t), k).code)
         /\ ~bl.filled => Hop(SwitchToBlock(JumpToBlock(bl, t), k).code, Point(bl), Start(t))
         /\ Point(SwitchToBlock(JumpToBlock(bl, t), k)) = Start(k)
<1>1. Loose(JumpToBlock(bl, t), Instrs) /\ k \in Free(JumpToBlock(bl, t))
      BY FreeJump DEF Good
<1> QED  BY <1>1, JumpPlace, SwitchPlace

-----------------------------------------------------------------------------
(* What is known of the function being compiled, the code of the builder bl *)
(* under the call stack s.  What is owed: the code at the current place, at *)
(* the blocks the tasks of the stack will open and at the ends of the       *)
(* switches.                                                                *)

Current(bl, s) == IF bl.filled \/ s = <<>> THEN {} ELSE {<<Point(bl), NowOf(Head(s))>>}

Promise(t) ==
  IF t.op = "endIf" \/ (t.op = "endElse" /\ ~t.flag) THEN {<<Start(t.blk[1]), Then(t)>>}
  ELSE IF t.op = "else"     THEN {<<Start(t.blk[1]), Enter(Kid(t.node, 2))>>}
  ELSE IF t.op = "endWhile" THEN {<<Start(t.blk[2]), Then(t)>>}
  ELSE IF t.op = "endDo"
  THEN {<<Start(t.blk[2]), Pos(t.node, "cond")>>, <<Start(t.blk[3]), Then(t)>>}
  ELSE IF t.op = "endSwitch" THEN {<<Start(t.blk[1]), Pos(t.node, "table")>>} ELSE {}

Promises(s) == UNION {Promise(s[i]) : i \in 1..Len(s)}

SwitchAt(s, sw, h) == sw[Cardinality(UpTo(SwitchesOf(s), h))]
EndsOwed(s, sw)    == {<<Start(SwitchAt(s, sw, h).end), Then(Caller(s, h))>> : h \in SwitchesOf(s)}

Owed(bl, s, sw) == (Current(bl, s) \cup Promises(s)) \cup EndsOwed(s, sw)

\* where the loops that are being compiled come back to
Kept(t, code, K) ==
  /\ t.op = "endWhile" =>
       /\ <<Start(t.blk[1]), Pos(t.node, "cond")>> \in K
       /\ Justified(code, K, Start(t.blk[1]), Pos(t.node, "cond"))
  /\ t.op = "endDo" => <<Start(t.blk[1]), Enter(Kid(t.node, 1))>> \in K

AllKept(s, code, K) == \A i \in 1..Len(s) : Kept(s[i], code, K)

\* the entries of a switch n are still ahead or are in its record e
SwitchKnown(n, e, A, K) ==
  /\ \A c \in Entries(n, "case") :
       \/ c \in A
       \/ e.cases[Node(c).val] # 0 /\ <<Start(e.cases[Node(c).val]), Enter(c)>> \in K
  /\ \A c \in Entries(n, "default") :
       c \in A \/ (e.default # 0 /\ <<Start(e.default), Enter(c)>> \in K)
  /\ \A v \in Vals : e.cases[v] # 0 => \E c \in Entries(n, "case") : Node(c).val = v
  /\ e.default # 0 => Entries(n, "default") # {}

SwitchesKnown(s, sw, K) ==
  \A h \in SwitchesOf(s) :
    SwitchKnown(Caller(s, h).node, SwitchAt(s, sw, h), AheadOf(s, h), K)

\* a bound label is one of this function and its block is known, or one of an
\* earlier function
LabelsKnown(lb, nx, K) ==
  \A v \in Vals : lb[v] # 0 =>
    \E m \in DOMAIN prog.node :
      /\ Node(m).kind = "label" /\ Node(m).val = v
      /\ \/ InBody(nx, m) /\ <<Start(lb[v]), Enter(m)>> \in K
         \/ \E f \in DOMAIN prog.fns : f < nx /\ InBody(f, m)

Sim(bl, s, sw, lb, nx, K) ==
  /\ Follows(bl.code, K, Owed(bl, s, sw))
  /\ AllKept(s, bl.code, K)
  /\ SwitchesKnown(s, sw, K)
  /\ LabelsKnown(lb, nx, K)
  /\ <<Start(1), Enter(prog.fns[nx].body)>> \in K

\* Falling to a known pair, and a jump to one.
LEMMA Justifying ==
  /\ \A K, L, p, q : Falls(p, q) /\ <<L, q>> \in K => On(K, L, p)
  /\ \A K, L, p : <<L, p>> \in K => On(K, L, p)
  /\ \A K, L, p : Silent(p) /\ On(K, L, Silently(p)) => On(K, L, p)
  /\ \A K, H, L, p : K \subseteq H /\ On(K, L, p) => On(H, L, p)
  /\ \A c, K, L, M, q : Hop(c, L, M) /\ <<M, q>> \in K /\ Justified(c, K, M, q)
                        => Justified(c, K, L, q)
<1>1. \A K, L, p, q : Falls(p, q) /\ <<L, q>> \in K => On(K, L, p)
      BY DEF On
<1>2. \A K, L, p : <<L, p>> \in K => On(K, L, p)
      BY Falling DEF On
<1>3. \A K, L, p : Silent(p) /\ On(K, L, Silently(p)) => On(K, L, p)
      BY Falling, Zenon DEF On
<1>4. \A K, H, L, p : K \subseteq H /\ On(K, L, p) => On(H, L, p)
      BY DEF On
<1>5. \A c, K, L, M, q : Hop(c, L, M) /\ <<M, q>> \in K /\ Justified(c, K, M, q)
                         => Justified(c, K, L, q)
  <2>1. SUFFICES ASSUME NEW c, NEW K, NEW L, NEW M, NEW q,
                        Hop(c, L, M), <<M, q>> \in K, Justified(c, K, M, q)
                 PROVE  Justified(c, K, L, q)
        OBVIOUS
  <2>2. CASE Silent(q)
    <3>1. PICK Z : Leads(c, M, Z) /\ On(K, Z, Silently(q))
          BY <2>1, <2>2 DEF Justified
    <3>2. Leads(c, L, Z)
          BY <2>1, <3>1, Leading
    <3> QED  BY <2>2, <3>1, <3>2 DEF Justified
  <2>3. CASE ~Silent(q)
        BY <2>1, <2>3 DEF Justified
  <2> QED  BY <2>2, <2>3
<1> QED  BY <1>1, <1>2, <1>3, <1>4, <1>5

\* An open switch is the same under more tasks.
LEMMA SwitchParts ==
  ASSUME NEW ts \in Seq(Tasks), NEW s \in Seq(Tasks), \A i \in 1..Len(ts) : ts[i].op # "endSwitch",
         NEW h \in SwitchesOf(s), NEW sw
  PROVE  /\ h \in SwitchesOf(ts \o s) /\ Caller(ts \o s, h) = Caller(s, h)
         /\ SwitchAt(ts \o s, sw, h) = SwitchAt(s, sw, h)
<1>1. SwitchesOf(ts \o s) = SwitchesOf(s)
      BY OpenUnder DEF SwitchesOf
<1>2. h \in 1..Len(s)
      BY DEF SwitchesOf, OpenAt
<1> QED  BY <1>1, <1>2, Heights DEF SwitchAt

\* The same under one task.
LEMMA SwitchUnder ==
  ASSUME NEW t \in Tasks, t.op # "endSwitch", NEW s \in Seq(Tasks), NEW h \in SwitchesOf(s), NEW sw
  PROVE  /\ h \in SwitchesOf(<<t>> \o s) /\ Caller(<<t>> \o s, h) = Caller(s, h)
         /\ SwitchAt(<<t>> \o s, sw, h) = SwitchAt(s, sw, h)
<1> DEFINE u == <<t>>
<1>1. u \in Seq(Tasks) /\ \A i \in 1..Len(u) : u[i].op # "endSwitch"
      BY Single
<1> HIDE DEF u
<1>2. /\ h \in SwitchesOf(u \o s) /\ Caller(u \o s, h) = Caller(s, h)
      /\ SwitchAt(u \o s, sw, h) = SwitchAt(s, sw, h)
      BY <1>1, SwitchParts
<1> QED  BY <1>2 DEF u

\* What is owed on a stack is owed for its parts.
LEMMA OwedParts ==
  ASSUME NEW ts \in Seq(Tasks), NEW s \in Seq(Tasks), \A i \in 1..Len(ts) : ts[i].op # "endSwitch",
         NEW sw
  PROVE  /\ Promises(ts \o s) = Promises(ts) \cup Promises(s)
         /\ EndsOwed(ts \o s, sw) = EndsOwed(s, sw)
         /\ SwitchesOf(ts \o s) = SwitchesOf(s)
<1>1. Promises(ts \o s) = Promises(ts) \cup Promises(s)
  <2> DEFINE u == ts \o s
  <2>1. /\ Len(ts) \in Nat /\ Len(s) \in Nat /\ Len(u) = Len(ts) + Len(s)
        /\ \A i \in 1..Len(ts) : u[i] = ts[i]
        /\ \A i \in 1..Len(s) : u[i + Len(ts)] = s[i]
        /\ \A i \in 1..Len(u) : i \in 1..Len(ts) \/ i - Len(ts) \in 1..Len(s)
        BY OnTopOf
  <2> HIDE DEF u
  <2>2. \A i \in 1..Len(u) : \/ \E j \in 1..Len(ts) : u[i] = ts[j]
                             \/ \E j \in 1..Len(s) : u[i] = s[j]
    <3>1. SUFFICES ASSUME NEW i \in 1..Len(u), i \notin 1..Len(ts)
                   PROVE  \E j \in 1..Len(s) : u[i] = s[j]
          BY <2>1
    <3>2. i - Len(ts) \in 1..Len(s) /\ (i - Len(ts)) + Len(ts) = i
          BY <2>1, <3>1
    <3>3. u[i] = s[i - Len(ts)]
          BY <2>1, <3>2
    <3> QED  BY <3>2, <3>3
  <2>3. /\ \A j \in 1..Len(ts) : j \in 1..Len(u) /\ u[j] = ts[j]
        /\ \A j \in 1..Len(s) : j + Len(ts) \in 1..Len(u) /\ u[j + Len(ts)] = s[j]
        BY <2>1
  <2>4. Promises(u) \subseteq Promises(ts) \cup Promises(s)
    <3>1. SUFFICES ASSUME NEW x \in Promises(u) PROVE x \in Promises(ts) \cup Promises(s)
          OBVIOUS
    <3>2. PICK i \in 1..Len(u) : x \in Promise(u[i])
          BY <3>1 DEF Promises
    <3> QED  BY <2>2, <3>2, Zenon DEF Promises
  <2>5. Promises(ts) \cup Promises(s) \subseteq Promises(u)
    <3>1. SUFFICES ASSUME NEW x \in Promises(ts) \cup Promises(s) PROVE x \in Promises(u)
          OBVIOUS
    <3>2. CASE x \in Promises(ts)
      <4>1. PICK j \in 1..Len(ts) : x \in Promise(ts[j])
            BY <3>2 DEF Promises
      <4> QED  BY <2>3, <4>1 DEF Promises
    <3>3. CASE x \in Promises(s)
      <4>1. PICK j \in 1..Len(s) : x \in Promise(s[j])
            BY <3>3 DEF Promises
      <4> QED  BY <2>3, <4>1 DEF Promises
    <3> QED  BY <3>1, <3>2, <3>3
  <2> QED  BY <2>4, <2>5 DEF u
<1>2. SwitchesOf(ts \o s) = SwitchesOf(s)
      BY OpenUnder DEF SwitchesOf
<1>3. \A h \in SwitchesOf(s) : /\ SwitchAt(ts \o s, sw, h) = SwitchAt(s, sw, h)
                               /\ Caller(ts \o s, h) = Caller(s, h)
      BY SwitchParts
<1>4. EndsOwed(ts \o s, sw) = EndsOwed(s, sw)
      BY <1>2, <1>3 DEF EndsOwed
<1> QED  BY <1>1, <1>2, <1>3, <1>4

\* What is known stays known in longer code.
LEMMA StillKept ==
  ASSUME NEW c, NEW d, Extends(c, d), NEW K, NEW H, K \subseteq H
  PROVE  /\ \A t : Kept(t, c, K) => Kept(t, d, H)
         /\ \A s, sw : SwitchesKnown(s, sw, K) => SwitchesKnown(s, sw, H)
         /\ \A n, e, A, B : SwitchKnown(n, e, A, K) /\ Entries(n, "case") \cap A \subseteq B
                            /\ Entries(n, "default") \cap A \subseteq B => SwitchKnown(n, e, B, H)
         /\ \A lb, nx : LabelsKnown(lb, nx, K) => LabelsKnown(lb, nx, H)
<1>1. \A t : Kept(t, c, K) => Kept(t, d, H)
      BY StillJustified DEF Kept
<1>2. \A n, e, A, B : SwitchKnown(n, e, A, K) /\ Entries(n, "case") \cap A \subseteq B
                      /\ Entries(n, "default") \cap A \subseteq B => SwitchKnown(n, e, B, H)
  <2>1. SUFFICES ASSUME NEW n, NEW e, NEW A, NEW B, SwitchKnown(n, e, A, K),
                        Entries(n, "case") \cap A \subseteq B, Entries(n, "default") \cap A \subseteq B
                 PROVE  SwitchKnown(n, e, B, H)
        OBVIOUS
  <2>2. \A x \in Entries(n, "case") :
          \/ x \in B
          \/ e.cases[Node(x).val] # 0 /\ <<Start(e.cases[Node(x).val]), Enter(x)>> \in H
        BY <2>1 DEF SwitchKnown
  <2>3. \A x \in Entries(n, "default") :
          x \in B \/ (e.default # 0 /\ <<Start(e.default), Enter(x)>> \in H)
        BY <2>1 DEF SwitchKnown
  <2>4. /\ \A v \in Vals : e.cases[v] # 0 => \E x \in Entries(n, "case") : Node(x).val = v
        /\ e.default # 0 => Entries(n, "default") # {}
        BY <2>1, Zenon DEF SwitchKnown
  <2> QED  BY <2>2, <2>3, <2>4, Zenon DEF SwitchKnown
<1>3. \A s, sw : SwitchesKnown(s, sw, K) => SwitchesKnown(s, sw, H)
  <2>1. \A n, e, A : SwitchKnown(n, e, A, K) => SwitchKnown(n, e, A, H)
        BY <1>2
  <2> QED  BY <2>1, Zenon DEF SwitchesKnown
<1>4. \A lb, nx : LabelsKnown(lb, nx, K) => LabelsKnown(lb, nx, H)
      BY DEF LabelsKnown
<1> QED  BY <1>1, <1>2, <1>3, <1>4

OK(code, Q, H, L, q) == On(Q, L, q) \/ Justified(code, H, L, q)

\* A step that leaves the switches on the stack: what is known stays known when
\* what was owed of the finished task is borne out.
LEMMA StepSim ==
  ASSUME NEW s \in Seq(Tasks), NEW t \in Tasks, t.op # "endSwitch", NEW ts \in Seq(Tasks),
         \A i \in 1..Len(ts) : ts[i].op # "endSwitch",
         NEW bl, NEW bm, NEW sw, NEW sv, NEW lb, NEW lc, NEW nx, NEW K, NEW N, NEW Q, NEW H,
         Sim(bl, <<t>> \o s, sw, lb, nx, K), Extends(bl.code, bm.code),
         EndsOwed(s, sv) = EndsOwed(s, sw),
         Q = Owed(bm, ts \o s, sv), H = (K \cup N) \cup Q,
         \A L, q : <<L, q>> \in Current(bl, <<t>> \o s) \cup Promise(t) \cup N =>
           OK(bm.code, Q, H, L, q),
         \A i \in 1..Len(ts) : Kept(ts[i], bm.code, H),
         SwitchesKnown(ts \o s, sv, H), LabelsKnown(lc, nx, H)
  PROVE  Sim(bm, ts \o s, sv, lc, nx, H)
<1>1. <<t>> \in Seq(Tasks) /\ Len(<<t>>) = 1 /\ <<t>>[1] = t
      BY Single
<1>2. \A i \in 1..Len(<<t>>) : <<t>>[i].op # "endSwitch"
      BY <1>1
<1> DEFINE P == Owed(bl, <<t>> \o s, sw)
<1>3. /\ Promises(<<t>> \o s) = Promises(<<t>>) \cup Promises(s)
      /\ EndsOwed(<<t>> \o s, sw) = EndsOwed(s, sw)
      BY <1>1, <1>2, OwedParts
<1>4. /\ Promises(ts \o s) = Promises(ts) \cup Promises(s)
      /\ EndsOwed(ts \o s, sv) = EndsOwed(s, sv)
      BY OwedParts
<1>5. Promises(<<t>>) = Promise(t)
      BY <1>1 DEF Promises
<1>6. P \subseteq (Current(bl, <<t>> \o s) \cup Promise(t)) \cup Q
      BY <1>3, <1>4, <1>5, Zenon DEF Owed
<1>7. \A L, q : <<L, q>> \in P \cup N =>
        On(Q, L, q) \/ Justified(bm.code, (K \cup N) \cup Q, L, q)
  <2>1. SUFFICES ASSUME NEW L, NEW q, <<L, q>> \in P \cup N
                 PROVE  OK(bm.code, Q, H, L, q)
        BY DEF OK
  <2>2. CASE <<L, q>> \in Q
        BY <2>2, Justifying DEF OK
  <2>3. CASE <<L, q>> \notin Q
    <3> HIDE DEF P
    <3>1. <<L, q>> \in Current(bl, <<t>> \o s) \cup Promise(t) \cup N
          BY <1>6, <2>1, <2>3
    <3> QED  BY <3>1
  <2> QED  BY <2>2, <2>3
<1>8. Follows(bl.code, K, P)
      BY DEF Sim
<1> HIDE DEF P
<1>9. Follows(bm.code, H, Q)
      BY <1>7, <1>8, Advance
<1>10. AllKept(ts \o s, bm.code, H)
  <2>1. K \subseteq H
        OBVIOUS
  <2>2. AllKept(<<t>> \o s, bl.code, K)
        BY DEF Sim
  <2>3. \A i \in 1..Len(s) : Kept(s[i], bm.code, H)
    <3>1. SUFFICES ASSUME NEW i \in 1..Len(s) PROVE Kept(s[i], bm.code, H)
          OBVIOUS
    <3>2. i + 1 \in 1..Len(<<t>> \o s) /\ (<<t>> \o s)[i + 1] = s[i]
          BY <1>1, OnTopOf
    <3>3. Kept(s[i], bl.code, K)
          BY <2>2, <3>2 DEF AllKept
    <3> QED  BY <2>1, <3>3, StillKept
  <2>4. SUFFICES ASSUME NEW i \in 1..Len(ts \o s) PROVE Kept((ts \o s)[i], bm.code, H)
        BY DEF AllKept
  <2>5. CASE i \in 1..Len(ts)
    <3>1. (ts \o s)[i] = ts[i]
          BY <2>5, OnTopOf
    <3> QED  BY <2>5, <3>1
  <2>6. CASE i \notin 1..Len(ts)
    <3>1. i - Len(ts) \in 1..Len(s) /\ (i - Len(ts)) + Len(ts) = i
          BY <2>6, OnTopOf
    <3>2. (ts \o s)[i] = s[i - Len(ts)]
          BY <3>1, OnTopOf
    <3> QED  BY <2>3, <3>1, <3>2
  <2> QED  BY <2>5, <2>6
<1>11. <<Start(1), Enter(prog.fns[nx].body)>> \in H
       BY DEF Sim
<1> QED  BY <1>9, <1>10, <1>11 DEF Sim

\* What holds of the compiler's state, whatever is known of its code.
Base == IInv /\ NInv /\ Placed /\ CodeOK /\ ScopeOK

\* The task on top and what follows it.
LEMMA BaseTop ==
  ASSUME Base, Running
  PROVE  /\ prog \in Programs /\ Top \in Tasks /\ TaskOK(Top, prog) /\ OfKind(Top)
         /\ Tail(todo) \in Seq(Tasks) /\ todo = <<Top>> \o Tail(todo)
         /\ Kindly(todo) /\ Flow(todo) /\ Nest(todo) /\ Good(b, Instrs)
         /\ Top.op # "endFunction" =>
              /\ Tail(todo) # <<>> /\ Falls(Then(Top), NowOf(Head(Tail(todo))))
              /\ Top.node \in DOMAIN prog.node /\ Top.node # 0
<1>1. IInv /\ prog \in Programs /\ Kindly(todo) /\ Flow(todo) /\ Nest(todo)
      BY DEF Base, IInv, Placed, Running
<1>2. /\ Top \in Tasks /\ TaskOK(Top, prog) /\ Good(b, Instrs)
      /\ Tail(todo) \in Seq(Tasks)
      BY <1>1, TopFacts DEF Frames
<1>3. todo \in Seq(Tasks) /\ todo # <<>>
      BY <1>1 DEF IInv, StackOK, Frames, Running
<1>4. todo = <<Top>> \o Tail(todo)
      BY <1>3, HeadTailConcat DEF Top
<1>5. Head(todo) = todo[1] /\ Len(Tail(todo)) = Len(todo) - 1 /\ 1 \in 1..Len(todo) /\ Len(todo) \in Nat
      BY <1>3, TailOf
<1>6. OfKind(Top)
      BY <1>1, <1>5 DEF Kindly, Top
<1>7. ASSUME Top.op # "endFunction" PROVE Tail(todo) # <<>>
  <2>1. Caller(todo, 1).op = "endFunction"
        BY <1>3 DEF Base, CodeOK, Running
  <2>2. SUFFICES ASSUME Tail(todo) = <<>> PROVE FALSE
        OBVIOUS
  <2>3. Len(Tail(todo)) = 0
    <3>1. Len(<<>>) = 0
          OBVIOUS
    <3> QED  BY <2>2, <3>1
  <2>4. Caller(todo, 1) = Top
        BY <1>5, <2>3 DEF Caller, Top
  <2> QED  BY <1>7, <2>1, <2>4
<1>8. ASSUME Tail(todo) # <<>> PROVE Falls(Then(Top), NowOf(Head(Tail(todo))))
  <2>1. <<Top>> \in Seq(Tasks) /\ Len(<<Top>>) = 1 /\ <<Top>>[1] = Top /\ <<Top>> # <<>>
        BY <1>2, Single
  <2>2. Flow(<<Top>> \o Tail(todo))
        BY <1>1, <1>4
  <2>3. Falls(Then(Top), NowOf(Tail(todo)[1]))
        BY <1>2, <1>8, <2>1, <2>2, FlowGlue
  <2> QED  BY <1>2, <1>8, <2>3, TailOf
<1>9. ASSUME Top.op # "endFunction" PROVE Top.node \in DOMAIN prog.node /\ Top.node # 0
  <2>1. Top.node \in DOMAIN prog.node
        BY <1>2, <1>9 DEF TaskOK
  <2>2. Top.node > 0 /\ Top.node \in Nat
        BY <1>1, <2>1, Program
  <2> QED  BY <2>1, <2>2
<1> QED  BY <1>1, <1>2, <1>4, <1>6, <1>7, <1>8, <1>9

\* What is owed now, part by part.
LEMMA OwedNow ==
  ASSUME NEW bl, NEW s, NEW sw
  PROVE  /\ ~bl.filled /\ s # <<>> => <<Point(bl), NowOf(Head(s))>> \in Owed(bl, s, sw)
         /\ \A i \in 1..Len(s) : Promise(s[i]) \subseteq Owed(bl, s, sw)
         /\ EndsOwed(s, sw) \subseteq Owed(bl, s, sw)
<1>1. ~bl.filled /\ s # <<>> => <<Point(bl), NowOf(Head(s))>> \in Owed(bl, s, sw)
      BY DEF Owed, Current
<1>2. \A i \in 1..Len(s) : Promise(s[i]) \subseteq Owed(bl, s, sw)
      BY DEF Owed, Promises
<1> QED  BY <1>1, <1>2 DEF Owed

\* A step leaves ahead what was ahead, but for the statement it begins.
LEMMA AheadStays ==
  ASSUME Base, Running, Top.op # "endFunction", NEW ts, Shape(Top, ts), NEW h \in 0..Len(Tail(todo)),
         NEW k \in AheadOf(todo, h)
  PROVE  k \in AheadOf(ts \o Tail(todo), h) \/ (Top.op = "stmt" /\ k = Top.node)
<1>1. /\ prog \in Programs /\ Top \in Tasks /\ TaskOK(Top, prog) /\ OfKind(Top)
      /\ Tail(todo) \in Seq(Tasks) /\ todo = <<Top>> \o Tail(todo)
      BY BaseTop
<1>2. ts \in Seq(Tasks)
      BY <1>1, FlowShape
<1>3. <<Top>> \in Seq(Tasks) /\ Len(<<Top>>) = 1 /\ <<Top>>[1] = Top
      BY <1>1, Single
<1>4. h \in Nat /\ h <= Len(Tail(todo))
      BY <1>1
<1>5. AheadOf(ts \o Tail(todo), h) = AheadIn(ts) \cup AheadOf(Tail(todo), h)
      BY <1>1, <1>2, <1>4, AheadGlue
<1>6. AheadOf(<<Top>> \o Tail(todo), h) = AheadIn(<<Top>>) \cup AheadOf(Tail(todo), h)
      BY <1>1, <1>3, <1>4, AheadGlue
<1>7. AheadIn(<<Top>>) = Ahead(Top)
      BY <1>3 DEF AheadIn
<1>8. k \in Ahead(Top) \/ k \in AheadOf(Tail(todo), h)
      BY <1>1, <1>6, <1>7
<1>9. CASE k \in Ahead(Top)
      BY <1>1, <1>5, <1>9, AheadShape
<1> QED  BY <1>5, <1>8, <1>9

\* A step that leaves the switches alone.
LEMMA PlainSim ==
  ASSUME Base, Running, Top.op \notin {"endSwitch", "endFunction"}, NEW ts, Shape(Top, ts),
         todo' = ts \o Tail(todo), \A i \in 1..Len(ts) : ts[i].op # "endSwitch",
         Top.op = "stmt" => Node(Top.node).kind \notin {"case", "default"},
         switches' = switches, next' = next,
         NEW K, Sim(b, todo, switches, labels, next, K), Extends(b.code, b'.code),
         NEW N, NEW Q, NEW H, Q = Owed(b', todo', switches), H = (K \cup N) \cup Q,
         ~b.filled => OK(b'.code, Q, H, Point(b), NowOf(Top)),
         \A L, q : <<L, q>> \in Promise(Top) \cup N => OK(b'.code, Q, H, L, q),
         \A i \in 1..Len(ts) : Kept(ts[i], b'.code, H), LabelsKnown(labels', next, H)
  PROVE  Sim(b', todo', switches', labels', next', H)
<1>1. /\ prog \in Programs /\ Top \in Tasks /\ TaskOK(Top, prog) /\ OfKind(Top)
      /\ Tail(todo) \in Seq(Tasks) /\ todo = <<Top>> \o Tail(todo)
      BY BaseTop
<1>2. ts \in Seq(Tasks)
      BY <1>1, FlowShape
<1>3. \A L, q : <<L, q>> \in Current(b, todo) \cup Promise(Top) \cup N => OK(b'.code, Q, H, L, q)
  <2>1. SUFFICES ASSUME NEW L, NEW q, <<L, q>> \in Current(b, todo) PROVE OK(b'.code, Q, H, L, q)
        OBVIOUS
  <2>2. ~b.filled /\ <<L, q>> = <<Point(b), NowOf(Top)>>
        BY <2>1 DEF Current, Top
  <2>3. L = Point(b) /\ q = NowOf(Top)
        BY <2>2
  <2> QED  BY <2>2, <2>3
<1>4. SwitchesKnown(ts \o Tail(todo), switches, H)
  <2>1. SUFFICES ASSUME NEW h \in SwitchesOf(ts \o Tail(todo))
                 PROVE  SwitchKnown(Caller(ts \o Tail(todo), h).node,
                                    SwitchAt(ts \o Tail(todo), switches, h),
                                    AheadOf(ts \o Tail(todo), h), H)
        BY DEF SwitchesKnown
  <2>2. <<Top>> \in Seq(Tasks) /\ \A i \in 1..Len(<<Top>>) : <<Top>>[i].op # "endSwitch"
        BY <1>1, Single
  <2>3. /\ h \in SwitchesOf(Tail(todo)) /\ h \in SwitchesOf(todo)
        /\ SwitchAt(ts \o Tail(todo), switches, h) = SwitchAt(Tail(todo), switches, h)
        /\ SwitchAt(todo, switches, h) = SwitchAt(Tail(todo), switches, h)
        /\ Caller(ts \o Tail(todo), h) = Caller(Tail(todo), h)
        /\ Caller(todo, h) = Caller(Tail(todo), h)
    <3>1. h \in SwitchesOf(Tail(todo))
          BY <1>1, <1>2, <2>1, OwedParts
    <3>2. /\ SwitchAt(ts \o Tail(todo), switches, h) = SwitchAt(Tail(todo), switches, h)
          /\ Caller(ts \o Tail(todo), h) = Caller(Tail(todo), h)
          BY <1>1, <1>2, <3>1, SwitchParts
    <3>3. /\ h \in SwitchesOf(<<Top>> \o Tail(todo))
          /\ SwitchAt(<<Top>> \o Tail(todo), switches, h) = SwitchAt(Tail(todo), switches, h)
          /\ Caller(<<Top>> \o Tail(todo), h) = Caller(Tail(todo), h)
      <4>1. Top \in Tasks /\ Tail(todo) \in Seq(Tasks) /\ Top.op # "endSwitch"
            BY <1>1
      <4> QED  BY <3>1, <4>1, SwitchUnder, Zenon
    <3> QED  BY <1>1, <3>1, <3>2, <3>3
  <2>4. SwitchKnown(Caller(todo, h).node, SwitchAt(todo, switches, h), AheadOf(todo, h), K)
        BY <2>3 DEF Sim, SwitchesKnown
  <2>5. h \in 0..Len(Tail(todo))
        BY <2>3 DEF SwitchesOf, OpenAt
  <2> DEFINE n == Caller(todo, h).node
  <2>6. ASSUME NEW kind \in {"case", "default"}
        PROVE  Entries(n, kind) \cap AheadOf(todo, h) \subseteq AheadOf(ts \o Tail(todo), h)
    <3>1. SUFFICES ASSUME NEW k \in Entries(n, kind), k \in AheadOf(todo, h)
                   PROVE  k \in AheadOf(ts \o Tail(todo), h)
          OBVIOUS
    <3>2. Node(k).kind = kind
          BY DEF Entries
    <3>3. ~(Top.op = "stmt" /\ k = Top.node)
          BY <3>2
    <3> QED  BY <2>5, <3>1, <3>3, AheadStays
  <2>7. K \subseteq H
        OBVIOUS
  <2>8. /\ Entries(n, "case") \cap AheadOf(todo, h) \subseteq AheadOf(ts \o Tail(todo), h)
        /\ Entries(n, "default") \cap AheadOf(todo, h) \subseteq AheadOf(ts \o Tail(todo), h)
        BY <2>6
  <2> DEFINE e == SwitchAt(todo, switches, h)
             A == AheadOf(todo, h)
             B == AheadOf(ts \o Tail(todo), h)
  <2>9. SwitchKnown(n, e, A, K)
        BY <2>4
  <2>10. n = Caller(ts \o Tail(todo), h).node /\ e = SwitchAt(ts \o Tail(todo), switches, h)
         BY <2>3
  <2> HIDE DEF n, e, A
  <2>11. SwitchKnown(n, e, B, H)
    <3> HIDE DEF B
    <3>1. Entries(n, "case") \cap A \subseteq B /\ Entries(n, "default") \cap A \subseteq B
          BY <2>8 DEF A, B
    <3> QED  BY <2>7, <2>9, <3>1, Extending, StillKept
  <2> QED  BY <2>10, <2>11
<1>5. EndsOwed(Tail(todo), switches) = EndsOwed(Tail(todo), switches)
      OBVIOUS
<1>6. Sim(b', ts \o Tail(todo), switches, labels', next, H)
  <2>1. /\ Sim(b, <<Top>> \o Tail(todo), switches, labels, next, K)
        /\ Q = Owed(b', ts \o Tail(todo), switches)
        /\ \A L, q : <<L, q>> \in Current(b, <<Top>> \o Tail(todo)) \cup Promise(Top) \cup N =>
             OK(b'.code, Q, H, L, q)
        BY <1>1, <1>3
  <2> QED  BY <1>1, <1>2, <1>4, <2>1, StepSim
<1> QED  BY <1>6
=============================================================================
