-------------------------- MODULE ConditionalProofs --------------------------
(***************************************************************************)
(* Proofs about Conditional: for a source of any length and any nesting,   *)
(* consume_directive selects the text C selects and reports nothing in a   *)
(* conforming source, until an #endif leaves an Else entry behind.         *)
(***************************************************************************)
EXTENDS Conditional, SequenceTheorems, TLAPS

-----------------------------------------------------------------------------
(* The inductive invariant.                                                 *)

\* the source has been followed so far, and no Else entry is left over
Sound == conforming /\ ~elseLost

\* text is skipped because of group k
SkipsFrom(k) ==
  /\ ~groups[k].live
  /\ \A i \in 1..k - 1 : groups[i].live
  /\ \A i \in k + 1..Len(groups) :
       groups[i].taken /\ ~groups[i].live /\ groups[i].at = 0
  /\ depth = Len(groups) - k + 1
  /\ mode = "consume_if" => ~groups[k].taken /\ ~groups[k].els /\ groups[k].at = 0
  /\ mode = "consume_all" =>
       /\ groups[k].taken
       /\ groups[k].at \in 1..Len(nestedIfs)
       /\ nestedIfs[groups[k].at] # "Else"

Modes ==
  /\ mode = "active" => AllLive
  /\ mode # "active" => \E k \in 1..Len(groups) : SkipsFrom(k)

\* a live group has been taken and has its entry in nested_ifs
Owned ==
  \A i \in 1..Len(groups) :
    /\ groups[i].live => groups[i].taken /\ groups[i].at # 0
    /\ groups[i].at <= Len(nestedIfs)

\* the entries are in the order of their groups
Ordered ==
  \A j \in 1..Len(groups) : groups[j].at # 0 =>
    \A i \in 1..j - 1 : groups[i].at < groups[j].at

\* an Else entry belongs to an open group that is past its #else
ElsesOwned ==
  \A p \in 1..Len(nestedIfs) : nestedIfs[p] = "Else" =>
    \E i \in 1..Len(groups) : groups[i].at = p /\ groups[i].els

Entries == Owned /\ Ordered /\ ElsesOwned

IInv ==
  /\ TypeOK
  /\ Sound => Modes /\ Entries /\ (~ended => result = "none")

-----------------------------------------------------------------------------
(* Types.                                                                   *)

Groups == [taken : BOOLEAN, live : BOOLEAN, els : BOOLEAN, at : Nat]

\* A prefix of a sequence.
LEMMA Prefix ==
  ASSUME NEW S, NEW s \in Seq(S), NEW n \in 0..Len(s)
  PROVE  /\ SubSeq(s, 1, n) \in Seq(S)
         /\ Len(SubSeq(s, 1, n)) = n
         /\ \A i \in 1..n : SubSeq(s, 1, n)[i] = s[i]
BY SubSeqProperties

\* What Front and LastOf return.
LEMMA FrontLast ==
  ASSUME NEW S, NEW s \in Seq(S), s # <<>>
  PROVE  /\ Len(s) \in Nat /\ Len(s) # 0
         /\ LastOf(s) \in S
         /\ Front(s) \in Seq(S)
         /\ Len(Front(s)) = Len(s) - 1
         /\ \A i \in 1..Len(s) - 1 : Front(s)[i] = s[i]
<1>1. Len(s) \in Nat /\ Len(s) # 0 /\ Len(s) - 1 \in 0..Len(s)
      BY EmptySeq, LenProperties
<1>2. LastOf(s) \in S
      BY <1>1, ElementOfSeq DEF LastOf
<1> QED  BY <1>1, <1>2, Prefix, Zenon DEF Front

\* The groups stay groups: a new one, or a new section of the last one.
LEMMA GroupsTyped ==
  ASSUME groups \in Seq(Groups)
  PROVE  /\ \A c \in BOOLEAN, p \in Nat : Opened(c, p) \in Seq(Groups)
         /\ \A l, e \in BOOLEAN, p \in Nat :
              groups # <<>> => NextSection(l, e, p) \in Seq(Groups)
<1>1. ASSUME NEW c \in BOOLEAN, NEW p \in Nat
      PROVE  Opened(c, p) \in Seq(Groups)
  <2>1. Group(TRUE, FALSE, 0) \in Groups /\ Group(TRUE, TRUE, p) \in Groups
        /\ Group(FALSE, FALSE, 0) \in Groups
        BY DEF Group, Groups
  <2> QED  BY <2>1, AppendProperties, Zenon DEF Opened
<1>2. ASSUME NEW l \in BOOLEAN, NEW e \in BOOLEAN, NEW p \in Nat, groups # <<>>
      PROVE  NextSection(l, e, p) \in Seq(Groups)
  <2>1. /\ Len(groups) \in 1..Len(groups)
        /\ groups[Len(groups)] \in Groups
        BY <1>2, FrontLast DEF LastOf
  <2>2. /\ groups[Len(groups)].taken \/ l \in BOOLEAN
        /\ (IF l THEN p ELSE groups[Len(groups)].at) \in Nat
        BY <2>1 DEF Groups
  <2>3. [taken |-> groups[Len(groups)].taken \/ l, live |-> l, els |-> e,
         at |-> IF l THEN p ELSE groups[Len(groups)].at] \in Groups
        BY <2>2 DEF Groups
  <2> QED  BY <2>1, <2>3, ExceptSeq DEF NextSection
<1> QED  BY <1>1, <1>2

\* What the source does to the ghost variables keeps their types.
LEMMA SourceTyped ==
  ASSUME TypeOK, NEW cond \in Conditions,
         SourceIf(cond) \/ SourceElif(cond) \/ SourceElse \/ SourceEndIf
  PROVE  groups' \in Seq(Groups) /\ conforming' \in BOOLEAN /\ elseLost' \in BOOLEAN
<1>1. /\ groups \in Seq(Groups) /\ Len(nestedIfs) + 1 \in Nat
      /\ conforming \in BOOLEAN /\ elseLost \in BOOLEAN
      BY DEF TypeOK, Groups
<1>2. (cond = "true") \in BOOLEAN
      OBVIOUS
<1>3. Opened(cond = "true", Len(nestedIfs) + 1) \in Seq(Groups)
      BY <1>1, <1>2, GroupsTyped
<1>4. \A l, e \in BOOLEAN :
        groups # <<>> => NextSection(l, e, Len(nestedIfs) + 1) \in Seq(Groups)
      BY <1>1, GroupsTyped
<1>5. groups # <<>> => Front(groups) \in Seq(Groups) /\ LastOf(groups) \in Groups
      BY <1>1, FrontLast
<1>6. Violates => groups' \in Seq(Groups) /\ conforming' \in BOOLEAN /\ elseLost' \in BOOLEAN
      BY <1>1 DEF Violates
<1>7. ASSUME NEW next, next \in Seq(Groups), Follow(next)
      PROVE  groups' \in Seq(Groups) /\ conforming' \in BOOLEAN /\ elseLost' \in BOOLEAN
      BY <1>1, <1>7 DEF Follow, ghost
<1>8. CASE SourceIf(cond)
      BY <1>3, <1>6, <1>7, <1>8 DEF SourceIf
<1>9. CASE SourceElif(cond)
  <2>1. CASE ~conforming \/ groups = <<>> \/ LastOf(groups).els
        BY <2>1, <1>6, <1>9 DEF SourceElif
  <2>2. CASE ~(~conforming \/ groups = <<>> \/ LastOf(groups).els)
    <3>1. (~LastOf(groups).taken /\ cond = "true") \in BOOLEAN
          OBVIOUS
    <3>2. NextSection(~LastOf(groups).taken /\ cond = "true", FALSE, Len(nestedIfs) + 1)
            \in Seq(Groups)
          BY <3>1, <2>2, <1>4
    <3> QED  BY <2>2, <3>2, <1>6, <1>7, <1>9 DEF SourceElif
  <2> QED  BY <2>1, <2>2
<1>10. CASE SourceElse
  <2>1. groups # <<>> => (~LastOf(groups).taken) \in BOOLEAN
        BY <1>5 DEF Groups
  <2> QED  BY <2>1, <1>4, <1>6, <1>7, <1>10 DEF SourceElse
<1>11. CASE SourceEndIf
  <2>1. CASE ~conforming \/ groups = <<>>
        BY <2>1, <1>6, <1>11 DEF SourceEndIf
  <2>2. CASE conforming /\ groups # <<>>
    <3>1. groups' = Front(groups) /\ conforming' = conforming
          BY <2>2, <1>11 DEF SourceEndIf
    <3>2. elseLost' \in BOOLEAN
          BY <2>2, <1>11 DEF SourceEndIf
    <3> QED  BY <3>1, <3>2, <2>2, <1>1, <1>5
  <2> QED  BY <2>1, <2>2, <1>1
<1> QED  BY <1>8, <1>9, <1>10, <1>11

\* The loop of consume_directive runs while depth > 0.
DepthOK == Skipping => depth # 0

\* The stack and the skipping state keep their types.
LEMMA CodeTyped ==
  ASSUME TypeOK, DepthOK, Next
  PROVE  /\ nestedIfs' \in Seq({"If", "Elif", "Else"})
         /\ mode' \in {"active", "consume_if", "consume_all"}
         /\ depth' \in Nat /\ DepthOK'
         /\ result' \in Results
         /\ ended' \in BOOLEAN
         /\ lines' \in 0..MaxLines
<1> DEFINE Stack == Seq({"If", "Elif", "Else"})
           Typed == /\ nestedIfs' \in Stack
                    /\ mode' \in {"active", "consume_if", "consume_all"}
                    /\ depth' \in Nat /\ DepthOK'
                    /\ result' \in Results
<1>1. /\ nestedIfs \in Stack /\ mode \in {"active", "consume_if", "consume_all"}
      /\ depth \in Nat /\ DepthOK
      BY DEF TypeOK
<1>2. /\ \A e \in {"If", "Elif", "Else"} : Append(nestedIfs, e) \in Stack
      /\ nestedIfs # <<>> => Popped \in Stack
      BY <1>1, FrontLast, AppendProperties DEF Popped
<1> HIDE DEF Stack
<1> USE <1>1, <1>2 DEF Results, Give, StackSame, Skipping, DepthOK
<1>3. Line => lines' \in 0..MaxLines /\ ended' \in BOOLEAN
      BY MaxLinesAssumption DEF Line, TypeOK
<1>4. ASSUME NEW cond \in Conditions, If(cond) PROVE Typed
  <2>1. CASE cond = "bad" /\ StackSame("BadCondition")
        BY <1>4, <2>1 DEF If
  <2>2. CASE cond = "true" /\ Push("If") /\ UNCHANGED <<mode, depth>>
        BY <1>4, <2>2 DEF If, Push
  <2>3. CASE cond = "false" /\ Skip("consume_if")
        BY <1>4, <2>3 DEF If, Skip
  <2> QED  BY <1>4, <2>1, <2>2, <2>3 DEF If
<1>5. ASSUME NEW cond \in Conditions, Elif(cond) PROVE Typed
      BY <1>5 DEF Elif, Skip
<1>6. ASSUME Else PROVE Typed
      BY <1>6 DEF Else, Skip
<1>7. ASSUME EndIf PROVE Typed
      BY <1>7 DEF EndIf
<1>8. ASSUME NEW cond \in Conditions, SkipIf(cond) PROVE Typed
      BY <1>8 DEF SkipIf, Deeper
<1>9. ASSUME NEW cond \in Conditions, SkipElif(cond) PROVE Typed
  <2>1. CASE StackSame("none")
        BY <1>9, <2>1 DEF SkipElif
  <2>2. CASE Give("BadCondition") /\ Activate /\ UNCHANGED nestedIfs
        BY <1>9, <2>2 DEF SkipElif, Activate
  <2>3. CASE Push("Elif") /\ Activate
        BY <1>9, <2>3 DEF SkipElif, Activate, Push
  <2> QED  BY <1>9, <2>1, <2>2, <2>3 DEF SkipElif
<1>10. ASSUME SkipElse PROVE Typed
  <2>1. CASE StackSame("none")
        BY <1>10, <2>1 DEF SkipElse
  <2>2. CASE Push("Else") /\ Activate
        BY <1>10, <2>2 DEF SkipElse, Activate, Push
  <2> QED  BY <1>10, <2>1, <2>2 DEF SkipElse
<1>11. ASSUME SkipEndIf PROVE Typed
      BY <1>11 DEF SkipEndIf, LoopEnds, Activate
<1>12. ASSUME EndOfFile PROVE Typed
      BY <1>12 DEF EndOfFile
<1>13. Typed
      BY <1>4, <1>5, <1>6, <1>7, <1>8, <1>9, <1>10, <1>11, <1>12 DEF Next
<1>14. lines' \in 0..MaxLines /\ ended' \in BOOLEAN
  <2>1. CASE EndOfFile
        BY <2>1 DEF EndOfFile, TypeOK
  <2>2. CASE ~EndOfFile
        BY <2>2, <1>3 DEF Next, If, Elif, Else, EndIf, SkipIf, SkipElif, SkipElse, SkipEndIf
  <2> QED  BY <2>1, <2>2
<1> QED  BY <1>13, <1>14 DEF Stack

\* The first state has the types.
LEMMA InitTyped == Init => TypeOK /\ DepthOK
<1>1. <<>> \in Seq({"If", "Elif", "Else"}) /\ <<>> \in Seq(Groups)
      OBVIOUS
<1>2. 0 \in 0..MaxLines /\ "none" \in Results
      BY MaxLinesAssumption DEF Results
<1>3. Init => conforming \in BOOLEAN /\ elseLost \in BOOLEAN /\ ended \in BOOLEAN
      BY Zenon DEF Init
<1>4. Init => DepthOK /\ depth \in Nat
      BY DEF Init, DepthOK, Skipping
<1>5. Init => /\ nestedIfs = <<>> /\ groups = <<>> /\ result = "none" /\ lines = 0
              /\ mode \in {"active", "consume_if", "consume_all"}
      BY Zenon DEF Init
<1> QED  BY <1>1, <1>2, <1>3, <1>4, <1>5, Zenon DEF TypeOK, Groups

\* Every step keeps the types.
LEMMA NextTyped ==
  ASSUME TypeOK, DepthOK, [Next]_vars
  PROVE  TypeOK' /\ DepthOK'
<1>1. CASE UNCHANGED vars
      BY <1>1 DEF vars, code, ghost, TypeOK, DepthOK, Skipping
<1>2. CASE Next
  <2>1. groups' \in Seq(Groups) /\ conforming' \in BOOLEAN /\ elseLost' \in BOOLEAN
    <3>1. CASE EndOfFile
          BY <3>1 DEF EndOfFile, ghost, TypeOK, Groups
    <3>2. CASE ~EndOfFile
          BY <1>2, <3>2, SourceTyped
             DEF Next, If, Elif, Else, EndIf, SkipIf, SkipElif, SkipElse, SkipEndIf, Conditions
    <3> QED  BY <3>1, <3>2
  <2> QED  BY <2>1, <1>2, CodeTyped DEF TypeOK, Groups
<1> QED  BY <1>1, <1>2

\* The stack, the mode, the depth and the groups hold what their types allow,
\* for a source of any number of lines.
THEOREM TypeCorrect == Spec => []TypeOK
<1>1. Spec => [](TypeOK /\ DepthOK)
      BY InitTyped, NextTyped, PTL DEF Spec
<1> QED  BY <1>1, PTL

-----------------------------------------------------------------------------
(* What a line of the source does to the groups, if the source stays sound. *)

Top    == Len(groups)
Kept(n) == \A i \in 1..n : groups'[i] = groups[i]

\* An #if opens a group: selected, not selected, or inside a skipped one.
LEMMA IfGroups ==
  ASSUME TypeOK, NEW cond \in Conditions, SourceIf(cond), Sound'
  PROVE  /\ Sound
         /\ AllLive => cond # "bad"
         /\ Len(groups') = Top + 1 /\ Kept(Top)
         /\ groups'[Top + 1] =
              IF ~AllLive THEN Group(TRUE, FALSE, 0)
              ELSE IF cond = "true" THEN Group(TRUE, TRUE, Len(nestedIfs) + 1)
              ELSE Group(FALSE, FALSE, 0)
<1>1. /\ ~(cond = "bad" /\ (AllLive \/ ~conforming))
      /\ conforming /\ ~elseLost
      /\ groups' = Opened(cond = "true", Len(nestedIfs) + 1)
      BY Zenon DEF SourceIf, Violates, Follow, Sound, ghost
<1>2. groups \in Seq(Groups) /\ Len(nestedIfs) + 1 \in Nat
      BY DEF TypeOK, Groups
<1>3. \A g \in Groups : /\ Len(Append(groups, g)) = Top + 1
                        /\ \A i \in 1..Top : Append(groups, g)[i] = groups[i]
                        /\ Append(groups, g)[Top + 1] = g
      BY <1>2, AppendProperties DEF Top
<1>4. /\ Group(TRUE, FALSE, 0) \in Groups /\ Group(FALSE, FALSE, 0) \in Groups
      /\ Group(TRUE, TRUE, Len(nestedIfs) + 1) \in Groups
      BY <1>2 DEF Group, Groups
<1> QED  BY <1>1, <1>3, <1>4, Zenon DEF Opened, Kept, Sound

\* the last group after an #elif or an #else; live: the new section is selected
Changed(live, els) ==
  /\ Top # 0 /\ Len(groups') = Top /\ Kept(Top - 1)
  /\ groups'[Top].taken <=> groups[Top].taken \/ live
  /\ groups'[Top].live <=> live
  /\ groups'[Top].els <=> els
  /\ groups'[Top].at = IF live THEN Len(nestedIfs) + 1 ELSE groups[Top].at

\* Every new section changes the last group in this way.
LEMMA SectionGroups ==
  ASSUME TypeOK, NEW live \in BOOLEAN, NEW els \in BOOLEAN, groups # <<>>,
         groups' = NextSection(live, els, Len(nestedIfs) + 1)
  PROVE  Changed(live, els)
<1>0. groups \in Seq(Groups) /\ Len(nestedIfs) \in Nat
      BY DEF TypeOK, Groups
<1>1. Top \in 1..Len(groups) /\ Top \in Nat /\ Top # 0 /\ groups[Top] \in Groups
      BY <1>0, FrontLast DEF Top, LastOf
<1> DEFINE new == [taken |-> groups[Top].taken \/ live, live |-> live, els |-> els,
                   at |-> IF live THEN Len(nestedIfs) + 1 ELSE groups[Top].at]
<1>2. groups' = [groups EXCEPT ![Top] = new]
      BY DEF NextSection, Top
<1>3. new \in Groups
      BY <1>0, <1>1 DEF Groups
<1>4. Len(groups') = Top /\ \A i \in 1..Top : groups'[i] = IF i = Top THEN new ELSE groups[i]
      BY <1>0, <1>1, <1>2, <1>3, ExceptSeq DEF Top
<1>5. groups'[Top] = new /\ Kept(Top - 1)
      BY <1>1, <1>4 DEF Kept
<1>6. /\ new.taken = (groups[Top].taken \/ live) /\ new.live = live /\ new.els = els
      /\ new.at = IF live THEN Len(nestedIfs) + 1 ELSE groups[Top].at
      BY Zenon
<1> HIDE DEF new
<1> QED  BY <1>1, <1>4, <1>5, <1>6, Zenon DEF Changed

\* An #elif is selected when no section before it was and its condition holds.
LEMMA ElifGroups ==
  ASSUME TypeOK, NEW cond \in Conditions, SourceElif(cond), Sound'
  PROVE  /\ Sound /\ groups # <<>> /\ ~groups[Top].els
         /\ ~groups[Top].taken => cond # "bad"
         /\ Changed(~groups[Top].taken /\ cond = "true", FALSE)
<1>1. /\ conforming /\ ~elseLost /\ groups # <<>> /\ ~groups[Top].els
      /\ ~(~groups[Top].taken /\ cond = "bad")
      /\ groups' = NextSection(~groups[Top].taken /\ cond = "true", FALSE, Len(nestedIfs) + 1)
      BY Zenon DEF SourceElif, Violates, Follow, Sound, ghost, LastOf, Top
<1>2. (~groups[Top].taken /\ cond = "true") \in BOOLEAN /\ FALSE \in BOOLEAN
      OBVIOUS
<1>3. Changed(~groups[Top].taken /\ cond = "true", FALSE)
      BY <1>1, <1>2, SectionGroups
<1> QED  BY <1>1, <1>3, Zenon DEF Sound

\* An #else is selected when no section before it was.
LEMMA ElseGroups ==
  ASSUME TypeOK, SourceElse, Sound'
  PROVE  /\ Sound /\ groups # <<>> /\ ~groups[Top].els
         /\ Changed(~groups[Top].taken, TRUE)
<1>1. /\ conforming /\ ~elseLost /\ groups # <<>> /\ ~groups[Top].els
      /\ groups' = NextSection(~groups[Top].taken, TRUE, Len(nestedIfs) + 1)
      BY Zenon DEF SourceElse, Violates, Follow, Sound, ghost, LastOf, Top
<1>2. (~groups[Top].taken) \in BOOLEAN /\ TRUE \in BOOLEAN
      OBVIOUS
<1>3. Changed(~groups[Top].taken, TRUE)
      BY <1>1, <1>2, SectionGroups
<1> QED  BY <1>1, <1>3, Zenon DEF Sound

\* An #endif closes the last group.
LEMMA EndIfGroups ==
  ASSUME TypeOK, SourceEndIf, Sound'
  PROVE  /\ Sound /\ Top # 0
         /\ Len(groups') = Top - 1 /\ Kept(Top - 1)
         /\ mode = "active" /\ groups[Top].els => groups[Top].at = Len(nestedIfs)
<1>1. /\ conforming /\ ~elseLost /\ groups # <<>> /\ groups' = Front(groups)
      /\ ~(mode = "active" /\ groups[Top].els /\ groups[Top].at # Len(nestedIfs))
      BY Zenon DEF SourceEndIf, Violates, Sound, LastOf, Top
<1>2. groups \in Seq(Groups)
      BY DEF TypeOK, Groups
<1> QED  BY <1>1, <1>2, FrontLast DEF Sound, Kept, Top

-----------------------------------------------------------------------------
(* What each change of the groups and of nested_ifs does to the entries.    *)

\* the numbers the lemmas below reason about
Basic ==
  /\ Top \in Nat /\ DOMAIN groups = 1..Top
  /\ \A i \in 1..Top : groups[i].at \in Nat
  /\ Len(nestedIfs) \in Nat /\ DOMAIN nestedIfs = 1..Len(nestedIfs)
  /\ depth \in Nat

\* The typing facts about positions and lengths.
LEMMA Basics == TypeOK => Basic
<1> SUFFICES ASSUME TypeOK PROVE Basic
    OBVIOUS
<1>1. /\ groups \in Seq(Groups) /\ nestedIfs \in Seq({"If", "Elif", "Else"})
      /\ depth \in Nat
      BY DEF TypeOK, Groups
<1>2. Top \in Nat /\ DOMAIN groups = 1..Top /\ \A i \in 1..Top : groups[i] \in Groups
      BY <1>1, LenProperties, ElementOfSeq DEF Top
<1>3. Len(nestedIfs) \in Nat /\ DOMAIN nestedIfs = 1..Len(nestedIfs)
      BY <1>1, LenProperties
<1> QED  BY <1>1, <1>2, <1>3 DEF Basic, Groups

\* The same facts in the next state.
LEMMA BasicsNext == TypeOK' => Basic'
BY Basics, PTL

\* the entries of the stack that stay
Stacked(n) == \A p \in 1..n : nestedIfs'[p] = nestedIfs[p]

Pushed(e) ==
  /\ Len(nestedIfs') = Len(nestedIfs) + 1 /\ Stacked(Len(nestedIfs))
  /\ nestedIfs'[Len(nestedIfs) + 1] = e

\* What Push and Popped do to the stack.
LEMMA Stacks ==
  ASSUME TypeOK
  PROVE  /\ \A e \in {"If", "Elif", "Else"} :
              nestedIfs' = Append(nestedIfs, e) => Pushed(e)
         /\ nestedIfs # <<>> /\ nestedIfs' = Popped =>
              /\ Len(nestedIfs) # 0
              /\ Len(nestedIfs') = Len(nestedIfs) - 1
              /\ Stacked(Len(nestedIfs) - 1)
<1>1. nestedIfs \in Seq({"If", "Elif", "Else"})
      BY DEF TypeOK
<1>2. ASSUME NEW e \in {"If", "Elif", "Else"}, nestedIfs' = Append(nestedIfs, e)
      PROVE  Pushed(e)
  <2>1. /\ Len(Append(nestedIfs, e)) = Len(nestedIfs) + 1
        /\ \A p \in 1..Len(nestedIfs) : Append(nestedIfs, e)[p] = nestedIfs[p]
        /\ Append(nestedIfs, e)[Len(nestedIfs) + 1] = e
        BY <1>1, AppendProperties
  <2> QED  BY <1>2, <2>1, Zenon DEF Pushed, Stacked
<1>3. nestedIfs # <<>> /\ nestedIfs' = Popped =>
              /\ Len(nestedIfs) # 0
              /\ Len(nestedIfs') = Len(nestedIfs) - 1
              /\ Stacked(Len(nestedIfs) - 1)
      BY <1>1, FrontLast, Zenon DEF Popped, Stacked
<1> QED  BY <1>2, <1>3

\* A group opens whose section is skipped: it gets no entry.
LEMMA EntriesOpened ==
  ASSUME Basic, Basic', Entries, Top' = Top + 1, Kept(Top), UNCHANGED nestedIfs,
         ~groups'[Top + 1].live, groups'[Top + 1].at = 0
  PROVE  Entries'
<1> PICK n \in Nat : n = Top
    BY DEF Basic
<1>1. /\ Len(groups) = n /\ Len(groups') = n + 1
      /\ \A i \in 1..n : groups'[i] = groups[i]
      /\ ~groups'[n + 1].live /\ groups'[n + 1].at = 0
      BY DEF Kept, Top
<1>2. \A i \in 1..n + 1 : i = n + 1 \/ i \in 1..n
      OBVIOUS
<1>3. Owned'
  <2> SUFFICES ASSUME NEW i \in 1..n + 1
               PROVE  /\ groups'[i].live => groups'[i].taken /\ groups'[i].at # 0
                      /\ groups'[i].at <= Len(nestedIfs)
      BY <1>1 DEF Owned
  <2>1. CASE i = n + 1
        BY <1>1, <2>1 DEF Basic
  <2>2. CASE i \in 1..n
        BY <1>1, <2>2, Zenon DEF Entries, Owned
  <2> QED  BY <1>2, <2>1, <2>2
<1>4. Ordered'
  <2> SUFFICES ASSUME NEW j \in 1..n + 1, groups'[j].at # 0, NEW i \in 1..j - 1
               PROVE  groups'[i].at < groups'[j].at
      BY <1>1, Zenon DEF Ordered
  <2>1. j \in 1..n /\ i \in 1..n
        BY <1>1
  <2> QED  BY <1>1, <2>1, Zenon DEF Entries, Ordered
<1>5. ElsesOwned'
  <2>1. \A i \in 1..n : i \in 1..n + 1
        OBVIOUS
  <2> QED  BY <1>1, <2>1, Zenon DEF Entries, ElsesOwned
<1> QED  BY <1>3, <1>4, <1>5 DEF Entries

\* A group opens whose section is selected: it gets an If entry.
LEMMA EntriesPushed ==
  ASSUME Basic, Basic', Entries, Top' = Top + 1, Kept(Top), Pushed("If"),
         groups'[Top + 1].live, groups'[Top + 1].taken,
         groups'[Top + 1].at = Len(nestedIfs) + 1
  PROVE  Entries'
<1> PICK n \in Nat, m \in Nat : n = Top /\ m = Len(nestedIfs)
    BY DEF Basic
<1>1. /\ Len(groups) = n /\ Len(groups') = n + 1
      /\ \A i \in 1..n : groups'[i] = groups[i] /\ groups[i].at \in Nat
      /\ groups'[n + 1].live /\ groups'[n + 1].taken /\ groups'[n + 1].at = m + 1
      BY DEF Kept, Top, Basic
<1>2. /\ Len(nestedIfs') = m + 1
      /\ \A p \in 1..m : nestedIfs'[p] = nestedIfs[p]
      /\ nestedIfs'[m + 1] # "Else"
      BY DEF Pushed, Stacked
<1>3. /\ \A i \in 1..n + 1 : i = n + 1 \/ i \in 1..n
      /\ \A p \in 1..m + 1 : p = m + 1 \/ p \in 1..m
      OBVIOUS
<1>4. \A i \in 1..n : groups[i].at <= m
      BY <1>1 DEF Entries, Owned
<1>5. Owned'
  <2> SUFFICES ASSUME NEW i \in 1..n + 1
               PROVE  /\ groups'[i].live => groups'[i].taken /\ groups'[i].at # 0
                      /\ groups'[i].at <= m + 1
      BY <1>1, <1>2 DEF Owned
  <2>1. CASE i = n + 1
        BY <1>1, <2>1
  <2>2. CASE i \in 1..n
    <3>1. groups[i].live => groups[i].taken /\ groups[i].at # 0
          BY <1>1, <2>2, Zenon DEF Entries, Owned
    <3>2. groups'[i].at <= m + 1
          BY <1>1, <1>4, <2>2
    <3> QED  BY <1>1, <2>2, <3>1, <3>2, Zenon
  <2> QED  BY <1>3, <2>1, <2>2
<1>6. Ordered'
  <2> SUFFICES ASSUME NEW j \in 1..n + 1, groups'[j].at # 0, NEW i \in 1..j - 1
               PROVE  groups'[i].at < groups'[j].at
      BY <1>1, Zenon DEF Ordered
  <2>1. i \in 1..n
        OBVIOUS
  <2>2. CASE j = n + 1
        BY <1>1, <1>4, <2>1, <2>2
  <2>3. CASE j \in 1..n
        BY <1>1, <2>1, <2>3, Zenon DEF Entries, Ordered
  <2> QED  BY <1>3, <2>2, <2>3
<1>7. ElsesOwned'
  <2> SUFFICES ASSUME NEW p \in 1..m + 1, nestedIfs'[p] = "Else"
               PROVE  \E i \in 1..n + 1 : groups'[i].at = p /\ groups'[i].els
      BY <1>1, <1>2, Zenon DEF ElsesOwned
  <2>1. p \in 1..m
        BY <1>2, <1>3, Zenon
  <2>2. PICK i \in 1..n : groups[i].at = p /\ groups[i].els
        BY <1>1, <1>2, <2>1, ZenonT(40) DEF Entries, ElsesOwned
  <2>3. i \in 1..n + 1
        OBVIOUS
  <2> QED  BY <1>1, <2>2, <2>3, Zenon
<1> QED  BY <1>5, <1>6, <1>7 DEF Entries

\* The next section of the last group is skipped: its entry stays.
LEMMA EntriesLeft ==
  ASSUME Basic, Basic', Entries, NEW els \in BOOLEAN, Changed(FALSE, els),
         ~groups[Top].els, UNCHANGED nestedIfs
  PROVE  Entries'
<1> PICK n \in Nat, m \in Nat : n = Top /\ m = Len(nestedIfs)
    BY DEF Basic
<1>1. /\ n # 0 /\ Len(groups) = n /\ Len(groups') = n
      /\ \A i \in 1..n - 1 : groups'[i] = groups[i]
      /\ ~groups'[n].live /\ groups'[n].at = groups[n].at
      /\ ~groups[n].els
      BY DEF Changed, Kept, Top
<1>2. n \in 1..n /\ \A i \in 1..n : i = n \/ i \in 1..n - 1
      BY <1>1
<1>3. \A i \in 1..n : groups'[i].at = groups[i].at
      BY <1>1, <1>2, Zenon
<1>4. Owned'
  <2>1. \A i \in 1..n : groups'[i].live => groups'[i].taken /\ groups'[i].at # 0
        BY <1>1, <1>2, Zenon DEF Entries, Owned
  <2>2. \A i \in 1..n : groups'[i].at <= Len(nestedIfs')
        BY <1>1, <1>3, Zenon DEF Entries, Owned
  <2> QED  BY <1>1, <2>1, <2>2, Zenon DEF Owned
<1>5. Ordered'
  <2>1. \A j \in 1..n : \A i \in 1..j - 1 : i \in 1..n
        OBVIOUS
  <2> QED  BY <1>1, <1>3, <2>1, Zenon DEF Entries, Ordered
<1>6. ElsesOwned'
  <2> SUFFICES ASSUME NEW p \in 1..Len(nestedIfs), nestedIfs[p] = "Else"
               PROVE  \E i \in 1..n : groups'[i].at = p /\ groups'[i].els
      BY <1>1 DEF ElsesOwned
  <2>1. PICK i \in 1..n : groups[i].at = p /\ groups[i].els
        BY <1>1, Zenon DEF Entries, ElsesOwned
  <2>2. i \in 1..n - 1
        BY <1>1, <1>2, <2>1, Zenon
  <2> QED  BY <1>1, <2>1, <2>2, Zenon
<1> QED  BY <1>4, <1>5, <1>6 DEF Entries

\* The next section of the last group is selected: it gets an entry of its own.
LEMMA EntriesEntered ==
  ASSUME Basic, Basic', Entries, NEW els \in BOOLEAN, Changed(TRUE, els),
         ~groups[Top].els, NEW e, Pushed(e), e = "Else" => els
  PROVE  Entries'
<1> PICK n \in Nat, m \in Nat : n = Top /\ m = Len(nestedIfs)
    BY DEF Basic
<1>1. /\ n # 0 /\ Len(groups) = n /\ Len(groups') = n
      /\ \A i \in 1..n - 1 : groups'[i] = groups[i]
      /\ groups'[n].live /\ groups'[n].taken /\ groups'[n].at = m + 1
      /\ (groups'[n].els <=> els) /\ ~groups[n].els
      BY DEF Changed, Kept, Top
<1>2. /\ Len(nestedIfs') = m + 1
      /\ \A p \in 1..m : nestedIfs'[p] = nestedIfs[p]
      /\ nestedIfs'[m + 1] = "Else" => els
      BY DEF Pushed, Stacked
<1>3. /\ n \in 1..n /\ \A i \in 1..n : i = n \/ i \in 1..n - 1
      /\ \A i \in 1..n - 1 : i \in 1..n
      /\ \A p \in 1..m + 1 : p = m + 1 \/ p \in 1..m
      BY <1>1
<1>4. \A i \in 1..n : groups[i].at <= m /\ groups[i].at \in Nat
      BY <1>1 DEF Entries, Owned, Basic
<1>5. Owned'
  <2>1. \A i \in 1..n - 1 : groups'[i].live => groups'[i].taken /\ groups'[i].at # 0
        BY <1>1, <1>3, Zenon DEF Entries, Owned
  <2>2. \A i \in 1..n - 1 : groups'[i].at <= m + 1
        BY <1>1, <1>3, <1>4
  <2>3. groups'[n].at # 0 /\ groups'[n].at <= m + 1
        BY <1>1
  <2> QED  BY <1>1, <1>2, <1>3, <2>1, <2>2, <2>3, Zenon DEF Owned
<1>6. Ordered'
  <2> SUFFICES ASSUME NEW j \in 1..n, groups'[j].at # 0, NEW i \in 1..j - 1
               PROVE  groups'[i].at < groups'[j].at
      BY <1>1, Zenon DEF Ordered
  <2>1. i \in 1..n - 1
        OBVIOUS
  <2>2. CASE j = n
        BY <1>1, <1>3, <1>4, <2>1, <2>2
  <2>3. CASE j \in 1..n - 1
        BY <1>1, <1>3, <2>1, <2>3, Zenon DEF Entries, Ordered
  <2> QED  BY <1>3, <2>2, <2>3
<1>7. ElsesOwned'
  <2> SUFFICES ASSUME NEW p \in 1..m + 1, nestedIfs'[p] = "Else"
               PROVE  \E i \in 1..n : groups'[i].at = p /\ groups'[i].els
      BY <1>1, <1>2, Zenon DEF ElsesOwned
  <2>1. CASE p = m + 1
        BY <1>1, <1>2, <1>3, <2>1, Zenon
  <2>2. CASE p \in 1..m
    <3>1. PICK i \in 1..n : groups[i].at = p /\ groups[i].els
          BY <1>1, <1>2, <2>2, ZenonT(40) DEF Entries, ElsesOwned
    <3>2. i \in 1..n - 1
          BY <1>1, <1>3, <3>1, Zenon
    <3> QED  BY <1>1, <1>3, <3>1, <3>2, Zenon
  <2> QED  BY <1>3, <2>1, <2>2
<1> QED  BY <1>5, <1>6, <1>7 DEF Entries

\* The last group closes and takes an entry with it: its own, or one that was
\* left over above it, but never another group's.
LEMMA EntriesPopped ==
  ASSUME Basic, Basic', Entries, Top # 0, Top' = Top - 1, Kept(Top - 1),
         Len(nestedIfs) # 0, Len(nestedIfs') = Len(nestedIfs) - 1,
         Stacked(Len(nestedIfs) - 1), groups[Top].at # 0,
         groups[Top].els => groups[Top].at = Len(nestedIfs)
  PROVE  Entries'
<1> PICK n \in Nat, m \in Nat : n = Top /\ m = Len(nestedIfs)
    BY DEF Basic
<1>1. /\ n # 0 /\ Len(groups) = n /\ Len(groups') = n - 1
      /\ \A i \in 1..n - 1 : groups'[i] = groups[i]
      /\ groups[n].at # 0 /\ (groups[n].els => groups[n].at = m)
      BY DEF Kept, Top
<1>2. /\ Len(nestedIfs') = m - 1 /\ m # 0
      /\ \A p \in 1..m - 1 : nestedIfs'[p] = nestedIfs[p]
      BY DEF Stacked
<1>3. /\ n \in 1..n /\ \A i \in 1..n : i = n \/ i \in 1..n - 1
      /\ \A i \in 1..n - 1 : i \in 1..n
      /\ \A p \in 1..m - 1 : p \in 1..m /\ p # m
      BY <1>1
<1>4. \A i \in 1..n - 1 : groups[i].at <= m - 1
  <2> TAKE i \in 1..n - 1
  <2>1. groups[i].at < groups[n].at
        BY <1>1, <1>3, Zenon DEF Entries, Ordered
  <2>2. groups[n].at <= m
        BY <1>1, <1>3, Zenon DEF Entries, Owned
  <2>3. groups[i].at \in Nat /\ groups[n].at \in Nat
        BY <1>3 DEF Basic
  <2> QED  BY <2>1, <2>2, <2>3
<1>5. Owned'
      BY <1>1, <1>2, <1>3, <1>4, Zenon DEF Entries, Owned
<1>6. Ordered'
  <2>1. \A j \in 1..n - 1 : \A i \in 1..j - 1 : i \in 1..n - 1
        OBVIOUS
  <2> QED  BY <1>1, <1>3, <2>1, Zenon DEF Entries, Ordered
<1>7. ElsesOwned'
  <2> SUFFICES ASSUME NEW p \in 1..m - 1, nestedIfs'[p] = "Else"
               PROVE  \E i \in 1..n - 1 : groups'[i].at = p /\ groups'[i].els
      BY <1>1, <1>2, Zenon DEF ElsesOwned
  <2>1. PICK i \in 1..n : groups[i].at = p /\ groups[i].els
        BY <1>1, <1>2, <1>3, Zenon DEF Entries, ElsesOwned
  <2>2. i \in 1..n - 1
        BY <1>1, <1>3, <2>1, Zenon
  <2> QED  BY <1>1, <2>1, <2>2, Zenon
<1> QED  BY <1>5, <1>6, <1>7 DEF Entries

\* The last group closes and its entry, if it has one, is left over.
LEMMA EntriesLeaked ==
  ASSUME Basic, Basic', Entries, Top # 0, Top' = Top - 1, Kept(Top - 1),
         UNCHANGED nestedIfs,
         groups[Top].els /\ groups[Top].at # 0 => nestedIfs[groups[Top].at] # "Else"
  PROVE  Entries'
<1> PICK n \in Nat, m \in Nat : n = Top /\ m = Len(nestedIfs)
    BY DEF Basic
<1>1. /\ n # 0 /\ Len(groups) = n /\ Len(groups') = n - 1
      /\ \A i \in 1..n - 1 : groups'[i] = groups[i]
      /\ groups[n].els /\ groups[n].at # 0 => nestedIfs[groups[n].at] # "Else"
      BY DEF Kept, Top
<1>3. /\ n \in 1..n /\ \A i \in 1..n : i = n \/ i \in 1..n - 1
      /\ \A i \in 1..n - 1 : i \in 1..n
      /\ \A p \in 1..m : p # 0
      BY <1>1
<1>5. Owned'
      BY <1>1, <1>3, Zenon DEF Entries, Owned
<1>6. Ordered'
  <2>1. \A j \in 1..n - 1 : \A i \in 1..j - 1 : i \in 1..n - 1
        OBVIOUS
  <2> QED  BY <1>1, <1>3, <2>1, Zenon DEF Entries, Ordered
<1>7. ElsesOwned'
  <2> SUFFICES ASSUME NEW p \in 1..m, nestedIfs[p] = "Else"
               PROVE  \E i \in 1..n - 1 : groups'[i].at = p /\ groups'[i].els
      BY <1>1, Zenon DEF ElsesOwned
  <2>1. PICK i \in 1..n : groups[i].at = p /\ groups[i].els
        BY <1>1, Zenon DEF Entries, ElsesOwned
  <2>2. i \in 1..n - 1
        BY <1>1, <1>3, <2>1, Zenon
  <2> QED  BY <1>1, <2>1, <2>2, Zenon
<1> QED  BY <1>5, <1>6, <1>7 DEF Entries

-----------------------------------------------------------------------------
(* Every line preserves the invariant.                                      *)

Good == Modes /\ Entries

\* In a live group before its #else the stack ends in an entry that an #elif
\* or an #else may follow.
LEMMA TopEntry ==
  ASSUME TypeOK, Good, mode = "active", Top # 0, ~groups[Top].els
  PROVE  /\ groups[Top].taken
         /\ groups[Top].at \in 1..Len(nestedIfs)
         /\ nestedIfs[groups[Top].at] # "Else"
         /\ nestedIfs # <<>> /\ LastOf(nestedIfs) \in Chained
<1>0. Basic
      BY Basics
<1> PICK n \in Nat, m \in Nat : n = Top /\ m = Len(nestedIfs)
    BY <1>0 DEF Basic
<1>1. n # 0 /\ n \in 1..n /\ Len(groups) = n /\ DOMAIN groups = 1..n
      BY <1>0 DEF Top, Basic
<1>2. \A i \in 1..n : groups[i].at \in Nat /\ groups[i].at <= m
      BY <1>0, <1>1 DEF Basic, Good, Entries, Owned
<1>3. groups[n].live /\ groups[n].taken /\ groups[n].at # 0
      BY <1>1, Zenon DEF Good, Modes, AllLive, Entries, Owned
<1>4. groups[n].at \in 1..m /\ m \in 1..m
      BY <1>1, <1>2, <1>3
<1>5. \A i \in 1..n - 1 : groups[i].at < groups[n].at
      BY <1>1, <1>3, Zenon DEF Good, Entries, Ordered
<1>6. ASSUME NEW p \in 1..m, groups[n].at <= p
      PROVE  nestedIfs[p] # "Else"
  <2> SUFFICES ASSUME nestedIfs[p] = "Else" PROVE FALSE
      OBVIOUS
  <2>1. PICK i \in 1..n : groups[i].at = p /\ groups[i].els
        BY <1>1, Zenon DEF Good, Entries, ElsesOwned
  <2>2. i \in 1..n - 1
        BY <1>1, <2>1
  <2> QED  BY <1>1, <1>2, <1>5, <1>6, <2>1, <2>2
<1>7. nestedIfs[groups[n].at] # "Else" /\ nestedIfs[m] # "Else"
      BY <1>1, <1>2, <1>4, <1>6
<1>8. nestedIfs \in Seq({"If", "Elif", "Else"}) /\ nestedIfs # <<>>
      BY <1>4 DEF TypeOK
<1>9. LastOf(nestedIfs) \in Chained
      BY <1>7, <1>8, FrontLast DEF LastOf, Chained
<1> QED  BY <1>3, <1>4, <1>7, <1>8, <1>9

\* An #if where text is selected.
LEMMA IfStep ==
  ASSUME TypeOK, TypeOK', Good, NEW cond \in Conditions, If(cond), Sound'
  PROVE  Good' /\ result' = "none"
<1>0. Basic /\ Basic'
      BY Basics, BasicsNext
<1>1. /\ mode = "active" /\ AllLive /\ SourceIf(cond)
      BY DEF If, Skipping, Good, Modes
<1> PICK n \in Nat : n = Top
    BY <1>0 DEF Basic
<1>2. /\ Top' = n + 1 /\ Kept(Top) /\ cond # "bad" /\ Len(groups') = n + 1
      BY <1>1, IfGroups DEF Top
<1>3. \A i \in 1..n : groups'[i] = groups[i] /\ groups[i].live
      BY <1>0, <1>1, <1>2, Zenon DEF Kept, AllLive, Basic
<1>4. /\ DOMAIN groups' = 1..n + 1 /\ n + 1 \in 1..n + 1
      /\ \A i \in 1..n + 1 : i = n + 1 \/ i \in 1..n
      BY <1>0, <1>2 DEF Basic
<1>5. CASE cond = "true"
  <2>1. /\ groups'[Top + 1] = Group(TRUE, TRUE, Len(nestedIfs) + 1)
        /\ nestedIfs' = Append(nestedIfs, "If") /\ mode' = "active" /\ result' = "none"
        BY <1>1, <1>5, IfGroups DEF If, Push, Give
  <2>2. /\ groups'[Top + 1].live /\ groups'[Top + 1].taken
        /\ groups'[Top + 1].at = Len(nestedIfs) + 1
        BY <2>1 DEF Group
  <2>3. Modes'
        BY <1>3, <1>4, <2>1, <2>2, Zenon DEF Modes, AllLive
  <2>4. Pushed("If")
        BY <2>1, Stacks
  <2>5. Entries'
        BY <1>0, <1>2, <2>2, <2>4, EntriesPushed DEF Good
  <2> QED  BY <2>1, <2>3, <2>5 DEF Good
<1>6. CASE cond = "false"
  <2>1. /\ groups'[Top + 1] = Group(FALSE, FALSE, 0) /\ nestedIfs' = nestedIfs
        /\ mode' = "consume_if" /\ depth' = 1 /\ result' = "none"
        BY <1>1, <1>6, IfGroups DEF If, Skip, Give
  <2>2. /\ ~groups'[Top + 1].live /\ ~groups'[Top + 1].taken /\ ~groups'[Top + 1].els
        /\ groups'[Top + 1].at = 0
        BY <2>1 DEF Group
  <2>3. PICK k \in Nat : k = n + 1
        OBVIOUS
  <2>4. /\ k - 1 = n /\ Len(groups') - k + 1 = 1 /\ k \in 1..Len(groups')
        /\ ~ \E i \in k + 1..Len(groups') : TRUE
        BY <1>2, <2>3
  <2>5. SkipsFrom(k)'
        BY <1>3, <2>1, <2>2, <2>3, <2>4, Zenon DEF SkipsFrom
  <2>6. Modes'
        BY <2>1, <2>4, <2>5, Zenon DEF Modes
  <2>7. Entries'
        BY <1>0, <1>2, <2>1, <2>2, EntriesOpened DEF Good
  <2> QED  BY <2>1, <2>6, <2>7 DEF Good
<1> QED  BY <1>2, <1>5, <1>6 DEF Conditions

\* After a selected section the rest of the group is skipped.
LEMMA LeaveStep ==
  ASSUME TypeOK, TypeOK', Good, mode = "active", NEW els \in BOOLEAN,
         Top # 0, ~groups[Top].els, Changed(FALSE, els), Skip("consume_all")
  PROVE  Good'
<1>0. Basic /\ Basic'
      BY Basics, BasicsNext
<1>1. /\ groups[Top].taken /\ groups[Top].at \in 1..Len(nestedIfs)
      /\ nestedIfs[groups[Top].at] # "Else"
      BY TopEntry
<1>2. mode' = "consume_all" /\ depth' = 1 /\ nestedIfs' = nestedIfs
      BY DEF Skip
<1>3. PICK k \in Nat : k = Top
      BY <1>0 DEF Basic
<1>4. /\ Len(groups') = k /\ \A i \in 1..k - 1 : groups'[i] = groups[i]
      /\ groups'[k].taken /\ ~groups'[k].live /\ groups'[k].at = groups[k].at
      BY <1>1, <1>3, Zenon DEF Changed, Kept
<1>5. /\ k \in 1..k /\ k - k + 1 = 1 /\ ~ \E i \in k + 1..k : TRUE
      /\ \A i \in 1..k - 1 : i \in DOMAIN groups
      BY <1>0, <1>3 DEF Basic
<1>6. \A i \in 1..k - 1 : groups[i].live
      BY <1>5, Zenon DEF Good, Modes, AllLive
<1>7. SkipsFrom(k)'
      BY <1>1, <1>2, <1>3, <1>4, <1>5, <1>6, Zenon DEF SkipsFrom
<1>8. Modes'
      BY <1>2, <1>4, <1>5, <1>7, Zenon DEF Modes
<1>9. Entries'
      BY <1>0, <1>2, EntriesLeft DEF Good
<1> QED  BY <1>8, <1>9 DEF Good

\* An #elif after a selected section.
LEMMA ElifStep ==
  ASSUME TypeOK, TypeOK', Good, NEW cond \in Conditions, Elif(cond), Sound'
  PROVE  Good' /\ result' = "none"
<1>1. mode = "active" /\ SourceElif(cond)
      BY DEF Elif, Skipping
<1>2. /\ ~groups[Top].els /\ Top # 0
      /\ Changed(~groups[Top].taken /\ cond = "true", FALSE)
      BY <1>1, ElifGroups DEF Changed
<1>3. groups[Top].taken /\ nestedIfs # <<>> /\ LastOf(nestedIfs) \in Chained
      BY <1>1, <1>2, TopEntry
<1>4. Changed(FALSE, FALSE)
      BY <1>2, <1>3, Zenon DEF Changed
<1>5. Skip("consume_all")
      BY <1>3, Zenon DEF Elif
<1>6. Good'
      BY <1>1, <1>2, <1>4, <1>5, LeaveStep
<1> QED  BY <1>5, <1>6 DEF Skip, Give

\* An #else after a selected section.
LEMMA ElseStep ==
  ASSUME TypeOK, TypeOK', Good, Else, Sound'
  PROVE  Good' /\ result' = "none"
<1>1. mode = "active" /\ SourceElse
      BY DEF Else, Skipping
<1>2. /\ ~groups[Top].els /\ Top # 0
      /\ Changed(~groups[Top].taken, TRUE)
      BY <1>1, ElseGroups DEF Changed
<1>3. groups[Top].taken /\ nestedIfs # <<>> /\ LastOf(nestedIfs) \in Chained
      BY <1>1, <1>2, TopEntry
<1>4. Changed(FALSE, TRUE)
      BY <1>2, <1>3, Zenon DEF Changed
<1>5. Skip("consume_all")
      BY <1>3, Zenon DEF Else
<1>6. Good'
      BY <1>1, <1>2, <1>4, <1>5, LeaveStep
<1> QED  BY <1>5, <1>6 DEF Skip, Give

\* An #endif where text is selected.
LEMMA EndIfStep ==
  ASSUME TypeOK, TypeOK', Good, EndIf, Sound'
  PROVE  Good' /\ result' = "none"
<1>0. Basic /\ Basic'
      BY Basics, BasicsNext
<1>1. mode = "active" /\ AllLive /\ SourceEndIf
      BY DEF EndIf, Skipping, Good, Modes
<1>2. /\ Top # 0 /\ Top' = Top - 1 /\ Kept(Top - 1)
      /\ groups[Top].els => groups[Top].at = Len(nestedIfs)
      BY <1>1, EndIfGroups DEF Top
<1> PICK n \in Nat : n = Top
    BY <1>0 DEF Basic
<1>3. n \in 1..n /\ n # 0 /\ \A i \in 1..n - 1 : i \in 1..n
      BY <1>2
<1>4. groups[Top].at # 0 /\ groups[Top].at \in Nat /\ groups[Top].at <= Len(nestedIfs)
  <2>1. groups[n].live
        BY <1>0, <1>1, <1>3, Zenon DEF AllLive, Basic
  <2> QED  BY <1>0, <1>3, <2>1, Zenon DEF Good, Entries, Owned, Basic, Top
<1>5. nestedIfs # <<>>
      BY <1>4
<1>6. nestedIfs' = Popped /\ result' = "none" /\ mode' = "active"
      BY <1>1, <1>5, Zenon DEF EndIf, Give
<1>7. Entries'
      BY <1>0, <1>2, <1>4, <1>5, <1>6, Stacks, EntriesPopped DEF Good
<1>8. Modes'
  <2>1. DOMAIN groups' = 1..n - 1 /\ \A i \in 1..n - 1 : groups'[i] = groups[i]
        BY <1>0, <1>2 DEF Basic, Kept
  <2> QED  BY <1>0, <1>1, <1>3, <1>6, <2>1, Zenon DEF Modes, AllLive, Basic
<1> QED  BY <1>6, <1>7, <1>8 DEF Good

\* An #if in skipped text.
LEMMA SkipIfStep ==
  ASSUME TypeOK, TypeOK', Good, NEW cond \in Conditions, SkipIf(cond), Sound'
  PROVE  Good' /\ result' = "none"
<1>0. Basic /\ Basic'
      BY Basics, BasicsNext
<1>1. /\ mode # "active" /\ SourceIf(cond) /\ mode' = mode /\ nestedIfs' = nestedIfs
      /\ depth' = depth + 1 /\ result' = "none"
      BY DEF SkipIf, Skipping, Deeper, Give
<1> PICK n \in Nat : n = Top
    BY <1>0 DEF Basic
<1>2. PICK k \in 1..Len(groups) : SkipsFrom(k)
      BY <1>1 DEF Good, Modes
<1>3. ~AllLive
      BY <1>0, <1>2, Zenon DEF AllLive, SkipsFrom, Basic, Top
<1>4. /\ Len(groups') = n + 1 /\ Kept(Top) /\ Top' = Top + 1
      /\ groups'[Top + 1] = Group(TRUE, FALSE, 0)
      BY <1>1, <1>3, IfGroups DEF Top
<1>5. /\ groups'[Top + 1].taken /\ ~groups'[Top + 1].live /\ groups'[Top + 1].at = 0
      BY <1>4 DEF Group
<1>6. \A i \in 1..n : groups'[i] = groups[i]
      BY <1>4, Zenon DEF Kept
<1>7. /\ k \in 1..n /\ k \in 1..n + 1 /\ Len(groups) = n
      /\ \A i \in 1..k - 1 : i \in 1..n
      /\ \A i \in k + 1..n + 1 : i = n + 1 \/ (i \in 1..n /\ i \in k + 1..n)
      BY <1>2 DEF Top
<1>8. depth' = (n + 1) - k + 1
      BY <1>0, <1>1, <1>2, <1>7 DEF SkipsFrom, Basic
<1>9. SkipsFrom(k)'
      BY <1>1, <1>2, <1>4, <1>5, <1>6, <1>7, <1>8, Zenon DEF SkipsFrom
<1>10. Modes'
      BY <1>1, <1>4, <1>7, <1>9, Zenon DEF Modes
<1>11. Entries'
      BY <1>0, <1>1, <1>4, <1>5, EntriesOpened DEF Good
<1> QED  BY <1>1, <1>10, <1>11 DEF Good

\* An #elif or #else in skipped text that selects nothing.
LEMMA StayStep ==
  ASSUME TypeOK, TypeOK', Good, mode # "active", NEW k \in 1..Top, SkipsFrom(k),
         NEW els \in BOOLEAN, ~groups[Top].els, Changed(FALSE, els),
         k # Top \/ mode = "consume_all" \/ ~els, StackSame("none")
  PROVE  Good'
<1>0. Basic /\ Basic'
      BY Basics, BasicsNext
<1>1. mode' = mode /\ nestedIfs' = nestedIfs /\ depth' = depth
      BY DEF StackSame
<1> PICK n \in Nat : n = Top
    BY <1>0 DEF Basic
<1>2. /\ Len(groups') = n /\ Len(groups) = n
      /\ \A i \in 1..n - 1 : groups'[i] = groups[i]
      /\ (groups'[n].taken <=> groups[n].taken) /\ ~groups'[n].live
      /\ (groups'[n].els <=> els) /\ groups'[n].at = groups[n].at
      BY Zenon DEF Changed, Kept, Top
<1>3. /\ \A i \in 1..n : i = n \/ i \in 1..n - 1
      /\ \A i \in 1..k - 1 : i \in 1..n - 1
      /\ \A i \in k + 1..n : i \in 1..n
      OBVIOUS
<1>4. \A i \in 1..n : /\ groups'[i].taken <=> groups[i].taken
                      /\ groups'[i].at = groups[i].at
                      /\ groups'[i].live => groups[i].live
      BY <1>2, <1>3, Zenon
<1>5. /\ ~groups'[k].live
      /\ \A i \in 1..k - 1 : groups'[i].live
      /\ \A i \in k + 1..n : groups'[i].taken /\ ~groups'[i].live /\ groups'[i].at = 0
      BY <1>2, <1>3, <1>4, Zenon DEF SkipsFrom
<1>6. mode = "consume_if" => ~groups'[k].els
      BY <1>2, <1>3, Zenon DEF SkipsFrom
<1>7. SkipsFrom(k)'
      BY <1>1, <1>2, <1>4, <1>5, <1>6, Zenon DEF SkipsFrom
<1>8. Modes'
      BY <1>1, <1>2, <1>7, Zenon DEF Modes
<1>9. Entries'
      BY <1>0, <1>1, EntriesLeft DEF Good
<1> QED  BY <1>8, <1>9 DEF Good

\* An #elif or #else that selects its section.
LEMMA EnterStep ==
  ASSUME TypeOK, TypeOK', Good, SkipsFrom(Top), NEW els \in BOOLEAN,
         ~groups[Top].els, Changed(TRUE, els), NEW e \in {"If", "Elif", "Else"},
         e = "Else" => els, Push(e), Activate
  PROVE  Good'
<1>0. Basic /\ Basic'
      BY Basics, BasicsNext
<1>1. mode' = "active" /\ Pushed(e)
      BY Stacks DEF Activate, Push
<1> PICK n \in Nat : n = Top
    BY <1>0 DEF Basic
<1>2. /\ Len(groups') = n
      /\ \A i \in 1..n - 1 : groups'[i] = groups[i]
      /\ groups'[n].live
      BY Zenon DEF Changed, Kept
<1>3. DOMAIN groups' = 1..n /\ \A i \in 1..n : i = n \/ i \in 1..n - 1
      BY <1>0, <1>2 DEF Basic, Top
<1>4. Modes'
      BY <1>1, <1>2, <1>3, Zenon DEF SkipsFrom, Modes, AllLive
<1>5. Entries'
      BY <1>0, <1>1, EntriesEntered DEF Good
<1> QED  BY <1>4, <1>5 DEF Good

\* In skipped text the depth is 1 exactly in the group it is skipped for.
LEMMA DepthOne ==
  ASSUME Basic, NEW k \in 1..Top, SkipsFrom(k)
  PROVE  /\ (depth = 1 <=> k = Top) /\ (depth > 1 <=> k # Top)
         /\ k # Top => Top \in k + 1..Len(groups)
<1>1. PICK n \in Nat : n = Top
      BY DEF Basic
<1>2. k \in 1..n /\ Len(groups) = n /\ depth = n - k + 1
      BY <1>1 DEF SkipsFrom, Top
<1> QED  BY <1>1, <1>2

\* An #elif in skipped text.
LEMMA SkipElifStep ==
  ASSUME TypeOK, TypeOK', Good, NEW cond \in Conditions, SkipElif(cond), Sound'
  PROVE  Good' /\ result' = "none"
<1>0. Basic
      BY Basics
<1>1. mode # "active" /\ SourceElif(cond)
      BY DEF SkipElif, Skipping
<1>2. /\ ~groups[Top].els /\ Top # 0 /\ (~groups[Top].taken => cond # "bad")
      /\ Changed(~groups[Top].taken /\ cond = "true", FALSE)
      BY <1>1, ElifGroups DEF Changed
<1>3. PICK k \in 1..Top : SkipsFrom(k)
      BY <1>1 DEF Good, Modes, Top
<1>4. /\ (depth = 1 <=> k = Top) /\ (depth > 1 <=> k # Top)
      /\ k # Top => Top \in k + 1..Len(groups)
      BY <1>0, <1>3, DepthOne
<1>5. CASE k # Top \/ mode = "consume_all"
  <2>1. groups[Top].taken
        BY <1>3, <1>4, <1>5, Zenon DEF SkipsFrom
  <2>2. Changed(FALSE, FALSE)
        BY <1>2, <2>1, Zenon DEF Changed
  <2>3. StackSame("none")
        BY <1>4, <1>5 DEF SkipElif
  <2> QED  BY <1>1, <1>2, <1>3, <1>5, <2>2, <2>3, StayStep DEF StackSame, Give
<1>6. CASE k = Top /\ mode = "consume_if"
  <2>1. ~groups[Top].taken /\ cond # "bad"
        BY <1>2, <1>3, <1>6, Zenon DEF SkipsFrom
  <2>2. CASE cond = "false"
    <3>1. StackSame("none")
          BY <1>4, <1>6, <2>2 DEF SkipElif
    <3>2. Changed(FALSE, FALSE)
          BY <1>2, <2>2 DEF Changed
    <3> QED  BY <1>1, <1>2, <1>3, <1>6, <3>1, <3>2, StayStep DEF StackSame, Give
  <2>3. CASE cond = "true"
    <3>1. Push("Elif") /\ Activate
          BY <1>4, <1>6, <2>3 DEF SkipElif
    <3>2. Changed(TRUE, FALSE)
          BY <1>2, <2>1, <2>3, Zenon DEF Changed
    <3> QED  BY <1>2, <1>3, <1>6, <3>1, <3>2, EnterStep DEF Push, Give
  <2> QED  BY <2>1, <2>2, <2>3 DEF Conditions
<1> QED  BY <1>1, <1>5, <1>6 DEF TypeOK

\* An #else in skipped text.
LEMMA SkipElseStep ==
  ASSUME TypeOK, TypeOK', Good, SkipElse, Sound'
  PROVE  Good' /\ result' = "none"
<1>0. Basic
      BY Basics
<1>1. mode # "active" /\ SourceElse
      BY DEF SkipElse, Skipping
<1>2. ~groups[Top].els /\ Top # 0 /\ Changed(~groups[Top].taken, TRUE)
      BY <1>1, ElseGroups DEF Changed
<1>3. PICK k \in 1..Top : SkipsFrom(k)
      BY <1>1 DEF Good, Modes, Top
<1>4. /\ (depth = 1 <=> k = Top) /\ (depth > 1 <=> k # Top)
      /\ k # Top => Top \in k + 1..Len(groups)
      BY <1>0, <1>3, DepthOne
<1>5. CASE k # Top \/ mode = "consume_all"
  <2>1. groups[Top].taken
        BY <1>3, <1>4, <1>5, Zenon DEF SkipsFrom
  <2>2. Changed(FALSE, TRUE)
        BY <1>2, <2>1, Zenon DEF Changed
  <2>3. StackSame("none")
        BY <1>4, <1>5 DEF SkipElse
  <2> QED  BY <1>1, <1>2, <1>3, <1>5, <2>2, <2>3, StayStep DEF StackSame, Give
<1>6. CASE k = Top /\ mode = "consume_if"
  <2>1. ~groups[Top].taken
        BY <1>3, <1>6, Zenon DEF SkipsFrom
  <2>2. Push("Else") /\ Activate
        BY <1>4, <1>6 DEF SkipElse
  <2>3. Changed(TRUE, TRUE)
        BY <1>2, <2>1, Zenon DEF Changed
  <2> QED  BY <1>2, <1>3, <1>6, <2>2, <2>3, EnterStep DEF Push, Give
<1> QED  BY <1>1, <1>5, <1>6 DEF TypeOK

\* An #endif in skipped text.
LEMMA SkipEndIfStep ==
  ASSUME TypeOK, TypeOK', Good, SkipEndIf, Sound'
  PROVE  Good' /\ result' = "none"
<1>0. Basic /\ Basic'
      BY Basics, BasicsNext
<1>1. mode # "active" /\ SourceEndIf /\ nestedIfs' = nestedIfs /\ result' = "none"
      BY DEF SkipEndIf, Skipping, Give
<1>2. Top # 0 /\ Top' = Top - 1 /\ Kept(Top - 1) /\ Len(groups') = Top - 1
      BY <1>1, EndIfGroups DEF Top
<1>3. PICK k \in 1..Top : SkipsFrom(k)
      BY <1>1 DEF Good, Modes, Top
<1>4. /\ (depth = 1 <=> k = Top) /\ (depth > 1 <=> k # Top)
      /\ k # Top => Top \in k + 1..Len(groups)
      BY <1>0, <1>3, DepthOne
<1> PICK n \in Nat : n = Top
    BY <1>0 DEF Basic
<1>5. /\ k # n => n \in k + 1..n /\ k \in 1..n - 1
      /\ \A i \in 1..k - 1 : i \in 1..n - 1
      /\ \A i \in k + 1..n - 1 : i \in 1..n - 1 /\ i \in k + 1..n
      /\ n = Len(groups)
      BY DEF Top
<1>6. groups[Top].els /\ groups[Top].at # 0 => nestedIfs[groups[Top].at] # "Else"
  <2>1. mode = "consume_if" \/ mode = "consume_all"
        BY <1>1 DEF TypeOK
  <2> QED  BY <1>3, <1>5, <2>1, Zenon DEF SkipsFrom
<1>7. Entries'
      BY <1>0, <1>1, <1>2, <1>6, EntriesLeaked DEF Good
<1>8. \A i \in 1..n - 1 : groups'[i] = groups[i]
      BY <1>2, Zenon DEF Kept
<1>9. CASE k = Top
  <2>1. mode' = "active"
        BY <1>4, <1>9, Zenon DEF SkipEndIf, LoopEnds, Activate
  <2>2. DOMAIN groups' = 1..n - 1
        BY <1>0, <1>2 DEF Basic
  <2>3. Modes'
        BY <1>3, <1>8, <1>9, <2>1, <2>2, Zenon DEF SkipsFrom, Modes, AllLive
  <2> QED  BY <1>1, <1>7, <2>3 DEF Good
<1>10. CASE k # Top
  <2>1. mode' = mode /\ depth' = depth - 1
        BY <1>4, <1>10, Zenon DEF SkipEndIf, LoopEnds
  <2>2. depth' = (n - 1) - k + 1
        BY <1>3, <1>5, <2>1 DEF SkipsFrom
  <2>3. SkipsFrom(k)'
        BY <1>1, <1>2, <1>3, <1>5, <1>8, <1>10, <2>1, <2>2, Zenon DEF SkipsFrom
  <2>4. Modes'
        BY <1>1, <1>2, <1>5, <1>10, <2>1, <2>3, Zenon DEF Modes
  <2> QED  BY <1>1, <1>7, <2>4 DEF Good
<1> QED  BY <1>9, <1>10

-----------------------------------------------------------------------------
(* The invariant, and what follows from it.                                 *)

\* Nothing is skipped and no entry exists before the first line.
LEMMA InitInv == Init => IInv
<1> SUFFICES ASSUME Init PROVE IInv
    OBVIOUS
<1>1. /\ TypeOK /\ mode = "active" /\ groups = <<>> /\ nestedIfs = <<>>
      /\ result = "none"
      BY InitTyped DEF Init
<1>2. Modes
      BY <1>1 DEF Modes, AllLive
<1>3. Entries
      BY <1>1 DEF Entries, Owned, Ordered, ElsesOwned
<1> QED  BY <1>1, <1>2, <1>3 DEF IInv

\* Every step keeps the invariant, one lemma for each kind of line.
LEMMA NextInv ==
  ASSUME IInv, DepthOK, [Next]_vars
  PROVE  IInv'
<1>0. TypeOK /\ TypeOK'
      BY NextTyped DEF IInv
<1>1. CASE UNCHANGED vars
      BY <1>0, <1>1, Zenon
         DEF vars, code, ghost, IInv, Sound, Modes, AllLive, SkipsFrom,
             Entries, Owned, Ordered, ElsesOwned
<1>2. CASE EndOfFile
  <2>1. /\ UNCHANGED <<nestedIfs, mode, depth, groups, conforming, elseLost>>
        /\ ended' = TRUE
        BY <1>2 DEF EndOfFile, ghost
  <2> QED  BY <1>0, <2>1, Zenon
              DEF IInv, Sound, Modes, AllLive, SkipsFrom,
                  Entries, Owned, Ordered, ElsesOwned
<1>3. CASE Next /\ ~EndOfFile
  <2> SUFFICES ASSUME Sound' PROVE Good' /\ result' = "none"
      BY <1>0 DEF IInv, Good
  <2>1. Sound
    <3>1. PICK cond \in Conditions :
             SourceIf(cond) \/ SourceElif(cond) \/ SourceElse \/ SourceEndIf
          BY <1>3 DEF Next, If, Elif, Else, EndIf, SkipIf, SkipElif, SkipElse,
                      SkipEndIf, Conditions
    <3> QED  BY <1>0, <3>1, IfGroups, ElifGroups, ElseGroups, EndIfGroups
  <2>2. Good
        BY <2>1 DEF IInv, Good
  <2>3. ASSUME NEW cond \in Conditions,
               If(cond) \/ Elif(cond) \/ SkipIf(cond) \/ SkipElif(cond)
        PROVE  Good' /\ result' = "none"
        BY <1>0, <2>2, <2>3, IfStep, ElifStep, SkipIfStep, SkipElifStep
  <2>4. CASE Else \/ EndIf \/ SkipElse \/ SkipEndIf
        BY <1>0, <2>2, <2>4, ElseStep, EndIfStep, SkipElseStep, SkipEndIfStep
  <2> QED  BY <1>3, <2>3, <2>4 DEF Next
<1> QED  BY <1>1, <1>2, <1>3

\* The invariant holds in every state of every source.
THEOREM Invariant == Spec => []IInv
<1>1. Init => IInv /\ DepthOK
      BY InitInv, InitTyped
<1>2. IInv /\ DepthOK /\ [Next]_vars => (IInv /\ DepthOK)'
      BY NextInv, NextTyped DEF IInv
<1>3. Spec => [](IInv /\ DepthOK)
      BY <1>1, <1>2, PTL DEF Spec
<1> QED  BY <1>3, PTL

\* In a conforming source of any length and nesting, text is emitted exactly
\* where C selects it, as long as no #endif has left an Else entry behind.
THEOREM SelectionCorrect == Spec => []SelectionAgrees
<1>1. IInv => SelectionAgrees
  <2> SUFFICES ASSUME IInv, Sound
               PROVE  (mode = "active") <=> AllLive
      BY DEF SelectionAgrees, Sound
  <2>1. CASE mode = "active"
        BY <2>1 DEF IInv, Modes
  <2>2. CASE mode # "active"
    <3>1. PICK k \in 1..Len(groups) : SkipsFrom(k)
          BY <2>2 DEF IInv, Modes
    <3>2. DOMAIN groups = 1..Len(groups)
          BY Basics DEF IInv, Basic, Top
    <3> QED  BY <2>2, <3>1, <3>2, Zenon DEF AllLive, SkipsFrom
  <2> QED  BY <2>1, <2>2
<1> QED  BY <1>1, Invariant, PTL

\* Under the same condition no directive of a conforming source is reported.
THEOREM NoReport == Spec => []NoFalseError
<1>1. IInv => NoFalseError
      BY DEF IInv, Sound, NoFalseError
<1> QED  BY <1>1, Invariant, PTL

\* The depth counts the open groups from the skipped one, at any nesting.
THEOREM DepthCorrect == Spec => []DepthTracksNesting
<1>1. IInv => DepthTracksNesting
  <2> SUFFICES ASSUME IInv, Sound, mode # "active"
               PROVE  \E k \in DOMAIN groups :
                        /\ ~groups[k].live /\ \A i \in 1..k - 1 : groups[i].live
                        /\ depth = Len(groups) - k + 1
      BY Zenon DEF DepthTracksNesting, Skipping, Sound
  <2>1. PICK k \in 1..Len(groups) : SkipsFrom(k)
        BY DEF IInv, Modes
  <2>2. DOMAIN groups = 1..Len(groups)
        BY Basics DEF IInv, Basic, Top
  <2> QED  BY <2>1, <2>2, Zenon DEF SkipsFrom
<1> QED  BY <1>1, Invariant, PTL

\* No entry of an open group is ever popped by another group, and an Else
\* entry belongs to an open group past its #else.
THEOREM EntriesCorrect == Spec => []EntriesOwned
<1>1. IInv => EntriesOwned
  <2>1. IInv => /\ DOMAIN groups = 1..Len(groups)
                /\ DOMAIN nestedIfs = 1..Len(nestedIfs)
        BY Basics DEF IInv, Basic, Top
  <2> QED  BY <2>1, Zenon DEF IInv, Sound, EntriesOwned, Entries, Owned, ElsesOwned
<1> QED  BY <1>1, Invariant, PTL

=============================================================================
