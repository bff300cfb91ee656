----------------------------- MODULE Conditional -----------------------------
(***************************************************************************)
(* Conditional inclusion in the preprocessor, src/src/parser/lex/cpp.rs:   *)
(* the directives #if (#ifdef, #ifndef), #elif, #else and #endif, the      *)
(* stack nested_ifs and the two skipping states of consume_directive,      *)
(* "consume_if" and "consume_all" in the state diagram of IfState.         *)
(*                                                                         *)
(* The environment writes the source, one directive line at a time; lines  *)
(* of text and other directives change none of this state.  They reach the *)
(* output while the mode is "active".  Next to the code's state, groups    *)
(* holds what C11 6.10.1 says about the same source.                       *)
(***************************************************************************)
EXTENDS Naturals, Sequences

CONSTANT MaxLines     \* bound: the directive lines of a source

ASSUME MaxLinesAssumption == MaxLines \in Nat

Conditions == {"true", "false", "bad"}  \* "bad": boolean_expr or expect_id fails
Results    == {"none", "BadCondition", "UnexpectedElif", "UnexpectedElse",
               "UnexpectedEndIf", "UnterminatedIf"}

VARIABLES
  nestedIfs,   \* PreProcessor.nested_ifs
  mode,        \* in consume_directive, and with which consume_if, or not
  depth,       \* the local variable of consume_directive
  result,      \* the error of the last line, or "none"
  ended,       \* the file has ended
  lines,       \* directive lines so far
  groups,      \* ghost: the open groups of the source, innermost last
  conforming,  \* ghost: the source so far is a prefix of a conforming one
  elseLost     \* ghost: an #endif left the Else entry of its group behind

code  == <<nestedIfs, mode, depth, result>>
ghost == <<groups, conforming, elseLost>>
vars  == <<code, ended, lines, ghost>>

LastOf(s)  == s[Len(s)]
Front(s)   == SubSeq(s, 1, Len(s) - 1)

-----------------------------------------------------------------------------
(* The groups of the source.  taken: one of its sections has been selected  *)
(* (or its parent is skipped); live: the current section is selected; els:  *)
(* its #else has been seen; at: where its entry of nested_ifs was pushed.   *)

AllLive == \A i \in DOMAIN groups : groups[i].live

Group(taken, live, at) == [taken |-> taken, live |-> live, els |-> FALSE, at |-> at]

Opened(cond, at) ==
  Append(groups, IF ~AllLive THEN Group(TRUE, FALSE, 0)
                 ELSE IF cond THEN Group(TRUE, TRUE, at)
                 ELSE Group(FALSE, FALSE, 0))

\* the next section of the innermost group
NextSection(live, els, at) ==
  [groups EXCEPT ![Len(groups)] =
     [taken |-> @.taken \/ live, live |-> live, els |-> els,
      at |-> IF live THEN at ELSE @.at]]

\* a source that does not conform is no longer followed
Violates == conforming' = FALSE /\ UNCHANGED <<groups, elseLost>>

Follow(next) ==
  \/ ~conforming /\ UNCHANGED ghost
  \/ conforming /\ groups' = next /\ UNCHANGED <<conforming, elseLost>>

SourceIf(cond) ==
  IF cond = "bad" /\ (AllLive \/ ~conforming) THEN Violates
  ELSE Follow(Opened(cond = "true", Len(nestedIfs) + 1))

\* a condition is read only while no section has been taken
SourceElif(cond) ==
  IF ~conforming \/ groups = <<>> \/ LastOf(groups).els THEN Violates
  ELSE LET selected == ~LastOf(groups).taken /\ cond = "true"
       IN  IF ~LastOf(groups).taken /\ cond = "bad" THEN Violates
           ELSE Follow(NextSection(selected, FALSE, Len(nestedIfs) + 1))

SourceElse ==
  IF ~conforming \/ groups = <<>> \/ LastOf(groups).els THEN Violates
  ELSE Follow(NextSection(~LastOf(groups).taken, TRUE, Len(nestedIfs) + 1))

SourceEndIf ==
  IF ~conforming \/ groups = <<>> THEN Violates
  ELSE /\ groups' = Front(groups)
       /\ elseLost' = (elseLost \/
            /\ mode = "active" /\ LastOf(groups).els
            /\ LastOf(groups).at # Len(nestedIfs))
       /\ UNCHANGED conforming

-----------------------------------------------------------------------------
(* What a line does to the code's state.                                    *)

Give(res)       == result' = res
StackSame(res)  == Give(res) /\ UNCHANGED <<nestedIfs, mode, depth>>
Push(entry)     == nestedIfs' = Append(nestedIfs, entry) /\ Give("none")
Activate        == mode' = "active" /\ depth' = 0

SkipFromZero(how) ==          \* seeded defect: the group itself is not counted
  mode' = how /\ depth' = 0 /\ Give("none") /\ UNCHANGED nestedIfs

Skip(how) == mode' = how /\ depth' = 1 /\ Give("none") /\ UNCHANGED nestedIfs

NotDeeper == UNCHANGED depth  \* seeded defect: nested groups are not counted
Deeper    == depth' = depth + 1

Endless   == FALSE            \* seeded defect: the loop misses depth 0
LoopEnds  == depth = 1

Popped    == Front(nestedIfs)

OnlyIf    == {"If"}           \* seeded defect: no #else after #elif
Chained   == {"If", "Elif"}   \* the entries an #elif or #else may follow

Line ==
  /\ ~ended /\ lines < MaxLines
  /\ lines' = lines + 1
  /\ UNCHANGED ended

Skipping == mode # "active"

\* directive(If | IfDef | IfNDef) and if_directive
If(cond) ==
  /\ Line /\ ~Skipping
  /\ \/ cond = "bad"   /\ StackSame("BadCondition")
     \/ cond = "true"  /\ Push("If") /\ UNCHANGED <<mode, depth>>
     \/ cond = "false" /\ Skip("consume_if")
  /\ SourceIf(cond)

\* directive(Elif): the condition is not read
Elif(cond) ==
  /\ Line /\ ~Skipping
  /\ \/ nestedIfs = <<>> /\ StackSame("UnexpectedElif")
     \/ /\ nestedIfs # <<>> /\ LastOf(nestedIfs) \in Chained
        /\ Skip("consume_all")
     \/ /\ nestedIfs # <<>> /\ LastOf(nestedIfs) \notin Chained
        /\ StackSame("UnexpectedElif")
  /\ SourceElif(cond)

\* directive(Else)
Else ==
  /\ Line /\ ~Skipping
  /\ \/ nestedIfs = <<>> /\ StackSame("UnexpectedElse")
     \/ /\ nestedIfs # <<>> /\ LastOf(nestedIfs) \in Chained
        /\ Skip("consume_all")
     \/ /\ nestedIfs # <<>> /\ LastOf(nestedIfs) \notin Chained
        /\ StackSame("UnexpectedElse")
  /\ SourceElse

\* directive(EndIf)
EndIf ==
  /\ Line /\ ~Skipping
  /\ \/ nestedIfs = <<>> /\ StackSame("UnexpectedEndIf")
     \/ /\ nestedIfs # <<>>
        /\ nestedIfs' = Popped /\ Give("none")
        /\ UNCHANGED <<mode, depth>>
  /\ SourceEndIf

\* the same lines in the loop of consume_directive
SkipIf(cond) ==
  /\ Line /\ Skipping
  /\ Deeper /\ Give("none") /\ UNCHANGED <<nestedIfs, mode>>
  /\ SourceIf(cond)

SkipElif(cond) ==
  /\ Line /\ Skipping
  /\ \/ /\ depth > 1 \/ mode = "consume_all"
        /\ StackSame("none")
     \/ /\ depth = 1 /\ mode = "consume_if"
        /\ \/ cond = "bad"   /\ Give("BadCondition") /\ Activate /\ UNCHANGED nestedIfs
           \/ cond = "false" /\ StackSame("none")
           \/ cond = "true"  /\ Push("Elif") /\ Activate
  /\ SourceElif(cond)

SkipElse ==
  /\ Line /\ Skipping
  /\ \/ /\ depth > 1 \/ mode = "consume_all"
        /\ StackSame("none")
     \/ /\ depth = 1 /\ mode = "consume_if"
        /\ Push("Else") /\ Activate
  /\ SourceElse

\* at depth 0 the loop ends; nested_ifs is not popped
SkipEndIf ==
  /\ Line /\ Skipping
  /\ \/ ~LoopEnds /\ depth' = depth - 1 /\ UNCHANGED mode
     \/ LoopEnds /\ Activate
  /\ Give("none") /\ UNCHANGED nestedIfs
  /\ SourceEndIf

\* next_cpp_token returns None
EndOfFile ==
  /\ ~ended /\ ended' = TRUE
  /\ Give(IF Skipping THEN "UnterminatedIf" ELSE "none")
  /\ UNCHANGED <<nestedIfs, mode, depth, lines, ghost>>

-----------------------------------------------------------------------------

Init ==
  /\ nestedIfs = <<>> /\ mode = "active" /\ depth = 0 /\ result = "none"
  /\ ended = FALSE /\ lines = 0
  /\ groups = <<>> /\ conforming = TRUE /\ elseLost = FALSE

Next ==
  \/ \E cond \in Conditions : If(cond) \/ Elif(cond) \/ SkipIf(cond) \/ SkipElif(cond)
  \/ Else \/ EndIf \/ SkipElse \/ SkipEndIf \/ EndOfFile

Spec == Init /\ [][Next]_vars

-----------------------------------------------------------------------------
(* Properties.                                                              *)

TypeOK ==
  /\ nestedIfs \in Seq({"If", "Elif", "Else"})
  /\ mode \in {"active", "consume_if", "consume_all"}
  /\ depth \in Nat
  /\ result \in Results
  /\ ended \in BOOLEAN
  /\ lines \in 0..MaxLines
  /\ groups \in Seq([taken : BOOLEAN, live : BOOLEAN, els : BOOLEAN, at : Nat])
  /\ conforming \in BOOLEAN
  /\ elseLost \in BOOLEAN

\* consume_directive selects the text C selects: in a conforming source the
\* preprocessor emits text exactly where every group around it is selected,
\* through any nesting, as long as no #endif has left an Else entry behind.
SelectionAgrees ==
  conforming /\ ~elseLost => ((mode = "active") <=> AllLive)

\* ... and under the same condition no directive of it is reported.
NoFalseError ==
  conforming /\ ~elseLost /\ ~ended => result = "none"

\* While text is skipped, depth counts the groups from the first one that is
\* not selected, so the skipping ends at the right #endif.
DepthTracksNesting ==
  conforming /\ ~elseLost /\ Skipping =>
    \E k \in DOMAIN groups :
      /\ ~groups[k].live /\ \A i \in 1..k - 1 : groups[i].live
      /\ depth = Len(groups) - k + 1

\* Entries may be left over, but none is ever taken from an open group, and
\* an Else entry always belongs to an open group that is past its #else, so
\* no other group is taken to be.
EntriesOwned ==
  conforming /\ ~elseLost =>
    /\ \A i \in DOMAIN groups : groups[i].at <= Len(nestedIfs)
    /\ \A p \in DOMAIN nestedIfs : nestedIfs[p] = "Else" =>
         \E i \in DOMAIN groups : groups[i].at = p /\ groups[i].els

\* UnexpectedElse means that no #if is open or that its #else has been seen
\* (error.rs:484-487): a conforming source never gets it.
ElseErrorIsDeserved == result = "UnexpectedElse" => ~conforming

=============================================================================
