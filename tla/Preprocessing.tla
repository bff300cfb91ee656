---------------------------- MODULE Preprocessing ----------------------------
(***************************************************************************)
(* The two preprocessors at work on a source: the second one alone, as the *)
(* tests of cpp.rs run it, or both, as driver.rs does.  Each call of       *)
(* PreProcessor::next is taken apart at its returns, and replace() at the  *)
(* turns of its loop.                                                      *)
(***************************************************************************)
EXTENDS Replace, CMacros

CONSTANTS Sources,   \* a set of sequences of tokens
          MaxSteps   \* the turns of replace() that no source may exceed

VARIABLES
  source,     \* the tokens of the source file
  way,        \* "direct", or "both" preprocessors
  expanded,   \* what preprocess_v1 printed, of the way "both"
  cpp,        \* the second preprocessor
  meant       \* what C says of the source

vars == <<source, way, expanded, cpp, meant>>

\* the directives of a source
ConditionalNames == {"if", "ifdef", "ifndef", "elif", "else", "endif"}
Directives(ts) == {i \in 1..(Len(ts) - 2) : ts[i].k = "#" /\ ts[i + 1].k = "id"}
Named(ts, names) == {i \in Directives(ts) : ts[i + 1].s \in {<<n>> : n \in names}}
Included(ts) == {ts[i + 3] : i \in Named(ts, {"include"})}
Ids(ts) == {ts[i].s : i \in {i \in DOMAIN ts : ts[i].k = "id"}}
LeftToV2(h) == h.k = "angled" \/ (h.s \in DOMAIN Headers /\ ~Headers[h.s].local)
WholeText(ts) == {ts} \cup {Headers[h.s].ts : h \in {h \in Included(ts) : h.s \in DOMAIN Headers}}
HasConditionals(ts) == \E file \in WholeText(ts) : Named(file, ConditionalNames) # {}

Unread == <<None>>
Init ==
  /\ source \in Sources
  /\ way \in IF HasConditionals(source) THEN {"both"} ELSE {"direct", "both"}   \* their second processing: Conditional
  /\ expanded = Unread
  /\ cpp = NewPreProcessor(IF way = "direct" THEN Lexed(source) ELSE <<>>, NoDefines)
  /\ meant = Meaning(source)

Step(p) == cpp' = p /\ UNCHANGED <<source, way, expanded, meant>>
Ready == (way = "both" => expanded # Unread) /\ ~cpp.done /\ ~cpp.panicked
\* PreProcessor::next is called, and replace() does not run
Idle == Ready /\ ~cpp.busy

PreprocessV1 ==
  /\ way = "both" /\ expanded = Unread
  /\ expanded' = preprocess_v1(source)
  /\ cpp' = NewPreProcessor(Lexed(expanded'), NoDefines)
  /\ UNCHANGED <<source, way, meant>>

ReturnError ==
  /\ Idle /\ cpp.errors # <<>>
  /\ Step([cpp EXCEPT !.out = Append(@, Head(cpp.errors)), !.errors = Tail(@)])

ReturnPending ==
  /\ Idle /\ cpp.errors = <<>> /\ cpp.pending # <<>>
  /\ Step([cpp EXCEPT !.out = Append(@, Head(cpp.pending)), !.pending = Tail(@)])

ReadsOn == Idle /\ cpp.pending = <<>>   \* seeded defect: errors may wait
Reads   == Idle /\ cpp.errors = <<>> /\ cpp.pending = <<>>

ReadError(r)     == IsError(r.t) /\ Step([r.p EXCEPT !.out = Append(@, r.t)])
ReadDirective(r) == r.t.k = "name" /\ Step(directive(r.p, r.t.s[1]))
\* replace() is called, with fresh ids_seen
StartReplace(r) ==
  /\ ~IsError(r.t) /\ r.t.k # "name" /\ r.t # None
  /\ Step([r.p EXCEPT !.work = <<r.t>>, !.list = <<>>, !.seen = {}, !.busy = TRUE])
ReadToken == Reads /\ LET r == next_cpp_token(cpp) IN ReadError(r) \/ ReadDirective(r) \/ StartReplace(r)
EndOfFile == Reads /\ LET r == next_cpp_token(cpp) IN r.t = None /\ Step([r.p EXCEPT !.done = TRUE])

Replace == Ready /\ cpp.busy /\ cpp.work # <<>> /\ Step([ReplaceNext(cpp) EXCEPT !.steps = @ + 1])

\* handle_token: the first token is returned, the others are kept
IsToken(t) == ~IsError(t)
Queued(p, ts) == [p EXCEPT !.errors = @ \o SelectSeq(ts, IsError), !.pending = @ \o SelectSeq(ts, IsToken)]
HandleToken ==
  /\ Ready /\ cpp.busy /\ cpp.work = <<>>
  /\ Step([Queued(cpp, SubSeq(cpp.list, 2, Len(cpp.list))) EXCEPT !.busy = FALSE, !.out = @ \o First(cpp.list)])

Stopped == (cpp.done \/ cpp.panicked) /\ UNCHANGED vars

Next == PreprocessV1 \/ ReturnError \/ ReturnPending \/ ReadToken \/ EndOfFile \/ Replace \/ HandleToken \/ Stopped
Spec == Init /\ [][Next]_vars

-----------------------------------------------------------------------------
(* The situations in which a preprocessor is known to depart from C *)

Targets(ts) == UNION {{file[i + 3].s : i \in Named(file, {"define", "undef"})} : file \in {ts} \cup {Headers[h.s].ts : h \in {h \in Included(ts) : ~LeftToV2(h)}}}

\* a header that the first preprocessor does not read has names in common with the directives it obeys
Divided(ts) ==
  \E h \in {h \in Included(ts) : LeftToV2(h)} :
    HasConditionals(ts) \/ (h.s \in DOMAIN Headers /\ Ids(Headers[h.s].ts) \cap Targets(ts) # {})
\* two tokens of the printed text that are one when it is read again
Fused(ts) == \E i \in 1..(Len(ts) - 1) : Joins(ts[i], ts[i + 1])

Broken == {"bad", "unterminated"}
ExpanderDeparts == Broken \cup {"spoiled", "escapes", "painted", "stray", "odd"}
ReplaceDeparts == Broken \cup {"parted", "repeated", "gap", "paste", "passed", "variadic"}
Without(notes) == meant.notes \cap notes = {}

-----------------------------------------------------------------------------
(* The errors of the lexer, line by line, and their places *)

ErrorsOf(ts) == SelectSeq(ts, IsError)
Times(ts, t) == Cardinality({i \in DOMAIN ts : ts[i] = t})

HashFirst(line) == Starts(SkipSpace(line), "#")
AfterTheHash(line) == SkipSpace(Tail(SkipSpace(line)))
NameOf(line) == IF HashFirst(line) /\ Starts(AfterTheHash(line), "id") THEN AfterTheHash(line)[1].s[1] ELSE ""

RECURSIVE Due(_, _)
\* of a line: those that are returned, or all there are
DueOf(line, all) ==
  LET errors == ErrorsOf(line)
      name   == NameOf(line)
      h      == SelectInSeq(line, LAMBDA t : t.s \in DOMAIN Headers)
  IN CASE name = "include" -> (IF h = 0 THEN <<>> ELSE Due(Headers[line[h].s].ts, all)) \o errors
       [] name \in {"define", "warning", "error"} /\ ~all -> First(errors)
       [] name \in {"pragma", "line"} /\ ~all -> <<>>
       [] OTHER -> errors
Due(ts, all) == LET lines == Lines(ts) IN FlattenSeq([n \in DOMAIN lines |-> DueOf(lines[n], all)])

\* the source with its directives blanked
TextOf(ts) ==
  LET lines == Lines(ts)
      shown(l) == IF HashFirst(l) THEN [i \in DOMAIN l |-> Whitespace] ELSE l
  IN FlattenSeq([n \in DOMAIN lines |-> Append(shown(lines[n]), Newline)])
\* the errors, and the names in the text, that stand nowhere else
Unique(ts, t) == Times(ts, t) = 1 /\ \A h \in DOMAIN Headers : Times(Headers[h].ts, t) = 0
Errors(ts) == {i \in DOMAIN ts : IsError(ts[i]) /\ Unique(ts, ts[i])}
Marks(ts)  == {i \in DOMAIN ts : TextOf(ts)[i].k = "id" /\ Unique(ts, ts[i])}
\* i before j, with a line that ends between them and no call open there
Apart(ts, i, j) == \E k \in i..j : ts[k].k = "nl" /\ Level(TextOf(ts), k) = 0

-----------------------------------------------------------------------------
(* Properties *)

Tokens(ts) == SelectSeq(Visible(ts), IsToken)

\* The first preprocessor expands macros as C does: names that are being replaced are not replaced
\* again, arguments are expanded before they are substituted, # and ## get them as they stand, and
\* an #if takes one of its groups (pp/expander.rs).  Excepted are a macro whose call reaches out of
\* a replacement, and a name that C would not replace again after it left an argument.
ExpanderFollowsC ==
  expanded # Unread /\ Without(ExpanderDeparts) /\ {h \in Included(source) : LeftToV2(h)} = {}
    => Tokens(expanded) = meant.out

\* The second preprocessor alone gives the tokens that C does, with a call whose arguments come
\* from the replacement and from the files behind it (lex/replace.rs).  Excepted are lists that
\* use a macro twice (ids_seen is never reset), ##, __VA_ARGS__, and arguments that have an effect
\* on the call only once expanded.
ReplaceFollowsC ==
  cpp.done /\ way = "direct" /\ Without(ReplaceDeparts) => Tokens(cpp.out) = meant.out

\* Both in a row give the tokens that C does: nothing is replaced twice and what the first one
\* leaves, the headers of the system, the second one finds (driver.rs, handle_token).
PipelineFollowsC ==
  cpp.done /\ way = "both" /\ Without(ExpanderDeparts \cup {"gap"}) /\ ~Divided(source) /\ ~Fused(expanded)
    => Tokens(cpp.out) = meant.out

\* In a source that breaks no rule each error in the text is returned, in order and once; of a
\* #define, #warning or #error line the first one, for the others are lost with it; of a #pragma
\* or #line line none (cpp.rs:538, 567).  A source that breaks a rule has an error, and in no
\* source is a character reported twice.
AllReported ==
  Without({"unterminated", "paste", "variadic", "passed"}) =>
    LET errors == ErrorsOf(cpp.out)
    IN /\ IF "bad" \in meant.notes THEN errors # <<>> ELSE errors = Due(source, FALSE)
       /\ \A i \in DOMAIN errors : errors[i].k = "error" => Times(errors, errors[i]) <= Times(Due(source, TRUE), errors[i])

\* An error is returned between the tokens it stands between, as far as lines tell: errors overtake
\* the pending tokens of their own call (cpp.rs:221), but never those of an earlier or later line,
\* unless the call goes on to it.
InPlace ==
  \A e \in Errors(source), m \in Marks(source) :
    \A i, j \in DOMAIN cpp.out :
      cpp.out[i] = source[e] /\ cpp.out[j] = source[m] =>
        /\ Apart(source, e, m) => i < j
        /\ Apart(source, m, e) => j < i

\* The errors of the lexer on the way through directives, arguments and text (the queues of next()
\* and handle_token, fn_args, collect in cpp.rs:864): all that are due are returned, and where
\* they belong.
ErrorsDelivered == cpp.done /\ way = "direct" => AllReported /\ InPlace

\* The assertions of strip_whitespace hold unless a replacement has two spaces in a row
NoPanic == cpp.panicked => "gap" \in meant.notes

\* replace() ends, whatever the definitions (ids_seen)
Terminates == cpp.steps <= MaxSteps
=============================================================================
