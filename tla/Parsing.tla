------------------------------ MODULE Parsing ------------------------------
(***************************************************************************)
(* Parser as an iterator over external declarations: next() returns one    *)
(* error or one declaration, the errors first, and parses a declaration    *)
(* when it has neither.                                                    *)
(***************************************************************************)
EXTENDS Parser

CONSTANT Sources  \* [tokens, kind, unit]: the sources, and what each was made from

ASSUME SourcesAssumption == \A source \in Sources : Source(source.tokens)

VARIABLES
  origin,    \* the source
  parser,    \* the Parser
  returned,  \* the declarations that next() has returned
  refused,   \* whether it has returned an error
  done,      \* whether it has returned None
  steps      \* how many steps it has taken
vars == <<origin, parser, returned, refused, done, steps>>

Init ==
  /\ origin \in Sources
  /\ parser = Start(origin.tokens)
  /\ returned = <<>>
  /\ refused = FALSE
  /\ done = FALSE
  /\ steps = 0

Counted == steps' = steps + 1

InNext == parser.stack = <<>> /\ ~done /\ ~parser.exited
Ready == InNext /\ parser.failed = ""
\* seeded defect: an error is returned and kept
PeekError(m) == parser' = m /\ refused' = TRUE
PopError(m) == parser' = [m EXCEPT !.errors = Tail(@)] /\ refused' = TRUE

ReturnError ==
  /\ Ready /\ parser.errors # <<>>
  /\ PopError(parser)
  /\ UNCHANGED <<origin, returned, done>>
  /\ Counted

ReturnDeclaration ==
  /\ Ready /\ parser.errors = <<>> /\ parser.pending # <<>>
  /\ returned' = Append(returned, Head(parser.pending))
  /\ parser' = [parser EXCEPT !.pending = Tail(@)]
  /\ UNCHANGED <<origin, refused, done>>
  /\ Counted

AtEndOfFile(m) ==
  \/ m.errors # <<>> /\ PopError(m) /\ UNCHANGED done
  \/ m.errors = <<>> /\ done' = TRUE /\ parser' = m /\ UNCHANGED refused

Idle == Ready /\ parser.errors = <<>> /\ parser.pending = <<>>

EndOfFile ==
  /\ Idle
  /\ LET m == peek_token(parser) IN AtEnd(m) /\ AtEndOfFile(m)
  /\ UNCHANGED <<origin, returned>>
  /\ Counted

ParseDeclaration ==
  /\ Idle
  /\ LET m == peek_token(parser)
     IN ~AtEnd(m) /\ parser' = Push(m, <<Task("semicolons"), Task("external_declaration"), Task("parsed")>>)
  /\ UNCHANGED <<origin, returned, refused, done>>
  /\ Counted

Running == parser.stack # <<>> /\ ~parser.exited

\* the next step of the function that is running
Proceed ==
  /\ Running /\ parser.failed = ""
  /\ parser' = Step(Pop(parser), Head(parser.stack))
  /\ UNCHANGED <<origin, returned, refused, done>>
  /\ Counted

\* an error leaves one function, or is handled by it
Propagate ==
  /\ Running /\ parser.failed # ""
  /\ parser' = Unwind(Pop(parser), Head(parser.stack))
  /\ UNCHANGED <<origin, returned, refused, done>>
  /\ Counted

\* or is left to next()
KeepError ==
  /\ InNext /\ parser.failed # ""
  /\ parser' = [Report(parser, parser.failed) EXCEPT !.failed = "", !.vals = <<>>]
  /\ UNCHANGED <<origin, returned, refused, done>>
  /\ Counted

Next ==
  \/ ReturnError \/ ReturnDeclaration \/ EndOfFile
  \/ ParseDeclaration \/ Proceed \/ Propagate \/ KeepError
Spec == Init /\ [][Next]_vars

-----------------------------------------------------------------------------
(* Properties *)

\* The assertions hold: unput finds room in the lookahead, and a block ends at a brace or
\* at the end of the file.
NoPanic == parser.bad = {}

\* Whatever is wrong with a declaration, what follows its only semicolon is parsed: panic
\* and the errors that come after the first one end at that semicolon.
Recovers == done /\ origin.kind = "noise" => IsSuffix(origin.unit, returned)

\* a string that is joined to one before it
Continues(source, i) ==
  source[i].k = "str" /\ \E j \in 1..(i - 1) : source[j].k = "str" /\ \A n \in j..(i - 1) : source[n].k \in StringParts
\* the places of the tokens that the grammar sees
Visible(source) == {i \in DOMAIN source : source[i].k \notin Blank /\ ~Continues(source, i)}

Held(t) == IF t = None THEN <<>> ELSE <<t.at>>
Peeked(m) == Held(m.current) \o Held(m.next)
Ahead(m) == {Peeked(m)[i] : i \in DOMAIN Peeked(m)} \cup {i \in Visible(m.tokens) : i >= m.read}
Tokens == INSTANCE Cursor WITH
  input <- Visible(origin.tokens), ahead <- Ahead(parser), peeked <- Peeked(parser), stopped <- done, aborted <- parser.exited
\* Through peek_token, peek_next_token and unput the grammar reads the tokens of the
\* source in their order, none twice once it is consumed, and ends behind the last one.
ReadsInOrder == Tokens!Spec

STEPS_PER_TOKEN == 80
\* The parser never runs in circles: the steps it takes are bounded by the length of the
\* source, also where it recovers from errors.
Terminates == steps <= STEPS_PER_TOKEN * (Len(origin.tokens) + 1)
=============================================================================
