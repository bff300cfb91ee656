------------------------------- MODULE Replace -------------------------------
(***************************************************************************)
(* The second preprocessor: PreProcessor of parser/lex/cpp.rs on the files *)
(* of lex/files.rs, and macro replacement (lex/replace.rs).                *)
(*                                                                         *)
(* A preprocessor is a record: files, the tokens left of each open file,   *)
(* the last one opened last; current, a token that was peeked at; errors   *)
(* and pending, what next() returns before it reads on; definitions; and   *)
(* while replace() runs: work, its pending tokens, list, its replacements, *)
(* and seen, its ids_seen.  What next() returned is in out.                *)
(* Conditionals are the business of Conditional; warnings and #include of  *)
(* a macro are left out.                                                   *)
(***************************************************************************)
EXTENDS Expander

None == Token("<none>", <<>>)
Error(name) == Token("!", <<name>>)
IsError(t) == t.k \in {"!", "error"}

NewPreProcessor(ts, definitions) ==
  [files |-> <<ts>>, current |-> None, errors |-> <<>>, pending |-> <<>>, definitions |-> definitions,
   work |-> <<>>, list |-> <<>>, seen |-> {}, busy |-> FALSE, out |-> <<>>, steps |-> 0,
   panicked |-> FALSE, done |-> FALSE]

-----------------------------------------------------------------------------
(* FileProcessor *)

\* files that have been read to the end are closed, but for the first one
Opened(files) ==
  LET left == {i \in DOMAIN files : files[i] # <<>>}
  IN SubSeq(files, 1, IF left = {} THEN 1 ELSE CHOOSE i \in left : \A j \in left : j <= i)
Shortened(files) == Append(Front(files), Tail(Last(files)))
ReadFile(p, files) ==
  IF Last(files) = <<>> THEN [t |-> None, p |-> [p EXCEPT !.files = files]]
  ELSE [t |-> Head(Last(files)), p |-> [p EXCEPT !.files = Shortened(files)]]
file_next(p) ==
  IF p.current # None THEN [t |-> p.current, p |-> [p EXCEPT !.current = None]] ELSE ReadFile(p, Opened(p.files))
Peeked(r) == [r.p EXCEPT !.current = r.t]
file_peek(p) == IF p.current # None THEN p ELSE Peeked(file_next(p))
add_file(p, ts) == [p EXCEPT !.files = Append(@, ts)]

-----------------------------------------------------------------------------
(* replace *)

\* incoming.front().or_else(|| inner.peek()), incoming.pop_front().or_else(|| inner.next())
peek(p) == IF p.work # <<>> THEN p ELSE file_peek(p)
Ahead(p) == IF p.work # <<>> THEN Head(p.work) ELSE p.current
pop(p) == IF p.work # <<>> THEN [t |-> Head(p.work), p |-> [p EXCEPT !.work = Tail(@)]] ELSE file_next(p)

Behind(p, ts) == [p EXCEPT !.work = @ \o ts]   \* seeded defect: behind what is pending
Return(p, ts) == [p EXCEPT !.work = ts \o @]

\* strip_whitespace, whose assertions say that no two spaces are adjacent
EndsBlank(arg)   == arg # <<>> /\ Last(arg).k \in Space
StartsBlank(arg) == arg # <<>> /\ Head(arg).k \in Space
KeepLast(arg) == arg   \* seeded defect: only the space in front is removed
DropLast(arg) == IF EndsBlank(arg) THEN Front(arg) ELSE arg
Stripped(arg) == LET a == DropLast(arg) IN IF StartsBlank(a) THEN Tail(a) ELSE a
Holds(arg) == ~EndsBlank(DropLast(arg)) /\ ~StartsBlank(Stripped(arg))

stringify(arg) == String(FlattenSeq([i \in DOMAIN arg |-> arg[i].s]))

\* the body of a function macro: [ts, hash, err]
HashMissing(acc) == [acc EXCEPT !.err = TRUE]
Substitute(acc, t, params, args) ==
  LET i == IF t.k = "id" THEN SelectInSeq(params, LAMBDA name : name = t.s) ELSE 0
      Add(ts) == [acc EXCEPT !.ts = @ \o ts, !.hash = FALSE]
  IN CASE i # 0 /\ ~acc.hash -> Add(args[i])
       [] i # 0 /\ acc.hash  -> Add(<<stringify(args[i])>>)
       [] t.k = "#"          -> [acc EXCEPT !.hash = TRUE]
       [] t.k \in Space      -> IF acc.hash THEN acc ELSE Add(<<Whitespace>>)
       [] OTHER              -> IF acc.hash THEN HashMissing(acc) ELSE Add(<<t>>)

\* after all arguments have been read
Arity(params, args) == Len(args) = Len(params) \/ (params = <<>> /\ args = << <<>> >>)
BodyWith(def, args) ==
  FoldLeft(LAMBDA acc, t : Substitute(acc, t, def.params, args), [ts |-> <<>>, hash |-> FALSE, err |-> FALSE], def.body)
Called(p, def, args, errors) ==
  LET body == BodyWith(def, args)
  IN CASE ~Arity(def.params, args) -> Return(p, <<Error("TooFewArguments")>>)
       [] body.err /\ Arity(def.params, args) -> Return(p, <<Error("HashMissingParameter")>>)
       [] OTHER -> Return(p, errors \o body.ts)

\* the second loop of replace_function, with the arguments that are complete, the current one
\* and the number of parentheses open
RECURSIVE ReadArguments(_, _, _, _, _, _)
ReadArguments(p, def, args, arg, parens, errors) ==
  LET next == pop(p)
      t    == next.t
      End  == Append(args, Stripped(arg))
      Checked(q) == [q EXCEPT !.panicked = @ \/ ~Holds(arg)]
      Go(more, part, open, errs) == ReadArguments(next.p, def, more, part, open, errs)
  IN CASE t = None   -> Return(next.p, errors)
       [] IsError(t) -> Go(args, arg, parens, Append(errors, t))
       [] t.k = "," /\ parens = 1 -> ReadArguments(Checked(next.p), def, End, <<>>, 1, errors)
       [] t.k = ")" /\ parens = 1 -> Called(Checked(next.p), def, End, errors)
       [] OTHER -> Go(args, Append(arg, t), parens + (IF t.k = "(" THEN 1 ELSE 0) - (IF t.k = ")" THEN 1 ELSE 0), errors)

\* the first loop: what stands between the name and its (
RECURSIVE replace_function(_, _, _, _)
replace_function(p, id, def, errors) ==
  LET q == peek(p)
      t == Ahead(q)
      next == pop(q)
      after == peek(next.p)
  IN CASE t = None         -> Return(q, Append(errors, id))
       [] IsError(t)       -> replace_function(next.p, id, def, Append(errors, t))
       [] t.k = "("        -> ReadArguments(next.p, def, <<>>, <<>>, 1, errors)
       [] t.k \in Space    -> IF Ahead(after).k = "(" THEN ReadArguments(pop(after).p, def, <<>>, <<>>, 1, errors)
                              ELSE Return(after, errors \o <<id, t>>)
       [] OTHER            -> Return(next.p, errors \o <<id, t>>)

Forget(seen, id)   == seen   \* seeded defect
Remember(seen, id) == seen \cup {id}
Replaceable(p, t) == t.k = "id" /\ t.s \in DOMAIN p.definitions /\ t.s \notin p.seen
\* one turn of the loop of replace
ReplaceNext(p) ==
  LET t   == Head(p.work)
      def == p.definitions[t.s]
      q   == [p EXCEPT !.work = Tail(@), !.seen = Remember(@, t.s)]
  IN CASE Replaceable(p, t) /\ ~def.fn -> Return(q, def.body)
       [] Replaceable(p, t) /\ def.fn  -> replace_function(q, t, def, <<>>)
       [] OTHER -> [p EXCEPT !.work = Tail(@), !.list = Append(@, t)]

-----------------------------------------------------------------------------
(* Directives.  What a directive returns as its error is in out at once; *)
(* what it only notes on the way comes after that.                        *)

Raise(p, err) == [p EXCEPT !.out = Append(@, err)]
Defer(p, err) == [p EXCEPT !.errors = Append(@, err)]
\* for a token that stands where it may not: the error of the lexer, if it is one
Unexpected(t) ==
  CASE IsError(t) -> t
    [] t = None   -> Error("EndOfFile")
    [] OTHER      -> Error("UnexpectedToken")

\* the text of the lexer in use
Rest(p)     == Last(p.files)
Leave(p, ts) == [p EXCEPT !.files[Len(p.files)] = ts]
Match(p, c) == Starts(Rest(p), c)            \* match_next, with Advance
Advance(p)  == Leave(p, Tail(Rest(p)))
\* consume_whitespace_oneline: Skip, and an error unless Oneline
Oneline(p) == ~Match(p, "nl")
Skip(p)    == Leave(p, SkipSpace(Rest(p)))
\* tokens_until_newline
LineEnd(ts) == LET i == SelectInSeq(ts, LAMBDA t : t.k = "nl") IN IF i = 0 THEN Len(ts) + 1 ELSE i
LineOf(p)   == Before(Rest(p), LineEnd(Rest(p)))
PastLine(p) == Leave(p, From(Rest(p), LineEnd(Rest(p))))

RECURSIVE next_non_whitespace(_)
next_non_whitespace(p) == LET r == file_next(p) IN IF r.t.k \in Space THEN next_non_whitespace(r.p) ELSE r

\* [ok, v, p]; where ok is false the error has been raised
Obtained(v, p)  == [ok |-> TRUE, v |-> v, p |-> p]
Refused(p, err) == [ok |-> FALSE, v |-> <<>>, p |-> Raise(p, err)]

\* after ( : most errors are only noted
RECURSIVE fn_args(_, _)
AfterName(p, params) ==
  LET q == Skip(p)
      r == file_next(q)
  IN CASE ~Oneline(p)                  -> Refused(q, Error("Expected"))
       [] Oneline(p) /\ Match(q, ")")  -> Obtained(params, Advance(q))
       [] Oneline(p) /\ Match(q, ",")  -> fn_args(Advance(q), params)
       [] OTHER -> IF r.t = None \/ IsError(r.t) THEN Refused(r.p, Unexpected(r.t)) ELSE fn_args(Defer(r.p, Unexpected(r.t)), params)
fn_args(p, params) ==
  LET r == next_non_whitespace(p)
  IN CASE r.t = None     -> Refused(r.p, Error("EndOfFile"))
       [] IsError(r.t)   -> fn_args(Defer(r.p, r.t), params)
       [] r.t.k = "..."  -> AfterName(r.p, params)
       [] r.t.k = "id"   -> AfterName(r.p, Append(params, r.t.s))
       [] OTHER          -> AfterName(Defer(r.p, Unexpected(r.t)), params)
FnArgs(p) ==
  CASE ~Oneline(p)                       -> Refused(Skip(p), Error("Expected"))
    [] Oneline(p) /\ Match(Skip(p), ")") -> Obtained(<<>>, Advance(Skip(p)))
    [] OTHER                             -> fn_args(Skip(p), <<>>)

\* the rest of the line, collected: its first error is raised and the others are lost
Collect(p) ==
  LET errors == SelectSeq(LineOf(p), IsError)
  IN IF errors = <<>> THEN Obtained(SkipSpace(LineOf(p)), PastLine(p)) ELSE Refused(PastLine(p), Head(errors))

define_macro(p, name, def) ==
  IF name \in DOMAIN p.definitions THEN IF p.definitions[name] = def THEN p ELSE Raise(p, Error("IncompatibleRedefinition"))
  ELSE [p EXCEPT !.definitions = Defining(@, name, def)]
Defined(name, fn, params, body) ==
  IF body.ok THEN define_macro(body.p, name, [fn |-> fn, params |-> params, body |-> body.v]) ELSE body.p
Definition(p, name) ==
  LET params == FnArgs(Advance(p))
  IN CASE ~Match(p, "(")              -> Defined(name, FALSE, <<>>, Collect(p))
       [] Match(p, "(") /\ params.ok  -> Defined(name, TRUE, params.v, Collect(params.p))
       [] OTHER                       -> params.p

\* expect_id, on the same line
expect_id(p) ==
  LET r == file_next(Skip(p))
  IN CASE ~Oneline(p)                    -> Refused(Skip(p), Error("Empty"))
       [] Oneline(p) /\ r.t.k = "id"     -> Obtained(r.t.s, r.p)
       [] OTHER                          -> Refused(r.p, Unexpected(r.t))
define(p) == LET name == expect_id(p) IN IF name.ok THEN Definition(name.p, name.v) ELSE name.p
Removed(p, name) == [p EXCEPT !.definitions = Undefining(@, name)]
undef(p) == LET name == expect_id(p) IN IF name.ok THEN Removed(name.p, name.v) ELSE name.p

Opening(p, name) ==
  IF name \in DOMAIN Headers THEN add_file(p, Lexed(Headers[name].ts)) ELSE Raise(p, Error("FileNotFound"))
include(p) ==
  LET r == file_next(Skip(p))
  IN CASE ~Oneline(p) -> Raise(Skip(p), Error("Empty"))
       [] Oneline(p) /\ r.t.k \in {"quoted", "angled"} -> Opening(r.p, r.t.s)
       [] OTHER -> Raise(r.p, Unexpected(r.t))

\* but for #if, #ifdef and #ifndef
DirectiveKinds == {"define", "undef", "include", "elif", "else", "endif", "pragma", "line", "warning", "error"}
\* #error, #warning (which says nothing here)
User(body, errors) == IF body.ok THEN [body.p EXCEPT !.errors = @ \o errors] ELSE body.p
directive(p, name) ==
  CASE name = "define"              -> define(p)
    [] name = "undef"               -> undef(p)
    [] name = "include"             -> include(p)
    [] name \in {"pragma", "line"}  -> PastLine(p)
    [] name = "warning"             -> User(Collect(p), <<>>)
    [] name = "error"               -> User(Collect(p), <<Error("User")>>)
    [] OTHER                        -> Raise(p, Error("Unexpected"))

\* next_cpp_token: what stands behind a # on its line is the name of a directive; a # alone on
\* its line is forgotten, and what follows is an ordinary token
AfterHash(p) ==
  LET r == next_non_whitespace(p)
  IN CASE ~Oneline(p) \/ r.t = None \/ IsError(r.t) -> r
       [] Oneline(p) /\ r.t.k = "id" -> [r EXCEPT !.t = IF @.s[1] \in DirectiveKinds THEN Token("name", @.s) ELSE Error("InvalidDirective")]
       [] OTHER -> [r EXCEPT !.t = Unexpected(@)]
next_cpp_token(p) == LET r == file_next(p) IN IF r.t.k = "directive" THEN AfterHash(r.p) ELSE r
=============================================================================
