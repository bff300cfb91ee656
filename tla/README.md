# Verification of saltwater

TLA+ models of the C compiler in `src/` (Rust, about 14 000 lines without its
tests), the TLC configurations that check them, and proofs checked by TLAPS.
Paths below are relative to `src/src/`.

## The system

`driver.rs` and `main.rs` run a pipeline. It has no threads, no messages and no
persistent state; what is hard in it is state that several passes, or several
iterations of one pass, keep consistent by hand.

| component | state it keeps | operations | interacts with |
|---|---|---|---|
| driver (`driver.rs`, `main.rs`) | options, file table | `preprocess_v1`, `assemble`, `link` | runs all the stages in order |
| first preprocessor (`pp/`) | macro table, groups of sections, header cache | `Expander::expand_group`, `try_expand`, `Headers::include` | its text is the input of the second |
| lexer (`parser/lex/mod.rs`, `lex/files.rs`) | cursor with two characters of lookahead, line flags; a stack of lexers and a peeked token | `next`, `peek`, `add_file`, `tokens_until_newline` | read by the second preprocessor |
| second preprocessor (`parser/lex/cpp.rs`, `lex/replace.rs`) | `nested_ifs`, `definitions`, `pending`, error queue | one handler per directive, `replace`, `replace_function` | pulled token by token by the parser |
| parser (`parser/parse/`) | `current`, `next` (lookahead), `typedefs`, pending declarations | recursive descent, `panic` (recovery), `unput` | pulled declaration by declaration by the analyzer |
| analyzer (`parser/analyze/`) | `scope`, `tag_scope`, `initialized`, `decl_side_channel`, `pending` | `declare`, `parse_declaration`, statements, expressions, initialisers | produces HIR for the backend |
| types and folding (`parser/data/types.rs`, `parser/arch/`, `parser/fold.rs`) | none | `sizeof`, `offset`, `const_fold` | called by the analyzer, the preprocessor (`#if`) and the backend |
| backend (`codegen/`) | `current_block_state`, `loops`, `switches`, `last_saw_loop`, `labels`, `declarations`, the Cranelift builder and module | `compile_stmt`, `compile_expr`, `declare_func`, `store_static` | Cranelift, whose verifier and module refuse bad input with a panic |
| errors (`parser/data/error.rs`, `parser/mod.rs`) | error queue, warnings, recursion depth | `push_back`, `warn`, `recursion_check` | every stage |

What makes each part correct:

* conditional inclusion: the text that reaches the output is the text C selects;
  a directive is reported only if the source deserves it;
* macro replacement: terminates, each name is expanded as often as C says;
* lexer and parser: no token is lost, duplicated or reordered by lookahead, a
  syntax error is followed by progress;
* analyzer: its scopes agree with the parser's, every use resolves to the
  innermost declaration, every accepted program can be compiled without a panic;
* backend: what it builds is accepted by the verifier and does what the
  statements say;
* folding and layout: agree with C arithmetic and with one another.

`PROJECT.json` lists every component with its status and every hazard at its
line.

## Modules

### Lowering: the statement compiler

`Lowering.tla` models `codegen/stmt.rs` with `compile_func` and the loop of
`compile` in `codegen/mod.rs`. The Rust recursion becomes an explicit stack
`todo`: a task is a statement to compile, or what the caller does when a recursive
call returns, with the local variables it kept (`old_saw_loop`, `if_has_return`, the
blocks). There is one action for each statement kind, and one for each
continuation.

| variable | Rust |
|---|---|
| `b.code`, `b.cur` | the blocks of `FunctionBuilder` and its current block |
| `b.filled` | `current_block_state == BlockState::Filled` |
| `loops`, `switches`, `sawLoop`, `labels` | the fields of `Compiler`, `last_saw_loop` for `sawLoop` |
| `out`, `err` | the functions handed to the verifier, the error `compile` stops at |

Expressions are one instruction that names its node, so the order in which they
are evaluated is kept and what they compute is not. A program is a table of
nodes numbered in source order, each the kid of one node or the body of a function,
since a `Box` or `Vec` owns its `Stmt` (`ProgramsAssumption`).

`LoweringSemantics.tla` states what the compiler promises, and is the abstract
specification of this part. When a program is compiled, each of its functions is
executed twice in lockstep: by the rules of C for its statements (`at`) and by
the code of its blocks (`pc`). Both advance silently to the next evaluation,
where they must agree; the value evaluated is chosen by the environment, so all
paths are taken. What `at` does is the reference, C11 6.8 for the statements that
`analyze/stmt.rs` builds, and translates nothing; what `pc` does is external.

Known defects are excluded by name, so that everything else is still checked:
`SkippingContinue` (a `continue` in a `while` or `for` jumps to the loop body
instead of the condition) and `shared` (a `case` or `default` that follows
statements without a `break` takes the block of those statements, because
`BlockState::Empty` only means "not terminated"). The first is shown by the run
`continue_standard`.

### Conditional: #if, #elif, #else, #endif

`Conditional.tla` models the `nested_ifs` stack of `parser/lex/cpp.rs` and the
two skipping states of `consume_directive`. The environment writes the source,
one directive line at a time, in any order, conforming or not. Beside the state of
the code, `groups` holds what C11 6.10.1 says about the same source.
Text lines change nothing; they are emitted while `mode` is `"active"`.

The loop of `consume_directive` ends at the `#endif` of a skipped group without
popping `nested_ifs`, where the state diagram in the same file has
`nested_ifs.pop()`. Entries are left over. The model keeps that, and the checked
properties say how far the code is right all the same: selection is right until
an `#endif` leaves an entry `Else` behind (`elseLost`). The run `else_error`
shows what happens after that. A file that ends inside a selected group is not reported
(`EndOfFile`; `UnterminatedIf` exists for it, `error.rs:458`). In the pipeline the first preprocessor resolves
the conditionals of the main file, so these lines come from headers the second
preprocessor includes itself, and from every caller of `PreProcessor` as a library.

### Declarations: one name from the source to the object file

`Declarations.tla` follows one identifier `x` through the analyzer
(`parser/analyze/mod.rs`: `declare`, `parse_declaration`, `FunctionAnalyzer`), the
`Scope` of `parser/data/hir.rs`, and the backend (`declare_func`, `declare_stack`,
`store_static`, `load_addr`). The environment writes the source item by item:
declarations of `x` as object or function with every storage class, at file scope
and in blocks; definitions of `x` and of other functions, with or without a
parameter named `x`; blocks; uses. The file is analyzed completely before the
backend sees it, as in `check_semantics` and `compile`.

| variable | Rust |
|---|---|
| `store`, `scope`, `initialized` | the table behind `Symbol`, `Analyzer.scope` (what each open scope has for `x`), `Analyzer.initialized` |
| `hir` | the declarations and statements that concern `x`, flattened |
| `ids`, `module` | `Compiler.declarations`; what the Cranelift module holds for `x` (external) |
| `result` | how `compile` ended: accepted, an error, or a panic |

`std` is the reference: what each scope's `x` denotes, its linkage, whether it is
defined, and which rules of C11 the source breaks. The analyzer looks only at the last
declaration, the module merges all of them; the properties compare the outcome
with `std` for every source, valid or not. Known defects are excluded by name:
`MixesPrototypes` (`int f(); int f(int i) {...}` panics in the module),
`DefinedAsExtern` (`static int f(); int f() {}` is exported), `ExternSlot` (a
block-scope `extern` object gets a stack slot), repeated tentative definitions and
repeated declarations in one block. Also not supported, and shown by the
run `static_then_plain`: `static int f(); int f();`.

### Expressions: from syntax to machine code

| module | models |
|---|---|
| `Types` | the types of expressions and their conversions (`data/types.rs`, the promotions of `analyze/expr.rs`, `can_represent`); the data model is a parameter |
| `Layout` | sizes, alignments, member offsets (`arch/mod.rs`), IR types, memory as bytes |
| `Expressions` | `analyze/expr.rs`: a syntax tree becomes a typed tree with explicit conversions |
| `Folding` | `fold.rs`: `const_fold` of every node |
| `Codegen` | `codegen/expr.rs`: `compile_expr`, its assertions and what the verifier demands; the machine that runs the code (external) |
| `Initializers` | `analyze/init.rs` (brace elision) and `codegen/static_init.rs` (the bytes) |
| `CExpressions` | the reference: constraints, types and values of C11 6.5; translates nothing |
| `Translation` | the state machine: objects are declared, an expression is written one operator at a time, analyzed, compiled and run |
| `TranslationProperties` | the properties and the named departures from C |
| `MCExpressions` | nine families of objects, operands and operators |

Analysis, folding and code generation are functions of a tree, so they are
operators, not actions; the steps of `Translation` write the source (`Start`, `Apply`,
`Combine`, `Select`) and are those of the pipeline after that (`Analyze`, `Generate`, `Run`). A node carries what its analysis pushed on the two
global queues of the analyzer: `errs`, and `side` for `decl_side_channel`. A
`Value` carries `bad`, the assertions and `unreachable!`s compile_expr hit.
Integers have 2, 4, 8 and 16 bits, so wrapping, sign and truncation happen with
small numbers; floats are integral.

Known defects of the code, each a definition of `TranslationProperties` with its line, so that
a property covers every expression without them:

* valid expressions rejected: `++p` of a pointer, `p - q`, comparison with or
  assignment of `(T)0` as null pointer, `a->m` of an array, `0 && 1 / 0`;
* invalid expressions accepted: any type as index, `char *` converted like
  `void *`, `p++` on an incomplete type, `p -= q`, `&+x`;
* panics of the backend: loading a `void` object, `a[i]` of a `double` array,
  `s.m++` and `(*pp)++`, `int f(); f(1)`, `if (x += 1)`;
* wrong values: literals are `long`, a comparison is a `_Bool` (seen by
  `sizeof`), `p - i` adds, `p++` adds one byte, `b++` of a `_Bool` does not
  convert, shifts have the common type of their operands, constants that do not
  fit are not truncated, `256 >> 8` folds to 0, conversion to `_Bool` keeps the
  low byte, a place with side effects under `&&` is computed unconditionally;
* static objects: structs are written without padding (wrong bytes), a union without braces asks
  for one initialiser per member, an address in a list is no constant (`int *p = {&x}`, pointer
  members and elements are rejected), nor is `(T)0` a null pointer, and a scalar without braces
  is accepted for an array of `char` (`ScalarForChars`: `char a[8] = 1` stores a `long`,
  `char a[2] = 1` panics).

Each exempts an object only from the part of `InitialBytes` it breaks: an object with padding
must still be accepted and an invalid one refused, and only `ScalarForChars` may panic.

### Parsing: from tokens to trees

| module | models |
|---|---|
| `TokenBuffer` | the lookahead `current` and `next` of `parse/mod.rs` (`next_token`, `peek_token`, `peek_next_token`, `unput`, `panic`) over a source that interleaves tokens and errors |
| `Parser` | `parse/expr.rs`, `parse/decl.rs`, `parse/stmt.rs`: precedence climbing, specifiers, declarators, statements; typedef names; errors; `RecursionGuard` |
| `Grammar` | the reference: for each tree the sentence of the C grammar that means it, with parentheses where precedence asks for them |
| `Display` | `data/ast.rs`: what `Display` prints for a tree, as tokens |
| `Cursor` | the abstract specification of the lookahead: the tokens that are ahead, of which only the first can be peeked at or consumed |
| `Parsing` | the state machine: `Parser::next`, one external declaration or error per step, to the end of the file, for the `Sources` it is given, and what holds of any of them |
| `ParsingProperties` | the same machine against `Grammar` and `Display`, for sources made from a tree |
| `MCParsing` | the trees, sentences and damaged sources |
| `ParsingProofs` | proofs for all sources |

The recursive functions of the parser become a machine: `stack` holds what they
still have to do, `vals` the trees they have made, and the operator `?` of Rust unwinds
the stack to the task that handles the error. `Parsing` takes one step per task, so
termination is a bound on the steps per token (`Terminates`) rather than a liveness property. `ReadsInOrder` is a refinement: whatever the
parser peeks, puts back or skips, what is ahead in `Cursor` loses its first tokens only,
the lookahead holds the first of the others, and the end is reached when none is left.

Known departures, documented and excluded or kept in the reference:

* an assignment is not accepted as an argument of a call (`f(a = b)`);
* typedef names are one flat scope: a name that was a typedef anywhere before is
  never parsed as a declared name or a label again, and becomes one only at the
  end of its declaration;
* an error inside the body of a function panics twice, once in `expect` and
  once in `compound_statement`, and the second call swallows the rest of the
  function or the following one: in `int f(){ (a a); } int z;` the declaration of `z` is lost;
* an extra `;` at the end of the file is an error;
* `Display` does not print parentheses around comma expressions that are
  arguments, initialisers, enumerator values or widths of bit-fields, around the operand
  of `~`, or the body of a named struct (`Misprinted` lists these).

### Preprocessing: macros, headers and conditions

| module | models |
|---|---|
| `PPTokens` | preprocessing tokens (`pp/token.rs`), and where text is cut into tokens again after it was printed |
| `Expander` | the first preprocessor: groups of `pp/tokenizer.rs`, the macro table, `try_expand`, `expand_macros`, `CondEval` and `expand_group` of `pp/expander.rs` |
| `Replace` | the second: the stack of open files (`lex/files.rs`), every directive but the conditionals with the errors it raises or notes (`lex/cpp.rs`), `replace` and `replace_function` (`lex/replace.rs`) |
| `CMacros` | the reference: C11 6.10 with hide sets, and notes on what a source does; translates nothing |
| `Preprocessing` | the state machine: `PreProcessor::next`, one call per return, `replace` one turn of its loop at a time; the first preprocessor before it on the way `"both"` |
| `MCPreprocessing` | the sources and headers |

The first preprocessor is a function from a text to a text, so it is an operator.
The second is a queue machine: tokens that were replaced wait in `pending`, errors
in `errors`, and a call of a macro takes its arguments from the tokens behind it, from the
replacement that named it, and from the file. `cpp` holds all of it.

A source is a sequence of tokens with white space; the search for a header is a
table `Headers`. Sources have no directive among the arguments of a call and no two tokens without white
space between them that read as one. `CMacros!Meaning` also yields `notes`, what makes a source lie
outside C or in a known departure, and each property leaves some of them out:

* the first preprocessor does not look at the tokens behind a replacement (`#define f g`
  makes `f(1)` a `g(1)` that is not expanded; `escapes`), expands a name again
  that C leaves alone for good (`painted`), takes a redefinition and a call with the wrong
  number of arguments without a word; keeps `#define` for itself, so that headers
  read by the second one do not see it (`Divided`) and never hears of `-D`; prints tokens side by side
  (`-X` with `-1` for `X` is `--1`; `Fused`); its conditions have no sign and no chain
  of comparisons or conditionals (`odd`);
* the second one never resets `ids_seen` inside a replacement list (`repeated`), does not
  expand an argument before it is substituted (`passed`), takes `##` for `#`
  (`paste`), has no `...` (`variadic`), returns an error before the tokens of
  the same call in front of it, drops the tokens of a call that the file ends in (`unterminated`; a TODO in
  `replace.rs:302`), and its `strip_whitespace` asserts that white space comes one
  token at a time, which an empty argument breaks (`gap`: `#define g(a) f( a )`, `g()`);
* a `#define` with a character that is no token defines nothing (`spoiled`; the first
  preprocessor defines it), which is what the compiler may do with it;
* a character that is no token between the name of a macro and its `(` is skipped, but
  with a blank before it the call is not seen (`parted`).

`ErrorsDelivered` has two parts. `AllReported`: of a source that breaks no rule each error of the
lexer is returned once and in order, but where a line is collected (`#define`, `#warning`, `#error`;
`cpp.rs:864`) only the first error is, the others are lost with it, and a `#pragma` or `#line`
drops all of them (`cpp.rs:538`, `567`); a source that breaks a rule of C (a malformed list
of parameters, a missing name, a redefinition) has some error. `InPlace`: an error may overtake
the tokens of its own call, and no error overtakes, or is overtaken by, the name of another line.

### Lexing: from characters to tokens

| module | models |
|---|---|
| `Chars` | the characters a text is made of, and what they are worth |
| `Lexer` | `lex/mod.rs`: the cursor (`next_char`, `peek`, `peek_next`), white space and comments, every token, the queued errors, and `LiteralToken::parse`, which reads the text of a literal a second time; `tokens_until_newline` and `next_cpp_token` |
| `Tokenizer` | the first preprocessor on a text without macros: `line_joiner.rs`, `tokenizer.rs`, and the printing of groups |
| `CText` | the reference: phases 2 and 3 of C11 5.1.1.2, tokens as the longest sequences that can be one (6.4), the values of literals; translates nothing |
| `Lexing` | the state machine: one call of `PreProcessor::next` per step, a directive with its line, and the second reading of the literals at the end |
| `MCLexing` | the texts |

A reader is a record with the fields of `Lexer` (`at` is the offset; `current`, `lookahead`,
`seen`, `line`, `errors`) and what the last operation returned (`c`, `ws`, `saw`, `err`, `tok`);
`PseudoLexer` is a reader that does not join lines. Lexer and tokenizer are functions
of what is left of the text, so they are operators; tokens carry the places where they start and end, so
that a character that is skipped or read twice is noticed even where the token is the right one.
`#error` stands for the directives that take the rest of their line.

`CText!Meaning` also yields `notes`: what is malformed (`bad`, `number`), what C leaves to the
implementation, and the known departures, which the properties leave out by name:

* the lexer alone cuts a token at a backslash and newline inside of it, and panics
  (`unreachable!("should be handled earlier")`) on the second reading of a literal with one (`split`);
  through both preprocessors the lines are joined before;
* a joined line followed by an empty one swallows the newline, so a directive goes on in the next
  line (`swallow`); `#` alone on its line makes the `#` of the next line a plain token
  (`null`); a comment of several lines before `#` makes it the start of a directive (`comment`);
* the suffixes `lu` and `llu` (`suffix`), constants that only fit in an unsigned type (`unsigned`)
  and `01.9` (`octal`) are rejected;
* `1a` and `08` are cut in two or refused one character late (`number`); no character
  constants of several characters, no characters outside ASCII (`multichar`, `nonascii`); a missing newline at the end of the file is
  reported only after a blank or a comment (`eof`);
* the first preprocessor takes the end of the file for the end of a comment (`open`), reads
  `1'a'` as one number (`quote`), and drops the space between a backslash and a newline (`backslash`).

## Runs

| run | question | bounds |
|---|---|---|
| `lowering` | does `compile` return, is every block well formed, do the context stacks follow the source? | every tree of at most 4 statements of every kind (the init statement of a `for` not counted); every pair of functions of at most 3 statements |
| `execution` | does compiled code do what its statements say, along every path? | every tree of at most 5 statements over `while`/`do` or over `for`, with `if`, `break`, `continue`; of at most 4 over all loops; of at most 6 over `switch`, `case`, `default`, `while`; of at most 5 over labels and `goto` |
| `conditional` | is the right text selected, are errors deserved? | every source of at most 10 directive lines |
| `declarations` | do accepted declarations compile, without a panic, to what C says? | every source of at most 4 items out of all 35 file-scope declarations, 6 definitions of `x`, 9 block-scope declarations, functions, blocks and uses |
| `expressions` | does an expression that C defines compute its value, is it accepted, is what C forbids rejected, does the backend never panic, does folding preserve meaning, are static objects initialised as C says? | nine families: every operator on every pair of arithmetic types (variables and constants of two values); two operators deep on a few types; pointers and arrays; structs and unions; calls; `&&` and `?:`; places with effects, four operators deep; static objects of 26 types: lists of at most four elements, flat and nested, scalars, and for pointers and arrays of `char` letters, addresses and null pointers |
| `parsing` | do sentences parse to their tree, does printed text parse back, are tokens read in order and none lost, does recovery resume, does the parser end, does it ever panic? | 1775 trees (each as sentence and as printed text); 2773 sources with one or two misplaced tokens out of 21 kinds in 6 contexts; `MAX_DEPTH` is 30 (1000 or 10000 in the source) and one source exceeds it; at most `STEPS_PER_TOKEN` = 80 steps per token (none of these sources needs more than 8) |
| `macros` | does each preprocessor, and do both in a row, give the tokens C gives; are errors delivered, and where they stand; does replacement end, without a panic? | some 10,000 sources: pairs of object macros over 8 lists; an object and two functions over 12, 5 and 5 lists with 18 uses; `...`; every three of 13 lines (definitions, headers, errors, text), conditionals with `#elif` and `#else` around and inside each other; conditions of one and two operators; every two of 33 lines with characters that are no token or lists that are none, before 3 texts with such characters (3,366 sources); at most 200 turns of `replace` |
| `lexing` | does the lexer, alone and behind the first preprocessor, cut a text into the tokens C does, at their places and with their values; is what is malformed reported; can a literal fail when it is read again? | 32,485 texts, each read both ways: every text of at most 4 characters of layout (blank, newline, backslash, `/`, `*`, `#`, a letter), alone and between 6 beginnings and 5 ends; of at most 4 characters of numbers, after 5 prefixes; of punctuators; literals of at most 3 characters and escapes of at most 5; a joined line at every place of 10 tokens; integers have 4 bits (64 in the source) |
| `continue_standard` | violation: `continue` | `while` bodies of at most 3 statements |
| `label_scope` | violation: labels leak into the next function | two functions of two statements |
| `else_error` | violation: a conforming source gets `UnexpectedElse` | 8 lines |
| `static_then_plain` | violation: a valid redeclaration is rejected | 4 items |

The bounds are enough for the interesting cases: two nested constructs with a
jump out of the inner one and a statement after it need 4 nodes, a switch in a
loop with two cases and a break 6; a group that leaks an entry inside a group
with an `#else` needs 7 lines. Four items are two declarations, a function and a use, or
three declarations and a definition, enough for every order of `static`, `extern` and
plain declarations and for a name that is redeclared inside a function. Every tree of that size is generated, none chosen
by hand.

Deadlock is not checked where the system may stop: the source of `conditional` ends, an expression is
rejected or has been run, a parser at the end of the file is done, and so is a preprocessor.

Fairness. The compiler is one sequential call, so `FairSpec` assumes weak fairness
of the whole step (`Returns`: it returns for every program). `SFairSpec` assumes it
of the compiler and of the compiled code (`CodeArrives`: no silent infinite loop).
No other fairness is used, and the environments of `Conditional`, `Declarations`, `Translation`, `Parsing`,
`Preprocessing` and `Lexing` have none: where each of them must end is a bound on its steps (`Terminates`).

Each property of a passing run is paired in `PROJECT.json` with a seeded defect of
the code (the operators marked so in the modules) under which it fails.

## Proofs

### Statement compiler

`LoweringProofs.tla` proves, for programs of any size and nesting, that every behaviour of
`Lowering!Spec` satisfies `TypeOK` (theorem `Typed`), `BlockStateTracksBuilder`
(`StateTracksBuilder`) and `BreakFindsSwitch` (`BreakIsInSwitch`): `current_block_state`
never disagrees with cranelift's block, no instruction follows a terminator, and the
`expect()` of `loop_exit` does not panic. It proves
`ContextMatchesNesting` (`ContextFollowsNesting`) and `BreakScope` (`BreakFollowsSource`) on
top of that, `LoweringCode.tla` proves `VerifierAccepts` (`VerifierAcceptsCode`) on top of
both, and `LoweringFollows.tla` proves `CodeFollowsSource` (`CodeFollows`) on top of all. The
only assumption is `ProgramsAssumption`: a program is a table of nodes in source order,
each the kid of one other or the body of a function.

None of them is inductive. A continuation (`endIf`, `endWhile`, `endSwitch`, ...) opens
a block that was created long before, with any number of statements compiled in between,
so that nothing in the current state says the block is still empty. `IInv` adds that

* a builder is `Good` between two steps, and a block that a waiting task or an open switch
  will open is untouched and has that one owner (`Reserved`);
* the open switches are those of the call stack: a depth `h` counts them below each
  task, and where `last_saw_loop` is false, or a waiting loop has saved that it was, the
  depth is positive (`Nested`). This is what makes the switch of a `break`, `case` or
  `default` exist;
* the init statement of a `for` leaves its block open, which `for_loop` needs when it jumps
  to the loop header without looking (`Waiting`).

Lemmas about the builder state what each call of `FunctionBuilder` does to the blocks that
can be opened; lemmas about the stack say when a task may be pushed, popped or replaced.
There is one lemma for each action (`IfKeeps`, `SwitchKeeps`, ...) on top of these, and
`StepKeeps` combines them.

`NInv` relates the context and the call stack to the source:

* `Mirrored`: each open loop has its entry in `loops`, in the order of nesting and with the
  block its continuation opens, each open switch has one in `switches`, and the value of
  `last_saw_loop` that each task saved is the one at its own height. A step that pushes or
  pops a task then finds the context of the rest of the stack unchanged;
* `AsInSource`: a statement that waits is in a loop or switch of the source exactly when one
  is open below it. This is where a statement must have one parent: a body shared by a loop
  and a function would be inside the loop in one place only. The `init` of a `for` is left
  out, being inside the statement and outside the loop; it is an expression or a
  declaration and holds no `break`.

`CInv` says of the function in progress that every block the compiler has left is
terminated (`Sealed`), that every jump goes to a block of `Landing`, and that every block the
compiler holds to jump to later (`Held`: in `loops`, in the cases of a switch, in `labels`, in
the condition of a `do`) is one of `Landing`. A block is there when it has been opened, when
a waiting task opens it on every path (`Due`: `endElse` opens its block only if
`if_has_return` or the `else` did not return), or when it ends an open switch. Each step that
opens a block moves it from the last two parts to the first, so `Landing` never loses a
block; at the end of a function only opened blocks are left, which is what the verifier
wants.

`VerifierAccepts` is proved under `OwnLabels`: no `goto` names a label of another function.
The hypothesis is needed, because `Compiler.labels` keeps the labels of earlier functions;
the run `label_scope` shows a program without it that the verifier refuses. Under it
`ScopeOK` says that what waits lies in the body of the function that is compiled, and
that each label bound so far is one of that function or of an earlier one, so that a `goto`
finds only blocks of its own function.

`CodeFollowsSource` (`LoweringSource.tla` and `LoweringFollows.tla`) says of `SSpec`, the
compilation followed by the lockstep execution, that code and statements meet only at the same
evaluation. It is a simulation, and the tree of statements is walked by no induction: the
compiler does that.

* A relation `K` of pairs `<<L, q>>` says that code about to run at the place `L` does
  what the source does from the position `q`. `Justified` says what bears a pair out: the code
  at `L` evaluates what the source evaluates at `q` and every value leads to pairs of `K`
  again, or the code jumps, or the source moves without evaluating anything. `Follows(code, K,
  P)` says that every pair of `K` is borne out but for those of `P`, whose places have no code
  yet.
* While a function is compiled there is such a `K` (`Sim`) that holds the pair of its first block
  and its body, and owes only (`Owed`) what the call stack will deliver: the current place
  does what the innermost task is about, the block that `endIf`, `else`, `endWhile`, `endDo` or
  `endSwitch` opens does what follows (`Promise`), and so does the block that ends an open
  switch. It also holds what a jump backwards relies on: the block a loop
  comes back to (`Kept`), the block of each label that is bound (`LabelsKnown`), and for each open
  switch the entries that are recorded, while the others are ahead (`SwitchesKnown`).
* That the promises of two tasks fit together is a fact about the source alone (`Placed`): where
  a task ends, the source comes silently to what the next task is about (`Flow`), and the
  loops and switches around a statement are the open tasks below it (`Nest`), so a `break`, a
  `continue` or a `case` finds the block of the right one.
* Each step of the compiler keeps `Sim` for a `K` with more pairs (one lemma for each
  action: `IfSim`, `EndWhileSim`, `CaseSim`, `GotoSim`, ...). When a function ends nothing is owed
  any more (`Whole`).
* A `goto` is compiled to the block of the label of its name, and the name is that of one
  label: a name bound twice is rejected, and a program that compiles has bound all it has
  (`LabelsSeen`, `CompiledLabels`).
* During the execution the code at `pc` leads by jumps to a place paired with a position the
  source falls to from `at` (`Abreast`).

`Falls` and `Leads` are defined by sets that are closed under the moves, as a path would be, and
allow a source or a code that moves for ever without evaluating: this proof is about what the
two meet at. That they do meet is `CodeArrives`, which the run checks. The
hypotheses are where they are needed: `SkippingContinue` in `LoopExitSim`, `shared` in
`CaseSim` and `DefaultSim` (a recorded entry is a block without code), `OwnLabels` in `GotoSim`.

### Conditional inclusion

`ConditionalProofs.tla` proves, for sources of any length, nesting and any
bound `MaxLines`, that every behaviour of `Conditional!Spec` satisfies `TypeOK`,
`SelectionAgrees`, `NoFalseError`, `DepthTracksNesting` and `EntriesOwned`. The
only assumption is `MaxLinesAssumption`.

The properties are not inductive: whether an `#else` is judged rightly depends on
which entries lie below the top of `nested_ifs`. `IInv` adds that

* while text is emitted every group is live, and while it is skipped `depth`
  counts the groups from the first that is not live (`Modes`, with `SkipsFrom`);
* a live group is taken and has an entry inside `nested_ifs` (`Owned`), and the
  entries lie there in the order of their groups (`Ordered`);
* every `Else` entry belongs to an open group that is past its `#else`
  (`ElsesOwned`), so an entry that was left over is an `If`.

The second part holds as long as the source conforms and no `Else` entry was left
over (`Sound`), which is what the properties assume too.

There is one lemma for each action and, under it, one for each effect on the stack
(an entry pushed, popped, left over). Lemmas about `SubSeq`, `Append` and `Front`
are stated once.

### Declarations

`DeclarationsProofs.tla` proves, for sources of any length over any set of declarations,
every property the run `declarations` checks: `ValidNeverPanics`, `ExternalCompiles`,
`RedefinitionCaught`, `SymbolAgrees` and `UseDenotes`, and besides that `load_addr` finds
every symbol, in invalid sources too (`LoadsDeclared`). The only assumption is
`DeclarationsAssumption`: `MaxItems` is a natural number, and the declarations the source is
made of are declarations.

The properties speak of the end of a compilation, and nothing the backend holds then says
what the source was. `IInv` has one part for each of the two passes:

* `Front`, while the source is read. Each scope denotes what the standard says the scope
  does, and the symbol that it denotes is one whose declaration is in `hir` by then, within
  the same function body if it needs a slot (`ScopeOK`, `LoadsOK`). `DefinitionsOK`
  relates the definitions in `hir` to those the standard counts: a second one that `declare`
  overlooks still has two events. `AgreeOK` says of a valid source that all the declarations
  which reach the module agree, not only the neighbours that `declare` compares.
* `Back`, while `hir` is compiled. `ModuleOK` says what the module holds of the first `pos`
  events: defined if one of them defines `x`, exported if one of them exports it.
  `IdsOK` says which symbols `Compiler.declarations` has, and for a slot to which function
  it belongs. `Front` stays true beside it.
* `Outcome`, what the properties claim of a compilation that has ended: each step
  that ends one is shown to establish it, by `Front` for an error of `declare`, by `Front` and
  `Back` for a panic or an error of the module, and by both over all of `hir` for success.

There is one lemma for each action (`DeclareStep`, `CloseStep`, `StoreStaticStep`, ...).
The hardest step is an announced declaration (`AnnouncedAgree`): that comparing
with the last declaration alone is enough, in a valid source, for all of them to agree.

### Parser

`ParsingProofs.tla` proves for every source, whatever tokens it has and in whatever order,
that no assertion of the parser fails (`NeverPanics`) and that its lookahead implements
`Cursor` (`ReadsTokensInOrder`). The only assumption is `SourcesAssumption`: a source is a
sequence of tokens and errors, none of them the mark of an empty slot.

What the state promises is in `Good`: `current` is filled before `next`, both hold tokens of
the source that the grammar sees, in its order and before `read` (`Queued`), and `read` is
never between the parts of a string that is still to be joined (`Placed`). That says nothing of a token
`unput` has to put back: there is room for it because the function that took it has not
peeked since, which is a fact about one step and not about a state. So each handler is taken
as a composition of calls, and `Onward(m, n)` is what one call of any kind keeps: from a
good state it leads to a good one over the same tokens, in which the tokens ahead are those
before without some of the first ones. It is reflexive and transitive; `TakeOnward`,
`PeekOnward`, `PanicOnward` and the like show it for each operation of the lookahead,
`ErrorsOnward`, `ExpressionsOnward`, `DeclaratorsOnward`, `StatementsOnward` and
their like for the handlers, and only where one puts a token back is it shown by itself
(`UnputName`, `UnputAhead`, `UnputAny`). `StepOnward` combines them, so the invariant and the
refinement follow from the same lemmas. That a token that begins a string ends somewhere is
the least-number principle, taken from the well-foundedness of `<` (`LeastNumber`).

It proves `Terminates` for every source (`ParserEnds`): the parser takes at most
80 steps for each token of the source, and 80 more for its end, however the tokens are damaged.
The parser has loops that need not consume anything (`block` over its statements,
`Parser::next` over its errors) and functions that hand over to one another without looking
at a token, so the argument is an account:

* a task costs the steps that it and the tasks it pushes take up to the next token one of
  them consumes (`Cost`, at most 21; a block costs one more for each error that it has kept);
  the stack costs the sum (`Costs`);
* every token that is not consumed yet pays 80 steps, every error or declaration that waits for
  `next()` one (`Owed`), and an error that is propagated has to be reported (`Lost`);
* `Account`: what the tokens that are left pay, what the stack costs and the steps that are
  done do not exceed what the source paid, but for a debt of at most 23.

A function that consumes a token gains 80 and pays with it for all it pushes, 53 steps at most,
and for any debt (`Consumes`); one that does not is paid for by its own cost (`Proceeds`). Only where a
statement or a declaration is begun is neither enough, since the next turn of the
loop costs as much as the last one: this is where a debt is made (`Opens`). It may stand only
while `MayOwe` holds: what comes next on the stack consumes a token before it ends
(`Reaches`), or an error is propagated to a block, whose `panic` consumes one, or no token is left
and nothing will be begun. So the debt is paid before another is made. `Outcome` says that a
task does one of these things, and there is one lemma for each function
(`UnaryOutcome`, `SpecifiersOutcome`, `FunctionOutcome`, `AnyStatementOutcome`, ...), one for the block, which keeps
errors (`BlockAccount`), and one for an error that unwinds (`UnwindAccount`). The
difference between failing inside a block and outside of it matters: at file scope
`KeepError` alone ends a declaration that failed, and it has consumed a token by then, because
`declared` and `declarator` never fail without one.

The bound is generous. It follows the longest way between two tokens, with the
price of a task the same in every context; the sources of the run need a tenth of it at most.

### Promotions

`TypesProofs.tla` proves that `integer_promote` and `binary_promote` are the integer
promotions and the usual arithmetic conversions of C11, for every pair of arithmetic types
and in every data model with `DataModelAssumption` (sizes that strictly increase
from `short` to `long`); the run `expressions` shows it in one. The argument splits the
integral types into those below `int`, which become `int` because it represents all
their values (`SmallPromote`), and the others, which are compared by size and sign.

### Only model-checked

* `Returns` and `CodeArrives`: liveness, which is out of the prover's reach.
* Every property of `Expressions`, `Preprocessing` and `Lexing`, and those of `Parsing` but
  for `NoPanic`, `ReadsInOrder` and `Terminates`. Most of them compare what recursive functions over trees and
  texts compute, and the installed provers have no induction over data.

## Not modelled

* *Header search*: the search path and the cache of `pp/headers.rs`; `driver.rs` gives it no
  search path.
* The values of floating constants, and letters and punctuators that the lexer treats like one it has.
* *Scopes of several names*: tags, typedef names in the analyzer's nested scopes against the
  parser's flat one (`Parser` has the parser's side).
* *Statements with expression blocks*: `Lowering` takes an expression as one
  instruction; `Codegen` has `&&`, `||` and `?:`, but inside one expression.
* Of the preprocessors: `#include` of a macro (`unimplemented!()` in the code),
  `__LINE__` and its like, `__has_include`, `#include_next`; of the first one also the pragma it
  hides (`expander.rs:901`) and malformed parameter lists.
* Type qualifiers: `const` and `volatile` are left out of declarations, types and assignments.
* Initialisers of objects in blocks: those with automatic storage but for a scalar, and static
  ones, where an address does not become a `StaticRef` at all (`init.rs:34`).
* Warnings and `max_errors`; printing of diagnostics; interning; the linker call.
