# Specifications of CSpydr

CSpydr is a programming language with a compiler `cspc` written in C, a linter
that shares the compiler's front end, a standard library written in the
language itself, and a C API. These modules model the parts of that system
whose correctness depends on control: sequences of calls, walks that nest, state
carried from one call to the next, processes and signals. Paths below are
relative to `src/src/`, those of the compiler to `src/src/compiler/`.

Run a model with `tlc -config <cfg> <MC module>`; check the proofs with `tlapm` on
`SequenceFacts.tla`, `HashMapProofs.tla`, `DriverProofs.tla`, `DebuggerProofs.tla`,
`LexerProofs.tla`, `PreprocessorProofs.tla`, `InterpreterProofs.tla` and
`AsmProofs.tla` (ten minutes for the last, less for the others).
`PROJECT.json` names, for every definition, the lines it stands for.

## The system

| part | state it keeps | operations | what is hard about it | modules |
| --- | --- | --- | --- | --- |
| driver (`main.c`, `toolchain.c`, `error/`, `context.c`) | flags, counters of errors and warnings, the jump buffer, the output path | option parsing, the pass pipeline, `throw_error`/`panic`, the tools, `run` | non-local exits; errors that do not stop a pass; tools that fail or die; the exit status | `Driver`, `DriverProofs` |
| hash map (`hashmap.c`) | an open-addressing table | put, get, keys, values | rehashing under collisions; growth | `Dictionary`, `HashMap`, `HashMapProofs` |
| lexer (`lexer/`) | position in a line and file | `lex_next` | look-ahead and look-behind over lines | `Lexer`, `LexerMeaning`, `LexerProofs` |
| preprocessor (`preprocessor/`) | token lists, macro table, imported files | imports, macro definitions, macro calls, `@` | reading a list that grows; tokens shared by lists; recursion of macros and imports | `Preprocessor`, `PreprocessorMeaning`, `PreprocessorProofs` |
| parser (`parser/parser.c`) | token index, current object and block, hole of a pipe | expressions by precedence, statements, types, definitions | one token stream read with two tokens of look-ahead; state that must be put back | `Parser`, `ParserMeaning` |
| validator (`validator.c`, `queue.c`, `ast/ast_iterator.c`, `ast/vtable.c`) | scopes, the queue of objects, the walks under way, tables of virtual functions | name lookup, ordering, shallow and deep validation | walks started from callbacks of walks; order of resolution; cycles | `Iterator`, `Validator`, `ValidatorMeaning` |
| layout and types (`validator.c`, `typechecker.c`, `ast/types.c`) | sizes and offsets, types of nodes, `const` marks | sizes, types bottom-up, casts, checks | sizes read before they are final; comparisons that look through aliases or do not | `Layout`, `Types`, `TypesMeaning` |
| optimizer (`optimizer/optimizer.c`) | marks, a stack of nodes | removal of dead code | a second table of what is below a node | `Optimizer` |
| assembly back end (`codegen/asm/`) | stack depth, frame offsets, labels, `break`/`continue` targets | one generator per node | balanced pushes over every path; the calling convention | `Syntax`, `Terms`, `AsmCodegen`, `AsmMachine`, `AsmMeaning`, `AsmProofs` |
| C back end (`codegen/transpiler/`) | buffers, array typedefs | one generator per node | what it makes statements mean | `Language` |
| interpreter (`interpreter/`) | a byte stack, flags `returned`, `broken`, `continued`, recursion depth | statements, expressions, calls | flags that outlive their loop; frames in shared objects | `Syntax`, `Interpreter`, `InterpreterProofs` |
| debugger (`debugger/`) | loaded pid, breakpoints | load, unload, comp, cont, brk, register, memory | two processes, ptrace, self-modifying code | `Debugger`, `DebuggerProofs` |
| linter, standard library, C API, C header parser, JSON, timer, pkg-config | - | - | see "Not modelled" | - |

The parts call each other directly. The driver runs the passes in order on one
syntax tree; every pass reports through `throw_error`, which may `longjmp` back
into the driver. The validator, the parser and the back ends keep their scopes
and tables in hash maps. The lexer's tokens go through the preprocessor's lists
to the parser, whose tree the validator numbers, orders, types and lays out; the
optimizer marks it, a back end or the interpreter reads it. The debugger is
started by the driver once the program is built; the linter runs the front end
in a loop with a panic handler of its own.

`Lists` and `SequenceFacts` are about no part of the compiler: what a list is, and the
facts about lists and numbers the proofs share.

Three ideas recur. A pass that recurses over a tree is a machine with an explicit
stack of what is left to do (`todo`, `agenda`, `frames`), one `case` or one round of
a loop a step: what the code keeps in static or shared variables while it
recurses is then state between steps. What the pass is for is told by a second
module, `...Meaning`, without that state: by grammar, substitution, environments,
reachability, evaluation. And the inputs are not single examples but all
combinations of a table of constructs, one level deeper than the hazard needs.

## Runs

| run | instance | what it checks |
| --- | --- | --- |
| `hashmap` | 5 keys, all of which may collide, 4 and 8 slots | `TableIsSound`, `RoomToInsert`, refinement `IsDictionary` |
| `driver` | all actions, back ends, flags; 2 uncritical errors; failing tools | `CountedErrorsAreFatal`, `RunsItsOwnOutput`, `NoOutputAfterErrors`, `Terminates` |
| `lexer` | all texts of 2 characters, up to 9 of one kind of lexeme | `LexesTheText`, `TokensAreInTheFile`, `Ends` |
| `preprocessor` | 3 files importing one another in all ways; macros in macros | `ImportsAreFollowed`, `ExpansionIsSound`, `TokensAreMeant`, `Terminates` |
| `parser` | programs written from trees; all short texts over a few tokens | `TreeIsTheText`, `Terminates` |
| `validator` | about 450 programs | `ResolvesLexically`, `ValidatedInOrder`, `LiveCodeIsKept`, `Terminates` |
| `types` | about 8000 programs | `AcceptedIsSound`, `AliasesAreTransparent` |
| `asm` | about 4200 functions | `JumpsHaveTargets`, `StackIsAligned`, `CompiledRight` |
| `asm_index` | one function | disagreement: `CompiledRight` is violated |
| `interpreter` | about 240 programs, open conditions | `FramesStack`, refinement `ImplementsLanguage` |
| `interpreter_recursion` | a function that calls itself | disagreement: `OwnVariables` is violated |
| `debugger` | 2 instructions, 2 loads, a quick and a poking user | `TrapsAreBreakpoints`, `ContinuesInPlace`, `BreakpointsStop` |

Each passing run also checks its module's type invariant. Deadlock is checked
except in the runs whose system stops at the end of its input (`lexer`,
`preprocessor`, `parser`, `validator`, `asm`, `interpreter`); where the end is a
stuttering action (`driver`, `debugger`, `types`) and in `hashmap` it is checked.

*Fairness.* The compiler is one running thread: `Lexer`, `Preprocessor`, `Parser`
and `Optimizer` (whose `Compile` runs all passes from the parser's tree on) assume
weak fairness of their whole next-state relation and nothing of single actions.
`Driver` assumes that each way a pass ends is not put off for ever, and that tools
and the interpreted program end; errors and warnings are never forced. `Debugger`
assumes that started processes run and that `waitpid` returns when there is
something to report; commands are up to the user, and no fairness is assumed of
them.

## What is modelled

### Hash map: `Dictionary`, `HashMap`, `HashMapProofs`

`Dictionary` is what the callers rely on: entries are added once, never replaced,
never removed, and `EEXIST` and `NULL` mean what the validator and the string
tables take them to mean. `HashMap` is `hashmap.c` step by step: `pairs`, `size`
and `alloc` are the fields of `HASHMAP_STRUCT`; `oldPairs` and `cursor` are the
locals of the rehash loop, which is one step per pair, so that the table in the
middle of it is a state. `PutCall`, `PutSize`, `RehashPair`, `RehashDone` and
`PutInsert` are `hashmap_put`; `Get` and `GetKeys` are `hashmap_get`,
`hashmap_keys` and `hashmap_values`. A hash is any function of the keys into
`Hashes`, fixed for the run.

*Run `hashmap`*: hashes 3 and 7 fall together in the small table and start at its
last slot, so that probes wrap around, and apart in the large one. `TableIsSound`
is the representation, also half way through a rehash: one slot per key, every
pair where `hashmap_find_pair` looks, `size` the number of pairs. `RoomToInsert` is
the assertion in `hashmap_rehash` and the "out of memory" branch of `hashmap_put`.
Five keys are enough for one growth, from 4 slots to 8, and for chains through several
homes before and after it; tables of any size are the proofs'. Keys and values are
symmetric, as the hash function is chosen over all of them.

### Driver: `Driver`, `DriverProofs`

One run of `cspc`: `opts` are the action and the flags control depends on,
`pass` the index into `construct_passes`, `errors` and `warned` the counters of
the context, `target` what is at the output path. An error that does not force
an exit only counts (`UncriticalError`); one that does jumps to the `catch`
branch (`CriticalError`), as does a pass that returns an error or leaves a
counted one (`PassReturns`). Tools may fail (`ToolFails`: a `throw` that counts
nothing) or be killed (`ToolKilled`: `subprocess` returns 0). `Catch` is
`default_panic_handler`, `AfterCompile` the rest of `main`. `failed` is history.

*Run `driver`*: `CountedErrorsAreFatal`: unless silent, a counted error ends in
status 1 and executes nothing. `NoOutputAfterErrors`: no target is written once an
error was counted. `RunsItsOwnOutput`: a run in which nothing failed executes what
it built. `Terminates`: whatever the passes raise.

The two exceptions are disagreements. With `--silent` the panic handler returns
and a failed compilation exits with 0, on which `tests/run-all.sh` relies. And when
a tool fails nothing is counted, so `run` goes on to execute the file of an earlier
build, or nothing at all.

### Lexer: `Lexer`, `LexerMeaning`

`line`, `pos` and `c` are the cursor `lexer_advance` keeps, `mode` the loop of
`lexer.c` it is in; a step is one round of that loop, with the `lexer_peek` it
makes. A file is a sequence of lines as `getline` gives them; characters stand for
the classes the code tells apart (the letters of the base prefixes, one other
letter, two digits, every character with a loop of its own).
`LexerMeaning` has no cursor: the next lexeme is the longest prefix that is of
some kind, a comment ends at its matching bracket, a text without such a reading
fails. `LexesTheText` says that the loops return these tokens and fail exactly
where there is none; `TokensAreInTheFile` that every token names a place that exists,
in the order of the file; `Ends` that the loops come to an end. `lexer_advance` counts
`pos` on behind the end of the last line, without limit and without looking;
`MaxOverrun` is how far the endless number of the second exclusion below is followed
(the guard of `IntChar`; the wrap of `size_t` is not). `TypeOK` says where `pos` may be
behind its line at all: in a number with a base at the end of the file, and where a
string is not closed. `FilesAssumption` is what
`getline` gives: lines are not empty, and all but the last end with their newline.

Excluded, each by a named condition, is what the code reads otherwise:
- `]#[` and three backslashes before a quote (`Overlapping`): comments and strings
  are ended by looking one character back, and do not see that this character
  belonged to the lexeme before;
- a number with a base as the last characters of a file without a final newline
  (`EndsInPrefixed`): `strchr` finds the terminating NUL of its own string of
  digits, and the loop never ends.

### Preprocessor: `Preprocessor`, `PreprocessorMeaning`

A token is a cell of `heap`, and `tokens`, `kept`, `dest` and the bodies and
arguments of macros are lists of cells, as the C lists hold pointers: what `@` does
to a cell in one list it does in all. The three stages are the three loops of
`preprocessor_pass`; `frames` are the invocations of `expand_macro_call`. Of the
macros the compiler defines itself `__line__` stands for all. What a file's name
resolves to depends on the file the import stands in: `get_full_import_path` starts
from its directory.

*Run `preprocessor`*: a main file and two others with none, one or two imports
each, of each other, of themselves, twice, and of a file that does not exist; calls
of macros with and without a parameter, nested in arguments and in bodies, with
lists of tokens in brackets, with `@`, with themselves; and a file that ends in the
middle of an import statement. `ImportsAreFollowed`: when
the list that is read while imports are appended to it has come to its end, every
import statement in it was followed and no file came in twice; the files that came in
are the least set that has those the main file names and those its own files name
(`NeededFilesAreRead`: none too many unless a text is `Torn`, none too few unless a
statement was skipped), and the list is their tokens one text behind the other.
`ExpansionIsSound`: no
call is left among the tokens the parser gets, and calls stop at the limit.
`TokensAreMeant` compares what macros become with the recursive meaning, substitution.
`MaxDepth` is four, more than the nesting of any program but the
one that calls itself. `ProgramsAssumption` is what the lexer and the file system give:
files are lists of tokens, and what an import resolves to is a file or nothing.

Three things a reader would not expect are in the properties: of two imports with
nothing between them the second is skipped with the first, so that an import
statement counts as one only where the loop looks; a file that ends in `import` takes
the string that begins the next text (`Torn`), and if no text follows, and others were appended
before, `parse_import_def` reads the slot behind the list, which nobody has written
(`ReadsBehind`; in a list that has not grown the EOF is still there); and a macro whose body holds a
definition puts it into the parser's tokens.

`Simple` names what substitution does not describe:
- a macro call in a body takes the parameters of its macro as they are written;
- `@` writes into the token it joins to, which the macro's body or the caller's
  argument still holds: the next expansion joins to what the last one joined, or
  reads a freed token (`ReadsFreed`);
- the depth counter is never decremented: the limit is on calls, not on depth.
The main file comes in a second time when another file imports it.

### Parser: `Parser`, `ParserMeaning`

A parse function is the list of calls it makes (`TypeTasks`, statements,
expressions by precedence, definitions); `agenda` is what the C stack has still to
do, and a step does its first task. `i` is the index of the token, `vals` the trees
built so far, `cur` and `blocks` are `cur_block`, `obj` is `cur_obj`, `enabled` and
`used` are the hole of a pipe. `ParserMeaning` has the grammar as a printer: `Text`
writes a tree with no more brackets than precedence demands, `Meant` is the tree
that is meant to come back. Which operand an operator takes is told there by `Order`, the list
of operators in the comments of `Precedence_T`; the parser's own `Level` is from the tables
of its tokens.

*Run `parser`*: every construct of an expression around every other one, on either
side; every statement in every other, three deep; every type and definition; every
text of up to four tokens from several alphabets in the places where they may
stand. `TreeIsTheText` reads it from both sides: a program written from a tree is
accepted and comes back as that tree, and whatever is accepted has lost no word.
`Terminates`: also on texts that are cut off.

What the model shows beside that (and keeps out of the trees by `Grouped` and
`LocalsFirst`, out of the texts by their length, or counts as `crashed`):
- `parse_for_range` returns before `cur_block` is restored, so a `let` after a
  range in the same block is refused;
- a pipe inside the right side of a pipe disables the hole of the outer one;
- the two advances between the parts of a `for` look at no token;
- the argument list looks two tokens ahead, past the end of a text that is cut off;
- a name may end in `::`; the members of tuple types are not compared by name;
- `ret` with a value in a lambda outside of a function dereferences `NULL`.

### Names, order and dead code: `Iterator`, `Validator`, `Optimizer`, `ValidatorMeaning`

`Iterator` is the table of what `ast_iterator.c` visits below each kind of object,
node and type, in its order. `Validator` walks with it three times, with another
table of callbacks each time: names are resolved in `scopes`; objects are put into
the `queue`, each behind those it needs, by walks that are started from callbacks
(`todo` is the stack of these walks, `stack` the objects under way, `exacts` the
`need_exact` of each, and `iterate_only_objs` is in the one static table they all
share); then the queue is worked off, shallowly and deeply, and tables of virtual
functions are built. `Optimizer` is the search for live code with a table of its
own. `ValidatorMeaning` has no walks: an environment is passed down the tree,
needing is a relation between objects, live is what a relation reaches.

*Run `validator`*: one name declared in every combination of scopes; types,
constants and functions the compiler must run that need one another, in several
orders, with and without cycles; globals that name each other or themselves in their
values; functions of an interface missing or twice; every
kind of node with functions in its places. `ResolvesLexically`, `ValidatedInOrder`
(everything once, after what it needs, only real cycles are rejected, and the tables
of virtual functions are complete, `DispatchIsComplete`), `LiveCodeIsKept` (exactly
what is live is marked), `Terminates`.

Two kinds of programs the compiler does not survive, and `Terminates` says that there is
no third: `let a: i32 = a;`, or plain globals that name each other, because
`resolve_obj_enqueue` looks at `obj_stack` only when it resolves deeply, and an object that
is needed shallowly is visited inside its own visit without end (`NamesItself`); and `A::m`
where the alias `A` leads to no type, because `expand_typedef` reports the missing name and
goes on with the other member of the result's union as an object (`LeadsNowhere`). Both end
in `crashed`. `MaxNesting` stands for the C stack: eight visits inside each other, where the
other programs reach no more than five.

Programs of the run keep clear of the following, which the modules have and which
a program with them shows at once:
- a name through an alias of an alias, `A::X`, resolves only while the alias is
  unresolved, and then in the scope of the use; members of a struct that is in scope
  are nodes which are taken for objects (`NotAnObj`);
- `need_exact` is inherited by walks that are started below a pointer;
  `iterate_only_objs` set for one walk is what the walk around it goes on with;
- what a function calls that is called itself from an array length is validated
  only shallowly when it is run; a function of an interface that is queued
  shallowly and then deeply is registered twice and reported as redefined;
- a `with` whose type has no exit function dereferences `NULL`; a constant function
  cannot use its own locals;
- the default case of a match shares a union with the body and is visited three
  times, the second time by the path its names have got the first time (`Spelling`): what
  `using` has made visible there is refused if it is private;
- aliases that name each other in a circle, where `expand_typedef` does not end;
- the search for live code does not enter the bodies of `match type`, dynamic casts,
  the initial value of an exported global, or the functions called in operands of
  inline assembly (these are marked, but not searched); a drop function that uses
  `with` on its own type makes it run for ever.

### Layout and types: `Layout`, `Types`, `TypesMeaning`

`Layout` is `get_type_size`, `get_type_align` and the visits that call them: a size
is written to the type it was computed for and read again by the next computation.
`Types` is the deep pass and the type checker on one function: `validated` nodes get
their types from those below them, `Typechecked` ones their casts. A type is an
object with an identity, because `const` marks the object and declarations share
it; `constants` are the marked ones.

*Run `types`*: every pair of 20 types in every place a value can be put, every
operator on every pair of 12 types, a statement after a declaration with every kind
of expression, constants, functions that return on some paths, tables of structs
and unions that contain and point to each other in every order.
`AcceptedIsSound`: in an accepted function every value has, with the casts that
were inserted, the type of its place; operands agree and neither is narrowed;
dynamic values have tables; the end of a function with a value is not reached; no
constant is assigned (`ConstantsAreKept`); and when every type was visited, computing
its layout again changes nothing, and members neither overlap nor are misaligned
(`LayoutIsSettled`). `AliasesAreTransparent`: names of types make no difference to a
verdict.

The properties say with the types the code distinguishes, and name what they leave
out. It accepts and rejects more than a reader would expect:
- arrays and slices are compared without element and length, an array converts to
  any slice, the length of an array literal with a spread comes from its first
  element; structs and tuples compare no names;
- an alias equals itself alone, so both branches of `?:` and `else` must name it
  alike, and arrays, functions and dynamic types behind one are not cast;
- a pointer plus an `i32` is accepted and plus an `i64` is not; two pointers can be
  added and multiplied; operands of `%` and comparisons are not cast, those of
  `==`, `!` and `&&` not checked;
- an assignment may delete `const` where an argument may not, and takes a pointer
  to constants for a dynamic value by a plain cast; `const` set on a type object
  reaches what shares it, and a constant behind an alias can be assigned; a global
  constant can be counted up;
- `(x) = 5` gets no type, `let x = &x` is accepted, `x->y` through an alias of a
  pointer has the type of the pointer, an explicit cast from a dynamic value to a
  reference is rejected though the implicit one is accepted, most others are
  accepted;
- a struct is first laid out with alignment 1 and, computed again, grows to a power
  of two (9 to 16, 17 to 32); the alignment of a pointer depends on whether the size
  of its target is known;
- a loop that contains a return is taken to return.

The operands of a bitwise operator are compared by the sizes stored in their type
objects (`validator.c:1527`), where `Types` computes them: an alias is still without one
if it stands in the signature of a function that is validated later, and in the programs
of the run such functions come first. Structs that contain themselves do not reach the
error of `get_struct_size`: the queue has reported the cycle before.

### Interpreter: `Syntax`, `Language`, `Interpreter`

`Syntax` has the trees and the tasks an evaluation consists of. `Language` is the
meaning the C back end gives to statements: `code` is what is left to do, a jump
drops tasks up to its loop or invocation, every invocation has a frame of its
own, a block's locals start at zero, operands are evaluated in any order.
`Interpreter` is `interpreter.c`: `agenda` is the C call stack of the tree walk,
`broken`, `continued`, `returned` and `return_value` are the flags that take the
place of jumps, `offset` is the field in the shared `ASTObj_T` through which
variables are found, `mem` and `size` the one stack of bytes. One action is one
`case` of `eval_stmt` or `interpreter_eval_expr`, or its continuation behind a
child. Arithmetic yields any value, so that every condition goes both ways.

*Run `interpreter`*: `ImplementsLanguage`, the refinement of `Language` by the
flag-driven interpreter, for the programs of `WellBehaved`; `FramesStack`, that
`call_fn` gives back exactly the stack and the recursion depth it took, for all
programs. The well-behaved programs are every construct around every other kind
of statement, followed by a loop, and loops of every kind left by every jump, in
`main` and in a called function; the others put jumps, recursion and missing
children everywhere. Two values, depth three and twelve slots are enough for a
condition to go both ways, for a function called from a called function, and for
offsets to be overwritten. `Trees` are the nodes of a program; `TreesAssumption` says
that they are closed under their children and name functions and variables of the
program, as parser and validator leave them. `MaxFrame` bounds the slots of a function and
`StackAssumption` asks `MaxStack` for room for `MaxDepth` frames of that size: the
code reallocates its stack instead.

`WellBehaved` keeps clear of what the interpreter does differently, all of which
the model shows as soon as such a program is added: a flag left by a loop skips
what follows the loop; `returned` is set before the value of a `ret` is computed,
so a function called there is skipped; recursion leaves the caller's variables in
the callee's dead frame (*run `interpreter_recursion`*); locals keep the bytes of
earlier calls until they are assigned; `returned` and `continued` are never
initialised (`StartFlags`: with `{TRUE, FALSE}` nothing but the type invariant
survives); a missing `else` or `for` condition or step is dereferenced
(`NullNode`); a match ignores the mode of its cases. Outside of the module, read in
the code: an assignment keeps an address into the stack while its right side may
reallocate it, and pipes share one `pipe_value`.

### Assembly back end: `Terms`, `AsmCodegen`, `AsmMachine`, `AsmMeaning`

`AsmCodegen` is the tree walk of `asm_codegen.c` over one function. `todo` is the
C call stack of `asm_gen_stmt`, `asm_gen_expr` and `asm_gen_addr`: the children
and the instructions still to come; one action is one `case`. `code` is the text
printed so far, `depth`, `max_count`, `cur_count`, `cur_brk_id` and `cur_cnt_id`
are the fields of `ASMCodegenData_T`, read and changed when the walk gets there
(`Call` decides on padding from the `depth` the children before it have left).
Arguments and results are scalars, floating point (`xmm` or x87), structs of one
and two registers of either kind, large structs in memory, and dynamic values;
`asm_push_args`, `asm_pop_args`, `asm_assign_lvar_offsets` with
`asm_gen_function`, and `asm_copy_ret_buffer` each decide for themselves where they
go, as in the code.

`AsmMachine` runs the printed text. Its processor is external to the repository
and computes with terms (`Terms`): addresses, contents of addresses, results of
calls, operators applied to them. A branch on such a term goes both ways. The
callee's side of a call is the code's. Terms do not follow memory: that two loads of
one address may differ is not expressed, so a missing or an exchanged store shows in
the sequence of events.

`AsmMeaning` evaluates the tree itself, with the meaning of the C back end and
the order of operands of this one (C leaves it open), to a sequence of events:
stores, calls, clearings, branches, the end.

*Run `asm`*: every kind of expression as either part of every other, every kind of
statement in every other, every loop with every jump out of decisions and inner
loops, deferred statements, lambdas, floating point nested with calls, every list
of up to five scalar, floating and large arguments, every list of up to four with
one small struct or dynamic value, results of every size. Four registers of each
kind (`GpMax`, `FpMax`) let lists of five overflow to the stack. `CompiledRight`:
text and tree have the same events on the same values, on every path.
`StackIsAligned`: `rsp` is a multiple of sixteen at every call, and `cg->depth` says
where paths meet whether it is, in functions whose code leaves the stack as it finds it
(`Level`). `JumpsHaveTargets`: no label is printed twice, and
every jump of a finished function has its label unless the program itself jumps out of
the function. `Exprs` and `Stmts` are the nodes the trees are made of, with those the
generators build (`x++`, the exit call of a `with`, an index that becomes one from the
back); `Escapes` tells of a statement which jumps leave it; `LevelExpr` and `LevelStmt`
which trees leave the stack as they find it: those without `else` and in which the
countings of every call's arguments agree (`Agrees`), behind an odd number of slots, as
a deferred statement is, also without `ret`. All functions of the run are level but
those with an `else`. Five branches on open values and
twelve events are followed (`MaxTests`, `MaxTrace`): enough for two rounds of a loop
in a loop; behind them a run is compared up to where it is cut.

Nothing in the parser or the validator rejects `break` and `continue` outside of a
loop: they jump to a label with the number 0, which nobody printed or somebody else
did. `JumpsHaveTargets` names that case, `Escapes(body) = {}`.

Functions outside of `WellBehaved` are compiled too, but not compared:
- `a else b` pushes twice and pops once: the slot is popped as another operand;
- a match without a default falls into its first case; `break` in a match leaves
  the match, which C and the interpreter take for the loop; cases with a mode
  other than `==` compare the other way round than in C;
- `continue` in a range jumps behind the pops of its counter and bound, `break`
  out of a range inside a range leaves them to the outer one;
- a hole behind a call or an inner pipe finds `r15` overwritten;
- deferred statements run in source order at the only epilogue, reached or not,
  and a `ret` among them goes to the label of no function;
- a `ret` out of a range in a lambda pops a counter as its frame pointer;
- `x++` evaluates the address of `x` twice; `!=` with a NaN gives 0; floating
  arithmetic of 80 bits nested eight deep overflows the x87 stack;
- a large result with a full set of register arguments exceeds the registers, and
  is read through the callee's dead frame; a large array as a result is popped from
  a buffer that was not pushed.

*The calling convention* is counted in three places. `asm_push_args` takes every
small struct for two registers of each kind it uses, `asm_pop_args` pops as many as
it needs, and the callee looks at the first half again when it counts the second
(`asm_codegen.c:442-446`), so that a pair counts once. A dynamic value is one
register to the first and two to the second, and one slot of the stack although two
were pushed. While registers are left for two more of each kind the three agree,
which is what the run shows. With four registers each, two structs, or one behind
two floating arguments, are enough to go wrong; `{i64, f64}` is always wrong (its
second half is saved from `xmm` and popped from a general register), and of a result
`{f64, f64}` the second half is lost (`rax` instead of `xmm1`).

*Run `asm_index`*: `f(x[^y], g())` calls `f` with its arguments exchanged, because
`from_back` of an index and `pass_by_stack` of an argument are one bit.

### Debugger: `Debugger`, `DebuggerProofs`

The commands of `debug_repl` against the processes they control. `loaded` and
`brks` are the debugger's state; a process has a status, its bytes, an
instruction pointer and the reason of its last stop. `Peek`, `Poke`, `SetRip`
and `Resume` are the ptrace requests, which fail unless the process is stopped;
the code looks at none of their results. A process runs by itself between the
fork and the stop at its exec, and whenever it was resumed; `cont` blocks in
`waitpid` twice, in `step_over_breakpoint` and in `handle_continue`. A second
process can be loaded after the first was unloaded, killed by `comp`, or given
up after a signal. `next` and `left` are history: where the program would be
without a debugger, and whether it left that path.

*Run `debugger`*: a user who may be quicker than the exec and may write registers
and memory. `TrapsAreBreakpoints`: a trap that was really written stays until it is
disabled, over every step over it, and the loaded program has no trap but those of
enabled breakpoints. `ContinuesInPlace`: `cont` goes on with the instruction the
program would execute next anyway. `BreakpointsStop`: `cont` returns if there is a
trap in the program. Two instructions are enough for a breakpoint to be hit, stepped
over and hit again with another one next to it; two processes are enough for one to
be stale.

Disagreements: a breakpoint added after a reload goes to the pid of the old process
and is listed as enabled; removing the breakpoint the program stands at leaves `rip`
behind the restored byte, so that `cont` skips the instruction under it
(`ContinuesInPlace` names that case); `comp` asks its own binary for a flag that
`main` does not know.

## Proofs

TLAPS checks the following for every value of the constants.

`HashMapProofs`, for every finite set of keys, every hash function and every initial
size above two: type correctness, `TableIsSound`, `RoomToInsert`, and
`Spec => IsDictionary`. That every pair is reachable is not inductive by itself:
storing a pair keeps the others reachable only because the slot was empty and every
probe before it is in use, and that there is such a slot needs that `size` counts the
pairs, that no key has two (so that pairs are fewer than keys) and `HasRoom` (the
table taking a pair has more slots than pairs). Their conjunction `IInv` is
inductive. The assumptions are the ones `HashMap` names: the table never needs a
shift that overflows, and nobody asks for fewer than three slots
(`hashmap_init_sized(1)` is undefined and a table of two cannot grow).

`DriverProofs`, for every bound on the errors and whether or not tools may fail and
runs may be silent: type correctness, `CountedErrorsAreFatal`, `RunsItsOwnOutput` and
`NoOutputAfterErrors`. Neither invariant is inductive: both need where in the
pipeline the driver is. `PassOrder` says what `construct_passes` gives: the back end
is the last pass but one, everything before belongs to the front end. `IInv` adds to
the type invariant that nothing has happened before the options are read (`Fresh`),
that the pass after a counted error is never entered (`ErrorsStop`: an error that is
counted leaves the pass in which it was counted only to the panic handler), and
that a pipeline that is behind its back end without a failure has its output at the
output path (`OutputIsReady`).

`DebuggerProofs`, for every program length, every number of loads, and whatever the
user does and whenever: type correctness, `TrapsAreBreakpoints` and
`ContinuesInPlace`. None is inductive, because breakpoints outlive the process they
were made for and requests to a process that is not stopped fail unnoticed. `IInv`
says where a process can be and whose a trap is: pids are handed out in order, so
that no breakpoint is made for a process before there is one (`Counted`); nothing
runs at the prompt (`AtRest`); the breakpoint stepped over is taken out
(`StepsOver`); a process before its exec is as it was forked (`Untouched`); every
trap is that of an enabled breakpoint of this very process (`Traps`), every enabled
one is planted (`Planted`), and no saved byte is itself a trap (`Saved`), so that
taking a breakpoint out puts back the program; a process at the prompt has stopped
at its exec or right behind a trap (`Place`). Only the liveness property
`BreakpointsStop` stays with TLC.

`LexerProofs`, for files of any number of lines of any length: type correctness and
`TokensAreInTheFile`. Type correctness is not inductive, since `pos` runs behind a line
whenever a loop reads there: `IInv` says that the cursor is on a character of the file
or behind its last line, where only a number with a base goes on (`CursorOK`); that what the buffer
holds is behind the cursor on its line, so that a token that begins there begins in the
file (`LexemeOK`); and that the last token stands no later than what is being read
(`TokensOK`).

`PreprocessorProofs`, for any files that import one another in any way, any macros and
any `max_macro_call_depth`: type correctness, which says that stages 2 and 3
stay in their lists and expansions in their bodies and arguments, and that stage 1 leaves
its list only behind an `import` that ends a list which has grown; `ImportsAreFollowed`
and `ExpansionIsSound`. What stage 1 has
followed is told by its index: every import before it is followed and nothing else is
(`ImportsOK`). That no file comes in needlessly takes a second invariant, `SourceOK`: the
cells of the list are the texts one behind the other, so that the statement the index is
at stands in one of them (`FlatHas`), and what a text names is in every closed set that
has the files read so far (`NamedByTexts`). The same fact the other way round makes the
files read a closed set: what a text names is a statement of the list (`NamedIsFollowed`).
Neither needs a recursive closure, only the least set with the property. That a definition of stage 2 ends before its list does needs the EOF
that stage 1 leaves at the end of it, and that no definition is kept, what stage 2 has
passed on (`StageOK`); that the arguments of a call lie in the list it stands in
(`FramesOK`) needs what `CallEnd` and `Arguments` return, proved of the recursive
functions behind them. In stage 3 lists share cells that `@` writes in place:
`NoCallIsLeft` holds of the cells of `dest` whatever is written into one of them later.

`InterpreterProofs`, for every program, every set of values, every content of the
uninitialised flags and every limit of the recursion: type correctness and
`FramesStack`. `IInv` has the kinds of tasks on the agenda, the last of which is main's
activation (`AgendaOK`), the types (`StateOK`), and that
the activations among the tasks lie one behind the other on the stack of bytes, each
with room for the variables of its function (`StackOK`). `FramesStack` alone is not
inductive: a return gives back what its own task remembers, and only the whole row of
activations says that this is where the caller's frame ends. Of the thirty actions only
a call and a return change the row; `AgendaStep` and `InnerStep` treat all others.

`AsmProofs`, for any functions, with trees of any size, and any number of argument
registers: `JumpsHaveTargets` and `StackIsAligned`. Labels are numbered when the walk gets to a node, by
counters the node saves around its children, so that what a task will print depends on
the counters at its turn. `IInv` gives every place of `todo` the counters it will see
(the ones before it, or the saved ones behind the end of a node) and says of the labels
that are printed or still to be printed, each in its context, that each is there once
and has a number already handed out, or is the one of the epilogue (`PrintedOnce`,
`WrittenOnce`); and of the jumps, if the program does not leave the function, that each
has its label printed or to be printed (`Held`). The label alone would not do: between a
jump and its label lies an unbounded part of the walk. `MadeWay` and `Dropped` treat the
two things a step can do to `todo`, replace its first task by a stretch of others and
take it off; the forty generators then only say which labels their stretch writes and
which it needs. `IInv` without heights was checked by TLC on the functions of run `asm`
first.

`StackIsAligned` is about paths of the processor, and the generator follows the text.
What connects them is a height for every place of the text, `hs`, and one for every
label, `H` (`Stand`): an instruction leads from the height of its place to that of the
next, a label has its own, and a jump brings as much as its label has or an even number
of slots more (a `return` out of a range, a `break` out of a match in one). `cg->depth`
differs from the height by an even number wherever a label or a call is printed. `Sit`
says the same of the tasks still to do, with `cg->depth` along them: each is given a
level, the height and the depth, a tree of the program ends at the level it began at,
and a statement knows whether its height is odd (`LevelStmts`). `Calm`, `Leads` and
`Seated` carry that through the forty generators; for a call it takes what the recursive
`PushArgs` pushes (`PushArgsAre`). `RunInv` then is that the stack of a running function
is as high as its place says, or by an even number higher, and `EndsWell`, that the text
ends with `ret`, keeps the processor in the text. `LevelAssumption` is the definition of
a level tree, one node at a time, and no more: that the numbers pushed and popped for a
call agree (`Agrees`) is a condition on its types, which the README's list of types that
go wrong shows to be needed.

*Induction.* The library's theorems take the statement as an operator, which no back end
here instantiates. `SequenceFacts` has it for sets instead: `NatIsInductive` (a set with 0
and every successor has all numbers) follows from the pigeonhole principle for finite
sets, `FS_Injection`. From it follow that a function defined by recursion over `0 .. n`
exists and is unique (`IterationExists`, `IterationsAgree`), which is how the modules'
recursive functions are proved about (`LeavesFrom`, `InOrder`, `PushArgs`), and what
`FlattenSeq` returns (`Flat`, `FlatGrows`, `FlatHas`).

*The assumptions* are named where their constants are declared. `FilesAssumption`,
`ProgramsAssumption`, both `TreesAssumption` and `LevelAssumption` describe what the earlier part of the
program hands over, `StackAssumption`, `HasRoom`, `MaxOverrun` and `MaxNesting` bound the model; TLC
evaluates each on the instances of the runs.

Only model-checked: every liveness property (fairness and `ENABLED` are out of the
prover's reach); all that compares with a recursive meaning (`LexesTheText`,
`TokensAreMeant`, `TreeIsTheText`, `CompiledRight` and the properties of the validator and
of types): `Parser`, `Layout`, `Types`, `Validator` and every `...Meaning` module declare
`RECURSIVE` operators over trees, of which no theorem can be stated here, and so their
type invariants stay with TLC too (that of `AsmMeaning` is not true of all functions:
without `Agrees` the depth becomes negative, and a jump out of the function goes nowhere);
the refinement of `Language`; the disagreements.

## Plan

Done, in this order: hash map and its proofs; driver, debugger, interpreter,
assembly back end; lexer, preprocessor, parser; names, order, dead code; layout and
types; the calling convention; the proofs of the driver, of the debugger, of the
interpreter's frames, of the lexer's cursor, of the preprocessor's stages and of the
labels and the stack of the assembly back end.

What a next extension would take, by what it adds: several constant expressions
evaluated one after another in the interpreter's one context, with pipes and globals;
the order of declarations of the C back end, on the queue's order; the linter's live
session with its signal handler, composed with the driver's panic handling; threads
and exit handlers of the standard library. To be proved next: the type invariants of `Parser` and of
`Validator`, once their tables are recursive functions.

## Not modelled

- Wording of messages, cache paths, command lines of the tools, source positions in
  trees, JSON layout, timers, the pkg-config cache, the Windows platform: text and
  I/O without control of their own.
- Lists and allocators: sequences and sets in the modules that use them; allocation
  is taken to succeed, except where a freed token is read (`Preprocessor`).
- Directives: flags of objects, none of which a property here is about. Read in the
  code: `flag` shifts 1 by a number it checks afterwards.
- Constant folding (`optimizer/constexpr.c`): the interpreter below it is modelled,
  the conversion between trees and bytes is not. Read in the code: `a / b` is
  computed as `a - b` (lines 57 and 149).
- Struct embeds, `typeof`, enums and escapes in literals (types); long double
  arithmetic, variadic areas, casts, variable length arrays and inline assembly
  (assembly back end); the file around the functions and its relocations.
- The C header parser is unfinished in the repository.
- The linter's live mode, the C API and the standard library (written in CSpydr over
  the C library); bindings (`std/gl`, `std/gtk`, ...), vendored code (`std/stb`,
  `std/toml`), editors and examples.

Hazards that no property covers (`PROJECT.json` has the hazards that one does; the
runs leave out the programs named here where they would disturb a property):

- `hashmap.c:43`: the size is rounded with `__builtin_clzl(size - 1)`, undefined for 1.
- `debugger.c:226`: `comp` never recompiles, it loads the old executable again.
- `asm_codegen.c:2161`, `:2745`, `:2625`: `a else b`, a match without a default, and
  jumps out of ranges (see the assembly back end).
- `interpreter.c:198`: `returned`, `continued` and `return_value` are not initialised;
  the run takes them as zero.
- `interpreter.c:619`, `:532`: an assignment's address is computed before its right
  side may move the stack; one `pipe_value` serves nested pipes.
- `optimizer/constexpr.c:9`: one interpreter context serves all constant expressions,
  flags and depth left by one meet the next.
- `parser.c:456`: tuple types are compared without names, `{A}` and `{B}` become one.
- `linter/live.c:53`: Ctrl-C during a pass frees a tree that is being built.
- `std/thread.csp:38`: `running` is set after `pthread_create`.

`PROJECT.json` lists every component with its status and reason.
