# python-rs, in TLA+

python-rs is a small Python 3 interpreter in Rust: a lexer, a recursive-descent
parser, a compiler to bytecode and a stack-based virtual machine.  It is one
sequential program, without threads and without anything on disk but the sources
it imports.  What makes it hard is nesting and bookkeeping.  One opcode may run a
whole new dispatch loop; generators leave the frame stack and come back; one handler
stack serves all frames; the compiler has to keep that handler stack in step with
control flow it lays out by hand, and reads the scopes of a program out of a second
list; an import may enter a cache that another import is about to enter; and a
dictionary is a sequence with an index that every change must keep right.  These
modules model all of that, from the text of a program to what it prints.

All paths below are relative to the repository; `vm.rs` is `src/vm.rs` and so on.

## The system

| Component | State | Operations | Hazards |
|---|---|---|---|
| Lexer (`lexer.rs`) | position, stack of indentations, depth of brackets | `tokenize` | indentation levels that do not match an outer one; line ends inside brackets; loops that must move on |
| Parser (`parser.rs`) | position in the tokens | one function per rule of the grammar | precedence and associativity; what ends a block |
| Syntax tree (`ast.rs`) | none | constructors | none |
| Compiler (`compiler.rs`, `bytecode.rs`) | code objects, the stack of those under construction, loop contexts | `compile`, `compile_extending`, one function per statement and expression | jumps patched late and in the wrong order; try bodies left without `POP_EXCEPT` |
| Scope analysis (`compiler.rs`) | a table of scopes: declarations, cells, free variables | `analyze_all_scopes`, the `collect_` functions; a lookup per use of a name | two lists made in two passes and read with one index; names captured through functions between |
| Virtual machine (`vm.rs`) | frames, handler stack, last exception, heap, globals, import cache, output | one per opcode; `raise_exception`, `try_handle_error`, `resume_generator`, `execute_until_depth` | see below |
| Import system (`import.rs`, `vm.rs`, `cmodules/`) | `sys_modules`, `sys.path`, module namespaces, the native call stack | `resolve_import`, `IMPORT_NAME`, `IMPORT_FROM`, `IMPORT_STAR`, search, load | modules half loaded, failed, or loaded twice |
| Object model (`object.rs`) | the heap, NaN-boxed values, dictionaries and sets with an index | allocation, arithmetic, equality, hashing, subscripts | promotion of 48-bit integers, colliding hashes, positions under a live iterator |
| Class hierarchy (`vm.rs`, `builtins.rs`) | per class its attributes and the order its ancestors are searched in | `BUILD_CLASS`, `load_attr`, `super`, `isinstance`, `issubclass`, `hasattr` | order of bases; attributes assigned after others inherited |
| Builtins (`builtins.rs`) | none | functions of values; `print` appends to the output | `print` and `str` call back into the VM; `pop` moves positions |
| Errors (`error.rs`) | none | constructors; the wording of a message chooses the exception type | an error that no handler sees |
| Driver (`main.rs`) | none | read, lex, parse, compile, run, print | none |
| Conformance tests (`tests/`, `vendor/`, `scripts/`) | none | third-party Python sources and the harness that runs them | not part of the program |

How they interact.  The driver lexes, parses and compiles the script and starts the
VM on its code object.  The VM calls the whole front end again, in the middle of an
instruction, for each file that is imported: the compiler takes the code table and
the heap out of the VM, appends to them and puts them back, and the VM then runs the
module's body in a *nested* call of its dispatch loop.  A builtin that formats an
instance starts another such loop for its `__str__`.  All these loops share one stack
of frames, one stack of handlers and one heap, and each decides by the depth of the
frame stack alone when it is done.

What is hard about it, and what the properties are for (each is a hazard, with
its line, in `PROJECT.json`):

* *Handlers and frames.*  A handler names a frame by its index.  Only the end of the
  try body pops it, so any other way out leaves it to catch a later exception, or to
  name a frame that is no longer there.
* *Nested loops.*  An exception in a nested loop may be caught in a frame below
  the loop's target depth.  The loop then returns Ok and its caller goes on as if
  the call had succeeded.
* *Generators.*  A resumption rebuilds a frame out of what the yield saved; a
  return from it moves the *caller* two instructions back; an exception through it
  marks nothing.
* *Imports.*  A module is in the cache before its body has run, which a circular
  import needs and a failed one must not get.  The cache is looked into before the
  parent package is loaded, whose body may enter the same name meanwhile.  A from-
  import may fall back to a submodule whose errors it swallows.
* *Compiled control flow.*  Breaks, continues, handlers and finally clauses are
  patched jumps; the code of a finally clause exists once.
* *Scopes.*  A function finds its cells at the index of its code object in a list
  that another pass has made, in another order.
* *Indentation.*  The parser knows the end of a block by a DEDENT only, so the lexer
  owes one for every INDENT, also at the end of a file and behind a dedent to the wrong
  width.
* *Dictionaries and sets.*  An index leads from a hash to one position.  Keys of equal
  hashes take it from each other, `pop` moves the positions behind, and a loop over the
  dictionary is a position too, while its body assigns and pops.
* *Integers.*  Small ones are 48 bits, computed with in 64, big ones have no
  limit: every operation crosses the edges, and equality and hash must not see them.
* *Bases.*  The order in which ancestors are searched is computed once, attributes
  are looked up later.

## Modules

| Module | What it is | Code |
|---|---|---|
| `Lexer` | the tokenizer, one round of its loops to a step | `lexer.rs` |
| `LexerProperties` | its type invariant, and that blocks balance | |
| `Syntax`, `Parser` | the trees, and one operator per rule of the grammar | `ast.rs`, `parser.rs` |
| `Grammar` | how the language writes a tree, in any layout: what the parser must invert | none: reference |
| `Scopes` | scope analysis, the order of code objects, the place of every name; and, as reference, which variable each use means | `compiler.rs` |
| `Frontend` | `LexerProperties`, `Parser` and `Scopes` composed, and what they must keep true | `main.rs` |
| `Ast`, `Compiler` | constructors of the executed fragment, and its statements to code objects | `ast.rs`, `compiler.rs`, `bytecode.rs` |
| `VM` | the virtual machine: 13 variables, one action per opcode and outcome | `vm.rs`, parts of `object.rs`, `builtins.rs` |
| `VMProperties` | type invariant, safety and liveness of `VM` | |
| `Interpreter` | `VM` started on what `Compiler` makes of a script | `main.rs` |
| `Python` | reference semantics of the fragment, over syntax, without code, frames or handlers | none: reference |
| `Imports` | names, packages, search, cache, and the opcodes of imports, over a native call stack | `import.rs`, import glue of `vm.rs`, `cmodules/sys.rs` |
| `ImportsProperties` | what the import system must keep true | |
| `ModuleCache` | abstract: a cache whose loads nest | none: what `Imports` implements |
| `HashIndex` | an index from hashes to positions, and the two ways to look something up | `object.rs`, `vm.rs` |
| `Dicts`, `Sets` | dictionaries with a live iterator, and sets | `vm.rs`, `builtins.rs` |
| `OrderedMap` | abstract: entries in the order their keys came | none: what `Dicts` implements |
| `Numbers` | integers of both forms | `object.rs`, `vm.rs` |
| `Classes` | the class statement and every lookup through it | `vm.rs`, `builtins.rs` |
| `Linearization` | the order the language prescribes for bases | none: reference |
| `VMTypeProofs`, `VMNestingProofs`, `VMHandlerProofs`, `VMStackProofs` | proofs about the VM: `TypeOK`; `CallersWait`, `ActivationsNested`, `InitializedAfterImport` and `LoadedOnce`; `HandlerDiscipline`; `GeneratorFrames`, `RunningHasFrame`, `CompletedForGood`, `ResumeContract`, `StackUsedUp` and `NoPanic` | |
| `ImportsProofs` | what is compiled of every file; proofs of `TypeOK`, `NoInternalError`, `ReadyMeansRun`, `CacheImplemented`, `NameLoadedOnce`, `SubmodulesBound`, `OneModulePerFile`, and where `NotOvertaken` | |
| `IndexProofs` | lemmas about the index; proofs about dictionaries and sets | |
| `LexerProofs` | proofs about the tokens of blocks | |
| `ClassesProofs` | proofs about the order of ancestors and what is found along it | |
| `MCScripts`, `MCNested`, `MCAnyScript`, `MCFindings` | scripts for TLC | |
| `MCImports`, `MCFrontend`, `MCValues` | file systems, texts, and programs over one kind of value | |

There are four models, each the composition of its parts.  `Interpreter` composes
`VMProperties` (hence `VM`) with `Compiler` (hence `Ast`); `Frontend` composes
`LexerProperties` (hence `Lexer`), `Parser` and `Scopes`; `Imports` stands beside `VM`,
with the native call stack in full where `VM` has the dispatch loop in full; `MCValues`
runs one program over a dictionary, a set, a number or a hierarchy of classes, with keys
whose hashes `Numbers` computes.  The proofs extend modules without RECURSIVE operators
only, so not `Compiler`, `Python`, `Interpreter`, `Parser`, `Scopes` or `Numbers`.

### State

| TLA+ | Code |
|---|---|
| **`VM`** | |
| `code_objects` | `VM.code_objects`; a constant of each behaviour.  What `compile_extending` would append at an import is there from the start |
| `frames` | `VM.frames`; a frame's operand stack is its `MAX_STACK` slots and the number `sp` in use, as in the boxed array |
| `frame.gen`, `frame.init`, `frame.module` | `Frame.generator_id`, `Frame.init_instance`, `Frame.globals_module` |
| `exception_stack` | `VM.exception_stack`, with `frame_index` counted from 1 |
| `current_exception` | `VM.current_exception` |
| `activations` | the Rust call stack, as far as it matters: the running calls of `execute_until_depth`, the depth each returns at and what its caller does then |
| `generators`, `iters`, `modules` | the heap objects of these kinds; functions, classes, instances and exceptions never change in the fragment and are values |
| `sys_modules` | `VM.sys_modules`, keyed by the code of the module's body instead of its name |
| `globals`, `output`, `status` | `VM.globals`, `VM.output`, and how the run ended: well, with an `Err`, or with a panic |
| **`Imports`** | |
| `files` | the file system below the directories of `sys.path`: a path and what becomes of its text |
| `globals`, `modules`, `sys_modules` | as above, with the modules' names, files and namespaces, in which a module finds its `__name__`, `__file__`, `__doc__` and `__package__`; `sys` is the first |
| `heap_lost` | `VM.heap` after `compile_extending` returned an error: taken, and not put back |
| `calls`, `reply` | the Rust call stack (a running body, or a `resolve_import` that waits for its parent package) and the `Result` handed down it |
| **`Lexer`**, **`Frontend`** | |
| `text`, `pos`, `tokens`, `indent_stack`, `paren_depth`, `at_line_start` | the locals of `tokenize`; `lexing` is which of its loops runs |
| `parsed`, `compiled` | the result of the parser, or its rejection; the code objects with the places of their names |
| **values** | |
| `keys`, `values`, `index_map` | the three of a dictionary (`items`, `item_index` of a set); `asked` and `answer` are the last operation with its operands and what it returned, `member` what the last one of a set pushed |
| `iterator` | the position of a `DictKeyIter` |
| `number`, `error` | the value on the stack, in its form, and the `ArithError` |
| `classes`, `building` | the class objects, and the locals of the `BUILD_CLASS` that runs |
| `asked`, `seen`, `popped`, `exact`, `written` | history, for the properties: the last question, what a loop was given and whether something was popped meanwhile, what arithmetic says, and the bases as the statement lists them |

In `VM` an instruction is a pair of opcode and operand, and a value is a tag with what
it refers to; strings are one value, as no modelled operation tells them apart.
Integers are mathematical there: that promotion to big integers is not seen is what
`Numbers` is about.

### Actions

In `VM` a step executes one whole instruction: what `StackFits` and `Fetch` require is
what the instruction finds, and everything it calls is in the action.  An
instruction with different outcomes is several actions (`CallFunction`,
`CallGeneratorFunction`, `CallClass`, `CallException`, `CallRange`, `CallFormat`,
`CallDunder` and `CallError` are `CALL_FUNCTION`).  `import_returns` and
`dunder_returns` are the code after the nested call of the loop in
`compile_and_execute_module` and in `call_and_get_result`; between `IMPORT_load` and
`import_returns` lies the whole nested run.  `StackPanic` is an index out of the
boxed array, and the branches to "panic" are the other Rust panics.

In `Imports` a step is an instruction or what `resolve_import` does between two calls
of its own: `ResolveCached`, `ResolveParent`, `ResolveTopLevel` and
`ResolveSubmodule` are its four parts, the actions that end in `_returns` the rest of
an opcode after the nested call.  In `Lexer` a step is one round of one of the loops
of `tokenize`.  `Parse` and `Compile` are one step each, as nothing can come
between.  An operation on a dictionary, a set or a number is one action;
`BUILD_CLASS` is one action per round of its inner loop, for the sake of its
invariant, and nothing else happens meanwhile.

## Runs

| Run | Instances | What it shows |
|---|---|---|
| `scripts` | scripts of a grammar of try statements (body, handler, else, finally, nested, across a call), loops and conditions | handlers follow the try bodies (`HandlerDiscipline`), the compiler keeps its side, in the balance of try bodies and in the operands each address finds (`CompilesBalanced`), statements leave the operand stack alone (`StackUsedUp`), nothing panics, all end, and output and outcome are those of the reference semantics (`AgreesWithPython`) |
| `nested` | loops over generators, mutual imports, `__init__` and `__str__`, each inside the others | one object per file (`LoadedOnce`), the flag of a module is right (`InitializedAfterImport`), the life of a generator (`GeneratorFrames`, `RunningHasFrame`, `ResumeContract`, `CompletedForGood`), nothing panics, all end; and the hypotheses of the theorems about generators and operand stacks hold: the code of functions, generators, classes and modules is balanced and sized (`CompilesBalanced`), and no exception crosses a call of the loop or a generator, nor is a Running generator resumed (`Contained`) |
| `any_script` | jumps out of try bodies, exceptions across nested loops, failures no handler sees, small stacks | what holds of *every* code table still does: `TypeOK`, `CallersWait`, `ActivationsNested` |
| `imports` | file systems with cycles, packages that import their submodules, relative names up to above the top-level package, shadowed names, programs that bind `__package__`, files that fail in every way | the import system is a cache whose loads nest (`CacheImplemented`), no name enters it behind a request that waits (`NotOvertaken`), one module is made of a file however it is reached (`OneModulePerFile`), submodules become attributes (`SubmodulesBound`), the flag of a module says that its body ran to its end (`ReadyMeansRun`), the errors called internal do not happen but the one about a `__package__` that the program has bound (`NoInternalError`), all end |
| `frontend` | texts of trees in layouts, texts with a mistake, functions in functions | the lexer ends (`LexerEnds`), its INDENT and DEDENT balance (`BlocksBalanced`), the parser inverts the grammar and rejects what is malformed (`RoundTrip`), and two uses of a name go to one place exactly when they mean one variable (`ResolvesNames`) |
| `values` | programs over a dictionary, a set, a number or classes | the index of a dictionary stays right (`IndexSound`), so does a loop over it (`IterationSound`), the dictionary is an ordered map (`MapImplemented`), sets keep one of equal items (`SetDistinct`), no width of an integer is seen (`NumbersExact`), subclasses and attributes are found as a search of the bases finds them (`SubclassIsReachable`, `LookupIsDepthFirst`), in the order of the language where no ancestor is inherited twice (`AgreesWithC3`) |
| `leaked_handler` | one script | counterexample: a leaked handler names a frame that is gone, and the process panics |
| `cached_failure` | one script | counterexample: a module whose body raised stays in the import cache |
| `lost_generator` | one script | counterexample: a generator left by an exception is resumed as Running, without the value of its yield |
| `skipped_finally` | one script | counterexample: a finally clause is skipped when no handler matches |
| `loaded_twice` | one package | counterexample: a submodule asked for before its package is executed twice |
| `misaligned_scopes` | three texts | counterexample: a function finds the scope of another |

*Bounds of the scripts.*  A script is deterministic, so a run's behaviours are its
scripts, and the state space is their number times their length: some 26000 states in
`scripts`, 8800 in `nested` and 2600 in `any_script`, and together 1040 scripts that
fire every action of `VM`.  Names are the few a script needs.  `MAX_STACK` is 4 (256
in the code): no expression of the grammars needs more but those in `any_script` that
are there to overflow it.  Loops go round two or three times, which is a first, a
later and a last round.  A try statement nests in every clause of another one, a call
or a loop in a try body and the other way round, and there are up to three files:
enough for a handler below another in one frame, a handler below another in different
frames, an exception across zero, one and two frames and across each kind of nested
loop, and for cycles of imports.  Nothing in the model is counted beyond that, so no
counter is cut off.

*Bounds of `imports`.*  36816 states, 1283 file systems with a script: every pair of
bodies of two flat files under every script, every pair of submodules of a package beside
a file of the same name as one of them, packages that import their submodules, directories
of `sys.path` with an `__init__.py` of their own, which relative imports above the
top-level package find under the empty name, and programs that bind `__package__` to a
string, another value or None, take the dunder names of a module for their own, or have a
submodule of that name.  Up to five files are a package, two submodules that may import
each other or their package, and others that a wrong name may reach.  `MaxDepth` is 12
native calls, and never reached: `Termination` does not count "overflow" as an end.
`sys.path` has one directory; `FirstFile` over more is a choice of the first.

*Bounds of `frontend`.*  162136 states, 5036 texts: every operator inside every other (so
that each pair of levels of precedence meets, on either side), every statement, every
compound statement inside every block of every other, two compound statements deep; widths
of indentation of 1 and 2, blank lines, comments, spaces, line breaks inside brackets,
files with and without a last line end; a nested program cut off at several lines, and
with each of its lines malformed in nine ways; and three functions inside one another with
each combination of ten ways to use a name, the innermost also in each block of each
statement.

*Bounds of `values`.*  76399 states, over 1.2 million steps.  The last question (`asked`,
`answer`) is left out of what tells states apart (`VIEW Unasked`): no step depends on it,
and TLC checks `MapImplemented` of every step, also of one to a state it has seen.  A
dictionary has at most 3 entries and a set 4 items, over five keys: two equal ones of one
hash (1, True), one equal to them of another hash (1.0), a different one of the same hash,
and one like no other.  Three entries are one before, one behind and the one that an
operation is about; a fourth key always takes an index entry from another.  Stored values
are two and symmetric, as they are only compared.  The widths 48, 64 and 61 of small
integers, machine words and hashes are 4, 6 and 3, which keeps what the code uses of them
(`NumberAssumption`: a word holds more than a small integer and not every product of two);
operands lie on both sides of each edge, up to a shift by more than the word can say,
results up to 4200 are big integers of several words, powers have bases up to 16 and
exponents up to 3.  Classes are four with two bases and one attribute, and `Exception` as
a base from outside: four is a diamond.

*Fairness.*  Weak fairness of `Step` in `VM`, of `Next` in `Imports` and of `Tokenize` in
the front end: each is one loop that goes on whenever it has not returned, so it can
only stop by ending.  `Termination` of the VM is checked for scripts that the language
says end.  `Terminated` and `Ended` stutter for ever, so deadlock is checked in the
runs of `VM` and `Imports`; the front end stops when it is done, and so do the programs
over values whose bounds are reached.

*`AgreesWithPython`* excludes the scripts on which the compiler is known to differ
(`beyond` in `Python`): those that leave a try body by a jump, reach a finally clause
other than by the normal end, or re-raise an exception that is not the one raised last.
Three of the findings are instances of these.  *`ResolvesNames`* excludes an inner
`nonlocal` through a function that has no use for the name, a use of a name that the
function between declares global, and captured names bound by a nested `def`, a class or
an import; each is a hazard of its own in `PROJECT.json`.
*`MapImplemented`* asks of every step of a dictionary what the ordered map does with the
same operation on the same key, but for the steps that `Strays` names, where the code is
known to take one key for another: a display that repeats a key keeps both (`vm.rs:1449`,
against "a one-key dict" of `docs/superpowers/specs/2026-05-19-m2-bigint-design.md:246`);
an assignment does not find a key whose position another of its hash has taken
(`vm.rs:2414`); and `get` and `pop` of a key whose hash has the position of another answer
for that one (`builtins.rs:1157`, against the "full equality check" of line 1154).  `[]`
and `in` are not excused, and the steps after an excused one are checked like all others.
Which keys are one is given by equality; a float is one with an equal int only where their
hashes agree, as nothing in the repository says that 1.0 and 1 are one key.  `IndexSound`
and `IterationSound` are stated for all dictionaries: a loop over one that holds a key
twice is given it twice, once for each entry, and never an entry again that is still
there.
*`OneModulePerFile`* excepts names that the design of imports
(`docs/superpowers/specs/2026-05-20-m3-import-architecture-design.md`) means to be none,
and the code lets through.  A relative import that leaves its top-level package by one
level is an `ImportError` there (:455, :465, :492); the code goes on with what is left of
the name, and where that is empty, as in `from .. import x`, finds the `__init__.py` of
the directory itself and makes a second module `.x` of `x.py`.  And a submodule is to be
found in its package's directory only (:489); the code searches the directory of any
module's file.
*`NoInternalError`* allows the Err "internal: __package__ is not a string" where the
program has bound `__package__` itself; the other errors called internal never happen.
*`AgreesWithC3`* is stated for hierarchies without a diamond: the code calls its order
simplified.

## Refinements

* `Imports` implements `ModuleCache`: a name is begun only when it is not in the cache,
  is in it from then on, and the load that ends is the one begun last.  The
  mapping reads the state of a load off the flag of its module and the bodies
  that run.  Model-checked and proved; it rests on `NotOvertaken`, and run `loaded_twice`
  is the package that breaks it.
* `Dicts` implements `OrderedMap`: the sequence of pairs alone, without index and
  hashes.  The last operation with its operands and its result are part of the mapping, so
  that an answer for another key, or a `pop` that takes another entry, is no step of
  the map.  Model-checked and proved, but for the steps `Strays` excuses.
* `Parser` against `Grammar`, `Scopes` against its own reference resolution,
  `Compiler` and `VM` against `Python`, and `Classes` against `Linearization` compare
  a result with a reference definition instead.

## Findings

Each is a violation run of a few lines; `PROJECT.json` quotes the sentence of the
repository it disagrees with.

1. `return` in a try body leaves its handler; a later uncaught exception indexes
   `frames` out of bounds (`vm.rs:229`).
2. A module whose body raised stays in `sys_modules`, marked initialized
   (`vm.rs:3153`).
3. A generator that an exception unwound stays Running; the next loop over it
   resumes it behind its yield with an empty stack (`vm.rs:2801`).
4. The finally clause stands behind the re-raise of an unmatched exception and does
   not run (`compiler.rs:1226`).
5. `resolve_import` does not look into the cache again after it has loaded the parent
   package, whose `__init__.py` may have loaded the submodule: it is executed a
   second time, and a second module takes its place (`vm.rs:2934`).
6. The scope of a function is looked up at the index of its code object, in a list that
   is made in another order: behind a lambda, in the else of a try statement, and
   in every imported file, a function gets the cells of another, or none
   (`compiler.rs:1015`).

## Proofs

*The VM.*  For every code table that is `IsProgram` (operands of the kind their opcode
takes, which is what the compiler emits), every set `Names`, and every `MAX_STACK` in
`Nat` (`StackAssumption`, the only assumption on constants).  `IsProgram` is a conjunct of
`TypeOK` and of what `CompilesBalanced` says, so all three runs of `Interpreter` check
that what `Compiler` emits meets the hypothesis.

* `TypeCorrect` (`VMTypeProofs`): `Spec => []TypeOK`.  No value in a frame, a namespace, a
  suspended generator or the output refers to an object that does not exist.  `TypeOK` is
  inductive.  Three of its parts are there for that: a suspended generator has room for
  the value of its yield, because the yield took one off; the first activation, and only
  that, is the run itself; and a nested one has a positive target.  The argument: a step
  either leaves the heap alone (`ControlStep`), or lets it grow, and then every reference
  keeps its meaning (`HeapStep`, `StaysTyped`).  One lemma per group of actions shows that
  the frame it makes is a frame; that rests on `FetchFacts`, which says what the guard of
  an instruction guarantees of its operands.
* `CallersAlwaysWait` (`VMNestingProofs`): `Spec => []CallersWait`.  Every frame but the
  last waits right behind the instruction that pushed the one above it, a generator's
  behind a `FOR_ITER`; without this the two instructions that `RETURN_VALUE` sends a
  generator's caller back would not be the load and the `FOR_ITER`.  It holds also with
  leaked handlers and exceptions through nested loops.  The argument: a step `Trims` the
  stack of frames (drops some off its end and moves the last) or `Pushes` one
  (`StepTrimsOrPushes`), and both keep the invariant, given `TypeOK`.  `CallersWait /\
  TypeOK` is inductive.
* `ActivationsAlwaysNested` (`VMNestingProofs`): `Spec => []ActivationsNested`.  Every
  step leaves the calls of the loop alone (`Quiet`), begins one for the frame it pushes
  (`Begins`) or ends the innermost (`Ends`): `StepNests`.  The property speaks of
  neighbouring calls; the invariant (`Ordered`) of any two, so that no induction over the
  calls is needed, and of where the caller of each still waits (`Waiting`).
* `FlagAlwaysRight` (`VMNestingProofs`): `Spec => []InitializedAfterImport`.  From the
  same three kinds of steps; the invariant adds that no two calls run the body of one
  module (`ImportsApart`), or the first to end would set the flag too early.
* `AlwaysLoadedOnce` (`VMNestingProofs`): `Spec /\ BodiesApart => []LoadedOnce`.  There is
  one module of each file and at most one frame that executes its body, with the module's
  namespace.  `BodiesApart` says that no code object is both the body of a module and the
  script or the body of a function.  `compile_extending` gives each file code objects of
  its own behind all that are there, so every code table the program can have is of this
  kind; one that is not would run a module's body by a call of a function.
* `HandlersAlwaysRight` (`VMHandlerProofs`): `Spec /\ Balanced => []HandlerDiscipline`,
  and with it `AlwaysInBounds`: no instruction pointer leaves its code.  `Balanced` is
  what the compiler makes of scripts that never jump out of a try body (`CompilesBalanced`
  checks that): jumps lead to the try depth they come from, and nothing returns, yields or
  halts inside a try body.  The handlers are then exactly the try bodies around the
  running frames, the outermost first.  A step is of one of four kinds: `SETUP_EXCEPT` and
  `POP_EXCEPT` change one handler and the depth of one frame, an exception `Unwinds` to
  the innermost, and all others are `Calm`: they leave the handlers, move a frame at its
  depth, and let frames come and go at depth 0 only.  That they do takes the rest of
  `HandlerInv`: a suspended generator is at depth 0 (`GeneratorsAtRest`), a frame whose
  code ends in `HALT` is the first of its call of the loop (`HaltsFirst`), and
  `CallersWait` for the caller that `RETURN_VALUE` moves.
* `GeneratorFramesRight` and `CompletedStays` (`VMStackProofs`): for every code table,
  `Spec /\ [][NoneReentered]_vars => []GeneratorFrames`, and `=> CompletedForGood`.  The
  condition is needed: the code resumes a Running generator like any other, and then has
  two frames of it.  `GeneratorFrames /\ TypeOK` is inductive.  A step creates a
  generator, completes, suspends or resumes one, or leaves all as they are
  (`GeneratorSteps`); to the frames it does one of a few things (`StepKinds`: the last one
  moves inside its code, a new one is entered, one is left, or a call of the loop ends).
* `RunningAlwaysHasFrame` (`VMStackProofs`): `Spec /\ Balanced /\ [][NoneAbandoned]_vars
  => []RunningHasFrame`.  A generator loses its frame by a return, a yield or an exception
  that goes past it.  The first two mark it, the third does not, and `NoneAbandoned` is
  that there is none; `lost_generator` is a script with one.  `Balanced` makes the handler
  an exception goes to that of a frame still there.
* `NeverPanics`, `StackAlwaysUsedUp` and `ResumedWithValue` (`VMStackProofs`): `Spec /\
  Balanced /\ Sized(height) /\ [][NoneCrossed /\ NoneReentered]_vars` implies `[]NoPanic`,
  `[]StackUsedUp` and `[]ResumeContract`, for any `height`.  `Sized(height)` says of the
  code alone, address by address, that an instruction pops what is there and leaves what
  the next address, or the one it jumps to, finds.  It is what a verifier of bytecode
  would check; the VM has none and trusts its compiler.  The theorems say that this trust
  is enough, although operand stacks wait below others, are saved in generators and put
  back, and are cut off by handlers.  The invariant (`LevelInv`) says where each stands: a
  frame has the height of its address, less one if it waits, since the value of the frame
  above it is still to come (`FramesLeveled`); a suspended generator lacks the value of
  its yield (`GeneratorsLeveled`); a handler's `stack_depth` is the height of its address
  (`HandlersLeveled`); and a call of the loop finds what it ends with, an import the frame
  of its module and a `__str__` its caller (`CallsHold`).

  Where the hypotheses come from: `CompilesBalanced` checks `Balanced` and `Sized`, with the
  heights `Heights` reads off the code, of what `Compiler` emits in `scripts` and `nested`;
  `Contained` checks the conditions on steps in `nested`, and in `scripts` there is no generator
  and no nested call of the loop.  None can be left out: `leaked_handler` panics in code that is
  not balanced, `lost_generator` resumes a Running generator without its value, and a
  `__str__` that raises under a `try` makes `print` pop the stack that the exception has
  just cut off, which is a panic (the hazard at `vm.rs:2691`).

*Imports* (`ImportsProofs`).  For all files with any bodies, every script, every
`sys_path` that is a sequence of paths (`PathAssumption`), every set of private names that
has the dunder names of modules (`PrivateAssumption`) and any depth of the native stack.

* `CompiledCode`: the code of a body, whatever its statements, leaves on the stack what
  the next instruction takes, and binds by its end what the statements bind.  This is
  induction over the statements and over the pieces that `FlattenSeq` joins; it is done
  with sets of numbers (`Counting`: a set with 0 and every successor has all of `Nat`,
  from the well-foundedness of `<`), as theorems with an operator for a parameter cannot
  be used.
* `ImportsTypeCorrect`, `NeverInternal` and `ReadyAlwaysRun`: `ImportSpec => []TypeOK`,
  `[]NoInternalError`, `[]ReadyMeansRun`.  All three rest on one inductive invariant,
  `ImportInv`: values and namespaces are those of the heap (`HeapTyped`); each call is of
  a body whose stack has what its next instruction takes, and has asked for what the call
  above it resolves (`CallsFit`); the reply is one the call on top can take (`ReplyFits`);
  bodies that run are of ever later modules, none of them initialized (`BodiesNest`); the
  cache has the name of every module, and the first segment of each dotted name, which is
  why `IMPORT_NAME` never fails to find it (`CacheClosed`); and what is initialized has
  bound its names (`RunsBound`).  `NeverInternal` needs a second one (`PackageInv`): what
  a namespace says of its package is what the module was given, the name of the package or
  None, unless the script, a body that was begun or a submodule named `__package__` has
  bound it; so where nobody has, a relative import finds a string or nothing.
* `CacheAlwaysImplemented` and `AlwaysOneModuleOfAName`: `ImportSpec /\ []NotOvertaken =>
  CacheImplemented`, and `[]NameLoadedOnce`.  Each step is one of the cache's or a stutter
  as long as no name enters the cache while a request for it waits for its parent.  The
  condition is needed: `loaded_twice` violates `NameLoadedOnce`, and without it the code
  makes no such promise.  Run `imports` checks that it holds of file systems with packages
  that import their submodules, when nobody asks for one of these first.
* `SubmodulesAlwaysBound`: `ImportSpec /\ []NotOvertaken => []SubmodulesBound`.  The
  invariant (`AttachInv`): as long as nothing has failed, every module runs or has run,
  its parent is there, and a submodule that has run is the attribute of its package.  The
  body of the package cannot lose it again but by binding the name itself, or by a star
  import.
* `AlwaysOneModulePerFile`: `ImportSpec /\ OrdinaryFiles /\ OrdinaryScript /\
  []NotOvertaken => []OneModulePerFile`, assumed that no directory of `sys.path` lies
  inside another (`PathsApart`).  `VM::new` puts only the current directory there
  (`import.rs:34`; `VM::set_sys_path`, which sets another, is compiled for tests only),
  and the `Ordinary` conditions say that no import names a segment `__init__` or
  `__package__` and no statement binds `__package__`. The invariant (`PlacedInv`): the
  file of a module spells its name behind a directory of `sys.path`, with `__init__` at
  the end if it is a package, unless the name goes through a module that is no package,
  whose directory is searched as if it were one, or has an empty segment, which spells
  nothing.  A path is spelled so in one way only.  `sys.path` in run `imports` satisfies
  the condition, and 1103 of its 1283 instances (a file system and a script) are ordinary;
  the others bind `__package__`.
* `NeverOvertaken`: `ImportSpec /\ StraightFiles /\ StraightScript /\ OrdinaryFiles /\
  OrdinaryScript => []NotOvertaken`, and so (`StraightImports`) everything above that
  rests on `NotOvertaken`.  The conditions speak of the files and the script alone: no
  package's `__init__` imports anything, no import goes through a file that does, no
  directory of `sys.path` is a package itself (`RootsPlain`), and `__package__` is left to
  the import system.  The invariant (`StraightInv`): the prefixes of a name that is asked
  for are in the cache, or end in the stem of a file that imports nothing; so what begins
  to run above a request that waits asks for nothing itself, and above a request there are
  only requests for shorter names (`Above`).  580 of the instances of run `imports` are of
  this kind; of the others, `NotOvertaken` is what the run shows.

*Dictionaries and sets* (`IndexProofs`).  For all keys, hashes and notions of
equality, with colliding hashes allowed, and for every bound on the entries.
`DictAssumption`: `KeyError` is no value that is stored, and the bound is a number;
`ItemsAssumption`: so is that on the items of a set;
`KeysAssumption`: every key has a hash and a class, and nothing else of them.

* `IndexAlwaysSound`: `DictSpec => []IndexSound`.  `index_map` is what entering
  the keys in order would leave.  That there is a newest position of each hash
  needs a least element of a finite set of positions, which is had from the
  library's theorem that strict subsets are well-founded; `Reindexed` of a longer
  sequence and of one with an entry fewer follow.
* `IterationAlwaysSound`: `DictSpec => []IterationSound`, without a condition on keys.  The
  invariant (`Loop`): what was given is among the keys behind the index, and is all of
  them as long as nothing is popped.  An assignment replaces a value in its place or appends
  behind the index, and a `pop`, which moves keys to the front only, takes the key it
  removes out of what counts as given.
* `MapAlwaysImplemented`: `HashesAgree` implies `DictSpec => MapImplemented`.  One lemma per
  operation: the entry that the index leads to, the one that a scan finds and those that
  the abstract map has for the key are the same, unless the step is one of `Strays`.
  `HashesAgree`, that equal keys of which none is a float, tuple or object have one hash, is
  needed, or an assignment would not find its key; the keys of run `values` satisfy it, and that
  the hash of an integer does not depend on its form is checked by `NumbersExact`.
* `ItemsAlwaysDistinct`: `SetSpec => []SetDistinct`.  A display looks for an equal item
  everywhere, a comprehension only if the hash is known; either way two items of one hash
  are different.  What a display makes of its values is a recursive function over them,
  and the theorem is by induction over their number (`Counting` of sets of numbers, as for
  the code of imports).

*The lexer* (`LexerProofs`).  For every text and every set of words, as long as no word is
taken for a token of blocks (`BlockTokensAssumption`: those are variants of their own in
`TokenKind`).

* `LexerTypeCorrect` and `BlocksAlwaysBalanced`: `LexerSpec => []TypeOK`,
  `[]BlocksBalanced`. One inductive invariant (`LexInv`).  The two searches in the text
  end (`Searches`: a set of places has a least one), so that the width of a line is a
  number and a line that is narrower than the innermost block is inside one that was
  opened (`Nested`).  A step moves in the text only (`Moves`), emits a token of no block
  (`Emits`), or pushes or pops the stack with the token that says so.  That nothing is
  open at the end needs the guard of the last loop.  `LexerSpec` is the tokenizer alone;
  in `Frontend` its variables are changed by `Tokenize` only, which is read off
  `Frontend`'s next-state relation and not proved, as that module reaches RECURSIVE
  operators.

*Classes* (`ClassesProofs`).  For any number of classes and bases
(`ClassAssumption`: what is no class of the program has no number of one).

* `SubclassAlwaysReachable`: `ClassSpec => []SubclassIsReachable`.  The invariant is about
  the rounds of the linearization: what has been gathered is the orders of the
  bases done with and the part done of the current one, with no repetition; each order
  made is the smallest set that has the class and is closed under bases
  (`OrderIsAncestors`).  An order made earlier stays right, since later classes are above
  none of the earlier ones.
* `LookupAlwaysDepthFirst`: `ClassSpec => []LookupIsDepthFirst`.  A search along the order finds
  what a depth-first search of the bases finds.  The order leaves repetitions out, so
  that the two do not visit the same sequence of classes; the invariant (`Leftmost`) is
  that the first class of the order that is in a set comes from the first base whose order
  meets the set.  It speaks of every set, since an attribute may be assigned after
  the order is made, and of orders half made.  By induction over the numbers of the
  classes (`Counting` again), the search by bases, a recursive function, agrees with it.

Only model-checked, for one of these reasons:

* Liveness under fairness: `Termination`, `LexerEnds`.
* What is compared is computed by RECURSIVE operators: the compiler, the parser, the scopes,
  the reference semantics and C3, hence `CompilesBalanced`, `AgreesWithPython`, `RoundTrip`,
  `ResolvesNames`, `AgreesWithC3`, and, with the limbs of a hash, `NumbersExact`.  The last
  also needs that 2^(n+1) is twice 2^n, and the provers know of a power only that it is
  an integer.
* It is not true of every instance, and the run shows it of those that matter:
  `Contained` (false of scripts whose exceptions leave a generator, as in `lost_generator`,
  or a `__str__`, as in `any_script`), and `NotOvertaken` of packages whose `__init__` imports
  (false of the package of `loaded_twice`).

## Abstractions

* Code is 1-based, and 0 stands for `None` where the code has an `Option` of an index.
* In the lexer a word (a name, a keyword, a number, a string with its quotes) is one
  symbol; escapes, prefixes and formats of numbers are left out, and so are the
  positions of tokens.
* The executed fragment has only names that are global, or local to the function that
  uses them; closures are resolved to places in `Scopes` and not executed.
* Calls in the executed fragment name a function, with positional arguments.
* A chained comparison, `elif`, `with`, `del`, decorators, comprehensions, `lambda`,
  containers and subscripts are parsed but not executed.  Nor are `GET_ITER` of a string,
  list or instance, and builtins with more or fewer arguments than one.
* In `VM` an import names the code of a file or, with 0, a file that is not there;
  names, search and errors of files are in `Imports`, which in turn executes only
  imports, assignments and a raise.
* An `Err` carries the exception type that `try_handle_error` would read off its
  message, instead of the message.
* `run_and_capture` prints the output only of a run that ended well; the model keeps
  the output either way.
* Whether two keys are equal is an equivalence (`Class`), and a key's hash is given.
  `Represented` are the keys that are hashed by what represents them: floats by their bits,
  tuples and objects by their place.
* A string is known in `Imports` by its segments between dots if it is the name of a module
  (`Str`), and is `Text` otherwise; two dots in a row do not occur.  The empty name and the
  empty first segment of `.x` are `Empty`.
* Where a name is used before it has a slot in the frame is part of `Scopes` ("miss"); that
  the same name may then be a global and a slot in one function occurs in no program of the
  runs.
* Big integers are integers; their limbs appear only where the code looks at them.
* An attribute is known by the class that has it, an instance by its class and its own
  attributes, and the body of a class by the names it leaves and those of them that
  are None.

## Not modelled, and why

Floats, powers that give floats, the bitwise and, or and xor, and the hash of
strings compute a value from values, with nothing for a state to get wrong.
Formatting of numbers and strings, escapes, and the wording of errors are data no
property is about.  Code for comprehensions, slices, decorators and tuples as
targets is placed (`Scopes`) but not emitted.  User-defined iterators, the dunder methods
other than `__init__` and `__str__`, and the remaining builtins are not
executed; `getattr`, `setattr` and `isinstance` of builtin types look at no class.
The cells of closures at run time are not objects.  Unbounded recursion of `__str__` (a
native stack overflow) is not in any bounded check.  Tests, vendored CPython sources
and the harness are not the program.

## Plan

Done, in the order of what matters most to the system: the VM with its compiler and
reference semantics; imports with their abstract cache; the front end with scopes;
dictionaries, sets and integers with their abstract map; classes.

Next:

1. `BlockStack`: an abstract machine with one block stack per frame, and `VM` on
   balanced code shown to implement its handling of exceptions.
2. User-defined iterators, closures with cells, chained comparisons and nested loops over
   the same target in the executed fragment, with the reference semantics extended
   by them.
3. Theorems: a condition weaker than `StraightFiles` for packages whose `__init__` imports
   submodules that nobody asks for first.
