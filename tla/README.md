# A specification of the Moray interpreter

Moray is a small dynamically typed language with a tree-walking interpreter in
C (`src/src/`). Its interpreter has its own garbage collector, closures, modules
and non-local control flow, and all of them meet in the C stack of
`eval_expr` and `exec_stmt`. This directory holds TLA+ modules of the collector,
the evaluator, the scopes, the containers and operators, the loader and the
parser, TLC configurations that check them on small instances, and proofs,
checked by TLAPS, that the collector, the scopes, the loader and its tables, the
containers and operators, the tokens and nodes of the parser, and the protect stack, the
signals and the memory of the evaluator are correct on instances of every size.

Paths below are those of the repository under `src/`.

## The system

| Component | Code | State | Operations |
|---|---|---|---|
| garbage collector | `value.c`, `value.h` | `g_objects`, `g_obj_count`, `g_threshold`, `g_protect` | allocation, `gc_protect`, `gc_pop`, `gc_collect`, `gc_maybe_collect` |
| scopes | `env.c`, `env.h` | `g_live_envs`, the variables and the parent of each `Env` | `env_new`, `env_free`, `env_define`, `env_get`, `env_set` |
| values and containers | `value.c`, `value.h` | lists, maps, struct instances, closures | `list_*`, `map_*`, `struct_*`, `val_*` |
| expression evaluator | `interpreter.c` | the C stack, `had_error` | `eval_expr`, `bind_args`, `call_function`, `construct_struct`, `call_builtin`, `eval_binary_op` |
| statement executor | `interpreter.c` | `g_returning`, `g_return_val`, `g_breaking`, `g_continuing`, `g_loop_depth` | `exec_stmt` |
| program and modules | `interpreter.c`, `main.c` | `globals`, `module_paths`, `module_envs`, sources and syntax trees | `interpreter_run`, `load_module`, `interpreter_free` |
| type registry | `interpreter.c` | `structs`, `interfaces` | `interpreter_prepare`, `type_add_method` |
| operators, printing | `interpreter.c`, `value.c` | none | `eval_binary_op`, `value_print` |
| parser, syntax tree | `parser.c`, `ast.c` | current, previous and pending token, `had_error` | `parse_*` |
| lexer | `lexer.c` | position in the source | `lexer_next` |
| vectors | `vec.h` | none of their own | growth macros |

How they interact. Everything runs in one thread. `main` parses the whole file,
then `interpreter_run` executes its statements in the globals. Every block, loop
and call makes a scope with `env_new`, which registers it as a root, and drops it
with `env_free`, which calls `gc_maybe_collect`. So a collection can happen at
the end of every block, and therefore in the middle of every expression that
contains a call. The roots are the live scopes and the protect stack; the C
locals of the evaluator are not roots. Whatever an activation of `eval_expr`
still needs has to be pinned with `gc_protect` across each evaluation that could
end a scope, and unpinned with `gc_pop` on every way out, in stack order.
`break`, `continue` and `return` are global flags that every statement looks at
on entry and that loops and calls consume.

What is hard. There are no threads; what is hard is the order of nested
activations: a collection in the middle of an expression, error exits between a
pin and its pop, a signal raised where nobody looks for it, a module that runs
inside a statement of another file. A test only sees such a mistake when a
collection happens at the wrong moment and the freed memory is then reused; the
code has a build, `-DGC_TORTURE`, that collects at every scope teardown for this
reason, and the evaluator is modelled in that build. What makes each part correct:

- collector: nothing reachable is freed; all garbage is, cycles included; a
  collection ends; mark bits and the object count are exact between collections;
- evaluator: what an activation is going to use is pinned or reachable; pins and
  pops balance on every path; the registry of live scopes agrees with the stack;
- signals: at most one is up, each has a receiver, nothing runs in between, and
  the loop depth is that of the current function;
- life cycle: modules stay alive once loaded; the final collection leaves nothing,
  no closure above all, because the syntax trees they point into go next;
- loading: a path is loaded once, inside the import that asked for it; a
  statement never sees a half-finished type; a load error says what is so;
- scopes: the arrays of variables behave as functions along lexical chains;
- containers: no access leaves its array, keys are unique by `==`, what is
  assigned is read back, although code runs between the parts of an assignment;
- operators: the rules of the language reference hold up to C's widths;
- parser: the tree has the tokens of the text in their places; a put-back
  token never displaces another; no node is made of parts that are another's;
  the parse ends.

`PROJECT.json` lists the places where each of these can go wrong ("hazards") and
the properties that would notice.

## The modules

| Module | Models |
|---|---|
| `ObjectGraph` | reachability: `Reach`, the least closed set, and `Trace`, its computation, with which the evaluator's collections are defined |
| `ReachableHeap` | abstract specification: what a collector promises to the interpreter |
| `Collector` | `value.c` and `env.c`: the collector in small steps under an arbitrary client |
| `CollectorProofs` | theorems about `Collector` |
| `Machine` | what the evaluator runs on: heap, scopes, C stack, signals |
| `Expressions` | `eval_expr` and what it calls (extends `Machine`) |
| `Statements` | `exec_stmt` (extends `Expressions`) |
| `Evaluator` | modules, start and end of a program, properties (extends `Statements`) |
| `EvaluatorProofs` | theorems about `Evaluator`: the stack, the pins, the loops and the signals |
| `MemoryProofs` | theorems about `Evaluator`: the scopes, and what collections free |
| `Scopes` | `env.c` and every statement, call and import that opens a scope or writes a variable |
| `ScopesProofs` | theorems about `Scopes` |
| `Bindings` | abstract specification of scopes: a chain of partial functions |
| `TypeRegistry` | `interpreter_prepare` and `type_add_method`: the tables of types |
| `Loader` | files, imports, the cache of modules (extends `TypeRegistry`) |
| `LoaderProofs` | theorems about `Loader`: the loading, and the tables of types |
| `NestedLoading` | abstract specification of importing |
| `Operators` | `eval_binary_op`, unary operators, truth, `int()`, `float()`, with C's integers and doubles |
| `Containers` | lists, maps, structs and what is done with them (extends `Operators`) |
| `ContainersProofs` | theorems about `Containers` |
| `Parser` | `parser.c` with the node constructors of `ast.c` |
| `ParserProofs` | theorems about `Parser` |
| `Syntax` | the text of a tree, and the properties that need it (extends `Parser`) |
| `CommonLemmas` | what the proofs share: the least-number principle, lemmas about sequences, and that `Trace` computes `Reach` |
| `MCCollector`, `MCEvaluator`, `MCScopes`, `MCLoader`, `MCContainers`, `MCParser` | model-checking instances |

How they compose. `Collector` implements `ReachableHeap` (refinement), and
`Evaluator` uses that abstraction for its heap: `env_free` with its collection is
one step that keeps exactly what is reachable. `Expressions` and `Statements` leave
out names, keys and numbers, which `Scopes`, `Containers` and `Operators` have;
these in turn leave out memory. `Evaluator` has imports with memory, `Loader` has
them with paths, types and errors.

### Collector

An object is an address with a kind, the set of handles it stores (`refs`) and
one more pointer (`link`: the private map of a struct, the captured scope of a
closure, the parent of a scope). The client is arbitrary: it may call any
function of the interface on any handle it can get at, in any order (`Client`),
which covers every evaluator. `temps` are the handles in its C locals; an
`EnvFree` forgets them, which is the contract of the protect stack.

`gc_collect` is not atomic in the model. `StartCollection` collects the roots
into `pending`, the arguments of marking calls that are still to be made. `Mark(o)`
is one call of `gc_mark_value` or `env_gc_mark`: `AlreadyMarked` is its early return,
`MarkedBy` the bits it sets itself (a struct also sets the bit of its map, which
is why the map is never entered) and `CallsFrom` the calls it makes. The order of
the calls is left open, which includes the depth-first order of the code. The
sweep visits the all-objects list one object at a time, in any order. `SweepDone`
sets the threshold. `FinalCollect` is the last call in `interpreter_free`; the client
may make it with pins and scopes that nobody has released, as the interpreter does
after a return at the top level of a file and after a module that failed half way.

`ReachableHeap` has two actions: the client changes the heap through what it can
reach, and the heap is reclaimed, at once and exactly. `ImplementsReachableHeap`
maps `Collector` to it: an object that the sweeper will free counts as gone from
the end of the marking, so a collection takes effect in `MarkDone` and every
other step of it is invisible.

### Evaluator

The program is not a constant. Where the evaluator reaches a syntax node, every
construct of the program's language (one of `Languages`) may be there, as long as fewer than `Fuel` nodes have
been used; so one run covers all programs of that size, run by run-time choice.
`stack` is the C stack: a frame is one activation of `eval_expr` or `exec_stmt`
(or of `bind_args`, a body, a module) with the point it is at, its scope and what
it has pinned. `ctl` says what the innermost activation is about: evaluate,
execute, hand a value back, resume. Each action is the code between two nested
calls, with all that it pushes, pops, defines, stores and frees.

What is abstracted. A value is the object it holds, or `Scalar`, or `Junk` (the
unwritten local that `EXPR_IDENT` returns when a variable is not defined). A
scope, list, map or struct is the set of the objects in it; a store may or may
not displace the last handle to the value it overwrites. A condition on a scalar
goes both ways; an object is always true. `Member` of a container may be any of
its members or nothing. `eval_binary_op` yields a scalar, a new string, or an
error. A struct instance is one object here (its private map is `Collector`'s
matter). The pairs of `items` are part of the list that holds them. `DropScopes`
is `env_free` and the collection in one step, which `Collector` justifies: a
collection has the effect of `Reclaim`. A failing operation may fail at any time
when `"error"` is allowed; an error that the model can see for itself (a call on
a non-function, an index into a string) is always taken.

Switches. Seven things are kept apart from the syntax because they lead to
known deviations (below) or multiply the states: `"error"`, `"rebind"`,
`"forin_return"`, `"program_return"`, `"module_signal"`, `"header_signal"` and the
construct `"undefined"`. A language without a switch says nothing of programs that
do that thing.

### Scopes

A scope is the array that `env.c` searches, with the chain of its parents; scopes
are only added here, because the collector keeps those that anything refers to.
An activation may do anything that a statement or an expression can do to
variables (`Declare`, `Assign`, `Update`, `DefineFunction`, blocks, both `for`s, calls,
methods, imports), with any value that is a datum or that a variable holds.
`Define` drops a variable when the scope is full, as `env_define` does without
telling its callers. `Bindings` says what this promises: a scope is a partial
function, a step changes the scope it runs in or the innermost binding of a name,
and no binding goes away. `ImplementsBindings` maps an array to the function that
its first-match search computes. After an error an assignment under way may still
store something, anything (`Stored`).

### Loader and TypeRegistry

A file is a sequence of declarations, imports and other statements; an import
stands for one at the top level or in anything called from there. What a path
holds is decided when it is read. A frame of `stack` is an activation of
`interpreter_run` or `load_module` with the loop it is in: `register` and `attach`
are the two passes of `interpreter_prepare`, `run` is the execution. After an error
the frames return one by one (`Unwind`). A statement may raise a signal (`skipping`);
until something receives it, statements do nothing (`Skip`), so a return at the top
level of a module makes it skip the rest of its statements, and it is published
all the same. A signal that a module leaves behind goes on in its importer, or is
received there by a loop or a call around the import. `NestedLoading` says what
importing promises.

### Containers and Operators

A list is the sequence of its values, a map or struct that of its pairs. The
parts of an assignment are separate steps (`BeginIndexAssign`, `FinishIndexAssign`):
the container and the key are evaluated, then any code runs, then the value is
stored; the same for a field and for the rounds of a for-in. Values carry their
type. A `Value` is a C union: `BooleansIn` and `DoublesIn` say what an operation gets
that reads another member than was written, which may be several outcomes (the
truth of a text is that of some bytes of its pointer). `Truthy` is `is_truthy`, for which
null is false; the logical operators do not use it. After an error the value of an
expression is any (`Returned`), and it is stored. Ints
go through double (`ToDouble` rounds to nearest, ties to even) and back (`ToLong`;
undefined where it does not fit, then either end). `ToInt` is the cut of an index
to a C int. The widths are constants; the instance has 3, 4 and 6 bits for an int, the
mantissa and a long, in the order of the real 32, 53 and 64.

### Parser and Syntax

The C stack of the parser is `todo`, a list of what remains to be parsed; each
function is an action that looks at the current token, consumes it or not, and
replaces itself by the calls it makes. `values` are the nodes built so far. The
lexer is a sequence of tokens whose end repeats. `Syntax` has the inverse, the text
of a tree with the fewest parentheses, against which parsing is checked. `Place` is
where in the text the parser is, the identifier that was put back counted as not read.
After an error the code goes on parsing with NULL nodes, and so does the
model; it forgets what was built, because nothing looks at it.

## The runs

Collector (`MCCollector`): one handle in a local or pinned, one stored per
object. Two objects are enough for a cycle, three for a garbage cycle beside a
live object, four for a struct with its map, its field name and a scope. A chain
root, scope, closure, scope makes marking go several levels down.

- `collector_release`: four interchangeable objects, release build, minimal
  threshold 2, so that collections happen both below and above it. Type
  correctness, `TriColour`, `NoStaleMarks`, `CountIsExact`,
  `NothingOutlivesTheInterpreter` (with pins and scopes left and without) and the
  refinement of `ReachableHeap`.
- `collector_torture`: three objects, torture build, closures, lists and maps, so
  cycles through a scope and its closures and through containers. (Scopes stored as
  values, as modules are, make the instance too large for a run; the proofs are for
  every `ClientKinds`.) `NoDangling`, `CollectionIsExact`, that each step brings a
  collection nearer to its end (`CollectionAdvances`), and `CollectionTerminates`
  under the fairness of `FairSpec`; no symmetry, which liveness would not allow.

Evaluator (`MCEvaluator`): 14 addresses (a run that needed more would stop with
an error of TLC, in `Fresh`), one argument or element per call or literal,
`Fuel` as given. With one argument a method call has a receiver and an argument,
so a pinned value is live across an evaluation in every construct.

- `evaluator_values` (`Fuel` 4): three languages, one of operators, literals,
  calls by name and by value, methods, constructors, built-ins, closures and errors,
  one of field assignments, one of index assignments. `NoUseAfterFree` and `PinsMatchActivations`.
- `evaluator_control` (`Fuel` 5): all loops, `if`, calls and signals, with returns out
  of for-in loops and of the program. The loop depth, the receivers of signals,
  that a break stays in the body it stands in, the height of the
  protect stack (`PinsAreBalanced`, which a return out of a for-in loop keeps
  although it pops the wrong entry), that nothing runs during a return, that each
  step of a return brings it nearer to its call (`ReturnAdvances`), and under `FairSpec`
  that it gets there (`ReturnIsReceived`).
- `evaluator_modules` (`Fuel` 5, no arguments): imports, nested and repeated, with
  errors, in two languages: one with assignments and undefined variables, one with
  break signals at the top level of modules and in the header of loops. The scope of a module is a root from its creation on,
  and nothing survives `interpreter_free` unless an error stopped the program.

Scopes (`scopes`): two names, two data, two variables per scope, three scopes,
four steps. Two variables fill a scope with a name declared twice or with both;
three scopes are globals, a closure's scope and a call. Names are symmetric.

Loader (`loader`): three paths, all files of up to two statements of an alphabet of
ten, and nine longer ones that bring each table to its limit (one struct, two
interfaces, two methods, one interface per struct, two modules). Three paths make
a cycle of imports that does not pass through the program, and a module imported
from two places; two statements are enough for one to raise a signal and the next,
or the rest of the importing file, to be skipped.

Containers (`containers`): three vocabularies of literals (two indices; an int and
a float that are equal; NaN with an index that the cut turns into 0), `=` and
`+=`, lists of up to two elements, one assignment or loop under way, three steps
besides its beginning. Three steps can shorten a list in the middle of an
assignment or a loop and then go on. With two containers no more are made. The view
`Future` leaves out the value of the last expression, on which no later step
depends. `OperatorsKeepTheirRules` is evaluated over all pairs of 64 ints, 34 floats and
the values of other types, once for each initial state; its part on logic has the
table of what is true for all of them, and that `&&`, `||` and `!` agree with it for the
values whose boolean member tells.

Parser (`parser`): the texts of some thousand syntax trees (all expressions of two
levels over eight operators, all statements over small bodies), and all texts
that begin as one of twelve openings does and go on with up to five tokens of a
vocabulary. Whole trees are read back (`TreesAreReadBack`), no token of a text that is
accepted is lost (`NothingIsDropped`), tokens are read one after the other and a token
is only put back where none was (`TokensAreInOrder`), a call that makes a node finds
its parts (`PartsAreThere`), and every parse ends or reports an error
(`ParsesOrReports`, under `FairSpec`).

Every property has a mutant in `PROJECT.json`: a plausible bug, defined beside
the definition it changes, that breaks it.

Deadlock is checked in all runs; the end of the program is a step of its own
(`Terminated`), so only a state that is stuck before it would be reported.

## Fairness

`FairSpec` of the collector is weak fairness of `Collect`: once `gc_collect` is
entered, its thread makes the next call or visits the next object; nothing else
can run. `FairSpec` of the evaluator is weak fairness of `Step`: the interpreter is one
thread that never waits. A program that calls itself forever is cut off
by `Fuel`, and so is a loop with a body; a loop whose condition stays true and
whose body is empty goes round in the model as it does in the code, and
`ReturnIsReceived` is true of it because no return is up while it does so.
`FairSpec` of the parser is weak fairness of its next step: it is a loop that
reads from memory.

## Known deviations

Where the code does something else than its documentation says. Three have a run
that TLC must find violated:

- `finding_forin_return`: a `return` out of a for-in loop. The loop's own
  `gc_pop(1)` (`src/interpreter.c:769`) takes off the return value instead of the
  list, and the scope teardowns that follow can free it before the caller has it.
- `finding_method_scope`: a method runs in the globals (`src/interpreter.c:638`),
  whatever file it is from, not in the scope where it was defined.
- `finding_parser_hangs`: an error inside a struct, block or implement that
  consumes no token is repeated forever (`src/parser.c:496`).

The next ones can be seen with a changed configuration of the evaluator, adding
what is named to `Languages` and to the properties:

- `"rebind"` (to `evaluator_values.cfg`), `NoUseAfterFree`: in `f(g())`, if `g` assigns
  to `f`, the function that is being called may be freed before its body starts
  (`src/interpreter.c:511`).
- `"undefined"` (to `evaluator_values.cfg`), `CollectionsReadOnlyValues`: an undefined
  variable yields an uninitialised `Value`, which can be stored, pinned and then
  marked before the error stops the program (`src/interpreter.c:458-465`).
- `"module_signal"` (in `evaluator_modules.cfg`), `BreakStaysInItsBody`: a `break` at the
  top level of a module is accepted when the import is inside a loop, and ends
  that loop (`src/interpreter.c:1029`).
- `"header_signal"` (to `evaluator_control.cfg`), `SignalsHaveAReceiver`: a `break` in
  the update of a `for` outlives the loop; the rest of the program is skipped
  without a message (`src/interpreter.c:744`).

`FinalSweepReclaimsAll` and `LiveScopesMatchActivations` have exceptions for two
more: the value of a top-level `return` stays pinned, and the scope of a module
that failed half way stays registered with no owner; in both cases the final
sweep leaves objects behind (`src/interpreter.c:788`, 1030). Closures may be among
them, whose syntax trees `interpreter_free` then frees, although its comment says that
"every closure is gone" by then (`src/interpreter.c:1053`); nothing uses them any more.

The others were met while reading, and are part of the models:

- Scopes. A second declaration of a name in one scope has no effect
  (`src/interpreter.c:664`). The 257th variable is dropped (`src/env.c:57`). An
  assignment at the top level of a module overwrites a global of the importer
  (`src/env.c:82`; `README.md:380` calls a module self-contained). `x += f()` reads `x`
  after `f` (`src/interpreter.c:673`; `README.md:147`).
- Loading. A program that imports its own path runs a second time, as a module. A
  module with a return at its top level skips its other statements and is published,
  and the return goes on in the importer (`src/interpreter.c:1032`).
- Containers. Reading a list out of range yields null (`src/value.c:232`); only an
  assignment is an error (`README.md:447`). An index is cut to 32 bits first
  (`src/interpreter.c:562`, 838). A NaN key is never found again.
- Operators. A float and an operand that is no number are computed with what lies
  in the union (`src/interpreter.c:354`; `README.md:165` says numbers only). `&&`, `||`
  and `!` read the boolean member of whatever they get, so `"" && true` may be either
while a condition takes every text for true, and `!` of 4294967296 is true. The literal `1.0` is an int
  (`src/interpreter.c:452`; `README.md:97`). Ints beyond 2^53 are rounded. The least int
  `% -1` traps.
- Parser. A bare `return` is only recognised before a brace and takes the next
  statement as its value elsewhere (`src/parser.c:628`).

## What is proved

The proofs are of every instance: any number of objects, scopes, files and
nested activations, programs of any length, and any limits. The invariants they
rest on were checked by TLC first, on the instances of the runs
(`LexicalInv` on the 124,885 states of `scopes`; `ParserInv` on the behaviours of
`parser` up to a depth of 42; those of the evaluator on
instances of its three runs, and `MemInv` also on random behaviours of programs
of up to 14 syntax nodes).

### The collector

`CollectorProofs` proves, for any finite set of
addresses, any threshold of at least 1, both builds, and any bounds on the client:

| Theorem | Property |
|---|---|
| `TypeCorrect` | `TypeOK` |
| `HeapIsWellFormed` | `TypeOK` and the inductive invariant `HeapInv` |
| `HandlesAreValid` | `NoDangling` |
| `MarkingIsTriColour` | `TriColour` |
| `MarksAreCleared` | `NoStaleMarks` |
| `CountingIsExact` | `CountIsExact` |
| `CollectionsAreExact` | `CollectionIsExact` |
| `NothingIsLeft` | `NothingOutlivesTheInterpreter` |
| `Refinement` | `ImplementsReachableHeap` |
| `CollectionsAdvance` | `CollectionAdvances` |

Assumptions: `Obj` is finite, `Nil` is not an object, the least threshold is a
positive number, and `ClientKinds` names kinds of the code.

The argument. `NoDangling` is not inductive: it speaks of what is reachable, and
says nothing of what the sweeper may free next, nor of the layout that lets the
marker skip the map of a struct. `HeapInv` replaces reachability by the set
`Survivors` (allocated and not about to be swept), which holds the roots and is
closed under pointers (`SurvivorsClosed`); `Reach` is the least such set, so
`NoDangling` follows (`ReachIsLeast`). While marking, `TriColour` says where the
pointers of marked objects lead, so that when `pending` is empty the marked set is
closed, and at `MarkDone` it becomes the new `Survivors`. That no call is missing
is `CallsCoverPointers`, which needs each survivor to be laid out as its kind says
(`WellFormed`): the map of a struct is reachable only through the struct. That
nothing but garbage is freed and all garbage is needs the converse as well, which
`ExactInv` adds: what is marked or pending is reachable. The refinement uses
both: a client step is `Mutate`, `MarkDone` is `Reclaim`, and freeing a doomed object
changes nothing that the abstract heap can see (`SweepStutters`).

The last collection is an exact one like the others, so what it leaves is what the
roots reach, whatever they are then (`NothingIsLeft`); when neither a pin nor a
scope is left, that is nothing.

The collections of `Evaluator` are defined by `Trace`, which follows pointers in
rounds. That it finds what is reachable (`TraceFindsWhatIsReached` of `CommonLemmas`) is
an induction over the rounds, done by a least counterexample: each round either
adds an object, of which there are finitely many, or the set is closed.

`CollectionAdvances` is what can be proved of the termination of a collection: every
step of it lowers a natural number (`Work`), which is 0 when `gc_collect` returns. A call
that enters an object may add a call for every other object to `pending`, so an
object that is not marked counts as many calls as there are objects, and one; a call
on a marked object just goes away. What is left to TLC in `CollectionTerminates` is that
there always is a next step.

### The scopes

`ScopesProofs` proves, for any names and data, any limit on the variables of a
scope and any program:

| Theorem | Property |
|---|---|
| `ScopesAreWellFormed` | the inductive invariant `ScopesInv` |
| `TypeCorrect` | `TypeOK` |
| `ChainsEnd` | `ChainsAreOlder` |
| `AssignmentsHold` | `AssignmentsAreReadBack` |
| `SearchesAreLexical` | the inductive invariant `LexicalInv` |
| `ScopingIsLexical` | `WritesAreLexical` |
| `Refinement` | `ImplementsBindings` |

Assumptions: the limits are naturals and `Null` is one of the data, which are
naturals.

The argument. `ChainsAreOlder` needs the types, that activations run in scopes
that exist and that a chain stays below its scope (`ChainsGoDown`), which gives
that an assignment hits a scope that exists; and that only the program is the
outermost activation (`FramesAreNamed`), so that a module always has an importer
to bind its alias in. That a search finds a first place is the least-number
principle (`LeastPlace` of `CommonLemmas`). Every statement either writes the variables of one scope
and leaves names of others and all chains alone (`WritesKeepShape`), or opens a scope
(`OpenKeepsShape`). `AssignmentsHold` rests on the invariant: `env_set` changes no
name, so the search that follows ends at the same variable (`SameSearch`); a name
that is defined because no scope has it is the only one of its name.

`WritesAreLexical` speaks of one step of the innermost activation; that it is so
again when the callee has returned needs the same of all that wait
(`NamesAreVisible`): the chain of the scope an activation runs in lies among the
scopes its text can name, which are those of the blocks around it in the same
body and those where the body was defined. A call is where this could fail,
because what runs next is not what the caller's text contains; there the new
activation has the scope of the closure as its home, and the chain of the new
scope is that home's with itself in front.

For the refinement, the mapping takes an array to the partial function its
first-match search computes. A definition of a new name in a scope with room is
`Bind`, of a known or one name too many a stutter, because the first match hides
what comes after it; an assignment hits the innermost scope that has the name.

### The loader and the type registry

`LoaderProofs` proves, for any paths, any contents of the files
and any limits of the tables:

| Theorem | Property |
|---|---|
| `LoadingIsSound` | the inductive invariant `LoaderInv` |
| `TypeCorrect` | `TypeOK` |
| `LoadingIsOnTheStack` | `LoadingIsTheStack` |
| `FilesRunOnce` | `NamespacesAreShared` |
| `Refinement` | `ImplementsNestedLoading` |
| `RegistryIsSound` | `LoaderInv` and the inductive invariant `RegistryInv` |
| `TablesAreWellFormed` | `RegistryIsWellFormed` |
| `TypesAreFinished` | `TypesAreComplete` |
| `MessagesAreTrue` | `RefusalsAreJustified` |

Assumptions: the program's path is one of the paths, files hold statements, the
limits are naturals.

The argument. A module is entered into the cache before it runs, with a NULL
scope that means "being loaded". `Nested` says that this is so exactly for
the modules on the stack, in the order in which they were entered, and that each
activation stands at the import that asked for the next; so a second import that
finds NULL is circular and one that finds a scope may share it. `ReadOnce` keeps paths
unique. `Lives` is the converse of a part of `Nested`: without an error no module is left
half way, so a NULL scope is always that of an activation. Signals play no role: a
statement that is skipped changes nothing but the place.

`TypesAreComplete` speaks of the moment when a statement runs. It is not inductive,
because in the middle of `interpreter_prepare` types are not complete, and an import
starts that again while statements of other files wait. `RegistryInv` therefore says
at every point what the tables hold by the position of the two passes: pass 1 has
registered exactly the declarations before it (`Registered`), pass 2 has
attached exactly the blocks before it, and of the block it is at the methods so
far. After an error nothing is claimed but that the tables are well formed.
`MessagesAreTrue` follows: what pass 2 does not find among the tables is not in the
text of any file, and what it finds too often is in two places of them.

### The evaluator

`EvaluatorProofs` proves, for programs of any length, any number of arguments
and any memory:

| Theorem | Property |
|---|---|
| `StackDiscipline` | the inductive invariant `Sound` |
| `ProtectIsBalanced` | `PinsAreBalanced` |
| `LoopsAreCounted` | `LoopDepthIsExact` |
| `ReturningRunsNothing` | `NothingRunsDuringReturn` |
| `StackPrecision` | the inductive invariant `Precise` |
| `ProtectIsExact` | `PinsMatchActivations`, of programs with `ReturnsStayPut` |
| `SignalsAreReceived` | `SignalsHaveAReceiver`, of programs with `SignalsStayPut` |
| `BreaksAreLocal` | `BreakStaysInItsBody`, of programs with `SignalsStayPut` |
| `ReturnsAdvance` | `ReturnAdvances` |

Assumptions: those of `Machine` on its constants.

The two conditions are about the program, not about what it does when it runs.
`ReturnsStayPut` is that there is no `return` inside a for-in loop or outside of all
functions; without it the property is false, and `finding_forin_return` shows what
follows. `SignalsStayPut` is that no `break` or `continue` stands in the header of a
`for` or at the top level of a module. `PinsAreBalanced`, `LoopDepthIsExact`,
`NothingRunsDuringReturn` and `ReturnAdvances` hold of every program.

The argument. Each of the properties says something of the stack as a whole, so
what an activation finds when its callee is gone has to be known of all that
wait. `Grounded` says, for each kind of frame, on which it can stand, how many values
it has pinned at that point, and whether an expression or a statement is under way
above it; that is the grammar of the nested activations. `Moves` sorts the some
seventy steps into a few shapes (a frame is pushed, replaced, popped, popped with a
signal, the stack is left alone, the program ends), and only `StepMoves` looks at the
code of a step; everything else is proved per shape. `LoopInv` adds that every
call has saved the depth of the loops below it (`Counted`), which is what makes the
counter exact again after a return out of several loops. `Balanced` counts the pins
of all frames and one more for a return value under way.

For the pins to be the right ones (`Exact`), the return value on its way out must be
on top when it is popped: a `return` statement has nothing pinned between it and
its function (`Sheltered`), which a for-in loop would break. `Contained` says that a
signal of a loop has that loop below it with nothing but blocks between; so it is
a loop of the same body.

`ReturnAdvances` is what can be proved of `ReturnIsReceived`: in a function, each step
of a return either hands it to the innermost call, or leaves that call where it is and
lowers a number (`Way`), two for each activation above the call: a `for` whose initializer
returned goes on to its test first. `StepUnwinds` shows that no other step is possible.
It does not hold at the top level of a module, where the statements that follow are
skipped one by one, and the model does not know how many there are.

### The memory of the evaluator

`MemoryProofs`, on `EvaluatorProofs`, proves, for programs of
any length and any memory in which an address is left (`MemoryIsLeft`):

| Theorem | Property |
|---|---|
| `MemoryDiscipline` | the inductive invariant `MemInv` |
| `ScopesAreRegistered` | `LiveScopesMatchActivations` |
| `SweepIsComplete` | `FinalSweepReclaimsAll` |
| `NothingIsUsedAfterFree` | `NoUseAfterFree`, of programs with `ReturnsStayPut` and `CalleesStayPut` |

They are of the form `Spec /\ []MemoryIsLeft => []P`: an allocation that fails is
not modelled, so nothing is claimed once it does. In the runs no allocation
fails. `CalleesStayPut` is that no name is rebound, in a scope that leads to it, while the
function it held is being called; without it or `ReturnsStayPut` the property is
false (see the known deviations). The other two hold of every program.

The argument. `Registered` says whose scope is whose: every activation that opens a
scope, and every import that is running, has one that is no other's and no
module's (`Placed`); all of them are live, and a live scope that is none of these, nor a
module, is that of a module that failed. A scope that an activation works in may
be one that an activation below it has opened, so a step that drops the scope of
the innermost one leaves the others theirs. With the balance of the pins, nothing
is a root when `interpreter_free` makes the last collection.

`NoUseAfterFree` is about the objects a C local still refers to. Most are easy: they
are pinned, and by `Exact` what is pinned is on the protect stack, where the
collection looks. `Safe` says what holds the rest. The scopes an activation works
in are live. A value that is handed back is used before anything is collected,
but for one that a `return` or a callee hands on across the teardown of a scope, which is
pinned. The function that a call is about to enter is not pinned at all while
its arguments are evaluated: it is held by the call it was the callee of, by a module,
or by a scope from which it was looked up (`Held`). That this scope survives every
collection until then is the reason for the remaining parts: chains of scopes do not
change (`FramesStaySafe`), a scope that an activation drops is on no chain of an
activation below it (`FrameSafe`), nothing refers to a scope but closures, inner scopes and,
for modules, values (`Proper`), so the variable of a for-in loop that is overwritten
is not where a callee is kept. `Carries` is what a step does to the heap and to what is
held, for stores and allocations; a collection keeps a set of objects that is
closed under pointers (`Collected`, from `TraceFindsWhatIsReached`), on which chains,
pins and callees are as before (`ShrunkFrames`).

### The containers and operators

`ContainersProofs` proves, for numbers of any width, any literals, any fields of a
struct, and any number and size of containers:

| Theorem | Property |
|---|---|
| `ContainersAreSound` | the inductive invariant `ContainersInv` |
| `ArraysAreSafe` | `ContainersAreWellFormed` |
| `AssignmentsAreReadBack` | `ElementsAreReadBack` |
| `OperatorsAreRight` | `OperatorsKeepTheirRules` |

Assumptions: literals, field names and the name that is no field are values, the
operators of assignments are arithmetic ones, the bounds are naturals; an int is no wider
than a long, and the mantissa is two bits narrower (`WidthAssumption`; 32, 53 and 64 in
the code).

The argument. `ContainersAreWellFormed` says what arrays hold and what expressions
yield; to keep that, the invariant has to say of every assignment and loop under
way that its container still is what it was (`FrameFits`). Any code may run in
between, but it never changes the kind of a container (`Grows`), nor the fields of a
struct, so the field that was found at the beginning of an assignment is there at
its end, where the code does not look again. For an index and a loop nothing of
the kind is needed, because they look at the length again. That keys stay unique
rests on `KeyEqual` being the equality of the language (`KeysAreEqual`), which is
identity but for NaN (`EqualIsSame`): a NaN is never found, so it is appended, and is not
equal to the one that is there. `OperatorsYieldValues` says that arithmetic yields a
number, a text or an error whatever it computes. `MapReadsBack` and `ListReadsBack` are the facts about `map_set` and
`list_set` behind `ElementsAreReadBack`.

`OperatorsAreRight` depends on no state; it is about arithmetic on numbers of any
width. Every int has a spacing, the least power of two that leaves no more of it than
the mantissa holds (`SpacingIsFound`, by the least-number principle over the powers,
which grow: `PowersGrow`). Rounding to a multiple of the spacing, ties to even, is
monotonic (`ToDoubleIsMonotonic`: a larger int either has the same spacing, or its
spacing is at least twice as large and it is rounded to no less than where that spacing
begins), and is exact up to two to the mantissa (`SmallIsExact`). So `<` between ints
never says more than the ints do, and sums, differences and products are exact while
they and the operands fit in the mantissa (`ResultsAreExact`). A remainder is exact
for all ints, as the code computes it on longs (`RemainderIsRight`). The rules of
equality, of the other types, and of the conversions follow from the definitions
case by case. What is true is a table over all values (`TruthTable`); the logical
operators follow it where the boolean member is zero exactly when the value is
(`BooleanTells`), which leaves out texts, containers, other floats and large ints.

### The parser

`ParserProofs` proves, for texts of any length and any tokens of the language, those
with errors included:

| Theorem | Property |
|---|---|
| `ReadInOrder` | `TokensAreInOrder` |
| `PartsOfNodes` | `PartsAreThere` |
| `AcceptedIsWhole` | `WholeTextIsRead` |
| `TypesOfParser` | `TypeOK` |

Assumptions: texts are sequences of tokens, the end of the text is not one of them
(`TextAssumption`), and the bound on their length is a natural.

The argument. All four follow from `ParserInv`, which has two halves. One is about
tokens: the current one is that of the text at its place, and the one that is put back
is the one after it (`Tokens`). A function that looks one token past an identifier, and
may put that back, does so at once when it is called, with nothing put back (`Turn`),
which is why there is never a second token to keep. The other half is about
nodes. Each function that waits in `todo` needs a number of nodes on the stack of
values and adds or takes a number (`Need`, `Yield`); the invariant is that
one can walk through all of `todo` that way, never with too few, and end with one node
(`Shape`, `Walk`). What a function replaces itself by must do the same as itself
(`Runs`), which has to be looked at for each function and each alternative in it, as
must every way on after an error, because the loops go on. That the counts are those
of nodes is only claimed as long as there is no error; then nothing is on the
stack. The walk ends in one node when nothing is left to do, which is
`AcceptedIsWhole`.

## What is only model-checked

`CollectionTerminates`, `ReturnIsReceived` and `ParsesOrReports`: liveness under
fairness is outside the prover's reach; for the first two, `CollectionsAdvance` and
`ReturnsAdvance` prove that no step can fail to bring the end nearer. `TreesAreReadBack` and `NothingIsDropped`, which are about the
text of a tree, a recursive definition over trees. That the definitions of `ReachableHeap`,
`Bindings` and `NestedLoading` are what a reader expects of them is left to reading.

`CollectionsReadOnlyValues` and the three properties of the findings are in no
passing run: the code violates them.

## What is not modelled

The lexer (character handling), the vector macros, `print`, the text of values and
messages, lengths of strings, running out of memory, and the depth of the C
stack. The check of a value against a declared type is an error that may happen
at any declaration; the value is stored all the same, as in the code. Line numbers
and newlines, escapes in strings and the freeing of syntax nodes are left out of
the parser. The end of `interpreter_free`, after the last collection, frees the syntax
trees and sources of the modules and is not modelled: after an error or a return at
the top level of a file the scopes and closures that are left refer to freed
trees, and nothing reads them. No `Evaluator` run has more than 256 variables in a scope (`Scopes` has
that limit), 64 arguments or `MAX_MODULES` (64) modules (`Loader` has that one); an
error they raise is one of the errors that `"error"` allows.

## Plan

What could follow: a type invariant of `Containers` that also bounds the numbers, from
the lemmas on rounding; a measure like those of the collector and of a return for the
parser without errors; and a refinement of the heap of `Evaluator` by `Collector` stated over both state spaces,
where the README now argues that a collection has the effect of `Reclaim`.
