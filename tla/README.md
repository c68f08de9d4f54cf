# A verification project for fink

fink is a functional language: a Rust compiler turns `.fnk` sources into WebAssembly, a
runtime written in WAT gives the compiled program its values and its calling convention,
and a small standard library written in fink itself builds effects, cooperative tasks and
channels on top.  This directory holds TLA+ models of the parts of that system whose
correctness depends on the order of events or on the history of a data structure, the TLC
configurations that check them on small instances, and TLAPS proofs of the results that
should hold for every instance.

All paths below are relative to the repository's root.

## 1. Inventory

### 1.1 The program at run time

| Component | State | Operations | Hard behaviours | What makes it correct |
|---|---|---|---|---|
| Task scheduler, `pkgs/std/tasks.fnk` | context slots `tasks` (run queue of thunks) and `future` (result or awaiters of each future) | `pause`, `spawn`, `await`, `future`, `settle_future`, `with_tasks`; `yield_to_next_resumable`, `yield_to_host` | every suspension is an interleaving point; await may race the settle; two kinds of call, those that suspend and those that return through whoever runs last; the host takes over when nothing is queued | no wakeup lost or delivered twice; a frame returned to at most once; an await gives the awaited result; the host gives back the context it was given |
| Channels, `pkgs/std/channels.fnk` | slot `channel`: messages of each channel | `channel`, `send`, `recv` (polling) | several senders and receivers interleave; a blocked receiver polls | first in, first out; a message waiting for a blocked receiver is received |
| Context effects, `pkgs/std/effects.fnk` | the context: slots by handler identity, `with` frames, the counter of `unique` | `init_ctx`, `upd_ctx_for`, `get_ctx_for`, `with`, `unique` | multi-shot resumptions each see a context of their own | slots do not interfere; frames are restored |
| Calls, `src/runtime/apply.wat` | none (closures, argument lists) | `apply`, `suspend`, `set_ctx`, `get_ctx`, guards, thunks | a continuation applied twice or never | the resumption of `suspend` continues the suspended thread and drops its caller |
| Host driver, `src/runner/wasmtime_runner.rs`; bridge, `interop/rust/interop.wat` | pending resumptions with their context, exit code | `run`, `host_yield`, `invoke_resume`, `host_invoke_cont` | control leaves and re-enters the instance | nothing pending is lost; the exit code is that of main |
| Dicts and records, `src/runtime/dict.wat` | persistent hash trie | set, get, delete, pop, merge, copy_by_keys, size, equality | sparse arrays under bitmaps, leaves pushed down, collisions at the last level; removals that do not undo what insertions built | a dict is a finite map, whatever its history |
| Sets, `src/runtime/set.wat` | the same trie without values | set algebra, relations, pop | as dicts, written a second time; pop takes the first element of a walk | a set is a finite set |
| Modules at run time, `src/runtime/modules.wat` | registry of modules and their exports | init, publish, import | modules that import each other while being initialised | each is initialised once; an import sees what was published |
| Lists, ranges, strings, numbers (`list.wat`, `range.wat`, `str.wat`, `int.wat`, `num.wat`, `float.wat`, `decimal.wat`, `math.wat`, `libm.wat`, `hashing.wat`) | immutable values | pure functions | boundaries of slices and ranges, wrap-around | agree with their mathematical definition |
| Protocols and types (`protocols.wat`, `types.wat`, `symbols.wat`, `opaque.wat`, `trace.wat`) | symbol tables, type values | dispatch by runtime type, deep equality, unions and products of types | comparison of values of different types | an equivalence relation; no trap |

### 1.2 The compiler

| Component | State | Operations | Hard behaviours | What makes it correct |
|---|---|---|---|---|
| Lexer, `ast/lexer.rs` | position; stacks of blocks, brackets and strings; buffered tokens | one arm of `next_token` each | three stacks pushed and popped in different arms; text measured twice | tokens tile the text and stand where they say; blocks balance |
| Parser, `ast/parser.rs` | position; arena; the names that open blocks, which an import may extend | `parse_*` | an operand taken back as the left side of operators, arguments, tags, pipes | each name and operator is in the tree once; operators group by power; spans nest |
| Desugaring, `ast_desugar/` | arena that only grows | holes, public names, calls of nothing | two ways of looking for holes | keeps the meaning; leaves no hole behind |
| Scopes, `scopes/` | one stack of names for all scopes | a walk over the tree | names used before they are bound, names bound again | each reference finds the binding the program means |
| CPS transform, `cps/transform.rs` | fresh ids; pending bindings | one arm for each form of expression and of pattern | the order of evaluation is the order in which pending bindings are wrapped; cursors of sequence patterns | keeps the meaning |
| Closure conversion, `closures/` | fresh ids | `cont_lift` (continuations), `convert` (captures), `hoist` | continuations become functions and are captured like values | every free name is captured; keeps the meaning |
| Wasm back end, `wasm/` | slots and locals of each function; queue of modules | `collect`, `lower`, `emit`, `link`; `compile_package` | a binding is a local, a capture, a cell in a global; modules import each other | each name has a place; keeps the meaning; each module is compiled once |
| WAT linker, `wat_linker/` | | merges the runtime's modules at build time | imports resolved by name | |

Each pass is a function of its input; what is hard is what they rely on of each other.

### 1.3 Tools

The debug adapter (`src/dap/`) runs the program in one thread, which stops inside a host
handler at each mark, and serves the editor in another; they share a filter (mode and
breakpoints), two channels of capacity one and the exit code.  Hard: the program starts
before the editor has spoken, each side blocks on the other, and a disconnect may come
at any time.  Right: the program stops exactly where it should, stands where the editor
was told, and no request is left unanswered.  The runner's `bless` rewrites
expectations in test files.  The command line, the diagnostics and the source maps are
text in, text out.

### 1.4 How the parts interact

The compiled program calls `apply.wat` for everything it applies.  `tasks.fnk` calls
`suspend` and keeps the resumptions in slots of the context that `effects.fnk` manages;
the context is an argument of every call, so a resumption runs under the context of
whoever resumes it.  When the run queue is empty `interop_yield` hands a resumption and the
context to the host, the whole call unwinds, and the driver loop of `run` calls
`invoke_resume` with both.  `channels.fnk` uses only `pause` and a slot of its own.  The
context itself is a record, so every slot update is a `hamt_set` of `dict.wat`.

## 2. Modules

| Module | Models | Role |
|---|---|---|
| `Executor` | | abstract executor: threads that are ready, waiting for a future, calling or running, one at a time |
| `Tasks` | `tasks.fnk`, `suspend` of `apply.wat`, driver loop of `wasmtime_runner.rs`, `interop_yield` | the scheduler in detail; refines `Executor` |
| `Channels` | `channels.fnk` | extends `Tasks` with channels; composes with every action of the scheduler |
| `DictSpec` | | abstract finite maps held in variables |
| `HashTrie` | what `dict.wat` and `set.wat` share | the nodes of hash tries, the path of a hash, the walk over the leaves |
| `Hamt` | `dict.wat`, the key comparison of `protocols.wat` | extends `HashTrie` with the operations of dicts; refines `DictSpec` |
| `SetSpec` | | abstract finite sets held in variables |
| `HamtSet` | `set.wat` | extends `HashTrie` with the operations of sets and their algebra; refines `SetSpec` |
| `DebugSession` | | what the debug adapter promises an editor |
| `Debugger` | `dap/mod.rs` | its two threads; refines `DebugSession` |
| `Lexer` | `ast/lexer.rs` | the lexer, an action for each arm |
| `Parser` | `ast/parser.rs` | recursive descent as operators from a parser state to the next |
| `FrontEnd` | `ast/mod.rs` | lexer, then parser; what a tree must be |
| `Desugar`, `Scopes` | `ast_desugar/`, `scopes/` | functions of the tree |
| `Ir` | `cps/ir.rs` | the expressions the middle passes share |
| `Cps`, `Lift` | `cps/transform.rs`; `cps/thread_ctx.rs`, `closures/` | functions from tree to CPS, from CPS to flat functions |
| `Values` | operators and destructuring of the runtime (`protocols.wat`, `list.wat`, ...) | pure operators |
| `Types` | `types.wat` | the table of types, membership, what operators see of instances |
| `Urls` | `wasm/compile_package.rs` | canonical urls |
| `Machine` | `wasm/lower.rs`, `apply.wat`, `modules.wat`, `opaque.wat` | runs flat functions, one step for each instruction |
| `Compiler` | `wasm/compile_package.rs`, `wasm/link.rs`, the pipeline | composes all passes and the machine |
| `Meaning` | | what a program means, of its trees alone; the reference |
| `Naming` | | which names and which modules a tree asks for, and what nothing binds; the reference of what is refused |
| `Loading` | | what becomes of the modules of a package; `Compiler` refines it |
| `TasksProofs`, `ChannelsProofs`, `HashTrieProofs`, `HamtProofs`, `HamtSetProofs`, `DebuggerProofs`, `LoadingProofs`, `LexerProofs` | | theorems and proofs |
| `MCTasks`, `MCChannels`, `MCHamt`, `MCHamtSet`, `MCDebugger`, `MCFront`, `MCCompiler` | | small instances for TLC |

### 2.1 Tasks

The code is in continuation-passing style.  The model keeps of a continuation who owns
it.  `queue` and `futures` are the two context slots; the thunks of the queue are `Start`
(the `wrapped` of `spawn`) and `Resume` (the closures that `pause` and `settle_future` enqueue).
`at` says where control is: in user code of thread `reg`, in `yield_to_next_resumable`
under continuation `reg`, in the driver loop, or nowhere (exited, trapped).  `kont[t]` is
the continuation task `t` was started under: the code applies the first thunk under the
continuation of the scheduler call, and a task keeps that continuation until it suspends.
A suspended thread's own continuation is inside its resumption, so `Pause` and
`AwaitOpen` enter the scheduler under the no-op continuation of `apply.wat`; `WithTasks`
and `SettleFuture` enter it under the caller.  A future that was matched out of the table
is `gone`, as is one whose awaiters were handed to the queue: the code deletes the entry.

One action is one operation up to the point where control changes hands: pattern match,
update of the slot, entry into the scheduler.  `RunNext` is `dequeue` and the application
of the thunk; `YieldToHost` is `yield_to_host` with the callback of the host;
`HostResume` is an iteration of the driver loop through `invoke_resume` and the second half of `yield_to_host`.

User programs are unconstrained: the running thread may call any operation in `Ops` on
any handle that exists.  A thread can name a future only after it was made (`unborn`
guards this); handles are values, so any thread may hold any of them.

### 2.2 Channels

A thread inside `recv` has `polling[t]` set to the channel; its next run is the next poll
and nothing else.  `sent` and `taken` are histories.  Each message is sent at most once,
which makes the histories finite and tells messages apart.

### 2.3 HashTrie, Hamt and HamtSet

`set.wat` writes the nodes of `dict.wat`, the path of a hash and the search of a collision a second time,
with leaves that have no value; `HashTrie` has them once, over any `Leafs`, and the lines its map names are
those of `dict.wat`.  A node is a set of occupied fragments and a sequence of children, the sequence indexed
by the number of smaller fragments, as in the code.  A level of the code takes five bits of the
hash, and there are seven; `Fanout` (32 there) and `Levels` are small in the
runs, so that paths that need 35 bits of equal hash there need two or three here.  The walks recurse from a level to the next, as
the code does.  They are recursive functions of the depth that give a function of the nodes that may stand there
(`Tries`): the step of a walk (`SetIn`, `PopIn`, `AddIn`, ...) is an operator whose argument `below` is the walk of the next level,
which keeps these modules free of `RECURSIVE` operators and within reach of the prover.
`Nans` are the keys that `deep_eq` finds different from themselves (`DeepEq`), which are the float NaNs.  The runs have none;
the proofs say which results need that.
The bodies of the copying loops (`array.set` one by one) are the sequence operators
`InsertAt`, `RemoveAt` and `ReplaceAt`.

`deep_eq` casts its second operand when the first is a string, and so traps on a key of another type (a decimal does on strings and
symbols).  `Clashes` says that a walk for a key makes such a comparison: it looks at the keys the walk meets (`Compares`),
in order, up to the one that is found.

In `HamtSet` a leaf is removed by identity and a member of a collision by equality (`set.wat` has both), and what lookups,
unions and `add` compare is `DeepEq`.  Every operation that compares keys may trap: the operators give `Trap`, which `Assign`
turns into the end of the program; the walks of the comparisons stop at the first key that decides them, so that
`WalkTraps` asks whether a clash comes before it; `AskTraps` is a membership test or a comparison that does not come back.

The values of a dict are compared with `=`.  The code compares them with `deep_eq` as well (`_rec_eq_leaf`, `dict.wat:1585`),
which may trap or recurse into a nested dict: that is not covered by the dictionary equality here.

`hamt_delete` and `rec`'s `delete` have no caller in the repository; they are compared with
`hamt_pop`, which is what patterns use.  A trap ends the program: `trapped` disables all
actions.

### 2.4 Debugger

The program is a graph of marks (`Flow`).  `wasm` says where its thread is: running,
about to send a stop the filter let through, parked for a resume command, past its last
call, or gone.  `loop` says where the loop of `run` is: polling for a request, sending a
resume command, waiting for the next stop, joining, ended; while it does not poll it takes
no request.  The code for waiting is written out four times (entry, run from start,
continue, step); the model has it once, with `why` for what differs: the run from start
skips a first stop without a breakpoint, and the entry goes back to polling if the channel is closed.
`Result` is a call of `host_invoke_cont` that records an exit code, which does not yet end
the program; `Return` is the end of the entry wrapper's call, also by a trap or a yield to the host.
`pos` is a history: the last mark the program passed without a stop or was reported at.
Requests that only read are left out.  The editor may send any request at any time,
configurationDone once.

In `DebugSession` the same session has no threads and no channels: marks are passed and
stopped at, one after the other.  `Phase` maps the state of the loop to its phases.

### 2.5 Lexer, Parser and FrontEnd

A text is a sequence of bytes.  `Lexer` has an action for each arm of `next_token`; `mode` is
the stack of what encloses the position, `pending` the tokens that are buffered.  Indexing
past the end of the text is `panicked`.  How far a run, a name, a number or a text goes is a closed expression
(the least index with a property), so that it can be proved about; the loops of the code
are not unrolled.  `ReadText`, `ReadComment` and `ReadBlock` are what the three scanners of text do once
the raw lines are known.  `Parser` has an operator for each `parse_*`
function, from a parser state to the one it leaves; `Then` is `?`.  A token is held by the
node that has it as its name, literal or operator (`own`), which is what `KeptOnce` counts.  The parser
pulls tokens from the lexer one at a time, but the lexer never sees the parser's
state, so `FrontEnd` runs the one after the other.  Unescaping of literals and the wording of errors are left out.

### 2.6 Desugar, Scopes, Cps, Lift

Functions of their input, as in the code.  An id of the code is a counter; here it is
the node something was made for, with its role, so that trees of expressions do not depend on
the order in which ids were drawn.  `Cps` lowers an expression to a value and the
list of pending bindings before it, and `Wrap` closes the list, as `transform.rs` does;
matchers are operators from success and failure continuations.
`Lift` threads contexts, lifts continuations, computes captures and hoists.

### 2.7 Machine and Compiler

`lower.rs` makes of each expression a fixed sequence of instructions, so `Machine` runs the
expressions: a slot is a cell held by a global or by the local a capture was put in;
every call is a tail call through `apply_3` (`call`), and what is left to do after it is a
closure too.  A call carries the context its caller had: `SetContext` hands on another one, `GetContext` what is in it,
and `Resume` goes on at the `suspend` under the context of whoever resumes.  `Return` is what is
left of a program that never resumes: it is idle, without a result.  Closures of the
runtime (`rt`) are imported like those of a module, but no module is loaded for them (`ImportNative`).  `types` is the table that `register_type` fills: a declaration runs as
the instructions `Cps` made of it, each of which changes the type it is given or registers another one on top
of it.  An instance is told from another by `place`, the allocation it is.  What `lower.rs` panics on is found when the image is inspected (`Broken`).
Marks, symbols and the ids of modules, which only tools see, are left out.  `Compiler` takes a
package through all of it: breadth first over imports, each module through every pass,
then `Link`, then `Execute`.

`Meaning` says what a program should give: an evaluator of trees with environments,
which knows nothing of continuations, captures or cells; a type there has the set of types it is, not a chain
of bases with back-links.  It answers from the documentation wherever that speaks.  Equality is of contents all the way
down (`Same`), `in` asks a list for its elements and a record for its keys (`IsIn`), an arm for another kind of value is passed
over, what is spread of an instance is what it holds, a body's names are there from their binding on, and all of a module's names can be imported.  Shared
with the machine are arithmetic, order, logic, the member access of records and lists, the text of templates, and what
a type lets through of an instance; of those the comparison is where, when and to what they are applied.

A context goes from each expression to the next; what a predicate of a match does to it is undone
when the match goes on, as `apply.wat:344` says.  A suspension has its own continuation only once: what resumes it a
second time, or after another has returned, is outside.  `Seen` compares results by what can be seen of them: names and members of types,
not their numbers.  Where the documentation says
less than the code does, its answer is "outside" and nothing is compared: in 30 of the 577 packages of `compile`.  They
are `==` between a number, a boolean, a string or a function and a value of another kind (the runtime traps;
`protocols.wat:511` promises false for the arms of lists and records, and `Meaning` holds those to it), `in` on a string or
an instance, positions that are spread into a record, a predicate with a pattern of several parts, a value in place of a predicate, a member of a union that
is no type, and an enum as a base.  Bodies that end in a pattern and resumptions that are called twice are outside as well.

What is refused has a reference of its own, `Naming`: the names a tree uses where nothing binds them (`Strays`) and the modules it
imports that are not there (`Unfound`), said of the tree as a whole and not of a stack of scopes or a list of statements.
`RefusedForCause` is an equivalence: what has a cause is refused, and nothing else.  One cause is not the program's but the code's,
and has a name of its own (`Overlooked`): a module that is there, but is only imported where `collect_module_imports` does not look,
is refused by `link`.

## 3. Runs

| Run | Instance | States | Shows |
|---|---|---|---|
| `tasks_full` | 2 tasks, 1 free future, all operations | 270,508 | `TypeOK`, `OneHome`, `ReturnedOnce`, `Handoff`, `ParkedIsLive`, `ExitsWhenIdle`, and refinement of `Executor` |
| `channels` | 2 tasks, 2 channels, 2 messages; spawn, pause, await | 63,928 | `Fifo`, `BlockedRecvNeverIdles`, `MessageReceived`; `QueuedRuns`, `ResultsMatch` and `StuckIsCircular` of the scheduler below |
| `with_tasks_join` | 2 tasks, spawn, pause, with_tasks | | violates `WithTasksReturns` |
| `hamt_two` | 2 dicts, 4 keys, one of them with 2 values, 3 levels | 8,110 | `WellFormed`, `LookupsAgree`, `DeleteIsPop`, `EqualityIgnoresShape`, refinement of `DictSpec` |
| `hamt_mixed` | a string and a symbol key | | violates `NeverTraps` |
| `set_two` | 2 sets, 5 keys, one a string and the others symbols, 2 levels | 17,680 | `WellFormed`, `RelationsAgree`, `TrapsAreMixed`, refinement of `SetSpec` up to a trap |
| `set_pop` | 1 set, 4 keys | | violates `PopNeverTraps` |
| `debugger` | 5 marks, 2 files, 3 lines, 2 exit codes | 43,776 | `StandsWhereReported`, `ResumeNeverStale`, `ExitedIsOver`, `RequestsAnswered`, refinement of `DebugSession` |
| `front` | every text of up to 4 units of two alphabets and 3 of a third, 8,729 operator expressions, 26 programs | 463,802 | tokens: `Tiled`, `PositionsAgree`, `BlocksBalance`, `TokensBounded`; trees: `ArenaIsTree`, `KeptOnce`, `GroupsByPower`, `SpansNest` |
| `front_tail` | the programs, texts of one unit | | violates `WholeProgram` |
| `compile` | 577 packages | 44,703 | `MeaningKept`, `RefusedForCause`, refinement of `Loading` |
| `compile_reentry` | 2 packages | | violates `MeaningKept` |

**Bounds.** The scheduler's state is bounded by the number of threads: each is started
once, and a thread has at most one resumption (which is `OneHome`), so no counter is
capped.  Two tasks and main are enough for every pair of threads to race on one future
while a third holds a continuation, and give cycles and chains of awaits of length three.  Two messages on two channels let a message overtake
another and a receiver switch channels (`ChannelsAreFifo` is proved for any number).  In the tries, three keys with one hash give collisions
of two and three leaves (the sizes the code distinguishes), and a key that shares their slot at the root only
forces leaves down a level; in the sets one more key shares none and makes the dense arrays longer than one.  The string among the symbols of `set_two`
is the key that shares a slot at the root: the sets hold it together with each of the others, and an operation that meets it alone there traps.
The alphabets of `front` have a unit for each mode of the lexer and each way of opening and closing
one; four units close what two open in the wrong order, three operators are one more than any
rule about precedence looks at.  `compile` has each form of pattern against each kind of value, in a match, in a
binding and in parameters; each operator on operands of each two kinds; each form of declaration, with
instances built, read, compared, matched and exported; the context read and changed across each kind of expression,
suspensions resumed at once, from further down, from inside another one and never; the library's slots of the context
(`effects.fnk` without its `with`) compiled with the programs that use them; for every pass the programs
whose names, captures, calls or imports it could lose; and 24 programs that use a name where nothing binds it, one for each form of
expression, pattern or declaration that names stand in.  The 38 packages of which the documentation says something else than the code
does are not in `compile`: they are `DifferPk`, which section 5 goes through.  A program has one execution, so the packages
are the bounds.
The debugged program branches, joins, ends early, has two marks on one line, a line with
marks in one file only, and a mark in a file the editor cannot name; a stop depends on nothing but
the mark, the filter and the channels, so longer programs add no new combination, and the
proofs of section 4 cover them, as they cover tries of any depth and fan-out.

**Fairness.** `FairSpec` and `FairChanSpec` have weak fairness of the whole next-state
relation and no more: a single-threaded instance keeps executing as long as it can.
Nothing is assumed about which operation a program calls.  `QueuedRuns` holds because a
running thread that never suspends cannot exist in the model without calling something:
user code between two calls of the API is assumed to end, and the number of calls that
do not suspend (spawn, await of a settled future, taking a message) is finite.

`MessageReceived` promises that a message with a blocked receiver is taken by *some* receiver.  It does not
exclude that one of several receivers polls for ever while the others take every message, which the code does not prevent.

In `Debugger` each of the two threads is fair by itself (they are threads of the operating
system), the editor is not, and a program does not record results forever without going on.

**Deadlock** is not checked in these runs: a program ends (`exited`), traps, or runs out of
keys to add, and a debug session ends.

## 4. Proofs

`TasksProofs` proves, for any set of tasks, any promises and any subset of the operations:

* `TypeCorrect`, `NoWakeupLost` (`OneHome`), `CallsReturnOnce` (`ReturnedOnce`),
  `HandoffNeverStale` (`Handoff`), `EndedTasksHaveNoAwaiters` (`ParkedIsLive`).

The only assumptions are `NamesAssumption` (names of threads, futures and the no-op are
distinct) and `OpsAssumption`.  The argument is one inductive invariant,

    IInv == TypeOK /\ Control /\ FutureStates /\ OneHome /\ ReturnedOnce /\ Handoff

`OneHome` alone is not inductive: that a thread which suspends has no resumption yet
needs `Control`, which ties `at` and `reg` to the one `live` thread; that the awaiters moved to
the queue were nowhere else needs all four parts of `OneHome` at once; that the host's
copy may be written back needs `Handoff`; and `FutureStates` (only open futures have awaiters,
an unborn task has an unborn future) is what makes `spawn` safe.  One lemma per action shows that it preserves the
invariant; lemmas about `Append`, `Tail` and concatenation say where a thread occurs in
the queue afterwards.

`TasksProofs` also proves, under the same assumptions, that the scheduler implements `Executor`
(`SchedulerImplementsExecutor`) and that a program whose main has not returned ends only when no
thread is ready (`EndsOnlyIdle`, from `IdleAtHost`: when the host has control and main has not
returned, the queue is empty).  For the refinement, `Mapped` says of each thread from what in the
scheduler its status is read off; it follows from `IInv` (`StatesMap`).  One lemma per action then shows which step of
`Executor` it is, and `NobodyMoves` and `OneMoves` that all the other threads keep their status: a thread
keeps it whose program counter, resumption and continuation are left alone (`Untouched`).

It proves as well what the awaiting threads get and what they can be left with:

* `AwaitGivesTheResult` (`ResultsMatch`), if `settle_future` is not among the operations: a future that is
  settled by hand may be given any value, also that of another task.  Its invariant `ResultInv` follows the result from the future to the thunk
  in the queue to the thread.
* `EndsStuckOnOpen`, for any operations: whoever is suspended when a program ends awaits an open future, and if it is a
  task's, that task has not ended.
* `StuckInACircle` (`StuckIsCircular`), for programs of spawn, pause and await: the future is that of a
  thread which is suspended too.  With promises or calls that hand over control it may be waiting in a call instead, or the promise be nobody's, so the
  hypothesis is needed.

`ChannelsProofs` proves `ChannelsAreFifo` from `FifoInv == Sequential /\ UnmadeEmpty /\ Fifo`:
the messages of channels not made yet are empty, so that making one loses nothing.
`ChannelsUseTheScheduler` says that every step of a program with channels is a step of the scheduler or
leaves it alone, so that the theorems above hold with channels too.  `RecvKeepsGoing`
(`BlockedRecvNeverIdles`) needs them: a thread inside `recv` polls or is queued (`PollsOn`), and the host has control only when
nobody is queued.

`HamtProofs` proves, for any keys, hashes and values, any fan-out and any number of levels, that every dict a
program can make is a well-formed trie (`TriesAreWellFormed`: `WellFormed`) and that deleting a key is popping it
(`PopsAreDeletes`: `DeleteIsPop`).  If no key is a NaN, lookups find the entries the
trie lists and no others (`LookupsSeeEntries`: `LookupsAgree`), equality is that of the entries and not of the shapes
(`EqualityIsOfEntries`: `EqualityIgnoresShape`), and dicts are maps (`DictsAreMaps`, the refinement of `DictSpec`).
`HamtSetProofs` proves the same of sets: their tries are well formed (`SetTriesAreWellFormed`: `WellFormed`), and if no key
is a NaN, lookups, size and comparisons are those of the sets of their elements (`ComparisonsAreOfSets`: `RelationsAgree`)
and the operators and `pop` are those of set algebra (`SetsAreSets`, the refinement of `SetSpec`, up to the first operation that
traps).  `OnlyMixedKeysTrap` (`TrapsAreMixed`) says which do: but for a pop, which `set_pop` shows to trap because of the shape of a trie, only those that
let a string meet a key of another type, or a decimal a string or a symbol.  The proof follows the keys that a walk compares (`Compares`) to the leaves of the trie.

The hypothesis `Nans = {}` is what the properties mean and not what the proofs lack: a NaN that was put in a dict is listed by the walks over
it and counted by its size, but no lookup finds it and no pop takes it away, so that neither property holds of such a
dict.  That its trie is still well formed is proved.

The assumptions are `HashAssumption` (the levels take up all bits of a hash, as seven times five bits take up the 31
of `hash_i31`), `LeafAssumption`, and of each client what its leaves are and that its sentinels are not values
(`ValuesAssumption`, `SetAssumption`).  `WellFormed` is its own
inductive invariant: it says that a node has one child for each bit, that each leaf stands on the path of its
key's hash, and that a collision stands only at the last level and holds two or more leaves of one hash with
distinct keys.  (It does not say that a sub-node has children: removing leaves empty ones behind, which is why a pop of a set may
trap.)  The argument, whose lemmas about tries of any leaves are in `HashTrieProofs`:

* Each walk is unfolded to its definition at one depth, and a fact about a walk is proved at the last level, and at
  a depth if it holds below (`Upward`, induction on the set of depths).
* `Joins` and `Apart` say which leaves a node has before and after one child is replaced, and that nothing of
  the other children is touched; `Swapped` puts them into one fact about the leaves a node holds.  `SetRight`, `DeleteRight` and `PopRight` of
  dicts, `AddRight` and `RemoveRight` of sets and `LeavesRight` of both follow at each depth.
* `Path` says that hashes that meet at a depth share all their earlier fragments, so that what meets at the last
  level has one hash (`HashesApart`): a collision is only made there, and only of equal hashes.
* Merging, projecting and comparing dicts and all operators on sets walk the leaves of one trie: folds over `Leaves`.  `MapOf` of a
  trie is the map its leaves list, and each action changes it as `DictSpec` does; `Elements` of one are the keys of
  its leaves, and each action changes them as `SetSpec` does.
* `Less` is all that removing a key from a set promises if NaNs may be among the keys: the leaves that remain were there before, and none
  with another key is lost.  `FirstFacts` says that what `pop` picks is an element whenever it does not trap.

`DebuggerProofs` proves, for any program, files and lines (`ProgramAssumption` says no more than
that the names are distinct and each mark has a line): `DebuggerTypeCorrect`,
`StandsWhereReportedAlways`, `ResumeIsNeverStale`, `ExitedIsLast`, and
`AdapterImplementsSession`, the refinement of `DebugSession`.  The invariant is

    IInv == TypeOK /\ Flight /\ Polls /\ Serves /\ Leaves /\ ExitedIsOver

`Flight` ties the wasm thread to the channels: at most one of them is in use, and the thread is at
most one mark ahead of what the editor was told, at a mark the filter lets through or did
before configurationDone.  `Polls`, `Serves` and `Leaves` say what the loop may rely on
where it stands.  The stop that fired under the initial filter is the reason for the
disjunct `why = "start"` in `Exposed`: without it the invariant is lost when configurationDone switches the mode.
`StepSession` then maps each action to a step of `DebugSession` or to none.

`LoadingProofs` proves of the abstract `Loading`, for any urls and names, that nothing an import looks for is missing once a module was started
(`NothingIsMissing`), by the invariant `TypeOK /\ StartedIsLinked`.  That `Compiler` is such a `Loading` is model-checked on the
packages of `compile` (`ImplementsLoading`) and not proved.

`LexerProofs` proves, for any texts and any operators (`SourcesAssumption` says that a text is a sequence of
bytes), that the lexer has its types (`LexerTyped`: the position stays in the text), that blocks that
are started are ended and no others (`BlocksAlwaysBalance`), and that it hands out at most three tokens a byte and four
more (`TokensAreBounded`).  They are theorems of `LexSpec`, the lexer alone; `FrontEnd` and `Compiler` leave its variables to it
while a text is read.  The invariant is

    LexInv == Typed /\ Balanced /\ EndsOnce /\ Paid /\ Fresh

`Balanced` counts the blocks of all tokens made, buffered ones included: started ones less ended ones are the
depth of `ind`, wherever the lexer stands, which the property says of the tokens handed out only.
`EndsOnce` is that `EOF` is last, so that `Done` is stable.  `Paid` is an amortisation: what was made, and what the lexer still owes
for what is open (one for each block, bracket and interpolation), is covered by the bytes that
were read.  A block string owes three more until it ends, because it may step back to the
newline before its end, which is then read again.  `Typed` says more of the stacks than `LexTypeOK` does, as
the arms need to know what is below the top.  How many tokens a text gives follows from the raw lines being increasing
(`InOrder` is proved to list a set in order), and each but the last holding a byte.
Induction over an index is done with `Induction`, on a set of numbers, which needs no operator as a parameter.

`LexerProofs` also proves that nothing of a text is read twice and nothing but white space left out
(`TokensTileTheText`: `Tiled`).  Its invariant, on top of `LexInv`, is

    TileInv == Tiles(0, Made, pos.idx) /\ BackStep

`Tiles(i, u, j)` says that the tokens `u` take the text from `i` to `j`, up to the first error and but for white
space.  It composes (`TilesConcat`), so that each arm has only to show that its tokens take what it moves over.
Of a text, each raw line ends where the next starts (`Rows`), and what is left out in front of its
token is indentation (`RowsTile`).  That alone is not inductive: a block string without a line, opened at the end of
the text, moves back to the newline behind its opening mark.  `BackStep` says that no token has taken that newline.

Left to TLC: the liveness properties (TLAPS has no proofs under fairness here)
and everything about trees and expressions: their operators are recursive over data, and such facts need
induction with an operator parameter, which the prover cannot instantiate.  Of the lexer, `PositionsAgree` is left.

## 5. Where the code disagrees with what it says

* `with_tasks` may never return (`with_tasks_join`).  The first yield starts task a under main's
  continuation; a pauses, which drops that continuation in favour of the no-op;
  when the queue empties under the no-op, the host resumes nothing and exits.
* Dict keys of different types can trap on comparison (`hamt_mixed`).
* `pop` on a set traps when the first sub-node has been emptied (`set_pop`).
* What stands behind a right side that is indented below its `=` is dropped without an error
  (`front_tail`): `parse_binding` skips the start of the block but not its end, and `parse` does not look for the end of
  the text (`docs/language.md:826`).
* A function that is called again before its body is over shares the slots of its body with
  that call (`compile_reentry`): they are globals unless a closure has captured them.

The programs of these are `DifferPk` in `MCCompiler`.  No run has them; with `Packages <- DifferPk` TLC finds `MeaningKept` violated by each
of the first seven kinds and `RefusedForCause` by each of the last two (and of the fourth).

* `in` of a list traps (`protocols.wat:1482`), and a quoted name is not found among the keys of a record, though
  `docs/language.md:344-345` have both.  A list cannot be asked for in a record.
* Instances inside a list or a record are equal only if they are one allocation, outside they are compared by
  content (`protocols.wat:413`, `types.wat:886`); an instance of a type of functions is not even equal to itself.
  `docs/language.md:280-294` says that equality is of contents all the way down and never of identity.
* An arm with a literal or a range traps on a value of another kind (`transform.rs:2918`, `protocols.wat:450`) and the arms below it are not
  tried (`docs/language.md:674`).
* A function of a body may be called above its binding by another one (`scopes/mod.rs:588`), though `docs/language.md:556` says it is an error.
* Spreading an instance into a list or a record traps (`list.wat:535`, `dict.wat:1717`), though the comment at `types.wat:813` has spread
  go through `inst_payload`.
* A name of the module in the fields of a type above its binding traps (`transform.rs:1214`); `docs/language.md:820` says that the order of
  a module does not matter.
* Only plain names are exported (`ast_desugar/mod.rs:131`), not those that a pattern or an import binds; `docs/language.md:730` says names bound at the top
  level are.
* `b = a` above `a = 1` is refused (`scopes/mod.rs:240`), and a function above the import of a name it uses panics in
  lowering (`docs/language.md:820` again).
* A type or a predicate in front of a parameter's pattern is not resolved, so that lowering panics
  (`scopes/mod.rs:764`), though `docs/language.md:500-502` says that parameters have the same patterns as bindings.

An import that is bound to a name, stands inside a function or is part of an expression is not collected (`transform.rs:2354`), and `link` refuses
it although the module is there (`docs/language.md:722`).  `compile` has the three forms, and `RefusedForCause` says so.

The following were seen while modelling as well.  No package of `compile` has them, or `Meaning` answers "outside"; the two exceptions
are what a predicate does to the context, where `Meaning` follows the comment at `apply.wat:344`, and a name that is not exported,
of which the documentation says nothing.

* Run time: two NaNs in a set are never popped.  `run` returns exit code 0 for a program whose main
  never returned because threads await each other (`StuckIsCircular` shows when that is).  A second await of a future
  whose result was taken traps (`tasks.fnk:118`).
* Debugger: a session does not end when the editor disconnects while the program is stopped
  (`dap/README.md:29` says it does).  A breakpoint is verified when any module has a mark on a line of that number.
  The comment above `handler_state` in `dap/mod.rs` gives the wrong default mode.
  `host_yield` does nothing under the debugger, and configurationDone ends without an event if
  the program panics before its first stop.
* Patterns: a range that is nested, or that stands in a binding or a parameter, always traps (`transform.rs:2861`).  A predicate
  with a sub-pattern gets the value in a list, which the comment near `transform.rs:3990` denies.  A boolean in
  front of a pattern is taken for a protocol.  What a predicate does to the context is undone: the arm and the
  later arms run under the context of the match (`apply.wat:344`).  `[a, b] = x` as the last statement traps or gives a marker of the runtime.
* `[g _, x]` is refused.  A name the module does not export traps when it is imported; `../p/main.fnk` and `./main.fnk` are two modules.
* Lexer: a block string that is opened at the end of the text moves the position back to its newline, and one
  whose text ends in a newline behind a backslash puts its `StrEnd` one line up, at line 0 if it starts on line 1.
  One that ends behind an interpolation gives the newline it steps back to column 0 (`lexer.rs:671`); if the next line stands
  between two levels, the error for that begins at the wrong column.  `PositionsAgree` leaves such tokens out.
* Panics of the compiler: `f ..1`, `f ..[]`, a text that ends in a backslash, a hole inside `try`, `match` or a function, an empty module.
* Types: fields in front of `..Base` are dropped, and a second spread replaces the first.  A case of an enum that
  inherits loses its base (`types.wat:673`).  `_` as a value, as in `union: _`, makes lowering panic.
* `a not b` drops `a`; the backtrace keeps a frame after each tail call (`trace.wat:3`; it is not modelled); a name that `|=` binds to a
  public name shares its cell (`docs/language.md:418`).

## 6. Not modelled, and the plan

| Next | Module | Question |
|---|---|---|
| 1 | `Effects` | `effects.fnk`: `with` frames, for which `Meaning`'s evaluation is too deep for TLC's stack, and resumptions called more than once; refinement to a map of slots |
| 2 | `Package`, `WatLinker` | `link.rs` and `wat_linker`: order of sections, remapping of indices |
| 3 | proofs | that `Compiler`'s queue implements `Loading` for any packages; `PositionsAgree` of the lexer |

`emit.rs` is tables without states to explore, but for the remapping above.  Floating point and libm,
formatting and rendering, printers, source maps, the command line, the loaders of files and the
second host (`interop/js`) stay out: they are numerics, text or I/O.  Of `Machine`'s runtime, the values are integers, booleans,
strings, sequences, records, ranges, closures, types and their instances, and opaque values; the types `int`, `float` and `str` of builtin values are
not there.  Templates are shown as the host shows them only for
strings, integers and booleans.
