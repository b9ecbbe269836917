# A TLA+ model of mara

mara (`src/`) is a small Lisp written in C11: a library that parses source text
into lists, compiles them to byte code, and runs it on a stack machine inside a
host program.  It has no garbage collector.  Every object lives in a *zone*, one
for each call, and goes when the call returns; a value that has to live longer is
copied to an older zone first.  Most of what is hard in this code follows from
that: whether a zone is exited at the right time, whether everything that
outlives it was copied, and whether stack frames, zones and C calls stay in step
when functions of the host, of the library and of the program call each other
and fail.

This directory models that part of the system, and what is around it: the
compiler, the reader that turns text into lists, the data structures and the
environment.  TLC checks the models on small instances.  For instances of any
size TLAPS proves

- that nothing refers to an object that is gone, and that frames, zones and C
  calls stay in step;
- that memory, finalizers and modules are each used once, as long as the zones
  of a context have not run out;
- that the list, the map and the deep copy do what their abstract specifications
  say;
- that the dispatch loop stays in its stack frame, for functions that are
  verified as `CodeVerified` says;
- that the lexer and the parser stay within their buffers, keep the elements of
  nested lists apart and take nothing they do not read, and that each name has
  one number in the symbol table.

What is read, compiled and computed, the recursive part of the reader and the
compiler, is model-checked only: that the reader reads what the grammar says, that
the compiler makes verified code, and that this code means what the program says.

Line numbers below and in the modules are those of `src/src/`, unless they name
another directory.

## The system

| Component | Source | State | Operations | Who calls it |
|---|---|---|---|---|
| Arena allocator | `alloc.c` | chains of chunks with a bump pointer, the free list of the environment | allocate, snapshot, restore, reset | zones, symbol table, debug information, parser and compiler |
| Zones | `zone.c` | a level, an arena, finalizers; `ctx->current_zone`; the error zone | enter, exit, snapshot, restore, add finalizer | `vm.c`, `copy.c`, `compiler.c` |
| Call stack | `vm.c` | stack frames, saved machine states, the operand stack | `mara_call`, `mara_apply`, CALL, RETURN, errors | host, native functions, iteration, module loader |
| Instructions | `vm.c`, `vm_intrinsics.h` | operand stack, locals, captures | 31 instructions, 3 of them merged ones | `mara_call` |
| Objects and copying | `value.c`, `copy.c` | objects, the table of copied objects | make, `mara_copy` | everything that stores or returns a value |
| List | `list.c` | array, length, capacity, where the array is | get, set, push, delete, resize, foreach | host, core module, parser, module loader |
| Map | `map.c`, `hamt.h` | hash trie, list of nodes, length | get, set, delete, foreach | host, compiler, module loader |
| Module loader | `module.c` | cache of the environment; loaders and current module of a context | import, export, init_module, add_module_loader | host, code of modules |
| Core module | `core_module.c` | none | a loader, and functions on lists and numbers | module loader |
| Environment | `env.c` | contexts in use and free, permanent zone | create, destroy, begin, end, reset | host |
| Interning | `symtab.c`, `strpool.c` | names and their numbers | intern, look up, clean up | symbols, debug information |
| Debug information | `debug_info.c` | position of each element of a parsed list | put, get | parser, compiler, stack traces |
| Errors | `error.c` | last error and its stack trace, in the error zone | `mara_errorf` | everything |
| Compiler | `compiler.c`, `barray.h` | function and local scopes, instructions with labels | compile forms, remove and merge instructions, resolve labels | host |
| Lexer | `lexer.c` | one character of look-ahead, position, capture buffer of 512 places | next token | parser |
| Parser | `parser.c` | lists in progress and the nodes of their elements in an arena | next value, end of list | host |
| Printer | `print.c` | none | print values and errors | host |
| Command line | `cli/` | none | exec, compile, parse | user |

Everything runs on one C stack; there are no threads.  The interleavings are
those of calls: a function that `mara_list_foreach`, `mara_map_foreach`,
`mara_import` or CALL has called may do anything before its caller goes on with
what it read before.  Several contexts share the module cache, the permanent
zone and the free chunks of their environment.

What has to be right, by component:

- arena: no two users of memory overlap, no chunk is lost or on two lists, a
  snapshot can be restored;
- zones and call stack: a call's zone is open exactly while the call runs, the
  result goes to a zone of the caller, an error leaves a state in which later
  calls work;
- objects: nothing refers to an object that goes earlier than itself; nothing a
  running call holds has gone;
- list and map: they behave as a sequence and as a function, also while they are
  iterated over; the memory of a list is freed once;
- module loader: each module is loaded once, marked while it is being loaded,
  can be loaded again after a failure; exports go to the module being loaded;
- environment: memory of a context is not used twice; after a reset nothing
  refers to what was there before;
- interning: one number for one name, for ever;
- compiler and instructions: the operand stack never exceeds `stack_size`, jumps reach their
  labels, a program means the same before and after the optimisation pass;
- lexer and parser: what is in the text is read, with the right position, or the
  first thing that is wrong with it is reported; they stop wherever the text does;
- errors: an error can be read until the next one.

`hazards` in `PROJECT.json` lists each hard spot with its line, and the property
that watches it or the reason why none does yet.

## Modules

| Module | Models | Abstraction |
|---|---|---|
| `Arena` | `alloc.c` for several arenas with one free list | addresses are offsets in words; block contents left out |
| `CallStack` | frames, zones and C activations of one context | values left out: which function is called, what fails, what needs a deep copy are free choices; `mara_parse` and `mara_compile` only where they find no zone |
| `Heap` | objects, references, copies, zones, calls | an object is its zone and the set of objects it refers to |
| `DeepCopy` refines `AbstractCopy` | the recursion of `mara_copy` with its table; a copy of everything that is younger, in one step | objects are sequences of values, the entries of a map in the order of its list of nodes |
| `MaraMap` refines `AbstractMap` | the hash trie with tombstones; a function from keys to values | the hash is the constant `Path`; a node's address is its place |
| `MaraList` refines `AbstractList` | the growing array; a sequence | elements are values without structure |
| `Modules` | cache, loaders, entries, imports of several contexts | a module is a map of exports, each a plain value or an object with the place it is in; what is in an object stays as it is; code of a module is any sequence of imports and exports |
| `Compiler` | `compiler.c`: a function from the expressions of a program to code | source positions left out; a map of names is a function |
| `Loop` | the dispatch loop with the operand stack in memory, for any function; `Verified`, what it relies on | integers, closures and lists; native functions return nil; nothing is copied |
| `Machine` (extends `Loop`, `Compiler`, `Meaning`) | a program that is compiled and run | `mara_compile` is one step |
| `Meaning` | nothing of the code: evaluation of the syntax tree, the reference for both | |
| `Parser` (extends `Grammar`, `Symtab`) | lexer and parser, one character at a time; debug information | a character is a string of one; a real is the text it is read from |
| `Reader` (extends `Parser`) | nothing of the code: what `mara_parse` has to return for a text | |
| `Symtab` | the symbol table: an array that is also a trie | the hash is the constant `Hash` |
| `Grammar` | nothing of the code: the tokens of a text, the reference of `Reader`, and which characters are special | |
| `Environment` | environment, contexts, finalizers and zone snapshots, also where the zones of a context run out | the content of zones left out but for the finalizers |
| `ArenaProofs`, `HeapProofs`, `DeepCopyProofs`, `MaraListProofs`, `ModulesProofs`, `EnvironmentProofs` | theorems about the module each is named after | |
| `VmProofs` | theorems about `CallStack` and `Loop`, the two models of `vm.c` | |
| `TrieProofs` | theorems about `MaraMap` and `Symtab`, the two tries of `bhamt.h`, and about `Parser`, which fills the second one | |

`MCArena`, `MCHeap`, `MCCopy`, `MCMap`, `MCList`, `MCModules`, `MCMachine`,
`MCReader` and `MCEnvironment` give the constants their values for TLC.
`CallStack` needs only numbers and is checked as it is.

Operators named after a definition with something wrong about it
(`ReturnKeepingZone`, `PutUncopied`, ...) stand before that definition and are
used by no specification.  Each is a plausible mistake in the code: with it in
place of the real definition, TLC finds the property violated that PROJECT.json
names, which shows that the property depends on the code being right.

### Correspondence

**Arena.**  `chain[a]` is the linked list that starts at `current_chunk`;
`free` is `env->free_chunks`; `size` and `bump` are `end` and `bump_ptr`
relative to the chunk.  `mara_arena_alloc_ex` is three actions: the current
chunk has room (`AllocInCurrent`), the first free chunk is taken
(`AllocReusing`), `malloc` gives a new one (`AllocMalloc`); `Wanted` is the size
of the chunk and leaves out the alignment, as the code does.  `blocks` and the
`count` of a snapshot are history.  `Restore` and `Forget` nest as their
callers do: the parser restores what it took last, the compiler one snapshot
for each function, and on an error path (`mara_do_compile`) none, after which
the zone is exited.  When `malloc` fails an assertion stops the program.

**CallStack.**  `frames` ends at `vm_state.fp`, `cur` is the index of
`ctx->current_zone`, `calls` are the C functions in progress: the host, native
functions, and `mara_vm_execute`, whose callee VM functions have frames of their
own but no C call.  `mara_call` is `MaraCallNative` and `MaraCallVm`, the
instruction CALL is `CallVm` and `CallNative`, its failures and those of
intrinsics are `VmError`; RETURN is `Return`, and the code after the call of a
native function is `NativeReturns` and `NativeFails`.  `ParseOrCompileFails` is
the error of `mara_parse` and `mara_compile` when there is no zone left, after
which `ctx->current_zone` is one further (once: `Environment` has the rest).  The
model is of the build with assertions (Debug): `panic` names the assertion that
stopped the program, after which nothing happens.  Without assertions the code
goes on in states this model does not describe.

**Heap.**  `heap` has the live objects, `acts` the calls in progress with what
each holds.  `Named` is what the running code can get hold of, by following
references from what it holds.  `Put` is `mara_copy` into the zone of a container
and the assignment: `ToCopy` is the set of objects the copy must visit, each one
once, and `Placements` gives them new addresses, so that shared and cyclic
structure is copied as such.  `Store` stands for the list, map, SET_CAPTURE and
PUT operations and for the module cache, an object of the permanent zone.  RETURN
and a native function's return copy the result, exit the zone and go on with the
caller (`ReturnAndExit`); RETURN to the host keeps the zone (`ReturnToHost`).  The
instruction SET_ARG is no step: the arguments of a call are a part of the caller's
operand stack which the caller does not read any more, except under `mara_apply`,
which is left out.  Calls that end in an assertion, which are those of VM
functions by native ones, and errors are in `CallStack` only.

**DeepCopy.**  `stack` is the C stack of `mara_deep_copy`, as far as its calls
copy a list, a map or a function; a frame has the loop index (`done`) and, in a
map, the copied key.  `Start` is `mara_copy`, with its early returns and the
case of strings and refs, which needs no table.  `Visit` is the head of
`mara_deep_copy`, up to the allocation of the copy (`Begun`) and the entry in
`copied_objs` (`Put`); `Descend` is the call of it for the next value, `Store`
what the caller does with the result (`Stored`), `Return` its end.  Memory for
a copy is what the bound `Places` gives; where it is used up, `mara_copy` goes no
further.  A slot that nobody has
written is `Garbage`, which the copy of a list has until `Store`.  Deleted nodes
of a map are visited as all others are: their key is copied, and
`mara_map_set` with nil (`MapSet`) leaves them out.  The copies appear to the
caller all at once, when `result` is set: that is the refinement of
`AbstractCopy`.

**MaraMap.**  `node[p]` is the node at place p of the trie, `list` the `next`
chain from the root.  `BHAMT_SEARCH` is `IsEnd`, with the last tombstone it
passed in `Free`.  `mara_map_set` with nil is `Delete`.  `mara_map_foreach` is
`Foreach`, `Continue` and `Break`, with any other operation while its function
runs.

**MaraList.**  `elems`, `capacity`, `len`, `in_zone` are the fields of
`mara_list_s`; a slot nobody wrote has `Garbage`.  `mara_list_reserve` is
`Reserved` and `Grow`: the first growth copies only `len` elements, later ones
(`realloc`) the whole array.  `mara_list_foreach` reads the length once.

**Modules.**  `stack` has the calls of loaders and entries in progress, in all
contexts.  `mara_import` answers from the cache, or fails, or calls the loaders
one after the other (`LoaderFails`, `LoaderFinds`); an entry
(`mara_internal_init_module`) begins with `StartEntry` and ends with
`EntryReturns` or `EntryFails`.  `Export` writes to the module that is current,
whoever calls it.  An object has what `is` in it and the place it is `in`: any
zone of a call or of the host, or the permanent zone, where it belongs to the
module it was copied with.  When an entry returns, `Keep` puts a copy of the
module in the cache, which by `InCache` leaves alone what is in the permanent zone
already, that is, what the module has from the cache and exports again;
`AnswerFrom` answers the import that waits from the module itself (module.c:286).
`answered` is history: what the first import answered that found a name.  The list
of loaders is cleared when the call in whose zone it is ends (`ExitZone`).

**Compiler.**  A compilation is a record that the operators pass along, as the C
functions do with `ctx`: its error, and the function scopes, innermost last.
There is one operator for each `mara_compile_*` and `mara_compiler_*` function;
`mara_compiler_find_var` is two, `FindVar` for what it returns and
`AfterFindVar` for the capture it may add.  `Finished` is
`mara_compiler_end_function`: `WithoutNilPop`, `WithSuperInstructions` and
`WithOffsets` are its passes, in that order.  An instruction keeps its operands
apart (`a`, `b`) instead of packed in 24 bits, and GET, SET and CALL with the
suffixes of the code have them as a `kind`.  `mara_compile` returns before
anything else runs, so it is one operator and not a machine of its own.

**Loop and Machine.**  `memory` is `ctx->stack`, with the frames side by side and the
arguments of the host below 0; `reg` has `ip`, `sp`, `args` and the cached
`stack_top`.  There is one action for each group of instructions.  CALL and the
three merged ones are `CallClosure`, `CallNativeFunction` and `CallFails`.  `status`
says how the program ended; "assert" is a failed `mara_assert`, "crash" a wild
pointer.  After an error the frames stay, as in the code, and nothing more is
run (what the host may do then is in `CallStack`).  `Callable` and `Begin` are
`mara_call` by the host.  `Verified` is no code of mara, which checks nothing: it
is what the loop takes for granted of a function.  `Machine` chooses a program,
compiles it and lets the loop run it.

**Parser and Reader.**  `lexer` is `mara_lexer_t`; `mode` says in which function
of `lexer.c` the control is, for each of which there are one or more actions.
`Read` is the reader of the host behind `mara_lexer_peek`: it chooses the next
character, ends the text or fails.  An end is seen as the character NUL, also by
functions that look for something else.  `Consume` is `mara_lexer_consume_char`,
which captures before it looks at the character; `Stepped` is what it does to the
position.  A token goes to the parser in the same step (`TakeSymbol`, `TakeInt`,
`TakeReal`, `TakeString`, `OpenList`, `CloseList`), which makes a value of it and
pushes a node.  `InRange` is `errno` after `strtod`: it is ERANGE for what is too
large and for what is too small, not for zero, and zeros in front do not count.
The arena of the parser is the sequence `nodes`, and the snapshot of a list is its
length at the opening parenthesis.  `lists` are the list objects made so far,
whose place stands for their address; `debug_info` has what `mara_put_debug_info`
is called with.  `FinishParse` is the end of `mara_do_parse`.  In `Reader`,
`Written` turns the lists and their debug information back into tokens, and
`ReadsAsGrammar` compares those with the tokens `Grammar` finds in the whole text.

**Symtab.**  A node's number in `nodes` is the number of its symbol plus one, as
the children of a node are in C.  `Way` is the search; `WithNode` appends the
node, then links it from the last node of the search, as the code does by an
index, because the array may have moved (`Grown`).

**Environment.**  `blocks` are the contexts' memory in the permanent zone; `free`
is `env->free_contexts`, of which `mara_begin` looks at the first only (`Fits`).
A zone is its list of finalizers; `zones[c]` goes up to `ctx->current_zone`.
`mara_zone_enter` moves that before it knows whether there is a zone (zone.c:21),
so that with all of them in use it ends up behind them (`Entered`, kind "past"),
in the stack frames, which follow the zones in the memory of the context. What it
does next depends on the caller: `mara_parse`, `mara_compile` and the CALL of a
native function go on (`Enter`, `Compile`), everything else asserts
(`EnterFails`).  The first place behind the zones is read as a zone of level 0
without finalizers, because the root frame is zero there; `mara_end` takes its
level for the number of zones to clean up, cleans up that place alone (`Cleaned`),
and leaves the finalizers of all the zones behind (`Abandoned`, and `lost`, which
is history).  Further behind there may be anything (`EndWildly`,
`RegisterWildly`). `Exit` of such a zone is the assertion "Unmatched zone", since
whoever exits knows its zone.  `Register` is `mara_add_finalizer`, in any open
zone: of a list that grows for the first time, or of the loaders.  `Compile`,
`BeginFunction`, `EndFunction` and `CompileEnds` are the finalizers of
`compiler.c`, with the zone snapshot of each function; `CompileEnds` comes at any
time, which is an error in the midst of functions. `Destroy` is
`mara_destroy_env`, `mara_reset` included, which refuses while `ref_count` is not
zero; `mara_destroy_env` asserts that it does not.

## What is checked

| Run | Bounds | Shows |
|---|---|---|
| `arena` | 2 arenas, 3 chunks of 8 words (header 3), requests of several sizes and alignments, 2 snapshots an arena | `ChunkOnOneList`, `BlocksSafe`, `SnapshotsRestorable` |
| `callstack` | 5 frames and zones, operand stack of 7, functions of size 0 and 2 | `VmRunsInItsZone`, `ReturnZonesOpen`, `NativeKeepsFrameAndZone` |
| `heap` | the cache and 3 objects with 1 reference each, 3 zones | `NoYoungerReference`, `NothingDangles` |
| `copy` | 3 objects in all small graphs, of which the first is a list or a map of two; target zones 0 and 1 | `CopiesAreOld`, `Terminates`, and the refinement `AbstractSpec` |
| `map` | 3 keys, 2 values, paths that share a prefix | `KeyReachable`, `VisitedOnce`, and the refinement `AbstractSpec` |
| `list` | 4 elements, initial capacities -1, 0, 1, 3, positions -1 to 4 | `BlockFreedOnce`, `ForeachReadsWritten`, and the refinement `AbstractSpec` |
| `modules` | 2 contexts, 2 modules with "*main*" and another export, 1 object, 2 calls in progress, 2 loaders | `MarkedWhileLoading`, `CurrentIsInnermost`, `LoadersOutliveImport`, `LoadedStays`, `ImportsAgree` |
| `machine` | 968 programs that put 8 expressions in 11 contexts twice, 16 others with and without import and export, 8 frames, 56 cells | `StackInFrame`, `CodeVerified`, `MeaningKept` |
| `reader` | texts of up to 6 characters over 7 alphabets, with and without `parse_one`; capture buffer of 4, integers below 4, longs below 64, 1 digit before the point of a real and 1 behind it; trie with 2 children a node, array of 1 at first | `ReadsAsGrammar`, `InternedOnce`, `Terminates` |
| `environment` | 2 blocks of memory, of 2 sizes, 3 zones in each context and 2 places behind them, 4 finalizers | `ContextsApart`, `FinalizedOnce` |

Each passing run also checks the types of its module (`TypeOK`, `LoopTypeOK`,
`ParseTypeOK`).  What the properties say is
in the comment above each.

The bounds are the smallest at which the interesting cases happen.  Three chunks
are one for each arena and one that is freed and taken again; a chunk of 8 words
has room for two blocks, and one request is larger than a chunk.  Five frames
allow host - VM - native - VM - VM, or the frames two errors have left behind with
calls on top, and the operand stack is full before the frames are.  Three objects
and three zones allow a chain of references across zones, a cycle, and sharing
with a copy in progress.  Three keys on a common path allow a tombstone between
two nodes; the initial capacities of lists are all the cases `mara_list_push`
tells apart, and 4 elements need the array of malloc to grow again.  Two calls
allow an import in the entry, or in the loader, of another import, by the same
context or another one, for which two modules are enough: in place of a third the
import meets a module that is being loaded or is loaded.  An object may be
exported fresh, or again from the cache of either module; of what an import
answers only what is in `answered` matters later, so that TLC compares states
without `result` (VIEW).  Operations have no limit: the runs cover every sequence
of them, of any length, within these sizes.

Three objects in `copy` are enough for a list that contains itself, a cycle of two
through a map, an object that is reached twice, one that is old already in the
middle of young ones, a map with a deleted node, and two equal strings.  The
alphabets of `reader` each have the characters of one part of the grammar, with
what may come in its middle: lists with comments and line breaks, lists with
strings and numbers, escapes, numbers, reals, line breaks of all three kinds, and
symbols.  Six characters are more than the capture buffer, which they overflow
inside each kind of element; 1111 is no long there and 11 is no 32-bit integer, as
4294967296 is in C, so that each conversion is exact, narrowed, and refused; 11.0
is too large for a real and 0.01 too small, 00.1 and 0.00 are neither (with the
digits 0 and 1 the limits of a double are numbers of digits, 309 before the point
and 306 zeros behind it, which a buffer of 512 characters has room for); with
hashes of 0 and 1 the third symbol may be below the two others in the trie, and
the array has grown twice by then.  Two blocks in `environment` are one that is
free and too small or large enough, and one in use; three zones have a call and a
compilation above the context's own, and four finalizers are two functions being
compiled, a list in the zone below and one in the permanent zone; the two places
behind the zones are the one that looks like a zone and the first that does not.

The programs of `machine` have a variable of the program captured, assigned and
shadowed at each of two levels of nesting: in blocks that follow each other, in
arguments, branches, closures that are called twice, and closures in closures.
The others are `examples/fib.mara` and `examples/boxed-fib.mara` for small
numbers, a recursion that never ends, and one for each error.  `MeaningKept`
compares how each ends with `Meaning`.  Three kinds of programs are left out,
because the code is wrong for them: functions that capture a variable and are
called where they are written (see below), operators with no
operand or the wrong number of them, and lists of different elements.  Programs
that read a variable whose `def` was not reached have no meaning and are left
out, too.

Deadlock is checked except in `callstack`, `environment` and `machine`, where an
assertion, a wild pointer or its end stops the program, and in `copy` and
`reader`, where a C function returns.

### Where the code and its comments disagree

Each of these runs checks one sentence of the source and finds a behaviour of
the code that contradicts it.

| Run | Sentence | What happens |
|---|---|---|
| `callstack_result` | `vm.c:107` "The VM always copy the result into the return zone" | after an error `vm_state.fp` stays where it was; the next function the host calls returns into the failed function, which goes on, and its value is what the host gets |
| `callstack_zones` | `vm.c:103` "There are as many zones as stack frames", and the assertion below it | RETURN to `mara_call` pops the frame and keeps the zone (`vm.c:407`); a `mara_call` after that gets a frame and no zone, and the assertion stops the program |

The models contain further flaws of the code, which no run states as a property:
the code is simply wrong there, or promises nothing.  Those in the compiler and
the machine were confirmed by running the library:

- `vm.c:407`: RETURN to `mara_call` does not exit the zone of the call
  (`vm.c:109`: "call_zone will be cleaned up by the VM").  The host's zones run
  out after as many calls, and a native function that used `mara_call` on a VM
  function fails the assertion `zone.c:39` when it returns (`Return`, `ExitZone`);
- `zone.c:21`: after `mara_compile` or `mara_parse` has answered that there is no zone
  left, `mara_end` releases nothing that the zones of the context keep outside of them;
  after two such answers it dereferences a wild pointer; and a native function that
  went on after such an answer fails the assertion `zone.c:39` when it returns
  (`Abandoned`, `EndWildly`, `Exit`; all three confirmed by running the library);
- `vm.c:351`: CALL writes through the frame before it is known whether there is
  one, and `vm.c:384-390` answers with "Stack overflow" too late (panic "wild
  write" of `CallNative`);
- `compiler.c:399`: in `((fn () x))` the load of `x` after MAKE_CLOSURE is merged
  with the CALL that follows it, and MAKE_CLOSURE meets CALL_LOCAL, which
  `vm.c:459` asserts it does not; no program of the run `machine` has it;

- `alloc.c:46`: a request larger than the configured chunk, with an alignment
  that needs padding, gets a chunk it does not fit in, and NULL;
- `compiler.c:1103`: an error inside a function in two nested `do` forms makes
  the compiler dereference a null pointer (`EndBlock`);
- `vm.c:291`: SET_ARG in a function called by `mara_apply` stores without a copy
  in the list of the caller, which the TODO above it concedes; not modelled;
- `vm.c:502`: `(+)`, `(-)` and `(list)` make a wild stack pointer (`Intrinsic`);
- `vm_intrinsics.h:127`: `(list 1 2)` is a list of two ones (`MakeList`);
- `vm.c:285`: `(do (def x 5)) (do (if false (def y 1)) y)` is 5;
- `parser.c:381`: with `parse_one` the delimiter after a number or a symbol has
  been taken from the host's reader and is lost with the lexer (`NothingLost` holds
  for lists and strings only);
- `parser.c:201`: a long is narrowed to 32 bits without a test (`Truncated`);
- `parser.c:384`: the end of the top-level list's range is not written
  (`FinishParse`);
- `debug_info.c:49`: the source range of a list is not overwritten when a later
  list has the same address;
- `parser.c:36`: the native debug information of a call that has returned may
  be read for a stack trace;
- `env.c:150`: after `mara_reset` the module cache and the string pool are
  pointers into memory that has been given back;
- `zone.c:14`: the list of finalizers stays after they have run; the error zone,
  which is used again without being entered, runs them again at its next cleanup.

`CallStack` also reaches the assertion "Zone limit reached" of `copy.c:174`,
which the FIXME above it describes.

## What is proved

### Heap

`HeapProofs` proves, for every set of objects, every number of zones, of
references in an object and of calls:

- `TypeCorrect`: `Spec => []TypeOK`;
- `ReferencesOutlive`: `Spec => []NoYoungerReference`;
- `HeldObjectsLive`: `Spec => []NothingDangles`.

The assumption is `HeapAssumption` (the types of the constants; TLC evaluates
it in `heap`).  With `mara_apply`, which the model leaves out, the properties
would not hold.

None of the three is inductive alone.  That a store is safe depends on the objects
which the code holds being in open zones (`NothingDangles`), which after a return
depends on the references of the result leading to older zones
(`NoYoungerReference`).  Both depend on how calls nest: exiting the zone of the
running call is safe because the callers' zones and the zone of the result are
older.  `CallsNest` says so: each call is one zone above the one before, its
return zone is below its own, and only the first one is the host's.  `CacheLives`
says that the module cache, which `mara_end` leaves to the host, is there.  The
invariant is

    IInv == TypeOK /\ CallsNest /\ CacheLives /\ NoYoungerReference /\ NothingDangles

with one lemma for each operation.  The steps share these: what the code
can name is live and not younger than its zone (`NamedIsSafe`, by giving the set
of such objects as a witness for the closure); the set of objects to copy is
closed and contains the value if it has to move (`ToCopyIsClosed`); the heap
with the copies again has no younger reference, and the copied value may be
referred to from the target zone (`CopyIsSafe`); a heap without its youngest
zone has none either (`ExitIsSafe`).

### Call stack

`VmProofs` proves of `CallStack`, for every number of frames, every operand stack and
all functions:

- `TypeCorrect`: `Spec => []TypeOK`;
- `RunsInZone`: `Spec => []VmRunsInItsZone`;
- `ZonesOpen`: `Spec => []ReturnZonesOpen`;
- `NativesKeep`: `Spec => []NativeKeepsFrameAndZone`.

The assumption is `CallStackAssumption` (the types of the constants; TLC
evaluates it in `callstack`).

RETURN decides by the frame below the running one, which after an error may be
anybody's, so that the invariant has to speak of every frame, dead or alive:

    IInv == TypeOK /\ (Alive => CallsNest /\ FramesNest /\ ReturnZonesGrow /\ NativesNest)

`FramesNest`: a frame above a VM function's frame has the next zone or none, so
that giving back one zone and one frame leads to a frame in its own zone.  Where
`mara_parse` or `mara_compile` has moved `current_zone` behind the zones, no VM
function runs: a native function is in progress, or the host. `ReturnZonesGrow`:
from one frame to the next the return zone never gets younger than it may, which
keeps it open when a zone is exited.  `NativesNest`: the frames and zones above
those of a native function in progress are younger than its own, so that no RETURN
pops its frame, and when its zone is the current one its frame is the last one.
`CallsNest`: `mara_vm_execute` calls native functions only, and is called by
others.  Once an assertion has failed nothing is claimed but the types.  There is
one lemma for each way to call, return and fail; they share what a pushed frame
(`PushFrame`, from `PushedFrames` and `PushedAbove`) and a popped one
(`PopsFrame`, `PopsAbove`) leave of it.

### Dispatch loop

`VmProofs` also proves, for every stack size, every number of frames, every set
`F` of functions and every function `fn` with `Complete(fn, F)`:

- `LoopTypeCorrect`: `LoopSpec(fn) => []LoopTypeOK`;
- `StackStaysInFrame`: `LoopSpec(fn) => []StackInFrame`;
- `NeverAsserts`: `LoopSpec(fn) => [](status \notin {"assert", "crash"})`.

`Complete` says that the functions of `F` are verified and make closures of
functions of `F` only, and that `fn`, which the host calls, captures nothing.
That does not hold of every function, but it does of what the compiler makes,
which is `CodeVerified`, which TLC checks in `machine` for all 984 programs, also
for functions that are never called.  The two together say that compiled code
never leaves its stack frame: the proof is for every run of verified code, however
deep the recursion, and the model checker needs to look at the compiler only.
`((fn () x))` and `(+)`, for which the code is wrong (see above), are compiled to
functions that are not verified.

`Verified` is the argument of a bytecode verifier: `Heights` gives each
instruction that can be reached one height of the stack, `StackAgrees` says that
every way there leaves it, between what the instruction takes and what the frame
holds.  The invariant has to say so of every frame, as a callee returns to
heights that it knows nothing of:

    LoopInv(F) == status \notin {"assert", "crash"} /\ ObjectsWell(F, objects)
                  /\ MemoryWell(F) /\ FramesWell(F) /\ (status = "running" => RunsWell)

`RunsWell`: the running function is at the height that has been counted there
(`AtHeight`), and so is each caller at the instruction after its CALL, where the
result will be (`CallersWell`); the arguments lie below the frame, which is why a
function that stores to one writes to no local, and `TopCached` says that the cached
top is the one in memory.  `ObjectsWell` and `MemoryWell`: whatever
is in a slot or a cell, if it is a closure, has a function of `F` and as many
captures as that wants.  `FramesWell`: frames lie one after the other, each
with the size its function asked for.  The lemma `StaysInFrame` is for instructions
of the running frame; calls and returns have one each.

### List

`MaraListProofs` proves, for all values, capacities and positions and a list of
any length:

- `TypeCorrect`: `Spec => []TypeOK`;
- `FreedOnce`: `Spec => []BlockFreedOnce`;
- `ForeachSafe`: `Spec => []ForeachReadsWritten`;
- `Implements`: `Spec => AbstractSpec`, the list is a sequence.

The assumption is `ListAssumption` (the values are not `Garbage`, capacities and
positions are integers; TLC evaluates it in `list`).  The three invariants are
inductive together: an iteration may read what lies behind a list that got
shorter, and `mara_list_reserve` does not copy that out of a zone.  It need not:
`Bounds` has an iteration end within the capacity, a push moves the array only
when that is full of elements (`PushHolds`), and a resize beyond the capacity
writes nil up to its new end (`ResizedKeeps`).  The
refinement has one lemma for each operation: the new array, read as a sequence
(`ContentNext`), is what the operation makes of the old one.  Steps of an
iteration are stutters.

### Deep copy

`DeepCopyProofs` proves, for every heap, however it shares and loops, and every
target zone:

- `TypeCorrect`: `Spec => []TypeOK`, of which the hard part is `NoReentry`;
- `CopiesOld`: `Spec => []CopiesAreOld`;
- `Refinement`: `Spec => AbstractSpec`, the recursion does what a copy of the
  graph in one step does.

The assumption is `DeepCopyAssumption`: a heap is one that the rest of the
library leaves (`IsGraph`: no reference to a younger object, which
`ReferencesOutlive` of `HeapProofs` says, and each key of a map once, which
`KeysReachable` of `TrieProofs` says), and an address is no other value.  TLC
evaluates it in `copy`.

    IInv == TypeOK /\ CopiesAreOld /\ HeapOK /\ TableOK /\ CopiesOK /\ CallsOK /\ OnlyReached

The copies are unfinished while the recursion runs, so that the invariant has to
say how far each is.  `Table` is `copied_objs`, with the string that `mara_copy`
copies without it; `TableOK` makes it one copy for each object that had to move,
and the other way round.  `CopiesOK`: the copy of an object is complete up to
the slot its call is at, and altogether if there is no such call
(`CopiedUpTo`, which for a map compares the entries without the deleted ones,
in any order).  `CallsOK`: each call waits for the one above it, which copies
the object in the slot at hand; `NoReentry` follows, because that object was
not in the table before.  `OnlyReached`: every set that has the value, if it has to
move, and what its members refer to, contains the objects in the table, so that
nothing else is copied.

The originals do not change before `Finish` (`NotSeen`), so that every step
before it is a stutter.  `Finish` is the one step of `AbstractCopy`: the mapping is
`Table`; what it maps is exactly what the value reaches, by the completeness of
the copies in one direction and by `OnlyReached` in the other.  A map's new
node comes second in its list (`InsertedIs`, `EntriesOfInserted`), which is why
entries are compared as a set; that copies of different keys are different keys
(`RenamedSameKey`) is what keeps `mara_map_set` from losing one.

### Map

`TrieProofs` proves of `MaraMap`, for all keys, values, hashes and maps of any size:

- `TypeCorrect`: `Spec => []TypeOK`;
- `KeysReachable`: `Spec => []KeyReachable`;
- `EachVisitedOnce`: `Spec => VisitedOnce`, an action property;
- `LenCorrect`: `Spec => [](len = Cardinality(KeysInMap))`;
- `Refinement`: `Spec => AbstractSpec`, the map is a function.

The assumption is `MapAssumption` (nil is no value, the tombstone no key; TLC
evaluates it in `map`).  `PathAssumption`, that searches begin at one root, is not
needed: a search is along the path of a key, whatever that is.

    IInv == TypeOK /\ KeyReachable /\ Valued /\ Counted /\ Visiting

`KeyReachable` is inductive with the types alone: where a key is put in a
tombstone, the search has first gone on to where no node is, and has not found the
key on its way (`NotThere`).  `Visiting` is what makes `VisitedOnce` inductive: a
key that was there all the time has been visited exactly if its node is at or
before the iterator in the list, and a new node, which comes second, leaves the
order of the others as it is (`Inserted`).  `Counted` is for `len`.  The
refinement has a lemma for each operation; what it answers is the value of the
node that the search ends at (`SearchFinds`).

### Symbol table

`TrieProofs` proves, for any set of texts, any hashes of them, also where all are
the same, and a table of any size:

- `NamesInternedOnce`: `SymtabSpec(texts) => []InternedOnce`;
- `WithinCapacity`: `SymtabSpec(texts) => [](Len(symtab.nodes) <= symtab.capacity)`;
- `NumbersNeverChange`: `SymtabSpec(texts) => [][NumbersKept]_symtab`, what code
  and values that hold a symbol's number depend on;
- `InternReturnsNumber`: the number that `mara_symtab_intern` returns is that of
  the text, in any table that the invariant holds of.

The assumptions are `SymtabAssumption`, evaluated in `reader`, and
`Hashed(texts)`, that a hash is a sequence of digits of `BHAMT_BITS`, as
`hash & BHAMT_MASK` is (TLC cannot evaluate it, as the texts are infinitely many).

    TrieOK(table, texts) == TableType(table, texts) /\ Descends(table)
                            /\ AllMet(table) /\ Len(table.nodes) <= table.capacity

That a name is found is not inductive: when a node is linked below another one,
the search for a third name may become longer, and what must not happen is that it
ends elsewhere.  `AllMet` says that the search for the key of a node comes by the
node, where it ends; so no two nodes have the same key.  `Descends`, a child comes
after its parent in the array, is why a search of as many steps as there are nodes
has ended, and why a new link, which leads to the last node, closes no circle.
`Way` is a recursive function; that it is one (`WayFollows`) follows by
well-founded induction over the depth of a set, the least depth without a value
being refuted, as operators cannot be passed to the induction theorems.

### Parser

`TrieProofs` proves, for all alphabets, texts and limits, however lists nest:

- `ParseTypeCorrect`: `ParseSpec => []ParseTypeOK`, which includes that ")"
  releases the nodes of the list that it closes and no others (`NodesKept`), that
  the capture buffer is not overrun and holds the text from the start of the token
  on (`CaptureIsInput`), and that a list has only lists and symbols that exist;
- `SymbolsInternedOnce`: `ParseSpec => []InternedOnce`;
- `OneElementIsRead`: `ParseSpec => []NothingLost`, that `parse_one` takes nothing
  from the stream that follows a list or a string;
- `ParserUsesSymtab`: `ParseSpec => SymtabSpec(Texts)`, the refinement by which
  what is proved of the symbol table holds while a text is read.

The assumptions are `ParserAssumption`, that what the lexer has in place of a
character is none, evaluated in `reader`, and `Hashed` of all texts.

    ParseInv == InputOK /\ LexerOK(lexer) /\ (status = "reading" => ScanOK(lexer))
                /\ (status = "reading" <=> open # <<>>)
                /\ StackOK(open, nodes, Len(lists), symtab) /\ ListsOK(lists, symtab)
                /\ InfoOK(debug_info, Len(lists)) /\ range \in Spans /\ TrieOK(symtab, Texts)

`LexerOK` relates the position to the text: the reader is one character ahead of
it exactly if that is in the buffer; `ScanOK`: the lexer captures in those of its
functions that read a token, and what is captured has no gap.  `ListOK` of
`StackOK` is about the arena: a node lies behind the snapshot of an open list
exactly if it belongs to that list or one inside it, so that restoring the
snapshot at ")" leaves the nodes of the lists around it (`StackClose`).  The
invariant of `OneElementIsRead`, `LoneInv`, adds that with `parse_one` nothing is
made before the first element ends, and that the buffer is empty after one that
ends in a character of its own.

### Arena

`ArenaProofs` proves, for all arenas, chunks, chunk sizes, requests and
alignments:

- `TypeCorrect`: `Spec => []TypeOK`;
- `ChunksOnOneList`: `Spec => []ChunkOnOneList`;
- `BlocksKeptSafe`: `Spec => []BlocksSafe`;
- `SnapshotsCorrect`: `Spec => []SnapshotsRestorable`.

The assumptions are `ArenaAssumption` (a chunk is larger than its header,
requests and alignments are positive; an alignment need be no power of two) and
`NoChunkIsNoChunk`, both evaluated in `arena`.

    IInv == TypeOK /\ ChunkOnOneList /\ \A a \in Arenas : ArenaOK(...)

What a restored snapshot gives back must be exactly what was handed out after
it was taken, and that takes an order.  `Ordered`: blocks lie in the order in
which they were handed out, from the back of the chain to its front and upwards
in a chunk.  `SnapOK`: a snapshot has a place in that order, with the older
blocks before it and the newer ones behind.  `Nested`: the snapshots of an arena
are in that order too, so that restoring an older one leaves those before it
right.  `Tight`: the bump pointer is where the last block ends.  The lemmas
`Pushed` and `Popped` say what a chunk at the front of the chain, or chunks off
it, do to the order; `BlockPlaced`, `SnapshotTaken`, `SnapshotsForgotten` and
`SnapshotRestored` say what each operation does to the rest.

### Module loader

`ModulesProofs` proves, for all contexts, modules, exports and loaders, and
calls of any depth:

- `TypeCorrect`: `Spec => []TypeOK`;
- `OneEntryPerModule`: `Spec => []MarkedWhileLoading`;
- `CurrentCorrect`: `Spec => []CurrentIsInnermost`;
- `LoadersCorrect`: `Spec => []LoadersOutliveImport`;
- `LoadedForGood`: `Spec => LoadedStays`, an action property;
- `ImportsCorrect`: `Spec => []ImportsAgree`.

The assumption is `ModulesAssumption`, evaluated in `modules`: names, limits, that an
error, which is a return code of its own in C, is no value a script can export,
and that plain values are no objects.

    IInv == TypeOK /\ Depth <= MaxDepth /\ MarkedWhileLoading
            /\ CurrentKept /\ LoadersHere /\ LoadersOutliveImport

When an entry returns or fails, `current_module` becomes what the entry has
noted when it began.  `CurrentKept` therefore says of each entry in progress that what
it has noted is the innermost entry below it, of its own context; the entries of
other contexts may lie between.  `LoadersHere`: the list of loaders is in a zone of
its own context, so that the end of another's call does not free it.

`ImportsAgree` is inductive next to `IInv`.  It relates what was answered at one
time to what is in the cache at another, and the two are different objects: the
answer of the import that loads a module is the original, in a zone, and later
answers are the copy.  The proof takes that copying a second time changes nothing
(`InCacheIs`), which later answers and exports of what comes from another module
need (`AtHandIs`); that the first answer is given in the step that fills the
cache, from the same module with "*main*" in it (`FirstAnswerAgrees`); and that
from then on the cache of that module stays (`NextSpares`, which `LoadedForGood`
rests on as well).

### Environment

`EnvironmentProofs` proves, for any number of contexts, zones and finalizers:

- `TypeCorrect`: `Spec => []TypeOK`;
- `ContextsKeptApart`: `Spec => []ContextsApart`;
- `EachFinalizedOnce`: `Spec => []FinalizedOnce`.

The assumption is `EnvironmentAssumption` (types of the constants), evaluated in
`environment`.

    IInv == TypeOK /\ ContextsApart /\ FinalizedOnce /\ ZonesOK

`FinalizedOnce` says of the lists of all open zones and of the permanent zone that
together they have each armed finalizer once.  `mara_zone_restore` runs what is in
front of a snapshot; that these are the newer ones takes `Nested` of `ZonesOK`:
each snapshot of a zone is the rest of the next one, and the last one of the list.
Only a compiler's zone has snapshots, and it is the last one of its context, which
nothing else is entered above.  `mara_destroy_env` runs the permanent zone's list
alone, which is all there is because the reference count counts the contexts in
use (`ContextsApart`).

A context whose zones have run out is part of the proof: the places behind them
are in the list of zones, `ZonesOK` says which they are (kind "past"), and `lost`
has what `mara_end` leaves behind when it begins there, which no list has any more
and no later step runs.  Contexts that end otherwise lose nothing.  What follows
after a wild pointer (`panic`) is not claimed.  Every step takes some lists away
and runs them (`Removed`), adds one finalizer (`Added`) or cuts a list (`Cut`);
those three lemmas are about any families of lists.

### Only model-checked

- `CodeVerified` and `MeaningKept` of `Machine`, and `ReadsAsGrammar` of `Reader`
  but for its part `NothingLost`: the compiler, the evaluation and the grammar are
  recursive over data.  What they compute takes induction over syntax trees and texts,
  and tlapm's SMT backend does not work in modules with RECURSIVE
  operators.  `Loop` and `Parser` are modules of their own for that reason: what the loop
  and the parser do step by step is proved, and what compiler and grammar compute is checked.
- `Terminates` of `DeepCopy` and of `Parser`: liveness, under fairness.
- The two sentences that the code contradicts (`callstack_result`,
  `callstack_zones`).

## Fairness and liveness

`DeepCopy` assumes `WF_vars(Next)` and `Parser` `WF_parseVars(ParseNext)`, and
`Terminates` says that they end.  Each is a single C function that nothing
interrupts: while it can go on, it does.  For `Parser` this includes that the
reader of the host returns. `DeepCopy` terminates because the table has a copy
before the elements of an object are visited; `Parser` because each loop of the
lexer sees the end of the text.

Nothing else assumes fairness.  What the library does next is up to the host
program and to the script; nothing in the code schedules, retries or waits, and
a script may loop for ever.  The other loops in the library walk finite lists
that do not change meanwhile, or that the safety properties on them cover
(`SnapshotsRestorable`, `KeyReachable`, `VisitedOnce`).

## Not modelled

- Builds without assertions.
- Reals, maps and strings as operands of intrinsics; overflow of integers; PUT
  and GET with the wrong number of operands.
- `mara_apply`, and with it what SET_ARG does to the elements of a list.
- What an importer does to an object that it got from the cache: a list that one module changes is
  changed for all that import it later, and for those that read the original it is not.
- In `Loop`, copying: SET_CAPTURE and RETURN share the object (see `Heap`).
- Map keys hashed by address (lists, maps, functions): they and their copies are different keys.
- The error zone and stack traces: entering a zone may clear it at any time, and
  the code promises no lifetime for what is in it.
- The string pool, a set of texts of which only a pointer is kept.
- `mara_reset` by the host, after which the module cache dangles.
- Debug information of lists whose address is used again.
- The core module (a loader as `Modules` has them, around list functions and
  intrinsics); printer, command line, NaN boxing, vendored code: conversions and
  output.

## Plan

Done, with proofs: arena, call stack, heap, deep copy, map, list, module loader,
environment, dispatch loop, symbol table, lexer and parser.  Done, model-checked:
compiler.

Left to model: the error zone as a zone that is cleaned up under everybody's feet,
`mara_apply` in `Heap`, and the composition of `Heap` with `Arena` and of
`Modules` with maps.

Left to prove: that the compiler makes verified code, which takes `Compiler`
without RECURSIVE operators and an induction over expressions.

## Running

    tlc -workers 2 -config Heap.cfg MCHeap      # any row of "runs" in PROJECT.json
    tlapm HeapProofs.tla                        # and so for each *Proofs module
