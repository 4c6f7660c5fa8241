# A verification project for GNU Mes

Mes is a Scheme interpreter in about 7,000 lines of simple C (`src/`), with a Scheme
library (`mes/`), a C compiler written in that Scheme (`module/mescc`) and a small C
library for the programs it compiles (`lib/`). It is the seed of a bootstrap: a mistake in
the interpreter's memory management shows up hours later as a corrupt list in a compiler.
This project models the C core and the C library in TLA+, checks the models with TLC and
proves theorems about them with TLAPS.

Paths below are relative to the root of the repository.

## 1. Inventory

| Component | State | Operations | Talks to | What is hard | What makes it correct |
|---|---|---|---|---|---|
| Cell arena and collector (`src/gc.c`) | cells from `g_cells` to `g_free`; `g_news`; registers R0–R3; seven C globals; `g_stack_array` | `make_*`, `cons`, `gc_check`, `gc`, frames | everything holds cell addresses | objects move; sharing and cycles; C constants that do not move; blocks of several cells | nothing reachable is lost or changed; each object is moved once; a collection ends; what is unreachable goes |
| Arena sizes (`gc_init`, `gc_check`, `gc_up_arena`, `gc_flip`) | `ARENA_SIZE`, `MAX_ARENA_SIZE`, `JAM_SIZE`, `GC_SAFETY`, place of the stack | start, allocate, collect, grow | environment, evaluator | one block shared by arena, new space and stack; pointer units differ between builds | the new space stays off the stack; the margin keeps a program off the limit |
| Evaluator (`src/eval-apply.c`) | R0–R3, `g_stack`, `g_continuations`, `g_macros`, M0 | `eval_apply`'s labels, `apply`, `push_cc`, call/cc, macro expansion | collector (`gc_check` at three places), modules, hash tables | one C function of gotos; nested `eval_apply` from C; the program is rewritten while it runs; continuations that outlive frames | a program does what the rules of Scheme say; a return finds its frame; tail calls leave none |
| Hash tables and symbols (`src/hash.c`, `src/symbol.c`) | a vector of association lists; `g_symbols` | ref, set!, create-handle!, remove!, clear! | vectors, structs | shadowed pairs, unused buckets, `assq` against `assoc` | a table is a finite map; a name has one symbol |
| Structs, variables, modules (`src/struct.c`, `src/variable.c`, `src/module.c`) | M0, M1, module structs | lookup, define, set-current-module | evaluator (nested `apply`) | registers clobbered by nested calls; boot order | a name is looked up in the current module first, then in its imports |
| Vectors (`src/vector.c`) | blocks of cells | make, ref, set!, conversions | collector | numbers are stored by value, everything else through a TREF | element identity; no address inside a block escapes |
| Stack reflection (`src/stack.c`) | reads `g_stack_array` | `make-stack`, `stack-ref` | evaluator | index arithmetic from the other end | a frame shows its procedure |
| Reader (`src/reader.c`) | one character of look-ahead (in the port) | `read` | ports | comments, signs, radix; the end of a word | what is written is what is read; a file is read to its end |
| Ports (`src/posix.c`) | `__stdin`, `__stdout`, `g_ports` | peek, read, unread, open, set-current-* | reader, C library | end of file, characters above 127, string ports as lists | reads yield the characters in order, once |
| Files and processes (`src/posix.c`, `lib/linux`) | the file system (outside) | mkdir, rename, delete-file, chmod, execl .. | kernel | the generic system calls of newer architectures have other operands | the directory changes as POSIX says, or an error is raised |
| Numbers (`src/math.c`) | none | `+ - * / modulo ash` .. | | width of a word, sign | equal to the mathematical operation within the word |
| Lists and strings (`src/core.c`, `src/lib.c`, `src/string.c`) | none | `append`, `equal?`, `assoc` .. | | improper lists, shared bytes, indices at the end | the operations of sequences |
| Display (`src/display.c`) | `g_depth` | display, write | ports | quoting | read gives the same datum back |
| Builtins, boot (`src/builtins.c`, `src/mes.c`) | tables | `open_boot`, registration | environment, reader | several places to look at | the file that is meant is found |
| Scheme library (`mes/module`), MesCC (`module/mescc`) | | | run by the evaluator | | |
| C library: descriptors (`lib/mes/__buffered_read.c`, `lib/linux/lseek.c` ..) | `__ungetc_buf`, `__read_cache` | read, write, lseek, open, close, dup | kernel | the library is ahead of the program | the buffers are invisible |
| C library: functions (`lib/string`, `lib/stdio`, `lib/stdlib`, `lib/posix`, `lib/mes`) | the break, `environ`, `optind` | malloc, getenv, getopt, printf, qsort .. | | bytes above 127, ends of buffers, the least number | the C standard, as far as the library goes |
| C library: machine code (`lib/linux/*-mes-*`) | registers, stack, `errno` | `_start`, system calls, `_exit`, setjmp, longjmp | kernel, compiler | fifteen builds, three calling conventions per processor | a call reaches the kernel, an answer its caller |

`PROJECT.json` repeats this list with the sources and status of each part, and lists the
hazards with the line at which each one bites.

The program has one thread. Four things take the place of interleaving. The collector may
run at any of the three `gc_check`s of `eval_apply`, between any two operations of a
Scheme program, and it moves everything. A continuation takes the program back to a stack
that it has left. A procedure given to a C function, or the nested `eval_apply` of an
error, runs in the middle of something else. And the process at the other end of a pipe
writes and closes it at any time, while a read is in progress.

## 2. Modules

```
HeapObjects       fields and objects
AbstractHeap      what the store promises: objects with an identity
Gc                cells, frames and the collector, step by step
GcRefinement      Gc implements AbstractHeap; a collection is exact
Gc_proofs         theorems about Gc
GcRefinement_proofs  Gc implements AbstractHeap
GcExact_proofs    a collection is exact
MCGc              instances of GcRefinement for TLC

GcArena           the sizes: limits, margin, jam, growth
MCGcArena         instances of GcArena for TLC
GcArena_proofs    theorems about GcArena

AbstractTable     what a hash table promises: a map, and handles of its entries
HashTable         buckets, lists of handles, symbols and walks
HashTableRefinement  HashTable implements AbstractTable
HashTable_proofs  theorems about HashTable and this refinement
OptionsLookup     a client: the option names of srfi-37
MCHashTable, MCOptionsLookup  instances for TLC

SchemeReference   what a program means
EvalApply         eval_apply: registers, frames, labels
MCEvalApply       programs, and eval_apply against what they mean

CharacterPorts    what ports promise: sequences of characters with a position
Descriptors       the buffers of the C library over the kernel's descriptors
Ports             the ports of Mes over Descriptors; they implement CharacterPorts
OperatorLemmas    lemmas about minima, maxima, restriction, free values, sequences
Ports_proofs      theorems about Ports
MCPorts           workloads for TLC

Process           what the C library's machine code promises a program
MachineCode       the instructions of each processor and compiler
Machine           a processor that runs them; it implements Process
MCMachine         the builds for TLC

Characters, Numerals          texts; numbers as text, division and shifts
Reader, Display               read, write
Arithmetic                    math.c, and numbers in scm.mes
Lists, Structs, Modules       lists and strings, vectors and records, lookup of names
Files, Environment            files, environ and exec, the boot file
CStrings, Stdio, Getopt       the C library: strings, memory, qsort, streams, printf
MCLibrary, MCFunctions        these functions on many arguments
```

### AbstractHeap

Objects have an identity and fields; a program reaches them from registers, frames and
globals. It allocates, reads and writes. `Collect` may drop any set of objects whose
complement holds the roots and is closed under references, and must change nothing else.
This is all a Scheme program needs to know.

### Gc

`mem` is the array of cells; an address counts cells from `g_cells`, so `cell_zero` is 0
and `cell_nil` is 1. A cell has a type and two words, and which word is a pointer depends
on the type, as in the code: the sets `CarTypes`/`CdrTypes` are those of `gc_loop`,
`CellcpyCar`/`CellcpyCdr` those of `gc_cellcpy`. Pointers are plain integers; nothing but
the type tells them from numbers.

| In the code | In the module |
|---|---|
| `make_cell`, `alloc` and their callers | `cons`, `make_number`, `make_string`, `make_vector_`, ... through `Allocate`/`Put` |
| `car`, `cdr`, `set_car_x`, `set_cdr_x`, `vector_ref_`, `vector_set_x_`, `vector_to_list` | actions of these names |
| assignments to `g_symbols` .. `M1` | `SetGlobal` |
| `gc_push_frame`, `gc_pop_frame` | actions of these names |
| `gc_check`, `gc`, `gc_init_news` | `gc_check` (one step) with the operator `gc_init_news` |
| the copies of `gc_`: `cell_nil` .. `g_symbol_max`, the globals, the stack | `copy_symbol`, `copy_global`, `copy_stack`, one call of `gc_copy` each |
| a round of `gc_loop` | `gc_loop_car`, `gc_loop_cdr` |
| `gc_flip`, `gc_cellcpy` and the `gc_pop_frame` of `gc` | `gc_flip` |
| `assert_msg (0, ...)` | `Stop`: `phase` says why, nothing moves again |

`gc_copy` leaves a broken heart with the new address, copies a vector with its elements
and a block of bytes as a block. `id` and `home` are history variables: they follow an
object when `gc_copy` moves it, and no guard reads them. `uses` is the set of operations
that the program at hand performs, one of the constant `Programs`; it is chosen at the
start and never changes.

Abstracted: the bytes of a string are one value in their first cell, and names of symbols
have one byte; a frame has `NRegs + 1` slots. `g_symbols` starts as a struct with a vector
of buckets, one cell per symbol instead of a list of pairs of names and symbols; the other
globals start as `()`, where the program has two more tables and the two record types.
What a global refers to is explored by assigning one of them in `gc_pairs`. `gc_loop`
treats TMACRO, TKEYWORD, TPORT, TCONTINUATION, TSYMBOL and TVALUES like types that are
modelled, and the sets name them, but no action makes one. A TVALUES cell with a null car
is therefore not explored either. Memory that nothing reads again (cells behind `g_free`
after `gc_flip`, slots below `g_stack`) is cleared, so that states that differ only there
are one.

### GcArena

The same block of memory with numbers for contents: how many cells are in use, how many
are live, where the new space and the stack begin. It has what Gc leaves out: `gc_init`
and its environment variables, the default jam and safety margin, `gc_up_arena`, the drift
of `JAM_SIZE` in `gc_flip`, and the two kinds of build. `M2_CELL_SIZE` is 1 unless
M2-Planet compiles the program, and pointers then count cells; under M2-Planet it is the
size of a cell, and pointers count bytes. So `gc_flip` compares bytes with cells there
(`PointerDistance`), and the test of `gc_` whether to grow is false in every other build
(`MayGrow`).

A program is any sequence of allocations, frames and calls of `gc_check`, with at most
`MaxLive` live cells when a collection starts and at most `MaxAlloc` cells allocated
between two calls of `gc_check`. The stack is `STACK_SIZE` slots of one word behind the
jam; a cell or a frame that would lie over the other stops the model with "overrun".
`gc_up_arena` leaves `g_stack_array` where it was; a `realloc` that moves the block stops
the model with "use after free", because `g_free` and the globals keep pointing to the old
one. `grown` is a history variable.

### AbstractTable, HashTable

AbstractTable is a map from names (keys up to `equal?`) to values, together with the
handle that a program may hold. The handle of an entry is good until its key is set anew
or removed or the table is cleared; writing through a stale one changes nothing in the
map, and a stale one never becomes good again. What each operation returns is part of the
specification (`result`).

HashTable has the bucket lists. `entry` holds the entries made so far, each a handle and
the list cell that refers to it (`acons` makes the two together); `cdr` is the next entry.
`vectors` are the bucket vectors (`hash-clear!` makes a new one), `buckets` the current
one. -1 is the `*unspecified*` of a bucket that was never used, 0 the empty list.

| In the code | In the module |
|---|---|
| `hashq_`, `hash_`, `hash_cstring` | `hash`, `hash_`; the hash of a text is a constant |
| `assq`, `assoc`, `equal2_p` | `assq`, `assoc` with `assq_p` and `equal2_p`, which differ on strings |
| `hash_set_x_`, `create_handle_x` | the same, with `Insert` |
| the procedures with `hashq_` and `hash_` | actions of these names |
| `hash_remove_x` | the same; `Kept` and `Linked` are its two loops, a bucket never used is `Crash` |
| `string_to_symbol`, `make_symbol` | `string_to_symbol` on a table of its own |
| `set-cdr!` of a handle | `set_cdr_x` |
| `hash-map->list` of `scm.mes`, `map1` | `hash_map_to_list`, `WalkOn`: one call of the procedure per step |

A table is used through one interface (`interface`): `hashq-`, `hash-`, or the internal
one of the symbols. The two public ones put a symbol in different buckets, so that a
program cannot mix them. `HandleKeys` are the keys given to `hash-create-handle!`. In
`table_map` it is a number, for which `assq` and `assoc` agree; for strings they do not,
see finding 4. Values are never compared by this code, so every entry has a value of its
own. Collections do not appear: module Gc shows that they change nothing a program sees.

### OptionsLookup

`build-options-lookup` of `mes/module/srfi/srfi-37.scm` over HashTable: a handle for the
next name, then an error or the entry of the option.

### SchemeReference, EvalApply

SchemeReference says what a program means, by the definition of the language: expressions
are trees, environments chains of frames, a continuation is the sequence of what is still
to do. It rewrites no code, copies no stack, and looks a name up when it is evaluated;
nothing in it is taken from the evaluator. `Meaning(program, Fuel)` is what the program
writes and how it ends, or "running" when `2^Fuel` steps are not enough for it.

EvalApply is the machine. `mem` is a sequence of cells that only grows; R0 to R3 are the
registers; `stack` has the frames, youngest first; `pc` is the label that `eval_apply` is
at; `calls` are the C functions that wait for a nested `eval_apply` to return; M0 and
`macros` are the variables of the initial module and `g_macros`; `output` is what the
program has written.

| In the code | In the module |
|---|---|
| a label of `eval_apply` and the branch taken there | an action: `EvalBegin`, `EvalSetX`, `IfExpr`, `MacroExpandCar`, ... |
| `push_cc`, `gc_push_frame`, `gc_pop_frame` | `Frame` and its users; `cell_vm_*` are special cells named after the label |
| `goto vm_return` and the chain of `else if`s behind it | `VmReturn`, `ReturnToC` |
| `apply_builtin` | `ApplyBuiltin`, `CallBuiltin`: the number of arguments, then eleven builtins |
| `call_lambda`, `pairlis`, `check_formals`, `check_apply` | `call_lambda`, `pairlis`, `PairlisFails`, `CallClosure`, `CallLambda`, `Apply...` |
| call/cc, the application of a TCONTINUATION, `values`, `call-with-values` | `CallCC`, `ApplyContinuation`, `CallWithValues` |
| `lookup_binding`, `expand_variable_` | `lookup_binding`; `ExpandNext`, `ExpandSublist`, `ExpandFormals`, `ExpandName`: one visit per step |
| `macro_expand`, `begin_expand` | `MacroExpand...`, `BeginExpand...`: forms are rewritten where they stand |
| `error`, `apply` from C | `calls`, `throw` looked up in M0 |

A program ends with `exit 0`, with `exit 1` (an error without a `throw`), with "unknown
continuation", the message of the assertion at the end of the chain, or "wild" if it takes
the car of a cell that has none.

### CharacterPorts, Descriptors, Ports

CharacterPorts says that a port is a sequence of characters and a reader has a position in
it. Nothing is read ahead; whoever reads, writes and seeks on one descriptor does each at
the place that it has reached.

Descriptors is the C library over a kernel with open file descriptions and a pipe.
`ungetc_buf` and `read_cache` are `__ungetc_buf` and `__read_cache`; a read is a call in
progress, one invocation of `__buffered_read` per step, with at most one system call each;
the process at the other end of the pipe may write or close between any two. Ports adds
`__stdin`, `__stdout` and the list `g_ports`.

| In the code | In the module |
|---|---|
| `__buffered_read`, `read`, `fread`, `fgetc`/`fdgetc` | `Read`, `Fread`, `Fdgetc` start a call, `BufferedRead` goes on with it |
| `fdungetc`, `write`, `lseek`, `_open3`, `close`, `dup`, `dup2` | `Fdungetc`, `Write`, `Lseek`, `Open`, `Close`, `Dup`, `Dup2`, with what each does to cache and slot |
| the procedures on the current ports and on string ports | `PeekChar`, `ReadChar`, `UnreadChar`, `WriteByte`, `OpenInputString`, `SetCurrentInputPort`, `SetCurrentOutputPort` |
| the procedures on files | `OpenInputFile`, `OpenOutputFile`, `OpenFile`, `ClosePort`, `SeekPort`, `DupPort`, `Dup2Port` |

A program keeps to some rules, which are restrictions of the model. It pushes back only
what it has just read, duplicates only descriptors that it writes to, does not open for
writing what it has open otherwise, and does not seek beyond the end; `dup`, which does
not compare what it gets with the number of buffers, finds a descriptor below it. No
signal interrupts a call. In the refinement the position of a reader is that of the
kernel, less what is in the cache, less what the call in progress has copied.

### Process, MachineCode, Machine

Process is what a C program expects of the code beneath it: `main` gets its arguments,
functions call each other and return, `setjmp` returns a second time in the function that
called it, a system call reaches the kernel with its arguments and its answer, or `errno`,
comes back.

MachineCode has `_start`, `__sys_callN`, `_sys_callN`, `_exit`, `_write`, `raise`,
`setjmp` and `longjmp` of each processor (x86, x86_64, arm, aarch64, riscv64) and compiler
(MesCC, gcc, M2-Planet) as sequences of instructions. Machine runs them: registers, words
of memory, the calling convention of the compiler. An operand that the inline assembly
leaves to gcc may sit in any register that it does not clobber, or in memory. `Settle`
forgets what nobody may read, the scratch registers and the memory below the stack
pointer. The refinement reads the stack of functions from the chain of frame pointers, and
their variables from the callee-saved registers. `armed` is a ghost: the depth of the
function that called setjmp.

### The functions

The rest of the code that is modelled has no state, or none that outlives a call, and its
modules define operators or recursive functions, one per C function, of the same name:
Reader and Display (a text is a sequence of characters, and the port is what is left of
it); Numerals and Arithmetic (words of `WordBits` bits, ints of `IntBits`; with the
division and the shifts of libtcc1, which a compiler calls for `long long`, and the body
that gcc, tcc or tcc for ARM compiles); Lists, Structs and Modules (a heap is a sequence
of cells, and a procedure returns the heap it leaves); Files (a directory, a procedure that
checks its arguments, the system call its architecture has, and a kernel, which is
external); Environment (`environ`, the search path, `execl`, and `open_boot`); CStrings
(with the allocator and `qsort`), Stdio (with `printf`) and Getopt.

MCFunctions and MCLibrary apply them to many arguments. A behaviour is one job and its
answer. What the answer should be is said without the functions that compute it: by
integers, sequences, sets of names, the text of the C standard and POSIX.

## 3. Runs

| Run | Instance | Checks | Shows |
|---|---|---|---|
| `gc_pairs` | arena 11, jam 13, one symbol, 2 registers, a frame beside the one of `gc`; `OfPairs`: pairs, `set-cdr!`, frames, one global assigned; or pairs, bindings, closures, all reads and writes of them | all invariants of Gc, `ImplementsAbstractHeap`, `CollectionEnds` | lists of two pairs in all shapes (shared, circular, garbage, referred to only from a frame or a global), cells whose other word is no pointer, over any number of collections |
| `gc_vectors` | arena 13, jam 15; vectors of length 0 to 2, numbers, strings | `ImplementsAbstractHeap`, `CollectionIsExact` | blocks of several cells, sharing of vectors, numbers by value, bytes shared with a header |
| `gc_interior` | arena 16, numbers in a vector and its list | `NoBrokenHeart`, violated | finding 1 |
| `arena_sizes` | both builds, arenas 10 and 15, maxima 10 and 40, several jams and margins, words of 8 bits | `TypeOK`, `RoomyJamKeepsTheStack`, `SafetyMarginHolds` | all sizes, with growth, doubling and wrapping |
| `arena_jam` | default jam, 20 live cells of 30 | `CollectsWithoutASecondHalf`, violated | finding 2 |
| `arena_growth` | gcc build, arena 10, maximum 40 | `OutOfMemoryOnlyAtMaximum`, violated | finding 3 |
| `table_map` | two buckets, three entries, two bucket vectors; two equal strings, one that collides with them, a number; two symbols that collide | `TypeOK`, `WalkMissesNothing`, `ImplementsAbstractTable` | shadowing, collisions, removal from the front and the middle of a bucket, stale handles, unused buckets, clearing during a walk, one symbol for a name |
| `options_names` | three option names, two of them equal | `NamesAreDistinct`, violated | finding 4 |
| `eval_programs` | every pair of forms out of definitions, closures, loops, macros, continuations, values, `apply` and `eval`; the erroneous ones; triples and quadruples that enter a continuation again, whose `throw` returns, or both, with continuations and further errors inside `throw`; programs that leave or enter a nested `eval_apply` by a continuation or at an unbound variable | `TypeOK`, `MeansWhatItSays`, `TailCallsKeepTheStack`, `BasesMatchActivations`, `QuotedDataIsConstant`, `EndsWhenItsMeaningEnds` | `eval_apply` computes what the language's rules say |
| `ports_buffers` | a pipe of 2 bytes, a file of 3, one of them 255; five workloads; read-ahead of 0 and 2 bytes; 4 buffers, 5 descriptors | `TypeOK`, `CacheIsPartOfTheFile`, `ImplementsCharacterPorts`, `ReturnsWhatIsThere` | the buffers of the C library are invisible |
| `functions` | 16-bit words, 8-bit ints; some 270,000 questions | `WrittenIsReadBack`, `ReadingGoesForward`, `NumbersAreReadBack`, `DivisionIsExact`, `LibraryMeansC`, `CallsMeanPosix`, `ListsAreSequences`, `PrintsLikeC` | the functions without state |
| `machine_builds` | fifteen builds, programs of up to three nested functions, values 0 and 5, answers 7 and -2, one or two arguments | `TypeOK`, `StackIsBalanced`, `ImplementsProcess` | the machine code of the C library |

The properties:

* `ImplementsAbstractHeap`: through every collection the program sees the abstract heap. A
  lost root, a field that is not redirected, a type missing in `gc_loop` or `gc_cellcpy`,
  a vector copied without its elements all break it.
* `CollectionIsExact`: after a collection exactly the reachable objects are left.
* `NoBrokenHeart`, `NewSpaceFitsOld`, `ScannedCellsAreRelocated`,
  `ConstantsKeepTheirAddress`: the invariants by which a stop-and-copy collector works,
  the last one peculiar to this one: C constants like `cell_nil` are never corrected and
  stay right because the symbols are copied first.
* `CollectionEnds`: `Collecting ~> ~Collecting`.
* `RoomyJamKeepsTheStack`, `SafetyMarginHolds`: what the settings must satisfy for a
  program to be safe from the overrun and from the limit.
* `ImplementsAbstractTable`: what is looked up, removed, written through handles and
  interned is what a map would hold. `hash-set!` only ever adds, so a removal that leaves
  one pair brings an old value back, and a stale handle with it.
* `WalkMissesNothing`: whatever the procedure given to `hash-map->list` does to the table,
  every entry that was there at the start and is still linked has been seen or lies ahead.
  (It may see entries that have been removed.)
* `MeansWhatItSays`: at every moment the output is a beginning of what the program should
  write, and a program that has ended has written all of it and ended as it should.
  `EndsWhenItsMeaningEnds`: the expansion of a body, which starts again from the front
  whenever it has changed something, does not go on for ever.
* `TailCallsKeepTheStack`: a loop leaves no frames. `BasesMatchActivations`: each
  `eval_apply` that C code waits for has one frame that ends it, at any depth of errors
  inside errors. There are two exceptions, which the property names, and the programs of
  `Astray` meet both: a continuation captured in other activations brings their frames and
  leaves the waiting C code as it is, and an unbound variable in a binding returns from
  `eval_apply` without taking its frame. Of these programs `MeansWhatItSays` says only that
  they write a beginning of what they should; what becomes of them is in section 5.
* `QuotedDataIsConstant`: the evaluator writes expansions into the program, but never into
  a datum that the program quotes.
* `ImplementsCharacterPorts`, `CacheIsPartOfTheFile`: a program cannot tell that its
  library has read ahead; every seek, write, close and open leaves a cache that is next in
  the file, or none. `ReturnsWhatIsThere`: a read returns once what it asks for is in the
  cache or the pipe, or the pipe is closed.
* `ImplementsProcess`, `StackIsBalanced`: what Process promises, and no piece of machine
  code leaves the stack higher or lower than the compiler expects.
* `WrittenIsReadBack`: the text that write makes of a datum is read as that datum, up to
  the next one, with white space and comments anywhere between its parts.
  `ReadingGoesForward`: of any text of up to four characters, a read takes something and
  no more than a datum. `NumbersAreReadBack`: three pairs of functions agree, for the
  least number too, if the negative of that is itself (section 5). `DivisionIsExact`:
  quotients and remainders, against integers.
* `ListsAreSequences`, `LibraryMeansC`, `CallsMeanPosix`, `PrintsLikeC`: procedures and
  functions against sequences, sets of names, the C standard and POSIX. Where the code
  does something else, listed in section 5, the arguments are kept from it, and the
  definition of the question says so.

Bounds. The arenas of the Gc runs hold the 9 static cells and two to four more, so that
most programs of three operations already collect, and the number of collections is not
bounded: there is no counter in the state. Two pairs (or a pair and a binding, two
vectors, a vector of itself) give every way in which one reference is met before or after
another: shared, circular, dead, reached from a register, a frame, a global or only
through another object. With one more cell the runs have millions of states. Two registers
are enough to build these shapes. The sets of operations in `Programs` are apart because
the product of all would not finish. The sizes of GcArena are small, but every comparison
of the code falls on both sides, and the theorems below do not depend on them.

Three entries are what the hazards of the table need: a key twice, with an entry of
another key before, between or behind them, or a handle and two later ones. Swapping the
two equal strings changes nothing, and the run uses that symmetry.

`eval_programs` runs each program to its end. `MaxCells` (600) and `Fuel` (2^9 steps) stop
those that have none, which enter a continuation without end; all others end long before.
`TailFrames` (5) is what the loop of nine rounds may have on the stack: it would have nine
more with a frame left behind. The forms of one program share variables, so that the
second one meets what the first has made or rewritten.

In `ports_buffers` a request of 1, 2 or 3 bytes is less than, as large as and more than
the read-ahead of 2; 255 is the character that looks like the end of a file; the pipe
delivers none, one or two bytes at any time. The kernel has one descriptor more than the
library has buffers, so that both limits are met. The workloads are apart because of the
number of states.

In `functions`, words of 16 bits and ints of 8 keep the proportion of the widths and put
the least number, where the code negates, within reach; numbers around zero and around
each power of two are taken. In `machine_builds` three functions are what `longjmp` needs
to leave one and return to another; -2 is an answer that is an error.

Deadlock is checked in `eval_programs`: no label is without a way on. Elsewhere it is not:
a program that met an assertion has stopped, and in the Gc runs a program may have nothing
left to do within its arena. In `table_map` it may have died in `hash-remove!`. In
`ports_buffers` a read of an open and empty pipe waits, in `machine_builds` a program
exits, and a behaviour of `functions` ends with its answer.

Fairness. `CollectionEnds` assumes weak fairness of the collector's steps: `gc` is a C
function; once called it runs to its end, and the program does not run in between.
`EndsWhenItsMeaningEnds` assumes it of `Next`: the evaluator is one thread and each of its
steps is a few statements. `ReturnsWhatIsThere` assumes it of `ReadOn` alone, a call in
progress that can go on; nothing is assumed of the program, or of the process at the other
end of the pipe.

Each property of a passing run has a mutant in `PROJECT.json`: a definition with a
plausible mistake in it (a type left out of `CdrTypes`, a broken heart not followed, a
cache kept across a seek, a remainder with the wrong sign) that makes TLC find the
property violated. Operators whose comment says "mutant" exist for that only.

## 4. Proofs

Seven modules hold theorems. Each states an inductive invariant `IInv`, proves it action by
action, one lemma each, and derives what the runs check from it. The theorems hold for all
values of the constants that satisfy the assumptions named with the constants:
`SettingsAssumption` and `ProgramAssumption` (GcArena), `SizesAssumption` and
`StaticAssumption` (Gc), `KeyAssumption`, `InterfaceAssumption`, `SymbolAssumption` and
`MarkerAssumption` (HashTable and its refinement), `DescriptorAssumption` and
`PortAssumption` (Ports). These say that sizes are natural numbers, that the static cells
fit in the arena, which keys an interface takes, that a hash is a bucket and equal texts
hash alike, that bytes are bytes. No theorem bounds an arena, a table, a file or the
length of a run.

### GcArena_proofs

* `TypeCorrect`: `Spec => []TypeOK`.
* `StackIsKept`: `Spec => []RoomyJamKeepsTheStack`. With
  `ARENA_SIZE + MaxLive + 2 <= stack_at` nothing is ever written over the stack.
* `SafetySuffices`: `Spec => []SafetyMarginHolds`. If `MaxAlloc <= GC_SAFETY` and
  `MaxLive + 1 + MaxAlloc <= ARENA_SIZE`, the limit is never met, in growing arenas, too.

The inductive invariant adds three facts to the properties. `CopyBounds`: while it copies,
the cells copied and those still to be copied are at most the live cells and at most the
cells of the old space; without it nothing bounds `g_free` during a collection. `InArena`:
the program's cells, and the place where the new space starts, are in the arena. `Margin`:
after each step of the program the cells it may still allocate before the next `gc_check`
fit in the arena; it is what a `gc_check` that does not collect establishes, and what
allocations use up.

### Gc_proofs

* `TypeCorrect`, `RelocatesWhatItScans` (`ScannedCellsAreRelocated`),
  `SymbolsKeepTheirAddress` (`ConstantsKeepTheirAddress`): for every program.
* `MeetsNoBrokenHeart` (`NoBrokenHeart`) and `CopiesFit` (`NewSpaceFitsOld`): if not
  `Interior`, that is, for programs that make no pair refer into a vector. `gc_interior`
  shows that the first one is false for those that do (finding 1).

While the program runs (`Run`), every object is whole (`Shaped`: its cells follow it and
belong to no other object), every word that its type makes a reference leads to an object
(`Sound`), and each symbol is at its address. While the collector runs (`Collection`) the
memory has two halves. Below `g_news` a cell is still sound within the old space, or a
broken heart (`Heart`) that leads to a copy of the same object, of the same size. Above it
a word refers to the new space if `gc_loop` has been there and to the old one if not
(`NewCell`, with `CarDone` for a scan that is between a car and its cdr); a root refers to
the new space once it has been copied (`RootDone`). `SymbolsInOrder` and `OnlySymbols`
say that the first copies are the symbols, one after the other. That a copied object is
whole again, that a heart's neighbours are not overwritten by the copy of another object,
and that relocating one word leaves all others sound are what each lemma has to show.

`CopiesFit` needs to count. `Fits` says that the cells covered by broken hearts
(`Covered`) are as many as the cells of the new space: hearts cover disjoint extents
because no object's cells belong to another one, so each copy adds as many covered cells
as copied ones, and covered cells lie below `g_news`.

### GcRefinement_proofs

* `HeapIsAbstract`: if not `Interior`, `Spec => ImplementsAbstractHeap`, the refinement,
  for every size, number of symbols and registers, and every choice of programs. A program
  cannot tell when or how often its objects were moved.

The mapping needs more than `IInv`. `AtHome`: an object has one identity and one home,
where its first cell is, or where the broken heart there leads; without it a reference and
its relocated form need not be the same object. `Saved`: the frame that `gc` has pushed
holds what the registers held, so that `gc_flip`, which pops it, gives the program back its
registers. `RInv` says both where they hold.

What an object says is read off its cells by its type (`ContentsOf`), so two blocks of cells
say the same if they have the same types and plain words and their references have the same
identities (`SameObject`, `SameContents`). Each operation of the program is shown to be the
operation of the abstract heap with its name. A call of `gc_copy` moves one object and
leaves what every identity says as it was (`CopySeen`); a round of `gc_loop` redirects one
word to the same object (`LoopSeen`): both are stutters. `gc_flip` is `Collect`: the objects
kept are those in the new space (`FlippedObjects`), they say what they said, frames and
registers are the same (`FlippedRoots`), and since every reference in the new space leads to
an object there, the kept set is closed and holds the roots (`FlipSeen`). When the collector
stops instead, nothing changes. For programs that are `Interior` the collector may stop with
a broken heart (finding 1), and a pair may refer to what is not the first cell of an object;
nothing is proved of them.

### GcExact_proofs

* `CollectionsAreExact`: if not `Interior`, `Spec => CollectionIsExact`. `HeapIsAbstract`
  says that a collection keeps what can be reached; this says that it keeps nothing else,
  so no garbage survives a single collection.

An object is in the new space for one of two reasons: a root led to it, or a cell that
`gc_loop` scanned did. So the invariant (`XInv`) says that each object that has been copied
is in every closed set of objects that holds the roots (`OnlyReached`, `Inside`), and that
each cell of the new space belongs to such an object (`Owned`): what a scanned cell refers
to, an object that can be reached refers to (`ScanReached`). That needs to know that the
cells in a vector are no objects of their own (`NoEntries`). And what `gc_` takes from the
stack must be something that the abstract heap calls a root (`RootReached`): the stack
always holds whole frames (`Aligned`), and the procedure in the frame that `gc` itself has
pushed, which is not one of the program's, is a symbol (`SavedConstant`).

`CollectionIsExact` computes what can be reached with a recursive function, in as many
steps as there are objects. `ReachExists` shows that the function is well defined,
`ReachSteps` unfolds it, and `ReachCloses` that this many steps suffice: with each step the
set grows by an object or is already closed. Where others would use induction, they take
the least number that goes wrong.

### HashTable_proofs

* `TypeCorrect`: buckets, lists and handles lead to entries, and a list has entries of one
  bucket and gets ever older, so that every walk along it ends.
* `WalkIsComplete`: `Spec => []WalkMissesNothing`.
* `IsATable`: `HandlesAgree => (Spec => ImplementsAbstractTable)`, the refinement. Every
  step of the bucket lists is a step of the map, or a stutter.

`EntriesOK` and `HeadsOK` say what a list is; the lists fall in the order in which entries
were made, also those that `hash-remove!` has relinked in place. `Apart`: no entry is in
the table and in a vector that was cleared, so that relinking the table does not disturb a
list that a walk still follows. `Seen` says which entries a walk has seen and which lie
before it. Facts about lists are proved without induction over the list: were one false,
there would be a least entry that is a counterexample (`Descent`, from the least element
of a set of natural numbers).

For the refinement, `Find` is shown to be the youngest entry of the key's name in the
bucket (`FindsNames`), so that an insertion replaces what the map has at one name and a
removal uncovers the entry before, and nothing else. A stale handle stays stale, because a
handle is only younger than what was found when it was made. A value is not older than its
entry, so that a symbol that is interned is different from all before. `HandlesAgree` says
that `hash-create-handle!` is only used with keys that `assq` tells apart exactly as
`equal?` does. For strings it is false, and so is the refinement (finding 4,
`options_names`).

### Ports_proofs

* `TypeCorrect`: `Spec => []TypeOK`.
* `CachesAreCoherent`: `Spec => []CacheIsPartOfTheFile`.
* `PortsAreCharacterPorts`: `Spec => ImplementsCharacterPorts`, the refinement. A program
  sees the position its own calls have reached, and never what was read ahead.

`Sharing` says that only writers share a description or a file, which the rules for
programs and the search for a free descriptor establish; without it a write through one
descriptor would change what another has cached. `Ahead` is the property, byte by byte.
`PushedBack` says that what `unread-char` gets is a byte or the end of the file, which
keeps the slots typed.

The refinement needs to know more of a read in progress (`JInv`, which every step keeps
where `IInv` holds before and after). `Copied`: what the call has copied is the part of the
file before the cache, and with the cache is not longer than the kernel's offset, so that
the abstract position, which is the offset less both, stays where the call began until it
ends. `Progress`: the call asks for at least one byte. `Emptied`: a slot of a descriptor
that is not open is empty; open clears only the slots above 2. `View` is what the
mapping shows of a descriptor. Descriptors that share a description show the same, because
nothing is read ahead of writers (`ShownHolds`), so that it does not matter which one the
mapping chooses, and a step is known by what it does to the views. An invocation of
`__buffered_read` that ends the call is the abstract `Answer`, with as many bytes as are
asked for or as are left; one that only fills the cache is a stutter. A read of an empty
pipe ends only when the pipe is closed. The theorem is about safety: that a read returns
when it can is `ReturnsWhatIsThere`, and is model-checked.

### Only model-checked

Liveness (`CollectionEnds`, `EndsWhenItsMeaningEnds`, `ReturnsWhatIsThere`), as
everything that needs ENABLED, is out of the prover's reach; so is what a recursive
definition computes for every input, which needs an induction over data, and anything
about a module that reaches a RECURSIVE operator or Bitwise. These are the properties of
`functions` and `eval_programs`: the modules of the functions are recursive, and
SchemeReference, against which the evaluator is checked, is, too. `ImplementsProcess` and
`StackIsBalanced` are not proved: they would need the execution of fifteen instruction
sequences.

## 5. Findings

1. `vector->list` of a vector of numbers or characters (`src/vector.c:127`) makes pairs
   that refer to cells inside the vector. If a collection copies them before the vector,
   `gc_loop` stops with "broken heart".
2. The jam is a tenth of the arena by default (`src/gc.c:74`), and `gc_copy` does not look
   where the stack begins: more live data than the jam and the free part of the arena is
   copied over the stack.
3. The arena never grows in a build by gcc (`src/gc.c:607`), though the manual describes
   `MES_ARENA` as its initial and `MES_MAX_ARENA` as its maximum size.
4. `hash-create-handle!` finds a string key by its address (`src/hash.c:142`), so that
   srfi-37, which expects an `equal?` table, does not notice that an option name is given
   twice (`mes/module/srfi/srfi-37.scm:89-91`).

The first three were reproduced with a `mes` built by gcc: the assertion (with
`MES_ARENA=20000`), a segmentation fault (`MES_ARENA=30000`), and "out of memory"
(`MES_ARENA=30000 MES_JAM=30000 MES_MAX_ARENA=10000000`). Of the fourth, the two handles
for equal strings were reproduced, and so was the segmentation fault of `hash-remove!` on
a bucket never used, which the model has as `Crash` and no document denies.

### Observations

What follows was met while reading and modelling. Except for what is said of `Astray`, no
run shows it: the models say what the code does, and the properties or their arguments are
kept from these cases. Most have no document that says otherwise.

Evaluator. The value of an operator that is bound is written into the code
(`eval-apply.c:622-635`), so that code already run does not see a later `set!` or `define`
of it. An operator is evaluated twice, by `eval_check_func` and by `apply2`. `core:eval`
and the expansion of a macro change a datum that they are given when it is a quoted
constant. `apply_builtin` passes the second argument twice for TVALUES. `error` overwrites
R2 before `check_apply` reads it. call/cc and `core:apply` are no tail calls. `pairlis`
runs before `check_formals` when the operator is a lambda expression. A `(begin)` of no
forms at the end of a body makes the machine take the cdr of `()`.

Activations. The application of a continuation (`eval-apply.c:543-556`) says nothing to
the C functions that wait for a nested `eval_apply`. When `throw`, which `error` calls by
`apply` (`core.c:150-154`), is left by a continuation of the program, as `catch` always
leaves it (`catch.mes:36-60`), the rest of the program runs in the nested `eval_apply`;
its end is taken for the end of `throw`, and the C function that met the error goes on, on
an empty stack, up to `assert_msg (0, "eval/apply unknown continuation")`
(`eval-apply.c:504`). A continuation captured in a `throw` that has returned still has the
frame that ends that `throw`: entered later, it ends the program there. An unbound
variable in a binding, when `throw` returns, returns from all of `eval_apply` and leaves
its frame behind, and the program ends in the middle with success. A `mes` built by gcc
does all three on the programs of `Astray`, with the output of the model.

Reader and writer. A carriage return or vertical tab at top level is read as the number 0
for ever, since it is pushed back each time: a file with CRLF is never read to its end.
`()` or a stray `)` at top level ends the file. A line comment that the end of the file
ends is an error, an open block comment never ends, a string that is not closed stops at
an assertion. `#;x` before `)` takes the parenthesis. `+1b` and `-5a` lose their sign.
`reader.c:290` has 'F' to 'F' where 'A' to 'F' is meant. Control characters without a
name, and bytes above 127, are written without a backslash (`display.c:54-56`) and not
read back. `( . )` and `(a . )` take the car of `()`; `#(a . b)` makes a vector of an
improper list. `g_buf` has no bound for a word (`reader.c:88`, `106`). `g_depth` is set
anew by each car and never cuts a list off.

Numbers. `(- n)` of the least number overflows (`math.c:115`), which C leaves undefined;
the model has it wrap, as in two's complement. Then `number->string` is right also for that
number, since `scm.mes:330` takes the absolute value of each digit. HACKING:74-77 says
otherwise of a build by gcc for x86 (the text it quotes, "-./,),(-*,(", is what the digits
would be without that), and `tests/srfi-13.test:141` still expects one failure on x86.
Builds for x86 and x86_64 by gcc 12, with and without optimisation, write the number right.
`divide` by a negative number divides by its two's complement, and gives 0
(`math.c:174`); `modulo` by one has the wrong sign; so has `remainder`, and `odd?` of
negative odd numbers is false (`scm.mes:406`). `(string->number "-1.5")` loses the sign.
`abtol` counts in int. `__mesabi_ldiv` raises for the least long as divisor. `__ashrdi3`
compiled by tcc halves in a loop, so that -1 shifted to the right is 0, and by gcc -1
(`lib/libtcc1.c:185-190`). `__udivdi3` has an answer for a divisor of zero, 0, and
`__umoddi3` has none.

Printing and scanning. `vfprintf` always returns 0; `%c` ignores a width and is not
counted; "% d" is not supported and runs past the format; "%05d" of -3 is "000-3"; a
precision shorter than a number cuts it off. `vsnprintf` compares the width instead of the
precision with the length of a string, and leaves out the NUL when the text does not fit.
`vfscanf` reads the second number of "%d,%d" as 0.

Environment. `setenv` ignores `overwrite_p` and writes a NUL one byte behind the entry it
has allocated; `unsetenv` skips the entry behind the one it removes; `search_path` reads
on behind the last directory and needs a PATH; an empty element means "/". `execl` leaves
out the given `argv[0]`.

Strings and memory. `string-ref` gives a byte above 127 as a negative character where char
is signed (`string.c:235-236`), and `string->list` gives the byte. `string-ref` and
`string-set!` accept the length as an index, and a symbol shares its bytes with the string
it was made of. `strpbrk` returns the end instead of NULL; `strrchr` of NUL in an empty
string returns NULL; `memchr` and `strchr` never find bytes above 127 given as unsigned;
`iscntrl(127)` is false; a "0x" makes `strtol` read base 16 whatever base is given;
`abtod` loses the sign of "-0.5", `dtoab` the zeros before a fraction. `realloc` reads as
many bytes of the old block as the new one has. `malloc` never returns NULL, as brk of
Linux answers with the break it has, and `free` does nothing. `qsort` leaves {5, 2, 2}
unsorted (`qsort.c:57-58`), though NEWS:362 says that duplicates are handled; its test has
two equal elements only. `getopt` neither permutes nor takes "--" for the end of options,
against its comment (`getopt.c:75`, `87-88`).

Files. On aarch64 and riscv64 `stat` and `lstat` have each other's flags, and `link` gives
`linkat` four of five arguments. `dup2` by dup3 fails for equal descriptors. `delete-file`
and `chmod` ignore failures. `fopen` does not truncate for "w+", creates a missing file
for "r+", and opens a missing file for "a" without O_APPEND. `atexit` keeps one function.
`read` ignores a character pushed back, and an lseek that fails loses the cache.

Data. A bytevector made without a fill is not initialised. An index of a vector or struct
is compared with the length, but not with 0 (`vector.c:63`, `struct.c:61`). The type of
builtins has their name at the place that `builtin_p` looks at, and passes for one.
`primitive-load` does not close the file that it opens (`eval-apply.c:1046`). `memq` and
`assq` compare the words of characters and numbers without their types, and a keyword is
found by `assq` where a string or symbol of the same name is (`core.c:239`,
`string.c:68`). `module-variable` goes round for ever when modules use one another.
`make-stack` leaves out the innermost frame (`stack.c:51-55`).

Machine code. The fourth argument of a system call goes to r2 instead of r3
(`lib/linux/arm-mes-m2/syscall.c:67`, `78-79`). `_write` by gcc on arm puts the size in r3
instead of r2 (`arm-mes-gcc/_write.c:35`). `longjmp` by MesCC on riscv64 returns the place
it jumps to instead of a value, where the test `lib/tests/setjmp/80-setjmp.c:40` says 1.
`setjmp` by gcc on x86_64 stores its own frame pointer. `longjmp` by gcc on x86 and x86_64
leaves ebx, esi and edi as they are. The `jmp_buf` of riscv64 is smaller than what setjmp
by gcc stores. The start by gcc on arm and x86_64 calls `main` after `__init_io` without
loading its arguments again, and the one on riscv64 calls `__init_io` without arguments.
`setjmp` by gcc on arm is declared unsupported by a warning. `MCMachine` leaves these
functions of these builds out, and those that a build does not have.

MesCC, read only: on i386 a signed shift to the right is `shr` (`as.scm:353-357`), `!=`
loses AH (`as.scm:106-109`), and labels are made from the length of a text, so that two
may be equal.

## 6. What is next

1. Proofs: `BasesMatchActivations` of the evaluator.
2. A collection in the middle of an evaluation: EvalApply over AbstractHeap with the C
   locals that live across `gc_check` and across calls back into Scheme.
3. Growth of the arena with a block that moves, cell by cell, for M2-Planet builds.
4. The expander's branch of `begin_expand` and more than one module.

## 7. Not modelled

* MesCC (`module/mescc`), a large sequential translation whose correctness is a matter of
  its output; the Scheme library apart from what Arithmetic, HashTable and OptionsLookup
  have of it: it is run by the evaluator.
* Of the evaluator: a collection inside an evaluation, the branch for an expander of
  syntax-case (`eval-apply.c:853-874`), `primitive-load`, and builtins other than the
  eleven of `BuiltinNames` and the procedures that `eval_apply` knows by itself.
* Of `src/posix.c`: fork, waitpid, time, isatty, uname; of `src/string.c`: `read-string`;
  of `src/display.c`: closures, macros, ports, structs, circular lists. The table of
  builtins and the rest of `src/mes.c` are executed once, `gc_dump_*` and statistics debug
  output. The collection `mes.c` does at exit to print statistics is an ordinary
  collection with growth disabled.
* Of the C library: signals, processes, time, terminals, floating point beyond the
  observations above, the functions that do nothing, the libraries for GNU Mach and
  FreeBSD, and the variants for tcc of the machine code.
* Build scripts, stage0, `scaffold` and tests.

`PROJECT.json` has the same by component, and a note at each hazard without a property.
