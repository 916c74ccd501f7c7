# Tsuki in TLA+

Tsuki (`src/`) is Lua 5.4 rewritten in Rust, started as a mechanical translation
of the C code. What is new in it, and what no Lua test suite exercises, is the
incremental collector that runs beside Rust values with destructors, strong
references held from Rust, coroutines that are Rust futures, and a JIT compiler
that repeats every instruction of the interpreter in generated code. This directory
holds specifications of these parts, their model-checking runs and the proofs
about them. Paths below are relative to the root of the repository's tree
(`src/src/gc/mod.rs` is the file `gc/mod.rs` of the crate).

The source says of itself (`src/README.md:18`): "All public API of Tsuki should
provide 100% safety as long as you don't use unsafe API incorrectly." Most of
the properties are what this sentence means for one component.

## Inventory

| Component | State | Operations | What is hard | What makes it correct |
|---|---|---|---|---|
| Garbage collector, `gc/` | phase, colours, white bits, gray lists, list of all objects, sweep cell and marks, debt, strong references | `alloc`, `step`, `mark`, `barrier`, `barrier_back`, `resurrect`, `Ref::new`/drop, `Drop for Gc` | every allocation may run one step between two instructions; the mutator acts between any two steps | nothing referenced is freed, garbage is freed within a cycle, a sweep ends, counters never go below zero |
| Tables, `table/` | array, nodes, metatable, flags | get, set, `luaH_newkey`, rehash, `luaH_getn`, `next` | weak modes, emptied nodes that keep a key, the hint in `alimit` | lookups agree with the entries; no entry lost by a rehash; `next` visits each once |
| Closures and upvalues, `lfunc.rs`, `function/` | open upvalues of a thread, `twups`, to-be-closed list | `luaF_findupval`, `luaF_closeupval`, `luaF_newtbcupval`, `luaF_close` | slots written without a barrier; closing while a cycle marks | one upvalue per slot; closing moves the value and the duty of a barrier |
| Strings, `string/` | chains of interned strings | `Str::new`, `grow`, removal by the sweep | a dead string is found before it is swept | equal contents, one live string |
| Userdata, `userdata/` | Rust value, properties, metatable | create, `set`, drop | the value's `Drop` runs in the sweep and may allocate | references traced, dropped once |
| Threads, `thread/`, `ldo.rs`, `lstate.rs` | Lua stack, CallInfo list, pending future, `yielding` | `set_entry`, `call`, `async_call`, `resume`, `async_resume`, yields, errors | nesting on one stack of what runs to its end, yields, and may be dropped by an executor | a frame that somebody will return to stays; one resumption at a time |
| Calls and errors, `ldo.rs`, `lfunc.rs`, `lapi.rs` | size and top of the stack, frames, to-be-closed list | `luaD_call`, `luaD_precall`, `luaD_poscall`, `luaD_growstack`, `luaD_shrinkstack`, `luaF_close`, `luaD_closeprotected` | closing methods run in the middle of a return or an error, may fail, and push where results or registers may lie | each variable closed once and in order; nothing in use overwritten; a call leaves its caller's frames alone |
| Interpreter, `vm/interp/`, `vm/mod.rs` | `base`, `ra`, instruction pointer; `pc` and `top` in the frame | one arm of `run` per opcode, `luaV_*` | every helper may move the stack, fail, collect or suspend; integer edges | no pointer from before a move; `pc` and `top` true at every helper |
| Lua state, `lib.rs`, `registry/`, `module/`, `ty/` | registry, module lock | `new`, `use_module`, `set_registry` | nested and failing modules | the lock is released |
| Contexts, `context/` | arguments and results on the stack | `arg`, `push`, `call` | moves of the stack | indices stay in range |
| Values and numbers, `value/`, `number/`, `lobject.rs`, `ltm.rs` | none | conversions | rounding, ranges | exactness |
| Collections, `collections/` | a `RefCell` around a map | `insert`, `remove`, iteration | the collector traverses the map from inside an `insert` | no traversal meets a borrow |
| Lexer, parser, code generator | token stream, `FuncState`, jump lists | one function per production | jump chains, `goto` over blocks | every jump patched once |
| Debug information, `ldebug.rs` | none | line tables, names | none | wording |
| JIT, `vm/jit/` | generated code, `State.next_block`, the future in `CallInfo` | one method of `Emitter` per opcode, runtime functions, `Invoker::poll` | a second implementation of every arm; a pending call leaves the native frame and must come back behind it | the same effects as the interpreter, in the same order |
| Libraries, `builtin/` | none of their own but the generator of `math.random` | library functions | `table.sort` with inconsistent order, pattern matching | terminate in range |
| Remaining C translation, `l*lib.rs` | files, buffers | library functions | input and output | not looked at |
| Macros, `macros/` | none | derive at compile time | none | none |

How they interact. Every allocation links a new object into the collector's list
and may call `Gc::step`; the handlers of the interpreter, `Context`, `Thread` and
`Table` do the same after they are done. The collector reads tables, threads,
closures and userdata through `mark_one_gray` and rewrites weak tables and the
lists of upvalues in its atomic phase; its sweep runs destructors: `Thread::drop`
closes upvalues, `Str` leaves the string table, a userdata drops a Rust value
that may call back into the state. A store into an object calls `barrier` or
`barrier_back`. Coroutines share nothing but the heap, one flag per thread
(`pending`) and the executor that polls a future at the bottom of the Rust stack.
Both engines keep raw pointers into the stack of their thread between calls of
helpers that may reallocate it; a helper reads the position (`CallInfo.pc`) and
the end of the live registers (`Thread.top`) that the engine left for it.

`PROJECT.json` lists the hazards at their lines.

## Modules

| Module | Models | Depends on |
|---|---|---|
| `Gc` | the marking collector, the barriers and the program's operations on the heap | |
| `GcCycle` | what one cycle achieves: `Gc` with a history of what was garbage when it began | `Gc` |
| `Sweep` | list of all objects, sweep cell, sweep marks, white bits, debt | |
| `Coroutine` | threads as coroutines: calls, resumptions, yields, futures | |
| `RefSets` | what references held from Rust promise: held objects are roots | |
| `RefList` | the two lists of held objects, as pointers | `RefSets` |
| `TableMap` | what a table promises: a map, and traversals that return each entry once | |
| `Table` | the layout of a table: array, hint, nodes | `TableMap` |
| `Unwind` | calls on one stack: frames, growth, to-be-closed variables, errors | |
| `Micro` | the steps one Lua instruction consists of | |
| `Interp` | the interpreter: the steps of each arm of `run` | `Micro` |
| `Jit` | the compiler: the steps of the code each method of `Emitter` generates | `Micro` |
| `Meaning` | what both engines promise of one instruction: its effects, in order | `Interp` |
| `Engine` | a frame executed by either engine while the stack moves, helpers fail and the thread is suspended | `Jit`, `Interp`, `Meaning` |
| `GcSafety`, `GcLists` | theorems about `Gc` | `Gc` |
| `GcCycleProofs` | theorems about `GcCycle` | `GcCycle`, `GcLists` |
| `SweepProofs` | theorems about `Sweep` | `Sweep` |
| `RefListProofs` | theorems about `RefList` | `RefList` |
| `TableProofs` | theorems about `Table` | `Table`, `TableMap` |
| `CoroutineProofs` | theorems about `Coroutine` | `Coroutine` |
| `UnwindProofs` | theorems about `Unwind` | `Unwind` |
| `MCGc`, `MCGcCycle`, `MCSweep`, `MCCoroutine`, `MCRefList`, `MCTable`, `MCEngine` | instances for TLC | |

Planned, most important first:

1. `Teardown`: `Drop for Gc` frees the newest object first, while the pending
   future of a thread may own references to newer objects.
2. `luaE_shrinkCI` and yields out of a call in `Unwind`.
3. `GcPace`: whether a cycle ends when the program allocates while it marks.
4. `StringTable`: chains, growth in place, removal of dead strings.
5. `Arith`, `Loops`: comparison, division, shifts and integer loops on small
   words, against mathematical definitions.
6. `Collections`, `Modules`, `CodeAllocator`, jump lists of `lcode`,
   `table.sort` and the string matcher.
7. `Heap`: the abstract promise (reachable objects exist, entries of strong
   tables stay) that `Gc` implements, with `GcCycle` as its progress side.

Theorem planned: the refinement of `Heap`.

### Gc

An object is an address of some kind. Its state is split by what the collector
tells apart: `mark`, `strong` (references that are not table entries), `ents`
(the entries of a table, those set to nil included, because an emptied node keeps
its key), `mode` (what `__mode` would say if this table were a metatable) and
`owner` (the thread whose stack an open upvalue points into). The white bits are
named by whether they are current, so the flip of `currentwhite` renames "white"
to "dead". Linked lists are sets: an action may take any element, which includes
the order of the code.

`Gc::step` is one action per state and kind of object: `StartCycle` (state 8),
`TraverseStrongTable` ... `TraverseThread` (`mark_one_gray` and what it calls),
`GrayEmpty`, `FinishMarking` (state 1: `finish_marking` in the order of the code,
with its convergence of ephemerons, then the flip), `SweepSurvivor`, `Free` and
`SweepDone` (state 3). Calls nested in a handler are part of its action: the
objects that `Gc::mark` reaches by itself (`Touched`), what `is_cleared` marks,
the upvalues that `Thread::drop` closes in `Free`.

The program's actions are the operations with an effect on the heap: `Alloc`,
`Pin`/`Unpin` (`Ref`), `Intern` (`Str::new` of known contents), `StoreNew`,
`StoreOld`, `Erase`, `SetMetatable`, `RemoveMetatable`, `SetMode`,
`AddReference`, `Push`, `Pop`, `Capture`, `SetUpval`, `CloseUpval`. Their
operands are whatever the program could have loaded (`Accessible`).

`GcCycle` adds `doomed`, the garbage of the moment a cycle began.

### Sweep

`all` is the list from its head, `sweep` the element whose `next` field the code
points to, `parked` the sweep mark kept for the next cycle. Which objects a
traversal marks is arbitrary, so every property holds for each choice that `Gc`
makes. `SweepStep` is the loop of `Gc::sweep` with `Gc::free`: it visits until
the end, `Batch` objects or `Frees` frees, unlinks the dead, recolours the rest,
and runs the `Drop` of userdata, which may allocate at the head. `debt` and
`survivors` are counted where the code counts. `fresh` is a history variable.

### TableMap and Table

`t` is the table as a record: `lim` and `real` are `alimit` and bit 7 of `flags`,
`arr` the array as it was allocated, `node` the vector of nodes (empty for the
dummy node) with `next` as an index, `free` is `lastfree`. A key is an integer or
the address of an object; a node whose key is `dead` keeps the address. The
operators are the functions of `legacy.rs`, from a table to a table: `Get`, `Put`,
`NewKey` with `Evict` and `Behind` (a colliding entry makes way for one at its
main position, or the new one goes to a free node), `Resize`, `Rehash`, `Length`.
Where the code loops, the operator is a recursive function or a set: `Without` is
the bit test of `luaH_getint`, `Resize` inserts what is in `Used` position by position,
`SizeFor` is the size that the loop of `computesizes` ends with.
The actions are what a program does: constructors, stores, reads and lengths,
which may move the hint in `alimit`, and traversals; `Clear` is the collector
passing by. `TableMap` is the promise: a map, whose traversals return each present
key once and end when there is none left. A traversal during which a field is
added is not followed, as its result is undefined.

### RefSets and RefList

`RefSets` is the promise: an object that has a `Ref` when a cycle starts, or when
its marking ends, is a root. `RefList` is how the code keeps it. A cell is
`Gc.refs`, `Gc.marked_refs` or the `refp` of an object; `next` is what a cell
holds and `refn` the cell an object believes to be in. `Link` is `Ref::new` of an
object without references, `Count` every other creation or clone, `Uncount` and
`Unlink` are `Object::unref`, `StartCycle` moves `refs` to `marked_refs`, and
`FinishMarking` walks `refs` and appends the other list to its last cell (`Ends`).
What a walk meets, `Chain`, is the smallest set that contains what the head points
to and is closed under `next`; it is written without recursion so that it can be
reasoned about. `roots` is a history variable: what the walks have marked.

### Coroutine

A thread is its list of frames that matter, the flag and the leaf of its pending
future, its entry point and `yielding`. `rust` is the Rust stack, which thread
each level drives and from which frame; `awaiting` holds the futures between two
polls. `Start`, `Resume`, `ResumeDropped`, `ResumeReady` and `ResumeUnready` are
the paths through `Thread::resume` and `Thread::async_resume`; `Yield`, `Await`,
`Wake` and `DropFuture` are what the invokers of `ldo.rs` and an executor do with
a future; `Return` is the end of whatever runs, by a value or an error.

### Unwind

One thread, from `Thread::call` to its return. A slot is a number, so a
reallocation changes nothing but `size`, the position of `stack_last`. `ci` is the
list of frames in use; `calls` the `luaD_call`s on the Rust stack, each with the
height of the list it must restore and where it is: running, or inside a
`luaF_close` that came from `OP_CLOSE`, from `OP_RETURN` or from
`luaD_closeprotected`. `tbclist` and `tbcdelta` are the fields of the code,
with the dummy nodes that bridge a gap wider than the field, `declared` the set
the list should be; `Below` is the loop of `poptbclist`, as the last place in steps of
`MaxDelta` below a node that holds no dummy. `lost` collects the slots in use that something else was
written to.

`Start`, `CallLua`, `TailCall`, `CallMetamethod` and `CallPcall` are the calls, which
grow the stack or fail; `VarargPrep` moves the frame of a vararg function above its
arguments (`delta`) and `Vararg` copies them out again; `Return` and `Finish` with `Move` are `OP_RETURN`, `luaD_poscall` and
`moveresults`; `Tbc`, `TbcNil` and `Capture` open what `Close` (`OP_CLOSE`), `Return`
and `Raise` must close; `CloseNext` is one turn of the loop in `luaF_close` with a
closing method in Lua, whose frames are then ordinary ones, `CloseNextFp` one with
a method in Rust that fails or not, and `CloseDone` the end of the loop and what
follows it at each of the three places. `Collect` is a collector step at an
instruction that creates an object: the atomic phase shrinks the stack and clears it
above `top`.

A Lua function does what the compiler could have made of one: it uses registers in
order, leaves a block that has something to close through `OP_CLOSE`, and returns
with the bit that asks for `luaF_close`. That the compiler keeps this discipline
is assumed. The host function that starts a call does not fail in between.

### Micro, Interp, Jit, Meaning and Engine

An instruction is a sequence of steps (`Micro`): taking pointers to registers
from `base`, writing through such a pointer, storing `pc` or `top` in the frame,
loading `base` again, calling a helper, a raw lookup, an effect on the heap such as
a barrier, an error, and the jump at the end. A value is symbolic: what was
copied from where, or which function computed it.

`Interp` has one operator per arm of `run`, `op_ADD` for `OP_ADD`; `Jit` has one per
method of `Emitter`, with its name. Each maps the operands' classes to the steps
on the path taken: whether a value is an integer, a float with or without an
exact integer value or no number, whether a lookup hits, a barrier is needed, a
divisor is zero, what a condition yields, how many values are wanted. The
operators of a shape that many methods share are written once.

`Engine` runs one instruction after the other on either engine, a step at a time.
`base` is stale as soon as a helper has moved the stack (`StackMoves`), and `live`
are the registers a pointer of which is still good. `CallHelper` may fail where
the helper returns an error, and suspend where it is awaited: `Suspend` leaves,
in the JIT, a number in `next_block` and a future in the union `CallInfo.pending_future`,
`Resume` is the block that loads `base` and polls the future again. While the
thread is suspended anything may run on its stack, so that it has moved.

`Meaning` forgets pointers, suspensions and resume blocks: it is the list of
observable effects of an arm, each with the `pc` and `top` it finds in the frame, which
only a failing helper may cut short. That `Engine` implements it says that the two
engines agree, and that no way through moves and suspensions loses or repeats an
effect. Five opcodes are `todo!()` in the compiler (`Todo`) and are left to the
interpreter.

## Runs

| Run | Question | Answer |
|---|---|---|
| `GcTables` | do both barriers keep tables, functions and userdata safe, with emptied nodes whose keys die? | yes |
| `GcWeak` | is what the atomic phase clears right for each weak mode, with strings and changing modes? | yes |
| `GcEphemeron` | the same when one weak entry's value is another one's key, and is what was garbage when a cycle began freed by its end? | yes |
| `GcUpvals` | open and closed upvalues of a coroutine that may die: are they safe, and is the garbage freed? | yes |
| `GcRetune` | may a fully weak table get another metatable during a cycle? | no, see Findings |
| `Table` | is the layout a map, its length a border, and does `next` return every entry once? | yes |
| `Sweep` | list, cell, marks, colours and counters over several cycles, and does a sweep end while the program allocates? | right, yes |
| `RefList` | do the spliced lists know of each held object, and only of those? | yes |
| `Coroutines` | frames, borrow, status and `yielding` for three threads, futures dropped at any time | right |
| `Unwind` | is everything closed once and in order, on every way out of a call, on a stack that grows and overflows, without overwriting what is in use? | yes |
| `Engines` | do interpreter and JIT have the same effects for every opcode and operand class, whatever moves, fails or suspends? | yes, but for two opcodes with negative integers |
| `EngineModulo` | does the JIT's modulo by a constant round like the interpreter's? | no, see Findings |

`GcWeak` and `GcUpvals` check `GcInv`, of which `NoDangling`, `TriColour` and
`TwupsExact` are parts (see Proofs); the others check the parts they need. `TypeOK`
of `Gc` and `Table` is an invariant of a run; those of `Sweep`, `Coroutine` and
`RefList` are parts of the invariants that are proved. That of `Engine` documents what
the variables hold; it is true in its run too, which lists stronger invariants instead.

Each property of a passing run has a mutant in `PROJECT.json`: a definition of
the model with a plausible mistake (`Faulty...`, beside the definition it
changes) that violates the property under the same configuration.

### Properties

Of `Gc`: `NoDangling` (memory safety of the heap), `EmptiedKeysLive` (an emptied
node's key is never the address of a reclaimed object), `TriColour`,
`GrayListed` (one `gclist` field, one list), `TwupsExact`, `FreesGarbageOnly`,
`ClearsWeakOnly` (an entry is removed from a table only if its key or its value
is not strongly reachable). Of `GcCycle`: `CycleFreesGarbage` and
`GarbageStaysWhite`. Of `Sweep`: `ListExact`, `MarksRecycled`, `WhiteBeforeCell`,
`DebtCovers` (each `strict_sub` of `gc/mod.rs` has something to subtract from),
`SweepEnds`. Of `RefList`, as parts of `RefInv`: `LinksAgree` (dropping the last
`Ref` writes through the one pointer to the object, and no pointer leads to an
object without references) and `Reached`; and `RootsMarked` (`RefList` implements `RefSets`). Of
`Table`: `SizeKnown` (the size of the array can be told from whatever hint
`alimit` holds), `ChainsEnd`, `IsMap`, `LengthIsBorder`, `VisitsOnce` (`Table`
implements `TableMap`). Of `Coroutine`: `FramesIntact`, `ResumedOnce`,
`YieldAnswered`, `StatusTrue`, `SuspendedUntouched`. Of `Unwind`: `ListExact` (the
list in the 16-bit fields is the set of variables that wait), `ScopesClosed`
(nothing waits or is open that nobody will close), `Kept` (no live slot is
written to by a call, a closing method or a collection), `StackFits`, and
`CallsBalance` (newest variable first; a call that is over has closed everything
in it and left its caller's frames). Of `Engine`: `NoStaleUse` (no pointer from
before a move is used), `HelperReady` (`pc` and `top` are those of this
instruction when a helper needs them), `ResumesPending` (a suspended thread comes
back to the block that polls the future it waits for), `ArithmeticOnce` (either
the result or the metamethod), `Implements` (`Engine` implements `Meaning`) and
`ModuloFloors`.

### Bounds

- `Gc`: four or five addresses, `MaxSize` entries or references per object (0, 1 or
  2, by address), `MaxPins` objects held from Rust at a time. Addresses are
  reused, so that several generations of objects and several cycles take place
  in every run. A barrier, a weak table and an upvalue each relate two or three
  objects, which the instances cover kind by kind; how kinds combine without
  bound is what the theorems are for. `Keys`, `Held`, `Modes` and `Metatables`
  choose what the program uses; tables without entries get no metatable.
- `Sweep`: `Batch` and `Frees` replace 100 and 2; with three objects and two marks
  in the list a sweep takes several steps that end for each of the three reasons.
  `MaxDebt` caps `debt`: at the cap the program neither allocates nor starts a
  cycle, so the model may stop there and deadlock is not checked.
- `Table`: integers up to `MaxInt` = 9 for `i64::MAX`, so that `hash_search` meets
  the end of the range; four of them and two objects are stored to. `MaxArray` = 8
  for MAXASIZE, which is 2^31 where `usize` has 64 bits. Constructors
  give arrays of 0, 5 and, with `MaxList` = 2, 1 or 2 slots, and 0, 2 or 4 nodes;
  with 5, whose size is no power of two, no hint may take the place of the size;
  rehashes give arrays of every power of two up to 4. The hashes make two classes
  of keys collide with one another and a third one end up at a main position
  that an intruder took.
- `RefList`: four objects, so that each list can have a first, a middle and a last
  element at the same time as the other is not empty, and `MaxRefs` = 2 for
  `usize::MAX`: an object is linked at its first reference and counted after it.
- `Coroutine`: `MaxDepth` = 4 calls and resumptions nested in one another, on
  three threads: a thread can drive a second and a third and be called again. At
  that depth with nothing to do the model may stop; deadlock is not checked.
- `Unwind`: `Limit` = 12 slots for 1000000, `Basic` = 4 for 40, `MinInUse` = 2 for 20,
  `Extra` = 3 for 5, `FpSlots` = 4 for 20, `Reserve` = 3 for 5: the stack doubles
  and then is cut to its limit. `Slack` and `Spare` are the 3 and the 2 of
  `luaD_shrinkstack`; with 12 slots and at least six in use nothing is three times as
  large as what is used, so that the run has `Slack` = `Spare` = 1: a collection shrinks the
  stack whenever it can, to what is in use and no more. `MaxDelta` = 2 for 65535, with variables up to eight
  slots apart, so that gaps of every remainder and up to three dummies occur.
  `FrameSize` = 3 registers hold two variables and something between them.
  `MaxArgs` = 2 lets an open list of arguments end above the frame.
  `MaxFrames` = 3 stops a program, not the closing methods, from calling when
  there are three frames: a closing method runs on top of all of
  them. Deadlock is checked: a call can always end.
- `Engine`: the operands are classes, finite by themselves, and every opcode runs with
  every combination of them. One instruction is in flight at a time, since
  nothing but `base` outlives one. `Signed` = {} keeps integers of different signs
  from `MODK` and negative ones from `GTI`, where the compiler is known to differ.

### Fairness

Only `SweepEnds` needs any; the other action properties and refinements are safety. `FairSpec` has weak fairness of
`SweepStep \/ SweepDone`: in state 3 `Gc::step` does nothing else, and it is
called by every allocation and by the instructions that may allocate, so a
program that goes on allocating goes on sweeping. Nothing is assumed of the
program itself. No liveness is claimed of marking: state 0 traverses one object
per step, and a program that links a new object per step into what is still gray
can postpone the end for ever.

## Proofs

### Gc

`GcSafety` holds theorems about `Gc` for every heap, every kind of
program and every bound, from the assumptions that `Gc` names about its
constants:

- `TypeCorrect`: `Spec => []TypeOK`.
- `Invariant`: `Spec => []GcInv`, if `~RetuneAllWeak`.
- `MemorySafe`, `TriColourHolds`, `TwupsHolds`: its consequences.
- `FreesOnlyGarbage`: `Spec => FreesGarbageOnly`: what is dead cannot be
  reached, because `Accessible` is closed within the live objects.

`GcLists` adds, again if `~RetuneAllWeak`:

- `GrayStaysListed`: `Spec => []GrayListed`.
- `EmptiedKeysStayLive`: `Spec => []EmptiedKeysLive`.
- `OnlyWeakCleared`: `Spec => ClearsWeakOnly`.

`NoDangling` alone is not inductive. `GcInv` adds what each part of the collector
relies on: `PhaseColours` (a sweep leaves only current white behind it, so that a
flip makes nothing dead that is new), `TriColour` (marked objects refer to marked
ones), `Linking` (what is gray will be visited: without it the atomic phase could
end with a gray object whose references are white, and the threads and fully weak
tables are the cases where gray does not mean linked in `gray`), `TwupsExact`
(an open upvalue that is marked gets its value marked in the atomic phase because
its thread is in `twups`), and `Shape` (what `Gc::mark` follows by itself ends
after two steps). The proof has one lemma per action; those of the atomic phase
rest on a lemma that the set it computes is closed under what the survivors refer
to. TLC checks `GcInv` in `GcUpvals` and `GcWeak`.

`GrayListed` and `EmptiedKeysLive` are inductive next to `GcInv`. An emptied key
survives the atomic phase because every table that does was either black, when
`TriColour` has its keys marked, or visited by the atomic phase, which clears or
marks them (`AtomicVisits`). `ClearsWeakOnly` needs two facts: that a linked fully
weak table still has both modes (`AllWeakMode`), and that what the atomic phase
marks is closed under strong references, so that a side of an entry it does not mark
cannot be strongly reachable.

The hypothesis `~RetuneAllWeak` excludes the behaviour of the first finding, and
is needed: `GcRetune` shows `NoDangling` violated without it.

### GcCycle

`GcCycleProofs` proves for the same constants, under the same hypothesis:

- `CycleInvariant`: `CycleSpec => [](TypeOK /\ GcInv /\ CycleInv)`.
- `GarbageFreed`: `CycleSpec => []CycleFreesGarbage`.
- `GarbageNeverMarked`: `CycleSpec => []GarbageStaysWhite`.

`CycleInv` says that until the atomic phase the doomed objects are white, no roots,
and referred to by nothing but one another (`Sealed`), and that they are dead and
still to be swept from then on. From `Sealed` follows that they are out of the
program's reach (`DoomedOutOfReach`), so that no step stores or marks one; the atomic
phase leaves them out because everything else is closed under what it follows, and
what it marks is the least such set. Ephemerons and upvalues of dead threads need
no argument of their own: what they can mark is a reference of theirs (`KidsReferred`).
TLC checked `CycleInv` and `AllWeakMode` on the instances of `GcUpvals`,
`GcEphemeron` and `GcWeak`.

### Sweep

`SweepProofs` proves, for any `Objects`, marks, `Batch`, `Frees`, `Percent` and
`MaxDebt` that satisfy the assumptions of `Sweep`:

- `Invariant`: `Spec => []SweepInv`.
- `TypeCorrect`, `ListStaysExact`, `WhiteStaysBefore`, `DebtAlwaysCovers`: its parts.
- `MarksStayFew`: `Spec => []MarksRecycled`.

`SweepInv` adds two conjuncts to the properties that the run checks. `GrayMarked`:
what is gray has been marked and is an object that marking visits later; without it
`DebtCovers` is not inductive, since `mark_one_gray` subtracts what it takes from
the list. `MarksInOrder`: two sweep marks in the list differ in colour, and none of
them is dead between cycles or while one is parked. It implies that the branch of
`Gc::free` that gives back a second mark is never taken. The proof about `SweepStep`
cuts the list at the cell into what was visited and the rest; what survives a visit is
computed by a recursive function (`KeptIn`), of which the theorems need the elements
only (`KeptElements`). TLC checked `SweepInv` on the instance of the run.

### Coroutine

`CoroutineProofs` proves, for any number of threads and any `MaxDepth`, if
`~ResumesCalled`:

- `Invariant`: `Spec => []CoInv`.
- `TypeCorrect`, `FramesStay`, `OneResumes`, `YieldsAnswered`, `StatusHolds`: each of
  the invariants of the run.
- `SuspendedStays`: `Spec => SuspendedUntouched`.

`FramesIntact`, `ResumedOnce` and `StatusTrue` are not inductive. `CoInv` describes how Lua stacks and the Rust
stack are nested (`Nested`: a level of the Rust stack stands on a frame of the thread it
drives, and levels that drive the same thread stand on frames in the same order), what
a suspended thread waits for (`Waits`) and that the flag `pending` is set exactly while
the thread is being resumed (`PendingTrue`). `ResumesCalled` must be excluded: without
that hypothesis TLC finds `FramesIntact` violated, as one of the observations below says.
TLC checked `CoInv` on the instance of the run.

### RefList

`RefListProofs` proves, for any set of objects and any `MaxRefs`:

- `Invariant`: `Spec => []RefInv`.
- `LinksAgreeHolds`: `Spec => []LinksAgree`.
- `RootsAreMarked`: `Spec => RootsMarked`, that is `RefList` implements `RefSets`
  with the three variables they share.

`RefInv` is `LinksAgree` with `Reached`, that every held object is in one of the
lists, and `MarkedRefsUsed`, that what is in `marked_refs` was marked already
while a cycle marks and that nothing is in it otherwise. `LinksAgree` alone says
nothing of an object in a ring of its own, which would keep its `Ref` but be no
root. A step preserves `Reached` because a set closed under the links after it,
with the object it unlinks or links, is closed under the links before it
(`ChainLeast`). That the walk of `finish_marking` reaches an end is not proved:
`FinishMarking` is enabled only if there is one, and TLC explores it.

### Table

`TableProofs` proves, for any integers up to `MaxInt`, any objects, hashes and values, any
program over them and any sizes:

- `Invariant`: `Spec => []Inv`.
- `TypeCorrect`, `SizeIsKnown`, `ChainsAreFinite` (`ChainsEnd`), `TableIsMap` (`IsMap`),
  `LengthFindsBorder` (`LengthIsBorder`): each of the invariants of the run.
- `ImplementsMap`: `Spec => VisitsOnce`, that is `Table` implements `TableMap`.

`Inv` is `Kept` (the table is well-formed and holds `content`) with `Traversal` (the
entries in use that `seen` holds are those whose index is not above the cursor's). That
the table is well-formed (`TabOK`) has three parts. `ArrayOK`: a hint stands only for an
array whose size is a power of two and less than twice the hint, from which
follow the size (`SizeOfLimit`) and that the bit test of `luaH_getint` takes exactly the keys of
the array from it (`InArrayIff`). `WellChained`: the nodes are numbered by chain and, within a chain, by
rank, so that `next` leads to the next rank; a node with a key lies behind its main
position in its chain, and that one holds a key that belongs there; the living entry of a
key comes before its dead ones. `NodesOK` and `TabOK` add that no node from `lastfree` on
is without a key, and that no node has a key of the array.

`IsMap` and `ChainsEnd` are not inductive: nothing in them says that a walk from a main position
meets an entry that was moved there from another chain. With chains and ranks it is a
short argument: a walk meets what is behind it (`WalkMeets`), and it climbs, so that it
cannot take more steps than there are nodes (`WalkEnds`). An eviction is a renaming of two
nodes followed by a new chain of one node (`EvictChains`), an insertion behind the main position
a new rank between two others (`BehindChains`). What follows is stated of `Holds`,
which does not tell the array from the nodes: a store changes one key (`PutUpdates`), `luaH_resize`
none (`ResizeHolds`, by the positions it has come to), and `rehash` neither, because it asks for as many nodes as
there are keys for them (`RehashHolds`; `RoomFor` is the pigeonhole argument that a
table with that many nodes and no key without a value is not full, so that the lost entry
in `NewKey` never happens). `luaH_getn` finds a border because each of its searches keeps an
entry in use below it and one not in use above it (`BisectFinds`, `HashSearchFinds`), and
the hints it leaves keep `ArrayOK` (`HintKeepsSize`, `BeforeHint`). A traversal goes on because a store
to a present key, nil included, and the collector leave every key and every link where it was
(`SamePlaces`, `IndexSame`).

`RoundUp`, `Without`, `Bisect`, `HashSearch`, `Chain` and `Resize` are recursive functions. That there is a function
that satisfies such an equation is itself proved, from a measure that descends
(`RecursionExists`). `TableAssumption` asks for what the code has: integers that are not objects, values
other than nil, and a largest array that is a power of two smaller than the largest integer, as
MAXASIZE is on a 64-bit target. TLC checked `Inv` on the instance of the run, with the numbers
and ranks computed from the chains.

### Unwind

`UnwindProofs` proves, for any `Limit`, `MaxDelta`, `FrameSize`, `MaxArgs` and
`MaxFrames` and the other constants as `SlotsAssumption` has them:

- `Invariant`: `Spec => []UnwindInv`.
- `TypeCorrect`, `NothingLost` (`Kept`), `ListIsExact`, `ScopesAreClosed`,
  `StackIsBigEnough` (`StackFits`): each of the invariants of the run.
- `CallsAreBalanced`: `Spec => CallsBalance`.

None of them is inductive, and they need one another. `FramesStacked` and
`CallsStacked` say where everything lies: each frame above the registers of the one
below it (from its `Origin`, where its function was called, which `OP_VARARGPREP`
leaves and `OP_RETURN` restores), each activation of `luaD_call` between the frames of
its caller and its own, and what a `luaF_close` is at in the last of these. Without the
order of activations nothing says that an error cuts the frames of the failing call
only. `TopAbove` keeps `L->top`, where closing methods are called, above what is in use;
it gives `Kept`. `Waiting` and `Captured` refine `ScopesClosed` by which part of the stack an
unwinding call still owns and by the level that a `luaF_close` has passed; without
the latter an activation could end with an upvalue open in it. `Nodes` says what a delta
means: from the variable before a number of dummies in steps of `MaxDelta`, then the rest.
`ListExact` alone does not say that the nodes in between are dummies when
`luaF_newtbcupval` adds the next variable. `InRoom` adds to `StackFits` the frames of
Rust functions and the place to which an error comes back, and that `L->top` is
behind the end only while an activation that has nothing to close is unwound.

The proof has three parts, each with one lemma per action: what lies where
(`Placed`, over frames and activations given as sequences, so that one lemma, `Continues`,
serves every step after which an activation goes on, and `Precalled` every call), the list
(`ListOK`) and the room (`RoomOK`). `CallsBalance` follows from what an activation that is
over had left to close (`Ended`), since only `OP_RETURN` and the end of a `luaF_close` remove
one. `SlotsAssumption` asks for what the numbers of the code satisfy: 1000000 slots are
more than 40, and the 5 behind the end, and the 5 that
`Context::push` asks for, are enough for a closing method and its two arguments.
TLC checked `UnwindInv` on the instance of the run.

### Only model-checked

The properties of `Engine`, and its refinement of `Meaning`. What `Engine` says is about a finite
set of opcodes and operand classes, which TLC visits completely, so that a proof would
add nothing. `SweepEnds` is liveness under fairness, which the prover does not reach.

Where a proof needs an induction over a recursive function, as for `KeptIn` or `Resize`, it takes
the least number for which the claim fails and refutes it, since the induction
theorems of the library cannot be instantiated here.

## Findings

1. `GcRetune`. A table with both weak modes is linked into `allweak`, gray, and
   never visited again. `set_metatable` has a barrier for black tables only, so a
   metatable given to it before the atomic phase is freed while in use.
   `RetuneAllWeak = FALSE` describes the programs that do not do this.
2. `EngineModulo`. `Emitter::modk` (`src/src/vm/jit/emitter.rs:2530`) compiles a modulo
   of an integer by an integer constant to `srem`, which rounds towards zero;
   `OP_MODK` and `Emitter::mod_` call `luaV_mod`, which rounds down, as
   `src/tests/lua/math.lua:589` expects.

### Observations without a run

Each of these is what the source does where it was read for a model. The first
three can be reproduced by TLC with a definition that is in the modules.

- Pace (`Sweep`, `StartsOnlyWhenDue`). Objects traversed by `finish_marking` are not
  subtracted from `debt` but counted again as survivors, so the number compared
  with 20% of the survivors grows from cycle to cycle, and cycles start without
  allocation. Four objects and `Percent` = 50 show it.
- Yielding after a dropped future (`Coroutine`, `NoNullCallInfo`). A dropped `async_resume`
  leaves its coroutine in an `AsyncFp`; the next resumption leaves its number of
  arguments in `yielding`, and the next `YieldFp` takes it for the answer to itself
  and calls `luaD_poscall` with a null `CallInfo`. `YieldAnswered` shows that no
  other thread is affected.
- Resuming a called coroutine (`Coroutine`, `FramesIntact` with `ResumesCalled = TRUE`).
  `resume` (`src/src/thread/mod.rs:316`) of a suspended coroutine from inside a
  `Thread::call` on it unwinds the frame of that call. `async_call` is guarded
  against this (line 255: "Only allows from top-level otherwise Lua stack can be
  corrupted"), `resume` is not. `ResumesCalled = FALSE` excludes it.
- `Emitter::gti` compares integers unsigned (`emitter.rs:6475`), the interpreter's
  `OP_GTI` signed; hence `Signed`.
- `OP_MULK` multiplies two integers with a plain `*` on `u64`
  (`src/src/vm/interp/mod.rs:987`), which panics on overflow in a build with overflow
  checks; `OP_MUL` and the JIT wrap around.
- When an executor drops a call that waits in machine code, `Invoker` does not drop
  the future in `CallInfo.pending_future`; what it owns is leaked.
- After a stack overflow `top` is not lowered to the variable being closed before
  its closing method is called, so that there is usually no room for it and the
  method fails with an overflow of its own. The variable counts as closed.
- The closing methods called after an error get nil for the error.
- `lua_closethread` (`src/src/lstate.rs:136`), which nothing in the crate calls, passes 1 for
  the level, where `luaD_closeprotected` takes an offset in bytes.
- `moveresults` still has the branch for a frame that asked for its variables to be
  closed (`wanted` below -1); nothing sets such a number any more.

## Not modelled

The contents of strings and userdata, and the wording of errors. Floats, booleans
and functions as keys of a table, which differ from objects by their hash, and
the panic when a table grows beyond 2^30 nodes. In `Coroutine`, a future polled by anything but an executor at
the bottom of the Rust stack: an `AsyncFp` cannot poll another coroutine's future
inside a resumption here. A `pcall` is a `Call`: what it catches and where it
resumes are alike. A thread is left `"suspended"` by `coroutine.status` when it
is suspended and Rust calls a function on it that resumes another; the model
follows the code. In `Unwind`, tail calls of functions in Rust,
calls with an open list of arguments and yields out of a call; unused `CallInfo`s and `luaE_shrinkCI`, which
frees some of them. In the engines, the numbers themselves: what `luaV_mod`,
`forprep` or a shift computes is a name, so that two engines agree when they call the
same function or the same machine instruction that stands for it; hooks and
line tables; the allocator of code pages and the relocation of generated code.
`collections/btree_map.rs` borrows its map while the comparison of keys runs, and a
collector step in there would panic on the borrow; the comparison is the
host's and no key type of the crate allocates in it. The lexer, the parser and the libraries are
sequential and have no state the other parts depend on, except through the heap
operations that `Gc` has; `PROJECT.json` says of each component what is covered.
