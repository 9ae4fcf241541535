# A TLA+ model of spwasm

spwasm is a portable WebAssembly interpreter (`src/wasm`), a script runtime on
top of it that gives guest programs memory pools (`src/stappler`), and a test
runner (`src/exec`). This directory holds TLA+ modules for the parts of it
whose correctness depends on order: threads that suspend each other, calls that
nest through host functions, allocators whose state is spread over lists. TLC
checks the modules on small instances, and TLAPS proves some of the results for
every instance.

## The system

| Part | Code | State | Operations | Talks to |
|---|---|---|---|---|
| Thread synchronisation | `ThreadUtils.cc:330-433`, `Thread.h:73-77` | `ThreadContext`: mutex, condition variable, `stopFlag`; each thread's `_contextLock` | `Run` locks and unlocks, `TrySync`, `GrowMemory` | other threads that share the context, `Runtime::growMemory` |
| Interpreter stacks | `Thread.cpp`, `ThreadUtils.cc`, `Thread.h` | `_valueStack`, `_callStack`, `_currentFrame` | `Run`, `Prepare`, `PushCall`, `PopCall`, `StoreResult`, the opcodes | host functions, which may call `Run` again |
| Script allocator | `SPWasmScriptAllocator.cc:258-388` | `Allocator`: `buf`, `last`, `origin`, inside the linear memory | `alloc`, `free` | `GrowMemory`, which moves it |
| Script pools | `SPWasmScriptAllocator.cc:525-679`, `SPWasmScriptMemory.cc` | `parent`, `child`, `sibling`, `ref` of each pool; `ThreadContext`'s stack of pools | create, `make_child`, destroy, clear, push, pop | the allocator |
| Pool memory | `SPWasmScriptAllocator.cc:391-558` | the ring of nodes of a pool, `buffered`, `free_buffered` | `palloc`, `alloc`, `free`, `clear` | the allocator |
| Linker | `Environment.cpp:166-740` | `RuntimeModule`s: the objects and exports of each module | `performPreLink`, `linkExternalModules`, the imports | the embedder's `LinkingPolicy` |
| Loader | `Environment.cpp:29-33, 815-933`, `SPWasmScriptRuntime.cpp` | the contents of memories and tables | `loadRuntime`, `emplaceMemoryData`, `emplaceTableElements`, `deduceStackOffset` | the linker's objects, callbacks of the embedder, the script allocator |
| Guest memory accesses | `ThreadUtils.cc:34-230` | the bytes of a memory that threads share | `Load`, `Store`, `AtomicLoad`, `AtomicStore`, `AtomicRmw`, `AtomicRmwCmpxchg` | the opcode loop of each thread |
| Numeric opcodes | `ThreadOps.cc`, `ThreadUtils.cc:232-300` | the operands | one operator per opcode, or a trap | the opcode loop |
| Function compiler, type checker | `BinarySource.cc`, `TypeChecker.cpp` | label stack, type stack, opcodes so far | one handler per WebAssembly opcode | the binary reader |
| Binary reader | `Binary.cpp`, `Binary*.cc`, `Environment::loadModule` | position in the input, counts of what is announced; the `Module` so far; the value of the last initializer | one function per section, one callback per item | compiler, `Module`, the modules and hosts globals are imported from |
| The rest | `Module`, `Opcode`, `StringView`, `SExpr`, `ThreadedRuntime`, `exec`, host math and strings | constant or none | | |

What is hard in it:

- **Threads.** A guest's `grow_memory` reallocates the block that all threads
  of the context execute on. `GrowMemory` gives its shared lock back, raises
  `stopFlag`, waits for the exclusive lock; the others notice the flag only where
  a frame starts or a call is made, and park on a condition variable without a
  predicate.
- **Nesting.** A host function runs in the middle of an opcode and may call
  `Run` or `Prepare` of the same thread; a trap must unwind one run and leave
  those below alone. Locals, operands and arguments are slots of one array.
- **Failure half-way.** Stacks are exhausted on entry to `Run`, before or after
  the lock is taken and the locals are pushed; a growth may be refused.
- **Two stacks in step.** The compiler of function bodies and its type checker
  each keep a stack of open constructs; jumps are patched when a construct ends,
  and `End` opcodes cut the value stack to a height computed much earlier.
- **One pass.** A module is read once, in order, by two classes: one counts what
  the sections announce, the other keeps what was read; each checks indices
  against its own numbers. Values of imported globals come from modules read
  before, through their imports.
- **Shared objects.** Modules are loaded one after the other in the order of
  their names; where two of them reach the same memory or table through imports,
  the later one overwrites, and the script runtime has put an allocator between
  them. The first segment that does not fit leaves the rest undone.
- **Two accesses where one is meant.** `AtomicRmw` loads and then stores; another
  thread may run between.
- **Edges of numbers.** Division of the least integer, conversions at the limits of
  a type that the float's format does or does not contain, zeros with a sign, NaNs.
- **Long sequences.** The allocator's `last`, the pools' back pointers and the
  order of a pool's ring are kept by every operation for the next one; an error
  shows many calls later.

Nothing persists and nothing is sent, so there are no restarts, timeouts or lost
messages. `setSyncContext` is not called inside the repository: sharing a
context between threads is an interface the library offers its embedder.

What makes each part correct: guests run under the shared lock and never hold an
address into a freed block; no thread sleeps through the end of a growth; each
activation has locals and operands of its own; nodes never overlap and none is
lost; a pool goes after its descendants and leaves no pointer to it; a pool's
pieces never overlap and no room is overlooked; an import is bound to the object
that its chain of names denotes; a loaded memory has what the segments of all the modules
that share it say; an access is one step on the bytes it names, and an opcode
gives what it means or traps; an image is accepted when all of it is
consistent, and the module is then what it says; a compiled body does with its operands what the
structured body means.

## The modules

| Module | Stands for | Variables and code |
|---|---|---|
| `ThreadSync` | the protocol of `Run`, `TrySync`, `GrowMemory`, `Runtime::growMemory` | `pc` is the point of the C++ code; `owns` is `_contextLock.owns_lock()`, `locked` the local of the outermost `Run`, `writer` the exclusive owner of the mutex; `pages` is `limits.initial`; `stored` is what the current block contains; `dangling` the threads whose host address points into a freed block |
| `GrowableMemory` | abstract: a memory that grows atomically, between accesses | |
| `ThreadSyncProofs` | the theorems about `ThreadSync` | |
| `ScriptAllocatorProofs`, `InterpProofs`, `PoolMemoryProofs`, `ScriptPoolsProofs` | the theorems about `ScriptAllocator`, `Interp`, `PoolMemory` and `ScriptPools` | |
| `RuntimeInitProofs` | the theorems about `Linker`, on its own and within `Loader`, and those about `Loader` | |
| `CompilerProofs` | the theorems about `FuncCompiler` and `BodyExec` | |
| `ProofLemmas` | what the proofs need to know about numbers, sequences and recursive functions | |
| `Interp` | one `Thread`: stacks, calls, host calls, traps | `slots`, `top`, `callStack`, `callTop`, `currentFrame` are the members; `control` is the C++ call stack of `Run` and host functions; `out` the results `Run` has just copied out |
| `CallMachine` | abstract: activations with their own locals and operands, as WebAssembly defines calls | |
| `ScriptAllocator` | `Allocator::alloc` and `free` by several threads | `blocks` are the copies of the allocator, one for each block the memory has been in; `self`, `data`, `size` are `this` and the fields of `MemCtx` during a call; `holder` the owner of the mutex |
| `NodeHeap` | abstract: a heap that hands out disjoint nodes | |
| `ScriptPools` | the tree of pools and the stack of current pools of a script thread | the pointers of `Pool` and `PoolCtx`; `work` is the recursion of `do_destroy` and `clear` |
| `PoolForest` | abstract: a forest from which leaves disappear | |
| `Linker` | `Runtime::init` up to `loadRuntime` | `env` is the `Environment` with what the policy will answer; `exports` and `space` are the fields of `RuntimeModule`, `slots` is `_funcs`, `_globals`, `_memory`; `calls` is the recursion of `processFuncImport` and the others |
| `Loader` | `Runtime::loadRuntime` and `deduceStackOffset` of the script runtime, after `Linker` | `memories` and `tables` are the contents of `_memory` and `_tables`; `work` is the rest of the loop over `_modules`; `chosen` is what the modules have to load and how the policy answers |
| `ModuleReader` | `Environment::loadModule`: `ReadSections`, the sections, and the callbacks of `ModuleReader` that build the `Module` | `modules` is `_externalModules`; `reader` has `_last_known_section`, the counters of `BinaryReader`, and `_initExprValue`; `source` is history |
| `ModuleStore` | abstract: a store of complete modules that never change | |
| `TypeChecker` | `TypeChecker.cpp`, as operators on a record | `types` is `type_stack_`, `labels` is `label_stack_`; `ok` becomes `FALSE` where a check returns an error |
| `FuncCompiler` | `ModuleReader`'s handlers for a function body, one action each | `checker`, `opcodes`, `labels`, `labelStack` are the members; `source` and `noted`, the checker's stacks before each instruction, are history |
| `BodyExec` | the opcodes that `FuncCompiler` emits, executed by the loop of `Thread::Run` in one frame | `pc` is `position`, `stack` is `_valueStack` |
| `StructuredCode` | abstract: what a body of nested constructs means | |
| `NumericOps` | the operators of `ThreadOps.cc` and the opcodes that apply them, as pure operators on bits | |
| `OpcodeMeaning` | reference: what the numeric opcodes mean, by sets of bits and by the numbers that floats stand for | |
| `GuestMemory` | `Load`, `Store`, `AtomicRmw`, `AtomicRmwCmpxchg` and the numeric opcodes, executed by threads that share one memory | `memory` is `memory->data`, `stack` is `_valueStack`, `rest` the opcodes from `_currentFrame->position` on; `read` is the local of an atomic access between its load and its store |
| `SharedBytes` | abstract: a memory on which every access is one step | |
| `PoolMemory` | the nodes and buffers of one pool | `ring`, the records of `buffered` and `free_buffered` |

The modules `MC...` give constants to TLC. Definitions whose comment begins with
*Mutant* are changed copies of the definition below them, as a plausible mistake
in the code would have it; they are used by no specification, and each shows
that a property can fail.

`Loader` extends `Linker`, so that segments are placed in the objects that linking
has bound, and takes the place of the `Allocator` in a script's memory, of which
`ScriptAllocator` begins with `Base` units used. `GuestMemory` takes for granted
that the block stays (`ThreadSync`) and that the compiler hands it the offset
of an access (`AccessAsWritten` of `BodyExec`).
`ThreadSync` and `ScriptAllocator` meet in `GrowMemory`: the first refines it to
an atomic step that keeps the contents and needs no access in progress, and the
second uses it as such a step (`Grow`). `ScriptPools` and `PoolMemory` split
a pool in two: who exists, and what is in it; both take nodes from the allocator
as `NodeHeap` promises them.

### What the abstraction leaves out

- `ThreadSync`: the values of the guest; a loop without calls never reaches
  `TrySync`, and is covered by the strong fairness below.
- `Interp`: the guest is any code the type checker lets through, so a frame may
  go on with any opcode that has its operands; jumps do not change the stacks
  and need no action. The tables of functions are not modelled: `Call` stands
  for `CallIndirect` too. Exhaustion of a stack is one of the causes of `Trap`. A host
  function may be called where line 133 would trap for want of frames, which adds behaviours only.
  Memory below the array of values is outside the model.
- `ScriptAllocator`: sizes are in units of 4 KiB (`BOUNDARY_SIZE`), addresses
  in units too. The model stops following calls once two nodes overlap, because
  the program then overwrites its own headers. It stops altogether (`Astray`) once a walk
  has left the buckets: with a `last` that has wrapped, the loop at line 283 goes on behind
  `buf` and takes the first word that is not null for a node (`TakeAstray`), and what
  that overwrites is unknown. Up to that step wrapped values are followed.
- `ScriptPools`: the guest uses a pool only while it lives. The stack's cells and the
  `ThreadContext` lie in memory of the root pool (`cells`); once the guest has
  cleared that pool (`Kept` is false) they are in memory that will be handed out
  again, and the stack is followed no further. `Top` is the context the script
  thread has made, which the code looks up by another number (see below).
- `FuncCompiler`: an instruction is one of its class; alignment of an access is
  right or wrong, nothing more. `OnAtomicWaitExpr` and `OnAtomicWakeExpr` give
  the module up, as the code does. Functions and signatures that are named exist (302, 318); an
  `end` after the last one is not fed, since the reader rejects the body for it; that the compiler reads a label of
  a `br_table` before the checker has compared its depth (252) is not modelled. The checker's handlers for exceptions are
  never called and left out.
- `ModuleReader`: an image is any sequence of sections and items, with indices up
  to one past the end and one item that cannot be read. Signatures, limits and
  constants are the place they are read at, so that two of them are never
  confused. Bodies are well-formed or not. Of custom sections there are names of
  functions and the size of the data; those for relocations and exceptions change
  nothing, or fail. When one fails inside of a subsection and reading goes on
  (`stop_on_first_error` is off), what follows in the image is whatever the rest of
  it is taken for. Four flaws the code does not notice are kept
  out of the images (`Unnoticed = {}`), see below.
- `BodyExec`: a value is its type and the instruction that made it, which tells
  apart everything a wrong jump or a wrong height could confuse; conditions,
  keys, traps and memory are choices. One frame: calls take arguments and leave
  results. The value stack is long enough; its exhaustion is in `Interp`.
- `Loader`: a byte is the segment and place it comes from, or zero, unset, the
  host's, the `Allocator`'s. The part of an `Allocator` that would lie behind the end of
  the memory is not modelled, nor the copy of the linking data to exports. Mutable
  globals of the host or the policy are not taken for stack pointers. The host's
  callbacks write one byte, or nothing, or refuse.
- `GuestMemory`: a `memcpy` of the size of a type is one step, which is what the
  built program does on the machines it is for; a `memcpy` that tears is not
  modelled. Floats are loaded and stored as the integers of their size. Atomic accesses
  have offset 0, as the compiler makes no others that reach the memory.
- `NumericOps`: a float is its bits. What the hardware computes (`+`, `-`, `*`, `/` by
  other than zero, rounding, square roots, promotion, demotion within range, integer
  to float) is left out, and so are the opcodes that do nothing to the bits
  (reinterpretation, `wrap`, unsigned extension).
- `Linker`: a type stands for a signature or a value type, and of a memory for
  the number of pages. Tables share the code of memories and are not separate.
  Environments are as the readers of their modules leave them (`WellFormed`):
  every export has an index of the kind it is of (`Binary.cpp:1806-1815`), and hosts
  define functions and globals only.
  `Init` leaves out environments for which the C++ program has no defined
  outcome or none at all: cyclic chains of imports (`Acyclic`), one name for
  objects of two kinds (`OneKindPerField`), mutable globals of the host that
  nobody imports (`CopiesFit`).

## The runs

| Run | Instance | What it shows |
|---|---|---|
| `sync_safety` | three threads, all growing, nested `Run`, traps on entry, spurious wakeups; growths of 1 and 3 pages, limit 3 | locks, addresses, wakeups; the memory refines `GrowableMemory` |
| `sync_liveness` | three threads, all growing, one of them also outside `Run`; no nested runs, no traps on entry; fair | every parked thread is woken, however flags and growths interleave; a growth goes on, unless another grower takes the lock first and clears the flag |
| `alloc_sequential` | one thread, memory of 10 to 14 units, three buckets, requests of 2 to 5 units, chains of two | nodes tile the memory, `last` is exact, growth is large enough; refines `NodeHeap` |
| `alloc_concurrent` | two threads, fixed memory | whatever the unlocked reads see, and until a wrapped `last` leads a walk behind the buckets, no node is on two lists or too small |
| `pools_newest_first` | four pools, three cells; children are destroyed newest first; fair | back pointers, recursion, stack of pools until the root pool is cleared; refines `PoolForest` |
| `pool_memory` | one pool, two sizes of request, two more nodes than the first, three buffers | sorted ring, no overlap, no room overlooked |
| `interp_calls` | one guest function of each kind (declared local; result; prepared), one host function that calls them; 5 slots, 3 frames | the stacks refine `CallMachine`, and nothing is left on them |
| `interp_locals` (violation) | the guest calls a function that declares a local | the callee's frame lies over the caller's operands |
| `link_and_load` | two modules and the host; up to two functions or globals in a module, or one object of each kind; imports from each other, the host, an absent module; the host defines the field, or the policy provides it, or both, or neither. Then a memory, or a table, in each of two modules, their own or an import, with up to two segments each, four sources of memory, and a script's memory with what its modules say of their stacks | every import is bound to what its chain denotes, once, with enough storage; memories and tables hold what all segments say, the last one last; the script's allocator lies behind the stacks and is whole; `init` fails only for a cause, and ends |
| `read_images` | every image of up to eight sections and items (four once a section has failed) and a custom section, sections with one or two items; imports of each kind; one module loaded before that exports a global of its own and one it imports from the host | an image is accepted exactly when the whole of it is consistent; indices, names, exports, initializers and segments are those it says; the store of modules refines `ModuleStore` |
| `compile_body` | every body of up to 7 of the common instructions (constants, drop, control), or of up to 5 with two others; one result, one local; branches to loops leave no operand behind | what the checker accepts is compiled to jumps and `End`s that implement `StructuredCode`, with the operands the checker has seen; an access goes to the memory and offset it was written with |
| `guest_ops` | one thread with each numeric opcode on every operand or every special one, and each access at every address; or two threads that race with two accesses each | opcodes give what `OpcodeMeaning` says, or trap; accesses implement `SharedBytes`, except for the updates that a concurrent read-modify-write takes back |

**Bounds.** Three threads are what a lost wakeup or a cleared flag needs (a
grower, a second grower, a waiter), and in both of its runs all three may grow, so that
a waiter may be a grower itself, and two flags may be up while a third thread parks. Two levels of `Run` distinguish the call that
locks from one that does not. Growths of 1 and 3 pages with a limit of 3
succeed or fail at the limit; the liveness run's 32-bit size is 3 pages too, so
that a growth within the limit fails there. In the allocator
three buckets and the sink are enough for a search that skips a bucket, empties
one in the middle, empties the highest, or ends in the sink; chains of two free
into the same and into different buckets. Four pools are a parent with three
children or a chain of four; three cells let two be popped at once. Five slots hold a function with two locals, an
operand below an argument, a pending host call and the frame of a call back;
three frames hold that with one more call, and the stacks are full
in many states, so exhaustion is covered. With two functions
in one of two modules a chain of imports goes through both modules in either
order, twice through one, and several imports end at the same field of the host.
Eight sections and items hold an import of a global, a global initialized from it
and its export; an imported memory and a data segment at an imported offset; a
table with an imported function in a segment; a function with its body and its
export or start.
Seven instructions with the last `end` hold an `if` with both arms and a value,
a block in a block with a branch out of both, a branch in a loop, a `br_table`
to two targets, and code after an unconditional branch; the uncommon
instructions do not nest, so two of them in a body of five meet every control
instruction and each other.

For the loader a page of 4 bytes, an allocator of 2 and limits of 0, 1, 2 or 3 pages, 3
being all of the 32-bit space, give segments that end at the last byte, one behind
it, that overlap in a module and across modules, and sizes that wrap to zero; `LoadOrder`
puts the host between the two modules, so that its callback meets
what was loaded before and after it.
For opcodes an integer has 4 or 8 bits, and all pairs of 4 bits are tried; an f32
has 1 + 4 + 2 bits and an f64 1 + 4 + 5, so that, as in the real formats, every i32 is an
f64 but not an f32, and the greatest i64 is neither. All their bit patterns are converted. For memories a byte has
one bit, so that i32 has 4 bytes and i64 8 and every width of access, alignment and
end of a memory of 10 bytes happens; an offset of 14 takes the sum past 32 bits
(here 4). Two threads with two accesses each suffice for one to come between the
load and the store of the other, in either order, and to take the result with
it.

Type invariants are part of another invariant where that needs them
(`FramesStacked`, `CellsPartition`, `OperandsAsChecked`), and have a run of their own otherwise.

**Deadlock** is checked in every run except the linker's and loader's, the reader's, the compiler's and that of the opcodes, which end, and the
allocator's, where the memory
can be used up with no node to free only because the model stops at an overlap, where a
walk is astray, or because a thread's request fails for ever; an allocator that has nothing to
do is not an error.

**Fairness.** `ThreadSync`'s `FairSpec` has weak fairness for what a thread
does of itself (the scheduler runs every thread, and `std::mutex` and
`std::condition_variable` give a lock that stays free to a thread that waits for
it) and strong fairness for leaving or switching frames: guest functions are
assumed to call or return again and again, since the interpreter offers no other
point of suspension. No fairness is assumed for what guests and hosts choose to
start. `ScriptPools`' `FairSpec` has weak fairness for the steps of a recursion
that has begun, and `Linker` and `Loader` for their only thread.

## The proofs

`ThreadSyncProofs` proves, for any number of threads, pages and depths of
nesting, from the named assumptions of `ThreadSync`:

| Theorem | States |
|---|---|
| `TypeCorrect` | `Spec => []TypeOK` |
| `GuestLocked` | `Spec => []GuestRunsUnderLock`, when no host grows outside `Run` |
| `NoLostWakeup` | `Spec => []ParkedHaveNotifier`, when also the flag starts as false |
| `AccessSafe` | `Spec => []NoDanglingAccess`, when no host grows outside `Run` and page sums do not wrap |
| `Refinement` | `Spec => ImplementsMemory`, under the same conditions |

None of the safety properties is inductive. That a thread in the opcode loop owns
the lock depends on what it does while it is in `TrySync` or in `GrowMemory`
with nested runs: `LockInv` says for every point of the code whether the thread
shares the lock, that a writer excludes all sharers, and that only points inside
`GrowMemory` write. With it the step that swaps the block cannot meet a thread
with an address (`MemoryInv`, which also says that `copy` is still what
the block contains). `WakeInv` relates the flag to the growers: while the
flag is up, or a thread is about to park, some growth has not yet notified; the
delicate step is the one where a grower clears the flag between another
thread's read of it and its wait, which is harmless because the clearing
grower's notification is still to come and needs the lock the reader holds.
`Refinement` follows from the same invariants, one step per action.

The assumption `HostGrowers = {}` is necessary: the properties are false
without it (see below).

`ScriptAllocatorProofs` proves, for any number of buckets, any requests, sizes of the
memory and nodes freed by one call, from `AllocatorAssumption`:

| Theorem | States |
|---|---|
| `ListsSorted` | `Spec => [](~Astray => ListsInv)`: every bucket holds nodes of its own size, in each block the memory has been in |
| `AllocFits` | `Spec => NodeFits`: a node that `alloc` returns is as large as was asked for, unless its walk has left the buckets |
| `FreeListsKept` | `Spec => []FreeListsExact`, until the memory moves or a walk leaves the buckets, when the threads are too few to take `origin` past 2^32 at once (`Roomy`) |
| `TypeCorrect` | `Spec => []TypeOK`, for one thread and requests that do not wrap line 334 (`Alone`) |
| `LastKept` | `Spec => []LastIsHighest`, for the same |
| `NodesTiled` | `Spec => []NodesTile`, for the same |
| `HeapImplemented` | `Spec => ImplementsHeap`, for the same |

The first three are for any number of threads, and for as long as no walk has left the
buckets. With two threads one may (`TakeAstray`, which the run reaches), and then a
word of any value is a node; `Astray` is the limit of what is claimed. For one thread
`TypeCorrect` says that it does not happen.
`NodeFits` needs `ListsInv`, since what `alloc` takes without looking at its size is
whatever the bucket holds. Nothing else in its proof depends on `last`: a walk
starts at the index of the request, so a stale or wrapped value that ends at a bucket makes
`alloc` miss nodes and never take one that is too small. The loop of `free` is an induction over the chain
(`PushedIn`), stated once for whatever holds of the lists after each node.

`FreeListsExact` holds although threads construct nodes over each other
(`NodesDisjoint` is false with two). A node that is listed ends where
`origin` is or below it, and a node constructed by `Place` begins there, so it is none of those
listed (`Below`); of nodes constructed twice in the same place only one is ever freed,
because after the overlap the model follows the program no further (`Intact`). What must not happen is that
`origin` wraps, and each thread has tested it against the size of the memory before
any other has moved it. `Room` bounds that: `origin` plus the largest request for
every thread past the test is at most the size of the memory plus the largest request for every thread.
`Roomy` asks for exactly what this sum needs. Without it the property is false: with
`Word = 9` and two threads TLC has a wrapped `origin` reach a node that is listed.

The rest is about one thread, with threads the properties are false. `SearchInv` says that a call only searches when `last`,
which names a bucket, is not below its index, so that the walk ends in the array. `SpaceInv` says which block
each of `this`, `data` and `size` of a call under way means, before and after a growth,
and that there is room at the `origin` that `Place` will use, which is the one in the old block,
equal to the new one. `LastInv` follows `last` through the two points where the lists
have changed and it is still to be written. `LoweredLast` and `RaisedLast` are about
the two computations: the walk down of line 294 ends at the next bucket in use,
provided that the bucket emptied was the highest and `last` was right before, and
so needs that the index of a bucket in use is smaller than 2^32. `TileInv` says that the nodes, with
the one constructed but not yet passed by `origin`, tile the memory. `Alone` demands that
`LimitUnits` plus a request is less than `Word`; a larger one makes line 334 compare a wrapped sum.

`InterpProofs` proves, for any functions, values and sizes of the two stacks, and any
nesting of calls, host functions and traps, from `InterpAssumption`:

| Theorem | States |
|---|---|
| `StacksKept` | `Spec => []FramesStacked`, when the functions the guest calls declare no locals and a frame is picked up before it returns (`FramesKept`) |

The two conditions are the two findings `interp_locals` and `StaleReturn`; without either the
property is false. `FramesStacked` is not inductive: that the stacks are empty
after the last run needs to be known of each run while it lasts, so `ControlInv` says
for every call under way where it began (`RunInv`, `HostCallInv`), that runs and host
functions alternate, each one above the last (`Nested`), and that no two host functions
wait for the same frame. A trap cuts both stacks to where a run began, and the same
facts show that what it leaves is what the run had found. `Prepared` is not restricted:
what `Prepare` overwrites are values, never the place of a frame.

And that the interpreter's stacks implement `CallMachine`, for any functions, values and sizes:

| Theorem | States |
|---|---|
| `CallsImplemented` | `Spec => ImplementsMachine`, under `FramesKept`, and when functions called by `Prepare` have no results or no locals (`PreparedPlain`) |

`PreparedPlain` leaves out the finding at `Thread.h:269`, without which TLC finds the
property violated. The mapping (`FrameAt`, `CallAt` in `Interp`) reads the locals,
operands and arguments of each activation out of the one value stack, as the
`Part` of it between two places that `StacksInv` and `Stacked` bound: a frame's operands end where the
next frame's locals or a host function's arguments begin (`OpsEnd`). A step of the
abstract machine changes one activation, so each lemma about an action shows that what
it writes lies above all other parts (`KeptBelow`, `FrameKept`, `CallKept`), and computes the
part that changes from the lemmas about parts of parts and parts put together. The actions
that copy within the stack (block ends, `PopCall`, the results of a host
function) are those where it is not obvious, since what they copy may overlap where
it goes. `RunFunctions` is added to the invariant: the lowest frame of a run is that of the
function the run was called with, so what is copied out are that function's results.

`PoolMemoryProofs` proves, for any sizes of nodes, headers, thresholds and requests, from
`PoolMemoryAssumption`:

| Theorem | States |
|---|---|
| `TypeCorrect` | `Spec => []TypeOK` |
| `PiecesStayDisjoint` | `Spec => []PiecesDisjoint` |
| `RoomIsUsed` | `Spec => NoRoomMissed` |

One invariant carries all three. `RingOK` says that the nodes do not overlap, that their
fill is within their bounds, and that the ring behind the active node is sorted by
`index`, which is at least the free space of the node in units of `Boundary`; `PiecesOK`
says that each piece, in use or recycled, lies within what its node has given
out. The order matters for `RoomIsUsed` only, but it is the order that an
insertion at the wrong place would break, calls later. `OrderedKeeps` and `ActivateKeeps`
are about the operators that reorder the ring; both are stated for any ring.

`ScriptPoolsProofs` proves, for any finite sets of pools and cells, from `PoolsAssumption`:

| Theorem | States |
|---|---|
| `CellsKept` | `Spec => []CellsPartition`: until the root pool is cleared, the stack and the cache hold the cells it has handed out, each once |
| `ChildListsKept` | `Spec => []ChildListExact`, when children are destroyed newest first |
| `ForestImplemented` | `Spec => ImplementsForest`, when children are destroyed newest first |

The condition is `AnyOrder = FALSE`, again a finding (line 623); `CellsKept` does not
need it. The properties speak of walks along pointers, of which one write may change any number of
steps, and an induction along the list would have to be made again for each
action. The invariants therefore say without walks what the walks find: `TreeInv`, that
no two places have the same sibling and that every set of pools which has the first child of a
pool and is closed under `sibling` has all of its children (`AllListed`). One action
then needs one set. `WalkShape` leads back: a walk that meets no place twice has at
most as many steps as there are places, so what it finds is such a
closed set. `CallsInv` says of the recursion of `do_destroy` that each call under way was
made for the first child of the pool of the one before.

`RuntimeInitProofs` proves, for any modules in any order, any entries, fields and types,
and whatever hosts and policy provide, from `OrderAssumption`, `FieldsAssumption`, `TypesAssumption`,
`NullAssumption` and `EnvironmentsAssumption` of `Linker`:

| Theorem | States |
|---|---|
| `LinkTypeCorrect` | `LoaderSpec => []TypeOK` (`Linker`'s) |
| `SlotsSuffice` | `LoaderSpec => []SlotsEnough` |
| `BindsWhatIsDenoted` | `LoaderSpec => []BoundAsDenoted` |
| `ImportsAreChecked` | `LoaderSpec => []ImportsChecked` |
| `LinkFailsForCause` | `LoaderSpec => []FailsForCause` |
| `LinksRight` | all of these of `Linker`'s own `Spec` |

`LoaderSpec` is the specification the run checks; `LoadingLinks` shows that every step of it
is one of `Linker` or leaves its variables alone, so one invariant, `LinkInv`, serves
both. `EnvironmentsAssumption` asks for no more than `WellFormed`, which TLC evaluates
for the environments of the run, and `Init` chooses among those that are acyclic, have one kind for each
name, and have room for the host's globals, as before.

None of the properties is inductive. `SlotsEnough` is an argument about counting
(`RoomForNext`): `performPreLink` has counted the fields asked for and `ProvideSlot` takes one more
slot whenever the policy is asked. There is one left because each slot beyond the copies is for a
field that was asked for and that the host exports by now, no two for the same
(`PoolsInv`), and the field wanted now is not yet exported (`HostInv`), so that the slots
in use map into fewer fields than were counted. `BoundAsDenoted` needs to know of each call
of the recursion what it is for: all calls under way denote the same
object, and all but the first find their place empty (`CallsInv`); what denotes means is followed
along the chain of exports (`ChainFrom`, `Denoted`), and `Acyclic` bounds it. For
`ImportsChecked` the order of the loops matters (`Before`, `TurnsInv`): an import that
takes its object from the recursive call is not compared with it, and there is such a call only for a target
that is an import and has not had its turn, so comes later. That
nothing bound is later exchanged or loses its type is `Grows`; a memory's slot may
be widened, but not narrowed (`TypesGrow`).

The second half of `RuntimeInitProofs` proves, for any segments, sizes of pages and objects, and answers of the
policy, from these and from `LoadOrderAssumption` (every module is in the order once),
`SizesAssumption` (sizes are positive), `NoDataAssumption` and `ContentsAssumption` (what
modules have to load has the form the readers give it, `HasForm`):

| Theorem | States |
|---|---|
| `LoadTypeCorrect` | `LoaderSpec => []LoaderTypeOK` |
| `InitFailsOnlyForCause` | `LoaderSpec => []InitFailsForCause` |
| `LoadsWhatIsDeclared` | `LoaderSpec => []ContentsAsDeclared` |
| `AllocatorUntouched` | `LoaderSpec => []AllocatorIntact` |

The properties are about the end of `init`. `LoadInv` says the same at every turn of the loop of
what has been placed so far: `WorkInv`, that the items left come after those done in the order
of the modules' names (`ItemsAre` shows that of the whole list); `DataInv`, that every byte is
what the last placed segment for it says, or the host, or what the provider gave
(`CellAt`); `EntriesInv`, the same of tables. A turn then has to show that its segment is
later than all that are placed in that memory (`DataTurn`), and that no other memory has
changed, which is where the invariant of linking is needed: an object is one slot, so a
segment is for it exactly if its module's index denotes it (`SlotOf`). `AllocatorKept` adds up
what the modules say of their stacks, and compares it with the definition the place was
computed from (`OwnGlobals`). A byte written by the host's callback is not
accounted for in `AllocatorIntact`, and a memory of 2^32 bytes or more is one of the causes in
`InitFailsForCause`: with such sizes line 876 has no bytes left to give.

`CompilerProofs` proves, for bodies of any length, any locals, globals and types of
constructs, any opcodes that leave at most one result, and all ways the execution may take, from
`OperatorShape`, `ResultShape`, `ValueShape`, `ImmediateShape`, `BoundShape` and
`ModuleShape` of `FuncCompiler`:

| Theorem | States |
|---|---|
| `CompilerInvariant` | `Spec => []CompilerInv`: the checker's stacks are sound, and the compiler's in step with them |
| `LabelsAgree` | `Spec => []LabelsInStep` |
| `ExecInvariant` | `Spec => []ExecInv`, when branches leave loops clean |
| `OperandsChecked` | `Spec => []OperandsAsChecked`, when branches leave loops clean |
| `AccessesAreWritten` | `Spec => []AccessAsWritten`, for the same |
| `ReturnsItsResults` | `Spec => [](phase = "returned" => TypesOf(stack) = Results)`, for the same |

This is the type safety of the interpreter, which tests no operand when it runs: what
`TypeChecker.cpp` accepts, `BinarySource.cc` compiles to opcodes that never read
an operand of another type, a local, or what lies below the frame. A value
in the model has a type, but no opcode looks at it: they take what is in its place.

The invariant that carries it is a certificate (`CodeInv`): for every opcode that the checker
could reach, it finds the operands the checker knew before its instruction, takes of
them what it takes, and leads only to positions whose instructions were accepted with
what is left (`Leads`, `Arrives`). For a `br` or an `if` the position may
not be known yet: then the target is a label of a construct that is still open,
and the certificate says that the construct will be left with these operands (`Awaits`).
`OnElseExpr` and `OnEndExpr` put positions to labels, and `EndFunctionBody` copies them to the
opcodes; `GoesOn` and `Grows` say once, for every handler, what a new opcode must bring
along so that the old ones keep their certificate. A difficulty is that the checker
changes its mind: after an unconditional branch it cuts its stack to the height of the
construct and lets operands of any type appear, and the end of the construct
makes its results known again although none of them was there. The
certificate asks nothing of such instructions, so it has to be shown that no opcode
leads to one; a construct around it that cannot be reached makes all within it
unreachable (`Live`), and `Sound` bounds the places where `Any` may be on the stack. `ExecInv` then says
that the execution stands where the certificate holds, and each opcode's step
follows from what `Leads` says of it.

The condition is `CleanLoops`, again a finding (`BinarySource.cc:261`): a branch to a loop that leaves
operands behind leads to a position with more operands than it was accepted
with. The two stacks of the compiler agree without it. What is not proved is that the operands
are the same values that the structured body means (`ImplementsStructured`): what a body
means is found by the brackets in it, which nest to any depth.

`ProofLemmas` holds what more than one of the modules needs. Inductions are made
through `LeastNatural`, that every set of natural numbers has a least one (from the
library's `NatLessThanWellFounded` and `WFMin`), or, on the pointers, through sets that are
closed; `Iterates` shows that the recursive functions the operators use exist.

Not true for all values of the constants, and so proved only under a condition that is
named: the two of the allocator, `Roomy` and `Alone`, that of the compiler, `CleanLoops`, and the
conditions on guests and hosts in the tables above. The configurations of the runs satisfy them.

Only model-checked: liveness (TLAPS proves none of it here); the reader, whose properties compare
the module with counts and selections over all items read so far, an induction over data;
the refinement `ImplementsStructured` of the compiler, over the recursive structure of
bodies; and the opcodes, since `NumericOps` uses `Bitwise`, whose operators are recursive, so that
nothing can be proved of them.

## Where the code disagrees with its documentation

One disagreement has a run that exhibits it, `interp_locals`. TLC
finds the following ones too, when the named constant is changed in the run's
configuration, the named property added to it, or the named exception taken out
of a property:

- `BinarySource.cc:168` emits "memory_index offset" for an atomic access and
  `ThreadUtils.cc:56` reads them the other way round: the offset is used as the number of
  a memory. `AccessAsWritten` says of atomic accesses only what is true: those with
  offset 0 are right.
- `ThreadUtils.cc:206` and `218`: a read-modify-write is a plain load and a plain
  store, and takes back what another thread has stored between them (`TakesBack`
  in `ImplementsShared`).
- `ThreadOps.cc:219`, `229`: the truncation of an f64 to an i32 or u32 traps when the
  integer part is the last one of the type and a fraction is left, which
  WebAssembly truncates (`Truncations`).
- `Environment.cpp:31`: memory that `new []` has made is cleared by one byte a page, the
  rest of it is as it was (`Unset` in `BytesAsDeclared`).
- `SPWasmScriptRuntime.cpp:49`: `tryDeduceStackOffsetFromGlobal` asks for the place of a global among
  the definitions of its module where the index is wanted; with imported globals it reads
  another one, and the allocator may be placed over the module's stack
  (the last condition of `truthful` in `AllocatorIntact`).

- `SPWasmScriptAllocator.cc:348`: after a growth `origin` is advanced in the freed
  copy of the allocator, and the next node is constructed over the one the growth
  was made for; `NodesDisjoint` fails in the sequential run.
- `BinaryData.cc:38`: a segment with an empty initializer takes the value the one
  before has left (`"initializer"` in `Unnoticed`); `AcceptsExactlyValid` fails. So
  it does for a global whose initializer names the global itself (`"self"`), which
  is zero by then.
- `Binary.cpp:1870`: the number of bodies is compared in the code section only, so
  that functions may have none (`"code"`); `BinaryData.cc:32`: the table, memory
  and functions of a segment are not looked up (`"target"`), and the loader uses
  the memory's number unchecked. `ImplementsStore` or `ReadsAsWritten` fails.
- `Environment.cpp:57`: an image loaded under a name that is taken is read into
  the module that is there, which is erased if that fails (`Reload = TRUE`);
  `ImplementsStore` fails.

- `ThreadUtils.cc:339`: a trap on entry to `Run` returns with the lock still
  owned (`EntryTraps = TRUE` in the liveness run); `GrowthCompletes` fails.
- `SPWasmScriptAllocator.cc:623`: `make_child` tells the former first child that
  it hangs on the wrong pointer (`AnyOrder = TRUE`): an older child is
  destroyed through it, and `ChildListExact` fails.
- `BinarySource.cc:261`: a branch back to a loop does not drop the operands of
  the turn before (`CleanLoops = FALSE`): they pile up, and the `End` of a
  block inside the loop then cuts down to one of them; `ImplementsStructured`
  fails with `loop const br 0 end`. Compilers emit such branches rarely.
- `ThreadUtils.cc:414`: a grower clears the flag that another grower has raised
  at 412 "to suspend others thread"; the second one then waits until the guests
  leave `Run` by themselves. `GrowthCompletes` excepts that case.
- `ThreadUtils.cc:409`: a host outside `Run` owns no lock and reallocates at
  once (`HostGrowers`); `NoDanglingAccess` fails.
- `Thread.cpp:394`: two growths may return the same old size.
- `Environment.cpp:788`: the page sum wraps (`Deltas` near `PageCounter`); the
  memory shrinks.
- `Thread.h:74`: `stopFlag` has no initializer (`InitialFlags = {TRUE}`); a
  thread may park although nobody grows.
- `SPWasmScriptAllocator.cc:334-348`: `origin` is used outside the lock; two
  threads get the same node (`NodesDisjoint` in the concurrent run). At 334 a
  huge request wraps.
- `SPWasmScriptAllocator.cc:387`: `last` is written after the unlock, though
  line 139 calls it the "largest used index"; a stale value lets the loop of 293-297 count below zero.
  The test at 275 then admits every index, and the loop at 283 walks past the end of `buf`
  and takes the word it finds for a node. The concurrent run reaches this
  (`TakeAstray`); `~Astray` fails there as an invariant.
- `SPWasmScriptAllocator.cc:540-557`: `clear` of the root pool gives back the memory of
  the cells that `push` (648) and of the `ThreadContext` that `ScriptThread::init`
  have allocated from it; `poolStack` and `unused` still point there. The
  last three conditions of `CellsPartition` are for the time before (`Kept`).
- `SPWasmScriptMemory.cc:61`: the context is looked up by `getUserStackPointer()`, but
  stored by `setUserContext` (`SPWasmScriptRuntime.cpp:204`).
- `SPWasmScriptMemory.cc:63`: a pool without a parent goes below the top of the
  stack; `WasmScript/Memory.h:30` says below the root pool.
- `SPWasmScriptAllocator.cc:451`: `free_buf` drops the buffer it should list.
- `ThreadUtils.cc:152`: after a host function has run guest code, `PopCall` uses
  the locals of the frame that has gone (`StaleReturn = TRUE`): `FramesStacked`
  fails, the value stack grows by every such call.
- `Thread.h:269`: `Prepare` moves results to before the slots it has used
  (`Prepared = {inc}`): it overwrites the pending host function's arguments, or
  what lies before the array.
- `Environment.cpp:516`: an import bound by recursion copies the object without
  comparing signatures (or widening the memory), which 495 does for the same
  import when the names of the modules sort the other way. `ImportsChecked`
  leaves these imports out; without the exception TLC finds it violated.

`Binary.cpp:1976` goes on after a failed section at `_read_end`, "the expected
section end", which inside of a subsection of a custom section is the end of that.
Three more follow from reading the code and are kept out of `Linker` by its
`Init`: the unbounded recursion at `Environment.cpp:514` (`getGlobalValue` stops
at depth 16, line 117), the lookup by name only at 481 and 559, and the
index at 323, which is below zero for a mutable host global nobody imports
("export mutable globals directly by copy", line 322; an imported one is asked
of the policy instead).

## Plan

What remains to be written are pure operators: LEB128, the user stack of `Thread`. The
proof that remains is that of the reader (`AcceptsExactlyValid`).

## Not modelled

Text utilities, host math and strings, the scripts' headers and the test runner
have no state, or print; float arithmetic is the hardware's; the tables of
modules and opcodes are constant data. `ThreadedRuntime` only pairs a runtime with
threads the embedder makes. The bindings of the script runtime are modelled as far as
they touch pools and stacks. See `PROJECT.json` for each part.
