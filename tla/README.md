# Bohrium: a verification project in TLA+

Bohrium runs array programs. A language bridge records array operations as
instructions; filters and fusers rewrite the list; a vector engine manager
(VEM) distributes it; a vector engine (VE) computes. This directory models the
parts of Bohrium where that order, or the memory behind it, can go wrong,
checks the models with TLC on small instances, and proves the main invariants
of eight of them with TLAPS for every instance.

All paths below are relative to `src/`.

## 1. The system

```
 bridge (npbackend, bxx, ...)      application calls, arrays, temporaries
        | bh_ir: a list of instructions
 filter (bcexp, bccon, ...)        rewrites the list
        |
 fuser (singleton ... greedy)      groups instructions into kernels, fuse cache
        |
 VEM (node, cluster, proxy)        where arrays live; cluster: MPI processes
        |
 VE (cpu, gpu)                     runs kernels; memory through the victim cache
```

The components call each other synchronously (`init`, `execute`, `shutdown`,
`extmethod`). Concurrency exists in the cluster VEM (processes), the SIGSEGV
handler of the NumPy bridge (a fault may come at any access), the optimal fuser
(threads), the CPU engine (the threads of a loop) and the GPU engine (threads
that compile, and a device that executes out of order).

| part | state | operations | what is hard |
|---|---|---|---|
| victim cache, `core/bh_vcache.cpp`, `core/bh_memory.cpp` | slots, sizes, round-robin cursor, `base->data` | malloc, free, find, insert, clear; allocation and export past the cache | one owner per block while several parties hold pointers |
| views and dependencies, `core/bh.cpp` | none | simplify, aligned, disjoint, dependency | integer arithmetic over strides and shapes |
| kernels and fuse models, `core/bh_ir.cpp`, `core/bh_fuse.cpp` | instruction indexes, inputs, outputs, temporaries, frees, discards, syncs | add_instr, fusible, dependency, savings | nine rules that decide which loops may be fused |
| graph of kernels, `core/bh_dag.cpp` | dependency and weight edges | build, merge, split, remove, sort | merges that make cycles or reorder; stale weights |
| fusers, `fuser/*` | the graphs of a batch | singleton, topological, gentle, greedy, optimal | loops to a fixed point; optimal: a shared task queue |
| fuse cache, `core/bh_fuse_cache.cpp` | hash to kernel list, files | lookup, insert, write, load | keys that say too little; files of other sessions |
| cluster VEM, `vem/cluster` | maps of arrays, slots, local blocks, task list, MPI messages | execute, dispatch, scatter, gather, flush, free, discard, shutdown | processes that must make the same decisions |
| NumPy bridge, `bridge/npbackend`, `core/bh_mem_signal.cpp` | where data lives, protection, segments, cached views | np2bhc, bhc2np, fault, dealloc, ufunc | two copies of an array and a handler that moves between them |
| C++ bridge, `bridge/cpp/bxx` | queue, reference counts, garbage, temporaries | expressions, assignment, slices, export, flush, shutdown | temporaries deleted by their users; a flush at any push |
| node VEM, `vem/node` | set of known arrays | execute, shutdown | the set must survive errors below |
| proxy VEM, `vem/proxy` | tables of arrays on both sides of a TCP connection | the calls as packets | agreement of the tables |
| CPU engine, `ve/cpu` | symbol table, functions, object files, `base->data` | execute, compile, load, run | a loop that is found by its symbol, perhaps in a file of another session, must be the loop of this block; arrays contracted to variables |
| GPU engine, `ve/gpu` | buffers, events, call queue, known and compiled kernels | schedule, compile and run, sync, discard | threads that drain the queue; commands ordered by events only |
| filters, `filter/*` | bcexp: the arrays it made | rewriting of lists | identities that must hold for every view; arrays that nobody else knows |

`PROJECT.json` lists the components with their status, and the hazards, each at
its line with the properties that would show it.

## 2. Modules

| module | models | extends |
|---|---|---|
| `Vcache` | the victim cache and the operations on `base->data` around it | |
| `VcacheProofs` | proofs about `Vcache` | `Vcache` |
| `Mapping` | `mapping_chunks`: how a view is cut into chunks | |
| `ChunkedExec` | one instruction of the cluster VEM, chunk by chunk | `Mapping` |
| `Instructions` | instruction lists and what they compute, elements as numbers | |
| `Vem` | what a VEM promises the bridge (abstract) | `Instructions` |
| `Cluster` | the cluster VEM, all processes | `Mapping`, `Instructions` |
| `ClusterVem` | that `Cluster` implements `Vem` | `Cluster`, instantiates `Vem` |
| `ClusterProofs` | proofs about the tables of `Cluster` | `Cluster` |
| `Batch` | the order of point-to-point messages in a flush | |
| `BatchProofs` | proofs about `Batch` | `Batch` |
| `NpArray` | arrays of the NumPy bridge and the fault handler | |
| `NpArrayProofs` | proofs about `NpArray` | `NpArray` |
| `Runtime` | arrays and instruction queue of the C++ bridge | |
| `RuntimeProofs` | proofs about `Runtime` | `Runtime` |
| `View` | views: simplify, aligned, disjoint; what they mean | |
| `Kernel` | kernels, fuse models, dependency, savings | `View` |
| `Dag` | the graph of kernels | `Kernel` |
| `Fuser` | the fusers and the fuse cache | `Dag` |
| `Optimal` | the search of the optimal fuser and its task queue | |
| `OptimalProofs` | proofs about `Optimal` | `Optimal` |
| `Bytecode` | what instructions compute, on views | `View` |
| `Machine` | what a stack of components promises the bridge (abstract) | `Bytecode` |
| `Filter` | the filters bcexp, bccon and dimclean | `Bytecode` |
| `Engine` | filters, topological fuser, node VEM and CPU engine in a stack | `Kernel`, `Filter`, instantiates `Machine` |
| `EngineProofs` | proofs about the kernel store of `Engine` | `Engine` |
| `Gpu` | the GPU engine: scheduler, compiling threads, device | |
| `GpuProofs` | proofs about `Gpu` | `Gpu` |
| `MC*` | constants for TLC | |

Definitions have the names of the functions they model. A definition with a
comment that begins with "Mutant" is a variant of the one after it with a
plausible mistake; `PROJECT.json` says which property each one violates.
`Mapping` and `Cluster` write out two helpers on sequences (`Concat`,
`Reversed`) that the community modules have: TLAPS's time for a step grows with
all that a module extends, and the proofs about `Cluster` have thousands of
steps. For the same reason the refinement is in a module of its own, and
`ClusterProofs` takes in the library's theorems only at its end: lemmas before
that have what they need of the library as a hypothesis (`LeastNumbers`,
`NewArraysAreListed`), which the last ones prove.

### Victim cache (`Vcache`)

`vcache`, `vcache_bytes` and `cur` are the arrays of `bh_vcache.cpp`, `data` is
`base->data`, and `mapped` is the memory that `bh_memory.cpp` has from the
operating system: the number of bytes mapped at each address. Every function of the cache is an action or an
operator with its name. `bh_data_malloc`, `bh_data_free` and `bh_data_export`
work on `base->data` without the cache; `Consume` is the bridge releasing
memory it exported.

`SoleOwner`: a block has one owner among base arrays, slots and exported
pointers. `SizesAgree`: an owner's idea of the size of a block is right, so
that a hit in the cache is large enough and `munmap` releases all of it.
`NoLeak`: mapped memory has an owner.

### Cluster VEM (`Mapping`, `ChunkedExec`, `Instructions`, `Vem`, `Cluster`, `ClusterVem`, `Batch`)

`Mapping` translates `mapping_chunks`: boxes of the iteration space, with the
rank that holds each operand. `ChunkedExec` runs one instruction with them. A
value is the bag of input positions that were combined into it, so that a lost
or doubled element is visible. `ChunksAreRight`: the chunks divide the view, and
each is on one process; `ResultIsExpected` compares with the meaning of the instruction on
an undistributed array; `MtmpFits` is the size of the temporary of a reduction.

`Vem` is the contract: instructions are applied one after the other to one
memory; the bridge sees `base->data`, which `BH_SYNC` brings up to date.

`Cluster` has one action per handler on each process: dispatch of an
instruction list, slave loop, scatter, scheduling of chunks into the task list,
flush of one task, gather, free, discard, return, shutdown. MPI is external:
messages between two processes stay in order; a send or a collective call
returns at once or when it has been received, both allowed by the standard
(`buffered`). Arithmetic is abstracted to maximum, with an undefined value that
absorbs. `ImplementsVem` (in `ClusterVem`) is the refinement `V!Spec`, with `todo <- ir[0]` and a
history variable `mem` for the memory. `TablesAgree`: master and slaves mean the
same array by the same name, a free slot is free once and not in use, none is
lost, and between two lists only known arrays have a local block.
`MessagesMatch`: the processes make the collective calls in the same order, and
after a list no message is under way and no temporary array is left.

`Batch` isolates the question whether blocking sends and receives in task-list
order can deadlock or mix up messages with one tag. The sequence of moves is a
parameter, so that the proof covers every instruction list and mapping.

### NumPy bridge (`NpArray`)

The record `st[b]` holds the Bohrium-C array of a base array, whether NumPy
memory is protected and attached to the signal handler, the data on both sides
and the cached view of each Python array. Data is the number of writes it
contains. `access` is a NumPy access to memory: protected memory runs
`sighandler`. `ReadsLatest`: a read on either side sees the last write.
`NeverKilled`: a fault finds its segment. `NoConflict`:
`bh_mem_signal_attach` never meets an attached segment, which would leave the
mutex locked.

### C++ bridge (`Runtime`)

One record holds the multi_arrays, `ref_count`, `garbage`, the queue and the
bh_bases that exist. An operation of the application is one action: the bridge
is single-threaded. Inside, the functions of `runtime.hpp` and
`multi_array.hpp` are operators from record to record, and a flush happens
where the code would do it: when an enqueue finds the queue full. An execute may fail once;
it throws, and the rest of the operation does not happen.

`QueueFits`: the array behind the queue is not overrun. `NothingDangles`: no
queued instruction, and no live multi_array, refers to a deleted bh_base.
`RefCountsAgree`: counts are numbers of users. Both except after an assignment
that an exception cut short (`halfway`). `NothingLeaks`: while no execute has
failed, a bh_base without users is in `garbage`, and is not deleted with its
data still allocated.

### Fusion (`View`, `Kernel`, `Dag`, `Fuser`)

`View` has the functions on views of `bh.cpp`, and their meaning: `Pattern` is
the sequence of positions that a view visits. `Kernel` has the nine fuse models
and `bh_ir_kernel`. `Dag` has the two graphs of `bh_dag.cpp`: kernels as
vertices, dependency edges `D`, weights `W`. `Fuser` is the state machine:
`execute` looks a batch up in the cache; each fuser is an action, or for gentle
and greedy one action per round of the loop; `shutdown` and `init` write and
load the files, with another fuser or fuse model in the next session.
Where boost leaves an order open (topological sort, the edge of greatest
weight), the model has every choice.

`DagIsValid` is `dag_validate`, an assertion of the code, and one conjunct
more: no two kernels depend on each other. `NothingLost` and `OrderIsKept`:
each instruction is in the kernel list once, and conflicting instructions keep
their order. `FusedLoopsAgree`: kernels interleave iterations; this may not
change what element-wise instructions compute. `OwnKernelsAreFusible`: kernels
contain pairwise fusible instructions, when the list was computed for this
batch and model. `ViewsAreSound`: views that are found disjoint are, and a
simplified view has the same elements in the same order. `GreedyAdvances`: each round of the greedy loop removes a
vertex or an edge, so that it ends.

A cached kernel list may belong to another batch (section 6). `NothingLost`
holds for those, too; `OrderIsKept` and `FusedLoopsAgree` are stated for lists
computed for the batch.

### Optimal fuser (`Optimal`)

`branch_n_bound` is run by a team of threads. A task is a mask, the set of edges
of the graph of kernels to merge, and an offset; `tasks`, `nwaiting` and
`finished` are the `TaskQueue`. The steps of a thread are those between which
another thread can be seen: `pop` and its wait on the condition variable
(spurious wake-ups included), `fuse` (`fuse_mask`, with the first read of
`best_cost`), `check` (the second read), `save` (the critical section, which
also stores the kernel list and its file), and one step for each `push`.
What `fuse_mask` finds out about a mask (cost, and whether kernels are fusible
and the graph has no cycle) is given with the problem. The history variable
`lowest` is the least value that `best_cost` has had.

`FinishedIsRight`: the queue is declared finished only when there is no task and
no thread that may push one. `FoundOptimal`:
at the end `best_cost` has been as low as any legal mask's cost, although it is
read without a lock and may be raised again by a slower thread; the result
is never worse than the greedy guess. `Terminates`: all threads leave.

### Filters, node VEM and CPU engine (`Bytecode`, `Machine`, `Filter`, `Engine`)

`Bytecode` gives instructions a meaning: data is a function from positions to
complex numbers, `Run` applies a list to it. `Machine` is the promise to the
bridge: a call applies its batch, one instruction after the other, and the
set of known arrays follows. A process that ends starts again from the data of
the bridge.

`Filter` translates the rewriting of lists: `expand` (powers, matrix products,
signs, with the temporary arrays they need), `contract` (chains of reductions),
`dimclean`.

`Engine` is a stack as the configuration file describes it. A call goes through
the filters (one action each), `fuse` (the topological fuser and the node's
`inspect`), and for each kernel through `compose`, `prepare`
(contraction of temporaries, iteration space, symbol), `compile` or
`compile_fails` or `killed`, `run` (allocation, loading, the call), `iterate`
and `sync` for each thread, `join` (release of freed arrays); `run_system` and
`extension` are the other kinds of block. `jit_level` decides what is fused
and compiled. `source` is what the generator makes of a block: its walker
(collapsed, nested, reduction over an axis), layouts, initial values and order
of operations, as data instead of text. The store keeps functions by symbol,
and files that outlive the session; a kill leaves a file that cannot be loaded.

`ImplementsMachine` is the refinement `Abstract!Spec` with `arrays`, `known` and
`batch` as history. `RunsOwnCode`: a function found by the symbol of a block is
the one that would be generated for it. `ErrorsHaveACause`: with a compiler, a
call whose code compiled fails only where a kill left a part of the file of the
same symbol. `NothingLeaks`: between calls the temporary arrays of bcexp and
contracted outputs have no memory. `OnlyExtensionsCrash`: no function is called
with an array without memory. The one way to crash is a kernel with an
extension method that begins with a system instruction: a batch of the run has
it, and section 6 describes it.

`Compiles` is what the generator gets wrong: the nested templates declare
operands inside the loop and write scalars back behind it, so a kernel that
computes a scalar beside a nested loop does not compile, and the call returns
an error. One batch does that.

### GPU engine (`Gpu`)

The main thread goes through the kernels of a list (`generateKernel`,
`runKnown`, `runNew`, `buildNext`, `afterCall`, `systemKernel`); detached threads run
`build` (`compiled`, `drain`, `drained`); `kernelMutex` is `lock`. OpenCL is
external: `device` is the set of commands that were given to it, and
`complete` executes any command whose events are complete. An array is one
value; a kernel computes a function of its inputs, so that a wrong
order gives a wrong value. `mem` is the history of what the arrays should be.

`NoDangling`: no buffer is deleted that a queued call, a command or the map of
arrays refers to. `ConflictsAreOrdered`: of two commands that conflict the
device cannot run the one issued later while the other is still to run. `HostIsCurrent`: `BH_SYNC` delivers the value of sequential execution.
`NothingLeaks`: discarded buffers are deleted. `Progress`: a sync does not wait
for ever, and every queued call is issued.

## 3. Runs

| run | instance | shows |
|---|---|---|
| `vcache` | 3 base arrays of 2 sizes, 4 addresses, 2 slots | memory discipline, in every order of calls |
| `chunked_exec` | 3 processes, 11 elements, strides 0 to 3, 1 and 2 dimensions | results equal the undistributed ones |
| `cluster` | master and 2 slaves, 3 calls | agreement, matching, refinement of `Vem`, no deadlock |
| `cluster_returns` | master and 1 slave, 2 calls, fairness | calls return, shutdown reaches the slave |
| `batch` | 3 processes, all sequences of 4 moves | messages reach their receives, no deadlock |
| `np_array` | 2 base arrays, 2 views, access at the start | coherence |
| `np_interior` | access after the start | **violation**, section 6 |
| `bxx` | 2 variables, 2 temporaries, 2 bh_bases, queue of 2 | queue, counts, garbage |
| `fusion` | lists of up to 4 instructions, 4 fusers, 4 models, 2 sessions | order, validity, meaning |
| `optimal` | 1 to 3 threads, 3 edges, fairness | the search ends, at the right time, with the optimum |
| `gpu` | 2 calls of 6 lists, 3 arrays, all modes of compilation, fairness | buffers, order, data, progress |
| `engine` | 2 of 19 batches, 2 sessions, 2 stacks, 4 jit levels, 1 failure | refinement of `Machine`, the store, memory |

Seven more configurations are instances for an observation of section 6 and are
expected to fail: `MCAccumulate.cfg`, `MCFuseCache.cfg`, `MCTransposed.cfg`,
`MCGpuFree.cfg`, `MCGpuSync.cfg`, `MCExtension.cfg`, `MCScalar.cfg`.

### Bounds

* `vcache`: a cache of two slots evicts, wraps and holds two blocks of
  the same size; three arrays of which two share a size make hits and
  misses. The proof has no bounds.
* `chunked_exec`: 11 elements over 3 processes leave a larger block on the
  last one; strides up to 3 cross a block boundary in the middle and skip it;
  stride 0 is a broadcast. Negative strides are left out (section 6).
* `cluster`: three processes are the fewest where two slaves exchange data
  without the master. `BhIRs` has lists that create, compute across blocks,
  reduce, sync, free and discard; three calls are needed for an array to be
  discarded and its slot used again.
* `np_array`: `MaxGen` and `MaxWrites` let an array go to Bohrium three times.
* `bxx`: with a queue of two, every operation flushes in the middle for some
  fill; two addresses for bh_bases make address reuse certain.
* `fusion`: `MaxInstrs = 4` is one list of four instructions, or two batches of
  two in one or two sessions. The lists are over instructions that write
  overlapping, shifted, aligned, broadcast and two-dimensional views, sweeps, scalars,
  generators and system instructions. Four models stand for the nine: the
  broadest (the default), two same-shape rules that share a hash function, and
  the one that keeps scalars apart.
* `optimal`: with three edges a task has children and grandchildren; two masks of
  different cost, each legal or not, make threads race for `best_cost`; a
  third thread can wait while the others race. The theorems have no bounds.
* `gpu`: the lists reuse one kernel with two sizes, overwrite what another kernel
  reads, discard and free in the list that uses an array and in a later one, and
  sync. Two calls are needed for a call that finds a kernel known but not
  compiled, and for one that finds it in the queue behind another.
* `engine`: each batch is a path through the stack: composites with a temporary,
  a chain that can be contracted and one that cannot, temporaries that become
  variables, equal instructions on other layouts, a scalar that is set beside
  arrays, extension methods before and behind system instructions. No batch ends
  an array behind an extension method, or updates a scalar beside an array
  (section 6). The second batch meets functions, layouts and arrays of the first; the
  second session meets its files. Vectors of four elements on two threads share
  evenly, of three they do not.

Deadlock is checked where the system must go on (`vcache`, `chunked_exec`,
`cluster`, `batch`, `np_array`, `gpu`). The bridge may stop
after its last call, the fusers and the CPU engine after their last batch.

### Fairness

`FairSpec` in `Cluster` has weak fairness on `Running`, the steps of all
processes: an MPI process that can go on is scheduled, and nothing is assumed
about which one. The bridge is not fair: it need not call. Without fairness a
process may stop for ever; the code has no timeouts, and a failed process ends
the MPI job.

In `Optimal`, each thread's step is weakly fair: the operating system runs every
thread that can run, and mutex and critical section are granted in the end.
Spurious wake-ups are not fair. In `Gpu`, the main thread, each compiling thread
and the device (some command that can run) are weakly fair; calls of the bridge,
failures and sleeping in `sync` are not.

## 4. Proofs

`VcacheProofs`: **MemoryHasOneOwner** (`Spec => []SoleOwner`), **SizesAreTrue**
(`SizesAgree`) and **MemoryIsNotLost** (`NoLeak`), for any sets of arrays and
addresses, any sizes and any number of slots (0, a disabled cache, included).
Assumptions: `Size` is a natural number, sizes are natural numbers, NULL is not
an address. The properties are inductive together once two facts join them: a
base array with data is not empty, and exported memory is mapped. They make
every owned address a mapped one, so that a fresh mapping has no owner. One
lemma per operation; insertion into a full cache (free the block in the slot,
store, advance) is the longest.

`BatchProofs`: **FlushDelivers** (`Spec => []RightMessage`) and
**FlushNeverBlocks** (`NeverStuck`), for any set of processes and any common
sequence of moves, buffered or not. Assumption: no process sends to itself
(`comm_array_data` returns at once). The inductive invariant says where
processes can be relative to each other (a receiver is past a move only if the
sender is, and without buffering the other way round) and that the wire between
two processes has exactly the pending moves, in order. `NeverStuck` takes the
least position of an unfinished process: all others have passed it or are
there, so that this move can be made; the least element comes from the
well-foundedness of the natural numbers.

`OptimalProofs`: **QueueIsRight**
(`Spec => [](TypeOK /\ FinishedIsRight /\ NeverStuck)`) and **SearchIsComplete**
(`Spec => []FoundOptimal`), for any finite set of threads, any number of edges
and any costs and legal masks. Assumption: merging more edges does not cost
more, which is what makes pruning right; a kernel loads and stores no more than
its parts do. `QInv`, for the queue: until the end `nwaiting` is the number of
threads that wait in `pop`, no thread has left, and not all of them wait without
a task. `SInv`, for the search: a legal mask that is cheaper than every value
`best_cost` has had is below a task that is in the queue or that a thread still
works on, wherever the thread is. It is stated with `lowest` because
`best_cost` may go up. The steps are one lemma for each action; the
search needs that the tasks below a task are its mask and those below
its children (`SubtreeChild`), which a step of `push` splits.

`NpArrayProofs`: **ReadsSeeWrites** (`Spec => []ReadsLatest`),
**MutexIsReleased** (`NoConflict`) and **TouchingTheStartIsSafe**
(`NeverKilled`), for any base arrays, views and numbers of writes. Assumptions:
views belong to base arrays, the segments are disjoint and lie in the range of
addresses, NumPy touches memory within a segment. The last theorem has the
hypothesis that the first touch is at the first byte; `np_interior` shows that
it is needed. The inductive invariant says on which side the latest content of
an array is, that data in Bohrium is behind a protected and attached segment,
and that a cached view is one of the present Bohrium-C array: versions only
grow, so that a stale view is never taken for current later. It is stated of
one record, in a form that holds in the middle of a move, since an operation is
a chain of moves.

`RuntimeProofs`: **QueueNeverOverflows** (`Spec => []QueueFits`),
**BasesOutliveTheirUsers** (`NothingDangles`), **ReferencesAreCounted**
(`RefCountsAgree`) and **EverythingIsFreed** (`NothingLeaks`), for any arrays,
bh_bases and size of the queue. Assumptions: the queue has an entry, the arrays
are finitely many (counts are cardinalities), NULL is not a bh_base. An operation is a chain
of pushes, flushes and destructors, any of which may execute the queue and fail,
so `Good` is an invariant of the record and each operator keeps it. What a
flush in the middle leaves alone is the set of bh_bases that are not garbage;
no array refers to garbage because a bh_base is trashed when its count is 0.

`GpuProofs`: **DiscardedIsDeleted** (`Spec => []NothingLeaks`),
**BuffersOutliveTheirUsers** (`NoDangling`) and **EventsOrderConflicts**
(`ConflictsAreOrdered`), for any arrays, lists, number of calls and of compiling
threads. `Owned` says who will delete a buffer: the map of arrays, the call of
the main thread or exactly one call of the queue. `Safe` adds that no call deletes what
a later one uses, and, for the events: a buffer only remembers its last writer
and the readers since, but every earlier writer is one that a later one waits
for. The last two theorems are for lists of `SafeKernels`, in which a kernel
that syncs and discards syncs an array that it computes on, and a scalar kernel
discards only arrays that it uses or syncs. This is when the comment in
`InstructionScheduler.cpp` that the queue is empty after a sync is true;
`MCGpuSync.cfg` shows that it is needed. Lists of one-instruction kernels are safe, as
are those in which a kernel syncs what it writes.

`EngineProofs`: **ErrorsComeFromTheCompiler** (`Spec => []ErrorsHaveACause`) and
**OnlyWholeFilesAreLoaded**, for any batches, stacks and number of sessions.
Assumption: jit levels are 0 to 3. The invariant relates the functions in memory to the table of
libraries, the table to files of the same symbol in the directory, and a file that is not whole to a
failure, across sessions. A symbol that is missing at the call has an entry in the table, since the
compiler or the constructor made one, and so its own file is the part that was left.

`ClusterProofs`: **SlavesKnowTheirArrays** (`Spec => []TablesAgree`), for any
number of processes, any arrays, sizes and lists of instructions, buffered or
not. Assumptions: an array is not used after its `BH_DISCARD` in the same list
(the bridge deletes it), slots are not NULL. The heart of the invariant is `Behind`: a slave may be any
number of messages behind the master, and the messages it has not read lead,
one after the other, from what it will know after its own list to what the
master will take for known after the master's. Each message of a list brings
exactly the arrays that are new at that point and takes away those that the list
discards; this makes every lookup of `dispatch_master2slave` succeed although
the maps are never compared. The remaining conjuncts are that the two maps are
inverse, that used and free slots are apart and complete, that a local array
without a slot is one that the next flush removes, and that a slave's
instruction is the translation of one of the bridge's. Hypothesis: `mapping_chunks`
returns a list (`ChunksAreListed`); which one does not matter here, and
`chunked_exec` checks what is in it.

Induction over data is needed in a few places (that `Concat` is defined and
returns a sequence, that the least position of a set exists). It goes by the
least counterexample, from the well-foundedness of the natural numbers.

Only model-checked:

* liveness and `ENABLED` (out of TLAPS's reach): `CallsReturn`,
  `ShutdownReachesAll`, `Terminates`, `Progress`;
* the refinements `ImplementsVem` and `ImplementsMachine`, `HostIsCurrent` and
  `MessagesMatch`: they compare values or the order of messages over whole lists;
* what recursive definitions compute: the chunks of `mapping_chunks`
  (`ChunksAreRight`, `ResultIsExpected`, `MtmpFits`), the graphs and kernels of
  `Fuser` (`GreedyAdvances` among them), the rewriting of `Filter`;
* `RunsOwnCode`, `NothingLeaks` and `OnlyExtensionsCrash` of `Engine`, which depend on
  what the batches are and on what the filters make of them.

## 5. Not modelled

* Proxy VEM: one client and one server, request and reply over TCP. Its tables of
  arrays raise the question that `Cluster` answers for many processes.
* Code generation as text. `Engine` has what the generated loops do; scans,
  gather and scatter, random numbers and more than three dimensions are left
  out there, as is the fuse cache (it is in `Fuser`). The kernels of the
  GPU engine are functions of their inputs.
* Configuration and loading of components, printing and pricing filters: input and
  output without state.
* The numerical library on top of the bridges, NumCIL (an array library of its
  own), MiniMatlab, FFTW and visualizer: compositions of the calls that are
  modelled, or calls of libraries.
* Within modelled components: extension methods in the cluster, threads that run
  Python-free code while another thread faults, errors of system calls, cache
  files that cannot be read, hash collisions (a hash is the data that is
  hashed), views without elements, the destructor of the GPU scheduler, teams of
  threads that OpenMP makes smaller than `omp_get_max_threads()`.
* In `Engine`: constants of complex types, `preload` switched off, libraries of
  several symbols (`.idx` files), and a bridge that goes on in the same session
  after an error (only a shutdown follows one). The threads of a function read
  their scalars in one step. Reductions are sums and products.
* In `Runtime`: data that the bridge imported (its destructor sends no
  `BH_FREE`), broadcasting and the exceptions about shapes; exported memory
  always starts with zeros. In `Gpu`: the exceptions for types and sizes that
  are not supported, and what the bridge does after a failed compilation.

## 6. Findings

A violation that a run shows:

* `np_interior`. `core/bh_mem_signal.cpp:55`: `get_segment` uses `lower_bound`,
  so only the first address of a segment is found; a first access elsewhere
  ends the process.

Observations that a configuration shows:

* `MCAccumulate.cfg`. `vem/cluster/exec.cpp:314` runs `BH_ADD_ACCUMULATE` like an
  element-wise operation: each chunk starts anew. `core/codegen/opcodes.json`
  says "Computes the prefix sum."
* `MCFuseCache.cfg`. `core/bh_fuse_cache.cpp:168`: for the broadest model (the
  default) the key has the identities of operands but not which of them
  overlap. A batch may get the kernels of a batch with no overlap, in which
  instructions are fused that are not fusible.
* `MCTransposed.cfg`. `core/bh.cpp:486`: `bh_view_disjoint` supposes that
  strides decrease; a transposed view and an element of it are called disjoint,
  while `include/bh.h:320` says it "will always return False on overlapping
  views".
* `MCGpuFree.cfg`. `ve/gpu/InstructionScheduler.cpp:90`: the memory of a freed
  array is released at once, while a copy of it to the device that does not
  block may still be under way.
* `MCGpuSync.cfg`. `ve/gpu/InstructionScheduler.cpp:52`: "After sync the queue
  is empty so we just discard". `sync` only waits if a synced array has a
  buffer; otherwise the discard deletes buffers that a queued call still uses.
  The last discard of `call_child` supposes the same. `GpuProofs` shows that no
  buffer dangles otherwise.
* `MCExtension.cfg`. `ve/cpu/engine.cpp:245`: of a kernel with an extension
  method only the first instruction is executed. `core/bh_fuse.cpp:265` fuses
  system instructions with anything, so that a `BH_FREE` behind the method is
  skipped and the memory is lost when the array is discarded. When the system
  instruction comes first it is taken for the method, and its `ext` is NULL: the
  run `engine` reaches this crash.
* `MCScalar.cfg`. `core/bh_fuse.cpp:346` skips the comparison of shapes when the
  later instruction computes a scalar. In the loop of the arrays it is executed
  once for each element: `s = s + 1` beside a vector adds the number of
  elements of the first thread. In a nested loop it does not compile
  (`walker.inner.nd.tpl:55`, `walker.axis.nd.tpl:71`).

Other observations, from reading the code:

* `vem/cluster/mapping.cpp:103`: with a negative stride the extent of a chunk is
  measured to the upper end of the block.
* `vem/cluster/bh_vem_cluster.cpp:87`: an extension method's opcode is passed
  where a pointer is expected.
* `vem/node/bh_vem_node.cpp:144`: the result of `inspect` is not used.
* `bridge/cpp/bxx/scan.hpp:34`: the result of `scan` is a temporary which the
  enqueue deletes before it is returned.
* `bridge/cpp/bxx/multi_array.hpp`: broadcasting or transposing a temporary
  leaks it; an exception in an assignment leaves reference counts wrong.
* `bridge/npbackend/src/_bhmodule.c:362`: when the data pointer cannot be had, the
  segment is already detached and the memory still protected.
* `core/bh_mem_signal.cpp:76`: the iterator is used after the mutex is released.
* `core/bh_ir.cpp:163`: an array that a kernel only writes and discards counts
  as temporary even when an earlier batch created it.
* `core/bh_fuse.cpp:75`: `NO_XSWEEP_SCALAR_SEPERATE` is the one model
  without an early return for system instructions; `check_fusible` of
  `fuse_same_shape_generate_1dreduce` is not symmetric, and skips the shapes
  when the output is a scalar (line 346).
* `fuser/optimal/fuser.cpp:284`: the comparison with `best_cost` is outside of the
  critical section that assigns it, so that a worse graph may replace a better
  one. `fuser/optimal/fuser.cpp:246`: the queue waits for
  `omp_get_max_threads()` threads; a smaller team never ends.
  `cache.write_to_files` does not overwrite a file, so that the first best
  stays on disk and not "the current best" (line 299).
* `ve/gpu/InstructionScheduler.cpp:134`: the destructor waits for an empty queue, not for threads that still compile. Line
  213: a kernel that fails to compile in the main thread leaves its call at the
  front of the queue, and a later sync waits for ever.
* `ve/cpu/engine.cpp:249`: an extension method that is not registered is skipped
  without an error.
* `ve/cpu/utils.cpp:226`: a complex constant in an addition, multiplication or
  division throws out of `Engine::execute`.
* `ve/cpu/codegen/walker_oper.cpp:32`: the neutral element of MAXIMUM is
  `FLT_MIN` or `DBL_MIN`, the smallest positive number: the maximum of negative
  numbers comes out wrong.
* `ve/cpu/store.cpp:212`: a file left by a compiler that was killed stays in
  `libraries_`, since `map::insert` keeps the old entry; its symbol fails in the later session.
* `ve/cpu/symbol_table.cpp:163`: contraction of an operand lasts for the batch.
* `ve/cpu/codegen/lang.cpp:888`: `BH_RANGE` uses `eidx`, which counts elements in
  the collapsed walker only.
* `filter/bccon/filter.cpp:76`: a chain of reductions is replaced although an
  array in between may not be discarded, or be read through another view; the
  batches of `engine` discard them.
* `filter/bcexp/expand_sign.cpp:68`: for complex numbers the output is written
  before the input is read for the last time; they may not be one array.
* `filter/dimclean`: run before bcexp it drops dimensions of size 1 that the
  expansion of a matrix product reads.
