-------------------------------- MODULE Gpu ---------------------------------
(***************************************************************************)
(* The GPU vector engine (ve/gpu): the main thread goes through the        *)
(* kernels of a list, copies arrays to buffers of the device and queues    *)
(* calls of kernels; detached threads compile kernels and issue the queued *)
(* calls in order; the device executes its commands out of order, held     *)
(* back by events only.                                                    *)
(*                                                                         *)
(* A kernel of a list is [fid, lit, ins, outs, c, scalar, syncs, discards, *)
(* frees]: the hashes of its source and of its sizes, the base arrays it   *)
(* reads and writes, a constant that tells computations apart, whether it  *)
(* is scalar, and its system instructions.  An array is one value.         *)
(*                                                                         *)
(* OpenCL is external: a command runs when all events it waits for are     *)
(* complete.  A buffer is <<base, n>>, the n-th one of its base array; an  *)
(* event is the buffer of a copy to the device, or <<"call", n>>.          *)
(***************************************************************************)
EXTENDS Naturals, Sequences, FiniteSets, FiniteSetsExt, Functions

CONSTANTS
  Base,        \* the base arrays
  Imports,     \* those that the bridge may give data to
  Lists,       \* the lists of kernels that the engine may be given
  Undef,       \* the value of memory that was not written
  NULL,        \* a base array without data
  Modulus,     \* values are computed modulo this number
  MaxCalls,    \* bound on the lists that are executed
  MaxThreads   \* the number of threads that may be needed

\* The kernels of a list.
Kernels == [fid : Nat, lit : Nat, ins : SUBSET Base, outs : SUBSET Base, c : Nat, scalar : BOOLEAN,
            syncs : SUBSET Base, discards : SUBSET Base, frees : SUBSET Base]

ASSUME BaseAssumption == "call" \notin Base
ASSUME ListsAssumption == Lists \subseteq Seq(Kernels)

VARIABLES
  config,      \* fixedSizeKernel, dynamicSizeKernel, asyncCompile
  calls,       \* the number of lists so far
  todo, pc,    \* the remaining kernels of the list, and where the main thread is
  call,        \* the SourceKernelCall of the main thread
  tobuild,     \* the kernels that compileAndRun still has to build by itself
  arrayMap, knownKernelID, kernelMap, callQueue,
  lock,        \* who holds kernelMutex: nobody, {0} for the main thread, or a thread
  threads,     \* the threads in build, 0 for the main thread: the KernelID and where they are
  spawned,     \* the number of threads so far
  heap,        \* the BaseArrays: contents, event of the last write, events of reads
  born, ncall, \* the number of buffers of a base array and of kernel calls so far
  device,      \* the commands of the device that are not complete
  data,        \* base->data
  mem,         \* history: the value that every array must have
  synced       \* history: the arrays whose base->data must be their value

host == <<data, mem, synced>>
compiler == <<knownKernelID, kernelMap, callQueue, lock, threads, spawned>>
gpu == <<heap, born, ncall, device>>
vars == <<config, calls, todo, pc, call, tobuild, arrayMap, compiler, gpu, host>>

NoCall == [id |-> <<0, 0>>, ins |-> {}, outs |-> {}, c |-> 0, discards |-> {}]

\* The result of a computation.
Computed(c, ins, value) ==
  IF \E x \in ins : value[x] \in {Undef, NULL} THEN Undef
  ELSE (c + 2 * MapThenSumSet(LAMBDA x : value[x], ins)) % Modulus

Init ==
  /\ config \in {cfg \in [fixed : BOOLEAN, dynamic : BOOLEAN, async : BOOLEAN] : cfg.fixed \/ cfg.dynamic}
  /\ calls = 0 /\ todo = <<>> /\ pc = "idle" /\ call = NoCall /\ tobuild = <<>>
  /\ arrayMap = <<>> /\ knownKernelID = <<>> /\ kernelMap = {} /\ callQueue = <<>>
  /\ lock = {} /\ threads = <<>> /\ spawned = 0
  /\ heap = <<>> /\ born = [b \in Base |-> 0] /\ ncall = 0 /\ device = {}
  /\ data = [b \in Base |-> NULL] /\ mem = [b \in Base |-> NULL] /\ synced = {}

\* The bridge gives data to an array, or new data to one that it has got back.
Bridge(b) ==
  /\ pc = "idle" /\ calls < MaxCalls
  /\ b \notin DOMAIN arrayMap /\ (b \in synced \/ data[b] = NULL)
  /\ data' = [data EXCEPT ![b] = 1] /\ mem' = [mem EXCEPT ![b] = 1] /\ data' # data
  /\ UNCHANGED <<config, calls, todo, pc, call, tobuild, arrayMap, compiler, gpu, synced>>

\* bh_ve_gpu_execute.
execute(list) ==
  /\ pc = "idle" /\ calls < MaxCalls
  /\ calls' = calls + 1 /\ todo' = list /\ pc' = IF list = <<>> THEN "idle" ELSE "kernel"
  /\ UNCHANGED <<config, call, tobuild, arrayMap, compiler, gpu, host>>

-----------------------------------------------------------------------------
(***************************************************************************)
(* The device: Kernel.cpp, Buffer.cpp.                                     *)
(***************************************************************************)
\* Mutant: a call that writes a buffer does not wait for those who read it.
waitForWrites(cl) == UNION {heap[x].write : x \in cl.ins \union cl.outs}

\* Kernel::call: what a call waits for.
waitFor(cl) == (UNION {heap[x].write : x \in cl.ins \union cl.outs}) \union (UNION {heap[x].reads : x \in cl.outs})

\* Kernel::call of a KernelCall: an out-of-order command, and the new events of its buffers.
Issue(cl) ==
  LET event == <<"call", ncall + 1>>
  IN  /\ ncall' = ncall + 1
      /\ device' = device \union
           {[id |-> event, ins |-> cl.ins, outs |-> cl.outs, c |-> cl.c, waits |-> waitFor(cl)]}
      /\ heap' = [x \in DOMAIN heap |->
           IF x \in cl.outs THEN [heap[x] EXCEPT !.write = {event}]
           ELSE IF x \in cl.ins THEN [heap[x] EXCEPT !.reads = @ \union {event}]
           ELSE heap[x]]

\* A command completes, and so does its event.  A copy to the device reads the memory of the host now.
complete(cmd) ==
  LET value == IF cmd.ins = {} /\ cmd.id \in cmd.outs
               THEN IF data[cmd.id[1]] = NULL THEN Undef ELSE data[cmd.id[1]]
               ELSE Computed(cmd.c, cmd.ins, [x \in cmd.ins |-> heap[x].content])
  IN  /\ cmd.waits = {}
      /\ device' = {[other EXCEPT !.waits = @ \ {cmd.id}] : other \in device \ {cmd}}
      /\ heap' = [x \in DOMAIN heap |->
           [content |-> IF x \in cmd.outs THEN value ELSE heap[x].content,
            write |-> heap[x].write \ {cmd.id}, reads |-> heap[x].reads \ {cmd.id}]]
      /\ UNCHANGED <<config, calls, todo, pc, call, tobuild, arrayMap, compiler, born, ncall, host>>

\* ~Buffer waits for the events of the buffer.
Deletable(bufs) == \A x \in bufs : heap[x].write = {} /\ heap[x].reads = {}

Without(bufs) == Restrict(heap, DOMAIN heap \ bufs)

-----------------------------------------------------------------------------
(***************************************************************************)
(* InstructionScheduler::schedule.                                         *)
(***************************************************************************)
Params(k) == k.ins \union k.outs

\* The buffers of those of the arrays that the engine knows.
Known(arrays) == {arrayMap[b] : b \in arrays \cap DOMAIN arrayMap}

Forget(arrays) == Restrict(arrayMap, DOMAIN arrayMap \ arrays)

\* generateKernel: new arrays get a buffer, and their data is copied to it, without waiting.  Without syncs
\* the discards are attached to the call.
generateKernel ==
  LET k == Head(todo)
      new == Params(k) \ DOMAIN arrayMap
      buffer == [b \in Params(k) |-> IF b \in new THEN <<b, born[b] + 1>> ELSE arrayMap[b]]
      copied == {b \in new : data[b] # NULL}
      known == [b \in DOMAIN arrayMap \union new |-> IF b \in new THEN buffer[b] ELSE arrayMap[b]]
      attached == IF k.syncs = {} THEN k.discards \cap DOMAIN known ELSE {}
  IN  /\ pc = "kernel" /\ todo # <<>> /\ k.outs # {} /\ ~k.scalar
      /\ born' = [b \in Base |-> IF b \in new THEN born[b] + 1 ELSE born[b]]
      /\ heap' = [x \in DOMAIN heap \union {buffer[b] : b \in new} |->
           IF x \in DOMAIN heap THEN heap[x]
           ELSE [content |-> Undef, write |-> IF x[1] \in copied THEN {x} ELSE {}, reads |-> {}]]
      /\ device' = device \union
           {[id |-> buffer[b], ins |-> {}, outs |-> {buffer[b]}, c |-> 0, waits |-> {}] : b \in copied}
      /\ arrayMap' = Restrict(known, DOMAIN known \ attached)
      /\ call' = [id |-> <<k.fid, k.lit>>, ins |-> {buffer[b] : b \in k.ins}, outs |-> {buffer[b] : b \in k.outs},
                  c |-> k.c, discards |-> {known[b] : b \in attached}]
      /\ mem' = [b \in Base |-> IF b \in k.outs THEN Computed(k.c, k.ins, mem) ELSE mem[b]]
      /\ synced' = synced \ k.outs
      /\ pc' = "compileAndRun"
      /\ UNCHANGED <<config, calls, todo, tobuild, compiler, ncall, data>>

\* Whether a call need not be queued.
callNow(id) == callQueue = <<>> /\ id \in kernelMap

\* compileAndRun of a kernel that is known: the call is issued or queued.
runKnown ==
  LET f == call.id[1]
      known == f \in DOMAIN knownKernelID /\ (config.dynamic \/ knownKernelID[f] = call.id[2])
      id == <<f, IF knownKernelID[f] = call.id[2] THEN call.id[2] ELSE 0>>
  IN  /\ pc = "compileAndRun" /\ known /\ lock = {}
      /\ IF callNow(id)
         THEN Issue(call) /\ lock' = {0} /\ pc' = "deleteBuffers" /\ UNCHANGED <<callQueue, call>>
         ELSE /\ callQueue' = Append(callQueue, [call EXCEPT !.id = id]) /\ call' = NoCall
              /\ pc' = "called" /\ UNCHANGED <<lock, heap, ncall, device>>
      /\ UNCHANGED <<config, calls, todo, tobuild, arrayMap, knownKernelID, kernelMap, threads, spawned, born, host>>

\* SourceKernelCall::deleteBuffers after the call.
deleteBuffers ==
  /\ pc = "deleteBuffers" /\ Deletable(call.discards)
  /\ heap' = Without(call.discards)
  /\ lock' = {} /\ call' = NoCall /\ pc' = "called"
  /\ UNCHANGED <<config, calls, todo, tobuild, arrayMap, knownKernelID, kernelMap, callQueue, threads, spawned,
                 born, ncall, device, host>>

\* compileAndRun of a new kernel: the call is queued, and the kernel built with fixed sizes, for all sizes or both.
runNew ==
  LET f == call.id[1]
      known == f \in DOMAIN knownKernelID /\ (config.dynamic \/ knownKernelID[f] = call.id[2])
      id == <<f, IF config.fixed THEN call.id[2] ELSE 0>>
      builds == (IF config.fixed THEN <<call.id>> ELSE <<>>) \o (IF config.dynamic THEN <<<<f, 0>>>> ELSE <<>>)
  IN  /\ pc = "compileAndRun" /\ ~known /\ lock = {}
      /\ knownKernelID' = [g \in DOMAIN knownKernelID \union {f} |->
           IF g \in DOMAIN knownKernelID THEN knownKernelID[g] ELSE id[2]]
      /\ callQueue' = Append(callQueue, [call EXCEPT !.id = id]) /\ call' = NoCall
      /\ IF config.async
         THEN /\ threads' = [t \in DOMAIN threads \union {spawned + i : i \in DOMAIN builds} |->
                   IF t \in DOMAIN threads THEN threads[t] ELSE [id |-> builds[t - spawned], at |-> "compile"]]
              /\ spawned' = spawned + Len(builds)
              /\ pc' = "called" /\ UNCHANGED tobuild
         ELSE tobuild' = builds /\ pc' = "build" /\ UNCHANGED <<threads, spawned>>
      /\ UNCHANGED <<config, calls, todo, arrayMap, kernelMap, lock, gpu, host>>

\* compileAndRun builds the kernels by itself, one after the other.
buildNext ==
  /\ pc = "build" /\ threads = <<>>
  /\ IF tobuild = <<>> THEN pc' = "called" /\ UNCHANGED <<threads, tobuild>>
     ELSE /\ threads' = [t \in {0} |-> [id |-> Head(tobuild), at |-> "compile"]]
          /\ tobuild' = Tail(tobuild) /\ UNCHANGED pc
  /\ UNCHANGED <<config, calls, todo, call, arrayMap, knownKernelID, kernelMap, callQueue, lock, spawned, gpu, host>>

\* Mutant: the read does not wait for the event of the last write.
SyncableAtOnce(arrays) == Known(arrays) # {} => callQueue = <<>> /\ lock = {}

\* sync: unless it knows none of the arrays, the main thread waits until the queue is empty, and the blocking
\* read waits for the event of the last write.
Syncable(arrays) ==
  Known(arrays) # {} => callQueue = <<>> /\ lock = {} /\ \A x \in Known(arrays) : heap[x].write = {}

Synced(arrays) ==
  [b \in Base |-> IF b \in arrays \cap DOMAIN arrayMap THEN heap[arrayMap[b]].content ELSE data[b]]

\* The end of a kernel: base->data of the frees is released, and the bridge has no claim to what was discarded.
EndKernel(k, newdata, newmem) ==
  /\ data' = [b \in Base |-> IF b \in k.frees THEN NULL ELSE newdata[b]]
  /\ mem' = [b \in Base |-> IF b \in k.frees THEN NULL ELSE IF b \in k.discards THEN newdata[b] ELSE newmem[b]]
  /\ synced' = ((synced \ k.outs) \union k.syncs) \ k.frees
  /\ todo' = Tail(todo)
  /\ pc' = IF Tail(todo) = <<>> THEN "idle" ELSE "kernel"

\* schedule after compileAndRun: with syncs, the discards follow them.
afterCall ==
  LET k == Head(todo)
      gone == IF k.syncs = {} THEN {} ELSE k.discards
  IN  /\ pc = "called" /\ Syncable(k.syncs) /\ Deletable(Known(gone))
      /\ heap' = Without(Known(gone)) /\ arrayMap' = Forget(gone)
      /\ EndKernel(k, Synced(k.syncs), mem)
      /\ UNCHANGED <<config, calls, call, tobuild, compiler, born, ncall, device>>

\* Mutant: the discards of a kernel without computations are done at once.
AttachNever == FALSE

\* Whether the discards are attached to the last call.
Attach == callQueue # <<>>

\* schedule of a kernel without computations: the discards are attached to the last call of the queue, if any.
systemKernel ==
  LET k == Head(todo)
      last == Len(callQueue)
  IN  /\ pc = "kernel" /\ todo # <<>> /\ k.outs = {} /\ (k.discards # {} => lock = {}) /\ Syncable(k.syncs)
      /\ IF Attach
         THEN callQueue' = [callQueue EXCEPT ![last].discards = @ \union Known(k.discards)] /\ UNCHANGED heap
         ELSE Deletable(Known(k.discards)) /\ heap' = Without(Known(k.discards)) /\ UNCHANGED callQueue
      /\ arrayMap' = Forget(k.discards)
      /\ EndKernel(k, Synced(k.syncs), mem)
      /\ UNCHANGED <<config, calls, call, tobuild, knownKernelID, kernelMap, lock, threads, spawned, born, ncall, device>>

\* What call_child syncs before the child computes on base->data.
ChildSyncs(k) == k.syncs \union Params(k)

\* call_child: a scalar kernel is computed by the child, on base->data.
call_child ==
  LET k == Head(todo)
      gone == k.outs \union k.discards
      value == Computed(k.c, k.ins, Synced(ChildSyncs(k)))
  IN  /\ pc = "kernel" /\ todo # <<>> /\ k.outs # {} /\ k.scalar
      /\ Syncable(ChildSyncs(k)) /\ Deletable(Known(gone))
      /\ heap' = Without(Known(gone)) /\ arrayMap' = Forget(gone)
      /\ EndKernel(k, [b \in Base |-> IF b \in k.outs THEN value ELSE Synced(ChildSyncs(k))[b]],
                      [b \in Base |-> IF b \in k.outs THEN Computed(k.c, k.ins, mem) ELSE mem[b]])
      /\ UNCHANGED <<config, calls, call, tobuild, compiler, born, ncall, device>>

\* The child fails: so does the call of the bridge.
childFails ==
  /\ pc = "kernel" /\ todo # <<>> /\ Head(todo).outs # {} /\ Head(todo).scalar
  /\ Syncable(ChildSyncs(Head(todo))) /\ Deletable(Known(Head(todo).outs))
  /\ heap' = Without(Known(Head(todo).outs)) /\ arrayMap' = Forget(Head(todo).outs)
  /\ data' = Synced(ChildSyncs(Head(todo)))
  /\ pc' = "failed"
  /\ UNCHANGED <<config, calls, todo, call, tobuild, compiler, born, ncall, device, mem, synced>>

\* The arrays that the main thread waits for in sync.
Awaited ==
  LET k == Head(todo)
  IN  IF pc = "called" \/ (pc = "kernel" /\ k.outs = {}) THEN k.syncs
      ELSE IF pc = "kernel" /\ k.scalar THEN ChildSyncs(k)
      ELSE {}

\* sync finds the queue not empty, and sleeps for 10 milliseconds.
sleep == todo # <<>> /\ callQueue # <<>> /\ Known(Awaited) # {} /\ UNCHANGED vars

main == generateKernel \/ runKnown \/ deleteBuffers \/ runNew \/ buildNext \/ afterCall \/ systemKernel \/ call_child

-----------------------------------------------------------------------------
(***************************************************************************)
(* InstructionScheduler::build.                                            *)
(***************************************************************************)
\* The kernel is compiled and becomes known; the thread now holds the mutex.
compiled(t) ==
  /\ threads[t].at = "compile" /\ lock = {}
  /\ kernelMap' = kernelMap \union {threads[t].id}
  /\ lock' = {t} /\ threads' = [threads EXCEPT ![t].at = "drain"]
  /\ UNCHANGED <<config, calls, todo, pc, call, tobuild, arrayMap, knownKernelID, callQueue, spawned, gpu, host>>

\* The kernel cannot be compiled: the exception ends the process, or the call of the bridge.
compileFails(t) ==
  /\ threads[t].at = "compile"
  /\ threads' = <<>> /\ pc' = "failed"
  /\ UNCHANGED <<config, calls, todo, call, tobuild, arrayMap, knownKernelID, kernelMap, callQueue, lock, spawned,
                 gpu, host>>

\* The call at the front is issued when its kernel is known; otherwise the thread ends.
drain(t) ==
  /\ threads[t].at = "drain"
  /\ IF callQueue # <<>> /\ Head(callQueue).id \in kernelMap
     THEN Issue(Head(callQueue)) /\ threads' = [threads EXCEPT ![t].at = "delete"] /\ UNCHANGED lock
     ELSE /\ threads' = Restrict(threads, DOMAIN threads \ {t}) /\ lock' = {}
          /\ UNCHANGED <<heap, ncall, device>>
  /\ UNCHANGED <<config, calls, todo, pc, call, tobuild, arrayMap, knownKernelID, kernelMap, callQueue, spawned,
                 born, host>>

\* Mutant: the call is removed from the queue before its buffers are deleted.
drainedKeeps(t) ==
  /\ threads[t].at = "delete"
  /\ callQueue' = Tail(callQueue)
  /\ threads' = [threads EXCEPT ![t].at = "drain"]
  /\ UNCHANGED <<config, calls, todo, pc, call, tobuild, arrayMap, knownKernelID, kernelMap, lock, spawned,
                 gpu, host>>

\* Mutant: a thread issues one call, not all that have become possible.
drainedOnce(t) ==
  /\ threads[t].at = "delete" /\ Deletable(Head(callQueue).discards)
  /\ heap' = Without(Head(callQueue).discards)
  /\ callQueue' = Tail(callQueue)
  /\ threads' = Restrict(threads, DOMAIN threads \ {t}) /\ lock' = {}
  /\ UNCHANGED <<config, calls, todo, pc, call, tobuild, arrayMap, knownKernelID, kernelMap, spawned,
                 born, ncall, device, host>>

\* deleteBuffers and pop_front.
drained(t) ==
  /\ threads[t].at = "delete" /\ Deletable(Head(callQueue).discards)
  /\ heap' = Without(Head(callQueue).discards)
  /\ callQueue' = Tail(callQueue)
  /\ threads' = [threads EXCEPT ![t].at = "drain"]
  /\ UNCHANGED <<config, calls, todo, pc, call, tobuild, arrayMap, knownKernelID, kernelMap, lock, spawned,
                 born, ncall, device, host>>

build(t) == compiled(t) \/ drain(t) \/ drained(t)

\* Nothing is left to do: the bridge calls no more, or something has failed.
Stopped == pc \in {"idle", "failed"} /\ threads = <<>> /\ device = {} /\ UNCHANGED vars

Next ==
  \/ \E b \in Imports : Bridge(b)
  \/ \E list \in Lists : execute(list)
  \/ main \/ childFails \/ sleep
  \/ \E t \in DOMAIN threads : build(t) \/ compileFails(t)
  \/ \E cmd \in device : complete(cmd)
  \/ Stopped

Spec == Init /\ [][Next]_vars

\* The operating system runs all threads, and the device all commands that can run.
FairSpec ==
  /\ Spec
  /\ WF_vars(main) /\ WF_vars(\E cmd \in device : complete(cmd))
  /\ \A t \in 0 .. MaxThreads : WF_vars(t \in DOMAIN threads /\ build(t))

-----------------------------------------------------------------------------
(***************************************************************************)
(* A buffer is not deleted while a queued call, a command of the device or *)
(* the map of arrays still refers to it, and no two calls will delete it.  *)
(***************************************************************************)
NoDangling ==
  /\ \A i \in 1 .. Len(callQueue) : LET cl == callQueue[i] IN
       /\ cl.ins \union cl.outs \union cl.discards \subseteq DOMAIN heap
       /\ cl.discards \cap Range(arrayMap) = {}
       /\ \A j \in i + 1 .. Len(callQueue) :
            cl.discards \cap (callQueue[j].ins \union callQueue[j].outs \union callQueue[j].discards) = {}
  /\ \A cmd \in device : cmd.ins \union cmd.outs \subseteq DOMAIN heap
  /\ Range(arrayMap) \subseteq DOMAIN heap

\* When a command was issued: the copies to a new buffer come before all calls that use the buffer.
Issued(cmd) == IF cmd.id[1] = "call" THEN cmd.id[2] ELSE 0

\* Whether one of two commands writes a buffer of the other.
Conflict(c1, c2) == c1.outs \cap (c2.ins \union c2.outs) # {} \/ c1.ins \cap c2.outs # {}

(***************************************************************************)
(* Of two commands that conflict, the out-of-order queue of the device     *)
(* cannot run the one that was issued later while the other is not         *)
(* complete: it still waits for an event (Kernel::call, Buffer).           *)
(***************************************************************************)
ConflictsAreOrdered ==
  \A c1, c2 \in device : Issued(c1) < Issued(c2) /\ Conflict(c1, c2) => c2.waits # {}

(***************************************************************************)
(* What BH_SYNC makes available is the value of the array as if all        *)
(* kernels had been executed one after the other, and so is the data of an *)
(* array that the engine does not know between two calls.                  *)
(***************************************************************************)
HostIsCurrent ==
  /\ \A b \in synced : pc # "failed" => data[b] = mem[b]
  /\ pc = "idle" => \A b \in Base \ DOMAIN arrayMap : data[b] = mem[b]

(***************************************************************************)
(* When all is done, the engine has exactly the buffers of the arrays that *)
(* it knows: discarded ones are deleted.                                   *)
(***************************************************************************)
NothingLeaks ==
  pc = "idle" /\ callQueue = <<>> => DOMAIN heap = Range(arrayMap)

(***************************************************************************)
(* Every call of the bridge returns, unless a kernel fails to compile: a   *)
(* sync does not wait forever for the queue.                               *)
(***************************************************************************)
CallsReturn == (pc # "idle") ~> (pc \in {"idle", "failed"})

(***************************************************************************)
(* Every queued call is issued in the end, unless something fails.         *)
(***************************************************************************)
QueueDrains == (callQueue # <<>>) ~> (callQueue = <<>> \/ pc = "failed")

(***************************************************************************)
(* The engine goes on: calls of the bridge return, and what they have      *)
(* queued is issued although no later call waits for it.                   *)
(***************************************************************************)
Progress == CallsReturn /\ QueueDrains
=============================================================================
