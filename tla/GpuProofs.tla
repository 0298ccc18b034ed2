------------------------------ MODULE GpuProofs ------------------------------
(***************************************************************************)
(* What the GPU engine guarantees for all arrays, lists of kernels and     *)
(* numbers of calls.                                                       *)
(*                                                                         *)
(* The first invariant, Owned, is about who will delete a buffer: the map  *)
(* of arrays, the call in the hands of the main thread or exactly one call *)
(* of the queue.  The second one, Ordered, is about the events of the      *)
(* device: a buffer only remembers its last writer, but every earlier      *)
(* writer is one that a later writer still waits for, so that waiting for  *)
(* the last one is waiting for all of them.                                *)
(***************************************************************************)
EXTENDS Gpu, SequenceTheorems, TLAPS

Buffer == Base \X Nat
Call == [id : Nat \X Nat, ins : SUBSET Buffer, outs : SUBSET Buffer, c : Nat, discards : SUBSET Buffer]
Thread == [id : Nat \X Nat, at : {"compile", "drain", "delete"}]
Place == {"idle", "kernel", "compileAndRun", "deleteBuffers", "called", "build", "failed"}

\* The types of what the main thread and the threads that compile work on.
TypeOK ==
  /\ todo \in Seq(Kernels) /\ pc \in Place
  /\ pc \in {"kernel", "compileAndRun", "deleteBuffers", "called", "build"} => todo # <<>>
  /\ call \in Call /\ callQueue \in Seq(Call)
  /\ config \in [fixed : BOOLEAN, dynamic : BOOLEAN, async : BOOLEAN]
  /\ tobuild \in Seq(Nat \X Nat)
  /\ DOMAIN knownKernelID \subseteq Nat /\ \A f \in DOMAIN knownKernelID : knownKernelID[f] \in Nat
  /\ spawned \in Nat /\ DOMAIN threads \subseteq Nat /\ \A t \in DOMAIN threads : threads[t] \in Thread
  /\ born \in [Base -> Nat] /\ ncall \in Nat

\* A thread that empties the queue has kernelMutex, and so has the main thread while it deletes buffers.
Locked ==
  /\ \A t \in DOMAIN threads : threads[t].at # "compile" => lock = {t}
  /\ \A t \in DOMAIN threads : threads[t].at = "delete" => callQueue # <<>>
  /\ 0 \in DOMAIN threads => pc = "build"
  /\ pc = "deleteBuffers" => lock = {0} /\ callQueue = <<>>
  /\ pc \in {"idle", "kernel", "called", "build"} => call = NoCall

\* The arrays of the map have buffers of their own, and no buffer is newer than the number of buffers.
Mapped ==
  /\ DOMAIN arrayMap \subseteq Base
  /\ \A b \in DOMAIN arrayMap : arrayMap[b] \in DOMAIN heap /\ arrayMap[b][1] = b
  /\ \A x \in DOMAIN heap : x \in Buffer /\ x[2] <= born[x[1]]

\* Every buffer is deleted by one owner: the map, the call of the main thread or a call of the queue.
OneOwner ==
  /\ \A x \in DOMAIN heap :
       \/ \E b \in DOMAIN arrayMap : x = arrayMap[b]
       \/ x \in call.discards
       \/ \E i \in 1 .. Len(callQueue) : x \in callQueue[i].discards
  /\ call.discards \subseteq DOMAIN heap /\ \A b \in DOMAIN arrayMap : arrayMap[b] \notin call.discards
  /\ \A i \in 1 .. Len(callQueue) :
       /\ callQueue[i].discards \subseteq DOMAIN heap /\ \A b \in DOMAIN arrayMap : arrayMap[b] \notin callQueue[i].discards
       /\ callQueue[i].discards \cap call.discards = {}
       /\ \A j \in 1 .. Len(callQueue) : i # j => callQueue[i].discards \cap callQueue[j].discards = {}

Owned == TypeOK /\ Locked /\ Mapped /\ OneOwner

Uses(cl) == cl.ins \union cl.outs

\* What a call needs is there until it is issued: no earlier call deletes it.
Usable ==
  /\ Uses(call) \subseteq DOMAIN heap
  /\ \A i \in 1 .. Len(callQueue) :
       /\ Uses(callQueue[i]) \subseteq DOMAIN heap
       /\ callQueue[i].discards \cap Uses(call) = {}
       /\ \A j \in 1 .. Len(callQueue) : i < j => callQueue[i].discards \cap Uses(callQueue[j]) = {}

\* The fields of a BaseArray; the fields, the event and the buffers of a command.
IsCell(h) == h = [content |-> h.content, write |-> h.write, reads |-> h.reads]
IsCommand(c) ==
  /\ c = [id |-> c.id, ins |-> c.ins, outs |-> c.outs, c |-> c.c, waits |-> c.waits]
  /\ \/ c.id \in DOMAIN heap /\ c.ins = {} /\ c.outs = {c.id}
     \/ \E n \in 1 .. ncall : c.id = <<"call", n>>
  /\ Uses(c) \subseteq DOMAIN heap

\* A command itself, or one that was issued after it.
NotBefore(c, p) == p = c \/ Issued(c) < Issued(p)

\* A buffer remembers the event of its last writer and those of its readers.
Remembered ==
  /\ \A c \in device : \A x \in c.outs :
       \E p \in device : x \in p.outs /\ p.id \in heap[x].write /\ NotBefore(c, p)
  /\ \A c \in device : \A x \in c.ins \ c.outs : c.id \in heap[x].reads

\* A command waits for the last writer of its buffers before it, and for those who read what it writes.
Awaits ==
  /\ \A c, d \in device : \A x \in c.outs \cap Uses(d) : Issued(c) < Issued(d) =>
       \E p \in device : x \in p.outs /\ p.id \in d.waits /\ NotBefore(c, p)
  /\ \A c, d \in device : \A x \in (c.ins \ c.outs) \cap d.outs : Issued(c) < Issued(d) => c.id \in d.waits

Ordered ==
  /\ \A x \in DOMAIN heap : IsCell(heap[x])
  /\ \A c \in device : IsCommand(c)
  /\ \A c, d \in device : c.id = d.id => c = d
  /\ Remembered /\ Awaits

(***************************************************************************)
(* The kernels for which "After sync the queue is empty so we just         *)
(* discard" (InstructionScheduler.cpp:52) is true.  sync only waits for    *)
(* arrays that the engine knows: a kernel that syncs and discards must     *)
(* sync an array it computes on, and a scalar kernel must discard only     *)
(* arrays that it uses or syncs.                                           *)
(***************************************************************************)
SafeKernels ==
  {k \in Kernels :
     /\ k.outs # {} /\ ~k.scalar /\ k.syncs # {} /\ k.discards # {} => k.syncs \cap Params(k) # {}
     /\ k.outs # {} /\ k.scalar => k.discards \subseteq ChildSyncs(k)}

\* The kernel in work has computations for the device, and the map has its arrays until its discards follow its syncs.
InWork ==
  pc \in {"compileAndRun", "deleteBuffers", "called", "build"} =>
    /\ Head(todo).outs # {} /\ ~Head(todo).scalar
    /\ Head(todo).syncs # {} => Params(Head(todo)) \subseteq DOMAIN arrayMap

Safe == Owned /\ todo \in Seq(SafeKernels) /\ InWork /\ Usable /\ Ordered

-----------------------------------------------------------------------------
(***************************************************************************)
(* Owned is an invariant.                                                  *)
(***************************************************************************)
\* What Owned depends on.
owners == <<config, todo, pc, call, tobuild, arrayMap, knownKernelID, callQueue, lock, threads, spawned, born>>

\* A step that only changes the contents or the events of buffers keeps Owned: complete, Bridge, sleep.
LEMMA SameOwners ==
  ASSUME Owned, UNCHANGED owners, DOMAIN heap' = DOMAIN heap, ncall' \in Nat
  PROVE  Owned'
  BY DEF Owned, owners, TypeOK, Locked, Mapped, OneOwner

\* discard(arrays) deletes the buffers of the arrays and takes these out of the map: every other buffer keeps its owner.
LEMMA DiscardKeepsOwners ==
  ASSUME Mapped, OneOwner, NEW gone, UNCHANGED <<call, callQueue, born>>,
         DOMAIN heap' = DOMAIN heap \ Known(gone), arrayMap' = Forget(gone)
  PROVE  Mapped' /\ OneOwner'
<1>1. DOMAIN arrayMap' = DOMAIN arrayMap \ gone /\ \A b \in DOMAIN arrayMap' : arrayMap'[b] = arrayMap[b]
  BY DEF Forget, Restrict
<1>2. \A b \in DOMAIN arrayMap' : arrayMap[b] \notin Known(gone)
  BY <1>1 DEF Known, Mapped
<1>3. Mapped'
  BY <1>1, <1>2 DEF Mapped
<1>4. \A x \in Known(gone) : x \notin call.discards /\ \A i \in 1 .. Len(callQueue) : x \notin callQueue[i].discards
  BY DEF Known, OneOwner
<1>5. ASSUME NEW x \in DOMAIN heap', \E b \in DOMAIN arrayMap : x = arrayMap[b]
      PROVE  \E b \in DOMAIN arrayMap' : x = arrayMap'[b]
  BY <1>1, <1>5 DEF Known
<1>6. OneOwner'
  BY <1>1, <1>4, <1>5 DEF OneOwner
<1>7. QED
  BY <1>3, <1>6

\* The end of a kernel: schedule goes on with the next one, or returns.
LEMMA NextKernel ==
  ASSUME TypeOK, todo # <<>>, NEW k, NEW d, NEW m, EndKernel(k, d, m)
  PROVE  todo' \in Seq(Kernels) /\ pc' \in {"idle", "kernel"} /\ (pc' = "kernel" => todo' # <<>>)
  BY DEF TypeOK, EndKernel

\* The initial state has no buffers.
LEMMA OwnedInit ==
  ASSUME Init
  PROVE  Owned
<1>1. call \in Call
  BY DEF Init, NoCall, Call
<1>2. TypeOK
  BY <1>1 DEF Init, TypeOK, Place
<1>3. Locked /\ Mapped /\ OneOwner
  BY DEF Init, Locked, Mapped, OneOwner, NoCall
<1>4. QED
  BY <1>2, <1>3 DEF Owned

\* The call of the main thread goes to the end of the queue, and its discards go with it.
LEMMA QueueKeepsOwners ==
  ASSUME TypeOK, OneOwner, NEW cl \in Call, cl.discards = call.discards,
         callQueue' = Append(callQueue, cl), call' = NoCall, UNCHANGED arrayMap, DOMAIN heap' = DOMAIN heap
  PROVE  OneOwner' /\ callQueue' \in Seq(Call) /\ call' \in Call
<1>1. /\ callQueue' \in Seq(Call) /\ Len(callQueue') = Len(callQueue) + 1 /\ Len(callQueue) \in Nat
      /\ \A i \in 1 .. Len(callQueue) : callQueue'[i] = callQueue[i]
      /\ callQueue'[Len(callQueue) + 1] = cl
  BY DEF TypeOK
<1>2. call' \in Call /\ call'.discards = {}
  BY DEF NoCall, Call
<1>3. \A i \in 1 .. Len(callQueue') : i \in 1 .. Len(callQueue) \/ i = Len(callQueue) + 1
  BY <1>1
<1>4. OneOwner'
  <2>1. \A x \in DOMAIN heap' :
          \/ \E b \in DOMAIN arrayMap' : x = arrayMap'[b]
          \/ \E i \in 1 .. Len(callQueue') : x \in callQueue'[i].discards
    BY <1>1 DEF OneOwner
  <2>2. \A i \in 1 .. Len(callQueue') :
          callQueue'[i].discards \subseteq DOMAIN heap' /\ \A b \in DOMAIN arrayMap' : arrayMap'[b] \notin callQueue'[i].discards
    BY <1>1, <1>3 DEF OneOwner
  <2>3. \A i, j \in 1 .. Len(callQueue') : i # j => callQueue'[i].discards \cap callQueue'[j].discards = {}
    BY <1>1, <1>3 DEF OneOwner
  <2>4. QED
    BY <1>2, <2>1, <2>2, <2>3 DEF OneOwner
<1>5. QED
  BY <1>1, <1>2, <1>4

\* A call under another KernelID.
LEMMA Renamed ==
  ASSUME NEW cl \in Call, NEW id \in Nat \X Nat
  PROVE  LET new == [cl EXCEPT !.id = id]
         IN  new \in Call /\ new.ins = cl.ins /\ new.outs = cl.outs /\ new.discards = cl.discards
  BY DEF Call

\* schedule begins with the first kernel.
LEMMA ExecuteOwned ==
  ASSUME Owned, NEW list \in Lists, execute(list)
  PROVE  Owned'
<1>1. TypeOK'
  BY ListsAssumption DEF Owned, TypeOK, execute, compiler, gpu, Place
<1>2. Locked' /\ Mapped' /\ OneOwner'
  BY DEF Owned, Locked, Mapped, OneOwner, execute, compiler, gpu
<1>3. QED
  BY <1>1, <1>2 DEF Owned

\* Kernel::call changes no owner.
LEMMA RunKnownOwned ==
  ASSUME Owned, runKnown
  PROVE  Owned'
<1> DEFINE id == <<call.id[1], IF knownKernelID[call.id[1]] = call.id[2] THEN call.id[2] ELSE 0>>
<1>1. CASE callNow(id)
  <2>1. /\ Issue(call) /\ lock = {} /\ lock' = {0} /\ pc = "compileAndRun" /\ pc' = "deleteBuffers" /\ callQueue = <<>>
        /\ UNCHANGED <<callQueue, call, config, todo, tobuild, arrayMap, knownKernelID, threads, spawned, born>>
    BY <1>1 DEF runKnown, callNow
  <2>2. ncall' \in Nat /\ DOMAIN heap' = DOMAIN heap
    BY <2>1 DEF Issue, Owned, TypeOK
  <2>3. TypeOK'
    BY <2>1, <2>2 DEF Owned, TypeOK, Place
  <2>4. Locked'
    BY <2>1 DEF Owned, Locked
  <2>5. Mapped' /\ OneOwner'
    BY <2>1, <2>2 DEF Owned, Mapped, OneOwner
  <2>6. QED
    BY <2>3, <2>4, <2>5 DEF Owned
<1>2. CASE ~callNow(id)
  <2>1. /\ lock = {} /\ pc = "compileAndRun" /\ pc' = "called" /\ call' = NoCall
        /\ callQueue' = Append(callQueue, [call EXCEPT !.id = id])
        /\ call.id[1] \in DOMAIN knownKernelID
        /\ UNCHANGED <<lock, heap, ncall, config, todo, tobuild, arrayMap, knownKernelID, threads, spawned, born>>
    BY <1>2 DEF runKnown
  <2>2. PICK cl \in Call : cl = [call EXCEPT !.id = id] /\ cl.discards = call.discards
    <3>1. call \in Call /\ call.id[2] \in Nat /\ call.id[1] \in Nat
      BY DEF Owned, TypeOK, Call
    <3>2. id \in Nat \X Nat
      <4> DEFINE n == IF knownKernelID[call.id[1]] = call.id[2] THEN call.id[2] ELSE 0
      <4>1. n \in Nat
        BY <3>1
      <4>2. <<call.id[1], n>> \in Nat \X Nat
        BY <3>1, <4>1
      <4>3. QED
        BY <4>2
    <3> HIDE DEF id
    <3>3. QED
      BY <3>1, <3>2, Renamed
  <2>3. OneOwner' /\ callQueue' \in Seq(Call) /\ call' \in Call
    <3>1. TypeOK /\ OneOwner /\ callQueue' = Append(callQueue, cl) /\ DOMAIN heap' = DOMAIN heap /\ UNCHANGED arrayMap
      BY <2>1, <2>2 DEF Owned
    <3>2. QED
      BY <2>1, <2>2, <3>1, QueueKeepsOwners
  <2>4. TypeOK'
    BY <2>1, <2>3 DEF Owned, TypeOK, Place
  <2>5. Locked'
    BY <2>1 DEF Owned, Locked
  <2>6. Mapped'
    BY <2>1 DEF Owned, Mapped
  <2>7. QED
    BY <2>3, <2>4, <2>5, <2>6 DEF Owned
<1>3. QED
  BY <1>1, <1>2

\* SourceKernelCall::deleteBuffers: the queue is empty, and what the call owned is deleted.
LEMMA DeleteBuffersOwned ==
  ASSUME Owned, deleteBuffers
  PROVE  Owned'
<1>1. /\ pc = "deleteBuffers" /\ callQueue = <<>> /\ lock' = {} /\ call' = NoCall /\ pc' = "called"
      /\ DOMAIN heap' = DOMAIN heap \ call.discards
      /\ UNCHANGED <<config, todo, tobuild, arrayMap, knownKernelID, callQueue, threads, spawned, born, ncall>>
  BY DEF Owned, Locked, deleteBuffers, Without, Restrict
<1>2. call' \in Call /\ call'.discards = {}
  BY <1>1 DEF NoCall, Call
<1>3. TypeOK'
  BY <1>1, <1>2 DEF Owned, TypeOK, Place
<1>4. Locked'
  BY <1>1 DEF Owned, Locked, TypeOK, Thread
<1>5. Mapped'
  BY <1>1 DEF Owned, Mapped, OneOwner
<1>6. OneOwner'
  BY <1>1, <1>2 DEF Owned, OneOwner
<1>7. QED
  BY <1>3, <1>4, <1>5, <1>6 DEF Owned

\* A new kernel: its call is queued, and it is compiled by new threads or by the main thread.
LEMMA RunNewOwned ==
  ASSUME Owned, runNew
  PROVE  Owned'
<1> DEFINE f == call.id[1]
           id == <<f, IF config.fixed THEN call.id[2] ELSE 0>>
           builds == (IF config.fixed THEN <<call.id>> ELSE <<>>) \o (IF config.dynamic THEN <<<<f, 0>>>> ELSE <<>>)
<1>1. /\ pc = "compileAndRun" /\ call' = NoCall /\ callQueue' = Append(callQueue, [call EXCEPT !.id = id])
      /\ lock = {} /\ UNCHANGED <<lock, heap, ncall, config, todo, arrayMap, born>>
  BY DEF runNew, gpu
<1>2. call \in Call /\ call.id \in Nat \X Nat /\ f \in Nat /\ call.id[2] \in Nat
  BY DEF Owned, TypeOK, Call
<1>3. id \in Nat \X Nat /\ builds \in Seq(Nat \X Nat) /\ id[2] \in Nat
  <2>1. <<call.id>> \in Seq(Nat \X Nat) /\ <<<<f, 0>>>> \in Seq(Nat \X Nat) /\ <<>> \in Seq(Nat \X Nat)
    BY <1>2
  <2> DEFINE n == IF config.fixed THEN call.id[2] ELSE 0
             one == IF config.fixed THEN <<call.id>> ELSE <<>>
             two == IF config.dynamic THEN <<<<f, 0>>>> ELSE <<>>
  <2>2. n \in Nat /\ one \in Seq(Nat \X Nat) /\ two \in Seq(Nat \X Nat)
    BY <1>2, <2>1
  <2>3. one \o two \in Seq(Nat \X Nat)
    <3> HIDE DEF one, two
    <3>1. QED
      BY <2>2
  <2>4. <<f, n>> \in Nat \X Nat /\ <<f, n>>[2] = n
    <3> HIDE DEF n
    <3>1. QED
      BY <1>2, <2>2
  <2>5. QED
    BY <2>2, <2>3, <2>4
<1>4. /\ DOMAIN knownKernelID' \subseteq Nat
      /\ \A g \in DOMAIN knownKernelID' : knownKernelID'[g] \in Nat
  BY <1>2, <1>3 DEF runNew, Owned, TypeOK
<1>5. \/ /\ threads' = [t \in DOMAIN threads \union {spawned + i : i \in DOMAIN builds} |->
                 IF t \in DOMAIN threads THEN threads[t] ELSE [id |-> builds[t - spawned], at |-> "compile"]]
         /\ spawned' = spawned + Len(builds) /\ pc' = "called" /\ UNCHANGED tobuild
      \/ tobuild' = builds /\ pc' = "build" /\ UNCHANGED <<threads, spawned>>
  BY DEF runNew
<1> HIDE DEF builds
<1>6. PICK cl \in Call : cl = [call EXCEPT !.id = id] /\ cl.discards = call.discards
  <2> HIDE DEF id
  <2>1. QED
    BY <1>2, <1>3, Renamed
<1>7. OneOwner' /\ callQueue' \in Seq(Call) /\ call' \in Call
  <2>1. TypeOK /\ OneOwner /\ callQueue' = Append(callQueue, cl) /\ DOMAIN heap' = DOMAIN heap /\ UNCHANGED arrayMap
    BY <1>1, <1>6 DEF Owned
  <2>2. QED
    BY <1>1, <1>6, <2>1, QueueKeepsOwners
<1>8. /\ spawned' \in Nat /\ DOMAIN threads' \subseteq Nat /\ \A t \in DOMAIN threads' : threads'[t] \in Thread
      /\ \A t \in DOMAIN threads' : threads'[t].at # "compile" => t \in DOMAIN threads /\ threads'[t] = threads[t]
      /\ 0 \in DOMAIN threads' => 0 \in DOMAIN threads
      /\ tobuild' \in Seq(Nat \X Nat)
  <2>1. spawned \in Nat /\ Len(builds) \in Nat /\ DOMAIN builds = 1 .. Len(builds) /\ DOMAIN threads \subseteq Nat
        /\ (\A t \in DOMAIN threads : threads[t] \in Thread) /\ tobuild \in Seq(Nat \X Nat)
    BY <1>3 DEF Owned, TypeOK
  <2>2. ASSUME NEW t \in {spawned + i : i \in DOMAIN builds}
        PROVE  t \in Nat \ {0} /\ t - spawned \in DOMAIN builds /\ builds[t - spawned] \in Nat \X Nat
    <3>1. PICK i \in DOMAIN builds : t = spawned + i
      OBVIOUS
    <3>2. i \in 1 .. Len(builds) /\ i \in Nat \ {0}
      BY <2>1
    <3>3. builds[i] \in Nat \X Nat
      BY <1>3, <3>2, ElementOfSeq
    <3>4. t - spawned = i
      BY <2>1, <3>1, <3>2
    <3>5. QED
      BY <2>1, <3>1, <3>2, <3>3, <3>4
  <2>3. CASE threads' = [t \in DOMAIN threads \union {spawned + i : i \in DOMAIN builds} |->
                 IF t \in DOMAIN threads THEN threads[t] ELSE [id |-> builds[t - spawned], at |-> "compile"]]
             /\ spawned' = spawned + Len(builds) /\ UNCHANGED tobuild
    <3>1. ASSUME NEW t \in DOMAIN threads', t \notin DOMAIN threads
          PROVE  t \in Nat \ {0} /\ threads'[t] \in Thread /\ threads'[t].at = "compile"
      <4>1. t \in {spawned + i : i \in DOMAIN builds} /\ threads'[t] = [id |-> builds[t - spawned], at |-> "compile"]
        BY <2>3, <3>1
      <4>2. t \in Nat \ {0} /\ builds[t - spawned] \in Nat \X Nat
        BY <2>2, <4>1
      <4>3. QED
        BY <4>1, <4>2 DEF Thread
    <3>2. \A t \in DOMAIN threads : t \in DOMAIN threads' /\ threads'[t] = threads[t]
      BY <2>3
    <3>3. spawned' \in Nat /\ tobuild' \in Seq(Nat \X Nat)
      BY <2>1, <2>3
    <3>4. QED
      BY <2>1, <3>1, <3>2, <3>3
  <2>4. CASE tobuild' = builds /\ UNCHANGED <<threads, spawned>>
    BY <1>3, <2>1, <2>4
  <2>5. QED
    BY <1>5, <2>3, <2>4
<1>9. TypeOK'
  BY <1>1, <1>4, <1>5, <1>7, <1>8 DEF Owned, TypeOK, Place
<1>10. Locked'
  BY <1>1, <1>5, <1>8 DEF Owned, Locked
<1>11. Mapped'
  BY <1>1 DEF Owned, Mapped
<1>12. QED
  BY <1>7, <1>9, <1>10, <1>11 DEF Owned

\* The main thread compiles: it becomes thread 0.
LEMMA BuildNextOwned ==
  ASSUME Owned, buildNext
  PROVE  Owned'
<1>1. /\ pc = "build" /\ threads = <<>>
      /\ UNCHANGED <<config, todo, call, arrayMap, knownKernelID, callQueue, lock, spawned, heap, born, ncall>>
  BY DEF buildNext, gpu
<1>2. Mapped' /\ OneOwner'
  BY <1>1 DEF Owned, Mapped, OneOwner
<1>3. CASE tobuild = <<>>
  <2>1. pc' = "called" /\ UNCHANGED <<threads, tobuild>>
    BY <1>3 DEF buildNext
  <2>2. TypeOK'
    BY <1>1, <2>1 DEF Owned, TypeOK, Place
  <2>3. Locked'
    BY <1>1, <2>1 DEF Owned, Locked
  <2>4. QED
    BY <1>2, <2>2, <2>3 DEF Owned
<1>4. CASE tobuild # <<>>
  <2>1. threads' = [t \in {0} |-> [id |-> Head(tobuild), at |-> "compile"]] /\ tobuild' = Tail(tobuild) /\ UNCHANGED pc
    BY <1>4 DEF buildNext
  <2>2. Head(tobuild) \in Nat \X Nat /\ tobuild' \in Seq(Nat \X Nat)
    BY <1>4, <2>1 DEF Owned, TypeOK
  <2>3. DOMAIN threads' = {0} /\ threads'[0] \in Thread /\ threads'[0].at = "compile"
    BY <2>1, <2>2 DEF Thread
  <2>4. TypeOK'
    BY <1>1, <2>1, <2>2, <2>3 DEF Owned, TypeOK, Place
  <2>5. Locked'
    BY <1>1, <2>1, <2>3 DEF Owned, Locked
  <2>6. QED
    BY <1>2, <2>4, <2>5 DEF Owned
<1>5. QED
  BY <1>3, <1>4

\* The end of a kernel, after some arrays were discarded: afterCall, systemKernel and call_child.
LEMMA EndOwned ==
  ASSUME Owned, todo # <<>>, pc \in {"kernel", "called"}, NEW k, NEW d, NEW m, EndKernel(k, d, m), Mapped', OneOwner',
         callQueue' \in Seq(Call), callQueue # <<>> => callQueue' # <<>>,
         UNCHANGED <<config, call, tobuild, knownKernelID, lock, threads, spawned, born, ncall>>
  PROVE  Owned'
<1>1. todo' \in Seq(Kernels) /\ pc' \in {"idle", "kernel"} /\ (pc' = "kernel" => todo' # <<>>)
  BY NextKernel DEF Owned
<1>2. TypeOK'
  BY <1>1 DEF Owned, TypeOK, Place
<1>3. Locked'
  BY <1>1 DEF Owned, Locked
<1>4. QED
  BY <1>2, <1>3 DEF Owned

\* sync and discard after the call.
LEMMA AfterCallOwned ==
  ASSUME Owned, afterCall
  PROVE  Owned'
<1> DEFINE k == Head(todo)
           gone == IF k.syncs = {} THEN {} ELSE k.discards
<1>1. /\ pc = "called" /\ heap' = Without(Known(gone)) /\ arrayMap' = Forget(gone) /\ EndKernel(k, Synced(k.syncs), mem)
      /\ UNCHANGED <<config, call, tobuild, knownKernelID, callQueue, lock, threads, spawned, born, ncall>>
  BY DEF afterCall, compiler
<1> HIDE DEF gone, k
<1>2. DOMAIN heap' = DOMAIN heap \ Known(gone)
  BY <1>1 DEF Without, Restrict
<1>3. Mapped' /\ OneOwner'
  BY <1>1, <1>2, DiscardKeepsOwners DEF Owned
<1>4. todo # <<>> /\ callQueue' \in Seq(Call)
  BY <1>1 DEF Owned, TypeOK
<1>5. QED
  BY <1>1, <1>3, <1>4, EndOwned

\* The child computes a scalar kernel; its outputs and discards leave the device.
LEMMA CallChildOwned ==
  ASSUME Owned, call_child
  PROVE  Owned'
<1> DEFINE k == Head(todo)
           gone == k.outs \union k.discards
<1>1. PICK d, m : /\ pc = "kernel" /\ todo # <<>> /\ heap' = Without(Known(gone)) /\ arrayMap' = Forget(gone)
                  /\ EndKernel(k, d, m)
                  /\ UNCHANGED <<config, call, tobuild, knownKernelID, callQueue, lock, threads, spawned, born, ncall>>
  BY DEF call_child, compiler
<1> HIDE DEF gone, k
<1>2. DOMAIN heap' = DOMAIN heap \ Known(gone)
  BY <1>1 DEF Without, Restrict
<1>3. Mapped' /\ OneOwner'
  BY <1>1, <1>2, DiscardKeepsOwners DEF Owned
<1>4. callQueue' \in Seq(Call)
  BY <1>1 DEF Owned, TypeOK
<1>5. QED
  BY <1>1, <1>3, <1>4, EndOwned

\* The child fails: the outputs have left the device.
LEMMA ChildFailsOwned ==
  ASSUME Owned, childFails
  PROVE  Owned'
<1> DEFINE gone == Head(todo).outs
<1>1. /\ pc = "kernel" /\ pc' = "failed" /\ heap' = Without(Known(gone)) /\ arrayMap' = Forget(gone)
      /\ UNCHANGED <<config, todo, call, tobuild, knownKernelID, callQueue, lock, threads, spawned, born, ncall>>
  BY DEF childFails, compiler
<1> HIDE DEF gone
<1>2. DOMAIN heap' = DOMAIN heap \ Known(gone)
  BY <1>1 DEF Without, Restrict
<1>3. Mapped' /\ OneOwner'
  BY <1>1, <1>2, DiscardKeepsOwners DEF Owned
<1>4. TypeOK' /\ Locked'
  BY <1>1 DEF Owned, TypeOK, Locked, Place
<1>5. QED
  BY <1>3, <1>4 DEF Owned

\* The last call of the queue takes over the buffers of the arrays that a kernel without computations discards.
LEMMA AttachKeepsOwners ==
  ASSUME TypeOK, Mapped, OneOwner, NEW gone, callQueue # <<>>, arrayMap' = Forget(gone), UNCHANGED <<heap, call, born>>,
         callQueue' = [callQueue EXCEPT ![Len(callQueue)].discards = @ \union Known(gone)]
  PROVE  Mapped' /\ OneOwner' /\ callQueue' \in Seq(Call) /\ callQueue' # <<>>
<1> DEFINE last == Len(callQueue)
<1>1. last \in Nat \ {0} /\ callQueue[last] \in Call /\ Known(gone) \in SUBSET Buffer
  BY DEF TypeOK, Known, Mapped
<1>2. DOMAIN arrayMap' = DOMAIN arrayMap \ gone /\ \A b \in DOMAIN arrayMap' : arrayMap'[b] = arrayMap[b]
  BY DEF Forget, Restrict
<1>3. PICK cl \in Call : /\ cl = [callQueue[last] EXCEPT !.discards = @ \union Known(gone)]
                         /\ cl.ins = callQueue[last].ins /\ cl.outs = callQueue[last].outs
                         /\ cl.discards = callQueue[last].discards \union Known(gone)
  <2>1. callQueue[last].discards \union Known(gone) \in SUBSET Buffer
    BY <1>1 DEF Call
  <2>2. [callQueue[last] EXCEPT !.discards = @ \union Known(gone)] \in Call
    BY <1>1, <2>1 DEF Call
  <2>3. QED
    BY <1>1, <2>2 DEF Call
<1>4. /\ callQueue' \in Seq(Call) /\ Len(callQueue') = last /\ callQueue'[last] = cl
      /\ \A i \in 1 .. last : i # last => callQueue'[i] = callQueue[i]
  <2>1. callQueue \in Seq(Call) /\ last \in DOMAIN callQueue /\ cl \in Call
    BY <1>1 DEF TypeOK
  <2>2. callQueue' = [callQueue EXCEPT ![last] = cl]
    BY <1>3
  <2> HIDE DEF last
  <2>3. last \in 1 .. Len(callQueue)
    BY <2>1
  <2>4. /\ [callQueue EXCEPT ![last] = cl] \in Seq(Call)
        /\ Len([callQueue EXCEPT ![last] = cl]) = Len(callQueue)
        /\ \A j \in 1 .. Len(callQueue) : [callQueue EXCEPT ![last] = cl][j] = IF j = last THEN cl ELSE callQueue[j]
    BY ONLY <2>1, <2>3, ExceptSeq
  <2>5. QED
    BY <2>2, <2>3, <2>4 DEF last
<1> HIDE DEF last
<1>5. \A b \in DOMAIN arrayMap' : arrayMap[b] \notin Known(gone)
  BY <1>2 DEF Known, Mapped
<1>6. \A x \in Known(gone) : /\ x \in DOMAIN heap /\ x \notin call.discards
                             /\ \A i \in 1 .. last : x \notin callQueue[i].discards
  BY DEF Known, OneOwner, Mapped, last
<1>7. \A x \in DOMAIN heap : (\E b \in DOMAIN arrayMap : x = arrayMap[b]) =>
        x \in Known(gone) \/ \E b \in DOMAIN arrayMap' : x = arrayMap'[b]
  BY <1>2 DEF Known
<1>8. Mapped'
  BY <1>2 DEF Mapped
<1>9. OneOwner'
  <2>1. \A x \in DOMAIN heap' :
          \/ \E b \in DOMAIN arrayMap' : x = arrayMap'[b]
          \/ x \in call'.discards
          \/ \E i \in 1 .. Len(callQueue') : x \in callQueue'[i].discards
    <3>1. \A i \in 1 .. last : callQueue[i].discards \subseteq callQueue'[i].discards
      BY <1>3, <1>4
    <3>2. last \in 1 .. last /\ Known(gone) \subseteq callQueue'[last].discards
      BY <1>1, <1>3, <1>4
    <3>3. QED
      BY <1>4, <1>7, <3>1, <3>2 DEF OneOwner, last
  <2>2. \A i \in 1 .. last :
          /\ callQueue'[i].discards \subseteq DOMAIN heap
          /\ \A b \in DOMAIN arrayMap' : arrayMap'[b] \notin callQueue'[i].discards
          /\ callQueue'[i].discards \cap call.discards = {}
    BY <1>2, <1>3, <1>4, <1>5, <1>6 DEF OneOwner, last
  <2>3. \A i, j \in 1 .. last : i # j => callQueue'[i].discards \cap callQueue'[j].discards = {}
    BY <1>3, <1>4, <1>6 DEF OneOwner, last
  <2>4. call'.discards \subseteq DOMAIN heap' /\ \A b \in DOMAIN arrayMap' : arrayMap'[b] \notin call'.discards
    BY <1>2 DEF OneOwner
  <2>5. QED
    BY <1>4, <2>1, <2>2, <2>3, <2>4 DEF OneOwner
<1>10. callQueue' # <<>>
  BY <1>1, <1>4
<1>11. QED
  BY <1>4, <1>8, <1>9, <1>10

\* A kernel without computations.
LEMMA SystemKernelOwned ==
  ASSUME Owned, systemKernel
  PROVE  Owned'
<1> DEFINE k == Head(todo)
<1>1. /\ pc = "kernel" /\ todo # <<>> /\ arrayMap' = Forget(k.discards) /\ EndKernel(k, Synced(k.syncs), mem)
      /\ UNCHANGED <<config, call, tobuild, knownKernelID, lock, threads, spawned, born, ncall>>
  BY DEF systemKernel
<1>2. CASE Attach
  <2>1. /\ UNCHANGED heap /\ callQueue # <<>>
        /\ callQueue' = [callQueue EXCEPT ![Len(callQueue)].discards = @ \union Known(k.discards)]
    BY <1>2 DEF systemKernel, Attach
  <2> HIDE DEF k
  <2>2. Mapped' /\ OneOwner' /\ callQueue' \in Seq(Call) /\ callQueue' # <<>>
    BY <1>1, <2>1, AttachKeepsOwners DEF Owned
  <2>3. QED
    BY <1>1, <2>2, EndOwned
<1>3. CASE ~Attach
  <2>1. heap' = Without(Known(k.discards)) /\ UNCHANGED callQueue
    BY <1>3 DEF systemKernel
  <2> HIDE DEF k
  <2>2. DOMAIN heap' = DOMAIN heap \ Known(k.discards)
    BY <2>1 DEF Without, Restrict
  <2>3. Mapped' /\ OneOwner'
    BY <1>1, <2>1, <2>2, DiscardKeepsOwners DEF Owned
  <2>4. callQueue' \in Seq(Call)
    BY <2>1 DEF Owned, TypeOK
  <2>5. QED
    BY <1>1, <2>1, <2>3, <2>4, EndOwned
<1>4. QED
  BY <1>2, <1>3

\* A thread has compiled its kernel and takes the mutex.
LEMMA CompiledOwned ==
  ASSUME Owned, NEW t \in DOMAIN threads, compiled(t)
  PROVE  Owned'
<1>1. /\ lock = {} /\ lock' = {t} /\ threads' = [threads EXCEPT ![t].at = "drain"] /\ threads[t].at = "compile"
      /\ UNCHANGED <<config, todo, pc, call, tobuild, arrayMap, knownKernelID, callQueue, spawned, heap, born, ncall>>
  BY DEF compiled, gpu
<1>2. /\ DOMAIN threads' = DOMAIN threads /\ threads'[t] \in Thread /\ threads'[t].at = "drain"
      /\ \A u \in DOMAIN threads : u # t => threads'[u] = threads[u]
  BY <1>1 DEF Owned, TypeOK, Thread
<1>3. TypeOK'
  BY <1>1, <1>2 DEF Owned, TypeOK
<1>4. Locked'
  BY <1>1, <1>2 DEF Owned, Locked
<1>5. Mapped' /\ OneOwner'
  BY <1>1 DEF Owned, Mapped, OneOwner
<1>6. QED
  BY <1>3, <1>4, <1>5 DEF Owned

\* A kernel cannot be compiled.
LEMMA CompileFailsOwned ==
  ASSUME Owned, NEW t \in DOMAIN threads, compileFails(t)
  PROVE  Owned'
<1>1. /\ threads' = <<>> /\ pc' = "failed"
      /\ UNCHANGED <<config, todo, call, tobuild, arrayMap, knownKernelID, callQueue, lock, spawned, heap, born, ncall>>
  BY DEF compileFails, gpu
<1>2. TypeOK' /\ Locked'
  BY <1>1 DEF Owned, TypeOK, Locked, Place
<1>3. Mapped' /\ OneOwner'
  BY <1>1 DEF Owned, Mapped, OneOwner
<1>4. QED
  BY <1>2, <1>3 DEF Owned

\* A thread issues the call at the front, or leaves the queue.
LEMMA DrainOwned ==
  ASSUME Owned, NEW t \in DOMAIN threads, drain(t)
  PROVE  Owned'
<1>1. /\ threads[t].at = "drain" /\ lock = {t}
      /\ UNCHANGED <<config, todo, pc, call, tobuild, arrayMap, knownKernelID, callQueue, spawned, born>>
  BY DEF drain, Owned, Locked
<1>2. CASE callQueue # <<>> /\ Head(callQueue).id \in kernelMap
  <2>1. Issue(Head(callQueue)) /\ threads' = [threads EXCEPT ![t].at = "delete"] /\ UNCHANGED lock
    BY <1>2 DEF drain
  <2>2. ncall' \in Nat /\ DOMAIN heap' = DOMAIN heap
    BY <2>1 DEF Issue, Owned, TypeOK
  <2>3. /\ DOMAIN threads' = DOMAIN threads /\ threads'[t] \in Thread
        /\ \A u \in DOMAIN threads : u # t => threads'[u] = threads[u]
    BY <2>1 DEF Owned, TypeOK, Thread
  <2>4. TypeOK'
    BY <1>1, <2>2, <2>3 DEF Owned, TypeOK
  <2>5. Locked'
    BY <1>1, <1>2, <2>1, <2>3 DEF Owned, Locked
  <2>6. Mapped' /\ OneOwner'
    BY <1>1, <2>2 DEF Owned, Mapped, OneOwner
  <2>7. QED
    BY <2>4, <2>5, <2>6 DEF Owned
<1>3. CASE ~(callQueue # <<>> /\ Head(callQueue).id \in kernelMap)
  <2>1. threads' = Restrict(threads, DOMAIN threads \ {t}) /\ lock' = {} /\ UNCHANGED <<heap, ncall>>
    BY <1>3 DEF drain
  <2>2. DOMAIN threads' = DOMAIN threads \ {t} /\ \A u \in DOMAIN threads' : threads'[u] = threads[u]
    BY <2>1 DEF Restrict
  <2>3. TypeOK'
    BY <1>1, <2>1, <2>2 DEF Owned, TypeOK
  <2>4. pc # "deleteBuffers"
    BY <1>1 DEF Owned, Locked
  <2>5. \A u \in DOMAIN threads' : threads'[u].at = "compile"
    BY <1>1, <2>2 DEF Owned, Locked, TypeOK, Thread
  <2>6. Locked'
    BY <1>1, <2>2, <2>4, <2>5 DEF Owned, Locked
  <2>7. Mapped' /\ OneOwner'
    BY <1>1, <2>1 DEF Owned, Mapped, OneOwner
  <2>8. QED
    BY <2>3, <2>6, <2>7 DEF Owned
<1>4. QED
  BY <1>2, <1>3

\* The rest of a queue.
LEMMA TailOfQueue ==
  ASSUME NEW q \in Seq(Call), q # <<>>
  PROVE  /\ Head(q) = q[1] /\ Head(q) \in Call /\ Tail(q) \in Seq(Call) /\ Len(Tail(q)) = Len(q) - 1 /\ Len(q) \in Nat \ {0}
         /\ \A i \in 1 .. Len(Tail(q)) : i + 1 \in 1 .. Len(q) /\ Tail(q)[i] = q[i + 1]
         /\ \A i \in 1 .. Len(q) : i # 1 => i - 1 \in 1 .. Len(Tail(q)) /\ Tail(q)[i - 1] = q[i]
  OBVIOUS

\* The buffers of the front call are deleted, and the call leaves the queue.
LEMMA DrainedOwned ==
  ASSUME Owned, NEW t \in DOMAIN threads, drained(t)
  PROVE  Owned'
<1>1. /\ threads[t].at = "delete" /\ lock = {t} /\ callQueue # <<>> /\ callQueue' = Tail(callQueue)
      /\ threads' = [threads EXCEPT ![t].at = "drain"] /\ DOMAIN heap' = DOMAIN heap \ Head(callQueue).discards
      /\ UNCHANGED <<config, todo, pc, call, tobuild, arrayMap, knownKernelID, lock, spawned, born, ncall>>
  BY DEF drained, Owned, Locked, Without, Restrict
<1>2. /\ Head(callQueue) = callQueue[1] /\ callQueue' \in Seq(Call) /\ Len(callQueue) \in Nat \ {0}
      /\ \A i \in 1 .. Len(callQueue') : i + 1 \in 1 .. Len(callQueue) /\ callQueue'[i] = callQueue[i + 1]
      /\ \A i \in 1 .. Len(callQueue) : i # 1 => i - 1 \in 1 .. Len(callQueue') /\ callQueue'[i - 1] = callQueue[i]
  BY <1>1, TailOfQueue DEF Owned, TypeOK
<1>3. /\ DOMAIN threads' = DOMAIN threads /\ threads'[t] \in Thread /\ threads'[t].at = "drain"
      /\ \A u \in DOMAIN threads : u # t => threads'[u] = threads[u]
  BY <1>1 DEF Owned, TypeOK, Thread
<1>4. TypeOK'
  BY <1>1, <1>2, <1>3 DEF Owned, TypeOK
<1>5. \A u \in DOMAIN threads : u # t => threads[u].at = "compile"
  BY <1>1 DEF Owned, Locked, TypeOK, Thread
<1>6. Locked'
  BY <1>1, <1>3, <1>5 DEF Owned, Locked
<1>7. 1 \in 1 .. Len(callQueue) /\ \A i \in 1 .. Len(callQueue') : i \in Nat /\ i + 1 # 1
  BY <1>2
<1>8. Mapped'
  BY <1>1, <1>2, <1>7 DEF Owned, Mapped, OneOwner
<1>9. OneOwner'
  <2>1. \A x \in DOMAIN heap' :
          \/ \E b \in DOMAIN arrayMap' : x = arrayMap'[b]
          \/ x \in call'.discards
          \/ \E i \in 1 .. Len(callQueue') : x \in callQueue'[i].discards
    BY <1>1, <1>2 DEF Owned, OneOwner
  <2>2. \A i \in 1 .. Len(callQueue') :
          /\ callQueue'[i].discards \subseteq DOMAIN heap'
          /\ \A b \in DOMAIN arrayMap' : arrayMap'[b] \notin callQueue'[i].discards
          /\ callQueue'[i].discards \cap call'.discards = {}
    BY <1>1, <1>2, <1>7 DEF Owned, OneOwner
  <2>3. \A i, j \in 1 .. Len(callQueue') : i # j => i + 1 # j + 1
    BY <1>7
  <2>4. ASSUME NEW i \in 1 .. Len(callQueue'), NEW j \in 1 .. Len(callQueue'), i # j
        PROVE  callQueue'[i].discards \cap callQueue'[j].discards = {}
    <3>1. \A m, n \in 1 .. Len(callQueue) : m # n => callQueue[m].discards \cap callQueue[n].discards = {}
      BY DEF Owned, OneOwner
    <3>2. /\ i + 1 \in 1 .. Len(callQueue) /\ j + 1 \in 1 .. Len(callQueue) /\ i + 1 # j + 1
          /\ callQueue'[i] = callQueue[i + 1] /\ callQueue'[j] = callQueue[j + 1]
      BY <1>2, <2>3, <2>4
    <3>3. QED
      BY <3>1, <3>2
  <2>5. call'.discards \subseteq DOMAIN heap' /\ \A b \in DOMAIN arrayMap' : arrayMap'[b] \notin call'.discards
    BY <1>1, <1>2, <1>7 DEF Owned, OneOwner
  <2>6. QED
    BY <2>1, <2>2, <2>4, <2>5 DEF OneOwner
<1>10. QED
  BY <1>4, <1>6, <1>8, <1>9 DEF Owned

\* generateKernel: new buffers belong to the map, and what is attached goes from the map to the call.
LEMMA GenerateKernelOwned ==
  ASSUME Owned, generateKernel
  PROVE  Owned'
<1> DEFINE k == Head(todo)
           new == Params(k) \ DOMAIN arrayMap
           buffer == [b \in Params(k) |-> IF b \in new THEN <<b, born[b] + 1>> ELSE arrayMap[b]]
           known == [b \in DOMAIN arrayMap \union new |-> IF b \in new THEN buffer[b] ELSE arrayMap[b]]
           attached == IF k.syncs = {} THEN k.discards \cap DOMAIN known ELSE {}
<1>1. /\ pc = "kernel" /\ todo # <<>> /\ pc' = "compileAndRun"
      /\ born' = [b \in Base |-> IF b \in new THEN born[b] + 1 ELSE born[b]]
      /\ DOMAIN heap' = DOMAIN heap \union {buffer[b] : b \in new}
      /\ arrayMap' = Restrict(known, DOMAIN known \ attached)
      /\ call' = [id |-> <<k.fid, k.lit>>, ins |-> {buffer[b] : b \in k.ins}, outs |-> {buffer[b] : b \in k.outs},
                  c |-> k.c, discards |-> {known[b] : b \in attached}]
      /\ UNCHANGED <<config, todo, tobuild, knownKernelID, callQueue, lock, threads, spawned, ncall>>
  BY DEF generateKernel, compiler
<1>2. k \in Kernels /\ call = NoCall
  <2>1. todo \in Seq(Kernels)
    BY DEF Owned, TypeOK
  <2>2. Locked
    BY DEF Owned
  <2>3. todo # <<>> /\ pc = "kernel"
    BY <1>1
  <2>4. k \in Kernels
    BY <2>1, <2>3
  <2>5. QED
    BY <2>2, <2>3, <2>4 DEF Locked
<1>3. /\ Params(k) \subseteq Base /\ new \subseteq Base /\ DOMAIN arrayMap \subseteq Base /\ attached \subseteq DOMAIN known
      /\ k.ins \subseteq Params(k) /\ k.outs \subseteq Params(k)
  BY <1>2 DEF Params, Kernels, Owned, Mapped
<1>4. \A b \in new : /\ born[b] \in Nat /\ buffer[b] = <<b, born[b] + 1>> /\ buffer[b] \in Buffer
                     /\ buffer[b][1] = b /\ buffer[b][2] = born[b] + 1 /\ buffer[b] \notin DOMAIN heap
  <2>1. \A b \in new : b \in Base /\ born[b] \in Nat /\ buffer[b] = <<b, born[b] + 1>>
    BY <1>3 DEF Owned, TypeOK
  <2>2. \A b \in new : buffer[b] \in Buffer /\ buffer[b][1] = b /\ buffer[b][2] = born[b] + 1
    BY <2>1 DEF Buffer
  <2>3. QED
    BY <2>1, <2>2 DEF Owned, Mapped
<1>5. \A b \in Params(k) : b \in DOMAIN known /\ buffer[b] = known[b]
  BY <1>3
<1>6. DOMAIN known = DOMAIN arrayMap \union new /\ (\A b \in new : known[b] = buffer[b])
      /\ \A b \in DOMAIN arrayMap : known[b] = arrayMap[b]
  OBVIOUS
<1> HIDE DEF buffer, known, new, attached
<1>7. \A b \in DOMAIN known : known[b][1] = b /\ known[b] \in Buffer /\ known[b] \in DOMAIN heap'
  BY <1>1, <1>4, <1>6 DEF Owned, Mapped
<1>8. call' \in Call /\ call'.discards = {known[b] : b \in attached}
  <2>1. <<k.fid, k.lit>> \in Nat \X Nat /\ k.c \in Nat
    BY <1>2 DEF Kernels
  <2>2. {buffer[b] : b \in k.ins} \in SUBSET Buffer /\ {buffer[b] : b \in k.outs} \in SUBSET Buffer
        /\ {known[b] : b \in attached} \in SUBSET Buffer
    BY <1>3, <1>5, <1>7
  <2> HIDE DEF k
  <2>3. QED
    BY <1>1, <2>1, <2>2 DEF Call
<1>9. DOMAIN arrayMap' = DOMAIN known \ attached /\ \A b \in DOMAIN arrayMap' : arrayMap'[b] = known[b]
  BY <1>1 DEF Restrict
<1>10. TypeOK'
  <2>1. TypeOK
    BY DEF Owned
  <2>2. born \in [Base -> Nat]
    BY <2>1 DEF TypeOK
  <2>3. \A b \in Base : (IF b \in new THEN born[b] + 1 ELSE born[b]) \in Nat
    BY <2>2
  <2>4. born' \in [Base -> Nat]
    BY <1>1, <2>3
  <2>5. QED
    BY <1>1, <1>8, <2>1, <2>4 DEF TypeOK, Place
<1>11. Locked'
  BY <1>1 DEF Owned, Locked
<1>12. Mapped'
  <2>1. DOMAIN arrayMap' \subseteq Base /\ \A b \in DOMAIN arrayMap' : arrayMap'[b] \in DOMAIN heap' /\ arrayMap'[b][1] = b
    BY <1>3, <1>6, <1>7, <1>9
  <2>2. ASSUME NEW x \in DOMAIN heap
        PROVE  x \in Buffer /\ x[2] <= born'[x[1]]
    <3>1. x \in Buffer /\ x[2] <= born[x[1]] /\ x[1] \in Base /\ x[2] \in Nat /\ born[x[1]] \in Nat
      BY DEF Owned, Mapped, TypeOK, Buffer
    <3>2. born' = [b \in Base |-> IF b \in new THEN born[b] + 1 ELSE born[b]]
      BY <1>1
    <3>3. born'[x[1]] \in {born[x[1]], born[x[1]] + 1}
      BY <3>1, <3>2
    <3>4. QED
      BY <3>1, <3>3
  <2>3. ASSUME NEW b \in new
        PROVE  buffer[b] \in Buffer /\ buffer[b][2] <= born'[buffer[b][1]]
    <3>1. b \in Base /\ born[b] \in Nat /\ buffer[b] \in Buffer /\ buffer[b][1] = b /\ buffer[b][2] = born[b] + 1
      BY <1>3, <1>4
    <3>2. born' = [c \in Base |-> IF c \in new THEN born[c] + 1 ELSE born[c]]
      BY <1>1
    <3>3. born'[b] = born[b] + 1
      BY <3>1, <3>2
    <3>4. QED
      BY <3>1, <3>3
  <2>4. QED
    BY <1>1, <2>1, <2>2, <2>3 DEF Mapped
<1>13. OneOwner'
  <2>1. ASSUME NEW x \in DOMAIN heap'
        PROVE  \/ \E b \in DOMAIN arrayMap' : x = arrayMap'[b]
               \/ x \in call'.discards
               \/ \E i \in 1 .. Len(callQueue') : x \in callQueue'[i].discards
    <3>1. \/ \E b \in DOMAIN known : x = known[b]
          \/ \E i \in 1 .. Len(callQueue) : x \in callQueue[i].discards
      BY <1>1, <1>2, <1>6 DEF Owned, OneOwner, NoCall
    <3>2. QED
      BY <1>1, <1>8, <1>9, <3>1
  <2>2. call'.discards \subseteq DOMAIN heap' /\ \A b \in DOMAIN arrayMap' : arrayMap'[b] \notin call'.discards
    BY <1>3, <1>7, <1>8, <1>9
  <2>3. \A i \in 1 .. Len(callQueue) : callQueue[i].discards \subseteq DOMAIN heap
        /\ \A b \in DOMAIN arrayMap : arrayMap[b] \notin callQueue[i].discards
    BY DEF Owned, OneOwner
  <2>4. \A i \in 1 .. Len(callQueue) : \A b \in DOMAIN known : known[b] \notin callQueue[i].discards
    BY <1>4, <1>6, <2>3
  <2>5. \A i \in 1 .. Len(callQueue) :
          /\ callQueue[i].discards \subseteq DOMAIN heap'
          /\ \A b \in DOMAIN arrayMap' : arrayMap'[b] \notin callQueue[i].discards
          /\ callQueue[i].discards \cap call'.discards = {}
    <3>1. DOMAIN heap \subseteq DOMAIN heap'
      BY <1>1
    <3>2. attached \subseteq DOMAIN known
      BY <1>3
    <3>3. QED
      BY <1>8, <1>9, <2>3, <2>4, <3>1, <3>2
  <2>6. \A i, j \in 1 .. Len(callQueue) : i # j => callQueue[i].discards \cap callQueue[j].discards = {}
    BY DEF Owned, OneOwner
  <2>7. UNCHANGED callQueue
    BY <1>1
  <2>8. QED
    BY <2>1, <2>2, <2>5, <2>6, <2>7 DEF OneOwner
<1>14. QED
  BY <1>10, <1>11, <1>12, <1>13 DEF Owned

\* Every step keeps Owned.
LEMMA OwnedStep ==
  ASSUME Owned, [Next]_vars
  PROVE  Owned'
<1>1. CASE UNCHANGED vars
  BY <1>1, SameOwners DEF vars, owners, compiler, gpu, Owned, TypeOK
<1>2. ASSUME NEW b \in Imports, Bridge(b) PROVE Owned'
  BY <1>2, SameOwners DEF Bridge, owners, compiler, gpu, Owned, TypeOK
<1>3. ASSUME NEW cmd \in device, complete(cmd) PROVE Owned'
  BY <1>3, SameOwners DEF complete, owners, compiler, Owned, TypeOK
<1>4. CASE main
  BY <1>4, GenerateKernelOwned, RunKnownOwned, DeleteBuffersOwned, RunNewOwned, BuildNextOwned, AfterCallOwned,
     SystemKernelOwned, CallChildOwned DEF main
<1>5. ASSUME NEW t \in DOMAIN threads, build(t) \/ compileFails(t) PROVE Owned'
  BY <1>5, CompiledOwned, DrainOwned, DrainedOwned, CompileFailsOwned DEF build
<1>6. QED
  BY <1>1, <1>2, <1>3, <1>4, <1>5, ExecuteOwned, ChildFailsOwned DEF Next, sleep, Stopped

\* Every buffer always has one owner, as one invariant of the engine.
LEMMA OwnedAlways == Spec => []Owned
<1>1. Init => Owned
  BY OwnedInit
<1>2. Owned /\ [Next]_vars => Owned'
  BY OwnedStep
<1>3. QED
  BY <1>1, <1>2, PTL DEF Spec

(***************************************************************************)
(* For all lists of kernels: when no call is queued and schedule has       *)
(* returned, the engine has exactly the buffers of the arrays that it      *)
(* knows; what was discarded by the kernel, by the queue or by the child   *)
(* has been deleted.                                                       *)
(***************************************************************************)
THEOREM DiscardedIsDeleted == Spec => []NothingLeaks
<1>1. ASSUME Owned, pc = "idle", callQueue = <<>>
      PROVE  DOMAIN heap = Range(arrayMap)
  <2>1. call.discards = {} /\ 1 .. Len(callQueue) = {}
    <3>1. Locked
      BY <1>1 DEF Owned
    <3>2. call = NoCall
      BY <1>1, <3>1 DEF Locked
    <3>3. QED
      BY <1>1, <3>2 DEF NoCall
  <2>2. \A x \in DOMAIN heap : \E b \in DOMAIN arrayMap : x = arrayMap[b]
    BY <1>1, <2>1 DEF Owned, OneOwner
  <2>3. \A b \in DOMAIN arrayMap : arrayMap[b] \in DOMAIN heap
    BY <1>1 DEF Owned, Mapped
  <2>4. QED
    BY <2>2, <2>3 DEF Range
<1>2. Owned => NothingLeaks
  BY <1>1 DEF NothingLeaks
<1>3. QED
  BY <1>2, OwnedAlways, PTL

-----------------------------------------------------------------------------
(***************************************************************************)
(* The events of the device.                                               *)
(***************************************************************************)
\* The commands of the device were issued before the next call, under other events.
LEMMA OldCommands ==
  ASSUME Owned, Ordered, NEW c \in device
  PROVE  Issued(c) \in 0 .. ncall /\ c.id # <<"call", ncall + 1>>
<1>1. ncall \in Nat /\ IsCommand(c) /\ \A x \in DOMAIN heap : x \in Base \X Nat
  BY DEF Owned, TypeOK, Mapped, Buffer, Ordered
<1>2. CASE c.id \in DOMAIN heap
  <2>1. c.id[1] \in Base /\ c.id[1] # "call"
    BY <1>1, <1>2, BaseAssumption
  <2>2. QED
    BY <1>1, <2>1 DEF Issued
<1>3. CASE \E n \in 1 .. ncall : c.id = <<"call", n>>
  <2>1. PICK n \in 1 .. ncall : c.id = <<"call", n>>
    BY <1>3
  <2>2. QED
    BY <1>1, <2>1 DEF Issued
<1>4. QED
  BY <1>1, <1>2, <1>3 DEF IsCommand

\* Kernel::call: the new command waits for all commands that conflict with it, and is remembered by its buffers.
LEMMA IssueOrdered ==
  ASSUME Owned, Ordered, NEW cl, Uses(cl) \subseteq DOMAIN heap, Issue(cl)
  PROVE  Ordered'
<1>0. PICK event, wait : event = <<"call", ncall + 1>> /\ wait = waitFor(cl)
  OBVIOUS
<1>1. PICK new :
        /\ new = [id |-> event, ins |-> cl.ins, outs |-> cl.outs, c |-> cl.c, waits |-> wait]
        /\ ncall \in Nat /\ ncall' = ncall + 1 /\ device' = device \union {new} /\ DOMAIN heap' = DOMAIN heap
        /\ heap' = [x \in DOMAIN heap |->
             IF x \in cl.outs THEN [heap[x] EXCEPT !.write = {event}]
             ELSE IF x \in cl.ins THEN [heap[x] EXCEPT !.reads = @ \union {event}]
             ELSE heap[x]]
  BY <1>0 DEF Issue, Owned, TypeOK
<1>2. /\ new.id = event /\ new.ins = cl.ins /\ new.outs = cl.outs /\ new.waits = wait /\ new.c = cl.c
      /\ Issued(new) = ncall + 1 /\ Uses(new) = Uses(cl)
      /\ new = [id |-> new.id, ins |-> new.ins, outs |-> new.outs, c |-> new.c, waits |-> new.waits]
  BY <1>0, <1>1 DEF Issued, Uses
<1>3. \A x \in DOMAIN heap :
        /\ IsCell(heap'[x])
        /\ heap[x].reads \subseteq heap'[x].reads
        /\ x \in cl.outs => heap'[x].write = {event}
        /\ x \notin cl.outs => heap'[x].write = heap[x].write
        /\ x \in cl.ins \ cl.outs => event \in heap'[x].reads
  <2>1. ASSUME NEW x \in DOMAIN heap
        PROVE  /\ IsCell(heap'[x])
               /\ heap[x].reads \subseteq heap'[x].reads
               /\ x \in cl.outs => heap'[x].write = {event}
               /\ x \notin cl.outs => heap'[x].write = heap[x].write
               /\ x \in cl.ins \ cl.outs => event \in heap'[x].reads
    <3>1. heap[x] = [content |-> heap[x].content, write |-> heap[x].write, reads |-> heap[x].reads]
      BY DEF Ordered, IsCell
    <3>2. CASE x \in cl.outs
      <4>1. heap'[x] = [content |-> heap[x].content, write |-> {event}, reads |-> heap[x].reads]
        BY <1>1, <3>1, <3>2
      <4>2. QED
        BY <3>2, <4>1 DEF IsCell
    <3>3. CASE x \notin cl.outs /\ x \in cl.ins
      <4>1. heap'[x] = [content |-> heap[x].content, write |-> heap[x].write, reads |-> heap[x].reads \union {event}]
        BY <1>1, <3>1, <3>3
      <4>2. QED
        BY <3>3, <4>1 DEF IsCell
    <3>4. CASE x \notin cl.outs /\ x \notin cl.ins
      BY <1>1, <3>1, <3>4 DEF IsCell
    <3>5. QED
      BY <3>2, <3>3, <3>4
  <2>2. QED
    BY <2>1
<1>4. \A c \in device : /\ Issued(c) < Issued(new) /\ ~(Issued(new) < Issued(c)) /\ c.id # event
                        /\ Uses(c) \subseteq DOMAIN heap
  BY <1>0, <1>1, <1>2, OldCommands DEF Ordered, IsCommand
<1>5. ~(Issued(new) < Issued(new))
  BY <1>1, <1>2
<1>6. \A x \in Uses(cl) : heap[x].write \subseteq new.waits
  BY <1>0, <1>2 DEF waitFor, Uses
<1>7. \A x \in cl.outs : heap[x].reads \subseteq new.waits
  BY <1>0, <1>2 DEF waitFor
<1>8. \A c \in device' : IsCommand(c)'
  <2>1. ASSUME NEW c \in device PROVE IsCommand(c)'
    <3>1. IsCommand(c)
      BY DEF Ordered
    <3>2. \A n \in 1 .. ncall : n \in 1 .. ncall'
      BY <1>1
    <3>3. QED
      BY <1>1, <3>1, <3>2 DEF IsCommand
  <2>2. IsCommand(new)'
    <3>1. ncall' \in 1 .. ncall' /\ new.id = <<"call", ncall'>>
      BY <1>0, <1>1, <1>2
    <3>2. QED
      BY <1>1, <1>2, <3>1 DEF IsCommand
  <2>3. QED
    BY <1>1, <2>1, <2>2
<1>9. \A c, d \in device' : c.id = d.id => c = d
  BY <1>1, <1>2, <1>4 DEF Ordered
<1>10. Remembered'
  <2>1. ASSUME NEW c \in device', NEW x \in c.outs
        PROVE  \E p \in device' : x \in p.outs /\ p.id \in heap'[x].write /\ NotBefore(c, p)
    <3>1. CASE x \in cl.outs
      BY <1>1, <1>2, <1>3, <1>4, <3>1 DEF NotBefore, Uses
    <3>2. CASE x \notin cl.outs
      <4>1. c \in device /\ x \in DOMAIN heap
        BY <1>1, <1>2, <1>4, <3>2 DEF Uses
      <4>2. PICK p \in device : x \in p.outs /\ p.id \in heap[x].write /\ NotBefore(c, p)
        BY <4>1 DEF Ordered, Remembered
      <4>3. QED
        BY <1>1, <1>3, <3>2, <4>1, <4>2
    <3>3. QED
      BY <3>1, <3>2
  <2>2. ASSUME NEW c \in device', NEW x \in c.ins \ c.outs
        PROVE  c.id \in heap'[x].reads
    BY <1>1, <1>2, <1>3, <1>4 DEF Ordered, Remembered, Uses
  <2>3. QED
    BY <2>1, <2>2 DEF Remembered, NotBefore
<1>11. Awaits'
  <2>1. ASSUME NEW c \in device', NEW d \in device', NEW x \in c.outs \cap Uses(d), Issued(c) < Issued(d)
        PROVE  \E p \in device' : x \in p.outs /\ p.id \in d.waits /\ NotBefore(c, p)
    <3>1. c \in device
      BY <1>1, <1>4, <1>5, <2>1
    <3>2. CASE d = new
      <4>1. PICK p \in device : x \in p.outs /\ p.id \in heap[x].write /\ NotBefore(c, p)
        BY <3>1 DEF Ordered, Remembered
      <4>2. QED
        BY <1>1, <1>2, <1>6, <3>2, <4>1
    <3>3. CASE d # new
      BY <1>1, <2>1, <3>1, <3>3 DEF Ordered, Awaits
    <3>4. QED
      BY <3>2, <3>3
  <2>2. ASSUME NEW c \in device', NEW d \in device', NEW x \in (c.ins \ c.outs) \cap d.outs, Issued(c) < Issued(d)
        PROVE  c.id \in d.waits
    <3>1. c \in device
      BY <1>1, <1>4, <1>5, <2>2
    <3>2. CASE d = new
      BY <1>2, <1>7, <3>1, <3>2 DEF Ordered, Remembered
    <3>3. CASE d # new
      BY <1>1, <2>2, <3>1, <3>3 DEF Ordered, Awaits
    <3>4. QED
      BY <3>2, <3>3
  <2>3. QED
    BY <2>1, <2>2 DEF Awaits, NotBefore, Uses
<1>12. QED
  BY <1>1, <1>3, <1>8, <1>9, <1>10, <1>11 DEF Ordered, IsCell

\* A command completes: it waited for nothing, so no earlier command writes a buffer of which it is the last writer.
LEMMA CompleteOrdered ==
  ASSUME Ordered, NEW cmd \in device, complete(cmd)
  PROVE  Ordered'
<1> DEFINE rest(o) == [o EXCEPT !.waits = @ \ {cmd.id}]
<1>1. /\ cmd.waits = {} /\ device' = {rest(o) : o \in device \ {cmd}} /\ UNCHANGED ncall /\ DOMAIN heap' = DOMAIN heap
      /\ \A x \in DOMAIN heap : /\ IsCell(heap'[x])
                                /\ heap'[x].write = heap[x].write \ {cmd.id}
                                /\ heap'[x].reads = heap[x].reads \ {cmd.id}
  BY DEF complete, IsCell
<1>2. \A o \in device :
        /\ rest(o).id = o.id /\ rest(o).ins = o.ins /\ rest(o).outs = o.outs /\ rest(o).waits = o.waits \ {cmd.id}
        /\ Issued(rest(o)) = Issued(o) /\ Uses(rest(o)) = Uses(o)
        /\ rest(o) = [id |-> rest(o).id, ins |-> rest(o).ins, outs |-> rest(o).outs, c |-> rest(o).c, waits |-> rest(o).waits]
  <2>1. ASSUME NEW o \in device
        PROVE  rest(o) = [id |-> o.id, ins |-> o.ins, outs |-> o.outs, c |-> o.c, waits |-> o.waits \ {cmd.id}]
    <3>1. o = [id |-> o.id, ins |-> o.ins, outs |-> o.outs, c |-> o.c, waits |-> o.waits]
      BY DEF Ordered, IsCommand
    <3>2. QED
      BY <3>1
  <2> HIDE DEF rest
  <2>2. QED
    BY <2>1 DEF Issued, Uses
<1>3. \A c \in device' : \E o \in device : o # cmd /\ o.id # cmd.id /\ c = rest(o)
  BY <1>1 DEF Ordered
<1>4. \A o \in device : o # cmd => rest(o) \in device'
  BY <1>1
<1> HIDE DEF rest
<1>5. \A c \in device' : IsCommand(c)'
  <2>1. ASSUME NEW c \in device' PROVE IsCommand(c)'
    <3>1. PICK o \in device : c = rest(o)
      BY <1>3
    <3>2. IsCommand(o)
      BY DEF Ordered
    <3>3. QED
      BY <1>1, <1>2, <3>1, <3>2 DEF IsCommand
  <2>2. QED
    BY <2>1
<1>6. \A c, d \in device' : c.id = d.id => c = d
  BY <1>2, <1>3 DEF Ordered
<1>7. \A o, p \in device : NotBefore(o, p) => NotBefore(rest(o), rest(p))
  BY <1>2 DEF NotBefore
<1>8. Remembered'
  <2>1. ASSUME NEW c \in device', NEW x \in c.outs
        PROVE  \E p \in device' : x \in p.outs /\ p.id \in heap'[x].write /\ NotBefore(c, p)
    <3>1. PICK o \in device : o # cmd /\ c = rest(o)
      BY <1>3
    <3>2. x \in o.outs /\ x \in DOMAIN heap
      BY <1>2, <3>1 DEF Ordered, IsCommand, Uses
    <3>3. PICK p \in device : x \in p.outs /\ p.id \in heap[x].write /\ NotBefore(o, p)
      BY <3>2 DEF Ordered, Remembered
    <3>4. p # cmd
      <4>1. SUFFICES ASSUME p = cmd PROVE FALSE
        OBVIOUS
      <4>2. Issued(o) < Issued(cmd) /\ x \in o.outs \cap Uses(cmd)
        BY <3>1, <3>2, <3>3, <4>1 DEF NotBefore, Uses
      <4>3. QED
        BY <1>1, <4>2 DEF Ordered, Awaits
    <3>5. p.id # cmd.id
      BY <3>4 DEF Ordered
    <3>6. rest(p) \in device' /\ x \in rest(p).outs /\ rest(p).id \in heap'[x].write /\ NotBefore(c, rest(p))
      BY <1>1, <1>2, <1>4, <1>7, <3>1, <3>2, <3>3, <3>4, <3>5
    <3>7. QED
      BY <3>6
  <2>2. ASSUME NEW c \in device', NEW x \in c.ins \ c.outs
        PROVE  c.id \in heap'[x].reads
    <3>1. PICK o \in device : o # cmd /\ o.id # cmd.id /\ c = rest(o)
      BY <1>3
    <3>2. x \in o.ins \ o.outs /\ x \in DOMAIN heap /\ c.id = o.id
      BY <1>2, <3>1 DEF Ordered, IsCommand, Uses
    <3>3. QED
      BY <1>1, <3>1, <3>2 DEF Ordered, Remembered
  <2>3. QED
    BY <2>1, <2>2 DEF Remembered, NotBefore
<1>9. Awaits'
  <2>1. ASSUME NEW c \in device', NEW d \in device', NEW x \in c.outs \cap Uses(d), Issued(c) < Issued(d)
        PROVE  \E p \in device' : x \in p.outs /\ p.id \in d.waits /\ NotBefore(c, p)
    <3>1. PICK o \in device : o # cmd /\ c = rest(o)
      BY <1>3
    <3>2. PICK u \in device : u # cmd /\ d = rest(u)
      BY <1>3
    <3>3. x \in o.outs \cap Uses(u) /\ Issued(o) < Issued(u)
      BY <1>2, <2>1, <3>1, <3>2
    <3>4. PICK p \in device : x \in p.outs /\ p.id \in u.waits /\ NotBefore(o, p)
      BY <3>3 DEF Ordered, Awaits
    <3>5. p # cmd
      <4>1. SUFFICES ASSUME p = cmd PROVE FALSE
        OBVIOUS
      <4>2. Issued(o) < Issued(cmd) /\ x \in o.outs \cap Uses(cmd)
        BY <3>1, <3>3, <3>4, <4>1 DEF NotBefore, Uses
      <4>3. QED
        BY <1>1, <4>2 DEF Ordered, Awaits
    <3>6. p.id # cmd.id
      BY <3>5 DEF Ordered
    <3>7. rest(p) \in device' /\ x \in rest(p).outs /\ rest(p).id \in d.waits /\ NotBefore(c, rest(p))
      BY <1>2, <1>4, <1>7, <3>1, <3>2, <3>4, <3>5, <3>6
    <3>8. QED
      BY <3>7
  <2>2. ASSUME NEW c \in device', NEW d \in device', NEW x \in (c.ins \ c.outs) \cap d.outs, Issued(c) < Issued(d)
        PROVE  c.id \in d.waits
    <3>1. PICK o \in device : o # cmd /\ o.id # cmd.id /\ c = rest(o)
      BY <1>3
    <3>2. PICK u \in device : u # cmd /\ d = rest(u)
      BY <1>3
    <3>3. x \in (o.ins \ o.outs) \cap u.outs /\ Issued(o) < Issued(u)
      BY <1>2, <2>2, <3>1, <3>2
    <3>4. o.id \in u.waits
      BY <3>3 DEF Ordered, Awaits
    <3>5. QED
      BY <1>2, <3>1, <3>2, <3>4
  <2>3. QED
    BY <2>1, <2>2 DEF Awaits, NotBefore, Uses
<1>10. QED
  BY <1>1, <1>5, <1>6, <1>8, <1>9 DEF Ordered, IsCell

\* ~Buffer: when the events that a buffer remembers are complete, no command uses the buffer any more.
LEMMA DeleteOrdered ==
  ASSUME Ordered, NEW bufs, Deletable(bufs), heap' = Without(bufs), UNCHANGED <<device, ncall>>
  PROVE  Ordered'
<1>1. DOMAIN heap' = DOMAIN heap \ bufs /\ \A x \in DOMAIN heap' : heap'[x] = heap[x]
  BY DEF Without, Restrict
<1>2. \A c \in device : Uses(c) \subseteq DOMAIN heap'
  <2>1. ASSUME NEW c \in device, NEW x \in Uses(c), x \in bufs PROVE FALSE
    <3>1. heap[x].write = {} /\ heap[x].reads = {}
      BY <2>1 DEF Deletable
    <3>2. QED
      BY <3>1 DEF Ordered, Remembered, Uses
  <2>2. QED
    BY <1>1, <2>1 DEF Ordered, IsCommand
<1>3. \A c \in device' : IsCommand(c)'
  <2>1. ASSUME NEW c \in device PROVE IsCommand(c)'
    BY <1>2 DEF Ordered, IsCommand, Uses
  <2>2. QED
    BY <2>1
<1>4. Remembered'
  BY <1>1, <1>2 DEF Ordered, Remembered, Uses
<1>5. Awaits'
  BY DEF Ordered, Awaits
<1>6. QED
  BY <1>1, <1>3, <1>4, <1>5 DEF Ordered

\* A step that changes neither the heap nor the device.
LEMMA SameOrdered ==
  ASSUME Ordered, UNCHANGED <<heap, device, ncall>>
  PROVE  Ordered'
  BY DEF Ordered, IsCommand, IsCell, Remembered, Awaits

\* generateKernel: a copy to a new buffer is the only command that uses it.
LEMMA GenerateOrdered ==
  ASSUME Owned, Ordered, generateKernel
  PROVE  Ordered'
<1>1. PICK copied, buffer :
        /\ copied \subseteq Base /\ \A b \in copied : buffer[b] = <<b, born[b] + 1>>
        /\ device' = device \union {[id |-> buffer[b], ins |-> {}, outs |-> {buffer[b]}, c |-> 0, waits |-> {}] : b \in copied}
        /\ UNCHANGED ncall /\ DOMAIN heap \subseteq DOMAIN heap'
        /\ \A b \in copied : buffer[b] \in DOMAIN heap'
        /\ \A x \in DOMAIN heap : heap'[x] = heap[x]
        /\ \A x \in DOMAIN heap' \ DOMAIN heap :
             heap'[x] = [content |-> Undef, write |-> IF x[1] \in copied THEN {x} ELSE {}, reads |-> {}]
  <2> DEFINE k == Head(todo)
             new == Params(k) \ DOMAIN arrayMap
             buffer == [b \in Params(k) |-> IF b \in new THEN <<b, born[b] + 1>> ELSE arrayMap[b]]
             copied == {b \in new : data[b] # NULL}
  <2>1. todo # <<>> /\ k \in Kernels
    <3>1. todo # <<>>
      BY DEF generateKernel
    <3>2. todo \in Seq(Kernels)
      BY DEF Owned, TypeOK
    <3>3. QED
      BY <3>1, <3>2
  <2>2. copied \subseteq Base /\ \A b \in copied : b \in new /\ buffer[b] = <<b, born[b] + 1>>
    BY <2>1 DEF Params, Kernels
  <2>3. /\ heap' = [x \in DOMAIN heap \union {buffer[b] : b \in new} |->
             IF x \in DOMAIN heap THEN heap[x]
             ELSE [content |-> Undef, write |-> IF x[1] \in copied THEN {x} ELSE {}, reads |-> {}]]
        /\ device' = device \union {[id |-> buffer[b], ins |-> {}, outs |-> {buffer[b]}, c |-> 0, waits |-> {}] : b \in copied}
        /\ UNCHANGED ncall
    BY DEF generateKernel
  <2> HIDE DEF k, new, buffer, copied
  <2>4. /\ DOMAIN heap \subseteq DOMAIN heap' /\ (\A b \in copied : buffer[b] \in DOMAIN heap')
        /\ \A x \in DOMAIN heap : heap'[x] = heap[x]
        /\ \A x \in DOMAIN heap' \ DOMAIN heap :
             heap'[x] = [content |-> Undef, write |-> IF x[1] \in copied THEN {x} ELSE {}, reads |-> {}]
    BY <2>2, <2>3
  <2> WITNESS copied, buffer
  <2>5. QED
    BY <2>2, <2>3, <2>4
<1> DEFINE copy(b) == [id |-> buffer[b], ins |-> {}, outs |-> {buffer[b]}, c |-> 0, waits |-> {}]
<1>2. \A b \in copied : /\ copy(b).id = buffer[b] /\ copy(b).ins = {} /\ copy(b).outs = {buffer[b]} /\ copy(b).waits = {}
                        /\ copy(b) = [id |-> copy(b).id, ins |-> copy(b).ins, outs |-> copy(b).outs, c |-> copy(b).c,
                                      waits |-> copy(b).waits]
                        /\ Uses(copy(b)) = {buffer[b]}
  BY DEF Uses
<1>3. \A b \in copied : buffer[b] \notin DOMAIN heap /\ buffer[b][1] = b /\ Issued(copy(b)) = 0
  <2>1. ASSUME NEW b \in copied PROVE buffer[b] \notin DOMAIN heap /\ buffer[b][1] = b /\ Issued(copy(b)) = 0
    <3>1. born \in [Base -> Nat] /\ Mapped
      BY DEF Owned, TypeOK
    <3>2. b \in Base /\ buffer[b] = <<b, born[b] + 1>>
      BY <1>1
    <3>3. born[b] \in Nat /\ b # "call" /\ buffer[b][1] = b /\ buffer[b][2] = born[b] + 1
      BY <3>1, <3>2, BaseAssumption
    <3>4. buffer[b] \notin DOMAIN heap
      BY <3>1, <3>3 DEF Mapped
    <3> HIDE DEF copy
    <3>5. Issued(copy(b)) = 0
      BY <1>2, <3>3 DEF Issued
    <3>6. QED
      BY <3>3, <3>4, <3>5
  <2>2. QED
    BY <2>1
<1>4. device' = device \union {copy(b) : b \in copied}
  BY <1>1
<1> HIDE DEF copy
<1>5. \A c \in device : Uses(c) \subseteq DOMAIN heap /\ Issued(c) \in Nat /\ (c.id \in DOMAIN heap \/ c.id[1] = "call")
  <2>1. ASSUME NEW c \in device
        PROVE  Uses(c) \subseteq DOMAIN heap /\ Issued(c) \in Nat /\ (c.id \in DOMAIN heap \/ c.id[1] = "call")
    <3>1. Issued(c) \in 0 .. ncall
      BY OldCommands
    <3>2. QED
      BY <3>1 DEF Ordered, IsCommand, Owned, TypeOK
  <2>2. QED
    BY <2>1
<1>6. \A c \in device' : IsCommand(c)'
  <2>1. ASSUME NEW c \in device PROVE IsCommand(c)'
    BY <1>1 DEF Ordered, IsCommand, Uses
  <2>2. ASSUME NEW b \in copied PROVE IsCommand(copy(b))'
    <3>1. PICK c : c = copy(b)
      OBVIOUS
    <3>2. IsCommand(c)'
      BY <1>1, <1>2, <3>1 DEF IsCommand
    <3>3. QED
      BY <3>1, <3>2 DEF copy
  <2>3. QED
    BY <1>4, <2>1, <2>2 DEF copy
<1>7. \A c, d \in device' : c.id = d.id => c = d
  <2>1. \A b \in copied : \A c \in device : c.id # copy(b).id
    BY <1>1, <1>2, <1>3, <1>5, BaseAssumption
  <2>2. \A b, e \in copied : copy(b).id = copy(e).id => b = e
    BY <1>2, <1>3
  <2>3. QED
    BY <1>4, <2>1, <2>2 DEF Ordered
<1>8. Remembered'
  <2>1. ASSUME NEW c \in device', NEW x \in c.outs
        PROVE  \E p \in device' : x \in p.outs /\ p.id \in heap'[x].write /\ NotBefore(c, p)
    <3>1. CASE c \in device
      BY <1>1, <1>4, <1>5, <3>1 DEF Ordered, Remembered, Uses
    <3>2. CASE \E b \in copied : c = copy(b)
      <4>1. PICK b \in copied : c = copy(b)
        BY <3>2
      <4>2. x = buffer[b] /\ c.id = x
        BY <1>2, <4>1
      <4>3. x \in DOMAIN heap' \ DOMAIN heap /\ x[1] \in copied
        BY <1>1, <1>3, <4>2
      <4>4. heap'[x] = [content |-> Undef, write |-> {x}, reads |-> {}]
        BY <1>1, <4>3
      <4>5. x \in heap'[x].write
        BY <4>4
      <4>6. QED
        BY <4>2, <4>5 DEF NotBefore
    <3>3. QED
      BY <1>4, <3>1, <3>2
  <2>2. ASSUME NEW c \in device', NEW x \in c.ins \ c.outs
        PROVE  c.id \in heap'[x].reads
    <3>1. c \in device
      BY <1>2, <1>4
    <3>2. QED
      BY <1>1, <1>5, <3>1 DEF Ordered, Remembered, Uses
  <2>3. QED
    BY <2>1, <2>2 DEF Remembered, NotBefore
<1>9. Awaits'
  <2>1. ASSUME NEW c \in device', NEW d \in device', Issued(c) < Issued(d), (c.outs \cap Uses(d)) \union (c.ins \cap d.outs) # {}
        PROVE  c \in device /\ d \in device
    <3>1. ASSUME NEW b \in copied, d = copy(b) PROVE FALSE
      BY <1>3, <1>4, <1>5, <2>1, <3>1
    <3>2. d \in device
      BY <1>4, <3>1
    <3>3. QED
      BY <1>2, <1>3, <1>4, <1>5, <2>1, <3>2 DEF Uses
  <2>2. QED
    BY <1>4, <2>1 DEF Ordered, Awaits, Uses
<1>10. \A x \in DOMAIN heap' : IsCell(heap'[x])
  <2>1. ASSUME NEW x \in DOMAIN heap'
        PROVE  IsCell(heap'[x])
    <3>1. CASE x \in DOMAIN heap
      <4>1. IsCell(heap[x]) /\ heap'[x] = heap[x]
        BY <1>1, <3>1 DEF Ordered
      <4>2. QED
        BY <4>1
    <3>2. CASE x \notin DOMAIN heap
      <4>1. PICK w : heap'[x] = [content |-> Undef, write |-> w, reads |-> {}]
        BY <1>1, <3>2
      <4>2. QED
        BY <4>1 DEF IsCell
    <3>3. QED
      BY <3>1, <3>2
  <2>2. QED
    BY <2>1
<1>11. QED
  <2>1. (\A x \in DOMAIN heap : IsCell(heap[x]))'
    BY <1>10 DEF IsCell
  <2>2. QED
    BY <1>6, <1>7, <1>8, <1>9, <2>1 DEF Ordered

-----------------------------------------------------------------------------
(***************************************************************************)
(* Safe is an invariant when all kernels of the lists are SafeKernels.     *)
(***************************************************************************)
\* discard(arrays) while no call is queued, or of arrays that the engine does not know.
LEMMA DiscardUsable ==
  ASSUME Usable, call = NoCall, NEW gone, Known(gone) = {} \/ callQueue = <<>>,
         DOMAIN heap' = DOMAIN heap \ Known(gone), UNCHANGED <<call, callQueue>>
  PROVE  Usable'
<1>1. Uses(call') = {}
  BY DEF Uses, NoCall
<1>2. CASE Known(gone) = {}
  BY <1>2 DEF Usable, Uses
<1>3. CASE callQueue = <<>>
  BY <1>1, <1>3 DEF Usable
<1>4. QED
  BY <1>2, <1>3

\* The end of a kernel.
LEMMA NextSafeKernel ==
  ASSUME todo \in Seq(SafeKernels), todo # <<>>, NEW k, NEW d, NEW m, EndKernel(k, d, m)
  PROVE  todo' \in Seq(SafeKernels) /\ InWork'
  BY DEF EndKernel, InWork

\* After sync the queue is empty: what the kernel discards is used by no call.
LEMMA AfterCallSafe ==
  ASSUME Safe, afterCall
  PROVE  Safe'
<1> DEFINE k == Head(todo)
           gone == IF k.syncs = {} THEN {} ELSE k.discards
<1>1. /\ pc = "called" /\ heap' = Without(Known(gone)) /\ EndKernel(k, Synced(k.syncs), mem)
      /\ Syncable(k.syncs) /\ Deletable(Known(gone))
      /\ UNCHANGED <<call, callQueue, device, ncall>>
  BY DEF afterCall, compiler
<1>2. Owned' /\ Owned /\ todo # <<>> /\ call = NoCall /\ k \in SafeKernels
  <2>1. Owned' /\ Owned /\ todo \in Seq(SafeKernels)
    BY AfterCallOwned DEF Safe
  <2>2. todo # <<>> /\ call = NoCall
    BY <1>1, <2>1 DEF Owned, TypeOK, Locked
  <2>3. QED
    BY <2>1, <2>2
<1>3. Known(gone) = {} \/ callQueue = <<>>
  <2>1. CASE k.syncs # {} /\ k.discards # {}
    <3>1. PICK b \in k.syncs \cap Params(k) : TRUE
      BY <1>1, <1>2, <2>1 DEF Safe, InWork, SafeKernels
    <3>2. b \in DOMAIN arrayMap
      BY <1>1, <2>1, <3>1 DEF Safe, InWork
    <3>3. Known(k.syncs) # {}
      BY <3>1, <3>2 DEF Known
    <3>4. QED
      BY <1>1, <3>3 DEF Syncable
  <2>2. CASE k.syncs = {} \/ k.discards = {}
    BY <2>2 DEF Known
  <2>3. QED
    BY <2>1, <2>2
<1> HIDE DEF gone, k
<1>4. DOMAIN heap' = DOMAIN heap \ Known(gone)
  BY <1>1 DEF Without, Restrict
<1>5. Usable'
  BY <1>1, <1>2, <1>3, <1>4, DiscardUsable DEF Safe
<1>6. Ordered'
  BY <1>1, DeleteOrdered DEF Safe
<1>7. todo' \in Seq(SafeKernels) /\ InWork'
  BY <1>1, <1>2, NextSafeKernel DEF Safe
<1>8. QED
  BY <1>2, <1>5, <1>6, <1>7 DEF Safe

\* call_child has waited for the queue when it discards an array that the engine knows.
LEMMA CallChildSafe ==
  ASSUME Safe, call_child
  PROVE  Safe'
<1> DEFINE k == Head(todo)
           gone == k.outs \union k.discards
<1>1. PICK d, m : /\ pc = "kernel" /\ todo # <<>> /\ k.outs # {} /\ k.scalar
                  /\ heap' = Without(Known(gone)) /\ EndKernel(k, d, m)
                  /\ Syncable(ChildSyncs(k)) /\ Deletable(Known(gone))
                  /\ UNCHANGED <<call, callQueue, device, ncall>>
  BY DEF call_child, compiler
<1>2. Owned' /\ Owned /\ call = NoCall /\ k \in SafeKernels
  <2>1. Owned' /\ Owned /\ todo \in Seq(SafeKernels)
    BY CallChildOwned DEF Safe
  <2>2. call = NoCall
    BY <1>1, <2>1 DEF Owned, Locked
  <2>3. QED
    BY <1>1, <2>1, <2>2
<1>3. Known(gone) = {} \/ callQueue = <<>>
  <2>1. gone \subseteq ChildSyncs(k)
    BY <1>1, <1>2 DEF SafeKernels, ChildSyncs, Params
  <2> HIDE DEF gone, k
  <2>2. Known(gone) \subseteq Known(ChildSyncs(k))
    BY <2>1 DEF Known
  <2>3. QED
    BY <1>1, <2>2 DEF Syncable
<1> HIDE DEF gone, k
<1>4. DOMAIN heap' = DOMAIN heap \ Known(gone)
  BY <1>1 DEF Without, Restrict
<1>5. Usable'
  BY <1>1, <1>2, <1>3, <1>4, DiscardUsable DEF Safe
<1>6. Ordered'
  BY <1>1, DeleteOrdered DEF Safe
<1>7. todo' \in Seq(SafeKernels) /\ InWork'
  BY <1>1, <1>2, NextSafeKernel DEF Safe
<1>8. QED
  BY <1>2, <1>5, <1>6, <1>7 DEF Safe

\* The same when the child fails.
LEMMA ChildFailsSafe ==
  ASSUME Safe, childFails
  PROVE  Safe'
<1> DEFINE k == Head(todo)
<1>1. /\ pc = "kernel" /\ todo # <<>> /\ pc' = "failed" /\ heap' = Without(Known(k.outs))
      /\ Syncable(ChildSyncs(k)) /\ Deletable(Known(k.outs)) /\ UNCHANGED <<todo, call, callQueue, device, ncall>>
  BY DEF childFails, compiler
<1>2. Owned' /\ Owned /\ call = NoCall
  <2>1. Owned' /\ Owned
    BY ChildFailsOwned DEF Safe
  <2>2. QED
    BY <1>1, <2>1 DEF Owned, Locked
<1> HIDE DEF k
<1>3. Known(k.outs) = {} \/ callQueue = <<>>
  <2>1. Known(k.outs) \subseteq Known(ChildSyncs(k))
    BY DEF Known, ChildSyncs, Params
  <2>2. QED
    BY <1>1, <2>1 DEF Syncable
<1>4. DOMAIN heap' = DOMAIN heap \ Known(k.outs)
  BY <1>1 DEF Without, Restrict
<1>5. Usable'
  BY <1>1, <1>2, <1>3, <1>4, DiscardUsable DEF Safe
<1>6. Ordered'
  BY <1>1, DeleteOrdered DEF Safe
<1>7. todo' \in Seq(SafeKernels) /\ InWork'
  BY <1>1 DEF Safe, InWork
<1>8. QED
  BY <1>2, <1>5, <1>6, <1>7 DEF Safe

\* Without calls in the queue the discards of a kernel without computations are done at once, else by the last call.
LEMMA SystemKernelSafe ==
  ASSUME Safe, systemKernel
  PROVE  Safe'
<1> DEFINE k == Head(todo)
<1>1. /\ pc = "kernel" /\ todo # <<>> /\ EndKernel(k, Synced(k.syncs), mem) /\ UNCHANGED <<call, device, ncall>>
  BY DEF systemKernel
<1>2. Owned' /\ Owned /\ todo \in Seq(SafeKernels)
  BY SystemKernelOwned DEF Safe
<1>3. call = NoCall
  BY <1>1, <1>2 DEF Owned, Locked
<1>4. todo' \in Seq(SafeKernels) /\ InWork'
  BY <1>1, <1>2, NextSafeKernel
<1>5. Usable' /\ Ordered'
  <2>1. CASE Attach
    <3>1. /\ UNCHANGED heap /\ callQueue # <<>>
          /\ callQueue' = [callQueue EXCEPT ![Len(callQueue)].discards = @ \union Known(k.discards)]
      BY <2>1 DEF systemKernel, Attach
    <3>2. callQueue \in Seq(Call)
      BY <1>2 DEF Owned, TypeOK
    <3> HIDE DEF k
    <3>3. /\ Len(callQueue') = Len(callQueue) /\ Len(callQueue) \in Nat
          /\ \A i \in 1 .. Len(callQueue) : Uses(callQueue'[i]) = Uses(callQueue[i])
          /\ \A i \in 1 .. Len(callQueue) : i # Len(callQueue) => callQueue'[i].discards = callQueue[i].discards
      <4>1. DOMAIN callQueue = 1 .. Len(callQueue) /\ \A i \in 1 .. Len(callQueue) : callQueue[i] \in Call
        BY <3>2
      <4>2. DOMAIN callQueue' = 1 .. Len(callQueue) /\ callQueue' \in Seq(Call)
        BY <1>2, <3>1, <4>1 DEF Owned, TypeOK
      <4>3. \A i \in 1 .. Len(callQueue) :
              /\ callQueue'[i].ins = callQueue[i].ins /\ callQueue'[i].outs = callQueue[i].outs
              /\ i # Len(callQueue) => callQueue'[i].discards = callQueue[i].discards
        BY <3>1, <4>1 DEF Call
      <4>4. QED
        BY <3>2, <4>2, <4>3 DEF Uses
    <3>4. Uses(call') = {}
      BY <1>1, <1>3 DEF Uses, NoCall
    <3>5. \A i, j \in 1 .. Len(callQueue) : i < j => i # Len(callQueue)
      BY <3>3
    <3>6. Usable'
      <4>1. \A i \in 1 .. Len(callQueue') : Uses(callQueue'[i]) \subseteq DOMAIN heap'
        BY <3>1, <3>3 DEF Safe, Usable
      <4>2. \A i, j \in 1 .. Len(callQueue') : i < j => callQueue'[i].discards \cap Uses(callQueue'[j]) = {}
        BY <3>3, <3>5 DEF Safe, Usable
      <4>3. QED
        BY <3>4, <4>1, <4>2 DEF Usable
    <3>7. QED
      BY <1>1, <3>1, <3>6, SameOrdered DEF Safe
  <2>2. CASE ~Attach
    <3>1. Deletable(Known(k.discards)) /\ heap' = Without(Known(k.discards)) /\ UNCHANGED callQueue /\ callQueue = <<>>
      BY <2>2 DEF systemKernel, Attach
    <3> HIDE DEF k
    <3>2. DOMAIN heap' = DOMAIN heap \ Known(k.discards)
      BY <3>1 DEF Without, Restrict
    <3>3. Usable'
      BY <1>1, <1>3, <3>1, <3>2, DiscardUsable DEF Safe
    <3>4. QED
      BY <1>1, <3>1, <3>3, DeleteOrdered DEF Safe
  <2>3. QED
    BY <2>1, <2>2
<1>6. QED
  BY <1>2, <1>4, <1>5 DEF Safe

\* A call goes to the end of the queue: no call before it deletes what it needs.
LEMMA QueueUsable ==
  ASSUME Owned, Usable, NEW cl \in Call, cl.discards = call.discards, cl.ins = call.ins, cl.outs = call.outs,
         callQueue' = Append(callQueue, cl), call' = NoCall, UNCHANGED heap
  PROVE  Usable'
<1>1. /\ Len(callQueue') = Len(callQueue) + 1 /\ Len(callQueue) \in Nat
      /\ \A i \in 1 .. Len(callQueue) : callQueue'[i] = callQueue[i]
      /\ callQueue'[Len(callQueue) + 1] = cl
  BY DEF Owned, TypeOK
<1>2. Uses(call') = {} /\ Uses(cl) = Uses(call)
  BY DEF NoCall, Uses
<1>3. \A i \in 1 .. Len(callQueue') : i \in 1 .. Len(callQueue) \/ i = Len(callQueue) + 1
  BY <1>1
<1>4. \A i \in 1 .. Len(callQueue') : Uses(callQueue'[i]) \subseteq DOMAIN heap
  BY <1>1, <1>2, <1>3 DEF Usable
<1>5. ASSUME NEW i \in 1 .. Len(callQueue'), NEW j \in 1 .. Len(callQueue'), i < j
      PROVE  callQueue'[i].discards \cap Uses(callQueue'[j]) = {}
  <2>1. i \in 1 .. Len(callQueue)
    BY <1>1, <1>5
  <2>2. CASE j \in 1 .. Len(callQueue)
    BY <1>1, <1>5, <2>1, <2>2 DEF Usable
  <2>3. CASE j = Len(callQueue) + 1
    BY <1>1, <1>2, <2>1, <2>3 DEF Usable
  <2>4. QED
    BY <1>3, <2>2, <2>3
<1>6. QED
  BY <1>2, <1>4, <1>5 DEF Usable

\* compileAndRun of a known kernel: the call is issued when no call is before it.
LEMMA RunKnownSafe ==
  ASSUME Safe, runKnown
  PROVE  Safe'
<1> DEFINE id == <<call.id[1], IF knownKernelID[call.id[1]] = call.id[2] THEN call.id[2] ELSE 0>>
<1>1. Owned' /\ Owned /\ UNCHANGED <<todo, arrayMap>> /\ pc = "compileAndRun" /\ pc' \in {"deleteBuffers", "called"}
  BY RunKnownOwned DEF Safe, runKnown
<1>2. todo' \in Seq(SafeKernels) /\ InWork'
  BY <1>1 DEF Safe, InWork
<1>3. CASE callNow(id)
  <2>1. Issue(call) /\ UNCHANGED <<callQueue, call>>
    BY <1>3 DEF runKnown
  <2>2. DOMAIN heap' = DOMAIN heap
    BY <2>1 DEF Issue
  <2>3. Usable'
    BY <2>1, <2>2 DEF Safe, Usable, Uses
  <2>4. Ordered'
    BY <2>1, IssueOrdered DEF Safe, Usable
  <2>5. QED
    BY <1>1, <1>2, <2>3, <2>4 DEF Safe
<1>4. CASE ~callNow(id)
  <2>1. /\ callQueue' = Append(callQueue, [call EXCEPT !.id = id]) /\ call' = NoCall
        /\ UNCHANGED <<heap, ncall, device>> /\ call.id[1] \in DOMAIN knownKernelID
    BY <1>4 DEF runKnown
  <2>2. id \in Nat \X Nat /\ call \in Call
    <3>1. call \in Call /\ call.id[2] \in Nat /\ call.id[1] \in Nat
      BY <1>1 DEF Owned, TypeOK, Call
    <3> DEFINE n == IF knownKernelID[call.id[1]] = call.id[2] THEN call.id[2] ELSE 0
    <3>2. n \in Nat
      BY <3>1
    <3>3. <<call.id[1], n>> \in Nat \X Nat
      BY <3>1, <3>2
    <3>4. QED
      BY <3>1, <3>3
  <2> HIDE DEF id
  <2>3. PICK cl \in Call : /\ cl = [call EXCEPT !.id = id] /\ cl.discards = call.discards
                           /\ cl.ins = call.ins /\ cl.outs = call.outs
    BY <2>2, Renamed
  <2>4. Usable'
    BY <1>1, <2>1, <2>3, QueueUsable DEF Safe
  <2>5. Ordered'
    BY <2>1, SameOrdered DEF Safe
  <2>6. QED
    BY <1>1, <1>2, <2>4, <2>5 DEF Safe
<1>5. QED
  BY <1>3, <1>4

\* compileAndRun of a new kernel: the call is queued.
LEMMA RunNewSafe ==
  ASSUME Safe, runNew
  PROVE  Safe'
<1> DEFINE id == <<call.id[1], IF config.fixed THEN call.id[2] ELSE 0>>
<1>1. Owned' /\ Owned /\ UNCHANGED <<todo, arrayMap>> /\ pc = "compileAndRun" /\ pc' \in {"build", "called"}
  BY RunNewOwned DEF Safe, runNew
<1>2. todo' \in Seq(SafeKernels) /\ InWork'
  BY <1>1 DEF Safe, InWork
<1>3. /\ callQueue' = Append(callQueue, [call EXCEPT !.id = id]) /\ call' = NoCall
      /\ UNCHANGED <<heap, ncall, device>>
  BY DEF runNew, gpu
<1>4. id \in Nat \X Nat /\ call \in Call
  <2>1. call \in Call /\ call.id[2] \in Nat /\ call.id[1] \in Nat
    BY <1>1 DEF Owned, TypeOK, Call
  <2> DEFINE n == IF config.fixed THEN call.id[2] ELSE 0
  <2>2. n \in Nat
    BY <2>1
  <2>3. <<call.id[1], n>> \in Nat \X Nat
    BY <2>1, <2>2
  <2>4. QED
    BY <2>1, <2>3
<1> HIDE DEF id
<1>5. PICK cl \in Call : /\ cl = [call EXCEPT !.id = id] /\ cl.discards = call.discards
                         /\ cl.ins = call.ins /\ cl.outs = call.outs
  BY <1>4, Renamed
<1>6. Usable'
  BY <1>1, <1>3, <1>5, QueueUsable DEF Safe
<1>7. Ordered'
  BY <1>3, SameOrdered DEF Safe
<1>8. QED
  BY <1>1, <1>2, <1>6, <1>7 DEF Safe

\* generateKernel: the buffers of the new call are in the map or new, and no queued call deletes them.
LEMMA GenerateKernelSafe ==
  ASSUME Safe, generateKernel
  PROVE  Safe'
<1> DEFINE k == Head(todo)
           new == Params(k) \ DOMAIN arrayMap
           buffer == [b \in Params(k) |-> IF b \in new THEN <<b, born[b] + 1>> ELSE arrayMap[b]]
           known == [b \in DOMAIN arrayMap \union new |-> IF b \in new THEN buffer[b] ELSE arrayMap[b]]
           attached == IF k.syncs = {} THEN k.discards \cap DOMAIN known ELSE {}
<1>1. Owned' /\ Owned /\ Ordered' /\ todo \in Seq(SafeKernels)
  BY GenerateKernelOwned, GenerateOrdered DEF Safe
<1>2. /\ pc' = "compileAndRun" /\ k.outs # {} /\ ~k.scalar /\ UNCHANGED <<todo, callQueue>>
      /\ DOMAIN heap' = DOMAIN heap \union {buffer[b] : b \in new}
      /\ arrayMap' = Restrict(known, DOMAIN known \ attached)
      /\ call' = [id |-> <<k.fid, k.lit>>, ins |-> {buffer[b] : b \in k.ins}, outs |-> {buffer[b] : b \in k.outs},
                  c |-> k.c, discards |-> {known[b] : b \in attached}]
  BY DEF generateKernel, compiler
<1>3. Uses(call') = {buffer[b] : b \in Params(k)}
  <2> HIDE DEF buffer
  <2>1. call'.ins = {buffer[b] : b \in k.ins} /\ call'.outs = {buffer[b] : b \in k.outs}
    BY <1>2
  <2>2. QED
    BY <2>1 DEF Uses, Params
<1>4. InWork'
  <2>1. DOMAIN arrayMap' = DOMAIN known \ attached /\ Params(k) \subseteq DOMAIN known
    BY <1>2 DEF Restrict
  <2>2. k.syncs # {} => attached = {}
    OBVIOUS
  <2> HIDE DEF known, attached
  <2>3. QED
    BY <1>2, <2>1, <2>2 DEF InWork
<1>5. \A b \in Params(k) : /\ buffer[b] \in DOMAIN heap'
                           /\ \A i \in 1 .. Len(callQueue) : buffer[b] \notin callQueue[i].discards
  <2>1. ASSUME NEW b \in new
        PROVE  buffer[b] \in DOMAIN heap' /\ \A i \in 1 .. Len(callQueue) : buffer[b] \notin callQueue[i].discards
    <3>1. todo # <<>>
      BY DEF generateKernel
    <3>2. todo \in Seq(Kernels) /\ born \in [Base -> Nat] /\ Mapped /\ OneOwner
      BY <1>1 DEF Owned, TypeOK
    <3>3. k \in Kernels
      BY <3>1, <3>2
    <3>4. b \in Base /\ buffer[b] = <<b, born[b] + 1>>
      BY <3>3 DEF Params, Kernels
    <3> HIDE DEF buffer, new, k
    <3>5. born[b] \in Nat /\ buffer[b][1] = b /\ buffer[b][2] = born[b] + 1
      BY <3>2, <3>4
    <3>6. buffer[b] \notin DOMAIN heap
      BY <3>2, <3>5 DEF Mapped
    <3>7. \A i \in 1 .. Len(callQueue) : buffer[b] \notin callQueue[i].discards
      BY <3>2, <3>6 DEF OneOwner
    <3>8. QED
      BY <1>2, <3>7
  <2>2. ASSUME NEW b \in Params(k), b \notin new
        PROVE  buffer[b] \in DOMAIN heap' /\ \A i \in 1 .. Len(callQueue) : buffer[b] \notin callQueue[i].discards
    <3>1. b \in DOMAIN arrayMap /\ buffer[b] = arrayMap[b]
      BY <2>2
    <3>2. QED
      BY <1>1, <1>2, <3>1 DEF Owned, Mapped, OneOwner
  <2>3. QED
    BY <2>1, <2>2
<1> HIDE DEF buffer, known, new, attached, k
<1>6. Usable'
  <2>1. Uses(call') \subseteq DOMAIN heap' /\ \A i \in 1 .. Len(callQueue) : callQueue[i].discards \cap Uses(call') = {}
    BY <1>3, <1>5
  <2>2. DOMAIN heap \subseteq DOMAIN heap' /\ callQueue' = callQueue
    BY <1>2
  <2>3. \A i \in 1 .. Len(callQueue) :
          /\ Uses(callQueue[i]) \subseteq DOMAIN heap
          /\ \A j \in 1 .. Len(callQueue) : i < j => callQueue[i].discards \cap Uses(callQueue[j]) = {}
    BY DEF Safe, Usable
  <2>4. QED
    BY <2>1, <2>2, <2>3 DEF Usable
<1>7. todo' \in Seq(SafeKernels)
  BY <1>1, <1>2
<1>8. QED
  BY <1>1, <1>4, <1>6, <1>7 DEF Safe

\* deleteBuffers of the main thread: the queue is empty.
LEMMA DeleteBuffersSafe ==
  ASSUME Safe, deleteBuffers
  PROVE  Safe'
<1>1. /\ pc = "deleteBuffers" /\ pc' = "called" /\ call' = NoCall /\ Deletable(call.discards) /\ heap' = Without(call.discards)
      /\ UNCHANGED <<todo, arrayMap, callQueue, device, ncall>>
  BY DEF deleteBuffers
<1>2. Owned' /\ Owned
  BY DeleteBuffersOwned DEF Safe
<1>3. callQueue' = <<>> /\ Uses(call') = {}
  BY <1>1, <1>2 DEF Owned, Locked, Uses, NoCall
<1>4. Usable'
  BY <1>3 DEF Usable
<1>5. Ordered'
  BY <1>1, DeleteOrdered DEF Safe
<1>6. todo' \in Seq(SafeKernels) /\ InWork'
  BY <1>1 DEF Safe, InWork
<1>7. QED
  BY <1>2, <1>4, <1>5, <1>6 DEF Safe

\* A thread issues the call at the front of the queue.
LEMMA DrainSafe ==
  ASSUME Safe, NEW t \in DOMAIN threads, drain(t)
  PROVE  Safe'
<1>1. Owned' /\ Owned /\ UNCHANGED <<todo, pc, call, arrayMap, callQueue>>
  BY DrainOwned DEF Safe, drain
<1>2. todo' \in Seq(SafeKernels) /\ InWork'
  BY <1>1 DEF Safe, InWork
<1>3. CASE callQueue # <<>> /\ Head(callQueue).id \in kernelMap
  <2>1. Issue(Head(callQueue))
    BY <1>3 DEF drain
  <2>2. DOMAIN heap' = DOMAIN heap
    BY <2>1 DEF Issue
  <2>3. Usable'
    BY <1>1, <2>2 DEF Safe, Usable
  <2>4. Uses(Head(callQueue)) \subseteq DOMAIN heap
    <3>1. callQueue \in Seq(Call)
      BY <1>1 DEF Owned, TypeOK
    <3>2. 1 \in 1 .. Len(callQueue) /\ Head(callQueue) = callQueue[1]
      BY <1>3, <3>1, TailOfQueue
    <3>3. QED
      BY <3>2 DEF Safe, Usable
  <2>5. Ordered'
    BY <2>1, <2>4, IssueOrdered DEF Safe
  <2>6. QED
    BY <1>1, <1>2, <2>3, <2>5 DEF Safe
<1>4. CASE ~(callQueue # <<>> /\ Head(callQueue).id \in kernelMap)
  <2>1. UNCHANGED <<heap, ncall, device>>
    BY <1>4 DEF drain
  <2>2. Usable' /\ Ordered'
    BY <1>1, <2>1, SameOrdered DEF Safe, Usable
  <2>3. QED
    BY <1>1, <1>2, <2>2 DEF Safe
<1>5. QED
  BY <1>3, <1>4

\* The front call is done: no later call needs what it deletes.
LEMMA DrainedSafe ==
  ASSUME Safe, NEW t \in DOMAIN threads, drained(t)
  PROVE  Safe'
<1>1. /\ Deletable(Head(callQueue).discards) /\ heap' = Without(Head(callQueue).discards) /\ callQueue' = Tail(callQueue)
      /\ threads[t].at = "delete" /\ UNCHANGED <<todo, pc, call, arrayMap, device, ncall>>
  BY DEF drained
<1>2. Owned' /\ Owned
  BY DrainedOwned DEF Safe
<1>3. /\ Head(callQueue) = callQueue[1] /\ 1 \in 1 .. Len(callQueue)
      /\ \A i \in 1 .. Len(callQueue') : i + 1 \in 1 .. Len(callQueue) /\ callQueue'[i] = callQueue[i + 1] /\ 1 < i + 1
      /\ \A i, j \in 1 .. Len(callQueue') : i < j => i + 1 < j + 1
  <2>1. callQueue \in Seq(Call) /\ callQueue # <<>>
    BY <1>1, <1>2 DEF Owned, Locked, TypeOK
  <2>2. /\ Head(callQueue) = callQueue[1] /\ 1 \in 1 .. Len(callQueue)
        /\ \A i \in 1 .. Len(callQueue') : i + 1 \in 1 .. Len(callQueue) /\ callQueue'[i] = callQueue[i + 1] /\ 1 < i + 1
    <3>1. callQueue' = Tail(callQueue)
      BY <1>1
    <3>2. QED
      BY <2>1, <3>1, TailOfQueue
  <2>3. QED
    BY <2>2
<1>4. DOMAIN heap' = DOMAIN heap \ callQueue[1].discards
  BY <1>1, <1>3 DEF Without, Restrict
<1>5. Usable'
  <2>1. Uses(call') \subseteq DOMAIN heap'
    BY <1>1, <1>3, <1>4 DEF Safe, Usable
  <2>2. ASSUME NEW i \in 1 .. Len(callQueue')
        PROVE  Uses(callQueue'[i]) \subseteq DOMAIN heap' /\ callQueue'[i].discards \cap Uses(call') = {}
    BY <1>1, <1>3, <1>4 DEF Safe, Usable
  <2>3. ASSUME NEW i \in 1 .. Len(callQueue'), NEW j \in 1 .. Len(callQueue'), i < j
        PROVE  callQueue'[i].discards \cap Uses(callQueue'[j]) = {}
    BY <1>3, <2>3 DEF Safe, Usable
  <2>4. QED
    BY <2>1, <2>2, <2>3 DEF Usable
<1>6. Ordered'
  BY <1>1, DeleteOrdered DEF Safe
<1>7. todo' \in Seq(SafeKernels) /\ InWork'
  BY <1>1 DEF Safe, InWork
<1>8. QED
  BY <1>2, <1>5, <1>6, <1>7 DEF Safe

\* A step that changes neither the buffers nor the calls.
LEMMA SameSafe ==
  ASSUME Safe, Owned', UNCHANGED <<heap, device, ncall, call, callQueue, arrayMap, todo>>,
         pc' \in {pc, "called", "failed"}, pc' = "called" => pc \in {"called", "build"}
  PROVE  Safe'
<1>1. Usable' /\ Ordered'
  BY SameOrdered DEF Safe, Usable
<1>2. todo' \in Seq(SafeKernels) /\ InWork'
  BY DEF Safe, InWork
<1>3. QED
  BY <1>1, <1>2 DEF Safe

\* Every step keeps Safe.
LEMMA SafeStep ==
  ASSUME Lists \subseteq Seq(SafeKernels), Safe, [Next]_vars
  PROVE  Safe'
<1>1. Owned'
  BY OwnedStep DEF Safe
<1>2. CASE UNCHANGED vars
  BY <1>1, <1>2, SameSafe DEF vars, compiler, gpu
<1>3. ASSUME NEW b \in Imports, Bridge(b) PROVE Safe'
  BY <1>1, <1>3, SameSafe DEF Bridge, compiler, gpu
<1>4. ASSUME NEW list \in Lists, execute(list) PROVE Safe'
  <2>1. todo' \in Seq(SafeKernels) /\ InWork'
    BY <1>4 DEF execute, InWork
  <2>2. Usable' /\ Ordered'
    BY <1>4, SameOrdered DEF execute, gpu, compiler, Safe, Usable
  <2>3. QED
    BY <1>1, <2>1, <2>2 DEF Safe
<1>5. ASSUME NEW cmd \in device, complete(cmd) PROVE Safe'
  <2>1. UNCHANGED <<call, callQueue, arrayMap, todo, pc>> /\ DOMAIN heap' = DOMAIN heap
    BY <1>5 DEF complete, compiler
  <2>2. Usable' /\ todo' \in Seq(SafeKernels) /\ InWork'
    BY <2>1 DEF Safe, Usable, InWork
  <2>3. Ordered'
    BY <1>5, CompleteOrdered DEF Safe
  <2>4. QED
    BY <1>1, <2>2, <2>3 DEF Safe
<1>6. CASE buildNext
  BY <1>1, <1>6, SameSafe DEF buildNext, gpu
<1>7. CASE main
  BY <1>6, <1>7, GenerateKernelSafe, RunKnownSafe, DeleteBuffersSafe, RunNewSafe, AfterCallSafe, SystemKernelSafe,
     CallChildSafe DEF main
<1>8. ASSUME NEW t \in DOMAIN threads, compiled(t) \/ compileFails(t) PROVE Safe'
  BY <1>1, <1>8, SameSafe DEF compiled, compileFails, gpu
<1>9. ASSUME NEW t \in DOMAIN threads, build(t) \/ compileFails(t) PROVE Safe'
  BY <1>8, <1>9, DrainSafe, DrainedSafe DEF build
<1>10. QED
  BY <1>2, <1>3, <1>4, <1>5, <1>7, <1>9, ChildFailsSafe DEF Next, sleep, Stopped

\* The invariant of the engine for lists of safe kernels.
LEMMA SafeAlways ==
  ASSUME Lists \subseteq Seq(SafeKernels)
  PROVE  Spec => []Safe
<1>1. Init => Safe
  <2>1. ASSUME Init PROVE Safe
    <3>1. Owned
      BY <2>1, OwnedInit
    <3>2. todo \in Seq(SafeKernels) /\ InWork
      <4>1. todo = <<>> /\ pc = "idle"
        BY <2>1 DEF Init
      <4>2. QED
        BY <4>1 DEF InWork
    <3>3. Usable
      <4>1. call = NoCall /\ callQueue = <<>>
        BY <2>1 DEF Init
      <4>2. Uses(call) = {}
        BY <4>1 DEF Uses, NoCall
      <4>3. QED
        BY <4>1, <4>2 DEF Usable
    <3>4. Ordered
      <4>1. DOMAIN heap = {} /\ device = {}
        BY <2>1 DEF Init
      <4>2. Remembered /\ Awaits
        BY <4>1 DEF Remembered, Awaits
      <4>3. QED
        BY <4>1, <4>2 DEF Ordered
    <3>5. QED
      BY <3>1, <3>2, <3>3, <3>4 DEF Safe
  <2>2. QED
    BY <2>1
<1>2. Safe /\ [Next]_vars => Safe'
  BY SafeStep
<1>3. QED
  BY <1>1, <1>2, PTL DEF Spec

(***************************************************************************)
(* When sync has waited for the queue wherever schedule supposes so, no    *)
(* buffer is deleted while a queued call, a command of the device or the   *)
(* map of arrays refers to it, for all interleavings of the main thread,   *)
(* the threads that compile and the device.                                *)
(***************************************************************************)
THEOREM BuffersOutliveTheirUsers ==
  ASSUME Lists \subseteq Seq(SafeKernels)
  PROVE  Spec => []NoDangling
<1>1. ASSUME Safe PROVE NoDangling
  <2>1. \A i \in 1 .. Len(callQueue) : LET cl == callQueue[i] IN
          /\ cl.ins \union cl.outs \union cl.discards \subseteq DOMAIN heap
          /\ cl.discards \cap Range(arrayMap) = {}
    <3>1. OneOwner /\ Usable
      BY <1>1 DEF Safe, Owned
    <3>2. ASSUME NEW i \in 1 .. Len(callQueue)
          PROVE  /\ callQueue[i].ins \union callQueue[i].outs \union callQueue[i].discards \subseteq DOMAIN heap
                 /\ callQueue[i].discards \cap Range(arrayMap) = {}
      <4>1. callQueue[i].ins \union callQueue[i].outs \subseteq DOMAIN heap
        BY <3>1 DEF Usable, Uses
      <4>2. /\ callQueue[i].discards \subseteq DOMAIN heap
            /\ \A b \in DOMAIN arrayMap : arrayMap[b] \notin callQueue[i].discards
        BY <3>1 DEF OneOwner
      <4>3. QED
        BY <4>1, <4>2 DEF Range
    <3>3. QED
      BY <3>2
  <2>2. ASSUME NEW i \in 1 .. Len(callQueue), NEW j \in i + 1 .. Len(callQueue)
        PROVE  callQueue[i].discards \cap (callQueue[j].ins \union callQueue[j].outs \union callQueue[j].discards) = {}
    <3>1. Len(callQueue) \in Nat
      BY <1>1 DEF Safe, Owned, TypeOK
    <3>2. j \in 1 .. Len(callQueue) /\ i < j /\ i # j
      BY <3>1
    <3>3. QED
      BY <1>1, <3>2 DEF Safe, Owned, OneOwner, Usable, Uses
  <2>3. \A cmd \in device : cmd.ins \union cmd.outs \subseteq DOMAIN heap
    BY <1>1 DEF Safe, Ordered, IsCommand, Uses
  <2>4. Range(arrayMap) \subseteq DOMAIN heap
    BY <1>1 DEF Safe, Owned, Mapped, Range
  <2>5. QED
    BY <2>1, <2>2, <2>3, <2>4 DEF NoDangling
<1>2. Safe => NoDangling
  BY <1>1
<1>3. QED
  BY <1>2, SafeAlways, PTL

(***************************************************************************)
(* Under the same condition the device, which runs commands in any order   *)
(* that their events allow, never can run a command before one that was    *)
(* issued earlier and that it conflicts with.                              *)
(***************************************************************************)
THEOREM EventsOrderConflicts ==
  ASSUME Lists \subseteq Seq(SafeKernels)
  PROVE  Spec => []ConflictsAreOrdered
<1>1. ASSUME Safe PROVE ConflictsAreOrdered
  <2>1. ASSUME NEW c1 \in device, NEW c2 \in device, Issued(c1) < Issued(c2), Conflict(c1, c2)
        PROVE  c2.waits # {}
    <3>1. CASE \E x : x \in c1.outs \cap Uses(c2)
      BY <1>1, <2>1, <3>1 DEF Safe, Ordered, Awaits
    <3>2. CASE \E x : x \in (c1.ins \ c1.outs) \cap c2.outs
      BY <1>1, <2>1, <3>2 DEF Safe, Ordered, Awaits
    <3>3. QED
      BY <2>1, <3>1, <3>2 DEF Conflict, Uses
  <2>2. QED
    BY <2>1 DEF ConflictsAreOrdered
<1>2. Safe => ConflictsAreOrdered
  BY <1>1
<1>3. QED
  BY <1>2, SafeAlways, PTL
=============================================================================
