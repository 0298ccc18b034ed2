------------------------------ MODULE Cluster -------------------------------
(***************************************************************************)
(* The cluster VEM: a master process, which the bridge calls, and slave    *)
(* processes that run bh_vem_cluster_slave.  The master broadcasts every   *)
(* instruction list together with the array structs the slaves do not know *)
(* (dispatch.cpp) and scatters their data (comm.cpp).  All processes then  *)
(* go through the same list (exec.cpp): each schedules the local work and  *)
(* the sends and receives of its chunks as tasks (mapping.cpp, batch.cpp), *)
(* which are executed in order when a BH_SYNC or the end of the list       *)
(* flushes them.  A BH_SYNC gathers an array at the master.                *)
(*                                                                         *)
(* MPI is external: messages between two processes arrive in order, and a  *)
(* send or a collective call returns at once or only when its messages     *)
(* have been received (variable buffered: both are allowed to MPI).        *)
(*                                                                         *)
(* Views have one dimension; module ChunkedExec has the others.            *)
(***************************************************************************)
EXTENDS Mapping, Instructions

CONSTANTS
  BhIRs,       \* the instruction lists the bridge may execute
  Writes,      \* the data the bridge may give to an array of its own
  MaxCalls     \* bound on the number of calls from the bridge

VARIABLES
  buffered,    \* whether MPI buffers what is sent
  calls,       \* the number of calls from the bridge
  mode,        \* where a process is: "idle", "scatter", "run" or "down"
  known,       \* master: slave_known_arrays
  data,        \* master: base->data of the arrays of the bridge
  m2s, s2m,    \* slaves: map_master2slave and map_slave2master
  store,       \* slaves: slave_ary_store
  stack,       \* base_darys: the new arrays whose data is to be distributed
  ir,          \* the remaining instructions, their arrays those of the process
  local,       \* map_global2local and the data of the local arrays
  batch,       \* task_store
  tmp,         \* temporary arrays between the tasks of a computation
  inbox,       \* broadcast and scattered messages of a slave
  gathered,    \* gathered messages of a slave
  wire,        \* point-to-point messages, by sender and receiver
  mem          \* history: the arrays as the bridge must see them

comm == <<inbox, gathered, wire>>
maps == <<m2s, s2m, store>>
vars == <<buffered, calls, mode, known, data, maps, stack, ir, local, batch, tmp, comm, mem>>

Slave == Rank \ {0}

\* Instructions on the arrays of a set.
ViewOf(arys) == [base : arys, start : Int, stride : Int]
Instruction(arys) == [op : STRING, out : ViewOf(arys), ins : Seq(ViewOf(arys)), v : Int, n : Int]

\* An array is not used after its BH_DISCARD: the bridge deletes the base then.
DiscardsAreLast(list) ==
  \A i, j \in DOMAIN list :
    i < j /\ list[i].op = "DISCARD" => list[i].out.base \notin Range(Bases(list[j]))

ASSUME ListsAssumption ==
  \A bhir \in BhIRs : bhir \in Seq(Instruction(Arys)) /\ DiscardsAreLast(bhir)

\* The slots of a store are numbers.
ASSUME NullAssumption == NULL \notin Nat

(***************************************************************************)
(* An array of the process is its identity at the master and a slot of the *)
(* store at a slave.                                                       *)
(***************************************************************************)
NelemOf(r, h) == IF r = 0 THEN Nelem[h] ELSE Nelem[s2m[r][h]]

LocalBlank(r, nelem) == [i \in 0 .. array_local_nelem(r, nelem) - 1 |-> Undef]

\* array_get_local: the local array is created, without data, if need be.
array_get_local(r, handles) ==
  [h \in DOMAIN local[r] \union handles |->
     IF h \in DOMAIN local[r] THEN local[r][h] ELSE NULL]

Init ==
  /\ buffered \in BOOLEAN
  /\ calls = 0
  /\ mode = [r \in Rank |-> "idle"]
  /\ known = {}
  /\ data = [a \in Arys |-> NULL]
  /\ m2s = [r \in Slave |-> <<>>]
  /\ s2m = [r \in Slave |-> <<>>]
  /\ store = [r \in Slave |-> [free |-> <<>>, next |-> 0]]
  /\ stack = [r \in Rank |-> <<>>]
  /\ ir = [r \in Rank |-> <<>>]
  /\ local = [r \in Rank |-> <<>>]
  /\ batch = [r \in Rank |-> <<>>]
  /\ tmp = [r \in Rank |-> <<>>]
  /\ inbox = [r \in Slave |-> <<>>]
  /\ gathered = [r \in Slave |-> <<>>]
  /\ wire = [s \in Rank |-> [r \in Rank |-> <<>>]]
  /\ mem = [a \in Arys |-> Blank(a)]

(***************************************************************************)
(* A process whose messages are not buffered waits until all are received. *)
(***************************************************************************)
Waits(r) ==
  /\ ~buffered
  /\ \/ r = 0 /\ \E s \in Slave : inbox[s] # <<>>
     \/ r # 0 /\ gathered[r] # <<>>
     \/ \E s \in Rank : wire[r][s] # <<>>

Bcast(m) == inbox' = [r \in Slave |-> Append(inbox[r], m)]

-----------------------------------------------------------------------------
(***************************************************************************)
(* dispatch.cpp and the main loop of the slaves.                           *)
(***************************************************************************)
\* The arrays of a list that the slaves do not know, in their order of appearance:
\* there is one.
NewArrays(bhir) ==
  LET unknown  == ArysOf(bhir) \ known
      met      == Concat([i \in DOMAIN bhir |-> Bases(bhir[i])])
      First(a) == Min({i \in DOMAIN met : met[i] = a})
  IN  {new \in Bijection(1 .. Cardinality(unknown), unknown) :
         \A i, j \in DOMAIN new : i < j => First(new[i]) < First(new[j])}

\* A sequence from its end to its start.
Reversed(s) == [i \in 1 .. Len(s) |-> s[Len(s) + 1 - i]]

\* bh_vem_cluster_execute up to dispatch_array_data.
dispatch_bhir(bhir) ==
  /\ calls < MaxCalls /\ calls' = calls + 1
  /\ mode[0] = "idle" /\ ~Waits(0)
  /\ \E new \in NewArrays(bhir) :
     LET darys == [i \in DOMAIN new |-> [id |-> new[i], hasdata |-> data[new[i]] # NULL]]
     IN  /\ known' = known \union Range(new)
         /\ stack' = [stack EXCEPT ![0] = Reversed(darys)]
         /\ Bcast([type |-> "EXEC", bhir |-> bhir, darys |-> darys])
         /\ mem' = [a \in Arys |-> IF a \in Range(new) THEN Imported(a, data) ELSE mem[a]]
  /\ ir' = [ir EXCEPT ![0] = bhir]
  /\ mode' = [mode EXCEPT ![0] = "scatter"]
  /\ UNCHANGED <<buffered, data, maps, local, batch, tmp, gathered, wire>>

\* std::stack::push on one array after the other.
\* Mutant: the slaves go through the new arrays in the order of the message.
PushedLast(arys) == arys

Pushed(arys) == Reversed(arys)

\* n calls of StaticStore::c_next: the slots, and the store without them.
c_next(st, n) ==
  [i \in 1 .. n |-> IF i <= Len(st.free) THEN st.free[i] ELSE st.next + i - Len(st.free) - 1]

WithoutNext(st, n) ==
  [free |-> SubSeq(st.free, n + 1, Len(st.free)),
   next |-> IF n <= Len(st.free) THEN st.next ELSE st.next + n - Len(st.free)]

\* A map with a new value for each of the keys.
Registered(map, keys, values) ==
  [k \in DOMAIN map \union Range(keys) |->
     IF k \in Range(keys) THEN values[CHOOSE i \in DOMAIN keys : keys[i] = k] ELSE map[k]]

\* dispatch_new_slave_array on the arrays that came with a list.
dispatch_new_slave_array(r, darys, slots) ==
  LET ids == [i \in DOMAIN darys |-> darys[i].id]
  IN  /\ m2s' = [m2s EXCEPT ![r] = Registered(@, ids, slots)]
      /\ s2m' = [s2m EXCEPT ![r] = Registered(@, slots, ids)]
      /\ store' = [store EXCEPT ![r] = WithoutNext(@, Len(darys))]
      /\ stack' = [stack EXCEPT ![r] =
           Pushed([i \in DOMAIN darys |-> [id |-> slots[i], hasdata |-> darys[i].hasdata]])]

\* dispatch_master2slave on the operands of an instruction.
Translated(inst, map) ==
  LET slave(view) ==
        [view EXCEPT !.base = IF @ \in DOMAIN map THEN map[@] ELSE NULL]
  IN  [inst EXCEPT !.out = slave(@),
                   !.ins = [j \in DOMAIN @ |-> slave(@[j])]]

\* The main loop of a slave on BH_CLUSTER_DISPATCH_EXEC.
slave_exec(r) ==
  /\ mode[r] = "idle" /\ ~Waits(r)
  /\ inbox[r] # <<>> /\ Head(inbox[r]).type = "EXEC"
  /\ LET m == Head(inbox[r])
     IN  /\ dispatch_new_slave_array(r, m.darys, c_next(store[r], Len(m.darys)))
         /\ ir' = [ir EXCEPT ![r] = [i \in DOMAIN m.bhir |-> Translated(m.bhir[i], m2s'[r])]]
  /\ mode' = [mode EXCEPT ![r] = "scatter"]
  /\ inbox' = [inbox EXCEPT ![r] = Tail(@)]
  /\ UNCHANGED <<buffered, calls, known, data, local, batch, tmp, gathered, wire, mem>>

With(map, key, value) == [k \in DOMAIN map \union {key} |-> IF k = key THEN value ELSE map[k]]

\* The block of a process in the data of an array.
Block(r, d) ==
  LET nelem == Cardinality(DOMAIN d)
  IN  [i \in 0 .. array_local_nelem(r, nelem) - 1 |-> d[r * (nelem \div WorldSize) + i]]

(***************************************************************************)
(* dispatch_array_data, one new array at a time: arrays without data are   *)
(* skipped, the data of the others is scattered (comm_master2slaves).      *)
(***************************************************************************)
dispatch_array_data(r) ==
  /\ mode[r] = "scatter" /\ ~Waits(r)
  /\ stack[r] # <<>>
  /\ LET dary == Head(stack[r])
     IN  IF ~dary.hasdata THEN UNCHANGED <<local, inbox>>
         ELSE IF r = 0
         THEN /\ local' = [local EXCEPT ![0] = With(@, dary.id, Block(0, data[dary.id]))]
              /\ inbox' = [s \in Slave |->
                   Append(inbox[s], [type |-> "DATA", id |-> dary.id,
                                     block |-> Block(s, data[dary.id])])]
         ELSE /\ inbox[r] # <<>> /\ Head(inbox[r]).type = "DATA"
              /\ local' = [local EXCEPT ![r] = With(@, dary.id, Head(inbox[r]).block)]
              /\ inbox' = [inbox EXCEPT ![r] = Tail(@)]
  /\ stack' = [stack EXCEPT ![r] = Tail(@)]
  /\ UNCHANGED <<buffered, calls, mode, known, data, maps, ir, batch, tmp, gathered, wire, mem>>

\* All data is distributed: exec_execute begins.
exec_execute(r) ==
  /\ mode[r] = "scatter" /\ ~Waits(r)
  /\ stack[r] = <<>>
  /\ mode' = [mode EXCEPT ![r] = "run"]
  /\ UNCHANGED <<buffered, calls, known, data, maps, stack, ir, local, batch, tmp, comm, mem>>

-----------------------------------------------------------------------------
(***************************************************************************)
(* exec.cpp: the tasks of one process for one instruction.                 *)
(***************************************************************************)
IsSystem(inst) == inst.op \in {"SYNC", "FREE", "DISCARD"}

\* The views of an instruction, the output first.
Views(inst) == <<inst.out>> \o inst.ins

\* The operands as mapping_chunks takes them; a reduction maps its output
\* with stride zero.
MappedWith(inst, nelem(_)) ==
  [o \in 1 .. 1 + Len(inst.ins) |->
     [nelem  |-> nelem(Views(inst)[o].base),
      start  |-> Views(inst)[o].start,
      stride |-> <<IF o = 1 /\ inst.op = "REDUCE" THEN 0 ELSE Views(inst)[o].stride>>]]

Mapped(r, inst) == MappedWith(inst, LAMBDA h : NelemOf(r, h))

\* The mapping depends on the sizes and the views alone, so that all processes
\* map an instruction alike: a table of mapping_chunks over the computations of
\* all lists.
Computations == {inst \in UNION {Range(bhir) : bhir \in BhIRs} : ~IsSystem(inst)}

ChunkTable ==
  [m \in {<<MappedWith(inst, LAMBDA a : Nelem[a]), inst.n>> : inst \in Computations} |->
     mapping_chunks(m[1], <<m[2]>>)]

Chunks(r, inst) == ChunkTable[<<Mapped(r, inst), inst.n>>]

\* Where operand o of a chunk lies in the block of its process.
Places(r, inst, chunk, o) ==
  LET op == Mapped(r, inst)[o]
  IN  [k \in 1 .. chunk.shape[1] |->
         LocalPos(op.nelem, Position(op, chunk.coord)) + (k - 1) * op.stride[1]]

\* comm_array_data, and the use of operand o by the process that computes.
Operand(r, inst, chunk, o, owner) ==
  LET from == chunk.rank[o]
      view == [ary |-> Views(inst)[o].base, at |-> Places(r, inst, chunk, o),
               reduce |-> inst.op = "REDUCE"]
  IN  IF r = from /\ r = owner THEN <<[task |-> "LOAD", view |-> view]>>
      ELSE IF r = owner THEN <<[task |-> "RECV", from |-> from]>>
      ELSE IF r = from THEN <<[task |-> "SEND", to |-> owner, view |-> view]>>
      ELSE <<>>

\* The task that computes a chunk of the output.
\* Mutant: the last step of a reduction is forgotten.
StoreRegular(r, inst, chunk, places) ==
  IF r = chunk.rank[1] /\ inst.op # "REDUCE"
  THEN <<[task |-> "STORE", ary |-> inst.out.base, at |-> places, v |-> inst.v,
         nelem |-> NelemOf(r, inst.out.base)]>>
  ELSE <<>>

Store(r, inst, chunk, places) ==
  IF r = chunk.rank[1]
  THEN <<[task |-> "STORE", ary |-> inst.out.base, at |-> places, v |-> inst.v,
         nelem |-> NelemOf(r, inst.out.base)]>>
  ELSE <<>>

\* execute_regular: chunk by chunk, computed by the owner of the output.
execute_regular(r, inst) ==
  LET chunks == Chunks(r, inst)
      of(chunk) ==
        Concat([j \in 1 .. Len(inst.ins) |->
                      Operand(r, inst, chunk, j + 1, chunk.rank[1])])
          \o Store(r, inst, chunk, Places(r, inst, chunk, 1))
  IN  Concat([i \in 1 .. Len(chunks) |-> of(chunks[i])])

\* reduce_vector: one scalar per chunk, then all of them at the owner.
reduce_vector(r, inst) ==
  LET chunks == Chunks(r, inst)
      out    == chunks[1].rank[1]
  IN  Concat([i \in 1 .. Len(chunks) |-> Operand(r, inst, chunks[i], 2, out)])
        \o Store(r, inst, chunks[1], <<Places(r, inst, chunks[1], 1)[1]>>)

\* The arrays of which the process gets a local part when it maps inst.
Touched(r, inst) ==
  LET chunks == Chunks(r, inst)
  IN  {Views(inst)[o].base :
         o \in {p \in 1 .. 1 + Len(inst.ins) :
                  \E i \in 1 .. Len(chunks) : chunks[i].rank[p] = r}}

\* batch_schedule.
\* Mutant: the receives of an instruction are moved forward.
ReceivesFirst(tasks, more) ==
  LET recv(t) == t.task = "RECV"
  IN  SelectSeq(tasks \o more, recv) \o SelectSeq(tasks \o more, LAMBDA t : ~recv(t))

batch_schedule(tasks, more) == tasks \o more

\* execute_instr on a computation: its tasks are scheduled.
schedule(r) ==
  /\ mode[r] = "run" /\ ~Waits(r)
  /\ ir[r] # <<>> /\ ~IsSystem(Head(ir[r]))
  /\ LET inst == Head(ir[r])
     IN  /\ batch' = [batch EXCEPT ![r] =
                        batch_schedule(@, IF inst.op = "REDUCE" THEN reduce_vector(r, inst)
                                          ELSE execute_regular(r, inst))]
         /\ local' = [local EXCEPT ![r] = array_get_local(r, Touched(r, inst))]
         /\ mem' = IF r # 0 THEN mem
                   ELSE [mem EXCEPT ![inst.out.base] = Computed(inst, mem)]
  /\ ir' = [ir EXCEPT ![r] = Tail(@)]
  /\ UNCHANGED <<buffered, calls, mode, known, data, maps, stack, tmp, comm>>

\* bh_data_free on the global array of the master.
\* Mutant: only the local arrays are freed.
DataKept(a) == data

bh_data_free(a) == [data EXCEPT ![a] = NULL]

\* execute_instr on BH_FREE: the data of the global array goes at once.
execute_free(r) ==
  /\ mode[r] = "run" /\ ~Waits(r)
  /\ ir[r] # <<>> /\ Head(ir[r]).op = "FREE"
  /\ LET a == Head(ir[r]).out.base
     IN  /\ batch' = [batch EXCEPT ![r] =
                        IF a \in DOMAIN local[r] THEN Append(@, [task |-> "FREE", ary |-> a])
                        ELSE @]
         /\ data' = IF r # 0 THEN data ELSE bh_data_free(a)
         /\ mem' = IF r # 0 THEN mem ELSE [mem EXCEPT ![a] = Blank(a)]
  /\ ir' = [ir EXCEPT ![r] = Tail(@)]
  /\ UNCHANGED <<buffered, calls, mode, known, maps, stack, local, tmp, comm>>

\* dispatch_slave_known_remove at the master.
KnownWithout(a) == known \ {a}

\* dispatch_slave_known_remove at a slave.
\* Mutant: only one of the two maps is updated.
M2sKept(r, h) == m2s[r]

M2sWithout(r, h) == Restrict(m2s[r], DOMAIN m2s[r] \ {s2m[r][h]})

\* StaticStore::erase.
erase(st, h) == [st EXCEPT !.free = Append(@, h)]

\* execute_instr on BH_DISCARD, with dispatch_slave_known_remove.
execute_discard(r) ==
  /\ mode[r] = "run" /\ ~Waits(r)
  /\ ir[r] # <<>> /\ Head(ir[r]).op = "DISCARD"
  /\ LET a == Head(ir[r]).out.base
     IN  /\ batch' = [batch EXCEPT ![r] =
                        IF a \in DOMAIN local[r] THEN Append(@, [task |-> "DISCARD", ary |-> a])
                        ELSE @]
         /\ IF r = 0
            THEN /\ known' = KnownWithout(a)
                 /\ mem' = [mem EXCEPT ![a] = Blank(a)]
                 /\ UNCHANGED maps
            ELSE /\ m2s' = [m2s EXCEPT ![r] = M2sWithout(r, a)]
                 /\ s2m' = [s2m EXCEPT ![r] = Restrict(@, DOMAIN @ \ {a})]
                 /\ store' = [store EXCEPT ![r] = erase(@, a)]
                 /\ UNCHANGED <<known, mem>>
  /\ ir' = [ir EXCEPT ![r] = Tail(@)]
  /\ UNCHANGED <<buffered, calls, mode, data, stack, local, tmp, comm>>

-----------------------------------------------------------------------------
(***************************************************************************)
(* batch_flush, one task at a time.  The tasks run at the end of the list  *)
(* and before a BH_SYNC.                                                   *)
(***************************************************************************)
Flushing(r) ==
  /\ mode[r] = "run" /\ ~Waits(r)
  /\ IF ir[r] = <<>> THEN TRUE ELSE Head(ir[r]).op = "SYNC"
  /\ batch[r] # <<>>

\* The elements of a view of a local array, reduced to one if so wished.
Elements(r, view) ==
  LET d     == local[r][view.ary]
      all   == [k \in DOMAIN view.at |-> IF d = NULL THEN Undef ELSE d[view.at[k]]]
  IN  IF view.reduce THEN <<Max(Range(all))>> ELSE all

\* The local array after a computation from the temporary arrays.
Stored(r, t) ==
  LET old == IF local[r][t.ary] = NULL THEN LocalBlank(r, t.nelem)
             ELSE local[r][t.ary]
      value(k) == Max({t.v} \union {tmp[r][j][k] : j \in DOMAIN tmp[r]})
  IN  [i \in DOMAIN old |->
         IF \E k \in DOMAIN t.at : t.at[k] = i
         THEN value(CHOOSE k \in DOMAIN t.at : t.at[k] = i)
         ELSE old[i]]

\* A TASK_INST: the child executes it; a BH_DISCARD also removes the local array.
\* Mutant: array_rm_local is left out.
LocalKept(r, t) == [local EXCEPT ![r][t.ary] = @]

array_rm_local(r, t) == [local EXCEPT ![r] = Restrict(@, DOMAIN @ \ {t.ary})]

flush_inst(r) ==
  /\ Flushing(r)
  /\ LET t == Head(batch[r])
     IN  CASE t.task = "LOAD" ->
                tmp' = [tmp EXCEPT ![r] = Append(@, Elements(r, t.view))] /\ UNCHANGED local
           [] t.task = "STORE" ->
                /\ local' = [local EXCEPT ![r][t.ary] = Stored(r, t)]
                /\ tmp' = [tmp EXCEPT ![r] = <<>>]
           [] t.task = "FREE" ->
                local' = [local EXCEPT ![r][t.ary] = NULL] /\ UNCHANGED tmp
           [] t.task = "DISCARD" ->
                local' = array_rm_local(r, t) /\ UNCHANGED tmp
           [] OTHER -> FALSE
  /\ batch' = [batch EXCEPT ![r] = Tail(@)]
  /\ UNCHANGED <<buffered, calls, mode, known, data, maps, stack, ir, comm, mem>>

flush_send(r) ==
  /\ Flushing(r) /\ Head(batch[r]).task = "SEND"
  /\ LET t == Head(batch[r])
     IN  wire' = [wire EXCEPT ![r][t.to] = Append(@, Elements(r, t.view))]
  /\ batch' = [batch EXCEPT ![r] = Tail(@)]
  /\ UNCHANGED <<buffered, calls, mode, known, data, maps, stack, ir, local, tmp, inbox, gathered, mem>>

flush_recv(r) ==
  /\ Flushing(r) /\ Head(batch[r]).task = "RECV"
  /\ LET s == Head(batch[r]).from
     IN  /\ wire[s][r] # <<>>
         /\ tmp' = [tmp EXCEPT ![r] = Append(@, Head(wire[s][r]))]
         /\ wire' = [wire EXCEPT ![s][r] = Tail(@)]
  /\ batch' = [batch EXCEPT ![r] = Tail(@)]
  /\ UNCHANGED <<buffered, calls, mode, known, data, maps, stack, ir, local, inbox, gathered, mem>>

(***************************************************************************)
(* BH_SYNC after the flush: comm_slaves2master gathers the blocks.         *)
(***************************************************************************)
\* The block a process contributes; local data is always allocated.
Contribution(r, a) ==
  LET d == array_get_local(r, {a})[a]
  IN  IF d = NULL THEN LocalBlank(r, NelemOf(r, a)) ELSE d

AtSync(r) ==
  /\ mode[r] = "run" /\ ~Waits(r)
  /\ ir[r] # <<>> /\ Head(ir[r]).op = "SYNC"
  /\ batch[r] = <<>>

gather_slave(r) ==
  /\ AtSync(r)
  /\ LET a == Head(ir[r]).out.base
     IN  /\ gathered' = [gathered EXCEPT ![r] =
                           Append(@, [id |-> s2m[r][a], block |-> Contribution(r, a)])]
         /\ local' = [local EXCEPT ![r] = With(@, a, Contribution(r, a))]
  /\ ir' = [ir EXCEPT ![r] = Tail(@)]
  /\ UNCHANGED <<buffered, calls, mode, known, data, maps, stack, batch, tmp, inbox, wire, mem>>

gather_master ==
  /\ AtSync(0)
  /\ \A s \in Slave : gathered[s] # <<>>
  /\ LET a     == Head(ir[0]).out.base
         block == [r \in Rank |-> IF r = 0 THEN Contribution(0, a) ELSE Head(gathered[r]).block]
     IN  /\ data' = [data EXCEPT ![a] =
                       [i \in 0 .. Nelem[a] - 1 |->
                          block[RankOf(Nelem[a], i)][LocalPos(Nelem[a], i)]]]
         /\ local' = [local EXCEPT ![0] = With(@, a, Contribution(0, a))]
  /\ gathered' = [s \in Slave |-> Tail(gathered[s])]
  /\ ir' = [ir EXCEPT ![0] = Tail(@)]
  /\ UNCHANGED <<buffered, calls, mode, known, maps, stack, batch, tmp, inbox, wire, mem>>

\* exec_execute returns; the master returns to the bridge, a slave to its loop.
exec_return(r) ==
  /\ mode[r] = "run" /\ ~Waits(r)
  /\ ir[r] = <<>> /\ batch[r] = <<>>
  /\ mode' = [mode EXCEPT ![r] = "idle"]
  /\ UNCHANGED <<buffered, calls, known, data, maps, stack, ir, local, batch, tmp, comm, mem>>

-----------------------------------------------------------------------------
\* bh_vem_cluster_shutdown.
shutdown ==
  /\ mode[0] = "idle" /\ ~Waits(0)
  /\ mode' = [mode EXCEPT ![0] = "down"]
  /\ Bcast([type |-> "SHUTDOWN"])
  /\ UNCHANGED <<buffered, calls, known, data, maps, stack, ir, local, batch, tmp, gathered, wire, mem>>

\* Mutant: the slave goes back to its loop.
SlaveStaysUp(r) ==
  /\ mode[r] = "idle" /\ ~Waits(r)
  /\ inbox[r] # <<>> /\ Head(inbox[r]).type = "SHUTDOWN"
  /\ inbox' = [inbox EXCEPT ![r] = Tail(@)]
  /\ UNCHANGED <<buffered, calls, mode, known, data, maps, stack, ir, local, batch, tmp, gathered, wire, mem>>

slave_shutdown(r) ==
  /\ mode[r] = "idle" /\ ~Waits(r)
  /\ inbox[r] # <<>> /\ Head(inbox[r]).type = "SHUTDOWN"
  /\ mode' = [mode EXCEPT ![r] = "down"]
  /\ inbox' = [inbox EXCEPT ![r] = Tail(@)]
  /\ UNCHANGED <<buffered, calls, known, data, maps, stack, ir, local, batch, tmp, gathered, wire, mem>>

\* Between its calls the bridge writes, or takes, the data of arrays that it
\* has discarded or not used yet.
bridge_data(a, d) ==
  /\ calls < MaxCalls /\ calls' = calls + 1
  /\ mode[0] = "idle" /\ a \notin known
  /\ data[a] # d /\ data' = [data EXCEPT ![a] = d]
  /\ UNCHANGED <<buffered, mode, known, maps, stack, ir, local, batch, tmp, comm, mem>>

Down == (\A r \in Rank : mode[r] = "down") /\ UNCHANGED vars

Step(r) ==
  \/ dispatch_array_data(r) \/ exec_execute(r)
  \/ schedule(r) \/ execute_free(r) \/ execute_discard(r)
  \/ flush_inst(r) \/ flush_send(r) \/ flush_recv(r)
  \/ exec_return(r)

SlaveStep(r) == slave_exec(r) \/ gather_slave(r) \/ slave_shutdown(r)

\* The processes run: one that can take a step is not held up forever by
\* idling.  The bridge need not call.
Running ==
  \/ \E r \in Rank : Step(r)
  \/ \E r \in Slave : SlaveStep(r)
  \/ gather_master

Next ==
  \/ \E bhir \in BhIRs : dispatch_bhir(bhir)
  \/ Running
  \/ shutdown
  \/ \E a \in Arys : \E d \in Writes[a] : bridge_data(a, d)
  \/ Down

Spec == Init /\ [][Next]_vars

FairSpec == Spec /\ WF_vars(Running)

-----------------------------------------------------------------------------
(***************************************************************************)
(* The master and the slaves agree on the arrays: map_master2slave and     *)
(* map_slave2master are inverse (the assertions of dispatch_new_slave_array*)
(* and dispatch_slave_known_remove), a slave finds every array of a list   *)
(* it receives (bh_vem_cluster_slave.cpp:115), and a slave that has caught *)
(* up knows exactly the arrays of slave_known_arrays.                      *)
(***************************************************************************)
MapsAgree ==
  \A r \in Slave :
    /\ s2m[r] = [h \in Range(m2s[r]) |-> CHOOSE a \in DOMAIN m2s[r] : m2s[r][a] = h]
    /\ Cardinality(Range(m2s[r])) = Cardinality(DOMAIN m2s[r])
    /\ \A i \in DOMAIN ir[r] : NULL \notin Range(Bases(ir[r][i]))
    /\ mode[0] = "idle" /\ mode[r] = "idle" /\ inbox[r] = <<>> => DOMAIN m2s[r] = known

(***************************************************************************)
(* A slot of slave_ary_store is not handed out while a local array is      *)
(* still kept for its last user: between two instruction lists only arrays *)
(* that a slave knows have a local part, no free slot is in use, and no    *)
(* slot is lost.                                                           *)
(***************************************************************************)
SlotsAreFresh ==
  \A r \in Slave :
    /\ \A i \in DOMAIN store[r].free : store[r].free[i] \notin DOMAIN s2m[r]
    /\ DOMAIN s2m[r] \union Range(store[r].free) = 0 .. store[r].next - 1
    /\ Cardinality(Range(store[r].free)) = Len(store[r].free)
    /\ mode[r] = "idle" => DOMAIN local[r] \subseteq DOMAIN s2m[r]

(***************************************************************************)
(* The tables of arrays of all processes fit together: the two maps, the   *)
(* slots and the local parts.                                              *)
(***************************************************************************)
TablesAgree == MapsAgree /\ SlotsAreFresh

(***************************************************************************)
(* The collective calls of the processes match: a slave that waits for the *)
(* data of an array gets the data of that array, one that waits for a      *)
(* command gets a command, and the master gathers blocks of one array.     *)
(***************************************************************************)
CollectivesMatch ==
  /\ \A r \in Slave : inbox[r] # <<>> =>
       /\ mode[r] = "idle" => Head(inbox[r]).type # "DATA"
       /\ mode[r] = "scatter" /\ stack[r] # <<>> /\ Head(stack[r]).hasdata =>
            /\ Head(inbox[r]).type = "DATA"
            /\ Head(inbox[r]).id = s2m[r][Head(stack[r]).id]
  /\ AtSync(0) =>
       \A r \in Slave : gathered[r] # <<>> =>
         Head(gathered[r]).id = Head(ir[0]).out.base

(***************************************************************************)
(* Every message of a list is received within it: a process that returns   *)
(* from exec_execute leaves nothing in its temporary arrays (tmp_clear     *)
(* releases them), and once all have returned no message is under way that *)
(* the receives of a later list would take for theirs.                     *)
(***************************************************************************)
NothingLeftBehind ==
  /\ \A r \in Rank : mode[r] = "idle" => tmp[r] = <<>>
  /\ (\A r \in Rank : mode[r] = "idle") /\ (\A r \in Slave : inbox[r] = <<>>) =>
       /\ \A s, r \in Rank : wire[s][r] = <<>>
       /\ \A r \in Slave : gathered[r] = <<>>

(***************************************************************************)
(* Every message, collective or not, goes to the call it is meant for.     *)
(***************************************************************************)
MessagesMatch == CollectivesMatch /\ NothingLeftBehind

(***************************************************************************)
(* Every call returns: whatever blocks of data the instructions move, with *)
(* and without buffering in MPI, the processes never wait for each other   *)
(* in a circle.                                                            *)
(***************************************************************************)
CallsReturn == mode[0] \in {"scatter", "run"} ~> mode[0] = "idle"

(***************************************************************************)
(* bh_vem_cluster_shutdown ends every slave, after the lists before it.    *)
(***************************************************************************)
ShutdownReachesAll == mode[0] = "down" ~> \A r \in Rank : mode[r] = "down"
=============================================================================
