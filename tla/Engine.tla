------------------------------- MODULE Engine -------------------------------
(***************************************************************************)
(* A stack of filters, the topological fuser, the node manager and the     *)
(* engine for the CPU (filter/, fuser/topological, vem/node, ve/cpu).      *)
(*                                                                         *)
(* The engine turns each kernel into blocks of instructions in three-      *)
(* address code (tacs), and each block into a function: a loop that is     *)
(* generated, compiled to a file, loaded, and kept under the symbol of the *)
(* block for blocks to come, in this session or, from the file, in others. *)
(* Compilation may fail, and the process may die during it and leave a     *)
(* part of the file.                                                       *)
(*                                                                         *)
(* The threads of a function take steps of one iteration.  Scans, gather   *)
(* and scatter, random numbers and views of more than three dimensions are *)
(* not modelled.                                                           *)
(***************************************************************************)
EXTENDS Kernel, Filter

CONSTANTS
  Batches,      \* the instruction lists of the bridge
  Initial,      \* the data of the arrays that the bridge made itself
  Stacks,       \* configurations: the filters, and the composites that bcexp expands
  Levels,       \* values of jit_level
  Threshold,    \* gc_threshold of bcexp
  Threads,      \* omp_get_max_threads()
  MaxBatches, MaxSessions, MaxFailures

ASSUME LevelsAssumption == Levels \subseteq 0 .. 3

VARIABLES
  pc,              \* "idle", "filter", "block", "compose", "jit", "run", "loop", "crashed", "down", or that the
                   \* call returned an error: "failed" of the compiler, "error" of the store
  stack, level,    \* of this session
  data,            \* base->data of all arrays
  bases_,          \* the bases made by bcexp
  allocated_bases, \* the arrays the node manager knows
  below,           \* the filters that the batch has not passed
  instr_list,      \* the batch as it was rewritten
  blocks,          \* the blocks of the batch that are left, the first of them now
  current,         \* its symbol, operands, iteration space and source code
  layouts,         \* the layouts that were changed in the symbol table
  team,            \* the iterations and the variables of the threads of the function
  funcs,           \* the functions, by symbol
  libraries_,      \* the files the functions may be loaded from, by symbol
  files,           \* the object directory
  arrays, known,   \* data and allocated_bases when the last call returned
  batch,           \* the batch of the call that has not returned, or <<>>
  nbatches, nsessions, nfailures

memory == <<data, bases_, allocated_bases, below, instr_list, blocks, current, layouts, team>>
store == <<funcs, libraries_, files>>
bridge == <<arrays, known, batch>>
session == <<stack, level>>
bounds == <<nbatches, nsessions, nfailures>>
vars == <<pc, session, memory, store, bridge, bounds>>

-----------------------------------------------------------------------------
(***************************************************************************)
(* Operands and tacs.                                                      *)
(***************************************************************************)
IsConst(o) == "val" \in DOMAIN o

Rank == [SCALAR_CONST |-> 1, SCALAR_TEMP |-> 2, SCALAR |-> 4, CONTRACTABLE |-> 8,
         CONTIGUOUS |-> 16, CONSECUTIVE |-> 32, STRIDED |-> 64]

determine_layout(o) ==
  LET n == ndim(o)
      inner == o.dim[n].stride
      consecutive == \A i \in 1 .. n - 1 : o.dim[i].stride = o.dim[i + 1].shape * o.dim[i + 1].stride
  IN  IF IsConst(o) THEN "SCALAR_CONST"
      ELSE IF bh_nelements(o) = 1 THEN "SCALAR"
      ELSE IF consecutive /\ inner = 1 THEN "CONTIGUOUS"
      ELSE IF consecutive /\ inner > 1 THEN "CONSECUTIVE" ELSE "STRIDED"

\* The layout of an operand, where changed has those that are no longer the first.
Layout(o, changed) == IF o \in DOMAIN changed THEN changed[o] ELSE determine_layout(o)

ArrayOp == {"MAP", "ZIP", "GENERATE", "REDUCE_COMPLETE", "REDUCE_PARTIAL"}

Tac(op, oper, operand, axis) == [op |-> op, oper |-> oper, operand |-> operand, axis |-> axis]

Identity(out, in) == IF out = in THEN Tac("NOOP", "IDENTITY", <<>>, 0)
                     ELSE Tac("MAP", "IDENTITY", <<out, in>>, 0)

\* tac_transform of an element-wise tac.
Simple(oper, operand) ==
  LET by(n) == IsConst(operand[3]) /\ operand[3].val = Real(n)
  IN  IF Len(operand) = 2
      THEN IF oper = "IDENTITY" THEN Identity(operand[1], operand[2]) ELSE Tac("MAP", oper, operand, 0)
      ELSE IF (oper = "ADD" /\ by(0)) \/ (oper \in {"MULTIPLY", "DIVIDE"} /\ by(1))
      THEN Identity(operand[1], operand[2])
      ELSE IF oper = "MULTIPLY" /\ by(0) THEN Tac("MAP", "IDENTITY", <<operand[1], operand[3]>>, 0)
      ELSE Tac("ZIP", oper, operand, 0)

\* tac_transform of a reduction.  Its axis is a constant operand.
Reduction(oper, out, in, axis) ==
  IF determine_layout(in) = "SCALAR" THEN Identity(out, in)
  ELSE Tac(IF determine_layout(out) = "SCALAR" THEN "REDUCE_COMPLETE" ELSE "REDUCE_PARTIAL", oper,
           <<out, in, [val |-> Real(axis), type |-> "INT64"]>>, axis)

instr_to_tac(instr) ==
  LET operand == instr.operand \o (IF instr.const = NoConst THEN <<>> ELSE <<instr.const>>)
  IN  CASE bh_opcode_is_system(instr.opcode) -> Tac("SYSTEM", instr.opcode, operands(instr), 0)
        [] instr.opcode = "RANGE" -> Tac("GENERATE", "RANGE", operand, 0)
        [] instr.opcode = "REDUCE" -> Reduction(instr.oper, operand[1], operand[2], instr.axis)
        [] instr.opcode = "EXTENSION" -> Tac("EXTENSION", instr.oper, operand, 0)
        [] OTHER -> Simple(instr.oper, operand)

array_tacs(block) == SelectSeq(block.tacs, LAMBDA t : t.op \in ArrayOp)

\* The operands of a block, each of them once, as they are met.
Once(os) ==
  LET firsts == SelectSeq([i \in DOMAIN os |-> i], LAMBDA i : \A j \in 1 .. i - 1 : os[j] # os[i])
  IN  [i \in DOMAIN firsts |-> os[firsts[i]]]

Localized(block) == Once(FlattenSeq([i \in DOMAIN block.tacs |-> Reverse(block.tacs[i].operand)]))

Local(os, o) == CHOOSE i \in DOMAIN os : os[i] = o

-----------------------------------------------------------------------------
(***************************************************************************)
(* From kernels to blocks.  A block has its tacs, the temporary arrays of  *)
(* its kernel, and the extension method that is called in its place.       *)
(***************************************************************************)
Block(tacs, temps) == [tacs |-> tacs, temps |-> temps, ext |-> FALSE]

Blocks(jit_fusion, list, k) ==
  LET tacs == [i \in DOMAIN k.instr_indexes |-> instr_to_tac(list[k.instr_indexes[i]])]
      whole == Block(tacs, k.temps)
  IN  IF \E t \in ToSet(tacs) : t.op = "EXTENSION" THEN <<[whole EXCEPT !.ext = TRUE]>>
      ELSE IF jit_fusion /\ Len(array_tacs(whole)) > 1 THEN <<whole>>
      ELSE [i \in DOMAIN tacs |-> Block(<<tacs[i]>>, k.temps)]

Fused(jit_fusion, list) ==
  LET ks == do_fusion("SAME_SHAPE_GENERATE_1DREDUCE", list)
  IN  FlattenSeq([i \in DOMAIN ks |-> Blocks(jit_fusion, list, ks[i])])

-----------------------------------------------------------------------------
(***************************************************************************)
(* The symbol and the source code of a block.                              *)
(***************************************************************************)
turn_contractable(changed, o) ==
  (o :> IF Layout(o, changed) = "SCALAR" THEN "SCALAR_TEMP" ELSE "CONTRACTABLE") @@ changed

\* The temporary arrays of the kernel become variables of the loop.
Contracted(block, os, changed) ==
  LET temps == SelectSeq(os, LAMBDA o : ~IsConst(o) /\ o.base \in block.temps)
  IN  FoldLeft(turn_contractable, changed, temps)

\* The iteration space, from the operand of the highest layout.
Widened(ispace, tac, changed) ==
  LET rank(o) == Rank[Layout(o, changed)]
      Of(o) == [layout |-> Layout(o, changed), shape |-> shape(o)]
      Wider(acc, o) == IF rank(o) > Rank[acc.layout] THEN Of(o) ELSE acc
      out == tac.operand[1]
      in == tac.operand[2]
      swept == IF rank(in) >= Rank[ispace.layout] THEN Of(in) ELSE ispace
  IN  IF tac.op \notin {"REDUCE_COMPLETE", "REDUCE_PARTIAL"}
      THEN FoldLeft(Wider, ispace, Reverse(tac.operand))
      ELSE IF rank(out) > Rank[swept.layout] THEN [swept EXCEPT !.layout = Layout(out, changed)]
      ELSE swept

update_iterspace(ispace, block, changed) ==
  FoldLeft(LAMBDA acc, t : Widened(acc, t, changed), ispace, array_tacs(block))

NoSpace == [layout |-> "SCALAR_TEMP", shape |-> <<>>]

Type(o) == IF IsConst(o) THEN o.type ELSE o.base.type

Locals(os, tac) == [i \in DOMAIN tac.operand |-> Local(os, tac.operand[i])]

\* Mutant: the layouts are not part of the symbol.
SymbolWithoutLayout(block, os, changed) ==
  [tacs |-> [i \in DOMAIN array_tacs(block) |->
               LET t == array_tacs(block)[i] IN <<t.op, t.oper, Locals(os, t)>>],
   operands |-> [i \in DOMAIN os |-> Type(os[i])]]

symbolize(block, os, changed) ==
  LET tacs == SelectSeq(block.tacs, LAMBDA t : t.op \notin {"SYSTEM", "EXTENSION"})
      swept(t) == t.op \in {"REDUCE_COMPLETE", "REDUCE_PARTIAL"}
      dims(t) == IF t.op = "NOOP" THEN 0 ELSE ndim(t.operand[IF swept(t) THEN 2 ELSE 1])
      inner(t) == t.op = "REDUCE_PARTIAL" /\ t.axis = dims(t) - 1
  IN  [tacs |-> [i \in DOMAIN tacs |-> [op |-> tacs[i].op, oper |-> tacs[i].oper, ndim |-> dims(tacs[i]),
                                        inner |-> inner(tacs[i]), local |-> Locals(os, tacs[i])]],
       operands |-> [i \in DOMAIN os |-> [layout |-> Layout(os[i], changed), type |-> Type(os[i])]]]

COLLAPSIBLE == {"SCALAR", "SCALAR_CONST", "CONTRACTABLE", "CONTIGUOUS", "CONSECUTIVE"}

\* Which template the loop is made from.
walker(ispace, tacs) ==
  LET partial == {t \in ToSet(tacs) : t.op = "REDUCE_PARTIAL"}
      rank == Len(ispace.shape)
  IN  IF ispace.layout = "SCALAR" THEN "scalar"
      ELSE IF ispace.layout \in COLLAPSIBLE /\ (rank <= 1 \/ partial = {}) THEN "collapsed"
      ELSE IF \A t \in partial : t.axis = rank - 1 THEN "inner" ELSE "axis"

generate_source(block, os, changed, ispace) ==
  LET tacs == array_tacs(block)
  IN  [walker |-> walker(ispace, tacs),
       tacs |-> [i \in DOMAIN tacs |-> [op |-> tacs[i].op, oper |-> tacs[i].oper,
                                        local |-> Locals(os, tacs[i])]],
       layout |-> [i \in DOMAIN os |-> Layout(os[i], changed)]]

-----------------------------------------------------------------------------
(***************************************************************************)
(* The function.  m has the memory and the variables of a thread: <<i, 0>> *)
(* for operand i, and <<i, 1 + k>> for the accumulation of element k of    *)
(* it.  The output of a reduction overlaps no operand of the block.        *)
(***************************************************************************)
IsVariable(layout) == layout \in {"SCALAR_CONST", "SCALAR_TEMP", "SCALAR", "CONTRACTABLE"}

\* declare_operands
Variables(source, os, mem) ==
  LET First(o) == IF IsConst(o) THEN o.val ELSE Elem(mem, o.base, o.start)
      ids == {i \in DOMAIN os : IsVariable(source.layout[i])}
  IN  [v \in ids \X {0} |-> IF source.layout[v[1]] \in {"SCALAR_CONST", "SCALAR"} THEN First(os[v[1]])
                            ELSE Undef]

\* Where iteration k finds an operand.
Position(source, o, layout, k) ==
  CASE source.walker = "collapsed" /\ layout = "CONTIGUOUS" -> o.start + k
    [] source.walker = "collapsed" /\ layout = "CONSECUTIVE" -> o.start + k * Last(o.dim).stride
    [] OTHER -> Pattern(o)[k]

Read(source, os, m, i, k) ==
  IF IsVariable(source.layout[i]) THEN m.var[<<i, 0>>]
  ELSE Elem(m.mem, os[i].base, Position(source, os[i], source.layout[i], k))

Write(source, os, m, i, k, val) ==
  IF IsVariable(source.layout[i]) THEN [m EXCEPT !.var[<<i, 0>>] = val]
  ELSE [m EXCEPT !.mem = Put(@, os[i].base, Position(source, os[i], source.layout[i], k) :> val)]

\* The element of the iteration space without the axis that iteration k belongs to.
Outer(source, os, k) ==
  LET t == CHOOSE t \in ToSet(source.tacs) : t.op = "REDUCE_PARTIAL"
  IN  Into(os[t.local[2]], os[t.local[3]].val[1], os[t.local[1]], k)

\* eidx in iteration k: the loops of "walker.inner" count it by rows, those of
\* "walker.axis" without the axis.
Eidx(source, os, row, k) ==
  CASE source.walker = "scalar" -> 0
    [] source.walker = "collapsed" -> k
    [] source.walker = "inner" -> (k \div row) * row
    [] source.walker = "axis" -> Outer(source, os, k)

Accumulated(os, m, t, k, val) ==
  LET to == Into(os[t.local[2]], os[t.local[3]].val[1], os[t.local[1]], k)
      accu == <<t.local[1], 1 + to>>
      old == IF accu \in DOMAIN m.var THEN m.var[accu] ELSE Neutral(t.oper)
  IN  [m EXCEPT !.var = (accu :> Calc(t.oper, old, val)) @@ @]

\* One operation of iteration k.
Operation(source, os, m, t, row, k) ==
  LET in(j) == IF j \in DOMAIN t.local THEN Read(source, os, m, t.local[j], k) ELSE Real(0)
  IN  IF t.op = "GENERATE" THEN Write(source, os, m, t.local[1], k, Real(Eidx(source, os, row, k)))
      ELSE IF t.op \in {"MAP", "ZIP"} THEN Write(source, os, m, t.local[1], k, Calc(t.oper, in(2), in(3)))
      ELSE Accumulated(os, m, t, k, in(2))

Iteration(source, os, m, row, k) ==
  FoldLeft(LAMBDA c, t : Operation(source, os, c, t, row, k), m, source.tacs)

\* Before the loop: the element that a complete reduction adds to.
Initialized(source, os, mem) ==
  FoldLeft(LAMBDA c, t : IF t.op = "REDUCE_COMPLETE" /\ source.layout[t.local[1]] = "SCALAR"
                         THEN Put(c, os[t.local[1]].base, os[t.local[1]].start :> Neutral(t.oper))
                         ELSE c, mem, source.tacs)

\* After the loop: the accumulations of a thread, and the scalars of the first thread.
WrittenBack(source, os, tid, m, t) ==
  LET i == t.local[1]
      first == os[i].start
      accus == {v \in DOMAIN m.var : v[1] = i /\ v[2] > 0}
      At0(v) == Pattern(os[i])[v[2] - 1]
      new == IF source.layout[i] \in {"SCALAR_TEMP", "CONTRACTABLE"} THEN <<>>
             ELSE IF t.op = "REDUCE_COMPLETE"
             THEN first :> Calc(t.oper, Elem(m.mem, os[i].base, first), m.var[<<i, 1>>])
             ELSE IF t.op = "REDUCE_PARTIAL"
             THEN [p \in {At0(v) : v \in accus} |-> m.var[CHOOSE v \in accus : At0(v) = p]]
             ELSE IF source.layout[i] = "SCALAR" /\ tid = 0 THEN first :> m.var[<<i, 0>>] ELSE <<>>
  IN  IF new = <<>> THEN m ELSE [m EXCEPT !.mem = Put(@, os[i].base, new)]

Synced(source, os, tid, m) ==
  FoldLeft(LAMBDA c, t : WrittenBack(source, os, tid, c, t), m, source.tacs).mem

\* The iterations in the order of the loops: the axis is the innermost of "walker.axis".
Order(source, os, n) ==
  LET t == CHOOSE t \in ToSet(source.tacs) : t.op = "REDUCE_PARTIAL"
      outer == bh_nelements(os[t.local[1]])
  IN  IF source.walker # "axis" THEN Iterations(n)
      ELSE FlattenSeq([o \in 1 .. outer |-> SelectSeq(Iterations(n), LAMBDA k : Outer(source, os, k) = o - 1)])

\* The number of chunks that are shared out: elements, rows, or rows without the axis.
Chunks(source, os, space, n) ==
  LET t == CHOOSE t \in ToSet(source.tacs) : t.op = "REDUCE_PARTIAL"
      outer == RemoveAt(space, os[t.local[3]].val[1] + 1)
  IN  CASE source.walker = "collapsed" -> n
        [] source.walker = "inner" -> n \div Last(space)
        [] source.walker = "axis" -> FoldLeft(LAMBDA c, d : c * d, 1, Front(outer))
        [] source.walker = "scalar" -> 1

\* Mutant: the threads after the spill start where there is none.
ShareNoSpill(nchunks, nworkers, tid) ==
  LET split == nchunks \div nworkers
      spill == nchunks % nworkers
  IN  IF tid < spill THEN <<tid * (split + 1), (tid + 1) * (split + 1)>>
      ELSE <<tid * split, (tid + 1) * split>>

\* work_offset and work_end.
Share(nchunks, nworkers, tid) ==
  LET split == nchunks \div nworkers
      spill == nchunks % nworkers
  IN  IF tid < spill THEN <<tid * (split + 1), (tid + 1) * (split + 1)>>
      ELSE <<tid * split + spill, (tid + 1) * split + spill>>

\* The threads, each with its part of the order.
Team(order, nchunks, nworkers, var) ==
  LET size == Len(order) \div nchunks
      Todo(share) == SubSeq(order, share[1] * size + 1, share[2] * size)
  IN  [tid \in 0 .. nworkers - 1 |-> [todo |-> Todo(Share(nchunks, nworkers, tid)), var |-> var]]

-----------------------------------------------------------------------------
\* A new process: nothing but the arrays of the bridge is in memory.
Empty ==
  /\ data' = Initial /\ bases_' = <<>> /\ allocated_bases' = {} /\ below' = <<>> /\ instr_list' = <<>>
  /\ blocks' = <<>> /\ current' = <<>> /\ layouts' = <<>> /\ team' = <<>>
  /\ funcs' = <<>> /\ libraries_' = <<>>
  /\ arrays' = Initial /\ known' = {} /\ batch' = <<>>

Init ==
  /\ pc = "down" /\ stack \in Stacks /\ level \in Levels
  /\ data = Initial /\ bases_ = <<>> /\ allocated_bases = {} /\ below = <<>> /\ instr_list = <<>>
  /\ blocks = <<>> /\ current = <<>> /\ layouts = <<>> /\ team = <<>>
  /\ funcs = <<>> /\ libraries_ = <<>> /\ files = {}
  /\ arrays = Initial /\ known = {} /\ batch = <<>>
  /\ nbatches = 0 /\ nsessions = 0 /\ nfailures = 0

\* Store::preload: one file per symbol; loading ends with the first file that cannot be loaded.
preload(libs) ==
  LET whole == {s \in DOMAIN libs : libs[s].whole}
  IN  {[s \in S |-> libs[s].source] :
         S \in {T \in SUBSET whole : whole = DOMAIN libs => T = whole}}

\* The choices of a file for each symbol: the order of the directory.
Libraries == {l \in [{f.symbol : f \in files} -> files] : \A s \in DOMAIN l : l[s].symbol = s}

init(s, l) ==
  /\ pc = "down" /\ nsessions < MaxSessions /\ nbatches < MaxBatches
  /\ pc' = "idle" /\ stack' = s /\ level' = l /\ nsessions' = nsessions + 1
  /\ libraries_' \in Libraries
  /\ funcs' \in preload(libraries_')
  /\ UNCHANGED <<memory, files, bridge, nbatches, nfailures>>

\* The bridge computes with values that it wrote.
Legal(after) == \A b \in DOMAIN after : Undef \notin {after[b][p] : p \in DOMAIN after[b]}

\* The bridge calls the topmost component of the stack.
execute(bhir) ==
  /\ pc = "idle" /\ nbatches < MaxBatches /\ Legal(Run(arrays, bhir))
  /\ pc' = "filter" /\ below' = stack.filters
  /\ batch' = bhir /\ instr_list' = bhir /\ nbatches' = nbatches + 1
  /\ UNCHANGED <<session, data, bases_, allocated_bases, blocks, current, layouts, team, store,
                 arrays, known, nsessions, nfailures>>

\* A filter passes the batch on.
Pass(filter) ==
  /\ pc = "filter" /\ below # <<>> /\ Head(below) = filter
  /\ pc' = "filter" /\ below' = Tail(below)
  /\ UNCHANGED <<session, data, allocated_bases, blocks, current, layouts, team, store, bridge, bounds>>

Rewrite(new) == instr_list' = new.list /\ bases_' = new.bases

bh_filter_bcexp_execute ==
  Pass("bcexp") /\ Rewrite(expand(instr_list, bases_, stack.on))

bh_filter_bccon_execute ==
  Pass("bccon") /\ instr_list' = contract(instr_list) /\ UNCHANGED bases_

bh_filter_dimclean_execute ==
  Pass("dimclean") /\ instr_list' = dimclean(instr_list) /\ UNCHANGED bases_

\* The topological fuser; the node manager inspects what it passes on.
fuse ==
  /\ pc = "filter" /\ below = <<>>
  /\ pc' = "block" /\ layouts' = <<>>
  /\ blocks' = Fused(level >= 2, instr_list)
  /\ allocated_bases' = FoldLeft(Know, allocated_bases, instr_list)
  /\ instr_list' = <<>>
  /\ UNCHANGED <<session, data, bases_, below, current, team, store, bridge, bounds>>

\* The next block gets its operands and its iteration space.
compose ==
  /\ pc = "block" /\ blocks # <<>> /\ ~Head(blocks).ext /\ array_tacs(Head(blocks)) # <<>>
  /\ pc' = "compose"
  /\ current' = [operands |-> Localized(Head(blocks)),
                 ispace |-> update_iterspace(NoSpace, Head(blocks), layouts)]
  /\ UNCHANGED <<session, data, bases_, allocated_bases, below, instr_list, blocks, layouts, team, store,
                 bridge, bounds>>

Symbolized(block, os, changed, ispace) ==
  /\ layouts' = changed
  /\ current' = [symbol |-> symbolize(block, os, changed), operands |-> os, ispace |-> ispace,
                 source |-> generate_source(block, os, changed, ispace)]
  /\ pc' = IF level >= 1 /\ current'.symbol \notin DOMAIN funcs THEN "jit" ELSE "run"

\* execute_block up to the symbol.  Contraction changes the layouts.
prepare ==
  /\ pc = "compose"
  /\ IF level < 3 THEN Symbolized(Head(blocks), current.operands, layouts, current.ispace)
     ELSE Symbolized(Head(blocks), current.operands,
                     Contracted(Head(blocks), current.operands, layouts),
                     update_iterspace(current.ispace, Head(blocks),
                                      Contracted(Head(blocks), current.operands, layouts)))
  /\ UNCHANGED <<session, data, bases_, allocated_bases, below, instr_list, blocks, team, store, bridge,
                 bounds>>

File(whole) == [symbol |-> current.symbol, uid |-> nsessions, source |-> current.source, whole |-> whole]

\* insert of a map: an entry that is there is kept.
Inserted(map, key, val) == [k \in DOMAIN map \union {key} |-> IF k \in DOMAIN map THEN map[k] ELSE val]

\* The loops of "walker.inner" and "walker.axis" declare their operands, and what is
\* computed to a scalar is written back behind them.
Compiles(source) ==
  source.walker \in {"inner", "axis"} =>
    \A t \in ToSet(source.tacs) : t.op \in {"MAP", "ZIP", "GENERATE"} => source.layout[t.local[1]] # "SCALAR"

\* Mutant: storage is not informed.
compile_unknown ==
  /\ pc = "jit" /\ Compiles(current.source)
  /\ pc' = "run"
  /\ files' = files \union {File(TRUE)}
  /\ UNCHANGED <<session, memory, funcs, libraries_, bridge, bounds>>

compile ==
  /\ pc = "jit" /\ Compiles(current.source)
  /\ pc' = "run"
  /\ files' = files \union {File(TRUE)}
  /\ libraries_' = Inserted(libraries_, current.symbol, File(TRUE))
  /\ UNCHANGED <<session, memory, funcs, bridge, bounds>>

compile_fails ==
  /\ pc = "jit"
  /\ Compiles(current.source) => nfailures < MaxFailures
  /\ pc' = "failed" /\ nfailures' = nfailures + 1
  /\ UNCHANGED <<session, memory, store, bridge, nbatches, nsessions>>

\* The process is killed while the compiler writes.
killed ==
  /\ pc = "jit" /\ nfailures < MaxFailures
  /\ pc' = "down" /\ nfailures' = nfailures + 1
  /\ files' = files \union {File(FALSE)}
  /\ Empty
  /\ UNCHANGED <<session, nbatches, nsessions>>

Missing(symbol) == symbol \notin DOMAIN libraries_ \/ ~libraries_[symbol].whole

\* Mutant: only the output of the first tac gets memory.
AllocateFirst(tacs, changed) ==
  IF Layout(tacs[1].operand[1], changed) \in {"SCALAR_TEMP", "CONTRACTABLE"} THEN {}
  ELSE {tacs[1].operand[1].base}

\* The bases that get memory for the outputs of a block.
Allocated(tacs, changed) ==
  {tacs[i].operand[1].base : i \in {j \in DOMAIN tacs :
     Layout(tacs[j].operand[1], changed) \notin {"SCALAR_CONST", "SCALAR_TEMP", "CONTRACTABLE"}}}

WithMemory(mem, bases) == mem @@ [b \in bases |-> <<>>]

\* Mutant: a freed array keeps its memory.
FreeNothing(mem, tacs) == mem

FreeAll(mem, tacs) ==
  FoldLeft(LAMBDA m, t : IF t.oper = "FREE" THEN Freed(m, t.operand[1].base) ELSE m, mem, tacs)

\* The operands of a block that are read from memory and have none.
Null(mem, os, layout) ==
  {i \in DOMAIN os : /\ layout[i] \notin {"SCALAR_CONST", "SCALAR_TEMP", "CONTRACTABLE"}
                     /\ os[i].base \notin DOMAIN mem}

Start(source, os, n, nchunks, mem) ==
  /\ data' = mem
  /\ team' = Team(Order(source, os, n), nchunks, IF nchunks > Threads THEN Threads ELSE 1,
                  Variables(source, os, mem))

\* The function of the block is called with memory for its outputs.
Call(source, os, space, n, mem) ==
  IF \E t \in ToSet(source.tacs) : ToSet(t.local) \intersect Null(mem, os, source.layout) # {}
  THEN pc' = "crashed" /\ UNCHANGED <<data, team>>
  ELSE pc' = "loop" /\ Start(source, os, n, Chunks(source, os, space, n), Initialized(source, os, mem))

\* The function is loaded, unless it is there, and called.
run ==
  /\ pc = "run"
  /\ IF current.symbol \notin DOMAIN funcs /\ Missing(current.symbol)
     THEN pc' = "error" /\ UNCHANGED <<data, team, funcs>>
     ELSE /\ funcs' = Inserted(funcs, current.symbol, libraries_[current.symbol].source)
          /\ Call(funcs'[current.symbol], current.operands, current.ispace.shape,
                  FoldLeft(LAMBDA c, d : c * d, 1, current.ispace.shape),
                  WithMemory(data, Allocated(array_tacs(Head(blocks)), layouts)))
  /\ UNCHANGED <<session, bases_, allocated_bases, below, instr_list, blocks, current, layouts, libraries_,
                 files, bridge, bounds>>

\* A thread gets m.
Step(tid, m) ==
  /\ data' = m.mem
  /\ team' = [team EXCEPT ![tid] = [todo |-> Tail(@.todo), var |-> m.var]]

iterate(tid) ==
  /\ pc = "loop" /\ team[tid].todo # <<>>
  /\ Step(tid, Iteration(funcs[current.symbol], current.operands, [mem |-> data, var |-> team[tid].var],
                         Last(current.ispace.shape), Head(team[tid].todo)))
  /\ UNCHANGED <<pc, session, bases_, allocated_bases, below, instr_list, blocks, current, layouts, store,
                 bridge, bounds>>

\* A thread is done.
sync(tid) ==
  /\ pc = "loop" /\ team[tid].todo = <<>>
  /\ data' = Synced(funcs[current.symbol], current.operands, tid, [mem |-> data, var |-> team[tid].var])
  /\ team' = Restrict(team, DOMAIN team \ {tid})
  /\ UNCHANGED <<pc, session, bases_, allocated_bases, below, instr_list, blocks, current, layouts, store,
                 bridge, bounds>>

\* All threads are: the rest of execute_block.
join ==
  /\ pc = "loop" /\ team = <<>>
  /\ pc' = "block" /\ blocks' = Tail(blocks)
  /\ data' = FreeAll(data, Head(blocks).tacs)
  /\ UNCHANGED <<session, bases_, allocated_bases, below, instr_list, current, layouts, team, store, bridge,
                 bounds>>

\* execute_block of system instructions.
run_system ==
  /\ pc = "block" /\ blocks # <<>> /\ ~Head(blocks).ext /\ array_tacs(Head(blocks)) = <<>>
  /\ pc' = "block" /\ blocks' = Tail(blocks)
  /\ data' = FreeAll(data, Head(blocks).tacs)
  /\ UNCHANGED <<session, bases_, allocated_bases, below, instr_list, current, layouts, team, store, bridge,
                 bounds>>

\* A kernel with an extension method: its first tac is executed, and nothing else.
extension ==
  LET tac == Head(blocks).tacs[1]
      instr == Instr("EXTENSION", tac.oper, tac.operand, NoConst)
  IN  /\ pc = "block" /\ blocks # <<>> /\ Head(blocks).ext
      /\ IF tac.op = "EXTENSION"
         THEN pc' = "block" /\ data' = Apply(data, instr) /\ blocks' = Tail(blocks)
         ELSE pc' = "crashed" /\ UNCHANGED <<data, blocks>>
      /\ UNCHANGED <<session, bases_, allocated_bases, below, instr_list, current, layouts, team, store, bridge,
                 bounds>>

\* The call returns to the bridge, and bcexp collects its bases.
return ==
  /\ pc = "block" /\ blocks = <<>>
  /\ pc' = "idle" /\ current' = <<>>
  /\ bases_' = gc(bases_, Threshold)
  /\ arrays' = Shown(data) /\ known' = allocated_bases /\ batch' = <<>>
  /\ UNCHANGED <<session, data, allocated_bases, below, instr_list, blocks, layouts, team, store, bounds>>

\* The bridge is done, or it gives up after an error.
shutdown ==
  /\ pc \in {"idle", "failed", "error"}
  /\ pc' = "down" /\ Empty
  /\ UNCHANGED <<session, files, bounds>>

Next ==
  \/ \E s \in Stacks, l \in Levels : init(s, l)
  \/ \E bhir \in Batches : execute(bhir)
  \/ bh_filter_bcexp_execute \/ bh_filter_bccon_execute \/ bh_filter_dimclean_execute \/ fuse
  \/ compose \/ prepare \/ compile \/ compile_fails \/ killed \/ run \/ join \/ run_system \/ extension
  \/ return \/ shutdown
  \/ \E tid \in DOMAIN team : iterate(tid) \/ sync(tid)

Spec == Init /\ [][Next]_vars

-----------------------------------------------------------------------------
(***************************************************************************)
(* Properties.                                                             *)
(***************************************************************************)
Abstract == INSTANCE Machine

\* When Engine::execute returns without an error, the arrays of the bridge have the
\* values that the instructions of its batch give them one after the other, and no
\* others are known to the node manager: whatever the filters expanded, contracted
\* and cleaned, whatever was fused, contracted to variables, collapsed to one loop,
\* or taken from the store, and whatever calls, errors and restarts came before.
ImplementsMachine == Abstract!Spec

\* Between two calls, memory is held only by arrays that the bridge has not freed: the
\* arrays that bcexp made are free, and so are the outputs that were contracted.
NothingLeaks == pc = "idle" => DOMAIN data \subseteq known \union DOMAIN Initial

\* No function is called with an operand that has no memory.  The engine crashes only on
\* a kernel with an extension method that begins with another instruction: system
\* instructions fuse with anything, and Engine::execute takes the first tac of the
\* block for the method.
OnlyExtensionsCrash ==
  pc = "crashed" => Head(blocks).ext /\ Head(blocks).tacs[1].op # "EXTENSION"

\* A function that is found under the symbol of a block, in memory or in a file that
\* an earlier block, batch or session wrote, has the code that would be generated for
\* this block.
RunsOwnCode ==
  pc = "run" =>
    /\ current.symbol \in DOMAIN funcs => funcs[current.symbol] = current.source
    /\ ~Missing(current.symbol) => libraries_[current.symbol].source = current.source

\* When there is a compiler, a call whose code compiled, or was in the store, fails only
\* where a process was killed while it compiled the same symbol, in an earlier session,
\* and left a part of a file.
ErrorsHaveACause ==
  pc = "error" /\ level # 0 =>
    nfailures > 0 /\ \E f \in files : f.symbol = current.symbol /\ ~f.whole
=============================================================================
