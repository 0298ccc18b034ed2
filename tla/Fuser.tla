------------------------------- MODULE Fuser --------------------------------
(***************************************************************************)
(* The fusers (fuser/singleton, topological, gentle and greedy) and the    *)
(* fuse cache (core/bh_fuse_cache.cpp).  A fuser turns the instruction     *)
(* list of each batch into a list of kernels, or takes the one that was    *)
(* computed before for a batch with the same hash.  The cache is written   *)
(* to files when the component shuts down and read when it starts.         *)
(*                                                                         *)
(* A hash is the data that is hashed: two batches with different data are  *)
(* taken to have different hashes.                                         *)
(***************************************************************************)
EXTENDS Dag

CONSTANTS
  Batches,      \* the instruction lists
  Fusers,       \* the fusers
  Models,       \* the fuse models
  Deactivated,  \* whether the cache is turned off
  MaxInstrs,    \* bound on the instructions of all batches
  MaxSessions   \* bound on the number of times the component starts

ASSUME Fusers \subseteq {"singleton", "topological", "gentle", "greedy"} /\ Models \subseteq FuseModel

VARIABLES
  pc,           \* what the fuser is doing; "idle" between batches, "down" between sessions
  fuser, model, \* of this session
  instr_list,   \* the batch
  kernel_list,  \* the kernels so far
  dags, vs,     \* the graphs left to fuse, and the vertices fuse_gently has left
  cache,        \* from hashes to kernel lists
  files,        \* the files of the cache
  computed,     \* the batch that kernel_list was computed for
  ninstrs, nsessions

vars == <<pc, fuser, model, instr_list, kernel_list, dags, vs, cache, files, computed, ninstrs, nsessions>>

-----------------------------------------------------------------------------
(***************************************************************************)
(* The hash of a batch: views and shapes count by the order in which they  *)
(* are first seen.                                                         *)
(***************************************************************************)
\* The identities of the members of s in a seqset.
Ids(s) == LET First(i) == Min({j \in 1 .. i : s[j] = s[i]})
          IN  [i \in DOMAIN s |-> Cardinality({First(j) : j \in 1 .. First(i)})]

Cut(s, parts) == [i \in DOMAIN parts |->
                    LET before == FoldLeft(LAMBDA n, p : n + Len(p), 0, SubSeq(parts, 1, i - 1))
                    IN  SubSeq(s, before + 1, before + Len(parts[i]))]

hashOpid(batch) ==
  LET ops == [i \in DOMAIN batch |-> operands(batch[i])]
  IN  Cut(Ids(FlattenSeq(ops)), ops)

\* <<ndim, sweep-dim>> of each sweep
SweepDims(batch) == [i \in DOMAIN batch |-> IF bh_opcode_is_sweep(batch[i].opcode)
                                            THEN <<ndim(batch[i].operand[2]), batch[i].axis>>
                                            ELSE <<>>]

hashOpidSweepdim(batch) == <<hashOpid(batch), SweepDims(batch)>>

hashScalarOpidSweepdim(batch) ==
  <<[i \in DOMAIN batch |-> scalar(batch[i])], hashOpidSweepdim(batch)>>

hashScalarShapeidOpidSweepdim(batch) ==
  <<Ids([i \in DOMAIN batch |-> shape(Swept(batch[i]))]), hashScalarOpidSweepdim(batch)>>

hashOpcodeOpidShapeidSweepdim(batch) ==
  LET shapes == [i \in DOMAIN batch |-> [j \in DOMAIN operands(batch[i]) |-> shape(batch[i].operand[j])]]
  IN  <<[i \in DOMAIN batch |-> batch[i].opcode], hashOpid(batch),
        [i \in DOMAIN batch |-> [j \in DOMAIN shapes[i] |-> Len(shapes[i][j])]],
        Cut(Ids(FlattenSeq(shapes)), shapes), SweepDims(batch)>>

BatchHash(m, batch) ==
  CASE m = "BROADEST" -> hashOpid(batch)
    [] m = "NO_XSWEEP" -> hashOpidSweepdim(batch)
    [] m = "NO_XSWEEP_SCALAR_SEPERATE" -> hashScalarOpidSweepdim(batch)
    [] m = "NO_XSWEEP_SCALAR_SEPERATE_SHAPE_MATCH" -> hashScalarShapeidOpidSweepdim(batch)
    [] OTHER -> hashOpcodeOpidShapeidSweepdim(batch)

hash == BatchHash(model, instr_list)

-----------------------------------------------------------------------------
Init ==
  /\ pc = "idle" /\ fuser \in Fusers /\ model \in Models
  /\ instr_list = <<>> /\ kernel_list = <<>> /\ dags = <<>> /\ vs = {}
  /\ cache = <<>> /\ files = {} /\ computed = <<>>
  /\ ninstrs = 0 /\ nsessions = 1

InstrIndexesList(kernels) == [i \in DOMAIN kernels |-> kernels[i].instr_indexes]

\* FuseCache::insert; the kernel list goes to the child.
Finish(kernels) ==
  /\ kernel_list' = kernels /\ computed' = instr_list /\ pc' = "idle"
  /\ cache' = (hash :> [list |-> InstrIndexesList(kernels), batch |-> instr_list]) @@ cache

\* A batch arrives: FuseCache::lookup, and the fuser if there is no kernel list.
execute(batch) ==
  /\ pc = "idle" /\ ninstrs + Len(batch) <= MaxInstrs
  /\ instr_list' = batch /\ ninstrs' = ninstrs + Len(batch)
  /\ LET h == BatchHash(model, batch)
     IN  IF ~Deactivated /\ h \in DOMAIN cache
         THEN /\ pc' = "idle" /\ computed' = cache[h].batch
              /\ kernel_list' = [i \in DOMAIN cache[h].list |-> NewKernel(batch, cache[h].list[i])]
         ELSE /\ pc' = "fuse" /\ computed' = <<>> /\ kernel_list' = <<>>
  /\ UNCHANGED <<fuser, model, dags, vs, cache, files, nsessions>>

singleton ==
  /\ pc = "fuse" /\ fuser = "singleton"
  /\ Finish([i \in DOMAIN instr_list |-> NewKernel(instr_list, <<i>>)])
  /\ UNCHANGED <<fuser, model, instr_list, dags, vs, files, ninstrs, nsessions>>

topological ==
  /\ pc = "fuse" /\ fuser = "topological"
  /\ Finish(do_fusion(model, instr_list))
  /\ UNCHANGED <<fuser, model, instr_list, dags, vs, files, ninstrs, nsessions>>

\* The gentle and the greedy fuser build the graph and split it.
build ==
  /\ pc = "fuse" /\ fuser \in {"gentle", "greedy"}
  /\ dags' \in split(from_bhir(model, instr_list))
  /\ vs' = DOMAIN Head(dags').kernel
  /\ pc' = "gently"
  /\ UNCHANGED <<fuser, model, instr_list, kernel_list, cache, files, computed, ninstrs, nsessions>>

fuse_gently ==
  /\ pc = "gently"
  /\ LET ending == SingleEnding(Head(dags), vs)
         first == {p \in ending : \A q \in ending : p[1] <= q[1]}
     IN  IF ending # {}
         THEN \E p \in first :
                /\ vs' = vs \ {p[1]}
                /\ dags' = [dags EXCEPT ![1] = Gently(model, instr_list, @, p)]
                /\ pc' = pc
         ELSE /\ pc' = IF fuser = "greedy" THEN "greedily" ELSE "fill"
              /\ UNCHANGED <<dags, vs>>
  /\ UNCHANGED <<fuser, model, instr_list, kernel_list, cache, files, computed, ninstrs, nsessions>>

fuse_greedy ==
  /\ pc = "greedily"
  /\ IF DOMAIN Head(dags).W # {}
     THEN /\ \E g \in Greedily(model, instr_list, Head(dags)) : dags' = [dags EXCEPT ![1] = g]
          /\ pc' = pc
     ELSE pc' = "fill" /\ UNCHANGED dags
  /\ UNCHANGED <<fuser, model, instr_list, kernel_list, vs, cache, files, computed, ninstrs, nsessions>>

\* The kernels of a graph that is done join the list.  The code fills the list when all graphs are done;
\* nothing that is done to one graph depends on another.
fill ==
  /\ pc = "fill"
  /\ \E kernels \in fill_kernel_list(instr_list, Head(dags)) :
       IF Len(dags) = 1
       THEN Finish(kernel_list \o kernels) /\ vs' = {}
       ELSE /\ kernel_list' = kernel_list \o kernels /\ pc' = "gently"
            /\ vs' = DOMAIN dags[2].kernel
            /\ UNCHANGED <<cache, computed>>
  /\ dags' = Tail(dags)
  /\ UNCHANGED <<fuser, model, instr_list, files, ninstrs, nsessions>>

\* write_to_files: a file that exists is not written again.
shutdown ==
  /\ pc = "idle" /\ instr_list # <<>> /\ nsessions < MaxSessions
  /\ \E batch \in Batches : ninstrs + Len(batch) <= MaxInstrs  \* the bounds allow for another one
  /\ LET entry(h) == [fuser |-> fuser, model |-> model, hash |-> h, entry |-> cache[h]]
         exists(h) == \E f \in files : f.fuser = fuser /\ f.model = model /\ f.hash = h
     IN  files' = IF Deactivated THEN files
                  ELSE files \union {entry(h) : h \in {g \in DOMAIN cache : ~exists(g)}}
  /\ pc' = "down" /\ cache' = <<>>
  /\ instr_list' = <<>> /\ kernel_list' = <<>> /\ computed' = <<>>
  /\ UNCHANGED <<fuser, model, dags, vs, ninstrs, nsessions>>

\* Mutant: files of other fuse models are loaded, too.
LoadAll(f, m) == {e \in files : e.fuser = f}

\* The files that load_from_files takes.
Loaded(f, m) == {e \in files : e.fuser = f /\ e.model = m}

init(f, m) ==
  /\ pc = "down"
  /\ pc' = "idle" /\ fuser' = f /\ model' = m /\ nsessions' = nsessions + 1
  /\ cache' = IF Deactivated THEN <<>>
              ELSE [h \in {e.hash : e \in Loaded(f, m)} |->
                      (CHOOSE e \in Loaded(f, m) : e.hash = h).entry]
  /\ UNCHANGED <<instr_list, kernel_list, dags, vs, files, computed, ninstrs>>

Next ==
  \/ \E batch \in Batches : execute(batch)
  \/ singleton \/ topological \/ build \/ fuse_gently \/ fuse_greedy \/ fill
  \/ shutdown
  \/ \E f \in Fusers, m \in Models : init(f, m)

Spec == Init /\ [][Next]_vars

-----------------------------------------------------------------------------
RightWeight(dag, e, saves) == saves # -1 => e \in DOMAIN dag.W /\ dag.W[e] = saves

Valid(dag) ==
  /\ ~cycles(dag)
  /\ \A u, v \in DOMAIN dag.kernel : u # v =>
       LET deps == Dependencies(instr_list, dag.kernel[u], dag.kernel[v])
       IN  /\ Indexes(dag.kernel[u]) \intersect Indexes(dag.kernel[v]) = {}
           /\ Cardinality(deps) <= 1
           /\ 1 \in deps => path_exist(dag, v, u, FALSE)
  /\ \A e \in dag.D :
       RightWeight(dag, {e[1], e[2]},
                   merge_cost_savings(model, instr_list, dag.kernel[e[1]], dag.kernel[e[2]]))

(***************************************************************************)
(* dag_validate, which the code asserts after each merge: no instruction   *)
(* is in two kernels, there are no cycles, no two kernels depend on each   *)
(* other, a kernel that depends on another is reached from it, and a       *)
(* dependency edge between fusible kernels has the right weight.           *)
(***************************************************************************)
DagIsValid == \A i \in DOMAIN dags : Valid(dags[i])

\* The batch has been turned into kernels.
Done == pc = "idle" /\ instr_list # <<>>

\* The instructions in the order in which the kernels run them.
Order == FlattenSeq(InstrIndexesList(kernel_list))

(***************************************************************************)
(* Every instruction but BH_NONE is in the kernel list, once.              *)
(***************************************************************************)
NothingLost ==
  Done => /\ \A i, j \in DOMAIN Order : Order[i] = Order[j] => i = j
          /\ \A i \in DOMAIN instr_list : instr_list[i].opcode # "NONE" => i \in ToSet(Order)

(***************************************************************************)
(* Two instructions of which one writes what the other uses run in the     *)
(* order of the batch ("The list of kernels in topological order").        *)
(***************************************************************************)
OrderIsKept ==
  Done /\ computed = instr_list =>
    \A i, j \in DOMAIN Order :
      Order[j] < Order[i] /\ Conflict(instr_list[Order[i]], instr_list[Order[j]]) => j < i

\* Where a and b use the same element, and one of them writes it, a does not come in a later iteration.
SameResult(a, b) ==
  \A v \in ToSet(a.operand), w \in ToSet(b.operand) :
    v.base = w.base /\ (v = a.operand[1] \/ w = b.operand[1]) =>
      \A p \in DOMAIN Pattern(v), q \in DOMAIN Pattern(w) :
        Pattern(v)[p] = Pattern(w)[q] => p <= q

(***************************************************************************)
(* A kernel is a loop that runs one iteration of each of its instructions  *)
(* in turn.  An element-wise instruction that is run before another in the *)
(* batch is before it in every iteration that the two share an element.    *)
(***************************************************************************)
FusedLoopsAgree ==
  Done /\ computed = instr_list =>
    \A k \in ToSet(kernel_list) : \A i, j \in Indexes(k) :
      /\ i < j /\ instr_list[i].opcode = "ELEMENTWISE" /\ instr_list[j].opcode = "ELEMENTWISE"
      => SameResult(instr_list[i], instr_list[j])

(***************************************************************************)
(* "A kernel is a list of instructions that are fusible."  System          *)
(* instructions, which join the kernels of their arrays, do no work.       *)
(***************************************************************************)
KernelsAreFusible ==
  Done => \A k \in ToSet(kernel_list) : \A i, j \in Indexes(k) :
            i < j => \/ System(instr_list[i], instr_list[j])
                     \/ check_fusible(model, instr_list[i], instr_list[j])
                     \/ check_fusible(model, instr_list[j], instr_list[i])

\* The same where the kernel list was computed for this batch, in this session or, with the same fuse model,
\* in an earlier one.
OwnKernelsAreFusible == computed = instr_list => KernelsAreFusible

\* The views of the batch.
Views == UNION {ToSet(instr_list[i].operand) : i \in DOMAIN instr_list}

(***************************************************************************)
(* Views that are found to be disjoint share no element.                   *)
(***************************************************************************)
DisjointIsSound ==
  pc = "fuse" => \A v, w \in Views : bh_view_disjoint(v, w) => ~Overlap(v, w)

(***************************************************************************)
(* A simplified view has the same elements in the same order.              *)
(***************************************************************************)
SimplifySamePattern ==
  pc = "fuse" => \A v \in Views : Pattern(bh_view_simplify(v)) = Pattern(v)

(***************************************************************************)
(* What the fusers find out about the views of a batch is true of the      *)
(* elements of these views.                                                *)
(***************************************************************************)
ViewsAreSound == DisjointIsSound /\ SimplifySamePattern

(***************************************************************************)
(* A round of fuse_greedy merges two vertices or removes a weight edge, so *)
(* that the loop ends.                                                     *)
(***************************************************************************)
GreedyAdvances ==
  [][pc = "greedily" /\ pc' = "greedily" =>
       LET old == Head(dags)
           new == Head(dags')
       IN  \/ Cardinality(DOMAIN new.kernel) < Cardinality(DOMAIN old.kernel)
           \/ /\ new.kernel = old.kernel
              /\ Cardinality(DOMAIN new.W) < Cardinality(DOMAIN old.W)]_vars
=============================================================================
