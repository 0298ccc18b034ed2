-------------------------------- MODULE Dag ---------------------------------
(***************************************************************************)
(* The graph of kernels (core/bh_dag.cpp).  A dag has a kernel for each of *)
(* its vertices, the set D of its dependency edges <<from, to>>, and the   *)
(* weight W of each of its undirected weight edges {u, v}: what merging    *)
(* the two kernels would save.                                             *)
(***************************************************************************)
EXTENDS Kernel

Drop(f, S) == [x \in DOMAIN f \ S |-> f[x]]

\* Breadth first search: the vertices that can be reached from a.
Reached(dag, a) ==
  LET next(S) == S \union {e[2] : e \in {d \in dag.D : d[1] \in S}}
      within[n \in Nat] == IF n = 0 THEN {a} ELSE next(within[n - 1])
  IN  within[Cardinality(DOMAIN dag.kernel)]

path_exist(dag, a, b, only_long_path) ==
  \E u \in Reached(dag, a) : <<u, b>> \in dag.D /\ (only_long_path => u # a)

cycles(dag) == \E v \in DOMAIN dag.kernel : path_exist(dag, v, v, FALSE)

KernelBases(instr_list, k) == UNION {Bases(instr_list[i]) : i \in Indexes(k)}

EmptyDag == [kernel |-> <<>>, D |-> {}, W |-> <<>>]

\* The edges for a dependency dep and savings between v and the new vertex d.
AddEdges(dag, v, d, dep, saves) ==
  [dag EXCEPT !.D = IF dep # 0 THEN @ \union {<<v, d>>} ELSE @,
              !.W = IF saves > 0 \/ (saves = 0 /\ dep # 0)
                    THEN ({v, d} :> saves) @@ @ ELSE @]

\* The edges between the new vertex d and a vertex v that uses the same base.
Connect(model, instr_list, dag, v, d) ==
  IF path_exist(dag, v, d, FALSE) THEN dag
  ELSE AddEdges(dag, v, d, dependency(instr_list, dag.kernel[d], dag.kernel[v]),
                merge_cost_savings(model, instr_list, dag.kernel[d], dag.kernel[v]))

\* std::set orders the bases by their address, here a number.
add_vertex(model, instr_list, dag, k) ==
  LET d == Len(dag.kernel) + 1
      bases == SetToSortSeq(KernelBases(instr_list, k), <)
      users(b) == SelectSeq([v \in 1 .. d - 1 |-> v],
                            LAMBDA v : b \in KernelBases(instr_list, dag.kernel[v]))
  IN  FoldLeft(LAMBDA g, v : Connect(model, instr_list, g, v, d),
               [dag EXCEPT !.kernel = Append(@, k)],
               FlattenSeq([i \in DOMAIN bases |-> users(bases[i])]))

\* One kernel per instruction and the system instructions that follow it on
\* an array of the kernel.
Initial(instr_list) ==
  LET Joins(ks, i) ==
        /\ ks # <<>> /\ bh_opcode_is_system(instr_list[i].opcode)
        /\ Len(operands(instr_list[i])) = 1
        /\ Bases(instr_list[i]) \subseteq KernelBases(instr_list, Last(ks))
      Add(ks, i) == IF Joins(ks, i)
                    THEN [ks EXCEPT ![Len(ks)] = add_instr(instr_list, @, i)]
                    ELSE Append(ks, NewKernel(instr_list, <<i>>))
  IN  FoldLeft(Add, <<>>, [i \in DOMAIN instr_list |-> i])

from_bhir(model, instr_list) ==
  FoldLeft(LAMBDA g, k : add_vertex(model, instr_list, g, k), EmptyDag, Initial(instr_list))

-----------------------------------------------------------------------------
\* b joins a, which gets the kernel k, the edges of b, and a weight edge for
\* each of its dependency edges.
Join(dag, a, b, k) ==
  LET To(v) == IF v = b THEN a ELSE v
      near == {{e[1], e[2]} : e \in {d \in dag.D : b \in {d[1], d[2]}}}
      weighed == {{To(v) : v \in e} : e \in DOMAIN dag.W \union near}
  IN  [kernel |-> [Drop(dag.kernel, {b}) EXCEPT ![a] = k],
       D |-> {<<To(e[1]), To(e[2])>> : e \in dag.D} \ {<<a, a>>},
       W |-> [e \in weighed \ {{a}} |-> IF e \in DOMAIN dag.W THEN dag.W[e] ELSE 0]]

\* The weights of the edges of a are computed again; -1 removes an edge.
Reweigh(model, instr_list, dag, a) ==
  LET Other(e) == CHOOSE v \in e : v # a
      saves == [e \in {f \in DOMAIN dag.W : a \in f} |->
                  merge_cost_savings(model, instr_list, dag.kernel[a], dag.kernel[Other(e)])]
      Fusible(W) == Drop(W, {e \in DOMAIN W : W[e] < 0})
  IN  [dag EXCEPT !.W = Fusible(saves @@ @)]

merge_vertices(model, instr_list, dag, a, b, a_before_b) ==
  LET k == IF a_before_b
           THEN Extended(instr_list, dag.kernel[a], dag.kernel[b].instr_indexes)
           ELSE Extended(instr_list, dag.kernel[b], dag.kernel[a].instr_indexes)
  IN  Reweigh(model, instr_list, Join(dag, a, b, k), a)

\* Mutant: the weight edge stays.
RemoveDependency(dag, u, v) == [dag EXCEPT !.D = @ \ {<<u, v>>, <<v, u>>}]

remove_edges(dag, u, v) ==
  [dag EXCEPT !.D = @ \ {<<u, v>>, <<v, u>>}, !.W = Drop(@, {{u, v}})]

\* The subgraph of a set of vertices.
add_from_subgraph(vs, dag) ==
  [kernel |-> [v \in vs |-> dag.kernel[v]],
   D |-> {e \in dag.D : e[1] \in vs /\ e[2] \in vs},
   W |-> [e \in {w \in DOMAIN dag.W : w \subseteq vs} |-> dag.W[e]]]

\* The orders of a set of vertices in which every edge goes forward.
TopologicalOrders(vs, D) ==
  {s \in SetToSeqs(vs) : \A i, j \in DOMAIN s : <<s[i], s[j]>> \in D => i < j}

\* The weight components, where those that depend on each other are one.
Components(dag) ==
  LET both == [dag EXCEPT !.D = @ \union UNION {e \X e : e \in DOMAIN dag.W}]
      Class(v) == {u \in Reached(both, v) : v \in Reached(both, u)}
  IN  {Class(v) : v \in DOMAIN dag.kernel}

\* The results of split: boost's topological_sort may take any order.
split(dag) ==
  LET comps == Components(dag)
      before == {p \in comps \X comps :
                   p[1] # p[2] /\ \E u \in p[1], v \in p[2] : <<u, v>> \in dag.D}
  IN  {[i \in DOMAIN order |-> add_from_subgraph(order[i], dag)] :
         order \in TopologicalOrders(comps, before)}

\* Mutant: topological_sort gives the reverse of the order.
FillBackwards(instr_list, dag) ==
  {SelectSeq([i \in DOMAIN s |-> dag.kernel[s[i]]], LAMBDA k : ~is_noop(instr_list, k)) :
     s \in {Reverse(o) : o \in TopologicalOrders(DOMAIN dag.kernel, dag.D)}}

\* The results of fill_kernel_list.
fill_kernel_list(instr_list, dag) ==
  {SelectSeq([i \in DOMAIN s |-> dag.kernel[s[i]]], LAMBDA k : ~is_noop(instr_list, k)) :
     s \in TopologicalOrders(DOMAIN dag.kernel, dag.D)}

-----------------------------------------------------------------------------
\* The vertices of vs that hang on one edge, and that edge's other end.
SingleEnding(dag, vs) ==
  {p \in vs \X (DOMAIN dag.kernel) :
     /\ Cardinality({e \in dag.D : p[1] \in {e[1], e[2]}}) = 1
     /\ <<p[1], p[2]>> \in dag.D \/ <<p[2], p[1]>> \in dag.D
     /\ input_and_output_subset_of(dag.kernel[p[1]], dag.kernel[p[2]])}

\* One round of fuse_gently, for a single ending vertex and its edge.
Gently(model, instr_list, dag, p) ==
  IF fusible(model, instr_list, dag.kernel[p[1]], dag.kernel[p[2]])
  THEN merge_vertices(model, instr_list, dag, p[2], p[1], <<p[2], p[1]>> \in dag.D)
  ELSE dag

\* Mutant: an edge is merged although there is another path.
GreedilyBlind(model, instr_list, dag) ==
  {LET first == IF dependency(instr_list, dag.kernel[p[1]], dag.kernel[p[2]]) = 1
                THEN p[2] ELSE p[1]
   IN  merge_vertices(model, instr_list, dag, first, IF first = p[1] THEN p[2] ELSE p[1], TRUE) :
     p \in {q \in (DOMAIN dag.kernel) \X (DOMAIN dag.kernel) :
              /\ q[1] # q[2] /\ {q[1], q[2]} \in DOMAIN dag.W
              /\ \A e \in DOMAIN dag.W : dag.W[e] <= dag.W[{q[1], q[2]}]}}

\* One round of fuse_greedy: the results for an edge of the greatest weight,
\* whose ends may come in either order.
Greedily(model, instr_list, dag) ==
  LET greatest == {p \in (DOMAIN dag.kernel) \X (DOMAIN dag.kernel) :
                     /\ p[1] # p[2] /\ {p[1], p[2]} \in DOMAIN dag.W
                     /\ \A e \in DOMAIN dag.W : dag.W[e] <= dag.W[{p[1], p[2]}]}
      Round(v1, v2) ==
        IF path_exist(dag, v1, v2, TRUE) \/ path_exist(dag, v2, v1, TRUE)
        THEN remove_edges(dag, v1, v2)
        ELSE IF dependency(instr_list, dag.kernel[v1], dag.kernel[v2]) = 1
        THEN merge_vertices(model, instr_list, dag, v2, v1, TRUE)
        ELSE merge_vertices(model, instr_list, dag, v1, v2, TRUE)
  IN  {Round(p[1], p[2]) : p \in greatest}
=============================================================================
