---------------------------- MODULE OptimalProofs ----------------------------
(***************************************************************************)
(* Proofs about the search of the optimal fuser, for any number of threads *)
(* and of edges: the task queue ends the search when, and only when, there *)
(* is nothing left to do, and the search misses no legal mask that is      *)
(* better than what it has found.                                          *)
(*                                                                         *)
(* QInv is about the queue: nwaiting counts the threads that wait in pop.  *)
(* SInv is about the search: a legal mask that is better than every value  *)
(* best_cost has had is below a task that somebody still has to do.        *)
(***************************************************************************)
EXTENDS Optimal, FiniteSetTheorems, TLAPS

Waits(t) == pc[t] \in {"blocked", "woken"}
Waiters == {t \in team : Waits(t)}

QInv ==
  /\ ~finished => nwaiting = Cardinality(Waiters) /\ \A t \in team : pc[t] # "done"
  /\ ~finished /\ tasks = <<>> => \E t \in team : ~Waits(t)
  /\ ~finished => \E t \in team : pc[t] # "blocked"
  /\ finished => tasks = <<>> /\ \A t \in team : pc[t] \in {"woken", "done"}

\* Mask m is below a task that thread t is working on.
Holds(t, m) ==
  \/ pc[t] \in {"fuse", "check", "save"} /\ m \in Subtree(task[t])
  \/ /\ pc[t] = "push"
     /\ \E i \in Edge : task[t].offset <= i /\ i < next[t] /\ m \in Subtree(Child(task[t], i))

Pending(m) ==
  \/ \E k \in 1 .. Len(tasks) : m \in Subtree(tasks[k])
  \/ \E t \in team : Holds(t, m)

Covered ==
  \A m \in Subtree(problem.first) : problem.legal[m] /\ problem.cost[m] < lowest => Pending(m)

Costs == lowest <= best_cost /\ best_cost <= problem.guess

\* What a thread has found out about its mask, although best_cost may have changed since.
Checked(t) ==
  /\ pc[t] = "check" /\ problem.legal[task[t].mask] /\ CostOf(t) < lowest => fusibility[t]
  /\ pc[t] = "save" => CostOf(t) < problem.guess

\* With one thread, best_cost does not change between the check and the critical section.
Alone == nthreads = 1 => best_cost = lowest /\ \A t \in team : pc[t] = "save" => CostOf(t) < best_cost

SInv == Costs /\ Covered /\ (\A t \in team : Checked(t)) /\ Alone

-----------------------------------------------------------------------------
(***************************************************************************)
(* What the assumptions say of one problem and one task.                   *)
(***************************************************************************)
LEMMA ProblemFacts ==
  ASSUME NEW p \in Problems
  PROVE  /\ p.graph \in Nat /\ p.cost \in [Mask -> Nat] /\ p.legal \in [Mask -> BOOLEAN]
         /\ p.guess \in Nat /\ p.first \in Task
         /\ \A m, n \in Mask : m \subseteq n => p.cost[n] <= p.cost[m]
BY OptimalAssumption

\* Edges are numbered from 0.
LEMMA EdgeFacts == N \in Nat /\ \A i \in Edge : i \in Nat /\ i < N
<1>1. N \in Nat
  BY OptimalAssumption
<1> QED BY <1>1 DEF Edge

\* A task is a mask and an offset within the edges.
LEMMA TaskFacts ==
  ASSUME NEW tk \in Task
  PROVE  tk.mask \in Mask /\ tk.offset \in 0 .. N /\ tk # NoTask
BY OptimalAssumption DEF Task

\* What push puts on the stack is a task: one edge less, and the edges up to it fixed.
LEMMA ChildFacts ==
  ASSUME NEW tk \in Task, NEW i \in Edge
  PROVE  Child(tk, i) \in Task /\ Child(tk, i).mask = tk.mask \ {i} /\ Child(tk, i).offset = i + 1
<1>1. tk.mask \ {i} \in Mask
  BY TaskFacts DEF Mask
<1>2. i + 1 \in 0 .. N
  BY OptimalAssumption DEF Edge
<1> QED BY <1>1, <1>2 DEF Child, Task

(***************************************************************************)
(* The children of a task reach every mask below it but its own: the one   *)
(* that leaves out the first edge in which the two masks differ does.      *)
(***************************************************************************)
LEMMA SubtreeChild ==
  ASSUME NEW tk \in Task, NEW m \in Subtree(tk), m # tk.mask
  PROVE  \E i \in Edge : tk.offset <= i /\ m \in Subtree(Child(tk, i))
<1> DEFINE D == tk.mask \ m
<1>1. m \in Mask /\ m \subseteq tk.mask /\ \A i \in tk.mask \ m : i >= tk.offset
  BY DEF Subtree
<1>2. tk.mask \in Mask /\ tk.offset \in Nat /\ Edge \subseteq Nat
  BY TaskFacts, OptimalAssumption DEF Edge
<1>3. D # {} /\ D \subseteq Edge
  BY <1>1, <1>2 DEF Mask
<1>4. PICK i \in D : \A j \in D : ~(<<j, i>> \in OpToRel(<, Nat))
  <2>1. D \subseteq Nat
    BY <1>2, <1>3
  <2> QED BY <2>1, <1>3, WFMin, NatLessThanWellFounded
<1>5. i \in Edge /\ i \in Nat /\ D \subseteq Nat
  BY <1>2, <1>3, <1>4
<1>6. \A j \in D : i <= j
  <2>1. \A j \in D : ~(j < i)
    BY <1>4, <1>5 DEF OpToRel
  <2> HIDE DEF D
  <2> QED BY <2>1, <1>5
<1>7. tk.offset <= i /\ \A j \in (tk.mask \ {i}) \ m : j >= i + 1
  <2>1. ASSUME NEW j \in (tk.mask \ {i}) \ m
        PROVE  j >= i + 1
    <3>1. j \in D /\ j # i
      OBVIOUS
    <3>2. j \in Nat /\ i <= j
      BY <3>1, <1>5, <1>6
    <3> QED BY <3>1, <3>2, <1>5
  <2>2. tk.offset <= i
    BY <1>1, <1>2, <1>4, <1>5
  <2> QED BY <2>1, <2>2
<1>8. m \in Subtree(Child(tk, i))
  BY <1>1, <1>5, <1>7, ChildFacts DEF Subtree
<1> QED BY <1>5, <1>7, <1>8

\* tasks.back() and pop_back on a stack that is not empty, and push_back.
LEMMA StackFacts ==
  ASSUME NEW s \in Seq(Task)
  PROVE  /\ s # <<>> => /\ s[Len(s)] \in Task
                        /\ SubSeq(s, 1, Len(s) - 1) \in Seq(Task)
                        /\ Len(SubSeq(s, 1, Len(s) - 1)) = Len(s) - 1
                        /\ \A k \in 1 .. Len(s) - 1 : SubSeq(s, 1, Len(s) - 1)[k] = s[k]
         /\ \A tk \in Task : /\ Append(s, tk) \in Seq(Task) /\ Append(s, tk) # <<>>
                             /\ Len(Append(s, tk)) = Len(s) + 1
                             /\ \A k \in 1 .. Len(s) : Append(s, tk)[k] = s[k]
                             /\ Append(s, tk)[Len(s) + 1] = tk
<1>1. ASSUME s # <<>>
      PROVE  /\ s[Len(s)] \in Task
             /\ SubSeq(s, 1, Len(s) - 1) \in Seq(Task)
             /\ Len(SubSeq(s, 1, Len(s) - 1)) = Len(s) - 1
             /\ \A k \in 1 .. Len(s) - 1 : SubSeq(s, 1, Len(s) - 1)[k] = s[k]
  <2>1. Len(s) \in Nat /\ Len(s) >= 1 /\ \A k \in 1 .. Len(s) : s[k] \in Task
    BY <1>1
  <2> DEFINE n == Len(s) - 1
  <2>2. n \in Nat /\ \A k \in 1 .. n : s[k] \in Task
    BY <2>1
  <2> HIDE DEF n
  <2>3. /\ SubSeq(s, 1, n) \in Seq(Task)
        /\ Len(SubSeq(s, 1, n)) = n
        /\ \A k \in 1 .. n : SubSeq(s, 1, n)[k] = s[k]
    BY <2>2
  <2> QED BY <2>1, <2>3 DEF n
<1>2. ASSUME NEW tk \in Task
      PROVE  /\ Append(s, tk) \in Seq(Task) /\ Append(s, tk) # <<>>
             /\ Len(Append(s, tk)) = Len(s) + 1
             /\ \A k \in 1 .. Len(s) : Append(s, tk)[k] = s[k]
             /\ Append(s, tk)[Len(s) + 1] = tk
  OBVIOUS
<1> QED BY <1>1, <1>2

-----------------------------------------------------------------------------
(***************************************************************************)
(* The type invariant.                                                     *)
(***************************************************************************)
LEMMA InitType == Init => TypeOK
<1> SUFFICES ASSUME Init PROVE TypeOK
  OBVIOUS
<1>1. problem.guess \in Nat /\ problem.first \in Task
  BY ProblemFacts DEF Init
<1>2. tasks \in Seq(Task) /\ nwaiting \in Nat /\ best_cost \in Nat /\ lowest \in Nat /\ next \in [team -> 0 .. N]
  BY <1>1, OptimalAssumption DEF Init
<1>3. pc \in [team -> States] /\ task \in [team -> Task \union {NoTask}] /\ fusibility \in [team -> BOOLEAN]
  BY DEF Init, States
<1>4. \A t \in team : pc[t] = "pop"
  BY DEF Init
<1> QED BY <1>2, <1>3, <1>4 DEF Init, TypeOK

\* pop, wake and spurious, the steps of TaskQueue::pop, keep the type invariant.
LEMMA WaitingType ==
  ASSUME TypeOK, NEW t \in team, pop(t) \/ wake(t), nwaiting' \in Nat
  PROVE  TypeOK'
<1> USE DEF States
<1>1. CASE Take(t) /\ tasks # <<>>
  <2>1. tasks' \in Seq(Task) /\ task' \in [team -> Task \union {NoTask}] /\ task'[t] # NoTask
    BY <1>1, StackFacts, TaskFacts DEF TypeOK, Take
  <2>2. pc' \in [team -> States] /\ \A u \in team : u # t => pc'[u] = pc[u] /\ task'[u] = task[u]
    BY <1>1 DEF TypeOK, Take
  <2> QED BY <1>1, <2>1, <2>2 DEF TypeOK, pop, wake, best, Take
<1>2. CASE Leave(t) \/ Block(t) \/ Finish(t)
  <2>1. pc' \in [team -> States]
    BY <1>2 DEF TypeOK, Leave, Block, Finish
  <2>2. \A u \in team : pc'[u] \in {"fuse", "check", "save", "push"} => pc[u] = pc'[u]
    BY <1>2 DEF TypeOK, Leave, Block, Finish
  <2> QED BY <1>2, <2>1, <2>2 DEF TypeOK, pop, wake, best, Leave, Block, Finish
<1> QED BY <1>1, <1>2 DEF pop, wake

\* The steps of branch_n_bound on a task keep the type invariant.
LEMMA WorkingType ==
  ASSUME TypeOK, NEW t \in team, spurious(t) \/ fuse_mask(t) \/ check(t) \/ save(t) \/ push(t) \/ leaf(t)
  PROVE  TypeOK'
<1> USE DEF States
<1>1. problem \in Problems /\ problem.cost \in [Mask -> Nat] /\ problem.legal \in [Mask -> BOOLEAN] /\ problem.graph \in Nat
  BY ProblemFacts DEF TypeOK
<1>2. CASE spurious(t)
  BY <1>2 DEF TypeOK, spurious, queue, best, local
<1>3. CASE fuse_mask(t)
  <2>1. fusibility' \in [team -> BOOLEAN]
    BY <1>3 DEF TypeOK, fuse_mask
  <2> QED BY <1>3, <2>1 DEF TypeOK, fuse_mask, queue, best
<1>4. CASE check(t)
  <2>1. next' \in [team -> 0 .. N]
    BY <1>4, OptimalAssumption DEF TypeOK, check
  <2>2. pc' \in [team -> States] /\ \A u \in team : Working(u)' => Working(u)
    BY <1>4 DEF TypeOK, check, Working
  <2> QED BY <1>4, <2>1, <2>2 DEF TypeOK, check, queue, best, Working
<1>5. CASE save(t)
  <2>1. task[t] \in Task
    BY <1>5 DEF TypeOK, save
  <2>2. task[t].mask \in Mask /\ CostOf(t) \in Nat
    BY <1>1, <2>1, TaskFacts DEF CostOf
  <2>3. pc' \in [team -> States] /\ \A u \in team : Working(u)' => Working(u)
    BY <1>5 DEF TypeOK, save, Working
  <2>4. best_cost' \in Nat /\ lowest' \in Nat /\ best_dag' \in Mask
    BY <1>5, <2>2 DEF TypeOK, save
  <2>5. cached' \subseteq Nat \X Mask /\ file' \subseteq Nat \X Mask
    BY <1>1, <1>5, <2>2 DEF TypeOK, save
  <2> QED BY <1>5, <2>3, <2>4, <2>5 DEF TypeOK, save, queue, local, Working
<1>6. CASE push(t)
  <2>1. task[t] \in Task
    BY <1>6 DEF TypeOK, push
  <2>2. next[t] - 1 \in Edge /\ next[t] - 1 \in 0 .. N
    BY <1>6, <2>1, TaskFacts, OptimalAssumption DEF TypeOK, push, Edge
  <2>3. tasks' \in Seq(Task)
    BY <1>6, <2>1, <2>2, ChildFacts, StackFacts DEF TypeOK, push
  <2>4. next' \in [team -> 0 .. N]
    BY <1>6, <2>2 DEF TypeOK, push
  <2>5. pc' \in [team -> States] /\ \A u \in team : Working(u)' => Working(u)
    BY <1>6 DEF TypeOK, push, Working
  <2> QED BY <1>6, <2>3, <2>4, <2>5 DEF TypeOK, push, best, Working
<1>7. CASE leaf(t)
  BY <1>7 DEF TypeOK, leaf, queue, best, local
<1> QED BY <1>2, <1>3, <1>4, <1>5, <1>6, <1>7

-----------------------------------------------------------------------------
(***************************************************************************)
(* The task queue.                                                         *)
(***************************************************************************)
LEMMA TeamFacts ==
  ASSUME TypeOK
  PROVE  /\ IsFiniteSet(team) /\ nthreads \in Nat /\ nthreads >= 1
         /\ \A S \in SUBSET team : /\ IsFiniteSet(S) /\ Cardinality(S) \in Nat /\ Cardinality(S) <= nthreads
                                   /\ Cardinality(S) = nthreads => S = team
<1>1. IsFiniteSet(team)
  BY OptimalAssumption, FS_Subset DEF TypeOK
<1>2. nthreads \in Nat /\ nthreads # 0
  BY <1>1, FS_CardinalityType, FS_EmptySet DEF TypeOK, nthreads
<1>3. \A S \in SUBSET team : /\ IsFiniteSet(S) /\ Cardinality(S) <= nthreads
                             /\ Cardinality(S) = nthreads => S = team
  BY <1>1, FS_Subset DEF nthreads
<1>4. \A S \in SUBSET team : Cardinality(S) \in Nat
  BY <1>3, FS_CardinalityType
<1> QED BY <1>1, <1>2, <1>3, <1>4

\* A thread that starts or stops waiting changes the number of waiting threads by one.
LEMMA WaitersFacts ==
  ASSUME TypeOK, NEW t \in team
  PROVE  /\ Waiters \subseteq team
         /\ ~Waits(t) => Cardinality(Waiters \union {t}) = Cardinality(Waiters) + 1
         /\ Waits(t) => Cardinality(Waiters \ {t}) = Cardinality(Waiters) - 1 /\ Cardinality(Waiters) >= 1
<1>1. Waiters \subseteq team /\ IsFiniteSet(Waiters) /\ Cardinality(Waiters) \in Nat
  BY TeamFacts DEF Waiters
<1>2. ASSUME ~Waits(t)
      PROVE  Cardinality(Waiters \union {t}) = Cardinality(Waiters) + 1
  <2>1. t \notin Waiters
    BY <1>2 DEF Waiters
  <2> QED BY <1>1, <2>1, FS_AddElement
<1>3. ASSUME Waits(t)
      PROVE  Cardinality(Waiters \ {t}) = Cardinality(Waiters) - 1 /\ Cardinality(Waiters) >= 1
  <2>1. t \in Waiters
    BY <1>3 DEF Waiters
  <2>2. Cardinality(Waiters \ {t}) = Cardinality(Waiters) - 1 /\ Cardinality(Waiters) # 0
    BY <1>1, <2>1, FS_RemoveElement, FS_EmptySet
  <2> QED BY <1>1, <2>2
<1> QED BY <1>1, <1>2, <1>3

\* At the start of the parallel region nobody waits.
LEMMA InitQueue == Init => QInv
<1> SUFFICES ASSUME Init PROVE QInv
  OBVIOUS
<1>1. \A t \in team : pc[t] = "pop"
  BY DEF Init
<1>2. Waiters = {}
  BY <1>1 DEF Waiters, Waits
<1> QED BY <1>1, <1>2, FS_EmptySet DEF Init, QInv, Waits

\* TaskQueue::pop up to the wait counts the threads that wait, and the last one tells the others.
LEMMA QueuePop ==
  ASSUME TypeOK, QInv, NEW t \in team, pop(t)
  PROVE  QInv' /\ nwaiting' \in Nat
<1>1. /\ ~finished /\ nwaiting = Cardinality(Waiters) /\ ~Waits(t) /\ pc \in [team -> States]
      /\ nwaiting \in Nat /\ team' = team /\ \A u \in team : pc[u] # "done"
  BY DEF QInv, pop, TypeOK, Waits
<1>2. CASE tasks = <<>> /\ nwaiting + 1 >= nthreads
  <2>1. Finish(t)
    BY <1>2 DEF pop
  <2>2. Waiters \union {t} = team
    <3>1. Cardinality(Waiters \union {t}) = nwaiting + 1 /\ Waiters \union {t} \in SUBSET team
      BY <1>1, WaitersFacts
    <3>2. Cardinality(Waiters \union {t}) = nthreads
      BY <1>1, <1>2, <3>1, TeamFacts
    <3> QED BY <3>1, <3>2, TeamFacts
  <2>3. \A u \in team : pc'[u] \in {"woken", "done"}
    BY <2>1, <2>2 DEF Finish, Waiters, Waits
  <2> QED BY <1>1, <1>2, <2>1, <2>3 DEF Finish, QInv, pop
<1>3. CASE tasks = <<>> /\ ~(nwaiting + 1 >= nthreads)
  <2>1. Block(t) /\ nwaiting' = nwaiting + 1
    BY <1>1, <1>3 DEF pop
  <2>2. Waiters' = Waiters \union {t}
    BY <1>1, <2>1 DEF Block, Waiters, Waits
  <2>3. nwaiting' = Cardinality(Waiters') /\ nwaiting' < nthreads
    <3>1. nthreads \in Nat
      BY TeamFacts
    <3>2. Cardinality(Waiters \union {t}) = nwaiting + 1
      BY <1>1, WaitersFacts
    <3>3. nwaiting + 1 < nthreads
      BY <1>1, <1>3, <3>1
    <3> QED BY <2>1, <2>2, <3>2, <3>3
  <2>4. Waiters' # team
    BY <1>1, <2>3, TeamFacts DEF nthreads
  <2>5. \E u \in team : ~Waits(u)'
    BY <1>1, <2>4 DEF Waiters
  <2>6. \E u \in team : pc'[u] # "blocked"
    BY <2>5 DEF Waits
  <2>7. \A u \in team : pc'[u] # "done"
    BY <1>1, <2>1 DEF Block
  <2> QED BY <1>1, <2>1, <2>3, <2>5, <2>6, <2>7 DEF Block, QInv
<1>4. CASE tasks # <<>>
  <2>1. Take(t) /\ nwaiting' = nwaiting
    BY <1>1, <1>4 DEF pop
  <2>2. pc'[t] = "fuse" /\ \A u \in team : u # t => pc'[u] = pc[u]
    BY <1>1, <2>1 DEF Take
  <2>3. Waiters' = Waiters /\ ~Waits(t)'
    BY <1>1, <2>2 DEF Waiters, Waits
  <2> QED BY <1>1, <2>1, <2>2, <2>3 DEF Take, QInv
<1> QED BY <1>2, <1>3, <1>4

\* TaskQueue::pop after the wait: a thread that leaves with a task is not counted any more.
LEMMA QueueWake ==
  ASSUME TypeOK, QInv, NEW t \in team, wake(t)
  PROVE  QInv' /\ nwaiting' \in Nat
<1>1. pc[t] = "woken" /\ Waits(t) /\ pc \in [team -> States] /\ nwaiting \in Nat /\ team' = team
  BY DEF wake, TypeOK, Waits
<1>2. CASE finished
  <2>1. Leave(t) /\ nwaiting' = nwaiting
    BY <1>2 DEF wake
  <2>2. \A u \in team : pc'[u] \in {"woken", "done"}
    BY <1>1, <1>2, <2>1 DEF Leave, QInv
  <2> QED BY <1>1, <1>2, <2>1, <2>2 DEF Leave, QInv
<1>3. CASE ~finished /\ tasks = <<>>
  <2>1. Block(t) /\ nwaiting' = nwaiting
    BY <1>3 DEF wake
  <2>2. \A u \in team : (Waits(u)' <=> Waits(u)) /\ pc'[u] # "done"
    BY <1>1, <1>3, <2>1 DEF Block, Waits, QInv
  <2>3. Waiters' = Waiters
    BY <1>1, <2>2 DEF Waiters
  <2>4. \E u \in team : ~Waits(u)'
    BY <1>3, <2>2 DEF QInv
  <2>5. \E u \in team : pc'[u] # "blocked"
    BY <2>4 DEF Waits
  <2> QED BY <1>1, <1>3, <2>1, <2>2, <2>3, <2>4, <2>5 DEF Block, QInv
<1>4. CASE ~finished /\ tasks # <<>>
  <2>1. Take(t) /\ nwaiting' = nwaiting - 1
    BY <1>4 DEF wake
  <2>2. pc'[t] = "fuse" /\ \A u \in team : u # t => pc'[u] = pc[u]
    BY <1>1, <2>1 DEF Take
  <2>3. Waiters' = Waiters \ {t} /\ ~Waits(t)'
    BY <1>1, <2>2 DEF Waiters, Waits
  <2>4. nwaiting = Cardinality(Waiters)
    BY <1>4 DEF QInv
  <2>5. Cardinality(Waiters \ {t}) = nwaiting - 1 /\ nwaiting >= 1
    BY <1>1, <2>4, WaitersFacts
  <2>6. nwaiting' = Cardinality(Waiters') /\ nwaiting' \in Nat
    BY <1>1, <2>1, <2>3, <2>5
  <2> QED BY <1>1, <1>4, <2>1, <2>2, <2>3, <2>6 DEF Take, QInv
<1> QED BY <1>2, <1>3, <1>4

\* A step that changes neither the queue, except for a push, nor which threads wait.
LEMMA QueueWorks ==
  ASSUME TypeOK, QInv, NEW t \in team, spurious(t) \/ fuse_mask(t) \/ check(t) \/ save(t) \/ push(t) \/ leaf(t)
  PROVE  QInv' /\ nwaiting' \in Nat
<1>1. /\ ~finished /\ pc \in [team -> States] /\ team' = team /\ finished' = finished
      /\ nwaiting' = nwaiting /\ nwaiting \in Nat /\ nwaiting = Cardinality(Waiters)
  BY DEF QInv, TypeOK, spurious, fuse_mask, check, save, push, leaf, queue
<1>2. /\ pc' \in [team -> States] /\ pc'[t] \notin {"blocked", "done"}
      /\ \A u \in team : u # t => pc'[u] = pc[u] \/ (pc[u] = "blocked" /\ pc'[u] = "woken")
      /\ (Waits(t)' <=> Waits(t))
  BY <1>1 DEF TypeOK, spurious, fuse_mask, check, save, push, leaf, Waits, States
<1>3. \A u \in team : (Waits(u)' <=> Waits(u)) /\ pc'[u] # "done"
  BY <1>1, <1>2 DEF Waits, QInv
<1>4. Waiters' = Waiters
  BY <1>1, <1>3 DEF Waiters
<1>5. tasks' = <<>> => tasks = <<>>
  <2>1. CASE push(t)
    <3>1. task[t] \in Task /\ next[t] \in 0 .. N /\ next[t] > task[t].offset /\ task[t].offset \in 0 .. N
      BY <2>1, TaskFacts DEF TypeOK, push
    <3>a. next[t] - 1 \in Edge
      BY <3>1, OptimalAssumption DEF Edge
    <3>2. tasks' # <<>>
      BY <2>1, <3>1, <3>a, ChildFacts, StackFacts DEF TypeOK, push
    <3> QED BY <3>2
  <2> QED BY <2>1 DEF spurious, fuse_mask, check, save, leaf, queue
<1> QED BY <1>1, <1>2, <1>3, <1>4, <1>5 DEF QInv

\* Every step keeps both invariants.
LEMMA TypeAndQueue ==
  ASSUME TypeOK, QInv, [Next]_vars
  PROVE  TypeOK' /\ QInv'
<1>1. CASE UNCHANGED vars
  BY <1>1 DEF TypeOK, QInv, vars, queue, best, local, Waiters, Waits
<1>2. ASSUME NEW t \in team, pop(t) \/ wake(t)
      PROVE  TypeOK' /\ QInv'
  BY <1>2, QueuePop, QueueWake, WaitingType
<1>3. ASSUME NEW t \in team, spurious(t) \/ fuse_mask(t) \/ check(t) \/ save(t) \/ push(t) \/ leaf(t)
      PROVE  TypeOK' /\ QInv'
  BY <1>3, QueueWorks, WorkingType
<1> QED BY <1>1, <1>2, <1>3 DEF Next, step

(***************************************************************************)
(* TaskQueue ends the search when there is no task left and no thread that *)
(* may push one, and never leaves a thread waiting that nobody will wake.  *)
(***************************************************************************)
THEOREM QueueIsRight == Spec => [](TypeOK /\ FinishedIsRight /\ NeverStuck)
<1>1. Init => TypeOK /\ QInv
  BY InitType, InitQueue
<1>2. TypeOK /\ QInv /\ [Next]_vars => TypeOK' /\ QInv'
  BY TypeAndQueue
<1>3. TypeOK /\ QInv => FinishedIsRight /\ NeverStuck
  <2> SUFFICES ASSUME TypeOK, QInv
               PROVE  FinishedIsRight /\ NeverStuck
    OBVIOUS
  <2>1. FinishedIsRight
    BY DEF FinishedIsRight, QInv, Working
  <2>2. NeverStuck
    BY DEF NeverStuck, QInv
  <2> QED BY <2>1, <2>2
<1> QED BY <1>1, <1>2, <1>3, PTL DEF Spec

-----------------------------------------------------------------------------
(***************************************************************************)
(* The search.                                                             *)
(***************************************************************************)
LEMMA SearchFacts ==
  ASSUME TypeOK, NEW t \in team, Working(t)
  PROVE  /\ task[t] \in Task /\ task[t].mask \in Mask /\ task[t].offset \in 0 .. N /\ CostOf(t) \in Nat
         /\ \A m \in Subtree(task[t]) : m \in Mask /\ problem.cost[m] \in Nat /\ CostOf(t) <= problem.cost[m]
<1>1. task[t] \in Task
  BY DEF TypeOK, Working
<1>2. task[t].mask \in Mask /\ task[t].offset \in 0 .. N
  BY <1>1, TaskFacts
<1>3. problem.cost \in [Mask -> Nat] /\ \A m, n \in Mask : m \subseteq n => problem.cost[n] <= problem.cost[m]
  BY ProblemFacts DEF TypeOK
<1> QED BY <1>1, <1>2, <1>3 DEF CostOf, Subtree

\* What the other threads hold, they hold on to.
LEMMA OthersHold ==
  ASSUME NEW u \in team, NEW m, Holds(u, m), Working(u) => pc'[u] = pc[u], task'[u] = task[u], next'[u] = next[u]
  PROVE  Holds(u, m)'
BY DEF Holds, Working

\* A thread that takes a task holds what is below it.
LEMMA TakeKeeps ==
  ASSUME TypeOK, NEW t \in team, ~Working(t), tasks # <<>>, Take(t), next' = next, team' = team, NEW m, Pending(m)
  PROVE  Pending(m)'
<1>1. /\ \A u \in team : u # t => pc'[u] = pc[u] /\ task'[u] = task[u]
      /\ pc'[t] = "fuse" /\ task'[t] = tasks[Len(tasks)]
  BY DEF TypeOK, Take
<1>2. /\ tasks \in Seq(Task) /\ Len(tasks) \in Nat /\ Len(tasks') = Len(tasks) - 1
      /\ \A k \in 1 .. Len(tasks) - 1 : tasks'[k] = tasks[k]
  BY StackFacts DEF TypeOK, Take
<1>3. ASSUME NEW k \in 1 .. Len(tasks), m \in Subtree(tasks[k])
      PROVE  Pending(m)'
  <2>1. CASE k = Len(tasks)
    <3>1. Holds(t, m)'
      BY <1>1, <1>3, <2>1 DEF Holds
    <3> QED BY <3>1 DEF Pending
  <2>2. CASE k # Len(tasks)
    <3>1. k \in 1 .. Len(tasks') /\ tasks'[k] = tasks[k]
      BY <1>2, <2>2
    <3> QED BY <1>3, <3>1 DEF Pending
  <2> QED BY <2>1, <2>2
<1>4. ASSUME NEW u \in team, Holds(u, m)
      PROVE  Pending(m)'
  <2>1. u # t
    BY <1>4 DEF Holds, Working
  <2>2. Holds(u, m)'
    BY <1>1, <1>4, <2>1, OthersHold
  <2> QED BY <2>2 DEF Pending
<1> QED BY <1>3, <1>4 DEF Pending

\* A step of thread t that leaves the stack alone loses at most what t holds.
LEMMA StepKeeps ==
  ASSUME NEW t \in team, team' = team, tasks' = tasks, NEW m, Pending(m),
         \A u \in team : u # t => (Working(u) => pc'[u] = pc[u]) /\ task'[u] = task[u] /\ next'[u] = next[u],
         Holds(t, m) => Holds(t, m)'
  PROVE  Pending(m)'
<1>1. ASSUME NEW u \in team, Holds(u, m)
      PROVE  Holds(u, m)'
  BY <1>1, OthersHold
<1> QED BY <1>1 DEF Pending

\* A step that leaves the best alone, enters neither "check" nor "save", and loses no task keeps SInv.
LEMMA QuietStep ==
  ASSUME TypeOK, SInv, NEW t \in team, UNCHANGED <<problem, team, best, fusibility>>,
         \A u \in team : pc'[u] \in {"check", "save"} => pc'[u] = pc[u] /\ task'[u] = task[u],
         \A m \in Subtree(problem.first) : problem.legal[m] /\ problem.cost[m] < lowest /\ Pending(m) => Pending(m)'
  PROVE  SInv'
<1>1. UNCHANGED <<problem, team, best_cost, lowest, fusibility, nthreads>>
  BY DEF best, nthreads
<1>2. Costs'
  BY <1>1 DEF SInv, Costs
<1>3. Covered'
  BY <1>1 DEF SInv, Covered
<1>4. \A u \in team : Checked(u)'
  BY <1>1 DEF SInv, Checked, CostOf
<1>5. Alone'
  BY <1>1 DEF SInv, Alone, CostOf
<1> QED BY <1>1, <1>2, <1>3, <1>4, <1>5 DEF SInv

\* The steps of TaskQueue::pop lose no task: one that is taken from the stack is the thread's.
LEMMA SearchWaits ==
  ASSUME TypeOK, SInv, NEW t \in team, pop(t) \/ wake(t) \/ spurious(t)
  PROVE  SInv'
<1>1. UNCHANGED <<problem, team, best, fusibility, next>> /\ ~Working(t) /\ pc \in [team -> States]
  BY DEF TypeOK, pop, wake, spurious, local, Working
<1>2. CASE Take(t) /\ tasks # <<>>
  <2>1. \A u \in team : pc'[u] \in {"check", "save"} => pc'[u] = pc[u] /\ task'[u] = task[u]
    BY <1>1, <1>2 DEF TypeOK, Take
  <2>2. \A m : Pending(m) => Pending(m)'
    BY <1>1, <1>2, TakeKeeps
  <2> QED BY <1>1, <2>1, <2>2, QuietStep
<1>3. CASE Leave(t) \/ Block(t) \/ Finish(t) \/ spurious(t)
  <2>1. tasks' = tasks /\ task' = task /\ \A u \in team : Working(u) \/ pc'[u] \in {"check", "save"} => pc'[u] = pc[u]
    BY <1>1, <1>3 DEF TypeOK, Leave, Block, Finish, spurious, queue, local, Working
  <2>2. \A m : ~Holds(t, m)
    BY <1>1 DEF Holds, Working
  <2>3. \A m : Pending(m) => Pending(m)'
    BY <1>1, <2>1, <2>2, StepKeeps
  <2> QED BY <1>1, <2>1, <2>3, QuietStep
<1> QED BY <1>2, <1>3 DEF pop, wake

\* fuse_mask, with a best_cost that may be out of date when the result is used, errs on the safe side.
LEMMA SearchFuse ==
  ASSUME TypeOK, SInv, NEW t \in team, fuse_mask(t)
  PROVE  SInv'
<1>1. /\ UNCHANGED <<problem, team, best_cost, lowest, tasks, task, next, nthreads>>
      /\ pc[t] = "fuse" /\ pc'[t] = "check"
      /\ \A u \in team : u # t => pc'[u] = pc[u] /\ fusibility'[u] = fusibility[u]
  BY DEF TypeOK, fuse_mask, queue, best, nthreads
<1>2. Costs'
  BY <1>1 DEF SInv, Costs
<1>3. Covered'
  <2>1. \A m : Holds(t, m) => Holds(t, m)'
    BY <1>1 DEF Holds
  <2>2. \A m : Pending(m) => Pending(m)'
    BY <1>1, <2>1, StepKeeps
  <2> QED BY <1>1, <2>2 DEF SInv, Covered
<1>4. \A u \in team : Checked(u)'
  <2>1. fusibility'[t] = (CostOf(t) < best_cost /\ problem.legal[task[t].mask])
    BY DEF TypeOK, fuse_mask
  <2>2. CostOf(t) \in Nat /\ lowest \in Nat /\ best_cost \in Nat /\ lowest <= best_cost
    BY <1>1, SearchFacts DEF TypeOK, SInv, Costs, Working
  <2>3. CostOf(t)' = CostOf(t)
    BY <1>1 DEF CostOf
  <2>4. CostOf(t) < lowest => CostOf(t) < best_cost
    BY <2>2
  <2>5. Checked(t)'
    BY <1>1, <2>1, <2>3, <2>4 DEF Checked
  <2>6. \A u \in team : u # t => Checked(u)'
    BY <1>1 DEF SInv, Checked, CostOf
  <2> QED BY <2>5, <2>6
<1>5. Alone'
  BY <1>1 DEF SInv, Alone, CostOf
<1> QED BY <1>1, <1>2, <1>3, <1>4, <1>5 DEF SInv

\* A mask that is pruned has nothing better below it, since merging less costs more.
LEMMA SearchCheck ==
  ASSUME TypeOK, SInv, NEW t \in team, check(t)
  PROVE  SInv'
<1>1. /\ UNCHANGED <<problem, team, best_cost, lowest, tasks, task, fusibility, nthreads>>
      /\ pc[t] = "check" /\ next'[t] = N
      /\ pc'[t] = IF CostOf(t) >= best_cost THEN "pop" ELSE IF fusibility[t] THEN "save" ELSE "push"
      /\ \A u \in team : u # t => pc'[u] = pc[u] /\ next'[u] = next[u]
  BY DEF TypeOK, check, queue, best, nthreads
<1>2. Costs'
  BY <1>1 DEF SInv, Costs
<1>3. /\ task[t] \in Task /\ CostOf(t) \in Nat /\ lowest \in Nat /\ best_cost \in Nat /\ problem.guess \in Nat
      /\ lowest <= best_cost /\ best_cost <= problem.guess
  BY <1>1, SearchFacts, ProblemFacts DEF TypeOK, SInv, Costs, Working
<1>4. ASSUME NEW m \in Subtree(problem.first), problem.legal[m], problem.cost[m] < lowest, Pending(m)
      PROVE  Pending(m)'
  <2>1. ASSUME Holds(t, m)
        PROVE  Holds(t, m)'
    <3>1. m \in Subtree(task[t])
      BY <1>1, <2>1 DEF Holds
    <3>2. CostOf(t) <= problem.cost[m] /\ problem.cost[m] \in Nat
      BY <1>1, <3>1, SearchFacts DEF Working
    <3>3. CostOf(t) < lowest /\ ~(CostOf(t) >= best_cost)
      BY <1>3, <1>4, <3>2
    <3>4. CASE pc'[t] = "save"
      BY <1>1, <3>1, <3>4 DEF Holds
    <3>5. CASE pc'[t] = "push"
      <4>1. ~fusibility[t]
        BY <1>1, <3>3, <3>5
      <4>2. m # task[t].mask
        BY <1>1, <1>4, <3>3, <4>1 DEF SInv, Checked
      <4>3. PICK i \in Edge : task[t].offset <= i /\ m \in Subtree(Child(task[t], i))
        BY <1>3, <3>1, <4>2, SubtreeChild
      <4>4. i < N
        BY EdgeFacts
      <4> QED BY <1>1, <3>5, <4>3, <4>4 DEF Holds
    <3> QED BY <1>1, <3>3, <3>4, <3>5
  <2> QED BY <1>1, <1>4, <2>1, StepKeeps
<1>5. Covered'
  BY <1>1, <1>4 DEF SInv, Covered
<1>6. pc'[t] = "save" => CostOf(t) < best_cost /\ CostOf(t) < problem.guess
  BY <1>1, <1>3
<1>7. \A u \in team : Checked(u)'
  BY <1>1, <1>6 DEF SInv, Checked, CostOf
<1>8. Alone'
  BY <1>1, <1>6 DEF SInv, Alone, CostOf
<1> QED BY <1>1, <1>2, <1>5, <1>7, <1>8 DEF SInv

\* The critical section: what was pending for being cheaper is found, or still cheaper and pending.
LEMMA SearchSave ==
  ASSUME TypeOK, SInv, NEW t \in team, save(t)
  PROVE  SInv'
<1>1. /\ UNCHANGED <<problem, team, tasks, task, next, fusibility, nthreads>>
      /\ pc[t] = "save" /\ pc'[t] = "pop" /\ \A u \in team : u # t => pc'[u] = pc[u]
      /\ best_cost' = CostOf(t) /\ lowest' = IF CostOf(t) < lowest THEN CostOf(t) ELSE lowest
  BY DEF TypeOK, save, queue, local, nthreads
<1>2. CostOf(t) \in Nat /\ lowest \in Nat /\ best_cost \in Nat /\ problem.guess \in Nat
  BY <1>1, SearchFacts, ProblemFacts DEF TypeOK, Working
<1>3. lowest' \in Nat /\ lowest' <= lowest /\ lowest' <= CostOf(t)
  <2>1. lowest' = IF CostOf(t) < lowest THEN CostOf(t) ELSE lowest
    BY <1>1
  <2>2. CASE CostOf(t) < lowest
    BY <2>1, <2>2, <1>2
  <2>3. CASE ~(CostOf(t) < lowest)
    BY <2>1, <2>3, <1>2
  <2> QED BY <2>2, <2>3
<1>4. Costs'
  <2>1. CostOf(t) < problem.guess
    BY <1>1 DEF SInv, Checked
  <2> QED BY <1>1, <1>2, <1>3, <2>1 DEF Costs
<1>5. ASSUME NEW m \in Subtree(problem.first), problem.legal[m], problem.cost[m] < lowest'
      PROVE  Pending(m)'
  <2>1. problem.cost[m] \in Nat
    BY ProblemFacts DEF TypeOK, Subtree
  <2>2. Pending(m)
    BY <1>2, <1>3, <1>5, <2>1 DEF SInv, Covered
  <2>3. ~Holds(t, m)
    <3>1. SUFFICES ASSUME m \in Subtree(task[t])
                   PROVE  FALSE
      BY <1>1 DEF Holds
    <3>2. CostOf(t) <= problem.cost[m]
      BY <1>1, <3>1, SearchFacts DEF Working
    <3> QED BY <1>2, <1>3, <1>5, <2>1, <3>2
  <2> QED BY <1>1, <2>2, <2>3, StepKeeps
<1>6. Covered'
  BY <1>1, <1>5 DEF Covered
<1>7. ASSUME NEW u \in team
      PROVE  Checked(u)'
  <2>1. CostOf(u)' = CostOf(u)
    BY <1>1 DEF CostOf
  <2>2. CASE u = t
    BY <1>1, <2>2 DEF Checked
  <2>3. CASE u # t /\ pc[u] = "check"
    <3>1. CostOf(u) \in Nat
      BY <2>3, SearchFacts DEF Working
    <3>2. CostOf(u) < lowest' => CostOf(u) < lowest
      BY <1>2, <1>3, <3>1
    <3> QED BY <1>1, <2>1, <2>3, <3>2 DEF SInv, Checked
  <2>4. CASE u # t /\ pc[u] # "check"
    BY <1>1, <2>1, <2>4 DEF SInv, Checked
  <2> QED BY <2>2, <2>3, <2>4
<1>8. Alone'
  <2> SUFFICES ASSUME nthreads = 1
               PROVE  best_cost' = lowest' /\ \A u \in team : pc'[u] # "save"
    BY <1>1 DEF Alone
  <2>1. team = {t}
    <3>1. Cardinality({t}) = nthreads
      BY FS_Singleton
    <3> QED BY <3>1, TeamFacts
  <2>2. CostOf(t) < lowest
    BY <1>1 DEF SInv, Alone
  <2> QED BY <1>1, <2>1, <2>2
<1> QED BY <1>1, <1>4, <1>6, <1>7, <1>8 DEF SInv

\* A child that is pushed stands for all masks below it.
LEMMA SearchPush ==
  ASSUME TypeOK, SInv, NEW t \in team, push(t)
  PROVE  SInv'
<1> DEFINE i == next[t] - 1
<1>1. /\ UNCHANGED <<problem, team, best, fusibility, task>> /\ pc[t] = "push" /\ next[t] > task[t].offset
      /\ next'[t] = i /\ \A u \in team : u # t => next'[u] = next[u]
      /\ tasks' = Append(tasks, Child(task[t], i))
  BY DEF TypeOK, push
<1>2. /\ pc'[t] = IF i = task[t].offset THEN "pop" ELSE "push"
      /\ \A u \in team : u # t => pc'[u] = pc[u] \/ (pc[u] = "blocked" /\ pc'[u] = "woken")
  BY DEF TypeOK, push
<1>3. task[t] \in Task /\ task[t].offset \in Nat /\ next[t] \in Nat /\ i \in Edge
  <2>1. task[t] \in Task /\ task[t].offset \in Nat
    BY <1>1, SearchFacts DEF Working
  <2>2. next[t] \in 0 .. N /\ N \in Nat
    BY OptimalAssumption DEF TypeOK
  <2> QED BY <1>1, <2>1, <2>2 DEF Edge
<1>4. /\ Len(tasks) \in Nat /\ Len(tasks') = Len(tasks) + 1
      /\ \A k \in 1 .. Len(tasks) : tasks'[k] = tasks[k]
      /\ tasks'[Len(tasks) + 1] = Child(task[t], i)
  <2>1. Child(task[t], i) \in Task
    BY <1>3, ChildFacts
  <2>2. tasks \in Seq(Task)
    BY DEF TypeOK
  <2> HIDE DEF i
  <2> QED BY <1>1, <2>1, <2>2, StackFacts
<1>5. ASSUME NEW m, Pending(m)
      PROVE  Pending(m)'
  <2>1. ASSUME NEW k \in 1 .. Len(tasks), m \in Subtree(tasks[k])
        PROVE  Pending(m)'
    <3>1. k \in 1 .. Len(tasks') /\ tasks'[k] = tasks[k]
      BY <1>4
    <3> QED BY <2>1, <3>1 DEF Pending
  <2>2. ASSUME NEW u \in team, u # t, Holds(u, m)
        PROVE  Pending(m)'
    <3>1. Holds(u, m)'
      BY <1>1, <1>2, <2>2, OthersHold DEF Working
    <3> QED BY <1>1, <3>1 DEF Pending
  <2>3. ASSUME Holds(t, m)
        PROVE  Pending(m)'
    <3>1. PICK j \in Edge : task[t].offset <= j /\ j < next[t] /\ m \in Subtree(Child(task[t], j))
      BY <1>1, <2>3 DEF Holds
    <3>2. CASE j = i
      <4>1. Len(tasks) + 1 \in 1 .. Len(tasks')
        BY <1>4
      <4> QED BY <1>4, <3>1, <3>2, <4>1 DEF Pending
    <3>3. CASE j # i
      <4>1. j < i /\ i # task[t].offset
        BY <1>3, <3>1, <3>3 DEF Edge
      <4>2. Holds(t, m)'
        BY <1>1, <1>2, <3>1, <4>1 DEF Holds
      <4> QED BY <1>1, <4>2 DEF Pending
    <3> QED BY <3>2, <3>3
  <2> QED BY <1>5, <2>1, <2>2, <2>3 DEF Pending
<1>6. \A u \in team : pc'[u] \in {"check", "save"} => pc'[u] = pc[u] /\ task'[u] = task[u]
  BY <1>1, <1>2
<1> QED BY <1>1, <1>5, <1>6, QuietStep

\* A task without children has no other masks below it.
LEMMA SearchLeaf ==
  ASSUME TypeOK, SInv, NEW t \in team, leaf(t)
  PROVE  SInv'
<1>1. /\ UNCHANGED <<problem, team, best, tasks, task, fusibility, next>>
      /\ pc[t] = "push" /\ next[t] <= task[t].offset /\ pc'[t] = "pop"
      /\ \A u \in team : u # t => pc'[u] = pc[u]
  BY DEF TypeOK, leaf, queue, local
<1>2. \A m : ~Holds(t, m)
  <2>1. task[t].offset \in 0 .. N /\ next[t] \in 0 .. N
    BY <1>1, SearchFacts DEF TypeOK, Working
  <2>2. task[t].offset \in Nat /\ next[t] \in Nat /\ Edge \subseteq Nat
    BY <2>1, OptimalAssumption DEF Edge
  <2> QED BY <1>1, <2>2 DEF Holds
<1>3. \A m : Pending(m) => Pending(m)'
  BY <1>1, <1>2, StepKeeps
<1>4. \A u \in team : pc'[u] \in {"check", "save"} => pc'[u] = pc[u] /\ task'[u] = task[u]
  BY <1>1
<1> QED BY <1>1, <1>3, <1>4, QuietStep

\* At the start all masks are below the first task.
LEMMA InitSearch == Init => SInv
<1> SUFFICES ASSUME Init PROVE SInv
  OBVIOUS
<1>1. problem.guess \in Nat /\ problem.first \in Task
  BY ProblemFacts DEF Init
<1>2. \A t \in team : pc[t] = "pop"
  BY DEF Init
<1>3. Covered
  <2>1. 1 \in 1 .. Len(tasks) /\ tasks[1] = problem.first
    BY <1>1 DEF Init
  <2> QED BY <2>1 DEF Covered, Pending
<1>4. Costs /\ best_cost = lowest
  BY <1>1 DEF Init, Costs
<1> QED BY <1>2, <1>3, <1>4 DEF SInv, Checked, Alone

\* Every step keeps the invariant of the search.
LEMMA SearchStep ==
  ASSUME TypeOK, SInv, [Next]_vars
  PROVE  SInv'
<1>1. CASE UNCHANGED vars
  <2>1. UNCHANGED <<problem, team, best, fusibility, pc, task, tasks, next>>
    BY <1>1 DEF vars, queue, local
  <2>2. PICK t \in team : TRUE
    BY DEF TypeOK
  <2>3. \A m : Pending(m) => Pending(m)'
    BY <2>1 DEF Pending, Holds
  <2> QED BY <2>1, <2>2, <2>3, QuietStep
<1>2. ASSUME NEW t \in team, step(t) \/ spurious(t)
      PROVE  SInv'
  BY <1>2, SearchWaits, SearchFuse, SearchCheck, SearchSave, SearchPush, SearchLeaf DEF step
<1> QED BY <1>1, <1>2 DEF Next

(***************************************************************************)
(* Branch and bound misses nothing: when all threads have left, no legal   *)
(* mask that the search may reach is cheaper than the best that was found, *)
(* although the threads read best_cost without a lock (branch_n_bound).    *)
(***************************************************************************)
THEOREM SearchIsComplete == Spec => []FoundOptimal
<1>1. Init => TypeOK /\ QInv /\ SInv
  BY InitType, InitQueue, InitSearch
<1>2. TypeOK /\ QInv /\ SInv /\ [Next]_vars => TypeOK' /\ QInv' /\ SInv'
  BY TypeAndQueue, SearchStep
<1>3. TypeOK /\ QInv /\ SInv => FoundOptimal
  <2> SUFFICES ASSUME TypeOK, QInv, SInv
               PROVE  FoundOptimal
    OBVIOUS
  <2>1. lowest <= best_cost /\ best_cost <= problem.guess /\ (nthreads = 1 => best_cost = lowest)
    BY DEF SInv, Costs, Alone
  <2>2. ASSUME AllDone, NEW m \in Subtree(problem.first), problem.legal[m]
        PROVE  lowest <= problem.cost[m]
    <3>1. tasks = <<>> /\ \A t \in team : pc[t] = "done"
      BY <2>2 DEF AllDone, QInv, TypeOK
    <3>2. ~Pending(m)
      BY <3>1 DEF Pending, Holds
    <3>3. problem.cost[m] \in Nat /\ lowest \in Nat
      BY ProblemFacts DEF TypeOK, Subtree
    <3>4. ~(problem.cost[m] < lowest)
      BY <2>2, <3>2 DEF SInv, Covered
    <3> QED BY <3>3, <3>4
  <2> QED BY <2>1, <2>2 DEF FoundOptimal
<1> QED BY <1>1, <1>2, <1>3, PTL DEF Spec
=============================================================================
