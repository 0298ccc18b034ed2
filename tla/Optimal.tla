------------------------------ MODULE Optimal -------------------------------
(***************************************************************************)
(* The search of the optimal fuser (fuser/optimal/fuser.cpp): a team of    *)
(* threads explores which edges of a graph of kernels to merge.  A task is *)
(* a mask, the set of edges to merge, and the offset from where on the     *)
(* mask may still be changed; tasks are in a stack that the threads share. *)
(*                                                                         *)
(* What fuse_mask finds out about a mask is data: its cost, and whether    *)
(* the kernels are fusible and the graph has no cycle.  It is given with   *)
(* the problem, as is the cost of the greedy guess that the search starts  *)
(* from.  A mask that merges more edges does not cost more: a kernel loads *)
(* and stores no more than its parts.                                      *)
(***************************************************************************)
EXTENDS Naturals, Sequences, FiniteSets

CONSTANTS
  Threads,   \* the threads that OpenMP has
  N,         \* the number of edges to explore
  Problems,  \* the searches: the graph, costs, legal masks, the guess and the first task
  NoTask     \* a thread without a task

Edge == 0 .. N - 1
Mask == SUBSET Edge
Task == [mask : Mask, offset : 0 .. N]

ASSUME OptimalAssumption ==
  /\ IsFiniteSet(Threads) /\ N \in Nat \ {0} /\ NoTask \notin Task
  /\ Problems \subseteq [graph : Nat, cost : [Mask -> Nat], legal : [Mask -> BOOLEAN], guess : Nat, first : Task]
  /\ \A p \in Problems : \A m, n \in Mask : m \subseteq n => p.cost[n] <= p.cost[m]

VARIABLES
  problem, team,
  tasks, nwaiting, finished,   \* the TaskQueue
  best_cost, best_dag,         \* the best so far: its cost, and its mask (or NoTask for the greedy guess)
  lowest,                      \* the lowest value that best_cost has had
  cached, file,                \* the kernel lists of the batch in the fuse cache and in its file: {} if there is none
  pc, task,                    \* where a thread is, and its mask and offset
  fusibility, next             \* the result of fuse_mask, and the loop variable i, plus 1

queue == <<tasks, nwaiting, finished>>
best == <<best_cost, best_dag, lowest, cached, file>>
local == <<task, fusibility, next>>
vars == <<problem, team, queue, best, pc, local>>

nthreads == Cardinality(team)

-----------------------------------------------------------------------------
\* branch_n_bound up to the parallel region; fuse_optimal sets the first task, all edges and offset 0 unless
\* BH_FUSER_OPTIMAL_PRELOAD says otherwise.
Init ==
  /\ problem \in Problems /\ team \in SUBSET Threads /\ team # {}
  /\ tasks = <<problem.first>> /\ nwaiting = 0 /\ finished = FALSE
  /\ best_cost = problem.guess /\ best_dag = NoTask /\ lowest = problem.guess
  /\ cached = {} /\ file = {}
  /\ pc = [t \in team |-> "pop"] /\ task = [t \in team |-> NoTask]
  /\ fusibility = [t \in team |-> FALSE] /\ next = [t \in team |-> 0]

\* tasks.back(), pop_back
Take(t) ==
  /\ task' = [task EXCEPT ![t] = tasks[Len(tasks)]]
  /\ tasks' = SubSeq(tasks, 1, Len(tasks) - 1)
  /\ pc' = [pc EXCEPT ![t] = "fuse"]
  /\ UNCHANGED finished

\* "Out of work": the thread leaves the loop.
Leave(t) == pc' = [pc EXCEPT ![t] = "done"] /\ UNCHANGED <<tasks, task, finished>>

\* non_empty.wait
Block(t) == pc' = [pc EXCEPT ![t] = "blocked"] /\ UNCHANGED <<tasks, task, finished>>

\* The last thread to find the queue empty: notify_all.
Finish(t) ==
  /\ finished' = TRUE
  /\ pc' = [u \in team |-> IF u = t THEN "done" ELSE IF pc[u] = "blocked" THEN "woken" ELSE pc[u]]
  /\ UNCHANGED <<tasks, task>>

\* Mutant: whether there are tasks is not asked.
popCountOnly(t) ==
  /\ pc[t] = "pop"
  /\ nwaiting' = IF ~finished /\ nwaiting + 1 < nthreads /\ tasks # <<>> THEN nwaiting ELSE nwaiting + 1
  /\ IF nwaiting + 1 >= nthreads THEN Finish(t)
     ELSE IF finished THEN Leave(t)
     ELSE IF tasks = <<>> THEN Block(t)
     ELSE Take(t)
  /\ UNCHANGED <<problem, team, best, fusibility, next>>

\* TaskQueue::pop up to the first wait; a thread that takes a task counts itself out again.
pop(t) ==
  /\ pc[t] = "pop"
  /\ nwaiting' = IF ~finished /\ tasks # <<>> THEN nwaiting ELSE nwaiting + 1
  /\ IF nwaiting + 1 >= nthreads /\ tasks = <<>> THEN Finish(t)
     ELSE IF finished THEN Leave(t)
     ELSE IF tasks = <<>> THEN Block(t)
     ELSE Take(t)
  /\ UNCHANGED <<problem, team, best, fusibility, next>>

\* Mutant: a thread that was woken waits for a task only, without a further wait.
wakeSpins(t) ==
  /\ pc[t] = "woken"
  /\ tasks # <<>> /\ nwaiting' = nwaiting - 1 /\ Take(t)
  /\ UNCHANGED <<problem, team, best, fusibility, next>>

\* TaskQueue::pop after a wait.
wake(t) ==
  /\ pc[t] = "woken"
  /\ nwaiting' = IF ~finished /\ tasks # <<>> THEN nwaiting - 1 ELSE nwaiting
  /\ IF finished THEN Leave(t)
     ELSE IF tasks = <<>> THEN Block(t)
     ELSE Take(t)
  /\ UNCHANGED <<problem, team, best, fusibility, next>>

\* A condition variable may wake a thread without a notification.
spurious(t) ==
  /\ pc[t] = "blocked"
  /\ pc' = [pc EXCEPT ![t] = "woken"]
  /\ UNCHANGED <<problem, team, queue, best, local>>

CostOf(t) == problem.cost[task[t].mask]

\* fuse_mask, with the best cost at the call.
fuse_mask(t) ==
  /\ pc[t] = "fuse"
  /\ fusibility' = [fusibility EXCEPT ![t] = CostOf(t) < best_cost /\ problem.legal[task[t].mask]]
  /\ pc' = [pc EXCEPT ![t] = "check"]
  /\ UNCHANGED <<problem, team, queue, best, task, next>>

\* Mutant: a mask that is no better ends the search below it, but so does one that is a little better.
checkOff(t) ==
  /\ pc[t] = "check"
  /\ pc' = [pc EXCEPT ![t] = IF CostOf(t) + 1 >= best_cost THEN "pop"
                             ELSE IF fusibility[t] THEN "save" ELSE "push"]
  /\ next' = [next EXCEPT ![t] = N]
  /\ UNCHANGED <<problem, team, queue, best, task, fusibility>>

\* The best cost is read again, outside of the critical section.
check(t) ==
  /\ pc[t] = "check"
  /\ pc' = [pc EXCEPT ![t] = IF CostOf(t) >= best_cost THEN "pop"
                             ELSE IF fusibility[t] THEN "save" ELSE "push"]
  /\ next' = [next EXCEPT ![t] = N]
  /\ UNCHANGED <<problem, team, queue, best, task, fusibility>>

\* The critical section.  The kernels of this graph are inserted as those of the batch, and written to a file
\* unless the file exists (write_to_files).
save(t) ==
  /\ pc[t] = "save"
  /\ best_cost' = CostOf(t) /\ best_dag' = task[t].mask
  /\ cached' = {<<problem.graph, task[t].mask>>}
  /\ file' = IF file = {} THEN cached' ELSE file
  /\ lowest' = IF CostOf(t) < lowest THEN CostOf(t) ELSE lowest
  /\ pc' = [pc EXCEPT ![t] = "pop"]
  /\ UNCHANGED <<problem, team, queue, local>>

\* The task without edge i, of which the edges up to i are fixed.
Child(tk, i) == [mask |-> tk.mask \ {i}, offset |-> i + 1]

\* TaskQueue::push of the next child: notify_one.
push(t) ==
  LET i == next[t] - 1
      moved == [pc EXCEPT ![t] = IF i = task[t].offset THEN "pop" ELSE "push"]
  IN  /\ pc[t] = "push" /\ next[t] > task[t].offset
      /\ tasks' = Append(tasks, Child(task[t], i))
      /\ next' = [next EXCEPT ![t] = i]
      /\ \/ \E u \in team : pc[u] = "blocked" /\ pc' = [moved EXCEPT ![u] = "woken"]
         \/ (\A u \in team : pc[u] # "blocked") /\ pc' = moved
      /\ UNCHANGED <<problem, team, nwaiting, finished, best, task, fusibility>>

\* A mask of which all edges are fixed has no children.
leaf(t) ==
  /\ pc[t] = "push" /\ next[t] <= task[t].offset
  /\ pc' = [pc EXCEPT ![t] = "pop"]
  /\ UNCHANGED <<problem, team, queue, best, local>>

step(t) == pop(t) \/ wake(t) \/ fuse_mask(t) \/ check(t) \/ save(t) \/ push(t) \/ leaf(t)

AllDone == \A t \in team : pc[t] = "done"

Next == \E t \in team : step(t) \/ spurious(t)

Spec == Init /\ [][Next]_vars

\* The operating system runs every thread that can run, and a mutex is granted in the end.
FairSpec == Spec /\ \A t \in Threads : WF_vars(t \in team /\ step(t))

-----------------------------------------------------------------------------
States == {"pop", "blocked", "woken", "fuse", "check", "save", "push", "done"}

\* The type invariant.
TypeOK ==
  /\ problem \in Problems /\ team \in SUBSET Threads /\ team # {}
  /\ tasks \in Seq(Task) /\ nwaiting \in Nat /\ finished \in BOOLEAN
  /\ best_cost \in Nat /\ best_dag \in Mask \union {NoTask} /\ lowest \in Nat
  /\ cached \subseteq Nat \X Mask /\ file \subseteq Nat \X Mask
  /\ pc \in [team -> States] /\ task \in [team -> Task \union {NoTask}]
  /\ fusibility \in [team -> BOOLEAN] /\ next \in [team -> 0 .. N]
  /\ \A t \in team : pc[t] \in {"fuse", "check", "save", "push"} => task[t] # NoTask

Working(t) == pc[t] \in {"fuse", "check", "save", "push"}

(***************************************************************************)
(* The search is declared finished (TaskQueue::pop) only when there is no  *)
(* task left and no thread that may still push one.                        *)
(***************************************************************************)
FinishedIsRight == finished => tasks = <<>> /\ \A t \in team : ~Working(t)

(***************************************************************************)
(* While threads wait for a notification, some thread is running: no       *)
(* wake-up is lost and the last thread tells the others (TaskQueue::pop).  *)
(***************************************************************************)
NeverStuck == (\E t \in team : pc[t] = "blocked") => \E t \in team : pc[t] \notin {"blocked", "done"}

\* The masks that the search may reach from a task.
Subtree(tk) == {m \in Mask : m \subseteq tk.mask /\ \A i \in tk.mask \ m : i >= tk.offset}

(***************************************************************************)
(* "Find the optimal solution through branch and bound": when the search   *)
(* ends, the best cost has been as low as that of any legal mask, in spite *)
(* of the reads of best_cost without a lock, and the result is never worse *)
(* than the greedy guess.  One thread also keeps the best; with more       *)
(* threads a worse graph may replace a better one.                         *)
(***************************************************************************)
FoundOptimal ==
  /\ AllDone => \A m \in Subtree(problem.first) : problem.legal[m] => lowest <= problem.cost[m]
  /\ lowest <= best_cost /\ best_cost <= problem.guess
  /\ nthreads = 1 => best_cost = lowest

(***************************************************************************)
(* Every thread leaves the parallel region: the search ends.               *)
(***************************************************************************)
Terminates == <>AllDone
=============================================================================
