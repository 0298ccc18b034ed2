------------------------------ MODULE Runtime -------------------------------
(***************************************************************************)
(* The C++ bridge (bridge/cpp/bxx): multi_array objects that share         *)
(* bh_base structures by counting references, and the Runtime that queues  *)
(* instructions on them.  A bh_base nobody refers to is freed and          *)
(* discarded by two more instructions and deleted when the queue has been  *)
(* executed.  Results of expressions are temporaries that the operation    *)
(* they are passed to deletes.                                             *)
(*                                                                         *)
(* The bridge is not thread-safe: one operation runs at a time.  An        *)
(* instruction is abstracted to the bh_bases it names.                     *)
(***************************************************************************)
EXTENDS Integers, Sequences, FiniteSets

CONSTANTS
  Named,             \* multi_arrays that the program declares
  Temp,              \* addresses for the temporaries
  BhBase,            \* addresses for the bh_bases
  BH_CPP_QUEUE_MAX   \* the size of the queue

ASSUME QueueAssumption == BH_CPP_QUEUE_MAX \in Nat \ {0}

Handle == Named \union Temp
ASSUME HandleAssumption == IsFiniteSet(Handle)

NULL == 0
ASSUME NullAssumption == NULL \notin BhBase

VARIABLE rt   \* the multi_arrays and the Runtime, a record: see Init

\* A multi_array that does not exist, and one that has no bh_base.
Gone == [base |-> NULL, live |-> FALSE, temp |-> FALSE, lost |-> FALSE]
Unlinked == [Gone EXCEPT !.live = TRUE]

Init ==
     rt = [obj       |-> [h \in Handle |-> IF h \in Named THEN Unlinked ELSE Gone],
           heap      |-> {},                        \* the bh_bases that exist
           ref_count |-> [b \in BhBase |-> 0],      \* 0 where there is no entry
           garbage   |-> {},
           queue     |-> <<>>,
           data      |-> {},                        \* bh_bases with data
           leaked    |-> FALSE,                     \* data without a bh_base
           fails     |-> FALSE,                     \* whether the next execute fails
           failed    |-> FALSE,                     \* whether one has failed
           halfway   |-> FALSE,                     \* an assignment was cut short
           ok        |-> TRUE,                      \* no exception was thrown
           up        |-> TRUE]                      \* the program runs

-----------------------------------------------------------------------------
(***************************************************************************)
(* The queue.  After an exception the rest of an operation is skipped.     *)
(***************************************************************************)
\* The bh_bases that have data once the queue has been executed.
Executed(r) ==
  LET last(b) == {i \in DOMAIN r.queue : b \in r.queue[i].on
                                         /\ r.queue[i].op \in {"free", "array"}}
      kept(b) == IF last(b) = {} THEN b \in r.data
                 ELSE r.queue[CHOOSE i \in last(b) : \A j \in last(b) : j <= i].op = "array"
  IN  {b \in BhBase : kept(b)}

deallocate_meta(r) ==
  [r EXCEPT !.heap = @ \ r.garbage, !.leaked = @ \/ r.garbage \intersect r.data # {},
            !.data = @ \ r.garbage, !.garbage = {}]

execute(r) ==
  IF r.fails
  THEN [r EXCEPT !.queue = <<>>, !.ok = FALSE, !.fails = FALSE, !.failed = TRUE]
  ELSE deallocate_meta([r EXCEPT !.queue = <<>>, !.data = Executed(r)])

\* Mutant: off by one.
GuardLate(r) == IF Len(r.queue) > BH_CPP_QUEUE_MAX THEN execute(r) ELSE r

guard(r) == IF Len(r.queue) >= BH_CPP_QUEUE_MAX THEN execute(r) ELSE r

flush(r) == IF r.ok /\ Len(r.queue) > 0 THEN execute(r) ELSE r

next_instr(r, op, bases) ==
  IF r.ok THEN [r EXCEPT !.queue = Append(@, [op |-> op, on |-> bases])] ELSE r

push(r, op, bases) == next_instr(IF r.ok THEN guard(r) ELSE r, op, bases)

-----------------------------------------------------------------------------
(***************************************************************************)
(* References.                                                             *)
(***************************************************************************)
\* Mutant: the bh_base is trashed before it is discarded.
TrashFirst(r, b) ==
  LET d == push(push([r EXCEPT !.garbage = @ \union {b}], "free", {b}), "discard", {b})
  IN  IF d.ok THEN [d EXCEPT !.ref_count[b] = 0] ELSE d

\* Mutant: the data is not freed.
DiscardOnly(r, b) ==
  LET d == push(r, "discard", {b})
  IN  IF d.ok THEN [d EXCEPT !.garbage = @ \union {b}, !.ref_count[b] = 0] ELSE d

\* BH_FREE and BH_DISCARD, then the bh_base is trashed.
release(r, b) ==
  LET d == push(push(r, "free", {b}), "discard", {b})
  IN  IF d.ok THEN [d EXCEPT !.garbage = @ \union {b}, !.ref_count[b] = 0] ELSE d

unref(r, b) ==
  LET d == [r EXCEPT !.ref_count[b] = @ - 1]
  IN  IF d.ref_count[b] = 0 THEN release(d, b) ELSE d

\* The destructor; an exception in it ends the program.
destroy(r, h) ==
  LET b == r.obj[h].base
      d == IF b = NULL THEN r ELSE unref(r, b)
  IN  IF ~r.ok THEN r
      ELSE IF d.ok THEN [d EXCEPT !.obj[h] = Gone]
      ELSE [d EXCEPT !.up = FALSE]

delete_temp(r, h) == IF r.ok /\ r.obj[h].temp THEN destroy(r, h) ELSE r

\* A new bh_base b for h.
link(r, h, b) ==
  [r EXCEPT !.obj[h].base = b, !.heap = @ \union {b}, !.ref_count[b] = @ + 1]

Base(r, h) == r.obj[h].base

\* An array operation on out, in1 and in2 (in2 = in1 for a unary one).
enqueue(r, out, in1, in2) ==
  LET p  == push(r, "array", {Base(r, out), Base(r, in1), Base(r, in2)})
      d0 == IF out = in1 THEN p ELSE delete_temp(p, out)
      d1 == delete_temp(d0, in1)
  IN  IF in2 = in1 THEN d1 ELSE delete_temp(d1, in2)

-----------------------------------------------------------------------------
\* An operation on existing arrays; one execute in a behaviour may fail.
Ops(S, f) ==
  /\ rt.up /\ (f => ~rt.failed)
  /\ \A h \in S : rt.obj[h].live /\ ~rt.obj[h].lost

Start(f) == [rt EXCEPT !.fails = f]

\* Nobody can name x any more: it is a temporary that was not deleted.
Lose(r, x) == [r EXCEPT !.obj[x].lost = r.obj[x].live /\ x \in Temp]

\* An exception abandons the temporaries of the expression.
Done(r) ==
  LET lost(h) == IF r.ok THEN r.obj[h] ELSE Lose(r, h).obj[h]
  IN  rt' = [r EXCEPT !.ok = TRUE, !.fails = FALSE, !.obj = [h \in Handle |-> lost(h)]]

Linked(h) == rt.obj[h].base # NULL

\* A result that was not a temporary while the operation was queued.
Result(r, t) == [r EXCEPT !.obj[t].temp = r.ok]

\* empty, or zeros, ones and value.
generate(t, b, filled, f) ==
  /\ Ops({}, f) /\ ~rt.obj[t].live
  /\ LET r == link([Start(f) EXCEPT !.obj[t] = Unlinked], t, b)
         p == IF filled THEN push(r, "array", {b}) ELSE r
     IN  Done(Result(p, t))

\* x + y, and every other operation with an implicit result.  Operands that
\* are broadcast are replaced by views of them, and not deleted.
binary(t, b, x, y, broadcasts, f) ==
  /\ Ops({x, y}, f) /\ Linked(x) /\ Linked(y) /\ ~rt.obj[t].live
  /\ rt.obj[x].temp => x # y
  /\ LET r == link([Start(f) EXCEPT !.obj[t] = Unlinked], t, b)
         views == push(r, "array", {b, Base(r, x), Base(r, y)})
         q == IF broadcasts THEN Lose(Lose(views, x), y) ELSE enqueue(r, t, x, y)
     IN  Done(Result(q, t))

\* x += y, x(y), bh_identity(x, y): an explicit result.
update(x, y, f) ==
  /\ Ops({x, y}, f) /\ Linked(x) /\ Linked(y)
  /\ rt.obj[x].temp => x # y
  /\ Done(enqueue(Start(f), x, x, y))

\* x = 7, which gives a declared array its bh_base.
assign_scalar(x, b, f) ==
  /\ Ops({x}, f)
  /\ LET r == IF Linked(x) THEN Start(f) ELSE link(Start(f), x, b)
     IN  Done(delete_temp(push(r, "array", {Base(r, x)}), x))

\* Mutant: the view is not counted.
SliceUncounted(t, x, transposed) ==
  /\ Ops({x}, FALSE) /\ Linked(x) /\ ~rt.obj[t].live
  /\ LET r == [rt EXCEPT !.obj[t] = [rt.obj[x] EXCEPT !.temp = TRUE]]
     IN  Done(IF transposed THEN Lose(r, x) ELSE delete_temp(r, x))

\* temp_view of x, as in x[i]; transpose does not delete a temporary x.
slice(t, x, transposed) ==
  /\ Ops({x}, FALSE) /\ Linked(x) /\ ~rt.obj[t].live
  /\ LET b == rt.obj[x].base
         r == [rt EXCEPT !.obj[t] = [rt.obj[x] EXCEPT !.temp = TRUE], !.ref_count[b] = @ + 1]
     IN  Done(IF transposed THEN Lose(r, x) ELSE delete_temp(r, x))

(***************************************************************************)
(* x = y for arrays: assignment to a view, an alias, nothing or an         *)
(* exception.                                                              *)
(***************************************************************************)
alias(r, x, y) ==
  LET d == IF Base(r, x) = NULL THEN r ELSE unref(r, Base(r, x))
      b == Base(r, y)
      a == [d EXCEPT !.obj[x].base = b, !.ref_count[b] = @ + 1]
  IN  IF d.ok THEN delete_temp(a, y) ELSE [d EXCEPT !.halfway = TRUE]

assign(x, y, f) ==
  /\ Ops({x, y}, f) /\ Linked(y)
  /\ rt.obj[x].temp => x # y
  /\ LET r    == Start(f)
         same == Base(r, x) = Base(r, y)
         q == IF rt.obj[x].temp /\ (same => rt.obj[y].temp) THEN enqueue(r, x, y, y)
              ELSE IF ~same THEN alias(r, x, y)
              ELSE IF rt.obj[x].temp = rt.obj[y].temp THEN r
              ELSE [r EXCEPT !.ok = FALSE]
     IN  Done(q)

sync(x, f) ==
  /\ Ops({x}, f) /\ Linked(x)
  /\ Done(flush(delete_temp(push(Start(f), "sync", {rt.obj[x].base}), x)))

\* scalar reads one element; a temporary is deleted after that.
scalar(x, f) ==
  /\ Ops({x}, f) /\ Linked(x)
  /\ LET r == flush(push(Start(f), "sync", {rt.obj[x].base}))
     IN  Done(flush(delete_temp(r, x)))

\* bh_data_export, which may allocate the data first and may take it away.
bh_data_export(x, alloc, released, f) ==
  /\ Ops({x}, f) /\ x \in Named /\ Linked(x)
  /\ LET b == rt.obj[x].base
         synced(r) == flush(push(push(r, "sync", {b}), "discard", {b}))
         s == synced(Start(f))
         a == IF s.ok /\ b \notin s.data /\ alloc
              THEN synced(push([s EXCEPT !.data = @ \union {b}], "array", {b})) ELSE s
     IN  Done(IF a.ok /\ released THEN [a EXCEPT !.data = @ \ {b}] ELSE a)

\* scan: the result is a temporary when the operation is queued.
scan(t, b, x, f) ==
  /\ Ops({x}, f) /\ Linked(x) /\ ~rt.obj[t].live
  /\ LET r == link([Start(f) EXCEPT !.obj[t] = [Unlinked EXCEPT !.temp = TRUE]], t, b)
     IN  Done(enqueue(r, t, x, x))

\* A declared array goes out of scope; the name stands for the next one.
leave(x, f) ==
  /\ Ops({x}, f) /\ x \in Named
  /\ LET r == destroy(Start(f), x)
     IN  Done(IF r.up THEN [r EXCEPT !.obj[x] = Unlinked] ELSE r)

Flush(f) == Ops({}, f) /\ Len(rt.queue) > 0 /\ Done(flush(Start(f)))

\* ~Runtime at the end of the program.
shutdown(f) ==
  /\ Ops({}, f)
  /\ Done([flush(Start(f)) EXCEPT !.up = FALSE])

Next ==
  \/ \E t \in Temp, b \in BhBase \ rt.heap, f \in BOOLEAN :
       \/ \E filled \in BOOLEAN : generate(t, b, filled, f)
       \/ \E x, y \in Handle, bc \in BOOLEAN : binary(t, b, x, y, bc, f)
       \/ \E x \in Handle : scan(t, b, x, f)
  \/ \E x \in Handle, b \in BhBase \ rt.heap, f \in BOOLEAN : assign_scalar(x, b, f)
  \/ \E t \in Temp, x \in Handle, tr \in BOOLEAN : slice(t, x, tr)
  \/ \E f \in BOOLEAN :
       \/ \E x, y \in Handle : update(x, y, f) \/ assign(x, y, f)
       \/ \E x \in Handle : sync(x, f) \/ scalar(x, f) \/ leave(x, f)
       \/ \E x \in Handle, al, rel \in BOOLEAN : bh_data_export(x, al, rel, f)
       \/ Flush(f)
       \/ shutdown(f)

Spec == Init /\ [][Next]_rt

-----------------------------------------------------------------------------
Users(b) == {h \in Handle : rt.obj[h].base = b}

(***************************************************************************)
(* queue[queue_size++] stays inside the array, also when destructors add   *)
(* instructions to the one an operation has just queued.                   *)
(***************************************************************************)
QueueFits == Len(rt.queue) <= BH_CPP_QUEUE_MAX

(***************************************************************************)
(* No instruction in the queue and no array refers to a bh_base that has   *)
(* been deleted: deallocate_meta runs only after the last instruction on   *)
(* it, wherever guard happens to flush.  A failed execute does not change  *)
(* that, unless it cuts operator= short.                                   *)
(***************************************************************************)
NothingDangles ==
  ~rt.halfway =>
    /\ \A i \in DOMAIN rt.queue : rt.queue[i].on \subseteq rt.heap
    /\ \A h \in Handle : Linked(h) => rt.obj[h].base \in rt.heap
    /\ rt.garbage \subseteq rt.heap

(***************************************************************************)
(* ref_count is there to "Count references to bh_base" (bohrium.hpp:395):  *)
(* it is the number of arrays that share a bh_base.                        *)
(***************************************************************************)
CountsReferences ==
  rt.up => \A b \in BhBase : rt.ref_count[b] = Cardinality(Users(b))

\* The same, except after an operator= that a failed execute has cut short.
RefCountsAgree == ~rt.halfway => CountsReferences

(***************************************************************************)
(* As long as no execute has failed, a bh_base belongs to an array or is   *)
(* waiting to be deleted, and its data is freed before it is.              *)
(***************************************************************************)
NothingLeaks ==
  ~rt.failed =>
    /\ ~rt.leaked
    /\ \A b \in rt.heap \ rt.garbage : Users(b) # {}
=============================================================================
