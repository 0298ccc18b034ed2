--------------------------- MODULE RuntimeProofs ----------------------------
(***************************************************************************)
(* Proofs about the C++ bridge, for any arrays, bh_bases and size of the   *)
(* queue.                                                                  *)
(*                                                                         *)
(* Every operation is a chain of pushes, flushes and destructors, and a    *)
(* guard in any of them may execute the queue.  The invariant Good is one  *)
(* of the record, so that it can be followed along such a chain.  It rests *)
(* on what execute leaves alone: Kept, the bh_bases that are not garbage.  *)
(* It deletes the garbage and nothing else, and an array never refers to   *)
(* garbage because a bh_base is trashed when its count is 0.               *)
(***************************************************************************)
EXTENDS Runtime, FiniteSetTheorems, TLAPS

Instr == [op : {"array", "sync", "free", "discard"}, on : SUBSET BhBase]

Array == [base : BhBase \union {NULL}, live : BOOLEAN, temp : BOOLEAN, lost : BOOLEAN]

State ==
  [obj : [Handle -> Array], heap : SUBSET BhBase, ref_count : [BhBase -> Int],
   garbage : SUBSET BhBase, queue : Seq(Instr), data : SUBSET BhBase, leaked : BOOLEAN,
   fails : BOOLEAN, failed : BOOLEAN, halfway : BOOLEAN, ok : BOOLEAN, up : BOOLEAN]

Kept(r) == r.heap \ r.garbage

Refs(obj, b) == {h \in Handle : obj[h].base = b}

\* The instructions that give b data or take it away.
Touching(q, b) == {i \in DOMAIN q : b \in q[i].on /\ q[i].op \in {"free", "array"}}

\* b has no data once the queue has been executed.
Clean(r, b) ==
  \/ Touching(r.queue, b) = {} /\ b \notin r.data
  \/ \E i \in Touching(r.queue, b) :
       r.queue[i].op = "free" /\ \A j \in Touching(r.queue, b) : j <= i

\* The queue and the bh_bases.
Sound(r) ==
  /\ r \in State
  /\ Len(r.queue) <= BH_CPP_QUEUE_MAX
  /\ r.halfway => r.failed
  /\ ~r.halfway => /\ \A i \in DOMAIN r.queue : r.queue[i].on \subseteq r.heap
                   /\ r.garbage \subseteq r.heap
  /\ ~r.failed => ~r.leaked /\ \A b \in r.garbage : Clean(r, b)

\* The arrays, and what they refer to.
Shared(r) ==
  /\ \A h \in Handle : /\ ~r.obj[h].live => r.obj[h].base = NULL
                       /\ r.obj[h].temp => r.obj[h].base # NULL
  /\ ~r.halfway => \A h \in Handle : r.obj[h].base # NULL => r.obj[h].base \in Kept(r)
  /\ ~r.halfway /\ r.up => \A b \in BhBase : r.ref_count[b] = Cardinality(Refs(r.obj, b))
  /\ ~r.failed => \A b \in Kept(r) : Refs(r.obj, b) # {}

Good(r) == Sound(r) /\ Shared(r)

\* While an operation runs.
Running(r) == Good(r) /\ (r.ok => r.up)

IInv == Good(rt) /\ rt.ok

-----------------------------------------------------------------------------
(***************************************************************************)
(* The queue.  Extends(r, p): on the way from r to p only instructions     *)
(* were queued and executed.                                               *)
(***************************************************************************)
Extends(r, p) ==
  /\ p.obj = r.obj /\ p.ref_count = r.ref_count
  /\ p.halfway = r.halfway /\ p.up = r.up
  /\ Kept(p) = Kept(r)
  /\ r.failed => p.failed
  /\ p.ok => r.ok
  /\ r.ok /\ ~p.ok => p.failed

\* What holds of the arrays does not depend on the queue.
LEMMA ExtendsShared ==
  ASSUME NEW r, NEW p, Shared(r), Extends(r, p)
  PROVE  Shared(p)
BY DEF Shared, Extends, Refs

\* Executed: a bh_base whose last instruction is BH_FREE has no data.
LEMMA CleanExecuted ==
  ASSUME NEW r \in State, NEW b \in BhBase, Clean(r, b)
  PROVE  b \notin Executed(r)
<1>1. Touching(r.queue, b) \subseteq Int
  BY DEF Touching, State
<1>2. CASE Touching(r.queue, b) = {} /\ b \notin r.data
  BY <1>2 DEF Executed, Touching
<1>3. CASE \E i \in Touching(r.queue, b) :
             r.queue[i].op = "free" /\ \A j \in Touching(r.queue, b) : j <= i
  <2>1. PICK i \in Touching(r.queue, b) :
               r.queue[i].op = "free" /\ \A j \in Touching(r.queue, b) : j <= i
    BY <1>3
  <2>2. (CHOOSE k \in Touching(r.queue, b) : \A j \in Touching(r.queue, b) : j <= k) = i
    BY <1>1, <2>1
  <2> QED BY <2>1, <2>2 DEF Executed, Touching
<1> QED BY <1>2, <1>3 DEF Clean

\* execute, whether it fails or not.
LEMMA Execute ==
  ASSUME NEW r, Sound(r)
  PROVE  LET e == execute(r)
         IN  /\ Sound(e) /\ Extends(r, e) /\ e.queue = <<>>
             /\ \A b \in BhBase : ~e.failed /\ Clean(r, b) => Clean(e, b)
<1> DEFINE e == execute(r)
           x == [r EXCEPT !.queue = <<>>, !.data = Executed(r)]
<1> SUFFICES /\ Sound(e) /\ Extends(r, e) /\ e.queue = <<>>
             /\ \A b \in BhBase : ~e.failed /\ Clean(r, b) => Clean(e, b)
  OBVIOUS
<1>0. /\ r.fails => e = [r EXCEPT !.queue = <<>>, !.ok = FALSE, !.fails = FALSE, !.failed = TRUE]
      /\ ~r.fails => e = deallocate_meta(x)
  BY DEF execute
<1> HIDE DEF e
<1>1. Executed(r) \subseteq BhBase /\ r \in State /\ <<>> \in Seq(Instr)
  BY DEF Executed, Sound
<1>2. CASE r.fails
  <2>1. e = [r EXCEPT !.queue = <<>>, !.ok = FALSE, !.fails = FALSE, !.failed = TRUE]
    BY <1>2, <1>0
  <2>2. e \in State
    BY <1>1, <2>1 DEF State
  <2>3. /\ e.obj = r.obj /\ e.ref_count = r.ref_count /\ e.halfway = r.halfway
        /\ e.up = r.up /\ e.heap = r.heap /\ e.garbage = r.garbage
        /\ e.queue = <<>> /\ e.failed = TRUE /\ e.ok = FALSE
    BY <1>1, <2>1 DEF State
  <2>4. Extends(r, e)
    BY <2>3 DEF Extends, Kept
  <2>5. Sound(e)
    BY <2>2, <2>3, QueueAssumption DEF Sound
  <2> QED BY <2>3, <2>4, <2>5
<1>3. CASE ~r.fails
  <2>1. x \in State
    BY <1>1 DEF State
  <2>2. /\ x.obj = r.obj /\ x.ref_count = r.ref_count /\ x.halfway = r.halfway
        /\ x.up = r.up /\ x.heap = r.heap /\ x.garbage = r.garbage
        /\ x.queue = <<>> /\ x.failed = r.failed /\ x.ok = r.ok
        /\ x.data = Executed(r) /\ x.leaked = r.leaked
    BY <1>1 DEF State
  <2> HIDE DEF x
  <2>3. e \in State
    <3> DEFINE l == x.leaked \/ x.garbage \intersect x.data # {}
    <3>1. l \in BOOLEAN
      OBVIOUS
    <3>2. e = [x EXCEPT !.heap = x.heap \ x.garbage, !.leaked = l,
                        !.data = x.data \ x.garbage, !.garbage = {}]
      BY <1>3, <1>0 DEF deallocate_meta
    <3> HIDE DEF l
    <3> QED BY <2>1, <3>1, <3>2 DEF State
  <2>4. /\ e.obj = r.obj /\ e.ref_count = r.ref_count /\ e.halfway = r.halfway
        /\ e.up = r.up /\ e.heap = r.heap \ r.garbage /\ e.garbage = {}
        /\ e.queue = <<>> /\ e.failed = r.failed /\ e.ok = r.ok
        /\ e.data = Executed(r) \ r.garbage
        /\ e.leaked = (r.leaked \/ r.garbage \intersect Executed(r) # {})
    BY <1>3, <1>0, <2>1, <2>2 DEF State, deallocate_meta
  <2>5. Extends(r, e)
    BY <2>4 DEF Extends, Kept
  <2>6. ~r.failed => ~e.leaked
    <3>1. \A b \in r.garbage : b \in BhBase
      BY <1>1 DEF State
    <3> QED BY <1>1, <2>4, <3>1, CleanExecuted DEF Sound
  <2>7. Sound(e)
    BY <2>3, <2>4, <2>6, QueueAssumption DEF Sound
  <2>8. \A b \in BhBase : Clean(r, b) => Clean(e, b)
    BY <1>1, <2>4, CleanExecuted DEF Clean, Touching
  <2> QED BY <2>4, <2>5, <2>7, <2>8
<1> QED BY <1>1, <1>2, <1>3 DEF State

\* flush.
LEMMA FlushSound ==
  ASSUME NEW r, Sound(r)
  PROVE  Sound(flush(r)) /\ Extends(r, flush(r))
<1>1. Extends(r, r)
  BY DEF Extends
<1> QED BY <1>1, Execute DEF flush

\* An instruction at the end of the queue.
LEMMA Append1 ==
  ASSUME NEW q \in Seq(Instr), NEW op \in {"array", "sync", "free", "discard"},
         NEW bases \in SUBSET BhBase
  PROVE  LET a == Append(q, [op |-> op, on |-> bases])
         IN  /\ a \in Seq(Instr) /\ Len(a) = Len(q) + 1
             /\ \A i \in DOMAIN a : (i \in DOMAIN q /\ a[i] = q[i]) \/ a[i].on = bases
             /\ \A b \in BhBase :
                  Touching(a, b) = Touching(q, b)
                    \union (IF b \in bases /\ op \in {"free", "array"} THEN {Len(q) + 1} ELSE {})
             /\ \A i \in DOMAIN q : a[i] = q[i] /\ i < Len(q) + 1
             /\ a[Len(q) + 1].op = op
<1> DEFINE i0 == [op |-> op, on |-> bases]
           a == Append(q, i0)
<1>1. i0 \in Instr
  BY DEF Instr
<1>2. i0.op = op /\ i0.on = bases
  OBVIOUS
<1> HIDE DEF i0
<1>3. /\ a \in Seq(Instr) /\ Len(a) = Len(q) + 1 /\ a[Len(q) + 1] = i0
      /\ \A i \in 1 .. Len(q) : a[i] = q[i]
      /\ DOMAIN a = 1 .. Len(q) + 1 /\ DOMAIN q = 1 .. Len(q) /\ Len(q) \in Nat
  BY <1>1
<1> HIDE DEF a
<1>4. \A i \in DOMAIN a : i \in DOMAIN q \/ i = Len(q) + 1
  BY <1>3
<1>5. \A i \in DOMAIN q : i \in DOMAIN a /\ i < Len(q) + 1 /\ a[i] = q[i]
  BY <1>3
<1>6. ASSUME NEW b \in BhBase
      PROVE  Touching(a, b) = Touching(q, b)
               \union (IF b \in bases /\ op \in {"free", "array"} THEN {Len(q) + 1} ELSE {})
  <2>1. Len(q) + 1 \in DOMAIN a
    BY <1>3
  <2> QED BY <1>2, <1>3, <1>4, <1>5, <2>1 DEF Touching
<1>7. \A i \in DOMAIN a : (i \in DOMAIN q /\ a[i] = q[i]) \/ a[i].on = bases
  BY <1>2, <1>3, <1>4, <1>5
<1> QED BY <1>2, <1>3, <1>5, <1>6, <1>7 DEF a, i0

\* push: guard may execute the queue first, the instruction is queued after that.
LEMMA Push ==
  ASSUME NEW r, Sound(r), NEW op \in {"array", "sync", "free", "discard"},
         NEW bases \in SUBSET BhBase, ~r.halfway => bases \subseteq Kept(r)
  PROVE  LET p == push(r, op, bases)
         IN  /\ Sound(p) /\ Extends(r, p)
             /\ p.ok /\ ~p.failed /\ op = "free" => \A b \in bases : Clean(p, b)
             /\ ~p.failed /\ op # "array" => \A b \in BhBase : Clean(r, b) => Clean(p, b)
<1> DEFINE p == push(r, op, bases)
           g == IF r.ok THEN guard(r) ELSE r
           a == Append(g.queue, [op |-> op, on |-> bases])
<1> SUFFICES /\ Sound(p) /\ Extends(r, p)
             /\ p.ok /\ ~p.failed /\ op = "free" => \A b \in bases : Clean(p, b)
             /\ ~p.failed /\ op # "array" => \A b \in BhBase : Clean(r, b) => Clean(p, b)
  OBVIOUS
<1>1. p = next_instr(g, op, bases)
  BY DEF push
<1>2. /\ Sound(g) /\ Extends(r, g) /\ (g.ok => Len(g.queue) < BH_CPP_QUEUE_MAX)
      /\ \A b \in BhBase : ~g.failed /\ Clean(r, b) => Clean(g, b)
  <2>1. CASE r.ok /\ Len(r.queue) >= BH_CPP_QUEUE_MAX
    <3>1. g = execute(r)
      BY <2>1 DEF guard
    <3> QED BY <3>1, Execute, QueueAssumption
  <2>2. CASE ~(r.ok /\ Len(r.queue) >= BH_CPP_QUEUE_MAX)
    <3>1. g = r
      BY <2>2 DEF guard
    <3>2. r.queue \in Seq(Instr)
      BY DEF Sound, State
    <3>3. g.ok => Len(g.queue) < BH_CPP_QUEUE_MAX
      BY <2>2, <3>1, <3>2, QueueAssumption
    <3> HIDE DEF g
    <3> QED BY <3>1, <3>3 DEF Extends
  <2> QED BY <2>1, <2>2
<1> HIDE DEF g, p
<1>3. CASE ~g.ok
  <2>1. p = g
    BY <1>1, <1>3 DEF next_instr
  <2> QED BY <1>2, <1>3, <2>1
<1>4. CASE g.ok
  <2>1. g \in State /\ g.queue \in Seq(Instr) /\ Len(g.queue) \in Nat
    BY <1>2 DEF Sound, State
  <2>2. /\ a \in Seq(Instr) /\ Len(a) = Len(g.queue) + 1
        /\ \A i \in DOMAIN a : (i \in DOMAIN g.queue /\ a[i] = g.queue[i]) \/ a[i].on = bases
        /\ \A b \in BhBase :
             Touching(a, b) = Touching(g.queue, b)
               \union (IF b \in bases /\ op \in {"free", "array"} THEN {Len(g.queue) + 1} ELSE {})
        /\ \A i \in DOMAIN g.queue : a[i] = g.queue[i] /\ i < Len(g.queue) + 1
        /\ a[Len(g.queue) + 1].op = op
    BY <2>1, Append1
  <2> HIDE DEF a
  <2>3. p = [g EXCEPT !.queue = a]
    BY <1>1, <1>4 DEF next_instr, a
  <2>4. p \in State
    BY <2>1, <2>2, <2>3 DEF State
  <2>5. /\ p.obj = g.obj /\ p.ref_count = g.ref_count /\ p.halfway = g.halfway
        /\ p.up = g.up /\ p.heap = g.heap /\ p.garbage = g.garbage
        /\ p.queue = a /\ p.failed = g.failed /\ p.ok = g.ok
        /\ p.data = g.data /\ p.leaked = g.leaked
    BY <2>1, <2>3 DEF State
  <2>6. Extends(r, p)
    BY <1>2, <2>5 DEF Extends, Kept
  <2>7. ASSUME NEW b \in BhBase, Clean(g, b), ~(b \in bases /\ op = "array")
        PROVE  Clean(p, b)
    <3>1. \A i \in Touching(g.queue, b) : i \in DOMAIN g.queue /\ a[i] = g.queue[i]
      BY <2>2 DEF Touching
    <3>2. CASE b \in bases /\ op = "free"
      <4>1. Len(g.queue) + 1 \in Touching(a, b)
        BY <2>2, <3>2
      <4>2. \A j \in Touching(a, b) : j <= Len(g.queue) + 1
        BY <2>1, <2>2, <3>1, <3>2
      <4> QED BY <2>2, <2>5, <3>2, <4>1, <4>2 DEF Clean
    <3>3. CASE ~(b \in bases /\ op = "free")
      <4>1. Touching(a, b) = Touching(g.queue, b)
        BY <2>2, <2>7, <3>3
      <4> QED BY <2>5, <2>7, <3>1, <4>1 DEF Clean
    <3> QED BY <3>2, <3>3
  <2>8. ASSUME NEW b \in bases, op = "free"
        PROVE  Clean(p, b)
    <3>1. Len(g.queue) + 1 \in Touching(a, b)
      BY <2>2, <2>8
    <3>2. \A j \in Touching(a, b) : j <= Len(g.queue) + 1
      BY <2>1, <2>2, <2>8 DEF Touching
    <3> QED BY <2>2, <2>5, <2>8, <3>1, <3>2 DEF Clean
  <2>9. Sound(p)
    <3>1. Len(p.queue) <= BH_CPP_QUEUE_MAX
      BY <1>2, <1>4, <2>1, <2>2, <2>5, QueueAssumption
    <3>2. ~p.halfway => bases \subseteq p.heap
      BY <1>2, <2>5 DEF Extends, Kept
    <3>3. ASSUME ~p.failed, NEW b \in p.garbage PROVE Clean(p, b)
      <4>1. b \in BhBase /\ b \notin bases /\ Clean(g, b)
        BY <1>2, <2>1, <2>5, <3>3 DEF Sound, Extends, Kept, State
      <4> QED BY <2>7, <4>1
    <3> QED BY <1>2, <2>2, <2>4, <2>5, <3>1, <3>2, <3>3 DEF Sound
  <2> QED BY <1>2, <2>5, <2>6, <2>7, <2>8, <2>9
<1> QED BY <1>3, <1>4

-----------------------------------------------------------------------------
(***************************************************************************)
(* References.                                                             *)
(***************************************************************************)
\* release: b is trashed, unless execute fails on the way.
LEMMA Release ==
  ASSUME NEW r, Sound(r), NEW b \in BhBase, ~r.halfway => b \in Kept(r), r.ref_count[b] = 0
  PROVE  LET d == release(r, b)
         IN  /\ Sound(d) /\ d.obj = r.obj /\ d.ref_count = r.ref_count
             /\ d.halfway = r.halfway /\ d.up = r.up
             /\ Kept(d) = IF d.ok THEN Kept(r) \ {b} ELSE Kept(r)
             /\ (r.failed => d.failed) /\ (d.ok => r.ok) /\ (r.ok /\ ~d.ok => d.failed)
<1> DEFINE p == push(r, "free", {b})
           q == push(p, "discard", {b})
           d == release(r, b)
<1> SUFFICES /\ Sound(d) /\ d.obj = r.obj /\ d.ref_count = r.ref_count
             /\ d.halfway = r.halfway /\ d.up = r.up
             /\ Kept(d) = IF d.ok THEN Kept(r) \ {b} ELSE Kept(r)
             /\ (r.failed => d.failed) /\ (d.ok => r.ok) /\ (r.ok /\ ~d.ok => d.failed)
  OBVIOUS
<1>1. d = IF q.ok THEN [q EXCEPT !.garbage = @ \union {b}, !.ref_count[b] = 0] ELSE q
  BY DEF release
<1>2. /\ Sound(p) /\ Extends(r, p)
      /\ p.ok /\ ~p.failed => Clean(p, b)
  BY Push
<1> HIDE DEF p, d
<1>3. ~p.halfway => {b} \subseteq Kept(p)
  BY <1>2 DEF Extends
<1>4. /\ Sound(q) /\ Extends(p, q)
      /\ ~q.failed /\ Clean(p, b) => Clean(q, b)
  BY <1>2, <1>3, Push
<1> HIDE DEF q
<1>5. /\ q.obj = r.obj /\ q.ref_count = r.ref_count
      /\ q.halfway = r.halfway /\ q.up = r.up /\ Kept(q) = Kept(r)
      /\ (r.failed => q.failed) /\ (q.ok => p.ok /\ r.ok) /\ (r.ok /\ ~q.ok => q.failed)
      /\ (p.failed => q.failed)
  BY <1>2, <1>4 DEF Extends
<1>6. CASE ~q.ok
  <2>1. d = q
    BY <1>1, <1>6
  <2> QED BY <1>4, <1>5, <1>6, <2>1
<1>7. CASE q.ok
  <2>1. q \in State
    BY <1>4 DEF Sound
  <2>2. q.ref_count = [q.ref_count EXCEPT ![b] = 0]
    BY <1>5, <2>1 DEF State
  <2>3. d = [q EXCEPT !.garbage = q.garbage \union {b}, !.ref_count = q.ref_count]
    BY <1>1, <1>7, <2>2
  <2>4. d \in State
    BY <2>1, <2>3 DEF State
  <2>5. /\ d.obj = q.obj /\ d.ref_count = q.ref_count /\ d.halfway = q.halfway
        /\ d.up = q.up /\ d.heap = q.heap /\ d.garbage = q.garbage \union {b}
        /\ d.queue = q.queue /\ d.failed = q.failed /\ d.ok = q.ok
        /\ d.data = q.data /\ d.leaked = q.leaked
    BY <2>1, <2>3 DEF State
  <2>6. \A c \in BhBase : Clean(q, c) => Clean(d, c)
    BY <2>5 DEF Clean
  <2>7. ~q.failed => Clean(d, b)
    BY <1>2, <1>4, <1>5, <1>7, <2>6
  <2>8. \A c \in q.garbage : c \in BhBase
    BY <2>1 DEF State
  <2>9. Sound(d)
    BY <1>4, <1>5, <2>4, <2>5, <2>6, <2>7, <2>8 DEF Sound, Kept
  <2> QED BY <1>5, <1>7, <2>5, <2>9 DEF Kept
<1> QED BY <1>6, <1>7

\* The count of b is one less, and b is kept while it is not 0.
Unrefs(r, b, d) ==
  /\ Sound(d) /\ d.obj = r.obj
  /\ d.ref_count = [r.ref_count EXCEPT ![b] = @ - 1]
  /\ d.halfway = r.halfway /\ d.up = r.up
  /\ Kept(d) = IF d.ok /\ r.ref_count[b] = 1 THEN Kept(r) \ {b} ELSE Kept(r)
  /\ (r.failed => d.failed) /\ (d.ok => r.ok) /\ (r.ok /\ ~d.ok => d.failed)

\* unref.
LEMMA Unref ==
  ASSUME NEW r, Sound(r), NEW b \in BhBase, ~r.halfway => b \in Kept(r)
  PROVE  Unrefs(r, b, unref(r, b))
<1> DEFINE c == [r EXCEPT !.ref_count[b] = @ - 1]
<1>1. r \in State /\ r.ref_count[b] \in Int
  BY DEF Sound, State
<1>2. /\ c.obj = r.obj /\ c.ref_count = [r.ref_count EXCEPT ![b] = @ - 1]
      /\ c.halfway = r.halfway /\ c.up = r.up /\ c.heap = r.heap /\ c.garbage = r.garbage
      /\ c.queue = r.queue /\ c.failed = r.failed /\ c.ok = r.ok
      /\ c.data = r.data /\ c.leaked = r.leaked
  BY <1>1 DEF State
<1>3. c \in State
  <2> DEFINE n == [r.ref_count EXCEPT ![b] = @ - 1]
  <2>1. n \in [BhBase -> Int] /\ c = [r EXCEPT !.ref_count = n]
    BY <1>1 DEF State
  <2> HIDE DEF c, n
  <2> QED BY <1>1, <2>1 DEF State
<1>4. unref(r, b) = IF c.ref_count[b] = 0 THEN release(c, b) ELSE c
  BY DEF unref
<1> HIDE DEF c
<1>5. Sound(c)
  BY <1>2, <1>3 DEF Sound, Clean
<1>6. c.ref_count[b] = r.ref_count[b] - 1
  BY <1>1, <1>2 DEF State
<1>7. Kept(c) = Kept(r)
  BY <1>2 DEF Kept
<1>8. CASE r.ref_count[b] = 1
  <2>1. c.ref_count[b] = 0 /\ unref(r, b) = release(c, b)
    BY <1>4, <1>6, <1>8
  <2> QED BY <1>2, <1>5, <1>7, <1>8, <2>1, Release DEF Unrefs
<1>9. CASE r.ref_count[b] # 1
  <2>1. unref(r, b) = c
    BY <1>1, <1>4, <1>6, <1>9
  <2> QED BY <1>2, <1>5, <1>7, <1>9, <2>1 DEF Unrefs
<1> QED BY <1>8, <1>9

\* One array is linked to another bh_base, or to none.
LEMMA Relink ==
  ASSUME NEW o \in [Handle -> Array], NEW h \in Handle, NEW a \in Array, NEW b \in BhBase
  PROVE  LET p == [o EXCEPT ![h] = a]
         IN  /\ Cardinality(Refs(o, b)) \in Nat
             /\ Cardinality(Refs(o, b)) = 0 <=> Refs(o, b) = {}
             /\ o[h].base = b <=> a.base = b => Refs(p, b) = Refs(o, b)
             /\ o[h].base # b /\ a.base = b =>
                  Cardinality(Refs(p, b)) = Cardinality(Refs(o, b)) + 1 /\ h \in Refs(p, b)
             /\ o[h].base = b /\ a.base # b =>
                  /\ Cardinality(Refs(p, b)) = Cardinality(Refs(o, b)) - 1
                  /\ Cardinality(Refs(o, b)) # 1 => Refs(p, b) # {}
<1> DEFINE p == [o EXCEPT ![h] = a]
<1>1. IsFiniteSet(Refs(o, b)) /\ IsFiniteSet(Refs(p, b))
  BY HandleAssumption, FS_Subset DEF Refs
<1>2. /\ Cardinality(Refs(o, b)) \in Nat /\ (Cardinality(Refs(o, b)) = 0 <=> Refs(o, b) = {})
      /\ (Cardinality(Refs(p, b)) = 0 <=> Refs(p, b) = {})
  BY <1>1, FS_CardinalityType, FS_EmptySet
<1>3. (o[h].base = b <=> a.base = b) => Refs(p, b) = Refs(o, b)
  BY DEF Refs
<1>4. o[h].base # b /\ a.base = b =>
        Cardinality(Refs(p, b)) = Cardinality(Refs(o, b)) + 1 /\ h \in Refs(p, b)
  <2>1. o[h].base # b /\ a.base = b =>
          Refs(p, b) = Refs(o, b) \union {h} /\ h \notin Refs(o, b) /\ h \in Refs(p, b)
    BY DEF Refs
  <2> QED BY <1>1, <2>1, FS_AddElement
<1>5. o[h].base = b /\ a.base # b => Cardinality(Refs(p, b)) = Cardinality(Refs(o, b)) - 1
  <2>1. o[h].base = b /\ a.base # b => Refs(p, b) = Refs(o, b) \ {h} /\ h \in Refs(o, b)
    BY DEF Refs
  <2> QED BY <1>1, <2>1, FS_RemoveElement
<1>6. o[h].base = b /\ a.base # b => (Cardinality(Refs(o, b)) # 1 => Refs(p, b) # {})
  <2> HIDE DEF p
  <2> QED BY <1>2, <1>5
<1> QED BY <1>2, <1>3, <1>4, <1>5, <1>6

\* Nothing changes but what is not about bases.
LEMMA SameLinks ==
  ASSUME NEW r, Good(r), NEW o \in [Handle -> Array],
         \A h \in Handle : /\ o[h].base = r.obj[h].base
                           /\ ~o[h].live => o[h].base = NULL
                           /\ o[h].temp => o[h].base # NULL
  PROVE  LET p == [r EXCEPT !.obj = o]
         IN  /\ Good(p) /\ p.obj = o /\ p.ok = r.ok /\ (Running(r) => Running(p))
             /\ p.heap = r.heap /\ p.halfway = r.halfway
<1> DEFINE p == [r EXCEPT !.obj = o]
<1> SUFFICES /\ Good(p) /\ p.obj = o /\ p.ok = r.ok /\ (Running(r) => Running(p))
             /\ p.heap = r.heap /\ p.halfway = r.halfway
  OBVIOUS
<1>1. r \in State
  BY DEF Good, Sound
<1>2. p \in State
  BY <1>1 DEF State
<1>3. /\ p.obj = o /\ p.ref_count = r.ref_count
      /\ p.halfway = r.halfway /\ p.up = r.up /\ p.heap = r.heap /\ p.garbage = r.garbage
      /\ p.queue = r.queue /\ p.failed = r.failed /\ p.ok = r.ok
      /\ p.data = r.data /\ p.leaked = r.leaked
  BY <1>1 DEF State
<1> HIDE DEF p
<1>4. Sound(p)
  BY <1>2, <1>3 DEF Good, Sound, Clean
<1>5. \A b \in BhBase : Refs(o, b) = Refs(r.obj, b)
  BY DEF Refs
<1>6. Kept(p) = Kept(r) /\ Kept(r) \subseteq BhBase
  BY <1>1, <1>3 DEF Kept, State
<1>7. Shared(p)
  BY <1>3, <1>5, <1>6 DEF Good, Shared
<1> QED BY <1>3, <1>4, <1>7 DEF Running, Good

\* Instructions may be queued on the bh_bases of arrays.
LEMMA PushRunning ==
  ASSUME NEW r, Running(r), NEW op \in {"array", "sync", "free", "discard"}, NEW bases,
         \A b \in bases : b # NULL /\ \E h \in Handle : r.obj[h].base = b
  PROVE  Running(push(r, op, bases)) /\ Extends(r, push(r, op, bases))
<1>1. Sound(r) /\ Shared(r) /\ r \in State
  BY DEF Running, Good, Sound
<1>2. bases \in SUBSET BhBase
  BY <1>1 DEF State, Array
<1>3. ~r.halfway => bases \subseteq Kept(r)
  BY <1>1 DEF Shared
<1> DEFINE p == push(r, op, bases)
<1>4. Sound(p) /\ Extends(r, p)
  BY <1>1, <1>2, <1>3, Push
<1> HIDE DEF p
<1>5. Running(p) /\ Extends(r, p)
  BY <1>1, <1>4, ExtendsShared DEF Running, Good, Extends
<1> QED BY <1>5 DEF p

\* ... and executed at any time.
LEMMA FlushRunning ==
  ASSUME NEW r, Running(r)
  PROVE  Running(flush(r)) /\ Extends(r, flush(r))
<1>1. Sound(flush(r)) /\ Extends(r, flush(r))
  BY FlushSound DEF Running, Good
<1>2. Shared(flush(r))
  BY <1>1, ExtendsShared DEF Running, Good
<1> QED BY <1>1, <1>2 DEF Running, Good, Extends

\* e differs from r in the references only.
Rest(r, e) ==
  /\ e.garbage = r.garbage /\ e.queue = r.queue /\ e.data = r.data /\ e.leaked = r.leaked
  /\ e.failed = r.failed /\ e.halfway = r.halfway /\ e.ok = r.ok /\ e.up = r.up

\* An array drops its reference; the last one trashes the bh_base.
LEMMA Drop ==
  ASSUME NEW r, Running(r), r.ok, NEW h \in Handle, r.obj[h].base # NULL,
         NEW d, d = unref(r, r.obj[h].base), d.ok,
         NEW a \in Array, a.base = NULL, ~a.temp,
         NEW e \in State, Rest(d, e), e.heap = d.heap, e.ref_count = d.ref_count,
         e.obj = [d.obj EXCEPT ![h] = a]
  PROVE  Running(e)
<1> DEFINE b == r.obj[h].base
<1>1. Sound(r) /\ Shared(r) /\ r \in State /\ r.up
  BY DEF Running, Good, Sound
<1>2. b \in BhBase /\ (~r.halfway => b \in Kept(r)) /\ r.obj \in [Handle -> Array]
  BY <1>1 DEF State, Array, Shared
<1>a. Unrefs(r, b, d)
  BY <1>1, <1>2, Unref
<1> HIDE DEF b
<1>3. /\ Sound(d) /\ d.obj = r.obj
      /\ d.ref_count = [r.ref_count EXCEPT ![b] = @ - 1]
      /\ d.halfway = r.halfway /\ d.up = r.up
      /\ Kept(d) = IF r.ref_count[b] = 1 THEN Kept(r) \ {b} ELSE Kept(r)
      /\ r.failed => d.failed
  BY <1>a DEF Unrefs
<1>4. Sound(e)
  <2>1. \A c : Clean(d, c) => Clean(e, c)
    BY DEF Clean, Rest
  <2> QED BY <1>3, <2>1 DEF Sound, Rest
<1>5. Kept(e) = Kept(d) /\ Kept(r) \subseteq BhBase
  BY <1>1 DEF Kept, Rest, State
<1>6. ASSUME NEW c \in BhBase, c # b
      PROVE  Refs(e.obj, c) = Refs(r.obj, c) /\ e.ref_count[c] = r.ref_count[c]
  <2>1. a.base # c /\ r.obj[h].base # c
    BY <1>6, NullAssumption DEF b
  <2>2. Refs(e.obj, c) = Refs(r.obj, c)
    BY <1>2, <1>3, <2>1, Relink
  <2> QED BY <1>1, <1>3, <1>6, <2>2 DEF State
<1>7. /\ Cardinality(Refs(e.obj, b)) = Cardinality(Refs(r.obj, b)) - 1
      /\ Cardinality(Refs(r.obj, b)) # 1 => Refs(e.obj, b) # {}
      /\ Cardinality(Refs(r.obj, b)) = 1 => Refs(e.obj, b) = {}
  <2>1. r.obj[h].base = b /\ a.base # b
    BY <1>2, NullAssumption DEF b
  <2>2. e.obj \in [Handle -> Array]
    BY DEF State
  <2>3. Cardinality(Refs(e.obj, b)) = 0 <=> Refs(e.obj, b) = {}
    BY <1>2, <2>2, Relink
  <2>4. /\ Cardinality(Refs(e.obj, b)) = Cardinality(Refs(r.obj, b)) - 1
        /\ Cardinality(Refs(r.obj, b)) # 1 => Refs(e.obj, b) # {}
    BY <1>2, <1>3, <2>1, Relink
  <2>5. ASSUME Cardinality(Refs(r.obj, b)) = 1 PROVE Refs(e.obj, b) = {}
    <3>1. Cardinality(Refs(e.obj, b)) = 0
      BY <2>4, <2>5
    <3> QED BY <2>3, <3>1
  <2> QED BY <2>4, <2>5
<1>8. e.ref_count[b] = r.ref_count[b] - 1
  BY <1>1, <1>2, <1>3 DEF State
<1>9. ~r.halfway => r.ref_count[b] = Cardinality(Refs(r.obj, b))
  BY <1>1, <1>2 DEF Shared
<1>10. Shared(e)
  <2>1. \A k \in Handle : /\ ~e.obj[k].live => e.obj[k].base = NULL
                          /\ e.obj[k].temp => e.obj[k].base # NULL
    BY <1>1, <1>2, <1>3 DEF Shared
  <2>2. ASSUME ~e.halfway, NEW k \in Handle, e.obj[k].base # NULL
        PROVE  e.obj[k].base \in Kept(e)
    <3>1. k # h /\ e.obj[k] = r.obj[k] /\ ~r.halfway /\ k \in Refs(e.obj, e.obj[k].base)
      BY <1>2, <1>3, <2>2 DEF Rest, Refs
    <3>2. r.obj[k].base \in Kept(r)
      BY <1>1, <2>2, <3>1 DEF Shared
    <3>3. r.obj[k].base = b => r.ref_count[b] # 1
      BY <1>7, <1>9, <3>1
    <3> QED BY <1>3, <1>5, <3>1, <3>2, <3>3
  <2>3. ASSUME ~e.halfway, NEW c \in BhBase
        PROVE  e.ref_count[c] = Cardinality(Refs(e.obj, c))
    <3>1. ~r.halfway
      BY <1>3, <2>3 DEF Rest
    <3>2. CASE c = b
      BY <1>7, <1>8, <1>9, <3>1, <3>2
    <3>3. CASE c # b
      <4>1. r.ref_count[c] = Cardinality(Refs(r.obj, c))
        BY <1>1, <2>3, <3>1 DEF Shared
      <4> QED BY <1>6, <2>3, <3>3, <4>1
    <3> QED BY <3>2, <3>3
  <2>4. ASSUME ~e.failed, NEW c \in Kept(e)
        PROVE  Refs(e.obj, c) # {}
    <3>1. ~r.failed /\ ~r.halfway /\ c \in Kept(r) /\ c \in BhBase
      BY <1>1, <1>3, <1>5, <2>4 DEF Rest, Sound
    <3>2. c = b => r.ref_count[b] # 1
      BY <1>3, <1>5, <2>4
    <3> QED BY <1>1, <1>6, <1>7, <1>9, <3>1, <3>2 DEF Shared
  <2> QED BY <2>1, <2>2, <2>3, <2>4 DEF Shared
<1> QED BY <1>1, <1>3, <1>4, <1>10 DEF Running, Good, Rest

\* execute fails on the way: the program ends, or an assignment is cut short.
LEMMA DropFails ==
  ASSUME NEW r, Running(r), r.ok, NEW h \in Handle, r.obj[h].base # NULL,
         NEW d, d = unref(r, r.obj[h].base), ~d.ok,
         NEW e \in State, e.obj = d.obj, e.heap = d.heap, e.garbage = d.garbage,
         e.queue = d.queue, e.failed = d.failed, ~e.ok,
         e.halfway \/ (e.halfway = d.halfway /\ ~e.up)
  PROVE  Running(e)
<1> DEFINE b == r.obj[h].base
<1>1. Sound(r) /\ Shared(r) /\ r \in State
  BY DEF Running, Good, Sound
<1>2. b \in BhBase /\ (~r.halfway => b \in Kept(r))
  BY <1>1 DEF State, Array, Shared
<1>a. Unrefs(r, b, d)
  BY <1>1, <1>2, Unref
<1> HIDE DEF b
<1>3. Sound(d) /\ d.obj = r.obj /\ d.halfway = r.halfway /\ Kept(d) = Kept(r) /\ d.failed
  BY <1>a DEF Unrefs
<1>4. Sound(e)
  BY <1>3 DEF Sound
<1>5. Kept(e) = Kept(d)
  BY DEF Kept
<1>6. Shared(e)
  BY <1>1, <1>3, <1>5 DEF Shared
<1> QED BY <1>4, <1>6 DEF Running, Good

\* An array without a bh_base is linked to a new one, or to one of another array.
LEMMA Attach ==
  ASSUME NEW r, Running(r), NEW h \in Handle, r.obj[h].base = NULL,
         NEW a \in Array, a.base # NULL, a.live,
         a.base \notin r.heap \/ \E k \in Handle : r.obj[k].base = a.base,
         NEW e \in State, Rest(r, e), ~r.halfway => e.heap = r.heap \union {a.base},
         e.ref_count = [r.ref_count EXCEPT ![a.base] = @ + 1],
         e.obj = [r.obj EXCEPT ![h] = a]
  PROVE  Running(e)
<1> DEFINE b == a.base
<1>1. Sound(r) /\ Shared(r) /\ r \in State
  BY DEF Running, Good, Sound
<1>2. b \in BhBase /\ r.obj \in [Handle -> Array] /\ r.ref_count \in [BhBase -> Int]
  BY <1>1 DEF State, Array
<1>3. a.base = b /\ r.obj[h].base # b
  OBVIOUS
<1> HIDE DEF b
<1>4. ~r.halfway => Kept(e) = Kept(r) \union {b} /\ r.garbage \subseteq r.heap
  BY <1>1, <1>3 DEF Sound, Shared, Kept, Rest
<1>5. Sound(e)
  BY <1>1, <1>3, <1>4 DEF Sound, Clean, Rest
<1>6. ASSUME NEW c \in BhBase, c # b
      PROVE  Refs(e.obj, c) = Refs(r.obj, c) /\ e.ref_count[c] = r.ref_count[c]
  <2>1. a.base # c /\ r.obj[h].base # c
    BY <1>3, <1>6, NullAssumption
  <2>2. Refs(e.obj, c) = Refs(r.obj, c)
    BY <1>2, <2>1, Relink
  <2> QED BY <1>2, <1>3, <1>6, <2>2
<1>7. Cardinality(Refs(e.obj, b)) = Cardinality(Refs(r.obj, b)) + 1 /\ Refs(e.obj, b) # {}
  <2>1. Cardinality(Refs(e.obj, b)) = Cardinality(Refs(r.obj, b)) + 1 /\ h \in Refs(e.obj, b)
    BY <1>2, <1>3, Relink
  <2> QED BY <2>1
<1>8. e.ref_count[b] = r.ref_count[b] + 1
  BY <1>2, <1>3
<1>9. Shared(e)
  <2>1. \A k \in Handle : /\ ~e.obj[k].live => e.obj[k].base = NULL
                          /\ e.obj[k].temp => e.obj[k].base # NULL
    BY <1>1, <1>2 DEF Shared
  <2>2. ~e.halfway => \A k \in Handle : e.obj[k].base # NULL => e.obj[k].base \in Kept(e)
    BY <1>1, <1>2, <1>3, <1>4 DEF Shared, Rest
  <2>3. ~e.halfway /\ e.up => \A c \in BhBase : e.ref_count[c] = Cardinality(Refs(e.obj, c))
    BY <1>1, <1>2, <1>6, <1>7, <1>8 DEF Shared, Rest
  <2>4. ASSUME ~e.failed, NEW c \in Kept(e)
        PROVE  Refs(e.obj, c) # {}
    <3>1. ~r.failed /\ ~r.halfway
      BY <1>1, <2>4 DEF Rest, Sound
    <3>2. c \in BhBase /\ (c # b => c \in Kept(r))
      BY <1>4, <2>4, <3>1 DEF Kept, State
    <3> QED BY <1>1, <1>6, <1>7, <3>1, <3>2 DEF Shared
  <2> QED BY <2>1, <2>2, <2>3, <2>4 DEF Shared
<1> QED BY <1>5, <1>9 DEF Running, Good, Rest

\* The destructor.
LEMMA Destroy ==
  ASSUME NEW r, Running(r), NEW h \in Handle
  PROVE  /\ Running(destroy(r, h))
         /\ destroy(r, h).obj \in {r.obj, [r.obj EXCEPT ![h] = Gone]}
<1> DEFINE b == r.obj[h].base
           d == IF b = NULL THEN r ELSE unref(r, b)
           e == [d EXCEPT !.obj[h] = Gone]
           u == [d EXCEPT !.up = FALSE]
<1>1. destroy(r, h) = IF ~r.ok THEN r ELSE IF d.ok THEN e ELSE u
  BY DEF destroy
<1>2. r \in State /\ Sound(r) /\ Gone \in Array /\ Gone.base = NULL /\ ~Gone.temp
  BY DEF Running, Good, Sound, Gone, Array
<1>3. Sound(d) /\ d \in State /\ d.obj = r.obj
  <2>1. b # NULL => b \in BhBase /\ (~r.halfway => b \in Kept(r))
    BY <1>2 DEF State, Array, Running, Good, Shared
  <2>2. b # NULL => Unrefs(r, b, unref(r, b))
    BY <1>2, <2>1, Unref
  <2> QED BY <1>2, <2>2 DEF Unrefs, Sound
<1>4. d.ok /\ r.ok => Running(e) /\ e.obj = [r.obj EXCEPT ![h] = Gone]
  <2>0. SUFFICES ASSUME d.ok, r.ok
                 PROVE  Running(e) /\ e.obj = [r.obj EXCEPT ![h] = Gone]
    OBVIOUS
  <2>1. CASE b = NULL
    <3> DEFINE o == [r.obj EXCEPT ![h] = Gone]
    <3>1. \A k \in Handle : /\ o[k].base = r.obj[k].base
                            /\ ~o[k].live => o[k].base = NULL
                            /\ o[k].temp => o[k].base # NULL
      BY <1>2, <2>1 DEF State, Running, Good, Shared
    <3>2. o \in [Handle -> Array]
      BY <1>2 DEF State
    <3>3. e = [r EXCEPT !.obj = o]
      BY <2>1
    <3> HIDE DEF e, o
    <3>4. Running(e) /\ e.obj = o
      BY <3>1, <3>2, <3>3, SameLinks DEF Running
    <3> QED BY <3>4 DEF o
  <2>2. CASE b # NULL
    <3>1. e.obj = [d.obj EXCEPT ![h] = Gone] /\ Rest(d, e) /\ e.heap = d.heap /\ e.ref_count = d.ref_count
      BY <1>3 DEF State, Rest
    <3>2. e \in State
      <4> DEFINE o == [d.obj EXCEPT ![h] = Gone]
      <4>1. o \in [Handle -> Array] /\ e = [d EXCEPT !.obj = o]
        BY <1>2, <1>3 DEF State
      <4> HIDE DEF d, o, e
      <4> QED BY <1>3, <4>1 DEF State
    <3>3. d = unref(r, r.obj[h].base) /\ r.obj[h].base # NULL
      BY <2>2
    <3> HIDE DEF d, e, b
    <3> QED BY <1>2, <1>3, <2>0, <3>1, <3>2, <3>3, Drop
  <2> QED BY <2>1, <2>2
<1>5. ~d.ok /\ r.ok => Running(u) /\ u.obj = r.obj
  <2>0. SUFFICES ASSUME ~d.ok, r.ok
                 PROVE  Running(u) /\ u.obj = r.obj
    OBVIOUS
  <2>1. /\ u.obj = d.obj /\ u.heap = d.heap /\ u.garbage = d.garbage /\ u.queue = d.queue
        /\ u.failed = d.failed /\ u.ok = d.ok /\ u.halfway = d.halfway /\ ~u.up
    BY <1>3 DEF State
  <2>2. u \in State
    <3> HIDE DEF d
    <3> QED BY <1>3 DEF State
  <2>3. d = unref(r, r.obj[h].base) /\ r.obj[h].base # NULL
    BY <2>0
  <2> HIDE DEF d, u, b
  <2> QED BY <1>3, <2>0, <2>1, <2>2, <2>3, DropFails
<1> HIDE DEF d, e, u
<1> QED BY <1>1, <1>4, <1>5

\* The operands that are temporaries are deleted, and no other array changes.
LEMMA DeleteTemp ==
  ASSUME NEW r, Running(r), NEW h \in Handle
  PROVE  /\ Running(delete_temp(r, h))
         /\ \A k \in Handle : ~r.obj[k].temp => delete_temp(r, h).obj[k] = r.obj[k]
<1>1. r.obj \in [Handle -> Array]
  BY DEF Running, Good, Sound, State
<1>2. delete_temp(r, h) = IF r.ok /\ r.obj[h].temp THEN destroy(r, h) ELSE r
  BY DEF delete_temp
<1>3. Running(destroy(r, h)) /\ destroy(r, h).obj \in {r.obj, [r.obj EXCEPT ![h] = Gone]}
  BY Destroy
<1> QED BY <1>1, <1>2, <1>3

\* An instruction on arrays that are linked, after which temporaries are deleted.
LEMMA Enqueue ==
  ASSUME NEW r, Running(r), NEW out \in Handle, NEW in1 \in Handle, NEW in2 \in Handle,
         Base(r, out) # NULL, Base(r, in1) # NULL, Base(r, in2) # NULL
  PROVE  /\ Running(enqueue(r, out, in1, in2))
         /\ \A k \in Handle : ~r.obj[k].temp => enqueue(r, out, in1, in2).obj[k] = r.obj[k]
<1> DEFINE p  == push(r, "array", {Base(r, out), Base(r, in1), Base(r, in2)})
           d0 == IF out = in1 THEN p ELSE delete_temp(p, out)
           d1 == delete_temp(d0, in1)
           d2 == IF in2 = in1 THEN d1 ELSE delete_temp(d1, in2)
<1>1. enqueue(r, out, in1, in2) = d2
  BY DEF enqueue
<1>2. Running(p) /\ p.obj = r.obj
  <2>1. Running(p) /\ Extends(r, p)
    BY PushRunning DEF Base
  <2> QED BY <2>1 DEF Extends
<1> HIDE DEF p
<1>3. Running(d0) /\ \A k \in Handle : ~r.obj[k].temp => d0.obj[k] = r.obj[k]
  BY <1>2, DeleteTemp
<1> HIDE DEF d0
<1>4. Running(d1) /\ \A k \in Handle : ~r.obj[k].temp => d1.obj[k] = r.obj[k]
  BY <1>3, DeleteTemp
<1> HIDE DEF d1
<1>5. Running(d2) /\ \A k \in Handle : ~r.obj[k].temp => d2.obj[k] = r.obj[k]
  BY <1>4, DeleteTemp
<1> QED BY <1>1, <1>5

-----------------------------------------------------------------------------
(***************************************************************************)
(* The beginning and the end of an operation.                              *)
(***************************************************************************)
\* Nothing changes but what the next operation is like.
LEMMA SameGood ==
  ASSUME NEW r, Good(r), NEW e \in State, e.obj = r.obj, e.heap = r.heap,
         e.ref_count = r.ref_count, e.garbage = r.garbage, e.queue = r.queue,
         e.data = r.data, e.leaked = r.leaked, e.failed = r.failed,
         e.halfway = r.halfway, e.up => r.up
  PROVE  Good(e)
<1>1. Sound(e)
  BY DEF Good, Sound, Clean
<1>2. Shared(e)
  BY DEF Good, Shared, Kept
<1> QED BY <1>1, <1>2 DEF Good

\* Start.
LEMMA StartRunning ==
  ASSUME IInv, NEW S, NEW f \in BOOLEAN, Ops(S, f)
  PROVE  /\ Running(Start(f)) /\ Start(f).ok /\ rt.up
         /\ Start(f).obj = rt.obj /\ Start(f).heap = rt.heap
<1> DEFINE e == Start(f)
<1>1. rt \in State /\ rt.up
  BY DEF IInv, Good, Sound, Ops
<1>2. e \in State
  BY <1>1 DEF Start, State
<1>3. /\ e.obj = rt.obj /\ e.heap = rt.heap /\ e.ref_count = rt.ref_count
      /\ e.garbage = rt.garbage /\ e.queue = rt.queue /\ e.data = rt.data
      /\ e.leaked = rt.leaked /\ e.failed = rt.failed /\ e.halfway = rt.halfway
      /\ e.up = rt.up /\ e.ok = rt.ok
  BY <1>1 DEF Start, State
<1> HIDE DEF e
<1>4. Good(e)
  BY <1>2, <1>3, SameGood DEF IInv
<1>5. Running(e) /\ e.ok /\ e.obj = rt.obj /\ e.heap = rt.heap
  BY <1>1, <1>3, <1>4 DEF Running, IInv
<1> QED BY <1>1, <1>5 DEF e

\* Lose, for an array or for all.
LEMMA LoseGood ==
  ASSUME NEW r, Good(r), NEW x \in Handle
  PROVE  LET e == Lose(r, x)
         IN  /\ Good(e) /\ (Running(r) => Running(e)) /\ e.obj \in [Handle -> Array] /\ e.ok = r.ok
             /\ \A k \in Handle : /\ e.obj[k].base = r.obj[k].base
                                  /\ e.obj[k].live = r.obj[k].live
                                  /\ e.obj[k].temp = r.obj[k].temp
<1> DEFINE l == r.obj[x].live /\ x \in Temp
           a == [r.obj[x] EXCEPT !.lost = l]
           o == [r.obj EXCEPT ![x] = a]
           e == [r EXCEPT !.obj = o]
<1>1. Lose(r, x) = e
  BY DEF Lose
<1>2. r.obj \in [Handle -> Array] /\ l \in BOOLEAN /\ Shared(r)
  BY DEF Good, Sound, State
<1> HIDE DEF l
<1>3. a \in Array /\ a.base = r.obj[x].base /\ a.live = r.obj[x].live /\ a.temp = r.obj[x].temp
  BY <1>2 DEF Array
<1> HIDE DEF a
<1>4. /\ o \in [Handle -> Array]
      /\ \A k \in Handle : /\ o[k].base = r.obj[k].base
                           /\ o[k].live = r.obj[k].live
                           /\ o[k].temp = r.obj[k].temp
  BY <1>2, <1>3
<1> HIDE DEF o
<1>5. Good(e) /\ (Running(r) => Running(e)) /\ e.obj = o /\ e.ok = r.ok
  BY <1>2, <1>4, SameLinks DEF Shared
<1> HIDE DEF e
<1> QED BY <1>1, <1>4, <1>5

\* ... while an operation runs.
LEMMA LoseRunning ==
  ASSUME NEW r, Running(r), NEW x \in Handle
  PROVE  Running(Lose(r, x)) /\ \A k \in Handle : Lose(r, x).obj[k].base = r.obj[k].base
BY LoseGood DEF Running

\* Result.
LEMMA ResultRunning ==
  ASSUME NEW r, Running(r), NEW t \in Handle, r.obj[t].base # NULL
  PROVE  Running(Result(r, t))
<1> DEFINE a == [r.obj[t] EXCEPT !.temp = r.ok]
           o == [r.obj EXCEPT ![t] = a]
           e == [r EXCEPT !.obj = o]
<1>1. Result(r, t) = e
  BY DEF Result
<1>2. r.obj \in [Handle -> Array] /\ r.ok \in BOOLEAN /\ Shared(r)
  BY DEF Running, Good, Sound, State
<1>3. a \in Array /\ a.base = r.obj[t].base /\ a.live = r.obj[t].live
  BY <1>2 DEF Array
<1> HIDE DEF a
<1>4. /\ o \in [Handle -> Array] /\ o[t] = a
      /\ \A k \in Handle : k # t => o[k] = r.obj[k]
  BY <1>2, <1>3
<1> HIDE DEF o
<1>5. \A k \in Handle : /\ o[k].base = r.obj[k].base
                        /\ ~o[k].live => o[k].base = NULL
                        /\ o[k].temp => o[k].base # NULL
  BY <1>2, <1>3, <1>4 DEF Shared
<1>6. Running(e)
  BY <1>4, <1>5, SameLinks DEF Running
<1> QED BY <1>1, <1>6

\* Done.
LEMMA DoneGood ==
  ASSUME NEW r, Good(r), Done(r)
  PROVE  IInv'
<1> DEFINE lost(h) == IF r.ok THEN r.obj[h] ELSE Lose(r, h).obj[h]
           o == [h \in Handle |-> lost(h)]
           p == [r EXCEPT !.obj = o]
<1>1. rt' = [r EXCEPT !.ok = TRUE, !.fails = FALSE, !.obj = o]
  BY DEF Done
<1>2. r \in State /\ r.obj \in [Handle -> Array] /\ Shared(r)
  BY DEF Good, Sound, State
<1>3. \A h \in Handle : /\ lost(h) \in Array /\ lost(h).base = r.obj[h].base
                        /\ lost(h).live = r.obj[h].live /\ lost(h).temp = r.obj[h].temp
  <2>1. CASE r.ok
    BY <1>2, <2>1
  <2>2. CASE ~r.ok
    <3>1. \A h \in Handle : lost(h) = Lose(r, h).obj[h]
      BY <2>2
    <3> HIDE DEF lost
    <3> QED BY <3>1, LoseGood
  <2> QED BY <2>1, <2>2
<1> HIDE DEF lost
<1>4. o \in [Handle -> Array] /\ \A h \in Handle : o[h] = lost(h)
  BY <1>3
<1> HIDE DEF o
<1>5. \A h \in Handle : /\ o[h].base = r.obj[h].base
                        /\ ~o[h].live => o[h].base = NULL
                        /\ o[h].temp => o[h].base # NULL
  BY <1>2, <1>3, <1>4 DEF Shared
<1>6. Good(p) /\ p.obj = o
  BY <1>4, <1>5, SameLinks
<1>7. rt' \in State
  BY <1>1, <1>2, <1>4 DEF State
<1>8. /\ rt'.obj = p.obj /\ rt'.heap = p.heap /\ rt'.ref_count = p.ref_count
      /\ rt'.garbage = p.garbage /\ rt'.queue = p.queue /\ rt'.data = p.data
      /\ rt'.leaked = p.leaked /\ rt'.failed = p.failed /\ rt'.halfway = p.halfway
      /\ rt'.up = p.up /\ rt'.ok = TRUE
  BY <1>1, <1>2 DEF State
<1> HIDE DEF p
<1>9. Good(rt')
  BY <1>6, <1>7, <1>8, SameGood
<1> QED BY <1>8, <1>9 DEF IInv

\* ... after an operation.
LEMMA DoneIInv ==
  ASSUME NEW r, Running(r), Done(r)
  PROVE  IInv'
BY DoneGood DEF Running

\* h is the array a.
With(r, h, a) == [r EXCEPT !.obj[h] = a]

\* e is r with the array a for h, and b for its bh_base.
Links(r, h, a, b, e) ==
  Running(e) /\ e.ok = r.ok /\ e.obj = [r.obj EXCEPT ![h] = [a EXCEPT !.base = b]]

\* A new array gets a new bh_base.
LEMMA Link ==
  ASSUME NEW r, Running(r), NEW h \in Handle, r.obj[h].base = NULL,
         NEW a \in Array, a.base = NULL, a.live, NEW b \in BhBase, b \notin r.heap
  PROVE  Links(r, h, a, b, link(With(r, h, a), h, b))
<1> DEFINE c == With(r, h, a)
           v == [a EXCEPT !.base = b]
           e == link(c, h, b)
           o == [r.obj EXCEPT ![h] = v]
           n == [r.ref_count EXCEPT ![b] = @ + 1]
<1>1. r \in State /\ r.obj \in [Handle -> Array] /\ r.ref_count \in [BhBase -> Int]
  BY DEF Running, Good, Sound, State
<1>2. v \in Array /\ v.base = b /\ v.live
  BY DEF Array
<1>3. o \in [Handle -> Array] /\ n \in [BhBase -> Int] /\ r.heap \union {b} \in SUBSET BhBase
  BY <1>1, <1>2 DEF State
<1>4. /\ c.obj = [r.obj EXCEPT ![h] = a] /\ c.heap = r.heap /\ c.ref_count = r.ref_count
      /\ Rest(r, c)
  BY <1>1 DEF State, Rest, With
<1>5. c \in State
  <2> DEFINE q == [r.obj EXCEPT ![h] = a]
  <2>1. q \in [Handle -> Array] /\ c = [r EXCEPT !.obj = q]
    BY <1>1 DEF With
  <2> HIDE DEF q, c
  <2> QED BY <1>1, <2>1 DEF State
<1> HIDE DEF c
<1>6. e = [c EXCEPT !.obj = o, !.heap = r.heap \union {b}, !.ref_count = n]
  <2>1. [c.obj EXCEPT ![h].base = b] = o
    BY <1>1, <1>4
  <2>2. e = [c EXCEPT !.obj = [c.obj EXCEPT ![h].base = b], !.heap = c.heap \union {b},
                      !.ref_count = [c.ref_count EXCEPT ![b] = @ + 1]]
    BY DEF link
  <2> QED BY <1>4, <2>1, <2>2
<1> HIDE DEF e, o, n, v
<1>7. e \in State
  BY <1>3, <1>5, <1>6 DEF State
<1>8. e.obj = o /\ e.heap = r.heap \union {b} /\ e.ref_count = n /\ Rest(r, e)
  BY <1>4, <1>5, <1>6 DEF State, Rest
<1>9. Running(e)
  BY <1>2, <1>7, <1>8, NullAssumption, Attach DEF o, n
<1>10. Running(e) /\ e.ok = r.ok /\ e.obj = [r.obj EXCEPT ![h] = v]
  BY <1>8, <1>9 DEF o, Rest
<1> QED BY <1>10 DEF e, v, c, Links

-----------------------------------------------------------------------------
(***************************************************************************)
(* The operations.                                                         *)
(***************************************************************************)
\* In every state, while the program runs.
LEMMA Facts ==
  ASSUME IInv
  PROVE  /\ rt \in State /\ rt.obj \in [Handle -> Array] /\ Temp \subseteq Handle
         /\ \A h \in Handle : /\ ~rt.obj[h].live => rt.obj[h].base = NULL
                              /\ rt.obj[h].temp => rt.obj[h].base # NULL
         /\ Unlinked \in Array /\ Unlinked.base = NULL /\ Unlinked.live /\ ~Unlinked.temp
         /\ [Unlinked EXCEPT !.temp = TRUE] \in Array
         /\ [Unlinked EXCEPT !.temp = TRUE].base = NULL /\ [Unlinked EXCEPT !.temp = TRUE].live
<1>1. Unlinked \in Array /\ Unlinked.base = NULL /\ Unlinked.live /\ ~Unlinked.temp
  BY DEF Unlinked, Gone, Array
<1>2. /\ [Unlinked EXCEPT !.temp = TRUE] \in Array
      /\ [Unlinked EXCEPT !.temp = TRUE].base = NULL /\ [Unlinked EXCEPT !.temp = TRUE].live
  BY <1>1 DEF Array
<1>3. rt \in State /\ rt.obj \in [Handle -> Array] /\ Temp \subseteq Handle
  BY DEF IInv, Good, Sound, State, Handle
<1> QED BY <1>1, <1>2, <1>3 DEF IInv, Good, Shared

\* empty, zeros, ones, value.
LEMMA GenerateIInv ==
  ASSUME IInv, NEW t \in Temp, NEW b \in BhBase \ rt.heap, NEW filled \in BOOLEAN,
         NEW f \in BOOLEAN, generate(t, b, filled, f)
  PROVE  IInv'
<1> DEFINE c == With(Start(f), t, Unlinked)
           r == link(c, t, b)
           p == IF filled THEN push(r, "array", {b}) ELSE r
<1>1. Ops({}, f) /\ ~rt.obj[t].live /\ Done(Result(p, t))
  BY DEF generate, With
<1>2. t \in Handle /\ rt.obj[t].base = NULL
  BY <1>1, Facts
<1>3. Running(Start(f)) /\ Start(f).obj = rt.obj /\ Start(f).heap = rt.heap
  BY <1>1, StartRunning
<1>4. Running(r) /\ r.obj = [rt.obj EXCEPT ![t] = [Unlinked EXCEPT !.base = b]]
  BY <1>2, <1>3, Facts, Link DEF Links
<1> HIDE DEF r
<1>5. r.obj[t].base = b /\ b # NULL
  BY <1>2, <1>4, Facts, NullAssumption DEF Unlinked, Gone
<1>6. Running(push(r, "array", {b})) /\ Extends(r, push(r, "array", {b}))
  BY <1>2, <1>4, <1>5, PushRunning
<1>7. Running(p) /\ p.obj = r.obj
  BY <1>4, <1>6 DEF Extends
<1> HIDE DEF p
<1>8. Running(Result(p, t))
  BY <1>2, <1>5, <1>7, ResultRunning
<1> QED BY <1>1, <1>8, DoneIInv

\* x + y.
LEMMA BinaryIInv ==
  ASSUME IInv, NEW t \in Temp, NEW b \in BhBase \ rt.heap, NEW x \in Handle, NEW y \in Handle,
         NEW bc \in BOOLEAN, NEW f \in BOOLEAN, binary(t, b, x, y, bc, f)
  PROVE  IInv'
<1> DEFINE c == With(Start(f), t, Unlinked)
           r == link(c, t, b)
           views == push(r, "array", {b, Base(r, x), Base(r, y)})
           q == IF bc THEN Lose(Lose(views, x), y) ELSE enqueue(r, t, x, y)
<1>1. /\ Ops({x, y}, f) /\ ~rt.obj[t].live /\ Done(Result(q, t))
      /\ rt.obj[x].base # NULL /\ rt.obj[y].base # NULL
  BY DEF binary, Linked, With
<1>2. t \in Handle /\ rt.obj[t].base = NULL
  BY <1>1, Facts
<1>3. Running(Start(f)) /\ Start(f).obj = rt.obj /\ Start(f).heap = rt.heap
  BY <1>1, StartRunning
<1>4. Running(r) /\ r.obj = [rt.obj EXCEPT ![t] = [Unlinked EXCEPT !.base = b]]
  BY <1>2, <1>3, Facts, Link DEF Links
<1> HIDE DEF r
<1>5. /\ r.obj[t].base = b /\ b # NULL /\ ~r.obj[t].temp
      /\ Base(r, x) = rt.obj[x].base /\ Base(r, y) = rt.obj[y].base
  BY <1>1, <1>2, <1>4, Facts, NullAssumption DEF Unlinked, Gone, Base
<1>6. Running(views) /\ Extends(r, views)
  BY <1>1, <1>2, <1>4, <1>5, PushRunning DEF Base
<1> HIDE DEF views
<1>7. Running(Lose(Lose(views, x), y)) /\ Lose(Lose(views, x), y).obj[t].base = b
  <2>1. Running(Lose(views, x)) /\ Lose(views, x).obj[t].base = b
    BY <1>2, <1>5, <1>6, LoseRunning DEF Extends
  <2> QED BY <1>2, <2>1, LoseRunning
<1>8. Running(enqueue(r, t, x, y)) /\ enqueue(r, t, x, y).obj[t] = r.obj[t]
  <2>1. Base(r, t) # NULL /\ Base(r, x) # NULL /\ Base(r, y) # NULL
    BY <1>1, <1>5 DEF Base
  <2>2. Running(r) /\ t \in Handle
    BY <1>2, <1>4
  <2>3. /\ Running(enqueue(r, t, x, y))
        /\ \A k \in Handle : ~r.obj[k].temp => enqueue(r, t, x, y).obj[k] = r.obj[k]
    BY <2>1, <2>2, Enqueue
  <2> QED BY <1>2, <1>5, <2>3
<1>9. Running(q) /\ q.obj[t].base = b
  BY <1>5, <1>7, <1>8
<1> HIDE DEF q
<1>10. Running(Result(q, t))
  BY <1>2, <1>5, <1>9, ResultRunning
<1> QED BY <1>1, <1>10, DoneIInv

\* scan.
LEMMA ScanIInv ==
  ASSUME IInv, NEW t \in Temp, NEW b \in BhBase \ rt.heap, NEW x \in Handle,
         NEW f \in BOOLEAN, scan(t, b, x, f)
  PROVE  IInv'
<1> DEFINE v == [Unlinked EXCEPT !.temp = TRUE]
           c == With(Start(f), t, v)
           r == link(c, t, b)
<1>1. /\ Ops({x}, f) /\ ~rt.obj[t].live /\ Done(enqueue(r, t, x, x))
      /\ rt.obj[x].base # NULL
  BY DEF scan, Linked, With
<1>2. t \in Handle /\ rt.obj[t].base = NULL /\ v \in Array /\ v.base = NULL /\ v.live
  BY <1>1, Facts
<1>3. Running(Start(f)) /\ Start(f).obj = rt.obj /\ Start(f).heap = rt.heap
  BY <1>1, StartRunning
<1> HIDE DEF v
<1>4. Running(r) /\ r.obj = [rt.obj EXCEPT ![t] = [v EXCEPT !.base = b]]
  <2> DEFINE s == Start(f)
  <2>1. /\ Running(s) /\ t \in Handle /\ s.obj[t].base = NULL /\ s.obj = rt.obj
        /\ v \in Array /\ v.base = NULL /\ v.live /\ b \in BhBase /\ b \notin s.heap
    BY <1>2, <1>3
  <2> HIDE DEF s
  <2>2. Running(r) /\ r.obj = [s.obj EXCEPT ![t] = [v EXCEPT !.base = b]]
    BY <2>1, Link DEF Links, s
  <2> QED BY <2>1, <2>2
<1> HIDE DEF r
<1>5. Base(r, t) # NULL /\ Base(r, x) # NULL
  BY <1>1, <1>2, <1>4, Facts, NullAssumption DEF Array, Base
<1>6. Running(enqueue(r, t, x, x))
  BY <1>2, <1>4, <1>5, Enqueue
<1> QED BY <1>1, <1>6, DoneIInv

\* x = 7.
LEMMA AssignScalarIInv ==
  ASSUME IInv, NEW x \in Handle, NEW b \in BhBase \ rt.heap, NEW f \in BOOLEAN,
         assign_scalar(x, b, f)
  PROVE  IInv'
<1> DEFINE s == Start(f)
           r == IF Linked(x) THEN s ELSE link(s, x, b)
           p == push(r, "array", {Base(r, x)})
<1>1. Ops({x}, f) /\ Done(delete_temp(p, x)) /\ rt.obj[x].live
  BY DEF assign_scalar, Ops
<1>2. Running(s) /\ s.obj = rt.obj /\ s.heap = rt.heap
  BY <1>1, StartRunning
<1> HIDE DEF s
<1>3. Running(r) /\ r.obj[x].base # NULL
  <2>1. CASE Linked(x)
    BY <1>2, <2>1 DEF Linked
  <2>2. CASE ~Linked(x)
    <3>1. rt.obj[x].base = NULL /\ rt.obj[x] \in Array
      BY <2>2, Facts DEF Linked
    <3>2. s = [s EXCEPT !.obj[x] = rt.obj[x]]
      <4>1. [s.obj EXCEPT ![x] = rt.obj[x]] = s.obj /\ s \in State
        BY <1>2, Facts DEF Running, Good, Sound
      <4> QED BY <4>1 DEF State
    <3>3. /\ Running(link(s, x, b))
          /\ link(s, x, b).obj = [rt.obj EXCEPT ![x] = [rt.obj[x] EXCEPT !.base = b]]
      <4> DEFINE a == rt.obj[x]
                 c == With(s, x, a)
      <4>1. /\ Running(s) /\ s.obj[x].base = NULL /\ a \in Array /\ a.base = NULL /\ a.live
            /\ b \in BhBase /\ b \notin s.heap
        BY <1>1, <1>2, <3>1
      <4>2. s = c
        BY <3>2 DEF With
      <4> HIDE DEF a
      <4>3. /\ Running(link(c, x, b))
            /\ link(c, x, b).obj = [s.obj EXCEPT ![x] = [a EXCEPT !.base = b]]
        BY <4>1, Link DEF Links
      <4> HIDE DEF c
      <4> QED BY <1>2, <4>2, <4>3 DEF a
    <3>4. link(s, x, b).obj[x].base = b
      BY <3>1, <3>3, Facts DEF Array
    <3> QED BY <2>2, <3>3, <3>4, NullAssumption
  <2> QED BY <2>1, <2>2
<1> HIDE DEF r
<1>4. Running(p)
  BY <1>3, PushRunning DEF Base
<1> HIDE DEF p
<1>5. Running(delete_temp(p, x))
  BY <1>4, DeleteTemp
<1> QED BY <1>1, <1>5, DoneIInv

\* x += y.
LEMMA UpdateIInv ==
  ASSUME IInv, NEW x \in Handle, NEW y \in Handle, NEW f \in BOOLEAN, update(x, y, f)
  PROVE  IInv'
<1>1. /\ Ops({x, y}, f) /\ Done(enqueue(Start(f), x, x, y))
      /\ rt.obj[x].base # NULL /\ rt.obj[y].base # NULL
  BY DEF update, Linked
<1>2. Running(Start(f)) /\ Start(f).obj = rt.obj
  BY <1>1, StartRunning
<1>3. Running(enqueue(Start(f), x, x, y))
  BY <1>1, <1>2, Enqueue DEF Base
<1> QED BY <1>1, <1>3, DoneIInv

\* sync.
LEMMA SyncIInv ==
  ASSUME IInv, NEW x \in Handle, NEW f \in BOOLEAN, sync(x, f)
  PROVE  IInv'
<1> DEFINE p == push(Start(f), "sync", {rt.obj[x].base})
<1>1. Ops({x}, f) /\ Done(flush(delete_temp(p, x))) /\ rt.obj[x].base # NULL
  BY DEF sync, Linked
<1>2. Running(Start(f)) /\ Start(f).obj = rt.obj
  BY <1>1, StartRunning
<1>3. Running(p)
  BY <1>1, <1>2, PushRunning
<1> HIDE DEF p
<1>4. Running(flush(delete_temp(p, x)))
  BY <1>3, DeleteTemp, FlushRunning
<1> QED BY <1>1, <1>4, DoneIInv

\* scalar.
LEMMA ScalarIInv ==
  ASSUME IInv, NEW x \in Handle, NEW f \in BOOLEAN, scalar(x, f)
  PROVE  IInv'
<1> DEFINE p == push(Start(f), "sync", {rt.obj[x].base})
           r == flush(p)
<1>1. Ops({x}, f) /\ Done(flush(delete_temp(r, x))) /\ rt.obj[x].base # NULL
  BY DEF scalar, Linked
<1>2. Running(Start(f)) /\ Start(f).obj = rt.obj
  BY <1>1, StartRunning
<1>3. Running(p)
  BY <1>1, <1>2, PushRunning
<1> HIDE DEF p
<1>4. Running(r)
  BY <1>3, FlushRunning
<1> HIDE DEF r
<1>5. Running(flush(delete_temp(r, x)))
  BY <1>4, DeleteTemp, FlushRunning
<1> QED BY <1>1, <1>5, DoneIInv

\* x[i] and transpose.
LEMMA SliceIInv ==
  ASSUME IInv, NEW t \in Temp, NEW x \in Handle, NEW tr \in BOOLEAN, slice(t, x, tr)
  PROVE  IInv'
<1> DEFINE b == rt.obj[x].base
           a == [rt.obj[x] EXCEPT !.temp = TRUE]
           o == [rt.obj EXCEPT ![t] = a]
           n == [rt.ref_count EXCEPT ![b] = @ + 1]
           r == [rt EXCEPT !.obj = o, !.ref_count = n]
<1>1. /\ Ops({x}, FALSE) /\ ~rt.obj[t].live /\ b # NULL
      /\ Done(IF tr THEN Lose(r, x) ELSE delete_temp(r, x))
  BY DEF slice, Linked
<1>2. t \in Handle /\ rt.obj[t].base = NULL /\ rt.obj[x].live /\ rt \in State /\ rt.obj[x] \in Array
  BY <1>1, Facts DEF Ops
<1>3. Running(rt)
  BY <1>1 DEF IInv, Running, Ops
<1>4. a \in Array /\ a.base = b /\ a.live
  BY <1>2 DEF Array
<1>5. b \in BhBase /\ (~rt.halfway => b \in rt.heap)
  BY <1>1, <1>2 DEF Array, IInv, Good, Shared, Kept
<1>6. a.base # NULL /\ \E k \in Handle : rt.obj[k].base = a.base
  BY <1>1, <1>4
<1>7. n = [rt.ref_count EXCEPT ![a.base] = @ + 1]
  BY <1>4
<1> HIDE DEF a, b
<1>8. o \in [Handle -> Array] /\ n \in [BhBase -> Int]
  BY <1>2, <1>4, <1>5 DEF State
<1> HIDE DEF o, n
<1>9. r \in State
  BY <1>2, <1>8 DEF State
<1>10. Rest(rt, r) /\ r.heap = rt.heap /\ r.ref_count = n /\ r.obj = o
  BY <1>2 DEF State, Rest
<1> HIDE DEF r
<1>11. ~rt.halfway => r.heap = rt.heap \union {a.base}
  BY <1>4, <1>5, <1>10
<1>12. r.obj = [rt.obj EXCEPT ![t] = a]
  BY <1>10 DEF o
<1>13. Running(r)
  BY <1>2, <1>3, <1>4, <1>6, <1>7, <1>9, <1>10, <1>11, <1>12, Attach
<1>14. Running(Lose(r, x)) /\ Running(delete_temp(r, x))
  BY <1>13, LoseRunning, DeleteTemp
<1> QED BY <1>1, <1>14, DoneIInv

\* x becomes an alias of y.
LEMMA AliasRunning ==
  ASSUME NEW r, Running(r), r.ok, NEW x \in Handle, NEW y \in Handle,
         r.obj[x].live, ~r.obj[x].temp, r.obj[y].base # NULL, r.obj[x].base # r.obj[y].base
  PROVE  Running(alias(r, x, y))
<1> DEFINE bx == r.obj[x].base
           b == r.obj[y].base
           d == IF bx = NULL THEN r ELSE unref(r, bx)
           a == [d EXCEPT !.obj[x].base = b, !.ref_count[b] = @ + 1]
           w == [d EXCEPT !.halfway = TRUE]
<1>1. alias(r, x, y) = IF d.ok THEN delete_temp(a, y) ELSE w
  BY DEF alias, Base
<1>2. /\ r \in State /\ r.obj \in [Handle -> Array] /\ b \in BhBase /\ Sound(r)
      /\ bx # NULL => bx \in BhBase /\ (~r.halfway => bx \in Kept(r))
      /\ ~r.halfway => b \in Kept(r)
  BY DEF Running, Good, Sound, Shared, State, Array
<1>3. bx # NULL => Unrefs(r, bx, unref(r, bx))
  BY <1>2, Unref
<1>4. /\ d \in State /\ d.obj = r.obj /\ d.halfway = r.halfway /\ (bx = NULL => d = r)
      /\ ~d.halfway => b \in d.heap
  BY <1>2, <1>3 DEF Unrefs, Sound, Kept
<1>5. (bx # NULL => d = unref(r, r.obj[x].base)) /\ (bx = NULL => d.ok)
  OBVIOUS
<1>6. d.ok => Running(a)
  <2>0. SUFFICES ASSUME d.ok PROVE Running(a)
    OBVIOUS
  <2> DEFINE z == [r.obj[x] EXCEPT !.base = NULL]
             v == [r.obj[x] EXCEPT !.base = b]
             o == [d.obj EXCEPT ![x] = z]
             u == [d EXCEPT !.obj = o]
             p == [d.obj EXCEPT ![x] = v]
             n == [d.ref_count EXCEPT ![b] = @ + 1]
  <2>1. z \in Array /\ z.base = NULL /\ ~z.temp /\ v \in Array /\ v.base = b /\ v.live
    BY <1>2 DEF Array
  <2>2. a = [d EXCEPT !.obj = p, !.ref_count = n]
    <3>1. [d.obj EXCEPT ![x].base = b] = p
      BY <1>2, <1>4
    <3> HIDE DEF d, p
    <3> QED BY <3>1
  <2> HIDE DEF d, z, v, b, bx
  <2>3. /\ o \in [Handle -> Array] /\ p \in [Handle -> Array] /\ n \in [BhBase -> Int]
        /\ \A k \in Handle : k # x => o[k] = d.obj[k]
        /\ o[x] = z /\ p = [o EXCEPT ![x] = v]
    <3>1. d.obj \in [Handle -> Array] /\ d.ref_count \in [BhBase -> Int]
      BY <1>4 DEF State
    <3>2. n \in [BhBase -> Int]
      BY <1>2, <3>1
    <3>3. o \in [Handle -> Array] /\ p \in [Handle -> Array]
      BY <2>1, <3>1
    <3>4. p = [o EXCEPT ![x] = v]
      BY <3>1
    <3> QED BY <3>1, <3>2, <3>3, <3>4
  <2>4. u.obj = o /\ Rest(d, u) /\ u.heap = d.heap /\ u.ref_count = d.ref_count
    BY <1>4 DEF State, Rest
  <2>5. u \in State /\ a \in State
    <3> HIDE DEF o, p, n, a
    <3> QED BY <1>4, <2>2, <2>3 DEF State
  <2>6. a.obj = p /\ Rest(d, a) /\ a.heap = d.heap /\ a.ref_count = n
    <3> HIDE DEF o, p, n, a
    <3> QED BY <1>4, <2>2 DEF State, Rest
  <2> HIDE DEF u, a, p
  <2>7. Running(u)
    <3>1. CASE bx = NULL
      <4>1. r.obj[x].base = NULL /\ d = r
        BY <1>4, <3>1 DEF bx
      <4>2. \A k \in Handle : /\ o[k].base = r.obj[k].base
                              /\ ~o[k].live => o[k].base = NULL
                              /\ o[k].temp => o[k].base # NULL
        BY <1>4, <2>1, <2>3, <4>1 DEF Running, Good, Shared
      <4>3. u = [r EXCEPT !.obj = o]
        BY <4>1 DEF u
      <4> HIDE DEF o
      <4> QED BY <2>3, <4>2, <4>3, SameLinks DEF Running
    <3>2. CASE bx # NULL
      <4>1. r.obj[x].base # NULL /\ d = unref(r, r.obj[x].base) /\ d.ok
        BY <1>5, <2>0, <3>2 DEF bx
      <4>2. u.obj = [d.obj EXCEPT ![x] = z]
        BY <2>4
      <4> QED BY <2>1, <2>4, <2>5, <4>1, <4>2, Drop
    <3> QED BY <3>1, <3>2
  <2>8. u.obj[x].base = NULL /\ u.obj[y].base = v.base /\ v.base # NULL
    BY <1>4, <2>1, <2>3, <2>4 DEF b
  <2>9. Rest(u, a) /\ a.obj = [u.obj EXCEPT ![x] = v] /\ a.ref_count = [u.ref_count EXCEPT ![v.base] = @ + 1]
    BY <2>1, <2>3, <2>4, <2>6 DEF Rest
  <2>10. ~u.halfway => a.heap = u.heap \union {v.base}
    BY <1>4, <2>1, <2>4, <2>6 DEF Rest
  <2>11. Running(u) /\ u.obj[x].base = NULL /\ v \in Array /\ v.base # NULL /\ v.live
    BY <2>1, <2>7, <2>8
  <2>12. \E k \in Handle : u.obj[k].base = v.base
    BY <2>8
  <2> QED BY <2>5, <2>9, <2>10, <2>11, <2>12, Attach
<1>7. ~d.ok => Running(w)
  <2>0. SUFFICES ASSUME ~d.ok PROVE Running(w)
    OBVIOUS
  <2>1. r.obj[x].base # NULL /\ d = unref(r, r.obj[x].base)
    BY <1>5, <2>0
  <2> HIDE DEF d
  <2>2. w \in State
    BY <1>4 DEF State
  <2>3. /\ w.obj = d.obj /\ w.heap = d.heap /\ w.garbage = d.garbage /\ w.queue = d.queue
        /\ w.failed = d.failed /\ ~w.ok /\ w.halfway
    BY <1>4, <2>0 DEF State
  <2> HIDE DEF w
  <2> QED BY <2>0, <2>1, <2>2, <2>3, DropFails
<1> HIDE DEF d, a, w
<1>8. d.ok => Running(delete_temp(a, y))
  BY <1>6, DeleteTemp
<1> QED BY <1>1, <1>7, <1>8

\* x = y.
LEMMA AssignIInv ==
  ASSUME IInv, NEW x \in Handle, NEW y \in Handle, NEW f \in BOOLEAN, assign(x, y, f)
  PROVE  IInv'
<1> DEFINE r    == Start(f)
           same == Base(r, x) = Base(r, y)
           no   == [r EXCEPT !.ok = FALSE]
           q    == IF rt.obj[x].temp /\ (same => rt.obj[y].temp) THEN enqueue(r, x, y, y)
                   ELSE IF ~same THEN alias(r, x, y)
                   ELSE IF rt.obj[x].temp = rt.obj[y].temp THEN r
                   ELSE no
<1>1. /\ Ops({x, y}, f) /\ Done(q)
      /\ rt.obj[y].base # NULL /\ rt.obj[x].live
  BY DEF assign, Linked, Ops
<1>2. Running(r) /\ r.ok /\ r.obj = rt.obj
  BY <1>1, StartRunning
<1>3. rt.obj[x].temp => rt.obj[x].base # NULL
  BY Facts
<1>4. rt.obj[x].temp => Running(enqueue(r, x, y, y))
  <2>1. rt.obj[x].temp => Base(r, x) # NULL /\ Base(r, y) # NULL
    BY <1>1, <1>2, <1>3 DEF Base
  <2> QED BY <1>2, <2>1, Enqueue
<1>5. ~rt.obj[x].temp /\ ~same => Running(alias(r, x, y))
  <2>1. ~rt.obj[x].temp /\ ~same =>
          r.obj[x].live /\ ~r.obj[x].temp /\ r.obj[y].base # NULL /\ r.obj[x].base # r.obj[y].base
    BY <1>1, <1>2 DEF Base
  <2> HIDE DEF r, same
  <2> QED BY <1>2, <2>1, AliasRunning
<1>6. Running(no)
  <2> HIDE DEF r
  <2>1. r \in State /\ Good(r)
    BY <1>2 DEF Running, Good, Sound
  <2>2. no \in State
    BY <2>1 DEF State
  <2>3. /\ no.obj = r.obj /\ no.heap = r.heap /\ no.ref_count = r.ref_count
        /\ no.garbage = r.garbage /\ no.queue = r.queue /\ no.data = r.data
        /\ no.leaked = r.leaked /\ no.failed = r.failed /\ no.halfway = r.halfway
        /\ no.up = r.up /\ ~no.ok
    BY <2>1 DEF State
  <2> HIDE DEF no
  <2> QED BY <2>1, <2>2, <2>3, SameGood DEF Running
<1> HIDE DEF r, same, no
<1>7. Running(q)
  BY <1>2, <1>4, <1>5, <1>6
<1> HIDE DEF q
<1> QED BY <1>1, <1>7, DoneIInv

\* The data of a bh_base that an array has changes under the bridge.
LEMMA DataRunning ==
  ASSUME NEW r, Running(r), NEW x \in Handle, r.obj[x].base # NULL,
         NEW D, D \subseteq r.data \union {r.obj[x].base}
  PROVE  LET e == [r EXCEPT !.data = D]
         IN  Running(e) /\ e.obj = r.obj /\ e.ok = r.ok
<1> DEFINE e == [r EXCEPT !.data = D]
           b == r.obj[x].base
<1> SUFFICES Running(e) /\ e.obj = r.obj /\ e.ok = r.ok
  OBVIOUS
<1>1. r \in State /\ Sound(r) /\ Shared(r) /\ b \in BhBase
  BY DEF Running, Good, Sound, State, Array
<1>2. D \in SUBSET BhBase
  BY <1>1 DEF State
<1>3. e \in State
  BY <1>1, <1>2 DEF State
<1>4. /\ e.obj = r.obj /\ e.ref_count = r.ref_count
      /\ e.halfway = r.halfway /\ e.up = r.up /\ e.heap = r.heap /\ e.garbage = r.garbage
      /\ e.queue = r.queue /\ e.failed = r.failed /\ e.ok = r.ok
      /\ e.data = D /\ e.leaked = r.leaked
  BY <1>1 DEF State
<1>5. ~r.failed => b \notin r.garbage
  BY <1>1 DEF Sound, Shared, Kept
<1> HIDE DEF e
<1>6. \A c \in r.garbage : ~r.failed => Clean(e, c)
  <2>1. \A c : c # b /\ Clean(r, c) => Clean(e, c)
    BY <1>4 DEF Clean
  <2> QED BY <1>1, <1>5, <2>1 DEF Sound
<1>7. Sound(e)
  BY <1>1, <1>3, <1>4, <1>6 DEF Sound
<1>8. Shared(e)
  BY <1>1, <1>4 DEF Shared, Kept
<1> QED BY <1>4, <1>7, <1>8 DEF Running, Good

\* bh_data_export.
LEMMA ExportIInv ==
  ASSUME IInv, NEW x \in Handle, NEW al \in BOOLEAN, NEW rel \in BOOLEAN, NEW f \in BOOLEAN,
         bh_data_export(x, al, rel, f)
  PROVE  IInv'
<1> DEFINE b == rt.obj[x].base
           synced(r) == flush(push(push(r, "sync", {b}), "discard", {b}))
           s == synced(Start(f))
           given == [s EXCEPT !.data = s.data \union {b}]
           filled == push(given, "array", {b})
           a == IF s.ok /\ b \notin s.data /\ al THEN synced(filled) ELSE s
           taken == [a EXCEPT !.data = a.data \ {b}]
<1>1. Ops({x}, f) /\ b # NULL /\ Done(IF a.ok /\ rel THEN taken ELSE a)
  BY DEF bh_data_export, Linked
<1>2. Running(Start(f)) /\ Start(f).obj = rt.obj
  BY <1>1, StartRunning
<1>3. ASSUME NEW r, Running(r), r.obj = rt.obj
      PROVE  Running(synced(r)) /\ synced(r).obj = rt.obj
  <2> DEFINE p == push(r, "sync", {b})
             q == push(p, "discard", {b})
  <2>1. Running(p) /\ p.obj = rt.obj
    <3>1. \A c \in {b} : c # NULL /\ \E h \in Handle : r.obj[h].base = c
      BY <1>1, <1>3
    <3>2. Running(p) /\ Extends(r, p)
      BY <1>3, <3>1, PushRunning
    <3> QED BY <1>3, <3>2 DEF Extends
  <2> HIDE DEF p
  <2>2. Running(q) /\ q.obj = rt.obj
    <3>1. \A c \in {b} : c # NULL /\ \E h \in Handle : p.obj[h].base = c
      BY <1>1, <2>1
    <3>2. Running(q) /\ Extends(p, q)
      BY <2>1, <3>1, PushRunning
    <3> QED BY <2>1, <3>2 DEF Extends
  <2> HIDE DEF q
  <2>3. Running(flush(q)) /\ flush(q).obj = rt.obj
    BY <2>2, FlushRunning DEF Extends
  <2> QED BY <2>3 DEF p, q
<1> HIDE DEF synced
<1>4. Running(s) /\ s.obj = rt.obj
  BY <1>2, <1>3
<1> HIDE DEF s
<1>5. Running(given) /\ given.obj = rt.obj
  <2>1. s.obj[x].base # NULL /\ s.data \union {b} \subseteq s.data \union {s.obj[x].base}
    BY <1>1, <1>4
  <2> QED BY <1>4, <2>1, DataRunning
<1> HIDE DEF given
<1>6. Running(filled) /\ filled.obj = rt.obj
  BY <1>1, <1>5, PushRunning DEF Extends
<1> HIDE DEF filled
<1>7. Running(a) /\ a.obj = rt.obj
  BY <1>3, <1>4, <1>6
<1> HIDE DEF a
<1>8. Running(taken)
  <2>1. a.obj[x].base # NULL /\ a.data \ {b} \subseteq a.data \union {a.obj[x].base}
    BY <1>1, <1>7
  <2> QED BY <1>7, <2>1, DataRunning
<1> HIDE DEF taken
<1> QED BY <1>1, <1>7, <1>8, DoneIInv

\* A declared array goes out of scope.
LEMMA LeaveIInv ==
  ASSUME IInv, NEW x \in Handle, NEW f \in BOOLEAN, leave(x, f)
  PROVE  IInv'
<1> DEFINE r == destroy(Start(f), x)
           o == [r.obj EXCEPT ![x] = Unlinked]
           e == [r EXCEPT !.obj = o]
<1>1. Ops({x}, f) /\ Done(IF r.up THEN e ELSE r)
  BY DEF leave
<1>2. Running(Start(f)) /\ Start(f).ok /\ Start(f).up /\ Start(f).obj = rt.obj
  BY <1>1, StartRunning DEF Running
<1>3. Running(r)
  BY <1>2, Destroy
<1>4. r.up => r.obj[x].base = NULL
  <2> DEFINE s == Start(f)
             b == s.obj[x].base
             d == IF b = NULL THEN s ELSE unref(s, b)
  <2>1. r = IF d.ok THEN [d EXCEPT !.obj[x] = Gone] ELSE [d EXCEPT !.up = FALSE]
    BY <1>2 DEF destroy
  <2>2. d \in State
    <3>1. s \in State /\ Sound(s) /\ (b # NULL => b \in BhBase /\ (~s.halfway => b \in Kept(s)))
      BY <1>2 DEF Running, Good, Sound, Shared, State, Array
    <3>2. b # NULL => Unrefs(s, b, unref(s, b))
      BY <3>1, Unref
    <3> QED BY <3>1, <3>2 DEF Unrefs, Sound
  <2> HIDE DEF d, r
  <2>3. CASE d.ok
    BY <2>1, <2>2, <2>3 DEF State, Gone
  <2>4. CASE ~d.ok
    BY <2>1, <2>2, <2>4 DEF State
  <2> QED BY <2>3, <2>4
<1> HIDE DEF r
<1>5. r.up => Running(e)
  <2>1. o \in [Handle -> Array] /\ o[x] = Unlinked /\ \A k \in Handle : k # x => o[k] = r.obj[k]
    BY <1>3, Facts DEF Running, Good, Sound, State
  <2> HIDE DEF o
  <2>2. r.up => \A k \in Handle : /\ o[k].base = r.obj[k].base
                                  /\ ~o[k].live => o[k].base = NULL
                                  /\ o[k].temp => o[k].base # NULL
    BY <1>3, <1>4, <2>1, Facts DEF Running, Good, Shared
  <2> QED BY <1>3, <2>1, <2>2, SameLinks DEF Running
<1> HIDE DEF e
<1> QED BY <1>1, <1>3, <1>5, DoneIInv

\* Runtime::flush.
LEMMA FlushIInv ==
  ASSUME IInv, NEW f \in BOOLEAN, Flush(f)
  PROVE  IInv'
<1>1. Ops({}, f) /\ Done(flush(Start(f)))
  BY DEF Flush
<1>2. Running(flush(Start(f)))
  BY <1>1, StartRunning, FlushRunning
<1> QED BY <1>1, <1>2, DoneIInv

\* ~Runtime: there is no operation after it.
LEMMA ShutdownIInv ==
  ASSUME IInv, NEW f \in BOOLEAN, shutdown(f)
  PROVE  IInv'
<1> DEFINE r == flush(Start(f))
           e == [r EXCEPT !.up = FALSE]
<1>1. Ops({}, f) /\ Done(e)
  BY DEF shutdown
<1>2. Running(r)
  BY <1>1, StartRunning, FlushRunning
<1> HIDE DEF r
<1>3. r \in State /\ Good(r)
  BY <1>2 DEF Running, Good, Sound
<1>4. e \in State
  BY <1>3 DEF State
<1>5. /\ e.obj = r.obj /\ e.heap = r.heap /\ e.ref_count = r.ref_count
      /\ e.garbage = r.garbage /\ e.queue = r.queue /\ e.data = r.data
      /\ e.leaked = r.leaked /\ e.failed = r.failed /\ e.halfway = r.halfway
      /\ e.up = FALSE /\ e.ok = r.ok
  BY <1>3 DEF State
<1> HIDE DEF e
<1>6. Good(e)
  BY <1>3, <1>4, <1>5, SameGood
<1> QED BY <1>1, <1>6, DoneGood

-----------------------------------------------------------------------------
\* No array has a bh_base at first.
LEMMA InitIInv == Init => IInv
<1> SUFFICES ASSUME Init PROVE IInv
  OBVIOUS
<1>1. Gone \in Array /\ Gone.base = NULL /\ ~Gone.temp
  BY DEF Gone, Array
<1>2. Unlinked \in Array /\ Unlinked.base = NULL /\ ~Unlinked.temp
  BY DEF Unlinked, Gone, Array
<1>3. /\ rt.obj = [h \in Handle |-> IF h \in Named THEN Unlinked ELSE Gone]
      /\ rt.heap = {} /\ rt.ref_count = [b \in BhBase |-> 0] /\ rt.garbage = {}
      /\ rt.queue = <<>> /\ rt.data = {} /\ rt.leaked = FALSE /\ rt.failed = FALSE
      /\ rt.halfway = FALSE /\ rt.ok = TRUE
  BY DEF Init
<1>4. rt \in State
  <2>1. [h \in Handle |-> IF h \in Named THEN Unlinked ELSE Gone] \in [Handle -> Array]
    BY <1>1, <1>2
  <2>2. [b \in BhBase |-> 0] \in [BhBase -> Int] /\ <<>> \in Seq(Instr)
    OBVIOUS
  <2> QED BY <2>1, <2>2 DEF Init, State
<1>5. Sound(rt)
  BY <1>3, <1>4, QueueAssumption DEF Sound
<1>6. \A h \in Handle : rt.obj[h].base = NULL /\ ~rt.obj[h].temp
  BY <1>1, <1>2, <1>3
<1>7. \A b \in BhBase : rt.ref_count[b] = Cardinality(Refs(rt.obj, b))
  <2>1. \A b \in BhBase : Refs(rt.obj, b) = {}
    BY <1>6, NullAssumption DEF Refs
  <2> QED BY <1>3, <2>1, FS_EmptySet
<1>8. Shared(rt)
  BY <1>3, <1>6, <1>7 DEF Shared, Kept
<1> QED BY <1>3, <1>5, <1>8 DEF IInv, Good

\* Every operation preserves the invariant.
LEMMA NextIInv == IInv /\ [Next]_rt => IInv'
<1> SUFFICES ASSUME IInv, [Next]_rt PROVE IInv'
  OBVIOUS
<1>1. CASE UNCHANGED rt
  BY <1>1 DEF IInv
<1>2. CASE \E t \in Temp, b \in BhBase \ rt.heap, f \in BOOLEAN :
             \/ \E filled \in BOOLEAN : generate(t, b, filled, f)
             \/ \E x, y \in Handle, bc \in BOOLEAN : binary(t, b, x, y, bc, f)
             \/ \E x \in Handle : scan(t, b, x, f)
  BY <1>2, GenerateIInv, BinaryIInv, ScanIInv
<1>3. CASE \E x \in Handle, b \in BhBase \ rt.heap, f \in BOOLEAN : assign_scalar(x, b, f)
  BY <1>3, AssignScalarIInv
<1>4. CASE \E t \in Temp, x \in Handle, tr \in BOOLEAN : slice(t, x, tr)
  BY <1>4, SliceIInv
<1>5. CASE \E f \in BOOLEAN, x, y \in Handle : update(x, y, f) \/ assign(x, y, f)
  BY <1>5, UpdateIInv, AssignIInv
<1>6. CASE \E f \in BOOLEAN, x \in Handle : sync(x, f) \/ scalar(x, f) \/ leave(x, f)
  BY <1>6, SyncIInv, ScalarIInv, LeaveIInv
<1>7. CASE \E f \in BOOLEAN, x \in Handle, al, rel \in BOOLEAN : bh_data_export(x, al, rel, f)
  BY <1>7, ExportIInv
<1>8. CASE \E f \in BOOLEAN : Flush(f) \/ shutdown(f)
  BY <1>8, FlushIInv, ShutdownIInv
<1> QED BY <1>1, <1>2, <1>3, <1>4, <1>5, <1>6, <1>7, <1>8 DEF Next

\* The invariant holds in every behaviour.
LEMMA Invariance == Spec => []IInv
BY InitIInv, NextIInv, PTL DEF Spec

(***************************************************************************)
(* Runtime::guard is called before every instruction that is queued, those *)
(* of destructors included: queue[queue_size++] never leaves the array.    *)
(***************************************************************************)
THEOREM QueueNeverOverflows == Spec => []QueueFits
<1>1. IInv => QueueFits
  BY DEF IInv, Good, Sound, QueueFits
<1> QED BY <1>1, Invariance, PTL

(***************************************************************************)
(* deallocate_meta never deletes a bh_base that an array or a queued       *)
(* instruction refers to, whichever push, flush or destructor leads to it, *)
(* and whether execute fails or not, unless it has cut operator= short.    *)
(***************************************************************************)
THEOREM BasesOutliveTheirUsers == Spec => []NothingDangles
<1>1. IInv => NothingDangles
  BY DEF IInv, Good, Sound, Shared, Kept, NothingDangles, Linked
<1> QED BY <1>1, Invariance, PTL

(***************************************************************************)
(* ref_count is the number of arrays that share a bh_base.                 *)
(***************************************************************************)
THEOREM ReferencesAreCounted == Spec => []RefCountsAgree
<1>1. IInv => RefCountsAgree
  BY DEF IInv, Good, Shared, RefCountsAgree, CountsReferences, Users, Refs
<1> QED BY <1>1, Invariance, PTL

(***************************************************************************)
(* As long as no execute has failed, every bh_base has an array or is      *)
(* waiting to be deleted, and has no data when it is.                      *)
(***************************************************************************)
THEOREM EverythingIsFreed == Spec => []NothingLeaks
<1>1. IInv => NothingLeaks
  BY DEF IInv, Good, Sound, Shared, Kept, NothingLeaks, Users, Refs
<1> QED BY <1>1, Invariance, PTL
=============================================================================
