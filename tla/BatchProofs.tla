----------------------------- MODULE BatchProofs -----------------------------
(***************************************************************************)
(* Proof that the point-to-point messages of the cluster VEM are received  *)
(* by the receives they are meant for and never deadlock, for any number   *)
(* of processes and any sequence of moves.                                 *)
(*                                                                         *)
(* The inductive invariant says where the processes can be relative to     *)
(* each other (InOrder) and which messages are under way (Ordered,         *)
(* Pending, Complete).                                                     *)
(***************************************************************************)
EXTENDS Batch, SequenceTheorems, WellFoundedInduction, TLAPS

InOrder ==
  \A i \in Moves :
    /\ pos[comm[i].to] > i => pos[comm[i].from] > i
    /\ ~buffered /\ pos[comm[i].from] > i => pos[comm[i].to] > i

Increasing(q) == \A j, k \in 1 .. Len(q) : j < k => q[j] < q[k]

\* The messages of a wire are in the order of their moves,
Ordered == \A s, r \in Rank : Increasing(wire[s][r])

\* the sender has passed their moves and the receiver has not,
Pending ==
  \A s, r \in Rank : \A k \in 1 .. Len(wire[s][r]) :
    /\ Between(wire[s][r][k], s, r)
    /\ pos[r] <= wire[s][r][k] /\ wire[s][r][k] < pos[s]

\* and a buffered message of such a move is on the wire.
Complete ==
  buffered =>
    \A s, r \in Rank, i \in Moves :
      Between(i, s, r) /\ pos[r] <= i /\ i < pos[s] =>
        \E k \in 1 .. Len(wire[s][r]) : wire[s][r][k] = i

IInv == TypeOK /\ InOrder /\ Ordered /\ Pending /\ Complete

-----------------------------------------------------------------------------
(***************************************************************************)
(* What TypeOK says about the elements.                                    *)
(***************************************************************************)
LEMMA Types ==
  ASSUME TypeOK
  PROVE  /\ \A i \in Moves : /\ i \in Nat /\ comm[i].from \in Rank /\ comm[i].to \in Rank
                             /\ comm[i].from # comm[i].to
         /\ \A r \in Rank : pos[r] \in Nat
         /\ \A s, r \in Rank : /\ wire[s][r] \in Seq(Moves) /\ Len(wire[s][r]) \in Nat
                               /\ \A k \in 1 .. Len(wire[s][r]) : wire[s][r][k] \in Moves
<1>1. comm \in Seq([from : Rank, to : Rank])
  BY CommsAssumption DEF TypeOK
<1>2. \A i \in 1 .. Len(comm) : comm[i].from # comm[i].to
  BY CommsAssumption DEF TypeOK
<1>3. \A i \in 1 .. Len(comm) : comm[i] \in [from : Rank, to : Rank]
  BY <1>1, ElementOfSeq
<1>4. Len(comm) \in Nat
  BY <1>1
<1>5. \A s, r \in Rank : wire[s][r] \in Seq(Moves)
  BY DEF TypeOK
<1>6. \A s, r \in Rank : \A k \in 1 .. Len(wire[s][r]) : wire[s][r][k] \in Moves
  BY <1>5, ElementOfSeq
<1>7. \A s, r \in Rank : Len(wire[s][r]) \in Nat
  BY <1>5
<1>8. \A r \in Rank : pos[r] \in Nat
  BY <1>4 DEF TypeOK
<1>9. \A i \in Moves : i \in Nat /\ comm[i].from \in Rank /\ comm[i].to \in Rank
  BY <1>3, <1>4 DEF Moves
<1> QED BY <1>2, <1>5, <1>6, <1>7, <1>8, <1>9 DEF Moves

(***************************************************************************)
(* A process that passes a move stays within the sequence or reaches its   *)
(* end.                                                                    *)
(***************************************************************************)
LEMMA NextPos ==
  ASSUME TypeOK, NEW i \in Moves
  PROVE  i + 1 \in 1 .. Len(comm) + 1
<1>1. Len(comm) \in Nat
  BY CommsAssumption DEF TypeOK
<1> QED BY <1>1 DEF Moves

(***************************************************************************)
(* The invariant holds before the first call of batch_flush.               *)
(***************************************************************************)
LEMMA InitIInv == Init => IInv
<1> SUFFICES ASSUME Init PROVE IInv
  OBVIOUS
<1>1. Len(comm) \in Nat
  BY CommsAssumption DEF Init
<1>2. TypeOK
  BY <1>1 DEF Init, TypeOK, Moves
<1>3. InOrder
  BY <1>2, Types DEF Init, InOrder, Moves
<1>4. \A s, r \in Rank : wire[s][r] = <<>>
  BY DEF Init
<1>5. Ordered
  BY <1>4 DEF Ordered, Increasing
<1>6. Pending
  BY <1>4 DEF Pending
<1>7. \A r \in Rank, i \in Moves : ~(i < pos[r])
  BY <1>1 DEF Init, Moves
<1>8. Complete
  BY <1>7 DEF Complete
<1> QED BY <1>2, <1>3, <1>5, <1>6, <1>8 DEF IInv

(***************************************************************************)
(* A process that passes over a move it has no part in.                    *)
(***************************************************************************)
LEMMA SkipIInv ==
  ASSUME IInv, NEW r \in Rank, skip(r)
  PROVE  IInv'
<1>1. /\ pos[r] \in Moves /\ pos[r] \in Nat
      /\ comm[pos[r]].from # r /\ comm[pos[r]].to # r
  BY Types DEF IInv, skip
<1>2. /\ \A q \in Rank : pos'[q] = IF q = r THEN pos[r] + 1 ELSE pos[q]
      /\ wire' = wire /\ comm' = comm /\ buffered' = buffered /\ Moves' = Moves
  BY DEF IInv, TypeOK, skip, Moves
<1>3. TypeOK'
  BY DEF IInv, TypeOK, skip, Moves
<1>4. InOrder'
  <2>1. ASSUME NEW i \in Moves, NEW q \in {comm[i].from, comm[i].to}
        PROVE  pos'[q] > i <=> pos[q] > i
    <3>1. i \in Nat /\ q \in Rank /\ pos[q] \in Nat
      BY Types DEF IInv
    <3>2. q = r => i # pos[r]
      BY <1>1
    <3> QED BY <1>1, <1>2, <3>1, <3>2
  <2> QED BY <1>2, <2>1 DEF IInv, InOrder
<1>5. Ordered'
  BY <1>2 DEF IInv, Ordered, Increasing
<1>6. ASSUME NEW p \in Rank, NEW q \in Rank, NEW i \in Moves, Between(i, p, q)
      PROVE  (pos'[q] <= i <=> pos[q] <= i) /\ (i < pos'[p] <=> i < pos[p])
  <2>1. i \in Nat /\ pos[p] \in Nat /\ pos[q] \in Nat
    BY Types DEF IInv
  <2>2. (p = r => i # pos[r]) /\ (q = r => i # pos[r])
    BY <1>1, <1>6 DEF Between
  <2> QED BY <1>1, <1>2, <2>1, <2>2
<1>7. Pending'
  <2> SUFFICES ASSUME NEW p \in Rank, NEW q \in Rank, NEW k \in 1 .. Len(wire[p][q])
               PROVE  /\ Between(wire[p][q][k], p, q)
                      /\ pos'[q] <= wire[p][q][k] /\ wire[p][q][k] < pos'[p]
    BY <1>2 DEF Pending, Between
  <2>1. wire[p][q][k] \in Moves
    BY Types DEF IInv
  <2> QED BY <2>1, <1>6 DEF IInv, Pending
<1>8. Complete'
  BY <1>2, <1>6 DEF IInv, Complete, Between
<1> QED BY <1>3, <1>4, <1>5, <1>7, <1>8 DEF IInv

(***************************************************************************)
(* Without buffers no message is ever under way.                           *)
(***************************************************************************)
LEMMA Unbuffered ==
  ASSUME IInv, ~buffered, NEW p \in Rank, NEW q \in Rank, NEW k \in 1 .. Len(wire[p][q])
  PROVE  FALSE
<1>1. wire[p][q][k] \in Moves
  BY Types DEF IInv
<1>2. Between(wire[p][q][k], p, q) /\ pos[q] <= wire[p][q][k] /\ wire[p][q][k] < pos[p]
  BY DEF IInv, Pending
<1>3. pos[q] > wire[p][q][k]
  BY <1>1, <1>2 DEF IInv, InOrder, Between
<1> QED BY <1>1, <1>2, <1>3, Types DEF IInv

(***************************************************************************)
(* A sender and a receiver that meet are at the same move, not merely at   *)
(* two moves between the same processes.                                   *)
(***************************************************************************)
LEMMA SameMove ==
  ASSUME IInv, ~buffered, NEW s \in Rank, NEW r \in Rank,
         pos[s] \in Moves, pos[r] \in Moves,
         Between(pos[s], s, r), Between(pos[r], s, r)
  PROVE  pos[s] = pos[r]
<1>1. pos[s] > pos[r] => pos[r] > pos[r]
  BY DEF IInv, InOrder, Between
<1>2. pos[r] > pos[s] => pos[s] > pos[s]
  BY DEF IInv, InOrder, Between
<1>3. pos[s] \in Nat /\ pos[r] \in Nat
  BY Types DEF IInv
<1> QED BY <1>1, <1>2, <1>3

(***************************************************************************)
(* An unbuffered MPI_Send and its MPI_Recv advance both processes at once. *)
(***************************************************************************)
LEMMA MeetIInv ==
  ASSUME IInv, NEW s \in Rank, NEW r \in Rank, meet(s, r)
  PROVE  IInv'
<1>1. ~buffered /\ pos[s] \in Moves /\ pos[s] = pos[r] /\ Between(pos[s], s, r) /\ s # r
  BY SameMove, Types DEF IInv, meet, Between
<1>2. /\ \A q \in Rank : pos'[q] = IF q \in {s, r} THEN pos[s] + 1 ELSE pos[q]
      /\ wire' = wire /\ comm' = comm /\ buffered' = buffered /\ Moves' = Moves
  BY <1>1 DEF IInv, TypeOK, meet, Moves
<1>3. pos[s] + 1 \in 1 .. Len(comm) + 1
  BY <1>1, NextPos DEF IInv
<1>4. TypeOK'
  BY <1>1, <1>2, <1>3 DEF IInv, TypeOK, meet
<1>5. InOrder'
  <2> SUFFICES ASSUME NEW i \in Moves
               PROVE  pos'[comm[i].to] > i <=> pos'[comm[i].from] > i
    BY <1>1, <1>2 DEF InOrder
  <2>1. pos[comm[i].to] > i <=> pos[comm[i].from] > i
    BY <1>1 DEF IInv, InOrder
  <2>2. /\ i \in Nat /\ comm[i].to \in Rank /\ comm[i].from \in Rank
        /\ pos[comm[i].to] \in Nat /\ pos[comm[i].from] \in Nat /\ pos[s] \in Nat
    BY Types DEF IInv
  <2>3. CASE i = pos[s]
    BY <2>2, <2>3, <1>1, <1>2 DEF Between
  <2>4. CASE i # pos[s]
    BY <2>1, <2>2, <2>4, <1>1, <1>2
  <2> QED BY <2>3, <2>4
<1>6. Ordered'
  BY <1>2 DEF IInv, Ordered, Increasing
<1>7. Pending'
  BY <1>1, <1>2, Unbuffered DEF Pending
<1>8. Complete'
  BY <1>1, <1>2 DEF Complete
<1> QED BY <1>4, <1>5, <1>6, <1>7, <1>8 DEF IInv

(***************************************************************************)
(* A buffered send adds the move of the sender at the end of the wire.     *)
(***************************************************************************)
LEMMA SendIInv ==
  ASSUME IInv, NEW s \in Rank, send(s)
  PROVE  IInv'
<1> DEFINE i == pos[s]
           r == comm[i].to
           old == wire[s][r]
           new == Append(old, i)
<1>1. /\ i \in Moves /\ i \in Nat /\ r \in Rank /\ r # s
      /\ Between(i, s, r) /\ buffered
  BY Types DEF IInv, send, Between
<1>2. /\ \A q \in Rank : pos'[q] = IF q = s THEN i + 1 ELSE pos[q]
      /\ \A p, q \in Rank : wire'[p][q] = IF p = s /\ q = r THEN new ELSE wire[p][q]
      /\ comm' = comm /\ buffered' = buffered /\ Moves' = Moves
  BY <1>1 DEF IInv, TypeOK, send, Moves
<1>3. /\ old \in Seq(Moves) /\ Len(old) \in Nat /\ Increasing(old)
      /\ \A k \in 1 .. Len(old) : old[k] \in Moves /\ old[k] \in Nat /\ old[k] < i
  BY <1>1, Types DEF IInv, Ordered, Pending
<1>4. /\ new \in Seq(Moves)
      /\ Len(new) = Len(old) + 1
      /\ new[Len(old) + 1] = i
      /\ \A k \in 1 .. Len(old) : new[k] = old[k]
  <2> HIDE DEF old, i
  <2> QED BY <1>1, <1>3, AppendProperties
<1>5. i + 1 \in 1 .. Len(comm) + 1
  BY <1>1, NextPos DEF IInv
<1>6. TypeOK'
  BY <1>1, <1>2, <1>4, <1>5 DEF IInv, TypeOK, send
<1>7. InOrder'
  <2> SUFFICES ASSUME NEW m \in Moves, pos'[comm[m].to] > m
               PROVE  pos'[comm[m].from] > m
    BY <1>1, <1>2 DEF InOrder
  <2>1. pos[comm[m].to] > m => pos[comm[m].from] > m
    BY DEF IInv, InOrder
  <2>2. /\ m \in Nat /\ comm[m].to \in Rank /\ comm[m].from \in Rank
        /\ pos[comm[m].to] \in Nat /\ pos[comm[m].from] \in Nat
    BY Types DEF IInv
  <2>3. m = i => comm[m].to = r /\ comm[m].from = s
    BY <1>1 DEF Between
  <2> QED BY <2>1, <2>2, <2>3, <1>1, <1>2
<1> HIDE DEF new
<1>8. Increasing(new)
  <2> HIDE DEF old, i
  <2> SUFFICES ASSUME NEW j \in 1 .. Len(new), NEW k \in 1 .. Len(new), j < k
               PROVE  new[j] < new[k]
    BY DEF Increasing
  <2>1. j \in 1 .. Len(old)
    BY <1>3, <1>4
  <2>2. CASE k = Len(old) + 1
    BY <2>1, <2>2, <1>3, <1>4
  <2>3. CASE k \in 1 .. Len(old)
    BY <2>1, <2>3, <1>3, <1>4 DEF Increasing
  <2> QED BY <2>2, <2>3, <1>3, <1>4
<1>9. Ordered'
  <2> SUFFICES ASSUME NEW p \in Rank, NEW q \in Rank PROVE Increasing(wire'[p][q])
    BY DEF Ordered, Increasing
  <2> QED BY <1>2, <1>8 DEF IInv, Ordered
<1>10. pos[r] \in Nat /\ pos[r] <= i
  BY <1>1, Types DEF IInv, InOrder, Between
<1>11. Pending'
  <2> SUFFICES ASSUME NEW p \in Rank, NEW q \in Rank, NEW k \in 1 .. Len(wire'[p][q])
               PROVE  /\ Between(wire'[p][q][k], p, q)
                      /\ pos'[q] <= wire'[p][q][k] /\ wire'[p][q][k] < pos'[p]
    BY <1>2 DEF Pending, Between
  <2>1. CASE p = s /\ q = r
    <3>1. wire'[p][q] = new /\ pos'[q] = pos[q] /\ pos'[p] = i + 1
      BY <2>1, <1>1, <1>2
    <3> HIDE DEF old, i, r
    <3>2. CASE k = Len(old) + 1
      BY <3>1, <3>2, <2>1, <1>1, <1>4, <1>10
    <3>3. CASE k \in 1 .. Len(old)
      <4>1. Between(old[k], s, r) /\ pos[r] <= old[k] /\ old[k] < i /\ old[k] \in Nat
        BY <3>3, <1>1, <1>3 DEF IInv, Pending, old
      <4> QED BY <4>1, <3>1, <3>3, <2>1, <1>1, <1>4
    <3> QED BY <3>1, <3>2, <3>3, <1>3, <1>4
  <2>2. CASE ~(p = s /\ q = r)
    <3> DEFINE w == wire[p][q][k]
    <3>1. wire'[p][q][k] = w /\ k \in 1 .. Len(wire[p][q])
      BY <2>2, <1>2
    <3>2. w \in Moves /\ w \in Nat /\ Between(w, p, q) /\ pos[q] <= w /\ w < pos[p]
      BY <3>1, Types DEF IInv, Pending
    <3>3. pos[p] \in Nat /\ pos[q] \in Nat
      BY Types DEF IInv
    <3>4. q = s => w # i
      BY <3>2, <1>1, Types DEF IInv, Between
    <3> QED BY <3>1, <3>2, <3>3, <3>4, <1>1, <1>2
  <2> QED BY <2>1, <2>2
<1>12. Complete'
  <2> SUFFICES ASSUME NEW p \in Rank, NEW q \in Rank, NEW m \in Moves,
                      Between(m, p, q), pos'[q] <= m, m < pos'[p]
               PROVE  \E k \in 1 .. Len(wire'[p][q]) : wire'[p][q][k] = m
    BY <1>2 DEF Complete, Between
  <2>1. m \in Nat /\ pos[q] \in Nat /\ pos[p] \in Nat
    BY Types DEF IInv
  <2>2. pos[q] <= m
    BY <2>1, <1>1, <1>2
  <2>3. CASE p = s /\ m = i
    <3>1. q = r /\ wire'[p][q] = new
      BY <2>3, <1>1, <1>2 DEF Between
    <3> HIDE DEF old, i
    <3> QED BY <3>1, <2>3, <1>3, <1>4
  <2>4. CASE ~(p = s /\ m = i)
    <3>1. m < pos[p]
      BY <2>1, <2>4, <1>1, <1>2
    <3>2. PICK k \in 1 .. Len(wire[p][q]) : wire[p][q][k] = m
      BY <3>1, <2>2, <1>1 DEF IInv, Complete
    <3>3. CASE p = s /\ q = r
      <4>1. wire'[p][q] = new /\ k \in 1 .. Len(old) /\ old[k] = m
        BY <3>2, <3>3, <1>2
      <4> HIDE DEF old, i
      <4> QED BY <4>1, <1>3, <1>4
    <3>4. CASE ~(p = s /\ q = r)
      BY <3>2, <3>4, <1>2
    <3> QED BY <3>3, <3>4
  <2> QED BY <2>3, <2>4
<1> QED BY <1>6, <1>7, <1>9, <1>11, <1>12 DEF IInv

(***************************************************************************)
(* The head and the tail of a wire.                                        *)
(***************************************************************************)
LEMMA TailFacts ==
  ASSUME NEW S, NEW o \in Seq(S), o # <<>>
  PROVE  /\ Len(o) \in Nat /\ Len(o) >= 1 /\ Head(o) = o[1]
         /\ Tail(o) \in Seq(S) /\ Len(Tail(o)) = Len(o) - 1
         /\ \A k \in 1 .. Len(Tail(o)) : Tail(o)[k] = o[k + 1]
<1>1. Len(o) \in Nat /\ Len(o) >= 1 /\ Head(o) = o[1]
  OBVIOUS
<1>2. Tail(o) \in Seq(S) /\ Len(Tail(o)) = Len(o) - 1
  BY <1>1
<1>3. \A k \in 1 .. Len(Tail(o)) : Tail(o)[k] = o[k + 1]
  BY <1>1, <1>2
<1> QED BY <1>1, <1>2, <1>3

(***************************************************************************)
(* The first message of a wire is the one its receiver is waiting for: a   *)
(* move between the two that the receiver has not reached is later, and    *)
(* the one it is at is complete.                                           *)
(***************************************************************************)
LEMMA FirstIsNext ==
  ASSUME IInv, buffered, NEW r \in Rank, pos[r] \in Moves, comm[pos[r]].to = r,
         wire[comm[pos[r]].from][r] # <<>>
  PROVE  Head(wire[comm[pos[r]].from][r]) = pos[r]
<1> DEFINE s == comm[pos[r]].from
           w == wire[s][r]
<1>1. s \in Rank /\ w \in Seq(Moves) /\ Len(w) \in Nat /\ pos[r] \in Nat
  BY Types DEF IInv
<1>2. Len(w) >= 1 /\ Head(w) = w[1]
  BY <1>1, TailFacts
<1>3. /\ w[1] \in Moves /\ w[1] \in Nat /\ Between(w[1], s, r)
      /\ pos[r] <= w[1] /\ w[1] < pos[s] /\ pos[s] \in Nat
  <2>1. 1 \in 1 .. Len(w)
    BY <1>1, <1>2
  <2> QED BY <2>1, <1>1, Types DEF IInv, Pending
<1>4. Between(pos[r], s, r)
  BY DEF Between
<1> HIDE DEF w, s
<1>a. pos[r] < pos[s]
  BY <1>1, <1>3
<1>5. PICK k \in 1 .. Len(w) : w[k] = pos[r]
  BY <1>1, <1>4, <1>a DEF IInv, Complete, w
<1>6. 1 < k => w[1] < w[k]
  BY <1>1, <1>2 DEF IInv, Ordered, Increasing, w
<1>7. k = 1
  BY <1>1, <1>3, <1>5, <1>6
<1> QED BY <1>2, <1>5, <1>7 DEF w, s

(***************************************************************************)
(* A buffered MPI_Recv takes the first message of the wire.                *)
(***************************************************************************)
LEMMA RecvIInv ==
  ASSUME IInv, NEW r \in Rank, recv(r)
  PROVE  IInv'
<1> DEFINE i == pos[r]
           s == comm[i].from
           old == wire[s][r]
           new == Tail(old)
<1>1. /\ i \in Moves /\ i \in Nat /\ s \in Rank /\ r # s
      /\ Between(i, s, r) /\ buffered /\ old # <<>>
  BY Types DEF IInv, recv, Between
<1>2. /\ \A q \in Rank : pos'[q] = IF q = r THEN i + 1 ELSE pos[q]
      /\ \A p, q \in Rank : wire'[p][q] = IF p = s /\ q = r THEN new ELSE wire[p][q]
      /\ comm' = comm /\ buffered' = buffered /\ Moves' = Moves
  BY <1>1 DEF IInv, TypeOK, recv, Moves
<1>3. old \in Seq(Moves) /\ Len(old) \in Nat /\ Len(old) >= 1 /\ old[1] = i
  <2>1. old \in Seq(Moves) /\ Len(old) \in Nat
    BY <1>1, Types DEF IInv
  <2>2. Head(old) = i
    BY <1>1, FirstIsNext DEF Between
  <2>3. Len(old) >= 1 /\ Head(old) = old[1]
    BY <2>1, <1>1, TailFacts
  <2> QED BY <2>1, <2>2, <2>3
<1>4. /\ new \in Seq(Moves)
      /\ Len(new) = Len(old) - 1
      /\ \A k \in 1 .. Len(new) : new[k] = old[k + 1]
  BY <1>1, <1>3, TailFacts
<1>5. \A k \in 1 .. Len(new) : k \in Nat /\ k + 1 \in 1 .. Len(old) /\ 1 < k + 1
  <2> HIDE DEF new, old, i
  <2> QED BY <1>3, <1>4
<1>6. Increasing(old) /\ \A k \in 1 .. Len(old) : old[k] \in Moves /\ old[k] \in Nat
  BY <1>1, Types DEF IInv, Ordered
<1>7. \A k \in 1 .. Len(new) : new[k] \in Nat /\ i < new[k]
  <2> HIDE DEF new, old, i
  <2> SUFFICES ASSUME NEW k \in 1 .. Len(new) PROVE new[k] \in Nat /\ i < new[k]
    OBVIOUS
  <2>1. k + 1 \in 1 .. Len(old) /\ 1 \in 1 .. Len(old) /\ 1 < k + 1 /\ new[k] = old[k + 1]
    BY <1>3, <1>4, <1>5
  <2>2. old[1] < old[k + 1]
    BY <2>1, <1>6 DEF Increasing
  <2> QED BY <2>1, <2>2, <1>3, <1>6
<1> HIDE DEF new
<1>8. i + 1 \in 1 .. Len(comm) + 1
  BY <1>1, NextPos DEF IInv
<1>9. TypeOK'
  <2>1. pos' \in [Rank -> 1 .. Len(comm) + 1]
    BY <1>8 DEF IInv, TypeOK, recv
  <2>2. wire' \in [Rank -> [Rank -> Seq(Moves)]]
    BY <1>1, <1>4 DEF IInv, TypeOK, recv, new
  <2> QED BY <2>1, <2>2, <1>2 DEF IInv, TypeOK
<1>10. i < pos[s] /\ pos[s] \in Nat
  <2>1. 1 \in 1 .. Len(old)
    BY <1>3
  <2> QED BY <2>1, <1>1, <1>3, Types DEF IInv, Pending
<1>11. InOrder'
  <2> SUFFICES ASSUME NEW m \in Moves, pos'[comm[m].to] > m
               PROVE  pos'[comm[m].from] > m
    BY <1>1, <1>2 DEF InOrder
  <2>1. pos[comm[m].to] > m => pos[comm[m].from] > m
    BY DEF IInv, InOrder
  <2>2. /\ m \in Nat /\ comm[m].to \in Rank /\ comm[m].from \in Rank
        /\ pos[comm[m].to] \in Nat /\ pos[comm[m].from] \in Nat
    BY Types DEF IInv
  <2>3. m = i => comm[m].to = r /\ comm[m].from = s
    BY <1>1 DEF Between
  <2> QED BY <2>1, <2>2, <2>3, <1>1, <1>2, <1>10
<1>12. Ordered'
  <2>1. Increasing(new)
    <3> HIDE DEF old
    <3> SUFFICES ASSUME NEW j \in 1 .. Len(new), NEW k \in 1 .. Len(new), j < k
                 PROVE  new[j] < new[k]
      BY DEF Increasing
    <3>1. j + 1 < k + 1
      BY <1>5
    <3> QED BY <3>1, <1>4, <1>5, <1>6 DEF Increasing
  <2> SUFFICES ASSUME NEW p \in Rank, NEW q \in Rank PROVE Increasing(wire'[p][q])
    BY DEF Ordered, Increasing
  <2> QED BY <2>1, <1>2 DEF IInv, Ordered
<1>13. Pending'
  <2> SUFFICES ASSUME NEW p \in Rank, NEW q \in Rank, NEW k \in 1 .. Len(wire'[p][q])
               PROVE  /\ Between(wire'[p][q][k], p, q)
                      /\ pos'[q] <= wire'[p][q][k] /\ wire'[p][q][k] < pos'[p]
    BY <1>2 DEF Pending, Between
  <2>1. CASE p = s /\ q = r
    <3>1. wire'[p][q] = new /\ pos'[q] = i + 1 /\ pos'[p] = pos[s]
      BY <2>1, <1>1, <1>2
    <3>2. Between(new[k], s, r) /\ new[k] < pos[s] /\ i < new[k] /\ new[k] \in Nat
      BY <3>1, <1>1, <1>4, <1>5, <1>7 DEF IInv, Pending
    <3> HIDE DEF i, s
    <3> QED BY <3>1, <3>2, <2>1, <1>1
  <2>2. CASE ~(p = s /\ q = r)
    <3> DEFINE w == wire[p][q][k]
    <3>1. wire'[p][q][k] = w /\ k \in 1 .. Len(wire[p][q])
      BY <2>2, <1>2
    <3>2. w \in Moves /\ w \in Nat /\ Between(w, p, q) /\ pos[q] <= w /\ w < pos[p]
      BY <3>1, Types DEF IInv, Pending
    <3>3. pos[p] \in Nat /\ pos[q] \in Nat
      BY Types DEF IInv
    <3>4. q = r => w # i
      BY <3>2, <2>2, <1>1 DEF Between
    <3> QED BY <3>1, <3>2, <3>3, <3>4, <1>1, <1>2
  <2> QED BY <2>1, <2>2
<1>14. Complete'
  <2> SUFFICES ASSUME NEW p \in Rank, NEW q \in Rank, NEW m \in Moves,
                      Between(m, p, q), pos'[q] <= m, m < pos'[p]
               PROVE  \E k \in 1 .. Len(wire'[p][q]) : wire'[p][q][k] = m
    BY <1>2 DEF Complete, Between
  <2>1. m \in Nat /\ pos[q] \in Nat /\ pos[p] \in Nat
    BY Types DEF IInv
  <2>2. pos[q] <= m /\ (q = r => m # i)
    BY <2>1, <1>1, <1>2
  <2>3. m < pos[p]
    <3>1. p = r => m # i
      BY <1>1 DEF Between
    <3> QED BY <3>1, <2>1, <1>1, <1>2
  <2>4. PICK k \in 1 .. Len(wire[p][q]) : wire[p][q][k] = m
    BY <2>2, <2>3, <1>1 DEF IInv, Complete
  <2>5. CASE p = s /\ q = r
    <3>1. k # 1 /\ k - 1 \in 1 .. Len(new)
      <4>1. k \in 1 .. Len(old) /\ old[k] # i
        BY <2>2, <2>4, <2>5
      <4> HIDE DEF old, i
      <4> QED BY <4>1, <1>3, <1>4
    <3>2. old[k] = m /\ k \in Nat
      BY <2>4, <2>5
    <3>3. new[k - 1] = m
      <4> HIDE DEF old
      <4>1. new[k - 1] = old[(k - 1) + 1]
        BY <3>1, <1>4
      <4>2. (k - 1) + 1 = k
        BY <3>2
      <4> QED BY <4>1, <4>2, <3>2
    <3> QED BY <3>1, <3>3, <2>5, <1>2
  <2>6. CASE ~(p = s /\ q = r)
    BY <2>4, <2>6, <1>2
  <2> QED BY <2>5, <2>6
<1> QED BY <1>9, <1>11, <1>12, <1>13, <1>14 DEF IInv

-----------------------------------------------------------------------------
(***************************************************************************)
(* The invariant says nothing about steps that change nothing.             *)
(***************************************************************************)
LEMMA UnchangedIInv ==
  ASSUME IInv, UNCHANGED vars
  PROVE  IInv'
<1>1. TypeOK'
  BY DEF IInv, TypeOK, vars, Moves
<1>2. InOrder' /\ Ordered'
  BY DEF IInv, InOrder, Ordered, Increasing, vars, Moves
<1>3. Pending'
  BY DEF IInv, Pending, Between, vars
<1>4. Complete'
  BY DEF IInv, Complete, Between, vars, Moves
<1> QED BY <1>1, <1>2, <1>3, <1>4 DEF IInv

(***************************************************************************)
(* Every step preserves the invariant.                                     *)
(***************************************************************************)
LEMMA NextIInv ==
  ASSUME IInv, [Next]_vars
  PROVE  IInv'
<1>1. CASE Next
  BY <1>1, SkipIInv, SendIInv, RecvIInv, MeetIInv, UnchangedIInv DEF Next, Done
<1>2. CASE UNCHANGED vars
  BY <1>2, UnchangedIInv
<1> QED BY <1>1, <1>2

(***************************************************************************)
(* The invariant implies that a receive gets its own message.              *)
(***************************************************************************)
LEMMA IInvRightMessage ==
  ASSUME IInv
  PROVE  RightMessage
<1> SUFFICES ASSUME NEW r \in Rank, pos[r] \in Moves, comm[pos[r]].to = r
             PROVE  LET s == comm[pos[r]].from
                    IN  /\ wire[s][r] # <<>> => Head(wire[s][r]) = pos[r]
                        /\ ~buffered /\ pos[s] \in Moves /\ Between(pos[s], s, r)
                             => pos[s] = pos[r]
  BY DEF RightMessage
<1> DEFINE s == comm[pos[r]].from
<1>1. s \in Rank /\ wire[s][r] \in Seq(Moves) /\ Len(wire[s][r]) \in Nat
  BY Types DEF IInv
<1>2. wire[s][r] # <<>> => Head(wire[s][r]) = pos[r]
  <2> SUFFICES ASSUME wire[s][r] # <<>> PROVE Head(wire[s][r]) = pos[r]
    OBVIOUS
  <2>1. 1 \in 1 .. Len(wire[s][r])
    BY <1>1
  <2>2. buffered
    BY <2>1, <1>1, Unbuffered
  <2> QED BY <2>2, FirstIsNext
<1>3. ~buffered /\ pos[s] \in Moves /\ Between(pos[s], s, r) => pos[s] = pos[r]
  BY <1>1, SameMove DEF Between
<1> QED BY <1>2, <1>3

(***************************************************************************)
(* The process that is furthest behind can step: nobody is behind the      *)
(* move it is at, so that the partner of that move has arrived at it or,   *)
(* when it only has to send, passed it.                                    *)
(***************************************************************************)
LEMMA IInvNeverStuck ==
  ASSUME IInv
  PROVE  NeverStuck
<1> SUFFICES ASSUME ~Flushed PROVE \E r \in Rank : CanStep(r)
  BY DEF NeverStuck
<1> DEFINE P == {pos[r] : r \in Rank}
<1>1. Len(comm) \in Nat /\ \A r \in Rank : pos[r] \in 1 .. Len(comm) + 1
  BY CommsAssumption DEF IInv, TypeOK
<1>2. P \subseteq Nat /\ P # {}
  BY <1>1, Types DEF IInv, Flushed
<1>3. PICK x \in P : \A y \in P : x <= y
  <2>1. PICK x \in P : \A y \in P : ~(<<y, x>> \in OpToRel(<, Nat))
    BY <1>2, WFMin, NatLessThanWellFounded
  <2> HIDE DEF P
  <2>2. \A y \in P : ~(y < x)
    BY <1>2, <2>1 DEF OpToRel
  <2> QED BY <1>2, <2>2
<1>4. PICK r \in Rank : pos[r] = x
  BY <1>3
<1>5. \A q \in Rank : pos[q] \in Nat /\ pos[r] <= pos[q]
  BY <1>3, <1>4, Types DEF IInv
<1>6. pos[r] \in Moves
  BY <1>1, <1>5 DEF Flushed, Moves
<1> DEFINE i == pos[r]
           f == comm[i].from
           t == comm[i].to
<1>7. f \in Rank /\ t \in Rank /\ i \in Nat /\ pos[f] \in Nat /\ pos[t] \in Nat
  BY <1>6, Types DEF IInv
<1>8. CASE f # r /\ t # r
  BY <1>6, <1>8 DEF CanStep
<1>9. CASE buffered /\ pos[f] = i
  BY <1>6, <1>7, <1>9 DEF CanStep
<1>10. CASE buffered /\ t = r /\ pos[f] # i
  <2>1. i < pos[f] /\ Between(i, f, r)
    BY <1>5, <1>7, <1>10 DEF Between
  <2>2. PICK k \in 1 .. Len(wire[f][r]) : wire[f][r][k] = i
    BY <2>1, <1>6, <1>7, <1>10 DEF IInv, Complete
  <2>3. wire[f][r] # <<>>
    BY <2>2
  <2> QED BY <2>3, <1>6, <1>10 DEF CanStep
<1>11. CASE ~buffered /\ (f = r \/ t = r)
  <2>1. pos[t] > i <=> pos[f] > i
    BY <1>6, <1>11 DEF IInv, InOrder
  <2>2. pos[t] = i /\ pos[f] = i
    BY <2>1, <1>5, <1>7, <1>11
  <2> QED BY <2>2, <1>6, <1>11 DEF CanStep
<1> QED BY <1>8, <1>9, <1>10, <1>11

\* The invariant holds of every state.
LEMMA Inductive == Spec => []IInv
  BY InitIInv, NextIInv, PTL DEF Spec

(***************************************************************************)
(* For any set of processes and any common sequence of moves, with or      *)
(* without buffering, every MPI_Recv of batch_flush gets the message that  *)
(* is meant for it, although all messages have the same tag.               *)
(***************************************************************************)
THEOREM FlushDelivers == Spec => []RightMessage
<1>1. IInv => RightMessage
  BY IInvRightMessage DEF IInv
<1> QED BY Inductive, <1>1, PTL

(***************************************************************************)
(* For any set of processes and any common sequence of moves, with or      *)
(* without buffering, the processes never all block in batch_flush.        *)
(***************************************************************************)
THEOREM FlushNeverBlocks == Spec => []NeverStuck
<1>1. IInv => NeverStuck
  BY IInvNeverStuck DEF IInv
<1> QED BY Inductive, <1>1, PTL
=============================================================================
