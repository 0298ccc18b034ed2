--------------------------- MODULE ClusterProofs ----------------------------
(***************************************************************************)
(* The tables of the cluster: for any number of processes, any arrays and  *)
(* any lists in which a discarded array is not used again, the slaves know *)
(* what the master thinks they know, each slot of a slave has one array,   *)
(* and no local array outlives its slot.                                   *)
(***************************************************************************)
EXTENDS Cluster, TLAPS

Instrs == UNION {Range(bhir) : bhir \in BhIRs}

IsList(list, arys) == list \in Seq(Instruction(arys)) /\ DiscardsAreLast(list)

\* The arrays that a list discards.
Discards(list) == {list[i].out.base : i \in {j \in DOMAIN list : list[j].op = "DISCARD"}}

IsMap(f, S) == f = [x \in S |-> f[x]]
IsSeq(s) == s \in Seq(Range(s))

\* The tables that a process keeps by rank are there for every rank.
Typed ==
  /\ mode \in [Rank -> {"idle", "scatter", "run", "down"}]
  /\ known \subseteq Arys
  /\ m2s \in [Slave -> UNION {[S -> Nat] : S \in SUBSET Arys}]
  /\ s2m \in [Slave -> UNION {[S -> Arys] : S \in SUBSET Nat}]
  /\ store \in [Slave -> [free : Seq(Nat), next : Nat]]
  /\ IsMap(inbox, Slave) /\ \A r \in Slave : IsSeq(inbox[r])
  /\ IsMap(stack, Rank) /\ \A r \in Slave : IsSeq(stack[r])
  /\ IsMap(batch, Rank) /\ \A r \in Slave : IsSeq(batch[r])
  /\ IsMap(ir, Rank) /\ IsMap(local, Rank)

\* The list that the master executes: it knows the arrays of the instructions that are left.
MasterList ==
  /\ IsList(ir[0], Arys) /\ ArysOf(ir[0]) \subseteq known
  /\ mode[0] \in {"idle", "down"} => ir[0] = <<>>

\* Instruction inst of the bridge as a slave has it, with its own arrays, of which map
\* gives the master's.
IsTranslation(map, mine, inst) ==
  /\ mine.op = inst.op /\ mine.n = inst.n /\ Len(mine.ins) = Len(inst.ins)
  /\ \A o \in 1 .. 1 + Len(inst.ins) :
       /\ Views(mine)[o].start = Views(inst)[o].start /\ Views(mine)[o].stride = Views(inst)[o].stride
       /\ map[Views(mine)[o].base] = Views(inst)[o].base

SlaveList(r) ==
  /\ IsList(ir[r], Nat) /\ ArysOf(ir[r]) \subseteq DOMAIN s2m[r]
  /\ mode[r] \in {"idle", "down"} => ir[r] = <<>>
  /\ \A i \in DOMAIN ir[r] : \E inst \in Instrs : IsTranslation(s2m[r], ir[r][i], inst)

\* The two maps are inverse.
Inverses(r) ==
  /\ \A a \in DOMAIN m2s[r] : m2s[r][a] \in DOMAIN s2m[r] /\ s2m[r][m2s[r][a]] = a
  /\ \A h \in DOMAIN s2m[r] : s2m[r][h] \in DOMAIN m2s[r] /\ m2s[r][s2m[r][h]] = h

\* Every slot that was handed out is either in use or free, and free once.
SlotsInUse(r) ==
  LET free == store[r].free
  IN  /\ \A i \in DOMAIN free : free[i] \notin DOMAIN s2m[r]
      /\ DOMAIN s2m[r] \union Range(free) = 0 .. store[r].next - 1
      /\ \A i, j \in DOMAIN free : free[i] = free[j] => i = j

\* The local arrays whose BH_DISCARD waits for the flush.
Doomed(tasks) == {tasks[i].ary : i \in {j \in DOMAIN tasks : tasks[j].task = "DISCARD"}}

\* A local array has a slot, or it goes with the next flush; between two lists nothing is left to flush.
LocalParts(r) ==
  /\ DOMAIN local[r] \subseteq DOMAIN s2m[r] \union Doomed(batch[r])
  /\ mode[r] # "run" => batch[r] = <<>>
  /\ mode[r] # "scatter" => stack[r] = <<>>
  /\ \A i \in DOMAIN stack[r] : stack[r][i].id \in DOMAIN s2m[r]

\* What a slave knows after a message, of what it knows before it.
Ids(darys) == {darys[i].id : i \in DOMAIN darys}

Delivered(m, before, after) ==
  IF m.type # "EXEC" THEN after = before
  ELSE /\ m.bhir \in BhIRs
       /\ m.darys \in Seq([id : Arys, hasdata : BOOLEAN])
       /\ \A i, j \in DOMAIN m.darys : m.darys[i].id = m.darys[j].id => i = j
       /\ Ids(m.darys) \cap before = {}
       /\ ArysOf(m.bhir) \subseteq before \union Ids(m.darys)
       /\ after = (before \union Ids(m.darys)) \ Discards(m.bhir)

\* What a slave knows when it has executed its list.
Kept(r) == DOMAIN m2s[r] \ {s2m[r][h] : h \in Discards(ir[r])}

(***************************************************************************)
(* The slave is behind the master: the messages it has not read lead from  *)
(* what it will know after its list to what the master will take for known *)
(* after the master's.                                                     *)
(***************************************************************************)
Behind(r) ==
  \E K \in [1 .. Len(inbox[r]) + 1 -> SUBSET Arys] :
    /\ K[1] = Kept(r)
    /\ K[Len(inbox[r]) + 1] = known \ Discards(ir[0])
    /\ \A i \in 1 .. Len(inbox[r]) : Delivered(inbox[r][i], K[i], K[i + 1])

SlaveInv(r) == SlaveList(r) /\ Inverses(r) /\ SlotsInUse(r) /\ LocalParts(r) /\ Behind(r)

TablesInv == Typed /\ MasterList /\ \A r \in Slave : SlaveInv(r)

\* mapping_chunks ends and returns a list of chunks.
ChunksAreListed == \A m \in DOMAIN ChunkTable : IsSeq(ChunkTable[m])

-----------------------------------------------------------------------------
(***************************************************************************)
(* Sequences.                                                              *)
(***************************************************************************)
\* A sequence over some set is one over its elements.
LEMMA SeqIsSeq ==
  ASSUME NEW S, NEW s \in Seq(S)
  PROVE  IsSeq(s)
<1>1. Len(s) \in Nat /\ DOMAIN s = 1 .. Len(s) /\ s = [i \in 1 .. Len(s) |-> s[i]]
  OBVIOUS
<1>2. \A i \in 1 .. Len(s) : s[i] \in Range(s)
  BY <1>1 DEF Range
<1> QED BY <1>1, <1>2 DEF IsSeq

\* The elements of a sequence over a set.
LEMMA SeqElements ==
  ASSUME NEW S, NEW s \in Seq(S)
  PROVE  Len(s) \in Nat /\ DOMAIN s = 1 .. Len(s) /\ \A i \in 1 .. Len(s) : s[i] \in S
  OBVIOUS

\* A function on the first n numbers.
LEMMA SeqOver ==
  ASSUME NEW S, NEW n \in Nat, NEW s, s = [i \in 1 .. n |-> s[i]], \A i \in 1 .. n : s[i] \in S
  PROVE  s \in Seq(S) /\ Len(s) = n /\ DOMAIN s = 1 .. n
<1>1. s \in [1 .. n -> S]
  BY Zenon
<1> QED BY <1>1

\* What is known of a sequence.
LEMMA SeqFacts ==
  ASSUME NEW s, IsSeq(s)
  PROVE  /\ Len(s) \in Nat /\ DOMAIN s = 1 .. Len(s)
         /\ s = <<>> <=> Len(s) = 0
         /\ \A i \in 1 .. Len(s) : s[i] \in Range(s)
  BY DEF IsSeq

\* A sequence without its first element.
LEMMA SeqTail ==
  ASSUME NEW s, IsSeq(s), s # <<>>
  PROVE  /\ IsSeq(Tail(s)) /\ Len(Tail(s)) = Len(s) - 1 /\ Len(s) \in Nat \ {0}
         /\ Head(s) = s[1]
         /\ \A i \in 1 .. Len(s) - 1 : Tail(s)[i] = s[i + 1]
<1>1. s \in Seq(Range(s))
  BY DEF IsSeq
<1>2. Tail(s) \in Seq(Range(s))
  BY <1>1
<1>3. IsSeq(Tail(s))
  BY <1>2, SeqIsSeq, Zenon
<1> QED BY <1>1, <1>3

\* The same by the indices of the elements.
LEMMA SeqTailDomain ==
  ASSUME NEW s, IsSeq(s), s # <<>>
  PROVE  /\ 1 \in DOMAIN s
         /\ \A i \in DOMAIN Tail(s) : i + 1 \in DOMAIN s /\ Tail(s)[i] = s[i + 1]
<1> DEFINE t == Tail(s)
<1>1. /\ IsSeq(t) /\ Len(t) = Len(s) - 1 /\ Len(s) \in Nat \ {0}
      /\ \A i \in 1 .. Len(s) - 1 : t[i] = s[i + 1]
  BY SeqTail
<1> HIDE DEF t
<1>2. DOMAIN s = 1 .. Len(s) /\ DOMAIN t = 1 .. Len(s) - 1
  BY <1>1, SeqFacts
<1>3. 1 \in DOMAIN s
  BY <1>1, <1>2
<1>4. \A i \in DOMAIN t : i + 1 \in DOMAIN s
  BY <1>1, <1>2
<1>5. \A i \in DOMAIN t : t[i] = s[i + 1]
  BY <1>1, <1>2
<1> QED BY <1>3, <1>4, <1>5, Zenon DEF t

\* One sequence after another.
LEMMA SeqConcat ==
  ASSUME NEW s, NEW t, IsSeq(s), IsSeq(t)
  PROVE  /\ IsSeq(s \o t) /\ Len(s \o t) = Len(s) + Len(t)
         /\ \A i \in 1 .. Len(s) : (s \o t)[i] = s[i]
         /\ \A i \in 1 .. Len(t) : (s \o t)[Len(s) + i] = t[i]
<1> DEFINE S == Range(s) \union Range(t)
<1>1. s \in Seq(S)
  <2>1. s \in Seq(Range(s)) /\ Range(s) \subseteq S
    BY DEF IsSeq
  <2> HIDE DEF S
  <2> QED BY <2>1
<1>2. t \in Seq(S)
  <2>1. t \in Seq(Range(t)) /\ Range(t) \subseteq S
    BY DEF IsSeq
  <2> HIDE DEF S
  <2> QED BY <2>1
<1> HIDE DEF S
<1>3. s \o t \in Seq(S)
  BY <1>1, <1>2
<1>4. IsSeq(s \o t)
  BY <1>3, SeqIsSeq, Zenon
<1> QED BY <1>1, <1>2, <1>4

\* A sequence of one element.
LEMMA SeqOne ==
  ASSUME NEW e
  PROVE  IsSeq(<<e>>) /\ Len(<<e>>) = 1 /\ <<e>>[1] = e
<1>1. <<e>> \in Seq({e})
  OBVIOUS
<1> QED BY <1>1, SeqIsSeq, Zenon

\* A sequence and one more element.
LEMMA SeqAppend ==
  ASSUME NEW s, NEW e, IsSeq(s)
  PROVE  /\ IsSeq(Append(s, e)) /\ Len(Append(s, e)) = Len(s) + 1
         /\ \A i \in 1 .. Len(s) : Append(s, e)[i] = s[i]
         /\ Append(s, e)[Len(s) + 1] = e
<1> DEFINE S == Range(s) \union {e}
<1>1. s \in Seq(S) /\ e \in S
  <2>1. s \in Seq(Range(s)) /\ Range(s) \subseteq S
    BY DEF IsSeq
  <2>2. e \in S
    OBVIOUS
  <2> HIDE DEF S
  <2> QED BY <2>1, <2>2
<1> HIDE DEF S
<1>2. Append(s, e) \in Seq(S)
  BY <1>1
<1>3. IsSeq(Append(s, e))
  BY <1>2, SeqIsSeq, Zenon
<1> QED BY <1>1, <1>3

-----------------------------------------------------------------------------
(***************************************************************************)
(* Instruction lists.                                                      *)
(***************************************************************************)
\* The arrays of an instruction.
LEMMA InstructionBases ==
  ASSUME NEW A, NEW inst \in Instruction(A)
  PROVE  /\ IsSeq(inst.ins) /\ Len(inst.ins) \in Nat
         /\ Range(Bases(inst)) = {inst.out.base} \union {inst.ins[j].base : j \in 1 .. Len(inst.ins)}
         /\ Range(Bases(inst)) \subseteq A
<1>1. inst.out \in ViewOf(A) /\ inst.ins \in Seq(ViewOf(A))
  BY DEF Instruction
<1>2. IsSeq(inst.ins) /\ Len(inst.ins) \in Nat /\ \A j \in 1 .. Len(inst.ins) : inst.ins[j] \in ViewOf(A)
  BY <1>1, SeqIsSeq
<1>3. inst.out.base \in A /\ \A j \in 1 .. Len(inst.ins) : inst.ins[j].base \in A
  BY <1>1, <1>2 DEF ViewOf
<1> DEFINE o == inst.out.base
           I == [j \in 1 .. Len(inst.ins) |-> inst.ins[j].base]
<1>4. o \in A /\ I \in Seq(A) /\ Len(I) = Len(inst.ins) /\ \A j \in 1 .. Len(I) : I[j] = inst.ins[j].base
  BY <1>2, <1>3
<1>5. Bases(inst) = <<o>> \o I
  BY DEF Bases
<1> HIDE DEF o, I
<1>6. IsSeq(<<o>>) /\ IsSeq(I) /\ Len(<<o>>) = 1 /\ <<o>>[1] = o
  BY <1>4, SeqIsSeq, SeqOne
<1>7. /\ IsSeq(<<o>> \o I) /\ Len(<<o>> \o I) = 1 + Len(I)
      /\ (<<o>> \o I)[1] = o /\ \A j \in 1 .. Len(I) : (<<o>> \o I)[1 + j] = I[j]
  BY <1>6, SeqConcat
<1>8. DOMAIN Bases(inst) = 1 .. 1 + Len(I)
  BY <1>5, <1>7, SeqFacts
<1>9. Range(Bases(inst)) = {o} \union {I[j] : j \in 1 .. Len(I)}
  <2>1. \A k \in 1 .. 1 + Len(I) : k = 1 \/ (k - 1 \in 1 .. Len(I) /\ k = 1 + (k - 1))
    BY <1>2, <1>4
  <2>2. \A k \in 1 .. 1 + Len(I) : Bases(inst)[k] \in {o} \union {I[j] : j \in 1 .. Len(I)}
    BY <1>5, <1>7, <2>1
  <2>3. 1 \in 1 .. 1 + Len(I) /\ \A j \in 1 .. Len(I) : 1 + j \in 1 .. 1 + Len(I)
    BY <1>2, <1>4
  <2>4. Bases(inst)[1] = o /\ \A j \in 1 .. Len(I) : Bases(inst)[1 + j] = I[j]
    BY <1>5, <1>7
  <2>5. Range(Bases(inst)) = {Bases(inst)[k] : k \in 1 .. 1 + Len(I)}
    BY <1>8 DEF Range
  <2> QED BY <2>2, <2>3, <2>4, <2>5
<1>10. {I[j] : j \in 1 .. Len(I)} = {inst.ins[j].base : j \in 1 .. Len(inst.ins)}
  BY <1>4
<1> QED BY <1>2, <1>3, <1>9, <1>10, Zenon DEF o

\* The arrays of a list.
LEMMA ListFacts ==
  ASSUME NEW A, NEW list, IsList(list, A)
  PROVE  /\ IsSeq(list) /\ Len(list) \in Nat /\ DOMAIN list = 1 .. Len(list)
         /\ \A i \in 1 .. Len(list) : list[i] \in Instruction(A) /\ Range(Bases(list[i])) \subseteq ArysOf(list)
         /\ ArysOf(list) \subseteq A /\ Discards(list) \subseteq ArysOf(list)
<1>1. list \in Seq(Instruction(A))
  BY DEF IsList
<1>2. IsSeq(list) /\ Len(list) \in Nat /\ DOMAIN list = 1 .. Len(list)
  BY <1>1, SeqIsSeq
<1>3. \A i \in 1 .. Len(list) : list[i] \in Instruction(A)
  BY <1>1
<1>4. \A i \in 1 .. Len(list) : Range(Bases(list[i])) \subseteq ArysOf(list)
  BY <1>2 DEF ArysOf
<1>5. \A i \in 1 .. Len(list) : Range(Bases(list[i])) \subseteq A /\ list[i].out.base \in Range(Bases(list[i]))
  BY <1>3, InstructionBases
<1>6. ArysOf(list) \subseteq A
  BY <1>2, <1>5 DEF ArysOf
<1>7. Discards(list) \subseteq ArysOf(list)
  BY <1>2, <1>4, <1>5 DEF Discards
<1> QED BY <1>2, <1>3, <1>4, <1>6, <1>7

\* What is left of a list after its first instruction.
LEMMA ListTail ==
  ASSUME NEW A, NEW list, IsList(list, A), list # <<>>
  PROVE  /\ IsList(Tail(list), A) /\ ArysOf(Tail(list)) \subseteq ArysOf(list)
         /\ Head(list) \in Instruction(A) /\ Head(list) = list[1] /\ 1 \in DOMAIN list
         /\ Range(Bases(Head(list))) \subseteq ArysOf(list)
         /\ DOMAIN Tail(list) = 1 .. Len(list) - 1 /\ Len(list) \in Nat
         /\ \A i \in 1 .. Len(list) - 1 : Tail(list)[i] = list[i + 1] /\ i + 1 \in DOMAIN list
         /\ Head(list).op # "DISCARD" => Discards(Tail(list)) = Discards(list)
         /\ Head(list).op = "DISCARD" =>
              /\ Head(list).out.base \in Discards(list)
              /\ Head(list).out.base \notin ArysOf(Tail(list))
              /\ Discards(Tail(list)) = Discards(list) \ {Head(list).out.base}
<1> DEFINE t == Tail(list)
           b == Head(list).out.base
<1>1. IsSeq(list) /\ DOMAIN list = 1 .. Len(list) /\ \A i \in 1 .. Len(list) : list[i] \in Instruction(A) /\ Range(Bases(list[i])) \subseteq ArysOf(list)
  BY ListFacts
<1>2. /\ IsSeq(t) /\ Len(t) = Len(list) - 1 /\ Len(list) \in Nat \ {0} /\ Head(list) = list[1]
      /\ \A i \in 1 .. Len(list) - 1 : t[i] = list[i + 1]
  BY <1>1, SeqTail
<1>3. DOMAIN t = 1 .. Len(list) - 1
  BY <1>2, SeqFacts
<1>4. 1 \in DOMAIN list /\ \A i \in 1 .. Len(list) - 1 : i + 1 \in DOMAIN list
  BY <1>1, <1>2
<1>5. t \in Seq(Instruction(A))
  BY DEF IsList
<1> HIDE DEF t
<1>6. DiscardsAreLast(list)
  BY DEF IsList
<1>7. DiscardsAreLast(t)
  <2> SUFFICES ASSUME NEW i \in DOMAIN t, NEW j \in DOMAIN t, i < j, t[i].op = "DISCARD"
               PROVE  t[i].out.base \notin Range(Bases(t[j]))
    BY DEF DiscardsAreLast
  <2>1. i + 1 \in DOMAIN list /\ j + 1 \in DOMAIN list /\ t[i] = list[i + 1] /\ t[j] = list[j + 1] /\ i + 1 < j + 1
    BY <1>2, <1>3, <1>4
  <2> QED BY <1>6, <2>1 DEF DiscardsAreLast
<1>8. ArysOf(t) \subseteq ArysOf(list)
  BY <1>1, <1>2, <1>3, <1>4 DEF ArysOf
<1>9. Discards(list) = Discards(t) \union (IF list[1].op = "DISCARD" THEN {list[1].out.base} ELSE {})
  <2>1. \A x \in Discards(t) : x \in Discards(list)
    BY <1>2, <1>3, <1>4 DEF Discards
  <2>2. list[1].op = "DISCARD" => list[1].out.base \in Discards(list)
    BY <1>4 DEF Discards
  <2>3. ASSUME NEW i \in DOMAIN list, list[i].op = "DISCARD", i # 1
        PROVE  list[i].out.base \in Discards(t)
    <3>1. i - 1 \in 1 .. Len(list) - 1 /\ t[i - 1] = list[(i - 1) + 1] /\ (i - 1) + 1 = i
      BY <1>1, <1>2, <2>3
    <3> QED BY <1>3, <2>3, <3>1 DEF Discards
  <2>4. \A x \in Discards(list) : x \in Discards(t) \union (IF list[1].op = "DISCARD" THEN {list[1].out.base} ELSE {})
    BY <2>3 DEF Discards
  <2> QED BY <2>1, <2>2, <2>4
<1>10. ASSUME list[1].op = "DISCARD"
       PROVE  list[1].out.base \notin ArysOf(t)
  <2> SUFFICES ASSUME NEW j \in DOMAIN t PROVE list[1].out.base \notin Range(Bases(t[j]))
    BY DEF ArysOf
  <2>1. j + 1 \in DOMAIN list /\ t[j] = list[j + 1] /\ 1 < j + 1
    BY <1>2, <1>3, <1>4
  <2> QED BY <1>4, <1>6, <1>10, <2>1 DEF DiscardsAreLast
<1>11. IsList(t, A)
  BY <1>5, <1>7 DEF IsList
<1>12. Discards(t) \subseteq ArysOf(t)
  BY <1>11, ListFacts
<1> QED BY <1>1, <1>2, <1>3, <1>4, <1>8, <1>9, <1>10, <1>11, <1>12 DEF t

-----------------------------------------------------------------------------
(***************************************************************************)
(* What a step leaves alone.                                               *)
(***************************************************************************)
\* The master is no slave.
LEMMA RankFacts == 0 \in Rank /\ 0 \notin Slave /\ Slave \subseteq Rank /\ Rank = Slave \union {0}
  BY WorldSizeAssumption DEF Rank, Slave

\* The variables of one process.
Own(q) == <<mode[q], m2s[q], s2m[q], store[q], stack[q], ir[q], local[q], batch[q]>>

OwnInv(q) == SlaveList(q) /\ Inverses(q) /\ SlotsInUse(q) /\ LocalParts(q)

\* A step that leaves them alone leaves what is known of them alone.
LEMMA OwnStays ==
  ASSUME NEW q \in Slave, OwnInv(q), Own(q)' = Own(q)
  PROVE  OwnInv(q)' /\ Kept(q)' = Kept(q)
<1>1. /\ mode'[q] = mode[q] /\ m2s'[q] = m2s[q] /\ s2m'[q] = s2m[q] /\ store'[q] = store[q]
      /\ stack'[q] = stack[q] /\ ir'[q] = ir[q] /\ local'[q] = local[q] /\ batch'[q] = batch[q]
  BY DEF Own
<1>2. SlaveList(q)'
  BY <1>1 DEF OwnInv, SlaveList
<1>3. Inverses(q)'
  BY <1>1 DEF OwnInv, Inverses
<1>4. SlotsInUse(q)'
  BY <1>1 DEF OwnInv, SlotsInUse
<1>5. LocalParts(q)'
  BY <1>1 DEF OwnInv, LocalParts
<1>6. Kept(q)' = Kept(q)
  BY <1>1 DEF Kept
<1> QED BY <1>2, <1>3, <1>4, <1>5, <1>6 DEF OwnInv

\* What the slaves will know when they have caught up.
Target == known \ Discards(ir[0])

\* The step neither sends to the slave nor changes what either side will know.
LEMMA BehindStays ==
  ASSUME NEW q \in Slave, Behind(q), inbox'[q] = inbox[q], Kept(q)' = Kept(q), Target' = Target
  PROVE  Behind(q)'
  BY DEF Behind, Target

\* The slave reads its next message.
LEMMA BehindReads ==
  ASSUME NEW q \in Slave, Behind(q), IsSeq(inbox[q]), inbox[q] # <<>>,
         inbox'[q] = Tail(inbox[q]), Target' = Target,
         \A after \in SUBSET Arys : Delivered(Head(inbox[q]), Kept(q), after) => Kept(q)' = after
  PROVE  Behind(q)'
<1> DEFINE n == Len(inbox[q])
<1>1. PICK K \in [1 .. n + 1 -> SUBSET Arys] :
         /\ K[1] = Kept(q)
         /\ K[n + 1] = Target
         /\ \A i \in 1 .. n : Delivered(inbox[q][i], K[i], K[i + 1])
  BY DEF Behind, Target
<1>2. /\ Len(Tail(inbox[q])) = n - 1 /\ n \in Nat \ {0} /\ Head(inbox[q]) = inbox[q][1]
      /\ \A i \in 1 .. n - 1 : Tail(inbox[q])[i] = inbox[q][i + 1]
  BY SeqTail
<1> HIDE DEF n
<1> DEFINE L == [i \in 1 .. n |-> K[i + 1]]
<1>3. L \in [1 .. Len(inbox'[q]) + 1 -> SUBSET Arys]
  BY <1>1, <1>2
<1>4. K[2] \in SUBSET Arys /\ Delivered(inbox[q][1], K[1], K[1 + 1])
  BY <1>1, <1>2
<1>5. L[1] = Kept(q)'
  BY <1>1, <1>2, <1>4
<1>6. L[Len(inbox'[q]) + 1] = Target'
  BY <1>1, <1>2
<1>7. \A i \in 1 .. Len(inbox'[q]) : Delivered(inbox'[q][i], L[i], L[i + 1])
  <2>0. Len(inbox'[q]) = n - 1
    BY <1>2
  <2> SUFFICES ASSUME NEW i \in 1 .. n - 1 PROVE Delivered(Tail(inbox[q])[i], L[i], L[i + 1])
    BY <2>0, Zenon
  <2>1. L[i] = K[i + 1] /\ L[i + 1] = K[(i + 1) + 1] /\ i + 1 \in 1 .. n
    BY <1>2
  <2> QED BY <1>1, <1>2, <2>1
<1> HIDE DEF L
<1> QED BY <1>3, <1>5, <1>6, <1>7 DEF Behind, Target

\* The master sends a message.
LEMMA BehindSends ==
  ASSUME NEW q \in Slave, NEW m, Behind(q), IsSeq(inbox[q]), inbox'[q] = Append(inbox[q], m),
         Kept(q)' = Kept(q), Target' \subseteq Arys, Delivered(m, Target, Target')
  PROVE  Behind(q)'
<1> DEFINE n == Len(inbox[q])
<1>1. PICK K \in [1 .. n + 1 -> SUBSET Arys] :
         /\ K[1] = Kept(q)
         /\ K[n + 1] = Target
         /\ \A i \in 1 .. n : Delivered(inbox[q][i], K[i], K[i + 1])
  BY DEF Behind, Target
<1>2. /\ Len(Append(inbox[q], m)) = n + 1 /\ Append(inbox[q], m)[n + 1] = m
      /\ \A i \in 1 .. n : Append(inbox[q], m)[i] = inbox[q][i]
  BY SeqAppend
<1>3. n \in Nat
  BY SeqFacts
<1> HIDE DEF n
<1> DEFINE T == Target'
           L == [i \in 1 .. n + 2 |-> IF i = n + 2 THEN T ELSE K[i]]
<1>4. T \in SUBSET Arys
  OBVIOUS
<1>5. Delivered(m, Target, T)
  OBVIOUS
<1>t. T = Target'
  OBVIOUS
<1> HIDE DEF T
<1>6. L \in [1 .. Len(inbox'[q]) + 1 -> SUBSET Arys]
  BY <1>1, <1>2, <1>3, <1>4
<1>7. L[1] = Kept(q)'
  BY <1>1, <1>3
<1>8. L[Len(inbox'[q]) + 1] = T
  BY <1>2, <1>3
<1>9. \A i \in 1 .. Len(inbox'[q]) : Delivered(inbox'[q][i], L[i], L[i + 1])
  <2> SUFFICES ASSUME NEW i \in 1 .. n + 1 PROVE Delivered(Append(inbox[q], m)[i], L[i], L[i + 1])
    BY <1>2, Zenon
  <2>1. CASE i = n + 1
    <3>1. L[i] = Target /\ L[i + 1] = T
      BY <1>1, <1>3, <2>1
    <3> QED BY <1>2, <1>5, <2>1, <3>1
  <2>2. CASE i # n + 1
    <3>1. i \in 1 .. n /\ L[i] = K[i] /\ L[i + 1] = K[i + 1]
      BY <1>3, <2>2
    <3> QED BY <1>1, <1>2, <3>1
  <2> QED BY <2>1, <2>2, Zenon
<1> HIDE DEF L
<1> QED BY <1>6, <1>7, <1>8, <1>9, <1>t DEF Behind, Target

\* A step of one process.
LEMMA StepOfOne ==
  ASSUME TablesInv, NEW r \in Rank, Typed', MasterList', Target' = Target,
         \A q \in Slave \ {r} : Own(q)' = Own(q) /\ inbox'[q] = inbox[q],
         r \in Slave => SlaveInv(r)'
  PROVE  TablesInv'
<1>1. ASSUME NEW q \in Slave \ {r} PROVE SlaveInv(q)'
  <2>1. OwnInv(q) /\ Behind(q)
    BY DEF TablesInv, SlaveInv, OwnInv
  <2>2. Own(q)' = Own(q) /\ inbox'[q] = inbox[q]
    OBVIOUS
  <2>3. OwnInv(q)' /\ Kept(q)' = Kept(q)
    BY <2>1, <2>2, OwnStays
  <2>4. Behind(q)'
    BY <2>1, <2>2, <2>3, BehindStays
  <2> QED BY <2>3, <2>4 DEF SlaveInv, OwnInv
<1>2. \A q \in Slave : SlaveInv(q)'
  BY <1>1
<1> QED BY <1>2 DEF TablesInv

\* The tables of a slave stay.
LEMMA TablesStay ==
  ASSUME NEW r \in Slave, SlaveInv(r), m2s' = m2s, s2m' = s2m, store' = store
  PROVE  Inverses(r)' /\ SlotsInUse(r)'
<1>1. Inverses(r)'
  BY DEF SlaveInv, Inverses
<1>2. SlotsInUse(r)'
  BY DEF SlaveInv, SlotsInUse
<1> QED BY <1>1, <1>2

\* The list of a slave stays.
LEMMA SlaveListStays ==
  ASSUME NEW r \in Slave, SlaveInv(r), m2s' = m2s, s2m' = s2m, ir'[r] = ir[r],
         mode'[r] \in {"idle", "down"} => ir[r] = <<>>
  PROVE  SlaveList(r)' /\ Kept(r)' = Kept(r)
<1>1. SlaveList(r)'
  BY DEF SlaveInv, SlaveList
<1>2. Kept(r)' = Kept(r)
  BY DEF Kept
<1> QED BY <1>1, <1>2

\* A slave goes on to the next instruction of its list.
LEMMA SlaveListTail ==
  ASSUME NEW r \in Slave, SlaveInv(r), m2s' = m2s, s2m' = s2m, mode'[r] = mode[r],
         ir[r] # <<>>, ir'[r] = Tail(ir[r]), Head(ir[r]).op # "DISCARD"
  PROVE  SlaveList(r)' /\ Kept(r)' = Kept(r)
<1>1. IsList(ir[r], Nat) /\ ArysOf(ir[r]) \subseteq DOMAIN s2m[r]
  BY DEF SlaveInv, SlaveList
<1>2. /\ IsList(Tail(ir[r]), Nat) /\ ArysOf(Tail(ir[r])) \subseteq ArysOf(ir[r])
      /\ Discards(Tail(ir[r])) = Discards(ir[r])
      /\ DOMAIN Tail(ir[r]) = 1 .. Len(ir[r]) - 1
      /\ \A i \in 1 .. Len(ir[r]) - 1 : Tail(ir[r])[i] = ir[r][i + 1] /\ i + 1 \in DOMAIN ir[r]
  BY <1>1, ListTail, Zenon
<1>3. \A i \in DOMAIN Tail(ir[r]) : \E inst \in Instrs : IsTranslation(s2m[r], Tail(ir[r])[i], inst)
  BY <1>2 DEF SlaveInv, SlaveList
<1>4. mode'[r] \notin {"idle", "down"}
  BY DEF SlaveInv, SlaveList
<1>5. \A i \in DOMAIN ir'[r] : \E inst \in Instrs : IsTranslation(s2m'[r], ir'[r][i], inst)
  BY <1>3
<1>6. SlaveList(r)'
  BY <1>1, <1>2, <1>4, <1>5 DEF SlaveList
<1>7. Kept(r)' = Kept(r)
  BY <1>2 DEF Kept
<1> QED BY <1>6, <1>7

\* The list of the master stays.
LEMMA MasterListStays ==
  ASSUME MasterList, known' = known, ir'[0] = ir[0], mode'[0] \in {"idle", "down"} => ir[0] = <<>>
  PROVE  MasterList' /\ Target' = Target
  BY DEF MasterList, Target

\* The master goes on to the next instruction of its list.
LEMMA MasterListTail ==
  ASSUME MasterList, known' = known, mode'[0] = mode[0],
         ir[0] # <<>>, ir'[0] = Tail(ir[0]), Head(ir[0]).op # "DISCARD"
  PROVE  MasterList' /\ Target' = Target
<1>1. IsList(ir[0], Arys) /\ ArysOf(ir[0]) \subseteq known
  BY DEF MasterList
<1>2. /\ IsList(Tail(ir[0]), Arys) /\ ArysOf(Tail(ir[0])) \subseteq ArysOf(ir[0])
      /\ Discards(Tail(ir[0])) = Discards(ir[0])
  BY <1>1, ListTail
<1>3. mode'[0] \notin {"idle", "down"}
  BY DEF MasterList
<1> QED BY <1>1, <1>2, <1>3 DEF MasterList, Target

-----------------------------------------------------------------------------
(***************************************************************************)
(* The steps of a process between two lists and during the flush.          *)
(***************************************************************************)
\* exec_execute begins when the new arrays are all distributed.
LEMMA ExecuteKeeps ==
  ASSUME TablesInv, NEW r \in Rank, exec_execute(r)
  PROVE  TablesInv'
<1>1. Typed /\ MasterList /\ \A q \in Slave : SlaveInv(q)
  BY DEF TablesInv
<1>2. mode[r] = "scatter" /\ stack[r] = <<>> /\ mode' = [mode EXCEPT ![r] = "run"]
  BY DEF exec_execute
<1>3. known' = known /\ m2s' = m2s /\ s2m' = s2m /\ store' = store /\ stack' = stack /\ ir' = ir /\ local' = local /\ batch' = batch /\ inbox' = inbox
  BY DEF exec_execute, maps, comm
<1>4. mode \in [Rank -> {"idle", "scatter", "run", "down"}]
  BY <1>1 DEF Typed
<1>5. mode' \in [Rank -> {"idle", "scatter", "run", "down"}] /\ mode'[r] = "run" /\ \A q \in Rank \ {r} : mode'[q] = mode[q]
  BY <1>2, <1>4
<1>6. Typed'
  BY <1>1, <1>3, <1>5 DEF Typed
<1>7. MasterList' /\ Target' = Target
  <2>1. mode'[0] \in {"idle", "down"} => mode[0] \in {"idle", "down"}
    BY <1>5, RankFacts
  <2> QED BY <1>1, <1>3, <2>1, MasterListStays DEF MasterList
<1>8. \A q \in Slave \ {r} : Own(q)' = Own(q) /\ inbox'[q] = inbox[q]
  BY <1>3, <1>5, RankFacts DEF Own
<1>9. ASSUME r \in Slave PROVE SlaveInv(r)'
  <2>1. SlaveInv(r)
    BY <1>1, <1>9
  <2>2. SlaveList(r)' /\ Kept(r)' = Kept(r)
    BY <1>3, <1>5, <1>9, <2>1, SlaveListStays
  <2>3. Inverses(r)' /\ SlotsInUse(r)'
    BY <1>3, <1>9, <2>1, TablesStay
  <2>4. LocalParts(r)'
    BY <1>2, <1>3, <1>5, <2>1 DEF SlaveInv, LocalParts
  <2>5. Behind(r)'
    BY <1>3, <1>7, <1>9, <2>1, <2>2, BehindStays DEF SlaveInv
  <2> QED BY <2>2, <2>3, <2>4, <2>5 DEF SlaveInv
<1> QED BY <1>6, <1>7, <1>8, <1>9, StepOfOne

\* exec_return: the list and its tasks are at their end.
LEMMA ReturnKeeps ==
  ASSUME TablesInv, NEW r \in Rank, exec_return(r)
  PROVE  TablesInv'
<1>1. Typed /\ MasterList /\ \A q \in Slave : SlaveInv(q)
  BY DEF TablesInv
<1>2. mode[r] = "run" /\ ir[r] = <<>> /\ batch[r] = <<>> /\ mode' = [mode EXCEPT ![r] = "idle"]
  BY DEF exec_return
<1>3. known' = known /\ m2s' = m2s /\ s2m' = s2m /\ store' = store /\ stack' = stack /\ ir' = ir /\ local' = local /\ batch' = batch /\ inbox' = inbox
  BY DEF exec_return, maps, comm
<1>4. mode \in [Rank -> {"idle", "scatter", "run", "down"}]
  BY <1>1 DEF Typed
<1>5. mode' \in [Rank -> {"idle", "scatter", "run", "down"}] /\ mode'[r] = "idle" /\ \A q \in Rank \ {r} : mode'[q] = mode[q]
  BY <1>2, <1>4
<1>6. Typed'
  BY <1>1, <1>3, <1>5, Zenon DEF Typed
<1>7. MasterList' /\ Target' = Target
  <2>1. mode'[0] \in {"idle", "down"} => ir[0] = <<>>
    BY <1>1, <1>2, <1>5, RankFacts DEF MasterList
  <2> QED BY <1>1, <1>3, <2>1, MasterListStays
<1>8. \A q \in Slave \ {r} : Own(q)' = Own(q) /\ inbox'[q] = inbox[q]
  BY <1>3, <1>5, RankFacts DEF Own
<1>9. ASSUME r \in Slave PROVE SlaveInv(r)'
  <2>1. SlaveInv(r)
    BY <1>1, <1>9
  <2>2. SlaveList(r)' /\ Kept(r)' = Kept(r)
    BY <1>2, <1>3, <1>5, <1>9, <2>1, SlaveListStays
  <2>3. Inverses(r)' /\ SlotsInUse(r)'
    BY <1>3, <1>9, <2>1, TablesStay
  <2>4. LocalParts(r)'
    BY <1>2, <1>3, <1>5, <2>1 DEF SlaveInv, LocalParts
  <2>5. Behind(r)'
    BY <1>3, <1>7, <1>9, <2>1, <2>2, BehindStays DEF SlaveInv
  <2> QED BY <2>2, <2>3, <2>4, <2>5 DEF SlaveInv
<1> QED BY <1>6, <1>7, <1>8, <1>9, StepOfOne

\* A task is flushed: only its local array can change, and a BH_DISCARD removes it.
LEMMA FlushKeeps ==
  ASSUME TablesInv, NEW r \in Rank, Flushing(r), batch' = [batch EXCEPT ![r] = Tail(@)],
         UNCHANGED <<mode, known, m2s, s2m, store, stack, ir, inbox>>,
         IsMap(local', Rank), \A q \in Rank \ {r} : local'[q] = local[q],
         DOMAIN local'[r] \subseteq DOMAIN local[r],
         Head(batch[r]).task = "DISCARD" => Head(batch[r]).ary \notin DOMAIN local'[r]
  PROVE  TablesInv'
<1>1. Typed /\ MasterList /\ \A q \in Slave : SlaveInv(q)
  BY DEF TablesInv
<1>2. mode[r] = "run" /\ batch[r] # <<>>
  BY DEF Flushing
<1>3. mode' = mode /\ known' = known /\ m2s' = m2s /\ s2m' = s2m /\ store' = store /\ stack' = stack /\ ir' = ir /\ inbox' = inbox
  OBVIOUS
<1>4. IsMap(batch, Rank) /\ \A q \in Slave : IsSeq(batch[q])
  BY <1>1 DEF Typed
<1>5. IsMap(batch', Rank) /\ batch'[r] = Tail(batch[r]) /\ \A q \in Rank \ {r} : batch'[q] = batch[q]
  BY <1>4, Zenon DEF IsMap
<1>6. \A q \in Slave : IsSeq(batch'[q])
  <2> SUFFICES ASSUME NEW q \in Slave PROVE IsSeq(batch'[q])
    OBVIOUS
  <2>1. q \in Rank /\ IsSeq(batch[q])
    BY <1>4, RankFacts, Zenon
  <2>2. CASE q = r
    BY <1>2, <1>5, <2>1, <2>2, SeqTail, Zenon
  <2>3. CASE q # r
    BY <1>5, <2>1, <2>3, Zenon
  <2> QED BY <2>2, <2>3, Zenon
<1>7. Typed'
  BY <1>1, <1>3, <1>5, <1>6, Zenon DEF Typed
<1>8. MasterList' /\ Target' = Target
  BY <1>1, <1>3, MasterListStays, Zenon DEF MasterList
<1>9. \A q \in Slave \ {r} : Own(q)' = Own(q) /\ inbox'[q] = inbox[q]
  BY <1>3, <1>5, RankFacts, Zenon DEF Own
<1>10. ASSUME r \in Slave PROVE SlaveInv(r)'
  <2>1. SlaveInv(r)
    BY <1>1, <1>10, Zenon
  <2>2. SlaveList(r)' /\ Kept(r)' = Kept(r)
    <3>1. mode'[r] \in {"idle", "down"} => ir[r] = <<>>
      BY <1>2, <1>3
    <3> QED BY <1>3, <1>10, <2>1, <3>1, SlaveListStays
  <2>3. Inverses(r)' /\ SlotsInUse(r)'
    BY <1>3, <1>10, <2>1, TablesStay
  <2>4. Behind(r)'
    BY <1>3, <1>8, <1>10, <2>1, <2>2, BehindStays DEF SlaveInv
  <2>5. LocalParts(r)
    BY <2>1 DEF SlaveInv
  <2>6. DOMAIN local'[r] \subseteq DOMAIN s2m[r] \union Doomed(Tail(batch[r]))
    <3>1. IsSeq(batch[r])
      BY <1>4, <1>10
    <3>2. /\ IsSeq(Tail(batch[r])) /\ Len(Tail(batch[r])) = Len(batch[r]) - 1 /\ Len(batch[r]) \in Nat \ {0}
          /\ Head(batch[r]) = batch[r][1]
          /\ \A i \in 1 .. Len(batch[r]) - 1 : Tail(batch[r])[i] = batch[r][i + 1]
      BY <1>2, <3>1, SeqTail
    <3>3. DOMAIN batch[r] = 1 .. Len(batch[r]) /\ DOMAIN Tail(batch[r]) = 1 .. Len(batch[r]) - 1
      BY <3>1, <3>2, SeqFacts
    <3>4. ASSUME NEW i \in DOMAIN batch[r], batch[r][i].task = "DISCARD", i # 1
          PROVE  batch[r][i].ary \in Doomed(Tail(batch[r]))
      <4>1. i - 1 \in DOMAIN Tail(batch[r]) /\ (i - 1) + 1 = i
        BY <3>2, <3>3, <3>4
      <4>2. Tail(batch[r])[i - 1] = batch[r][i]
        BY <3>2, <3>3, <4>1
      <4> QED BY <3>4, <4>1, <4>2 DEF Doomed
    <3>5. \A a \in Doomed(batch[r]) : a \in Doomed(Tail(batch[r])) \/ (batch[r][1].task = "DISCARD" /\ a = batch[r][1].ary)
      BY <3>4 DEF Doomed
    <3>6. DOMAIN local[r] \subseteq DOMAIN s2m[r] \union Doomed(batch[r])
      BY <2>5 DEF LocalParts
    <3> QED BY <3>2, <3>5, <3>6
  <2>7. LocalParts(r)'
    BY <1>2, <1>3, <1>5, <2>5, <2>6 DEF LocalParts
  <2> QED BY <2>2, <2>3, <2>4, <2>7, Zenon DEF SlaveInv
<1> QED BY <1>7, <1>8, <1>9, <1>10, StepOfOne

\* batch_flush sends: only the task is gone.
LEMMA FlushSendKeeps ==
  ASSUME TablesInv, NEW r \in Rank, flush_send(r)
  PROVE  TablesInv'
<1>1. UNCHANGED <<mode, known, m2s, s2m, store, stack, ir, local, inbox>>
  BY DEF flush_send, maps
<1>2. Flushing(r) /\ Head(batch[r]).task = "SEND" /\ batch' = [batch EXCEPT ![r] = Tail(@)]
  BY DEF flush_send
<1>3. IsMap(local', Rank)
  BY <1>1, Zenon DEF TablesInv, Typed
<1> QED BY <1>1, <1>2, <1>3, FlushKeeps, Zenon

\* batch_flush receives: only the task is gone.
LEMMA FlushRecvKeeps ==
  ASSUME TablesInv, NEW r \in Rank, flush_recv(r)
  PROVE  TablesInv'
<1>1. UNCHANGED <<mode, known, m2s, s2m, store, stack, ir, local, inbox>>
  BY Zenon DEF flush_recv, maps
<1>2. Flushing(r) /\ Head(batch[r]).task = "RECV" /\ batch' = [batch EXCEPT ![r] = Tail(@)]
  BY DEF flush_recv
<1>3. IsMap(local', Rank)
  BY <1>1 DEF TablesInv, Typed
<1> QED BY <1>1, <1>2, <1>3, FlushKeeps, Zenon

\* batch_flush executes: a local array goes only with its BH_DISCARD.
LEMMA FlushInstKeeps ==
  ASSUME TablesInv, NEW r \in Rank, flush_inst(r)
  PROVE  TablesInv'
<1> DEFINE t == Head(batch[r])
<1>1. UNCHANGED <<mode, known, m2s, s2m, store, stack, ir, inbox>>
  BY DEF flush_inst, maps, comm
<1>2. Flushing(r) /\ batch' = [batch EXCEPT ![r] = Tail(@)]
  BY DEF flush_inst
<1>3. IsMap(local, Rank)
  BY Zenon DEF TablesInv, Typed
<1>4. \/ t.task # "DISCARD" /\ local' = local
      \/ t.task # "DISCARD" /\ \E d : local' = [local EXCEPT ![r][t.ary] = d]
      \/ t.task = "DISCARD" /\ local' = array_rm_local(r, t)
  BY Zenon DEF flush_inst
<1> HIDE DEF t
<1>5. /\ IsMap(local', Rank) /\ \A q \in Rank \ {r} : local'[q] = local[q]
      /\ DOMAIN local'[r] \subseteq DOMAIN local[r]
      /\ t.task = "DISCARD" => t.ary \notin DOMAIN local'[r]
  <2>1. CASE t.task # "DISCARD" /\ local' = local
    BY <1>3, <2>1
  <2>2. CASE t.task # "DISCARD" /\ \E d : local' = [local EXCEPT ![r][t.ary] = d]
    <3>1. PICK d : local' = [local EXCEPT ![r][t.ary] = d]
      BY <2>2, Zenon
    <3>2. local' = [local EXCEPT ![r] = [local[r] EXCEPT ![t.ary] = d]]
      BY <3>1
    <3>3. IsMap(local', Rank) /\ local'[r] = [local[r] EXCEPT ![t.ary] = d] /\ \A q \in Rank \ {r} : local'[q] = local[q]
      BY <1>3, <3>2, Zenon DEF IsMap
    <3> QED BY <2>2, <3>3
  <2>3. CASE t.task = "DISCARD" /\ local' = array_rm_local(r, t)
    <3>1. local' = [local EXCEPT ![r] = Restrict(local[r], DOMAIN local[r] \ {t.ary})]
      BY <2>3 DEF array_rm_local
    <3>2. IsMap(local', Rank) /\ local'[r] = Restrict(local[r], DOMAIN local[r] \ {t.ary}) /\ \A q \in Rank \ {r} : local'[q] = local[q]
      BY <1>3, <3>1 DEF IsMap
    <3> QED BY <3>2 DEF Restrict
  <2> QED BY <1>4, <2>1, <2>2, <2>3
<1> QED BY <1>1, <1>2, <1>5, FlushKeeps, Zenon DEF t

-----------------------------------------------------------------------------
(***************************************************************************)
(* The steps through a list.                                               *)
(***************************************************************************)
\* An instruction other than BH_DISCARD.
LEMMA InstructionKeeps ==
  ASSUME TablesInv, NEW r \in Rank, mode[r] = "run", ir[r] # <<>>, Head(ir[r]).op # "DISCARD",
         ir' = [ir EXCEPT ![r] = Tail(@)],
         UNCHANGED <<mode, known, m2s, s2m, store, stack, inbox>>,
         IsMap(local', Rank), \A q \in Rank \ {r} : local'[q] = local[q],
         IsMap(batch', Rank), \A q \in Rank \ {r} : batch'[q] = batch[q],
         r \in Slave => IsSeq(batch'[r]) /\ DOMAIN local'[r] \subseteq DOMAIN s2m[r] \union Doomed(batch'[r])
  PROVE  TablesInv'
<1>1. Typed /\ MasterList /\ \A q \in Slave : SlaveInv(q)
  BY DEF TablesInv
<1>2. mode' = mode /\ known' = known /\ m2s' = m2s /\ s2m' = s2m /\ store' = store /\ stack' = stack /\ inbox' = inbox
  OBVIOUS
<1>3. IsMap(ir, Rank) /\ \A q \in Slave : IsSeq(batch[q])
  BY <1>1 DEF Typed
<1>4. IsMap(ir', Rank) /\ ir'[r] = Tail(ir[r]) /\ \A q \in Rank \ {r} : ir'[q] = ir[q]
  BY <1>3, Zenon DEF IsMap
<1>5. \A q \in Slave : IsSeq(batch'[q])
  BY <1>3, RankFacts, Zenon
<1>6. Typed'
  BY <1>1, <1>2, <1>4, <1>5, Zenon DEF Typed
<1>7. MasterList' /\ Target' = Target
  <2>1. CASE r = 0
    <3>1. ir[0] # <<>> /\ ir'[0] = Tail(ir[0]) /\ Head(ir[0]).op # "DISCARD"
      BY <1>4, <2>1, Zenon
    <3> QED BY <1>1, <1>2, <3>1, MasterListTail, Zenon
  <2>2. CASE r # 0
    <3>1. ir'[0] = ir[0] /\ (mode'[0] \in {"idle", "down"} => ir[0] = <<>>)
      BY <1>1, <1>2, <1>4, <2>2, RankFacts, Zenon DEF MasterList
    <3> QED BY <1>1, <1>2, <3>1, MasterListStays, Zenon
  <2> QED BY <2>1, <2>2, Zenon
<1>8. \A q \in Slave \ {r} : Own(q)' = Own(q) /\ inbox'[q] = inbox[q]
  BY <1>2, <1>4, RankFacts, Zenon DEF Own
<1>9. ASSUME r \in Slave PROVE SlaveInv(r)'
  <2>1. SlaveInv(r)
    BY <1>1, <1>9, Zenon
  <2>2. SlaveList(r)' /\ Kept(r)' = Kept(r)
    BY <1>2, <1>4, <1>9, <2>1, SlaveListTail, Zenon
  <2>3. Inverses(r)' /\ SlotsInUse(r)'
    BY <1>2, <1>9, <2>1, TablesStay, Zenon
  <2>4. Behind(r)'
    BY <1>2, <1>7, <1>9, <2>1, <2>2, BehindStays, Zenon DEF SlaveInv
  <2>5. LocalParts(r)
    BY <2>1, Zenon DEF SlaveInv
  <2>6. LocalParts(r)'
    BY <1>2, <1>9, <2>5 DEF LocalParts
  <2> QED BY <2>2, <2>3, <2>4, <2>6, Zenon DEF SlaveInv
<1> QED BY <1>6, <1>7, <1>8, <1>9, StepOfOne

\* More tasks doom no fewer arrays.
LEMMA DoomedGrows ==
  ASSUME NEW s, NEW t, IsSeq(s), IsSeq(t)
  PROVE  IsSeq(s \o t) /\ Doomed(s) \subseteq Doomed(s \o t) /\ Doomed(t) \subseteq Doomed(s \o t)
<1>1. /\ IsSeq(s \o t) /\ Len(s \o t) = Len(s) + Len(t)
      /\ \A i \in 1 .. Len(s) : (s \o t)[i] = s[i]
      /\ \A i \in 1 .. Len(t) : (s \o t)[Len(s) + i] = t[i]
  BY SeqConcat
<1>2. Len(s) \in Nat /\ Len(t) \in Nat /\ DOMAIN s = 1 .. Len(s) /\ DOMAIN t = 1 .. Len(t)
  BY SeqFacts
<1>3. DOMAIN (s \o t) = 1 .. Len(s) + Len(t)
  BY <1>1, SeqFacts
<1> DEFINE u == s \o t
<1>4. \A i \in DOMAIN s : i \in DOMAIN u /\ u[i] = s[i]
  BY <1>1, <1>2, <1>3
<1>5. \A i \in DOMAIN t : Len(s) + i \in DOMAIN u /\ u[Len(s) + i] = t[i]
  BY <1>1, <1>2, <1>3
<1> HIDE DEF u
<1>6. Doomed(s) \subseteq Doomed(u)
  BY <1>4 DEF Doomed
<1>7. Doomed(t) \subseteq Doomed(u)
  <2> SUFFICES ASSUME NEW i \in DOMAIN t, t[i].task = "DISCARD" PROVE t[i].ary \in Doomed(u)
    BY DEF Doomed
  <2>1. Len(s) + i \in DOMAIN u /\ u[Len(s) + i] = t[i]
    BY <1>5
  <2> QED BY <2>1 DEF Doomed
<1> QED BY <1>1, <1>6, <1>7 DEF u

\* One more task.
LEMMA DoomedAppend ==
  ASSUME NEW s, NEW t, IsSeq(s)
  PROVE  /\ IsSeq(Append(s, t)) /\ Doomed(s) \subseteq Doomed(Append(s, t))
         /\ t.task = "DISCARD" => t.ary \in Doomed(Append(s, t))
<1>1. /\ IsSeq(Append(s, t)) /\ Len(Append(s, t)) = Len(s) + 1
      /\ \A i \in 1 .. Len(s) : Append(s, t)[i] = s[i]
      /\ Append(s, t)[Len(s) + 1] = t
  BY SeqAppend
<1>2. Len(s) \in Nat /\ DOMAIN s = 1 .. Len(s) /\ DOMAIN Append(s, t) = 1 .. Len(s) + 1
  BY <1>1, SeqFacts
<1> DEFINE u == Append(s, t)
<1>3. \A i \in DOMAIN s : i \in DOMAIN u /\ u[i] = s[i]
  BY <1>1, <1>2
<1>4. Len(s) + 1 \in DOMAIN u /\ u[Len(s) + 1] = t
  BY <1>1, <1>2
<1> HIDE DEF u
<1>5. Doomed(s) \subseteq Doomed(u)
  BY <1>3 DEF Doomed
<1>6. t.task = "DISCARD" => t.ary \in Doomed(u)
  BY <1>4 DEF Doomed
<1> QED BY <1>1, <1>5, <1>6 DEF u

\* BH_FREE takes the data of an array and leaves its slot.
LEMMA FreeKeeps ==
  ASSUME TablesInv, NEW r \in Rank, execute_free(r)
  PROVE  TablesInv'
<1> DEFINE a == Head(ir[r]).out.base
           b == IF a \in DOMAIN local[r] THEN Append(batch[r], [task |-> "FREE", ary |-> a]) ELSE batch[r]
<1>1. /\ mode[r] = "run" /\ ir[r] # <<>> /\ Head(ir[r]).op # "DISCARD"
      /\ ir' = [ir EXCEPT ![r] = Tail(@)]
  BY Zenon DEF execute_free
<1>2. UNCHANGED <<mode, known, m2s, s2m, store, stack, inbox, local>>
  BY DEF execute_free, maps, comm
<1>3. batch' = [batch EXCEPT ![r] = b]
  BY DEF execute_free
<1>4. IsMap(batch, Rank) /\ IsMap(local, Rank) /\ \A q \in Slave : IsSeq(batch[q])
  BY Zenon DEF TablesInv, Typed
<1>5. r \in Slave => IsSeq(b) /\ DOMAIN local[r] \subseteq DOMAIN s2m[r] \union Doomed(b)
  <2> SUFFICES ASSUME r \in Slave PROVE IsSeq(b) /\ DOMAIN local[r] \subseteq DOMAIN s2m[r] \union Doomed(b)
    OBVIOUS
  <2>1. IsSeq(batch[r]) /\ DOMAIN local[r] \subseteq DOMAIN s2m[r] \union Doomed(batch[r])
    BY <1>4 DEF TablesInv, SlaveInv, LocalParts
  <2>2. IsSeq(b) /\ Doomed(batch[r]) \subseteq Doomed(b)
    BY <2>1, DoomedAppend, Zenon
  <2> QED BY <2>1, <2>2
<1> HIDE DEF b
<1>6. IsMap(batch', Rank) /\ batch'[r] = b /\ \A q \in Rank \ {r} : batch'[q] = batch[q]
  BY <1>3, <1>4 DEF IsMap
<1> QED BY <1>1, <1>2, <1>4, <1>5, <1>6, InstructionKeeps, Zenon

(***************************************************************************)
(* A slave maps its translation of a computation as the master maps the    *)
(* computation: the table of the chunks has an entry for it.               *)
(***************************************************************************)
LEMMA MapsAlike ==
  ASSUME ChunksAreListed, NEW r \in Slave, NEW mine, NEW inst \in Instrs,
         IsTranslation(s2m[r], mine, inst), ~IsSystem(mine)
  PROVE  IsSeq(Chunks(r, mine))
<1>1. r # 0
  BY RankFacts
<1>2. /\ mine.op = inst.op /\ mine.n = inst.n /\ Len(mine.ins) = Len(inst.ins)
      /\ \A o \in 1 .. 1 + Len(inst.ins) :
           /\ Views(mine)[o].start = Views(inst)[o].start /\ Views(mine)[o].stride = Views(inst)[o].stride
           /\ s2m[r][Views(mine)[o].base] = Views(inst)[o].base
  BY DEF IsTranslation
<1>3. inst \in Computations
  BY <1>2 DEF Computations, IsSystem, Instrs
<1> DEFINE M == [o \in 1 .. 1 + Len(inst.ins) |->
                   [nelem  |-> Nelem[Views(inst)[o].base],
                    start  |-> Views(inst)[o].start,
                    stride |-> <<IF o = 1 /\ inst.op = "REDUCE" THEN 0 ELSE Views(inst)[o].stride>>]]
           N == [o \in 1 .. 1 + Len(mine.ins) |->
                   [nelem  |-> NelemOf(r, Views(mine)[o].base),
                    start  |-> Views(mine)[o].start,
                    stride |-> <<IF o = 1 /\ mine.op = "REDUCE" THEN 0 ELSE Views(mine)[o].stride>>]]
<1>4. Mapped(r, mine) = N
  BY DEF Mapped, MappedWith
<1>5. M = N
  <2>1. \A o \in 1 .. 1 + Len(inst.ins) : NelemOf(r, Views(mine)[o].base) = Nelem[Views(inst)[o].base]
    BY <1>1, <1>2 DEF NelemOf
  <2> QED BY <1>2, <2>1, Zenon
<1> HIDE DEF N
<1>6. <<M, inst.n>> \in {<<MappedWith(i, LAMBDA a : Nelem[a]), i.n>> : i \in Computations}
  BY <1>3 DEF MappedWith
<1>7. <<M, inst.n>> \in DOMAIN ChunkTable
  BY <1>6, Zenon DEF ChunkTable
<1> HIDE DEF M
<1>8. Chunks(r, mine) = ChunkTable[<<M, inst.n>>]
  BY <1>2, <1>4, <1>5 DEF Chunks
<1> QED BY <1>7, <1>8 DEF ChunksAreListed

\* The views of an instruction and their arrays.
LEMMA ViewsFacts ==
  ASSUME NEW A, NEW inst \in Instruction(A)
  PROVE  /\ Views(inst)[1] = inst.out /\ \A i \in 1 .. Len(inst.ins) : Views(inst)[1 + i] = inst.ins[i]
         /\ \A o \in 1 .. 1 + Len(inst.ins) : o = 1 \/ \E i \in 1 .. Len(inst.ins) : o = 1 + i
         /\ \A o \in 1 .. 1 + Len(inst.ins) : Views(inst)[o].base \in Range(Bases(inst))
<1>1. IsSeq(inst.ins) /\ Len(inst.ins) \in Nat /\ Range(Bases(inst)) = {inst.out.base} \union {inst.ins[j].base : j \in 1 .. Len(inst.ins)}
  BY InstructionBases
<1>2. IsSeq(<<inst.out>>) /\ Len(<<inst.out>>) = 1 /\ <<inst.out>>[1] = inst.out
  BY SeqOne
<1>3. /\ (<<inst.out>> \o inst.ins)[1] = inst.out
      /\ \A i \in 1 .. Len(inst.ins) : (<<inst.out>> \o inst.ins)[1 + i] = inst.ins[i]
  BY <1>1, <1>2, SeqConcat
<1>4. Views(inst)[1] = inst.out /\ \A i \in 1 .. Len(inst.ins) : Views(inst)[1 + i] = inst.ins[i]
  BY <1>3 DEF Views
<1>5. \A o \in 1 .. 1 + Len(inst.ins) : o = 1 \/ (o - 1 \in 1 .. Len(inst.ins) /\ o = 1 + (o - 1))
  BY <1>1
<1>6. ASSUME NEW o \in 1 .. 1 + Len(inst.ins)
      PROVE  Views(inst)[o].base \in Range(Bases(inst))
  <2>1. CASE o = 1
    BY <1>1, <1>4, <2>1
  <2>2. CASE o # 1
    <3>1. PICK i \in 1 .. Len(inst.ins) : o = 1 + i
      BY <1>5, <2>2
    <3>2. Views(inst)[o] = inst.ins[i]
      BY <1>4, <3>1
    <3> QED BY <1>1, <3>2
  <2> QED BY <2>1, <2>2
<1> QED BY <1>4, <1>5, <1>6

\* A process gets local parts of the operands only.
LEMMA TouchedOperands ==
  ASSUME NEW A, NEW r, NEW inst \in Instruction(A)
  PROVE  Touched(r, inst) \subseteq Range(Bases(inst))
<1>1. \A a \in Touched(r, inst) : \E o \in 1 .. 1 + Len(inst.ins) : a = Views(inst)[o].base
  BY Zenon DEF Touched
<1> QED BY <1>1, ViewsFacts

\* A local array that BH_SYNC creates belongs to a slot of the slave.
LEMMA GatherSlaveKeeps ==
  ASSUME TablesInv, NEW r \in Slave, gather_slave(r)
  PROVE  TablesInv'
<1> DEFINE a == Head(ir[r]).out.base
           c == Contribution(r, a)
<1>1. /\ mode[r] = "run" /\ ir[r] # <<>> /\ Head(ir[r]).op # "DISCARD"
      /\ ir' = [ir EXCEPT ![r] = Tail(@)]
  BY Zenon DEF gather_slave, AtSync
<1>2. UNCHANGED <<mode, known, m2s, s2m, store, stack, inbox, batch>>
  BY DEF gather_slave, maps
<1>3. local' = [local EXCEPT ![r] = With(local[r], a, c)]
  BY Zenon DEF gather_slave
<1>4. r \in Rank /\ IsMap(batch, Rank) /\ IsMap(local, Rank) /\ IsSeq(batch[r])
  BY RankFacts, Zenon DEF TablesInv, Typed
<1>5. SlaveList(r) /\ LocalParts(r)
  BY DEF TablesInv, SlaveInv
<1>6. IsList(ir[r], Nat) /\ ArysOf(ir[r]) \subseteq DOMAIN s2m[r]
  BY <1>5, Zenon DEF SlaveList
<1>7. Head(ir[r]) \in Instruction(Nat) /\ Range(Bases(Head(ir[r]))) \subseteq ArysOf(ir[r])
  BY <1>1, <1>6, ListTail, Zenon
<1>8. a \in DOMAIN s2m[r]
  BY <1>6, <1>7, InstructionBases
<1> HIDE DEF a, c
<1>9. IsMap(local', Rank) /\ local'[r] = With(local[r], a, c) /\ \A q \in Rank \ {r} : local'[q] = local[q]
  BY <1>3, <1>4 DEF IsMap
<1>10. DOMAIN local'[r] = DOMAIN local[r] \union {a}
  BY <1>9 DEF With
<1>11. DOMAIN local'[r] \subseteq DOMAIN s2m[r] \union Doomed(batch'[r])
  BY <1>2, <1>5, <1>8, <1>10 DEF LocalParts
<1> QED BY <1>1, <1>2, <1>4, <1>9, <1>11, InstructionKeeps, Zenon

\* BH_SYNC at the master.
LEMMA GatherMasterKeeps ==
  ASSUME TablesInv, gather_master
  PROVE  TablesInv'
<1> DEFINE a == Head(ir[0]).out.base
           c == Contribution(0, a)
<1>1. /\ mode[0] = "run" /\ ir[0] # <<>> /\ Head(ir[0]).op # "DISCARD"
      /\ ir' = [ir EXCEPT ![0] = Tail(@)]
  BY Zenon DEF gather_master, AtSync
<1>2. UNCHANGED <<mode, known, m2s, s2m, store, stack, inbox, batch>>
  BY Zenon DEF gather_master, maps
<1>3. local' = [local EXCEPT ![0] = With(local[0], a, c)]
  BY Zenon DEF gather_master
<1>4. 0 \in Rank /\ 0 \notin Slave /\ IsMap(batch, Rank) /\ IsMap(local, Rank)
  BY RankFacts, Zenon DEF TablesInv, Typed
<1> HIDE DEF a, c
<1>5. IsMap(local', Rank) /\ \A q \in Rank \ {0} : local'[q] = local[q]
  BY <1>3, <1>4 DEF IsMap
<1> QED BY <1>1, <1>2, <1>4, <1>5, InstructionKeeps, Zenon

\* The types of the maps of a slave.
LEMMA MapTypes ==
  ASSUME Typed, NEW r \in Slave
  PROVE  /\ m2s[r] \in [DOMAIN m2s[r] -> Nat] /\ DOMAIN m2s[r] \subseteq Arys
         /\ s2m[r] \in [DOMAIN s2m[r] -> Arys] /\ DOMAIN s2m[r] \subseteq Nat
         /\ store[r] \in [free : Seq(Nat), next : Nat]
<1>1. /\ m2s \in [Slave -> UNION {[S -> Nat] : S \in SUBSET Arys}]
      /\ s2m \in [Slave -> UNION {[S -> Arys] : S \in SUBSET Nat}]
      /\ store \in [Slave -> [free : Seq(Nat), next : Nat]]
  BY DEF Typed
<1>2. PICK S \in SUBSET Arys : m2s[r] \in [S -> Nat]
  BY <1>1
<1>3. PICK T \in SUBSET Nat : s2m[r] \in [T -> Arys]
  BY <1>1
<1> QED BY <1>1, <1>2, <1>3

(***************************************************************************)
(* The maps of a slave after dispatch_slave_known_remove, for the slot h   *)
(* of the array a.                                                         *)
(***************************************************************************)
LEMMA TablesForget ==
  ASSUME Typed, NEW r \in Slave, Inverses(r), SlotsInUse(r), NEW h \in DOMAIN s2m[r],
         m2s'[r] = M2sWithout(r, h), s2m'[r] = Restrict(s2m[r], DOMAIN s2m[r] \ {h}),
         store'[r] = erase(store[r], h)
  PROVE  /\ Inverses(r)' /\ SlotsInUse(r)'
         /\ m2s'[r] \in UNION {[S -> Nat] : S \in SUBSET Arys}
         /\ s2m'[r] \in UNION {[S -> Arys] : S \in SUBSET Nat}
         /\ store'[r] \in [free : Seq(Nat), next : Nat]
         /\ DOMAIN m2s'[r] = DOMAIN m2s[r] \ {s2m[r][h]}
         /\ DOMAIN s2m'[r] = DOMAIN s2m[r] \ {h}
         /\ \A x \in DOMAIN s2m[r] \ {h} : s2m'[r][x] = s2m[r][x]
<1> DEFINE a == s2m[r][h]
           f == store[r].free
           n == store[r].next
<1>1. /\ m2s[r] \in [DOMAIN m2s[r] -> Nat] /\ DOMAIN m2s[r] \subseteq Arys
      /\ s2m[r] \in [DOMAIN s2m[r] -> Arys] /\ DOMAIN s2m[r] \subseteq Nat
      /\ store[r] \in [free : Seq(Nat), next : Nat]
  BY MapTypes, Zenon
<1>2. m2s'[r] = [x \in DOMAIN m2s[r] \ {a} |-> m2s[r][x]]
  BY DEF M2sWithout, Restrict
<1>3. s2m'[r] = [x \in DOMAIN s2m[r] \ {h} |-> s2m[r][x]]
  BY DEF Restrict
<1>4. a \in DOMAIN m2s[r] /\ m2s[r][a] = h
  BY Zenon DEF Inverses
<1>5. Inverses(r)'
  <2>1. \A x \in DOMAIN m2s[r] : m2s[r][x] \in DOMAIN s2m[r] /\ s2m[r][m2s[r][x]] = x
    BY Zenon DEF Inverses
  <2>2. \A x \in DOMAIN s2m[r] : s2m[r][x] \in DOMAIN m2s[r] /\ m2s[r][s2m[r][x]] = x
    BY Zenon DEF Inverses
  <2>3. \A x \in DOMAIN m2s[r] \ {a} : m2s[r][x] \in DOMAIN s2m[r] \ {h}
    BY <1>4, <2>1, Zenon
  <2>4. \A x \in DOMAIN s2m[r] \ {h} : s2m[r][x] \in DOMAIN m2s[r] \ {a}
    BY <1>4, <2>2, Zenon
  <2> HIDE DEF a
  <2>5. DOMAIN m2s'[r] = DOMAIN m2s[r] \ {a} /\ \A x \in DOMAIN m2s[r] \ {a} : m2s'[r][x] = m2s[r][x]
    BY <1>2, Zenon
  <2>6. DOMAIN s2m'[r] = DOMAIN s2m[r] \ {h} /\ \A x \in DOMAIN s2m[r] \ {h} : s2m'[r][x] = s2m[r][x]
    BY <1>3, Zenon
  <2>7. \A x \in DOMAIN m2s'[r] : m2s'[r][x] \in DOMAIN s2m'[r] /\ s2m'[r][m2s'[r][x]] = x
    BY <2>1, <2>3, <2>5, <2>6, Zenon
  <2>8. \A x \in DOMAIN s2m'[r] : s2m'[r][x] \in DOMAIN m2s'[r] /\ m2s'[r][s2m'[r][x]] = x
    BY <2>2, <2>4, <2>5, <2>6, Zenon
  <2> QED BY <2>7, <2>8, Zenon DEF Inverses
<1>6. f \in Seq(Nat) /\ n \in Nat /\ h \in Nat
  BY <1>1
<1>7. store'[r] = [free |-> Append(f, h), next |-> n]
  BY <1>1, Zenon DEF erase
<1>8. /\ \A i \in DOMAIN f : f[i] \notin DOMAIN s2m[r]
      /\ DOMAIN s2m[r] \union Range(f) = 0 .. n - 1
      /\ \A i, j \in DOMAIN f : f[i] = f[j] => i = j
  BY Zenon DEF SlotsInUse
<1> DEFINE g == Append(f, h)
<1>9. /\ g \in Seq(Nat) /\ DOMAIN g = 1 .. Len(f) + 1 /\ g[Len(f) + 1] = h
      /\ Len(f) \in Nat /\ DOMAIN f = 1 .. Len(f) /\ \A i \in 1 .. Len(f) : g[i] = f[i]
  BY <1>6
<1>10. store'[r].free = g /\ store'[r].next = n
  BY <1>7
<1>11. store'[r] \in [free : Seq(Nat), next : Nat]
  BY <1>6, <1>7, <1>9
<1> HIDE DEF g, f, n
<1>12. \A i \in DOMAIN g : g[i] \notin DOMAIN s2m[r] \ {h}
  <2> SUFFICES ASSUME NEW i \in DOMAIN g PROVE g[i] \notin DOMAIN s2m[r] \ {h}
    OBVIOUS
  <2>1. CASE i = Len(f) + 1
    BY <1>9, <2>1
  <2>2. CASE i # Len(f) + 1
    <3>1. i \in DOMAIN f /\ g[i] = f[i]
      BY <1>9, <2>2
    <3> QED BY <1>8, <3>1, Zenon
  <2> QED BY <2>1, <2>2
<1>13. Range(g) = Range(f) \union {h}
  <2>1. \A i \in DOMAIN f : i \in DOMAIN g /\ g[i] = f[i]
    BY <1>9
  <2>2. Len(f) + 1 \in DOMAIN g
    BY <1>9
  <2>3. \A i \in DOMAIN g : i = Len(f) + 1 \/ i \in DOMAIN f
    BY <1>9
  <2> QED BY <1>9, <2>1, <2>2, <2>3 DEF Range
<1>14. (DOMAIN s2m[r] \ {h}) \union Range(g) = 0 .. n - 1
  BY <1>8, <1>13
<1>15. \A i, j \in DOMAIN g : g[i] = g[j] => i = j
  <2> SUFFICES ASSUME NEW i \in DOMAIN g, NEW j \in DOMAIN g, g[i] = g[j], i # j PROVE FALSE
    OBVIOUS
  <2>1. \A k \in DOMAIN g : k # Len(f) + 1 => k \in DOMAIN f /\ g[k] = f[k] /\ f[k] # h
    <3> SUFFICES ASSUME NEW k \in DOMAIN g, k # Len(f) + 1 PROVE k \in DOMAIN f /\ g[k] = f[k] /\ f[k] # h
      OBVIOUS
    <3>1. k \in DOMAIN f /\ g[k] = f[k]
      BY <1>9
    <3> QED BY <1>8, <3>1, Zenon
  <2> QED BY <1>8, <1>9, <2>1, Zenon
<1>16. DOMAIN s2m'[r] = DOMAIN s2m[r] \ {h}
  BY <1>3
<1>17. SlotsInUse(r)'
  BY <1>10, <1>12, <1>14, <1>15, <1>16, Zenon DEF SlotsInUse
<1>18. m2s'[r] \in [DOMAIN m2s[r] \ {a} -> Nat] /\ DOMAIN m2s[r] \ {a} \in SUBSET Arys
  BY <1>1, <1>2, Zenon
<1>19. s2m'[r] \in [DOMAIN s2m[r] \ {h} -> Arys] /\ DOMAIN s2m[r] \ {h} \in SUBSET Nat
  BY <1>1, <1>3, Zenon
<1>20. m2s'[r] \in UNION {[S -> Nat] : S \in SUBSET Arys}
  BY <1>18
<1>21. s2m'[r] \in UNION {[S -> Arys] : S \in SUBSET Nat}
  BY <1>19
<1> QED BY <1>2, <1>3, <1>5, <1>11, <1>17, <1>20, <1>21, Zenon

\* A translation stays one when a map changes elsewhere.
LEMMA TranslationStays ==
  ASSUME NEW A, NEW mine \in Instruction(A), NEW inst, NEW map, NEW new, IsTranslation(map, mine, inst),
         \A x \in Range(Bases(mine)) : new[x] = map[x]
  PROVE  IsTranslation(new, mine, inst)
<1>1. \A o \in 1 .. 1 + Len(mine.ins) : Views(mine)[o].base \in Range(Bases(mine))
  BY ViewsFacts, Zenon
<1>2. Len(mine.ins) = Len(inst.ins)
  BY DEF IsTranslation
<1>3. \A o \in 1 .. 1 + Len(inst.ins) : new[Views(mine)[o].base] = map[Views(mine)[o].base]
  BY <1>1, <1>2
<1> QED BY <1>3 DEF IsTranslation

\* The array and its local part at the master.
LEMMA DiscardMaster ==
  ASSUME TablesInv, execute_discard(0)
  PROVE  TablesInv'
<1> DEFINE a == Head(ir[0]).out.base
           b == IF a \in DOMAIN local[0] THEN Append(batch[0], [task |-> "DISCARD", ary |-> a]) ELSE batch[0]
<1>1. /\ mode[0] = "run" /\ ir[0] # <<>> /\ Head(ir[0]).op = "DISCARD"
      /\ ir' = [ir EXCEPT ![0] = Tail(@)]
  BY DEF execute_discard
<1>2. mode' = mode /\ stack' = stack /\ local' = local /\ inbox' = inbox /\ m2s' = m2s /\ s2m' = s2m /\ store' = store
  BY DEF execute_discard, maps, comm
<1>3. known' = known \ {a}
  BY Zenon DEF execute_discard, KnownWithout
<1>4. batch' = [batch EXCEPT ![0] = b]
  BY DEF execute_discard
<1>5. Typed /\ MasterList
  BY DEF TablesInv
<1>6. 0 \in Rank /\ 0 \notin Slave /\ Slave \subseteq Rank
  BY RankFacts
<1> HIDE DEF b
<1>7. IsMap(batch', Rank) /\ \A q \in Slave : batch'[q] = batch[q]
  BY <1>4, <1>5, <1>6, Zenon DEF Typed, IsMap
<1>8. IsMap(ir', Rank) /\ ir'[0] = Tail(ir[0]) /\ \A q \in Slave : ir'[q] = ir[q]
  BY <1>1, <1>5, <1>6, Zenon DEF Typed, IsMap
<1>9. Typed'
  <2>1. \A q \in Slave : IsSeq(batch'[q])
    BY <1>5, <1>7 DEF Typed
  <2> QED BY <1>2, <1>3, <1>5, <1>7, <1>8, <2>1, Zenon DEF Typed
<1>10. IsList(ir[0], Arys) /\ ArysOf(ir[0]) \subseteq known
  BY <1>5 DEF MasterList
<1>11. /\ IsList(Tail(ir[0]), Arys) /\ ArysOf(Tail(ir[0])) \subseteq ArysOf(ir[0])
       /\ a \in Discards(ir[0]) /\ a \notin ArysOf(Tail(ir[0]))
       /\ Discards(Tail(ir[0])) = Discards(ir[0]) \ {a}
  BY <1>1, <1>10, ListTail, Zenon
<1> HIDE DEF a
<1>12. MasterList'
  BY <1>1, <1>2, <1>3, <1>8, <1>10, <1>11 DEF MasterList
<1>13. Target' = Target
  BY <1>3, <1>8, <1>11 DEF Target
<1>14. \A q \in Slave \ {0} : Own(q)' = Own(q) /\ inbox'[q] = inbox[q]
  BY <1>2, <1>7, <1>8, Zenon DEF Own
<1> QED BY <1>6, <1>9, <1>12, <1>13, <1>14, StepOfOne

\* The slot, the entries of both maps and the local part at a slave.
LEMMA DiscardSlave ==
  ASSUME TablesInv, NEW r \in Slave, execute_discard(r)
  PROVE  TablesInv'
<1> DEFINE h == Head(ir[r]).out.base
           b == IF h \in DOMAIN local[r] THEN Append(batch[r], [task |-> "DISCARD", ary |-> h]) ELSE batch[r]
<1>0. r # 0 /\ r \in Rank /\ Slave \subseteq Rank /\ 0 \in Rank
  BY RankFacts
<1>1. /\ mode[r] = "run" /\ ir[r] # <<>> /\ Head(ir[r]).op = "DISCARD"
      /\ ir' = [ir EXCEPT ![r] = Tail(@)]
  BY Zenon DEF execute_discard
<1>2. mode' = mode /\ stack' = stack /\ local' = local /\ inbox' = inbox /\ known' = known
  BY <1>0, Zenon DEF execute_discard, comm
<1>3. /\ m2s' = [m2s EXCEPT ![r] = M2sWithout(r, h)]
      /\ s2m' = [s2m EXCEPT ![r] = Restrict(s2m[r], DOMAIN s2m[r] \ {h})]
      /\ store' = [store EXCEPT ![r] = erase(store[r], h)]
  BY <1>0, Zenon DEF execute_discard
<1>4. batch' = [batch EXCEPT ![r] = b]
  BY Zenon DEF execute_discard
<1>5. Typed /\ MasterList /\ SlaveInv(r)
  BY DEF TablesInv
<1>6. SlaveList(r) /\ Inverses(r) /\ SlotsInUse(r) /\ LocalParts(r) /\ Behind(r)
  BY <1>5 DEF SlaveInv
<1>7. IsList(ir[r], Nat) /\ ArysOf(ir[r]) \subseteq DOMAIN s2m[r]
  BY <1>6 DEF SlaveList
<1>8. /\ IsList(Tail(ir[r]), Nat) /\ ArysOf(Tail(ir[r])) \subseteq ArysOf(ir[r])
      /\ h \in Discards(ir[r]) /\ h \notin ArysOf(Tail(ir[r]))
      /\ Discards(Tail(ir[r])) = Discards(ir[r]) \ {h}
      /\ DOMAIN Tail(ir[r]) = 1 .. Len(ir[r]) - 1
      /\ \A i \in 1 .. Len(ir[r]) - 1 : Tail(ir[r])[i] = ir[r][i + 1] /\ i + 1 \in DOMAIN ir[r]
  BY <1>1, <1>7, ListTail, Zenon
<1>9. h \in DOMAIN s2m[r] /\ Discards(ir[r]) \subseteq DOMAIN s2m[r]
  <2>1. Discards(ir[r]) \subseteq ArysOf(ir[r])
    BY <1>7, ListFacts, SMTT(30)
  <2> QED BY <1>7, <1>8, <2>1, Zenon
<1>10. IsSeq(batch[r])
  BY <1>5, Zenon DEF Typed
<1>11. IsSeq(b) /\ Doomed(batch[r]) \subseteq Doomed(b) /\ (h \in DOMAIN local[r] => h \in Doomed(b))
  BY <1>10, DoomedAppend, Zenon
<1> HIDE DEF b, h
<1>12. IsMap(batch', Rank) /\ batch'[r] = b /\ \A q \in Slave \ {r} : batch'[q] = batch[q]
  BY <1>0, <1>4, <1>5, Zenon DEF Typed, IsMap
<1>13. IsMap(ir', Rank) /\ ir'[r] = Tail(ir[r]) /\ \A q \in Rank \ {r} : ir'[q] = ir[q]
  BY <1>0, <1>1, <1>5, Zenon DEF Typed, IsMap
<1>14. DOMAIN m2s = Slave /\ DOMAIN s2m = Slave /\ DOMAIN store = Slave
  BY <1>5, Zenon DEF Typed
<1>15. /\ m2s'[r] = M2sWithout(r, h) /\ s2m'[r] = Restrict(s2m[r], DOMAIN s2m[r] \ {h}) /\ store'[r] = erase(store[r], h)
       /\ \A q \in Slave \ {r} : m2s'[q] = m2s[q] /\ s2m'[q] = s2m[q] /\ store'[q] = store[q]
  BY <1>3, <1>14
<1>16. /\ Inverses(r)' /\ SlotsInUse(r)'
       /\ m2s'[r] \in UNION {[S -> Nat] : S \in SUBSET Arys}
       /\ s2m'[r] \in UNION {[S -> Arys] : S \in SUBSET Nat}
       /\ store'[r] \in [free : Seq(Nat), next : Nat]
       /\ DOMAIN m2s'[r] = DOMAIN m2s[r] \ {s2m[r][h]}
       /\ DOMAIN s2m'[r] = DOMAIN s2m[r] \ {h}
       /\ \A x \in DOMAIN s2m[r] \ {h} : s2m'[r][x] = s2m[r][x]
  BY <1>5, <1>6, <1>9, <1>15, TablesForget, Zenon
<1>17. Typed'
  <2>1. \A q \in Slave : IsSeq(batch'[q])
    BY <1>5, <1>11, <1>12, Zenon DEF Typed
  <2>2. m2s' \in [Slave -> UNION {[S -> Nat] : S \in SUBSET Arys}]
    <3> DEFINE T == UNION {[S -> Nat] : S \in SUBSET Arys}
    <3>1. m2s \in [Slave -> T]
      BY <1>5, Zenon DEF Typed
    <3>2. M2sWithout(r, h) \in T
      BY <1>15, <1>16, Zenon
    <3> HIDE DEF T
    <3>3. m2s' \in [Slave -> T]
      BY <1>3, <3>1, <3>2
    <3> QED BY <3>3 DEF T
  <2>3. s2m' \in [Slave -> UNION {[S -> Arys] : S \in SUBSET Nat}]
    <3> DEFINE T == UNION {[S -> Arys] : S \in SUBSET Nat}
    <3>1. s2m \in [Slave -> T]
      BY <1>5, Zenon DEF Typed
    <3>2. Restrict(s2m[r], DOMAIN s2m[r] \ {h}) \in T
      BY <1>15, <1>16, Zenon
    <3> HIDE DEF T
    <3>3. s2m' \in [Slave -> T]
      BY <1>3, <3>1, <3>2
    <3> QED BY <3>3, Zenon DEF T
  <2>4. store' \in [Slave -> [free : Seq(Nat), next : Nat]]
    <3>1. store \in [Slave -> [free : Seq(Nat), next : Nat]]
      BY <1>5, Zenon DEF Typed
    <3>2. erase(store[r], h) \in [free : Seq(Nat), next : Nat]
      BY <1>15, <1>16, Zenon
    <3> QED BY <1>3, <3>1, <3>2
  <2> QED BY <1>2, <1>5, <1>12, <1>13, <2>1, <2>2, <2>3, <2>4, Zenon DEF Typed
<1>18. MasterList' /\ Target' = Target
  <2>1. ir'[0] = ir[0] /\ (mode'[0] \in {"idle", "down"} => ir[0] = <<>>)
    BY <1>0, <1>2, <1>5, <1>13, Zenon DEF MasterList
  <2> QED BY <1>2, <1>5, <2>1, MasterListStays
<1>19. \A q \in Slave \ {r} : Own(q)' = Own(q) /\ inbox'[q] = inbox[q]
  BY <1>0, <1>2, <1>12, <1>13, <1>15, Zenon DEF Own
<1>20. SlaveList(r)'
  <2>1. ArysOf(ir'[r]) \subseteq DOMAIN s2m'[r]
    BY <1>7, <1>8, <1>13, <1>16, Zenon
  <2>2. ASSUME NEW i \in DOMAIN ir'[r]
        PROVE  \E inst \in Instrs : IsTranslation(s2m'[r], ir'[r][i], inst)
    <3>1. i + 1 \in DOMAIN ir[r] /\ ir'[r][i] = ir[r][i + 1]
      BY <1>8, <1>13, Zenon
    <3>2. PICK inst \in Instrs : IsTranslation(s2m[r], ir'[r][i], inst)
      BY <1>6, <3>1, Zenon DEF SlaveList
    <3>3. ir'[r][i] \in Instruction(Nat) /\ Range(Bases(ir'[r][i])) \subseteq ArysOf(ir'[r])
      <4>1. IsList(ir'[r], Nat)
        BY <1>8, <1>13, Zenon
      <4> QED BY <4>1, ListFacts, SMTT(30)
    <3>4. \A x \in Range(Bases(ir'[r][i])) : s2m'[r][x] = s2m[r][x]
      BY <1>16, <2>1, <3>3, Zenon
    <3>5. IsTranslation(s2m'[r], ir'[r][i], inst)
      BY <3>2, <3>3, <3>4, TranslationStays, Zenon
    <3> QED BY <3>5
  <2> QED BY <1>1, <1>2, <1>8, <1>13, <2>1, <2>2, Zenon DEF SlaveList
<1>21. Kept(r)' = Kept(r)
  <2>1. Discards(ir'[r]) = Discards(ir[r]) \ {h}
    BY <1>8, <1>13, Zenon
  <2>2. {s2m'[r][x] : x \in Discards(ir[r]) \ {h}} = {s2m[r][x] : x \in Discards(ir[r]) \ {h}}
    BY <1>9, <1>16, Zenon
  <2>3. {s2m[r][x] : x \in Discards(ir[r])} = {s2m[r][h]} \union {s2m[r][x] : x \in Discards(ir[r]) \ {h}}
    BY <1>8
  <2> QED BY <1>16, <2>1, <2>2, <2>3, Zenon DEF Kept
<1>22. LocalParts(r)'
  <2>1. DOMAIN local[r] \subseteq DOMAIN s2m[r] \union Doomed(batch[r]) /\ stack[r] = <<>>
    BY <1>1, <1>6, Zenon DEF LocalParts
  <2>2. DOMAIN local[r] \subseteq (DOMAIN s2m[r] \ {h}) \union Doomed(b)
    BY <1>11, <2>1
  <2>3. DOMAIN local'[r] \subseteq DOMAIN s2m'[r] \union Doomed(batch'[r])
    BY <1>2, <1>12, <1>16, <2>2, Zenon
  <2>4. mode'[r] = "run" /\ stack'[r] = <<>> /\ DOMAIN <<>> = {}
    BY <1>1, <1>2, <2>1
  <2> QED BY <2>3, <2>4, Zenon DEF LocalParts
<1>23. Behind(r)'
  BY <1>2, <1>6, <1>18, <1>21, BehindStays
<1>24. SlaveInv(r)'
  BY <1>16, <1>20, <1>22, <1>23, Zenon DEF SlaveInv
<1> QED BY <1>0, <1>17, <1>18, <1>19, <1>24, StepOfOne

-----------------------------------------------------------------------------
(***************************************************************************)
(* The steps that send and read messages.                                  *)
(***************************************************************************)
\* A broadcast of the master.
LEMMA BroadcastKeeps ==
  ASSUME TablesInv, NEW m, Typed', MasterList', Target' \subseteq Arys, Delivered(m, Target, Target'),
         \A q \in Slave : Own(q)' = Own(q) /\ inbox'[q] = Append(inbox[q], m)
  PROVE  TablesInv'
<1>1. ASSUME NEW q \in Slave PROVE SlaveInv(q)'
  <2>1. OwnInv(q) /\ Behind(q) /\ IsSeq(inbox[q])
    BY Zenon DEF TablesInv, SlaveInv, OwnInv, Typed
  <2>2. Own(q)' = Own(q) /\ inbox'[q] = Append(inbox[q], m)
    OBVIOUS
  <2>3. OwnInv(q)' /\ Kept(q)' = Kept(q)
    BY <2>1, <2>2, OwnStays, Zenon
  <2>4. Behind(q)'
    BY <2>1, <2>2, <2>3, BehindSends, Zenon
  <2> QED BY <2>3, <2>4 DEF SlaveInv, OwnInv
<1>2. \A q \in Slave : SlaveInv(q)'
  BY <1>1
<1> QED BY <1>2 DEF TablesInv

\* The broadcast leaves an inbox for every slave.
LEMMA BroadcastTyped ==
  ASSUME Typed, NEW m, inbox' = [q \in Slave |-> Append(inbox[q], m)]
  PROVE  /\ IsMap(inbox', Slave)
         /\ \A q \in Slave : IsSeq(inbox'[q]) /\ inbox'[q] = Append(inbox[q], m)
<1>1. \A q \in Slave : inbox'[q] = Append(inbox[q], m)
  OBVIOUS
<1>2. \A q \in Slave : IsSeq(inbox[q])
  BY DEF Typed
<1>3. \A q \in Slave : IsSeq(inbox'[q])
  BY <1>1, <1>2, SeqAppend
<1>4. IsMap(inbox', Slave)
  BY DEF IsMap
<1> QED BY <1>1, <1>3, <1>4

\* bh_vem_cluster_shutdown sends a message that teaches nothing.
LEMMA ShutdownKeeps ==
  ASSUME TablesInv, shutdown
  PROVE  TablesInv'
<1> DEFINE m == [type |-> "SHUTDOWN"]
<1>1. Typed /\ MasterList
  BY DEF TablesInv
<1>2. mode[0] = "idle" /\ mode' = [mode EXCEPT ![0] = "down"]
  BY DEF shutdown
<1>3. inbox' = [q \in Slave |-> Append(inbox[q], m)]
  BY DEF shutdown, Bcast
<1>4. known' = known /\ m2s' = m2s /\ s2m' = s2m /\ store' = store /\ stack' = stack /\ ir' = ir /\ local' = local /\ batch' = batch
  BY DEF shutdown, maps
<1>5. 0 \in Rank /\ 0 \notin Slave /\ Slave \subseteq Rank
  BY RankFacts
<1>6. mode \in [Rank -> {"idle", "scatter", "run", "down"}]
  BY <1>1, Zenon DEF Typed
<1>7. mode' \in [Rank -> {"idle", "scatter", "run", "down"}] /\ mode'[0] = "down" /\ \A q \in Slave : mode'[q] = mode[q]
  BY <1>2, <1>5, <1>6
<1>8. m.type # "EXEC"
  OBVIOUS
<1> HIDE DEF m
<1>9. /\ IsMap(inbox', Slave)
      /\ \A q \in Slave : IsSeq(inbox'[q]) /\ inbox'[q] = Append(inbox[q], m)
  BY <1>1, <1>3, BroadcastTyped, Zenon
<1>10. Typed'
  BY <1>1, <1>4, <1>7, <1>9, Zenon DEF Typed
<1>11. MasterList' /\ Target' = Target
  BY <1>1, <1>2, <1>4, MasterListStays, Zenon DEF MasterList
<1>12. Delivered(m, Target, Target')
  BY <1>8, <1>11 DEF Delivered
<1>13. Target' \subseteq Arys
  BY <1>1, <1>11, Zenon DEF Typed, Target
<1>14. \A q \in Slave : Own(q)' = Own(q) /\ inbox'[q] = Append(inbox[q], m)
  BY <1>4, <1>7, <1>9 DEF Own
<1> QED BY <1>10, <1>11, <1>12, <1>13, <1>14, BroadcastKeeps

\* A slave reads it and ends with the tables it has.
LEMMA SlaveShutdownKeeps ==
  ASSUME TablesInv, NEW r \in Slave, slave_shutdown(r)
  PROVE  TablesInv'
<1>1. Typed /\ MasterList /\ SlaveInv(r)
  BY DEF TablesInv
<1>2. mode[r] = "idle" /\ mode' = [mode EXCEPT ![r] = "down"] /\ inbox[r] # <<>> /\ Head(inbox[r]).type # "EXEC" /\ inbox' = [inbox EXCEPT ![r] = Tail(@)]
  BY DEF slave_shutdown
<1>3. known' = known /\ m2s' = m2s /\ s2m' = s2m /\ store' = store /\ stack' = stack /\ ir' = ir /\ local' = local /\ batch' = batch
  BY DEF slave_shutdown, maps
<1>4. 0 \in Rank /\ r # 0 /\ r \in Rank /\ Slave \subseteq Rank
  BY RankFacts
<1>5. mode \in [Rank -> {"idle", "scatter", "run", "down"}]
  BY <1>1, Zenon DEF Typed
<1>6. mode' \in [Rank -> {"idle", "scatter", "run", "down"}] /\ mode'[r] = "down" /\ \A q \in Rank \ {r} : mode'[q] = mode[q]
  BY <1>2, <1>4, <1>5
<1>7. IsMap(inbox, Slave) /\ \A q \in Slave : IsSeq(inbox[q])
  BY <1>1, Zenon DEF Typed
<1>8. IsMap(inbox', Slave) /\ inbox'[r] = Tail(inbox[r]) /\ \A q \in Slave \ {r} : inbox'[q] = inbox[q]
  BY <1>2, <1>7, Zenon DEF IsMap
<1>9. IsSeq(Tail(inbox[r]))
  BY <1>2, <1>7, SeqTail
<1>10. \A q \in Slave : IsSeq(inbox'[q])
  BY <1>7, <1>8, <1>9
<1>11. Typed'
  BY <1>1, <1>3, <1>6, <1>8, <1>10, Zenon DEF Typed
<1>12. MasterList' /\ Target' = Target
  BY <1>1, <1>3, <1>4, <1>6, MasterListStays, Zenon DEF MasterList
<1>13. \A q \in Slave \ {r} : Own(q)' = Own(q) /\ inbox'[q] = inbox[q]
  BY <1>3, <1>4, <1>6, <1>8, Zenon DEF Own
<1>14. SlaveList(r)' /\ Kept(r)' = Kept(r)
  <2>1. mode'[r] \in {"idle", "down"} => ir[r] = <<>>
    BY <1>1, <1>2, Zenon DEF SlaveInv, SlaveList
  <2> QED BY <1>1, <1>3, <2>1, SlaveListStays, Zenon
<1>15. Inverses(r)' /\ SlotsInUse(r)'
  BY <1>1, <1>3, TablesStay
<1>16. LocalParts(r)'
  BY <1>1, <1>2, <1>3, <1>6, Zenon DEF SlaveInv, LocalParts
<1>17. \A after \in SUBSET Arys : Delivered(Head(inbox[r]), Kept(r), after) => Kept(r)' = after
  BY <1>2, <1>14, Zenon DEF Delivered
<1>18. Behind(r)'
  BY <1>1, <1>2, <1>7, <1>8, <1>12, <1>17, BehindReads DEF SlaveInv
<1>19. SlaveInv(r)'
  BY <1>14, <1>15, <1>16, <1>18 DEF SlaveInv
<1> QED BY <1>4, <1>11, <1>12, <1>13, <1>19, StepOfOne

\* The master goes on to its next new array, and sends the data of this one if it has any.
LEMMA ScatterMaster ==
  ASSUME TablesInv, dispatch_array_data(0)
  PROVE  TablesInv'
<1> DEFINE dary == Head(stack[0])
<1>1. Typed /\ MasterList
  BY DEF TablesInv
<1>2. mode' = mode /\ known' = known /\ m2s' = m2s /\ s2m' = s2m /\ store' = store /\ ir' = ir /\ batch' = batch
  BY Zenon DEF dispatch_array_data, maps
<1>3. stack' = [stack EXCEPT ![0] = Tail(@)]
  BY Zenon DEF dispatch_array_data
<1>4. 0 \in Rank /\ 0 \notin Slave /\ Slave \subseteq Rank
  BY RankFacts
<1>5. IsMap(stack', Rank) /\ \A q \in Slave : stack'[q] = stack[q]
  BY <1>1, <1>3, <1>4, Zenon DEF Typed, IsMap
<1>6. \A q \in Slave : IsSeq(stack'[q])
  BY <1>1, <1>5, Zenon DEF Typed
<1>7. MasterList' /\ Target' = Target
  BY <1>1, <1>2, MasterListStays DEF MasterList
<1>8. CASE ~dary.hasdata
  <2>1. local' = local /\ inbox' = inbox
    BY <1>8 DEF dispatch_array_data
  <2>2. Typed'
    BY <1>1, <1>2, <1>5, <1>6, <2>1, Zenon DEF Typed
  <2>3. \A q \in Slave \ {0} : Own(q)' = Own(q) /\ inbox'[q] = inbox[q]
    BY <1>2, <1>5, <2>1, Zenon DEF Own
  <2> QED BY <1>4, <1>7, <2>2, <2>3, StepOfOne, Zenon
<1>9. CASE dary.hasdata
  <2> DEFINE m(q) == [type |-> "DATA", id |-> dary.id, block |-> Block(q, data[dary.id])]
  <2>1. local' = [local EXCEPT ![0] = With(@, dary.id, Block(0, data[dary.id]))]
    BY <1>9, Zenon DEF dispatch_array_data
  <2>2. inbox' = [q \in Slave |-> Append(inbox[q], m(q))]
    BY <1>9, Zenon DEF dispatch_array_data
  <2>3. \A q \in Slave : m(q).type # "EXEC"
    OBVIOUS
  <2>4. IsMap(local', Rank) /\ \A q \in Slave : local'[q] = local[q]
    BY <1>1, <1>4, <2>1, Zenon DEF Typed, IsMap
  <2> HIDE DEF m
  <2>5. \A q \in Slave : inbox'[q] = Append(inbox[q], m(q)) /\ IsSeq(inbox[q])
    <3>1. \A q \in Slave : inbox'[q] = Append(inbox[q], m(q))
      BY <2>2, Zenon
    <3>2. \A q \in Slave : IsSeq(inbox[q])
      BY <1>1 DEF Typed
    <3> QED BY <3>1, <3>2
  <2>6. IsMap(inbox', Slave)
    BY <2>2, Zenon DEF IsMap
  <2>7. \A q \in Slave : IsSeq(inbox'[q])
    <3> SUFFICES ASSUME NEW q \in Slave PROVE IsSeq(inbox'[q])
      OBVIOUS
    <3>1. IsSeq(inbox[q]) /\ inbox'[q] = Append(inbox[q], m(q))
      BY <2>5, Zenon
    <3>2. IsSeq(Append(inbox[q], m(q)))
      BY <3>1, SeqAppend
    <3> QED BY <3>1, <3>2, Zenon
  <2>8. Typed'
    BY <1>1, <1>2, <1>5, <1>6, <2>4, <2>6, <2>7, Zenon DEF Typed
  <2>9. Target' \subseteq Arys
    BY <1>1, <1>7, Zenon DEF Typed, Target
  <2>10. ASSUME NEW q \in Slave PROVE SlaveInv(q)'
    <3>1. OwnInv(q) /\ Behind(q) /\ IsSeq(inbox[q])
      BY <2>5, Zenon DEF TablesInv, SlaveInv, OwnInv
    <3>2. Own(q)' = Own(q) /\ inbox'[q] = Append(inbox[q], m(q))
      BY <1>2, <1>5, <2>4, <2>5 DEF Own
    <3>3. OwnInv(q)' /\ Kept(q)' = Kept(q)
      BY <3>1, <3>2, OwnStays, Zenon
    <3>4. Delivered(m(q), Target, Target')
      BY <1>7, <2>3 DEF Delivered
    <3>5. Behind(q)'
      BY <2>9, <3>1, <3>2, <3>3, <3>4, BehindSends, Zenon
    <3> QED BY <3>3, <3>5 DEF SlaveInv, OwnInv
  <2> QED BY <1>7, <2>8, <2>10 DEF TablesInv
<1> QED BY <1>8, <1>9

\* A slave goes on to its next new array, with the data from the master if there is any.
LEMMA ScatterSlave ==
  ASSUME TablesInv, NEW r \in Slave, dispatch_array_data(r)
  PROVE  TablesInv'
<1> DEFINE dary == Head(stack[r])
<1>1. Typed /\ MasterList /\ SlaveInv(r)
  BY DEF TablesInv
<1>2. mode' = mode /\ known' = known /\ m2s' = m2s /\ s2m' = s2m /\ store' = store /\ ir' = ir /\ batch' = batch
  BY Zenon DEF dispatch_array_data, maps
<1>3. mode[r] = "scatter" /\ stack[r] # <<>> /\ stack' = [stack EXCEPT ![r] = Tail(@)]
  BY Zenon DEF dispatch_array_data
<1>4. 0 \in Rank /\ r # 0 /\ r \in Rank /\ Slave \subseteq Rank
  BY RankFacts
<1>5. IsMap(stack', Rank) /\ stack'[r] = Tail(stack[r]) /\ \A q \in Slave \ {r} : stack'[q] = stack[q]
  BY <1>1, <1>3, <1>4, Zenon DEF Typed, IsMap
<1>6. IsSeq(stack[r])
  BY <1>1, Zenon DEF Typed
<1>7. IsSeq(Tail(stack[r])) /\ dary = stack[r][1]
  BY <1>3, <1>6, SeqTail
<1>8. /\ 1 \in DOMAIN stack[r]
      /\ \A i \in DOMAIN Tail(stack[r]) : i + 1 \in DOMAIN stack[r] /\ Tail(stack[r])[i] = stack[r][i + 1]
  BY <1>3, <1>6, SeqTailDomain, Zenon
<1>9. \A q \in Slave : IsSeq(stack'[q])
  BY <1>1, <1>5, <1>7, Zenon DEF Typed
<1>10. \A i \in DOMAIN stack[r] : stack[r][i].id \in DOMAIN s2m[r]
  BY <1>1, Zenon DEF SlaveInv, LocalParts
<1>11. dary.id \in DOMAIN s2m[r] /\ \A i \in DOMAIN Tail(stack[r]) : Tail(stack[r])[i].id \in DOMAIN s2m[r]
  BY <1>7, <1>8, <1>10, Zenon
<1>12. MasterList' /\ Target' = Target
  BY <1>1, <1>2, MasterListStays, Zenon DEF MasterList
<1>13. SlaveList(r)' /\ Kept(r)' = Kept(r)
  <2>1. mode'[r] \in {"idle", "down"} => ir[r] = <<>>
    BY <1>2, <1>3
  <2> QED BY <1>1, <1>2, <2>1, SlaveListStays
<1>14. Inverses(r)' /\ SlotsInUse(r)'
  BY <1>1, <1>2, TablesStay
<1>15. IsMap(local, Rank) /\ IsMap(inbox, Slave) /\ \A q \in Slave : IsSeq(inbox[q])
  BY <1>1, Zenon DEF Typed
<1>16. LocalParts(r) /\ Behind(r)
  BY <1>1 DEF SlaveInv
<1>17. /\ IsMap(local', Rank) /\ \A q \in Slave \ {r} : local'[q] = local[q]
       /\ DOMAIN local'[r] \subseteq DOMAIN local[r] \union {dary.id}
       /\ IsMap(inbox', Slave) /\ (\A q \in Slave : IsSeq(inbox'[q]))
       /\ \A q \in Slave \ {r} : inbox'[q] = inbox[q]
       /\ Behind(r)'
  <2>1. CASE ~dary.hasdata
    <3>1. local' = local /\ inbox' = inbox
      BY <2>1, Zenon DEF dispatch_array_data
    <3>2. Behind(r)'
      BY <1>12, <1>13, <1>16, <3>1, BehindStays
    <3> QED BY <1>15, <3>1, <3>2, Zenon
  <2>2. CASE dary.hasdata
    <3> DEFINE b == Head(inbox[r]).block
    <3>1. local' = [local EXCEPT ![r] = With(local[r], dary.id, b)]
      BY <1>4, <2>2, Zenon DEF dispatch_array_data
    <3>2. inbox[r] # <<>> /\ Head(inbox[r]).type # "EXEC" /\ inbox' = [inbox EXCEPT ![r] = Tail(@)]
      BY <1>4, <2>2, Zenon DEF dispatch_array_data
    <3> HIDE DEF b, dary
    <3>3. IsMap(local', Rank) /\ local'[r] = With(local[r], dary.id, b) /\ \A q \in Slave \ {r} : local'[q] = local[q]
      BY <1>4, <1>15, <3>1 DEF IsMap
    <3>4. DOMAIN local'[r] = DOMAIN local[r] \union {dary.id}
      BY <3>3, Zenon DEF With
    <3>5. IsMap(inbox', Slave) /\ inbox'[r] = Tail(inbox[r]) /\ \A q \in Slave \ {r} : inbox'[q] = inbox[q]
      BY <1>15, <3>2 DEF IsMap
    <3>6. IsSeq(Tail(inbox[r]))
      BY <1>15, <3>2, SeqTail
    <3>7. \A q \in Slave : IsSeq(inbox'[q])
      BY <1>15, <3>5, <3>6
    <3>8. \A after \in SUBSET Arys : Delivered(Head(inbox[r]), Kept(r), after) => Kept(r)' = after
      BY <1>13, <3>2 DEF Delivered
    <3>9. Behind(r)'
      BY <1>12, <1>15, <1>16, <3>2, <3>5, <3>8, BehindReads
    <3> QED BY <3>3, <3>4, <3>5, <3>7, <3>9, Zenon
  <2> QED BY <2>1, <2>2, Zenon
<1> HIDE DEF dary
<1>18. Typed'
  BY <1>1, <1>2, <1>5, <1>9, <1>17, Zenon DEF Typed
<1>19. \A q \in Slave \ {r} : Own(q)' = Own(q) /\ inbox'[q] = inbox[q]
  BY <1>2, <1>5, <1>17, Zenon DEF Own
<1>20. LocalParts(r)'
  <2>1. DOMAIN local'[r] \subseteq DOMAIN s2m[r] \union Doomed(batch[r])
    BY <1>11, <1>16, <1>17, Zenon DEF LocalParts
  <2> QED BY <1>2, <1>3, <1>5, <1>11, <1>16, <2>1, Zenon DEF LocalParts
<1>21. SlaveInv(r)'
  BY <1>13, <1>14, <1>17, <1>20, Zenon DEF SlaveInv
<1> QED BY <1>4, <1>12, <1>18, <1>19, <1>21, StepOfOne

(***************************************************************************)
(* A store of which the slots of D are in use, and keys that are new to a  *)
(* map and differ.                                                         *)
(***************************************************************************)
InUse(st, D) ==
  /\ st \in [free : Seq(Nat), next : Nat]
  /\ \A i \in DOMAIN st.free : st.free[i] \notin D
  /\ D \union Range(st.free) = 0 .. st.next - 1
  /\ \A i, j \in DOMAIN st.free : st.free[i] = st.free[j] => i = j

NewKeys(keys, D) ==
  Range(keys) \cap D = {} /\ \A i, j \in DOMAIN keys : keys[i] = keys[j] => i = j

\* The slots that a slave takes from its store for new arrays.
LEMMA SlotsAreNew ==
  ASSUME NEW st, NEW D, NEW n \in Nat, InUse(st, D)
  PROVE  /\ c_next(st, n) \in [1 .. n -> Nat] /\ NewKeys(c_next(st, n), D)
         /\ InUse(WithoutNext(st, n), D \union Range(c_next(st, n)))
<1> DEFINE slots == c_next(st, n)
           new == WithoutNext(st, n)
<1>0. /\ st \in [free : Seq(Nat), next : Nat]
      /\ \A i \in DOMAIN st.free : st.free[i] \notin D
      /\ D \union Range(st.free) = 0 .. st.next - 1
      /\ \A i, j \in DOMAIN st.free : st.free[i] = st.free[j] => i = j
  BY DEF InUse
<1> DEFINE f == st.free
           L == Len(st.free)
           N == st.next
           g == new.free
<1>1. f \in Seq(Nat) /\ L \in Nat /\ N \in Nat /\ DOMAIN f = 1 .. L /\ \A i \in 1 .. L : f[i] \in Nat
  BY <1>0
<1>2. /\ \A i \in 1 .. L : f[i] \notin D
      /\ \A i, j \in 1 .. L : f[i] = f[j] => i = j
      /\ D \union {f[i] : i \in 1 .. L} = 0 .. N - 1
  BY <1>0, <1>1, Zenon DEF Range
<1>3. slots = [i \in 1 .. n |-> IF i <= L THEN f[i] ELSE N + i - L - 1]
  BY DEF c_next
<1>4. g = SubSeq(f, n + 1, L) /\ new.next = IF n <= L THEN N ELSE N + n - L
  BY DEF WithoutNext
<1>5. g \in Seq(Nat) /\ new = [free |-> g, next |-> new.next]
  BY <1>1 DEF WithoutNext
<1> HIDE DEF f, L, N, g, slots, new
<1>6. /\ n <= L => DOMAIN g = 1 .. L - n /\ \A i \in 1 .. L - n : g[i] = f[n + i]
      /\ n > L => DOMAIN g = {}
  <2>1. Len(f) = L /\ g \in Seq(Nat) /\ DOMAIN g = 1 .. Len(g)
    BY <1>1, <1>5 DEF L, f
  <2>2. Len(SubSeq(f, n + 1, Len(f))) = IF n + 1 <= Len(f) THEN Len(f) - n ELSE 0
    BY <1>1, <2>1
  <2>3. \A i \in 1 .. Len(f) - n : SubSeq(f, n + 1, Len(f))[i] = f[n + i]
    BY <1>1, <2>1
  <2>4. n <= L => Len(g) = L - n
    BY <1>1, <1>4, <2>1, <2>2
  <2>5. n > L => Len(g) = 0
    BY <1>1, <1>4, <2>1, <2>2
  <2>6. \A i \in 1 .. L - n : g[i] = f[n + i]
    BY <1>4, <2>1, <2>3
  <2> QED BY <2>1, <2>4, <2>5, <2>6
<1>7. slots \in [1 .. n -> Nat]
  BY <1>1, <1>3
<1>8. new \in [free : Seq(Nat), next : Nat]
  <2> DEFINE x == new.next
  <2>1. x \in Nat
    BY <1>1, <1>4
  <2>2. new = [free |-> g, next |-> x]
    BY <1>5
  <2> HIDE DEF x
  <2> QED BY <1>5, <2>1, <2>2
<1>9. \A i \in 1 .. L : f[i] < N
  BY <1>1, <1>2
<1>10. \A i, j \in 1 .. n : slots[i] = slots[j] => i = j
  <2> SUFFICES ASSUME NEW i \in 1 .. n, NEW j \in 1 .. n, slots[i] = slots[j] PROVE i = j
    OBVIOUS
  <2>1. CASE i <= L /\ j <= L
    BY <1>1, <1>2, <1>3, <2>1
  <2>2. CASE i > L /\ j > L
    BY <1>1, <1>3, <2>2
  <2>3. CASE i <= L /\ j > L
    BY <1>1, <1>3, <1>9, <2>3
  <2>4. CASE i > L /\ j <= L
    BY <1>1, <1>3, <1>9, <2>4
  <2> QED BY <1>1, <2>1, <2>2, <2>3, <2>4
<1>11. \A i \in 1 .. n : slots[i] \notin D
  <2> SUFFICES ASSUME NEW i \in 1 .. n PROVE slots[i] \notin D
    OBVIOUS
  <2>1. CASE i <= L
    BY <1>1, <1>2, <1>3, <2>1
  <2>2. CASE i > L
    <3>1. slots[i] >= N /\ slots[i] \in Nat
      BY <1>1, <1>3, <2>2
    <3> QED BY <1>1, <1>2, <3>1
  <2> QED BY <1>1, <2>1, <2>2
<1>12. \A i \in DOMAIN g : g[i] \notin D \union Range(slots)
  <2> SUFFICES ASSUME NEW i \in DOMAIN g PROVE g[i] \notin D \union Range(slots)
    OBVIOUS
  <2>1. n <= L /\ n + i \in 1 .. L /\ g[i] = f[n + i] /\ n + i > n
    BY <1>1, <1>6
  <2>2. g[i] \notin D
    BY <1>2, <2>1
  <2>3. \A j \in 1 .. n : slots[j] = f[j] /\ j \in 1 .. L /\ j # n + i
    BY <1>1, <1>3, <2>1
  <2>4. \A j \in 1 .. n : slots[j] # g[i]
    BY <1>2, <2>1, <2>3
  <2> QED BY <1>7, <2>2, <2>4 DEF Range
<1>13. \A i, j \in DOMAIN g : g[i] = g[j] => i = j
  <2> SUFFICES ASSUME NEW i \in DOMAIN g, NEW j \in DOMAIN g, g[i] = g[j] PROVE i = j
    OBVIOUS
  <2>0. n <= L
    BY <1>1, <1>6
  <2>1. n + i \in 1 .. L /\ g[i] = f[n + i] /\ n + j \in 1 .. L /\ g[j] = f[n + j] /\ i \in Nat /\ j \in Nat
    <3>1. i \in 1 .. L - n /\ j \in 1 .. L - n
      BY <1>6, <2>0
    <3> QED BY <1>1, <1>6, <2>0, <3>1
  <2>2. n + i = n + j
    BY <1>2, <2>1, Zenon
  <2> QED BY <2>1, <2>2
<1>14. (D \union Range(slots)) \union Range(g) = 0 .. new.next - 1
  <2>0. Range(slots) = {slots[i] : i \in 1 .. n} /\ Range(g) = {g[i] : i \in DOMAIN g}
    <3>1. DOMAIN slots = 1 .. n
      BY <1>7
    <3> QED BY <3>1, Zenon DEF Range
  <2>1. CASE n <= L
    <3>1. {f[i] : i \in 1 .. L} = {slots[i] : i \in 1 .. n} \union {g[i] : i \in DOMAIN g}
      <4>1. \A i \in 1 .. n : i \in 1 .. L /\ slots[i] = f[i]
        BY <1>1, <1>3, <2>1
      <4>2. \A i \in DOMAIN g : n + i \in 1 .. L /\ g[i] = f[n + i]
        BY <1>1, <1>6, <2>1
      <4>3. \A i \in 1 .. L : i \in 1 .. n \/ (i - n \in DOMAIN g /\ g[i - n] = f[i])
        <5> SUFFICES ASSUME NEW i \in 1 .. L, i \notin 1 .. n PROVE i - n \in DOMAIN g /\ g[i - n] = f[i]
          OBVIOUS
        <5>1. i - n \in 1 .. L - n /\ n + (i - n) = i
          BY <1>1, <2>1
        <5> QED BY <1>6, <2>1, <5>1
      <4> QED BY <4>1, <4>2, <4>3
    <3>2. new.next = N
      BY <1>4, <2>1
    <3> QED BY <1>2, <2>0, <3>1, <3>2
  <2>2. CASE n > L
    <3>1. new.next = N + n - L /\ {g[i] : i \in DOMAIN g} = {}
      BY <1>1, <1>4, <1>6, <2>2
    <3>2. {slots[i] : i \in 1 .. n} = {f[i] : i \in 1 .. L} \union (N .. N + n - L - 1)
      <4>1. \A i \in 1 .. L : i \in 1 .. n /\ slots[i] = f[i]
        BY <1>1, <1>3, <2>2
      <4>2. \A i \in 1 .. n : i \in 1 .. L \/ slots[i] \in N .. N + n - L - 1
        BY <1>1, <1>3, <2>2
      <4>3. \A k \in N .. N + n - L - 1 : k - N + L + 1 \in 1 .. n /\ slots[k - N + L + 1] = k
        BY <1>1, <1>3, <2>2
      <4>4. \A i \in 1 .. L : f[i] \in {slots[j] : j \in 1 .. n}
        BY <4>1
      <4>5. \A k \in N .. N + n - L - 1 : k \in {slots[j] : j \in 1 .. n}
        BY <4>3
      <4>6. \A i \in 1 .. n : slots[i] \in {f[j] : j \in 1 .. L} \union (N .. N + n - L - 1)
        BY <4>1, <4>2
      <4> QED BY <4>4, <4>5, <4>6
    <3>3. (0 .. N - 1) \union (N .. N + n - L - 1) = 0 .. N + n - L - 1
      <4>1. \A k \in 0 .. N + n - L - 1 : k \in 0 .. N - 1 \/ k \in N .. N + n - L - 1
        BY <1>1, <2>2
      <4>2. \A k \in 0 .. N - 1 : k \in 0 .. N + n - L - 1
        BY <1>1, <2>2
      <4>3. \A k \in N .. N + n - L - 1 : k \in 0 .. N + n - L - 1
        BY <1>1, <2>2
      <4> QED BY <4>1, <4>2, <4>3
    <3> DEFINE F == {f[i] : i \in 1 .. L}
               I == N .. N + n - L - 1
    <3>4. Range(slots) = F \union I /\ Range(g) = {}
      BY <2>0, <3>1, <3>2, Zenon
    <3>5. D \union F = 0 .. N - 1
      BY <1>2, Zenon
    <3>6. (0 .. N - 1) \union I = 0 .. N + n - L - 1
      BY <3>3, Zenon
    <3>7. 0 .. new.next - 1 = 0 .. N + n - L - 1
      <4> DEFINE x == new.next
      <4> SUFFICES 0 .. x - 1 = 0 .. N + n - L - 1
        OBVIOUS
      <4>1. x = N + n - L
        BY <3>1
      <4>2. x \in Nat /\ N \in Nat /\ L \in Nat
        BY <1>1, <2>2, <4>1
      <4> HIDE DEF x
      <4> QED BY <4>1, <4>2
    <3> HIDE DEF F, I
    <3> QED BY <3>4, <3>5, <3>6, <3>7, Zenon
  <2> QED BY <1>1, <2>1, <2>2
<1>15. NewKeys(slots, D)
  <2>1. DOMAIN slots = 1 .. n
    BY <1>7
  <2> QED BY <1>10, <1>11, <2>1 DEF NewKeys, Range
<1>16. InUse(new, D \union Range(slots))
  BY <1>8, <1>12, <1>13, <1>14, Zenon DEF InUse, g
<1> QED BY <1>7, <1>15, <1>16 DEF slots, new

\* A map with new keys has the old and the new keys.
LEMMA RegisteredDomain ==
  ASSUME NEW map, NEW keys, NEW values
  PROVE  DOMAIN Registered(map, keys, values) = DOMAIN map \union Range(keys)
  BY DEF Registered

\* Each of the new keys has its own value.
LEMMA RegisteredNew ==
  ASSUME NEW map, NEW keys, NEW values, NewKeys(keys, DOMAIN map)
  PROVE  \A i \in DOMAIN keys : Registered(map, keys, values)[keys[i]] = values[i]
<1> SUFFICES ASSUME NEW i \in DOMAIN keys PROVE Registered(map, keys, values)[keys[i]] = values[i]
  BY Zenon
<1>1. keys[i] \in Range(keys)
  BY Zenon DEF Range
<1>2. (CHOOSE j \in DOMAIN keys : keys[j] = keys[i]) = i
  BY DEF NewKeys
<1> QED BY <1>1, <1>2, Zenon DEF Registered

\* The old keys have the values they had.
LEMMA RegisteredOld ==
  ASSUME NEW map, NEW keys, NEW values, NewKeys(keys, DOMAIN map)
  PROVE  \A k \in DOMAIN map : Registered(map, keys, values)[k] = map[k]
<1>1. \A k \in DOMAIN map : k \notin Range(keys)
  BY DEF NewKeys
<1> QED BY <1>1 DEF Registered

\* A map with the new keys, and the old ones as they were.
Extended(new, map, keys, values) ==
  /\ DOMAIN new = DOMAIN map \union Range(keys)
  /\ \A i \in DOMAIN keys : new[keys[i]] = values[i]
  /\ \A k \in DOMAIN map : new[k] = map[k]

\* What registering new keys does to a map.
LEMMA RegisteredExtends ==
  ASSUME NEW map, NEW keys, NEW values, NewKeys(keys, DOMAIN map)
  PROVE  Extended(Registered(map, keys, values), map, keys, values)
<1> DEFINE new == Registered(map, keys, values)
<1>1. DOMAIN new = DOMAIN map \union Range(keys)
  BY RegisteredDomain, Zenon
<1>2. \A i \in DOMAIN keys : new[keys[i]] = values[i]
  BY RegisteredNew
<1>3. \A k \in DOMAIN map : new[k] = map[k]
  BY RegisteredOld
<1> HIDE DEF new
<1>4. Extended(new, map, keys, values)
  BY <1>1, <1>2, <1>3, Zenon DEF Extended
<1> QED BY <1>4 DEF new

\* The second map leads back from the slots of the first.
LeadsBack(map, back) == \A a \in DOMAIN map : map[a] \in Nat /\ back[map[a]] = a

Image(map, S) == {map[a] : a \in S}

\* An instruction of the bridge in terms of the slots of a slave that knows its arrays.
LEMMA TranslatedInstruction ==
  ASSUME NEW map, NEW back, LeadsBack(map, back),
         NEW inst \in Instruction(Arys), Range(Bases(inst)) \subseteq DOMAIN map
  PROVE  /\ Translated(inst, map) \in Instruction(Nat)
         /\ Translated(inst, map).op = inst.op
         /\ Translated(inst, map).out.base = map[inst.out.base] /\ inst.out.base \in DOMAIN map
         /\ Range(Bases(Translated(inst, map))) = Image(map, Range(Bases(inst)))
         /\ IsTranslation(back, Translated(inst, map), inst)
<1> DEFINE mine == Translated(inst, map)
           n == Len(inst.ins)
           D == DOMAIN map
<1>0. \A a \in D : map[a] \in Nat /\ back[map[a]] = a
  BY Zenon DEF LeadsBack
<1>1. /\ inst.out \in ViewOf(Arys) /\ inst.ins \in Seq(ViewOf(Arys)) /\ n \in Nat /\ DOMAIN inst.ins = 1 .. n
      /\ \A j \in 1 .. n : inst.ins[j] \in ViewOf(Arys)
  BY DEF Instruction
<1>2. Range(Bases(inst)) = {inst.out.base} \union {inst.ins[j].base : j \in 1 .. n}
  BY InstructionBases, Zenon
<1>3. inst.out.base \in D /\ \A j \in 1 .. n : inst.ins[j].base \in D
  BY <1>2
<1> DEFINE out == [base |-> map[inst.out.base], start |-> inst.out.start, stride |-> inst.out.stride]
           ins == [j \in 1 .. n |-> [base |-> map[inst.ins[j].base], start |-> inst.ins[j].start,
                                     stride |-> inst.ins[j].stride]]
<1>4. mine = [op |-> inst.op, out |-> out, ins |-> ins, v |-> inst.v, n |-> inst.n]
  <2>1. inst = [op |-> inst.op, out |-> inst.out, ins |-> inst.ins, v |-> inst.v, n |-> inst.n]
    BY DEF Instruction
  <2>0. ASSUME NEW v \in ViewOf(Arys), v.base \in D
        PROVE  [v EXCEPT !.base = IF @ \in DOMAIN map THEN map[@] ELSE NULL]
                 = [base |-> map[v.base], start |-> v.start, stride |-> v.stride]
    BY <2>0 DEF ViewOf
  <2>2. [inst.out EXCEPT !.base = IF @ \in DOMAIN map THEN map[@] ELSE NULL] = out
    BY <1>1, <1>3, <2>0
  <2>3. [j \in DOMAIN inst.ins |-> [inst.ins[j] EXCEPT !.base = IF @ \in DOMAIN map THEN map[@] ELSE NULL]] = ins
    <3>1. \A j \in 1 .. n : [inst.ins[j] EXCEPT !.base = IF @ \in DOMAIN map THEN map[@] ELSE NULL]
                              = [base |-> map[inst.ins[j].base], start |-> inst.ins[j].start, stride |-> inst.ins[j].stride]
      BY <1>1, <1>3, <2>0
    <3> QED BY <1>1, <3>1, Zenon
  <2> DEFINE o2 == [inst.out EXCEPT !.base = IF @ \in DOMAIN map THEN map[@] ELSE NULL]
             i2 == [j \in DOMAIN inst.ins |-> [inst.ins[j] EXCEPT !.base = IF @ \in DOMAIN map THEN map[@] ELSE NULL]]
  <2>4. mine = [inst EXCEPT !.out = o2, !.ins = i2]
    BY DEF Translated
  <2> HIDE DEF o2, i2, mine, out, ins
  <2>5. mine = [op |-> inst.op, out |-> o2, ins |-> i2, v |-> inst.v, n |-> inst.n]
    BY <2>1, <2>4, Zenon
  <2>6. o2 = out /\ i2 = ins
    BY <2>2, <2>3 DEF o2, i2
  <2> QED BY <2>5, <2>6
<1>5. out \in ViewOf(Nat) /\ \A j \in 1 .. n : ins[j] \in ViewOf(Nat)
  BY <1>0, <1>1, <1>3, Zenon DEF ViewOf
<1>6. ins \in Seq(ViewOf(Nat)) /\ Len(ins) = n
  <2>1. ins = [j \in 1 .. n |-> ins[j]]
    BY Zenon
  <2> HIDE DEF ins, n
  <2> QED BY <1>1, <1>5, <2>1, SeqOver
<1>7. /\ out.base = map[inst.out.base] /\ out.start = inst.out.start /\ out.stride = inst.out.stride
      /\ \A j \in 1 .. n : /\ ins[j].base = map[inst.ins[j].base] /\ ins[j].start = inst.ins[j].start
                           /\ ins[j].stride = inst.ins[j].stride
  BY Zenon
<1> HIDE DEF out, ins, mine
<1>8. mine.op = inst.op /\ mine.out = out /\ mine.ins = ins /\ mine.v = inst.v /\ mine.n = inst.n
  BY <1>4
<1>9. mine \in Instruction(Nat)
  <2>1. inst.op \in STRING /\ inst.v \in Int /\ inst.n \in Int
    BY DEF Instruction
  <2> QED BY <1>4, <1>5, <1>6, <2>1, Zenon DEF Instruction
<1>10. Range(Bases(mine)) = Image(map, Range(Bases(inst)))
  <2>1. Range(Bases(mine)) = {out.base} \union {ins[j].base : j \in 1 .. n}
    <3>1. Range(Bases(mine)) = {mine.out.base} \union {mine.ins[j].base : j \in 1 .. Len(mine.ins)}
      BY <1>9, InstructionBases, Zenon
    <3> QED BY <1>6, <1>8, <3>1, Zenon
  <2>2. {ins[j].base : j \in 1 .. n} = {map[inst.ins[j].base] : j \in 1 .. n}
    <3>1. \A j \in 1 .. n : ins[j].base = map[inst.ins[j].base]
      BY <1>7, Zenon
    <3> QED BY <3>1, SMTT(30)
  <2>3. Image(map, Range(Bases(inst))) = {map[inst.out.base]} \union {map[inst.ins[j].base] : j \in 1 .. n}
    BY <1>2, Zenon DEF Image
  <2> QED BY <1>7, <2>1, <2>2, <2>3, Zenon
<1>11. IsTranslation(back, mine, inst)
  <2>1. /\ Views(inst)[1] = inst.out /\ \A i \in 1 .. n : Views(inst)[1 + i] = inst.ins[i]
        /\ \A o \in 1 .. 1 + n : o = 1 \/ \E i \in 1 .. n : o = 1 + i
    BY ViewsFacts, Zenon
  <2>2. Views(mine)[1] = out /\ \A i \in 1 .. n : Views(mine)[1 + i] = ins[i]
    BY <1>6, <1>8, <1>9, ViewsFacts, Zenon
  <2>3. ASSUME NEW o \in 1 .. 1 + n
        PROVE  /\ Views(mine)[o].start = Views(inst)[o].start /\ Views(mine)[o].stride = Views(inst)[o].stride
               /\ back[Views(mine)[o].base] = Views(inst)[o].base
    <3>1. CASE o = 1
      BY <1>0, <1>3, <1>7, <2>1, <2>2, <3>1, Zenon
    <3>2. CASE o # 1
      <4>1. PICK i \in 1 .. n : o = 1 + i
        BY <2>1, <3>2
      <4>2. Views(mine)[o] = ins[i] /\ Views(inst)[o] = inst.ins[i]
        BY <2>1, <2>2, <4>1, Zenon
      <4>3. /\ ins[i].start = inst.ins[i].start /\ ins[i].stride = inst.ins[i].stride
            /\ ins[i].base = map[inst.ins[i].base]
        BY <1>7, Zenon
      <4>4. back[map[inst.ins[i].base]] = inst.ins[i].base
        BY <1>0, <1>3, Zenon
      <4> QED BY <4>2, <4>3, <4>4, Zenon
    <3> QED BY <3>1, <3>2, Zenon
  <2> QED BY <1>6, <1>8, <2>3, Zenon DEF IsTranslation
<1> QED BY <1>3, <1>7, <1>8, <1>9, <1>10, <1>11, Zenon DEF mine

AllTranslated(bhir, map) == [i \in DOMAIN bhir |-> Translated(bhir[i], map)]

\* A list is another one in terms of the slots that map gives to its arrays.
InSlots(list, bhir, map, back) ==
  /\ IsList(list, Nat)
  /\ ArysOf(list) \subseteq Image(map, DOMAIN map)
  /\ Discards(list) = Image(map, Discards(bhir)) /\ Discards(bhir) \subseteq DOMAIN map
  /\ \A i \in DOMAIN list : \E inst \in Instrs : IsTranslation(back, list[i], inst)

\* The list of the bridge in terms of these slots.
LEMMA TranslatedList ==
  ASSUME NEW map, NEW back, LeadsBack(map, back),
         NEW bhir \in BhIRs, ArysOf(bhir) \subseteq DOMAIN map,
         NEW list, list = AllTranslated(bhir, map)
  PROVE  InSlots(list, bhir, map, back)
<1> DEFINE D == DOMAIN map
<1>0. \A a \in D : map[a] \in Nat /\ back[map[a]] = a
  BY DEF LeadsBack
<1>1. IsList(bhir, Arys)
  BY ListsAssumption DEF IsList
<1>2. /\ Len(bhir) \in Nat /\ DOMAIN bhir = 1 .. Len(bhir)
      /\ \A i \in 1 .. Len(bhir) : bhir[i] \in Instruction(Arys) /\ Range(Bases(bhir[i])) \subseteq ArysOf(bhir)
      /\ Discards(bhir) \subseteq ArysOf(bhir)
  BY <1>1, ListFacts
<1>3. DOMAIN list = DOMAIN bhir /\ \A i \in DOMAIN bhir : list[i] = Translated(bhir[i], map)
  BY Zenon DEF AllTranslated
<1>4. ASSUME NEW i \in DOMAIN bhir
      PROVE  /\ list[i] \in Instruction(Nat)
             /\ list[i].op = bhir[i].op /\ list[i].out.base = map[bhir[i].out.base] /\ bhir[i].out.base \in D
             /\ Range(Bases(list[i])) = Image(map, Range(Bases(bhir[i])))
             /\ Range(Bases(bhir[i])) \subseteq D
             /\ IsTranslation(back, list[i], bhir[i])
  <2>1. list[i] = Translated(bhir[i], map)
    BY <1>3
  <2>2. bhir[i] \in Instruction(Arys) /\ Range(Bases(bhir[i])) \subseteq D
    BY <1>2
  <2> DEFINE t == Translated(bhir[i], map)
  <2>3. /\ t \in Instruction(Nat)
        /\ t.op = bhir[i].op /\ t.out.base = map[bhir[i].out.base] /\ bhir[i].out.base \in D
        /\ Range(Bases(t)) = Image(map, Range(Bases(bhir[i])))
        /\ IsTranslation(back, t, bhir[i])
    BY <2>2, TranslatedInstruction, Zenon
  <2>4. list[i] = t
    BY <2>1
  <2> HIDE DEF t
  <2> QED BY <2>2, <2>3, <2>4, Zenon
<1>5. list \in Seq(Instruction(Nat))
  <2>1. list = [i \in 1 .. Len(bhir) |-> list[i]]
    BY <1>2, Zenon DEF AllTranslated
  <2>2. \A i \in 1 .. Len(bhir) : list[i] \in Instruction(Nat)
    BY <1>2, <1>4, Zenon
  <2> QED BY <1>2, <2>1, <2>2, SeqOver
<1>6. DiscardsAreLast(list)
  <2> SUFFICES ASSUME NEW i \in DOMAIN bhir, NEW j \in DOMAIN bhir, i < j, list[i].op = "DISCARD",
                      list[i].out.base \in Range(Bases(list[j]))
               PROVE  FALSE
    BY <1>3, Zenon DEF DiscardsAreLast
  <2>1. bhir[i].op = "DISCARD" /\ bhir[i].out.base \in D /\ list[i].out.base = map[bhir[i].out.base]
    BY <1>4, Zenon
  <2>2. Range(Bases(list[j])) = Image(map, Range(Bases(bhir[j]))) /\ Range(Bases(bhir[j])) \subseteq D
    BY <1>4, Zenon
  <2>3. PICK a \in Range(Bases(bhir[j])) : list[i].out.base = map[a]
    BY <2>2, Zenon DEF Image
  <2>4. a = bhir[i].out.base
    BY <1>0, <2>1, <2>2, <2>3, Zenon
  <2>5. DiscardsAreLast(bhir)
    BY <1>1, Zenon DEF IsList
  <2> QED BY <2>1, <2>3, <2>4, <2>5, Zenon DEF DiscardsAreLast
<1>7. ArysOf(list) \subseteq Image(map, D)
  <2> SUFFICES ASSUME NEW i \in DOMAIN list PROVE Range(Bases(list[i])) \subseteq Image(map, D)
    BY DEF ArysOf
  <2>1. Range(Bases(list[i])) = Image(map, Range(Bases(bhir[i]))) /\ Range(Bases(bhir[i])) \subseteq D
    BY <1>3, <1>4, Zenon
  <2> QED BY <2>1 DEF Image
<1>8. Discards(list) = Image(map, Discards(bhir))
  <2>1. ASSUME NEW i \in DOMAIN list, list[i].op = "DISCARD"
        PROVE  list[i].out.base \in Image(map, Discards(bhir))
    <3>1. bhir[i].op = "DISCARD" /\ i \in DOMAIN bhir /\ list[i].out.base = map[bhir[i].out.base]
      BY <1>3, <1>4, <2>1, Zenon
    <3>2. bhir[i].out.base \in Discards(bhir)
      BY <3>1, Zenon DEF Discards
    <3> QED BY <3>1, <3>2 DEF Image
  <2>2. ASSUME NEW i \in DOMAIN bhir, bhir[i].op = "DISCARD"
        PROVE  map[bhir[i].out.base] \in Discards(list)
    <3>1. list[i].op = "DISCARD" /\ i \in DOMAIN list /\ list[i].out.base = map[bhir[i].out.base]
      BY <1>3, <1>4, <2>2, Zenon
    <3> QED BY <3>1, Zenon DEF Discards
  <2>3. \A x \in Discards(list) : x \in Image(map, Discards(bhir))
    BY <2>1, Zenon DEF Discards
  <2>4. \A a \in Discards(bhir) : map[a] \in Discards(list)
    BY <2>2, Zenon DEF Discards
  <2> QED BY <2>3, <2>4 DEF Image
<1>9. \A i \in DOMAIN list : \E inst \in Instrs : IsTranslation(back, list[i], inst)
  <2> SUFFICES ASSUME NEW i \in DOMAIN list PROVE \E inst \in Instrs : IsTranslation(back, list[i], inst)
    OBVIOUS
  <2>1. i \in DOMAIN bhir /\ IsTranslation(back, list[i], bhir[i])
    BY <1>3, <1>4, Zenon
  <2>2. bhir[i] \in Instrs
    BY <2>1 DEF Instrs, Range
  <2> QED BY <2>1, <2>2
<1>10. Discards(bhir) \subseteq D
  BY <1>2
<1>11. IsList(list, Nat)
  BY <1>5, <1>6, Zenon DEF IsList
<1> QED BY <1>7, <1>8, <1>9, <1>10, <1>11, Zenon DEF InSlots

\* New arrays as they come with a list.
IdsOf(darys) == [i \in DOMAIN darys |-> darys[i].id]

AreNew(darys, D) ==
  /\ darys \in Seq([id : Arys, hasdata : BOOLEAN])
  /\ \A i, j \in DOMAIN darys : darys[i].id = darys[j].id => i = j
  /\ Ids(darys) \cap D = {}

\* The tables of a slave that has registered new arrays.
Learnt(r, darys, slots) ==
  /\ Inverses(r)' /\ SlotsInUse(r)'
  /\ m2s'[r] \in UNION {[S -> Nat] : S \in SUBSET Arys}
  /\ s2m'[r] \in UNION {[S -> Arys] : S \in SUBSET Nat}
  /\ store'[r] \in [free : Seq(Nat), next : Nat]
  /\ DOMAIN m2s'[r] = DOMAIN m2s[r] \union Ids(darys)
  /\ DOMAIN s2m[r] \subseteq DOMAIN s2m'[r]
  /\ DOMAIN slots = DOMAIN darys /\ \A i \in DOMAIN darys : slots[i] \in DOMAIN s2m'[r]

(***************************************************************************)
(* The maps of a slave after dispatch_new_slave_array for arrays that it   *)
(* does not know.                                                          *)
(***************************************************************************)
LEMMA TablesLearn ==
  ASSUME Typed, NEW r \in Slave, Inverses(r), SlotsInUse(r),
         NEW darys, AreNew(darys, DOMAIN m2s[r]), NEW ids, ids = IdsOf(darys),
         NEW slots, slots = c_next(store[r], Len(darys)),
         m2s'[r] = Registered(m2s[r], ids, slots), s2m'[r] = Registered(s2m[r], slots, ids),
         store'[r] = WithoutNext(store[r], Len(darys))
  PROVE  Learnt(r, darys, slots)
<1> DEFINE n == Len(darys)
           M == m2s[r]
           S == s2m[r]
           M2 == m2s'[r]
           S2 == s2m'[r]
<1>1. /\ M \in [DOMAIN M -> Nat] /\ DOMAIN M \subseteq Arys
      /\ S \in [DOMAIN S -> Arys] /\ DOMAIN S \subseteq Nat
      /\ store[r] \in [free : Seq(Nat), next : Nat]
  BY MapTypes, Zenon
<1>2. n \in Nat /\ DOMAIN darys = 1 .. n /\ \A i \in 1 .. n : darys[i].id \in Arys
  <2> DEFINE R == [id : Arys, hasdata : BOOLEAN]
  <2>1. darys \in Seq(R) /\ \A x \in R : x.id \in Arys
    BY Zenon DEF AreNew
  <2> HIDE DEF R
  <2>2. n \in Nat /\ DOMAIN darys = 1 .. n /\ \A i \in 1 .. n : darys[i] \in R
    BY <2>1, SeqElements, Zenon
  <2> QED BY <2>1, <2>2, Zenon
<1>3. DOMAIN ids = 1 .. n /\ \A i \in 1 .. n : ids[i] = darys[i].id /\ ids[i] \in Arys
  BY <1>2, Zenon DEF IdsOf
<1>4. Range(ids) = Ids(darys)
  BY <1>2, <1>3, Zenon DEF Range, Ids
<1>5. InUse(store[r], DOMAIN S)
  BY <1>1, Zenon DEF SlotsInUse, InUse
<1> DEFINE new == WithoutNext(store[r], n)
<1>6. slots \in [1 .. n -> Nat] /\ NewKeys(slots, DOMAIN S) /\ InUse(new, DOMAIN S \union Range(slots))
  BY <1>2, <1>5, SlotsAreNew, Zenon
<1>7. DOMAIN slots = 1 .. n /\ Range(slots) = {slots[i] : i \in 1 .. n} /\ Range(ids) = {ids[i] : i \in 1 .. n}
  <2>1. DOMAIN slots = 1 .. n
    BY <1>6, Zenon
  <2> QED BY <1>3, <2>1, Zenon DEF Range
<1>8. NewKeys(ids, DOMAIN M)
  <2>1. Ids(darys) \cap DOMAIN M = {} /\ \A i, j \in DOMAIN darys : darys[i].id = darys[j].id => i = j
    BY Zenon DEF AreNew
  <2>2. \A i, j \in DOMAIN ids : ids[i] = ids[j] => i = j
    <3> SUFFICES ASSUME NEW i \in DOMAIN ids, NEW j \in DOMAIN ids, ids[i] = ids[j] PROVE i = j
      BY Zenon
    <3>1. i \in DOMAIN darys /\ j \in DOMAIN darys
      BY <1>2, <1>3
    <3>2. ids[i] = darys[i].id /\ ids[j] = darys[j].id
      BY <1>3
    <3>3. darys[i].id = darys[j].id
      BY <3>2, Zenon
    <3> QED BY <2>1, <3>1, <3>3
  <2>3. Range(ids) \cap DOMAIN M = {}
    BY <1>4, <2>1, Zenon
  <2> QED BY <2>2, <2>3, Zenon DEF NewKeys
<1>9. /\ M2 = Registered(M, ids, slots)
      /\ S2 = Registered(S, slots, ids)
  BY Zenon
<1> HIDE DEF M, S, M2, S2
<1>10. /\ DOMAIN M2 = DOMAIN M \union Range(ids)
       /\ \A i \in 1 .. n : M2[ids[i]] = slots[i]
       /\ \A a \in DOMAIN M : M2[a] = M[a]
  <2>1. Extended(Registered(M, ids, slots), M, ids, slots)
    BY <1>8, RegisteredExtends, Zenon
  <2>2. Extended(M2, M, ids, slots)
    BY <1>9, <2>1, Zenon
  <2> QED BY <1>3, <2>2, Zenon DEF Extended
<1>11. /\ DOMAIN S2 = DOMAIN S \union Range(slots)
       /\ \A i \in 1 .. n : S2[slots[i]] = ids[i]
       /\ \A h \in DOMAIN S : S2[h] = S[h]
  <2>1. Extended(Registered(S, slots, ids), S, slots, ids)
    BY <1>6, RegisteredExtends, Zenon
  <2>2. Extended(S2, S, slots, ids)
    BY <1>9, <2>1, Zenon
  <2> QED BY <1>7, <2>2, Zenon DEF Extended
<1>12. M2 = [a \in DOMAIN M2 |-> M2[a]] /\ S2 = [h \in DOMAIN S2 |-> S2[h]]
  BY <1>9, Zenon DEF Registered
<1>13. store'[r] = new
  BY Zenon
<1>14. /\ \A a \in DOMAIN M : M[a] \in DOMAIN S /\ S[M[a]] = a
       /\ \A h \in DOMAIN S : S[h] \in DOMAIN M /\ M[S[h]] = h
  BY Zenon DEF Inverses, M, S
<1> HIDE DEF n, new
<1>15. \A a \in DOMAIN M2 : M2[a] \in DOMAIN S2 /\ S2[M2[a]] = a /\ M2[a] \in Nat /\ a \in Arys
  <2> SUFFICES ASSUME NEW a \in DOMAIN M2 PROVE M2[a] \in DOMAIN S2 /\ S2[M2[a]] = a /\ M2[a] \in Nat /\ a \in Arys
    BY Zenon
  <2>1. CASE a \in DOMAIN M
    BY <1>1, <1>10, <1>11, <1>14, <2>1
  <2>2. CASE a \in Range(ids)
    <3>1. PICK i \in 1 .. n : a = ids[i]
      BY <1>7, <2>2, Zenon
    <3>2. M2[a] = slots[i] /\ slots[i] \in Range(slots) /\ slots[i] \in Nat
      BY <1>6, <1>7, <1>10, <3>1, Zenon
    <3> QED BY <1>3, <1>11, <3>1, <3>2, Zenon
  <2> QED BY <1>10, <2>1, <2>2, Zenon
<1>16. \A h \in DOMAIN S2 : S2[h] \in DOMAIN M2 /\ M2[S2[h]] = h /\ S2[h] \in Arys /\ h \in Nat
  <2> SUFFICES ASSUME NEW h \in DOMAIN S2 PROVE S2[h] \in DOMAIN M2 /\ M2[S2[h]] = h /\ S2[h] \in Arys /\ h \in Nat
    BY Zenon
  <2>1. CASE h \in DOMAIN S
    BY <1>1, <1>10, <1>11, <1>14, <2>1
  <2>2. CASE h \in Range(slots)
    <3>1. PICK i \in 1 .. n : h = slots[i]
      BY <1>7, <2>2, Zenon
    <3>2. S2[h] = ids[i] /\ ids[i] \in Range(ids) /\ ids[i] \in Arys /\ slots[i] \in Nat
      BY <1>3, <1>6, <1>7, <1>11, <3>1, Zenon
    <3> QED BY <1>10, <3>1, <3>2, Zenon
  <2> QED BY <1>11, <2>1, <2>2, Zenon
<1>17. Inverses(r)'
  BY <1>15, <1>16, Zenon DEF Inverses, M2, S2
<1>18. SlotsInUse(r)'
  <2>1. /\ \A i \in DOMAIN new.free : new.free[i] \notin DOMAIN S2
        /\ DOMAIN S2 \union Range(new.free) = 0 .. new.next - 1
        /\ \A i, j \in DOMAIN new.free : new.free[i] = new.free[j] => i = j
    BY <1>6, <1>11, Zenon DEF InUse
  <2> QED BY <1>13, <2>1, Zenon DEF SlotsInUse, S2
<1>19. M2 \in UNION {[T -> Nat] : T \in SUBSET Arys}
  <2>1. M2 \in [DOMAIN M2 -> Nat] /\ DOMAIN M2 \in SUBSET Arys
    BY <1>12, <1>15
  <2> QED BY <2>1
<1>20. S2 \in UNION {[T -> Arys] : T \in SUBSET Nat}
  <2>1. S2 \in [DOMAIN S2 -> Arys] /\ DOMAIN S2 \in SUBSET Nat
    BY <1>12, <1>16
  <2> QED BY <2>1
<1>21. \A i \in 1 .. n : slots[i] \in DOMAIN S2
  BY <1>7, <1>11, Zenon
<1>22. DOMAIN M2 = DOMAIN M \union Ids(darys) /\ DOMAIN S \subseteq DOMAIN S2
  BY <1>4, <1>10, <1>11, Zenon
<1>23. store'[r] \in [free : Seq(Nat), next : Nat]
  BY <1>6, <1>13, Zenon DEF InUse
<1>24. DOMAIN slots = DOMAIN darys /\ \A i \in DOMAIN darys : slots[i] \in DOMAIN S2
  BY <1>2, <1>7, <1>21, Zenon
<1> QED BY <1>17, <1>18, <1>19, <1>20, <1>22, <1>23, <1>24, Zenon DEF Learnt, M, S, M2, S2

\* The message that a slave reads next, and what it says of the arrays that the slave knows.
LEMMA NextMessage ==
  ASSUME NEW r \in Slave, Behind(r), IsSeq(inbox[r]), inbox[r] # <<>>, Head(inbox[r]).type = "EXEC"
  PROVE  LET m == Head(inbox[r])
         IN  /\ m.bhir \in BhIRs
             /\ m.darys \in Seq([id : Arys, hasdata : BOOLEAN])
             /\ \A i, j \in DOMAIN m.darys : m.darys[i].id = m.darys[j].id => i = j
             /\ Ids(m.darys) \cap Kept(r) = {}
             /\ ArysOf(m.bhir) \subseteq Kept(r) \union Ids(m.darys)
<1> DEFINE m == Head(inbox[r])
<1>1. PICK K \in [1 .. Len(inbox[r]) + 1 -> SUBSET Arys] :
         /\ K[1] = Kept(r)
         /\ \A i \in 1 .. Len(inbox[r]) : Delivered(inbox[r][i], K[i], K[i + 1])
  BY Zenon DEF Behind
<1>2. 1 \in 1 .. Len(inbox[r]) /\ m = inbox[r][1]
  BY SeqTail
<1>3. Delivered(m, Kept(r), K[1 + 1])
  BY <1>1, <1>2
<1>4. m.type = "EXEC"
  OBVIOUS
<1> HIDE DEF m
<1>5. /\ m.bhir \in BhIRs
      /\ m.darys \in Seq([id : Arys, hasdata : BOOLEAN])
      /\ \A i, j \in DOMAIN m.darys : m.darys[i].id = m.darys[j].id => i = j
      /\ Ids(m.darys) \cap Kept(r) = {}
      /\ ArysOf(m.bhir) \subseteq Kept(r) \union Ids(m.darys)
  BY <1>3, <1>4, Zenon DEF Delivered
<1> QED BY <1>5, Zenon DEF m

\* A slave reads a list: it registers the new arrays and translates the list.
LEMMA SlaveExecKeeps ==
  ASSUME TablesInv, NEW r \in Slave, slave_exec(r)
  PROVE  TablesInv'
<1> DEFINE m == Head(inbox[r])
           bhir == m.bhir
           darys == m.darys
           ids == [i \in DOMAIN darys |-> darys[i].id]
           slots == c_next(store[r], Len(darys))
           list == [i \in DOMAIN bhir |-> Translated(bhir[i], m2s'[r])]
           top == [i \in DOMAIN darys |-> [id |-> slots[i], hasdata |-> darys[i].hasdata]]
<1>0. r # 0 /\ r \in Rank /\ Slave \subseteq Rank /\ 0 \in Rank
  BY RankFacts
<1>1. /\ mode[r] = "idle" /\ mode' = [mode EXCEPT ![r] = "scatter"]
      /\ inbox[r] # <<>> /\ Head(inbox[r]).type = "EXEC" /\ inbox' = [inbox EXCEPT ![r] = Tail(@)]
  BY Zenon DEF slave_exec
<1>2. known' = known /\ local' = local /\ batch' = batch
  BY Zenon DEF slave_exec
<1>3. /\ m2s' = [m2s EXCEPT ![r] = Registered(m2s[r], ids, slots)]
      /\ s2m' = [s2m EXCEPT ![r] = Registered(s2m[r], slots, ids)]
      /\ store' = [store EXCEPT ![r] = WithoutNext(store[r], Len(darys))]
      /\ stack' = [stack EXCEPT ![r] = Pushed(top)]
  BY Zenon DEF slave_exec, dispatch_new_slave_array
<1>4. ir' = [ir EXCEPT ![r] = list]
  BY Zenon DEF slave_exec
<1>5. Typed /\ MasterList /\ SlaveInv(r)
  BY DEF TablesInv
<1>6. SlaveList(r) /\ Inverses(r) /\ SlotsInUse(r) /\ LocalParts(r) /\ Behind(r)
  BY <1>5 DEF SlaveInv
<1>7. IsMap(inbox, Slave) /\ \A q \in Slave : IsSeq(inbox[q])
  BY <1>5, Zenon DEF Typed
<1>8. Kept(r) = DOMAIN m2s[r]
  <2>1. ir[r] = <<>>
    BY <1>1, <1>6, Zenon DEF SlaveList
  <2>2. Discards(ir[r]) = {}
    BY <2>1 DEF Discards
  <2> QED BY <2>2, Zenon DEF Kept
<1>9. /\ bhir \in BhIRs
      /\ darys \in Seq([id : Arys, hasdata : BOOLEAN])
      /\ \A i, j \in DOMAIN darys : darys[i].id = darys[j].id => i = j
      /\ Ids(darys) \cap DOMAIN m2s[r] = {}
      /\ ArysOf(bhir) \subseteq DOMAIN m2s[r] \union Ids(darys)
  BY <1>1, <1>6, <1>7, <1>8, NextMessage, Zenon
<1>10. DOMAIN m2s = Slave /\ DOMAIN s2m = Slave /\ DOMAIN store = Slave
  BY <1>5, Zenon DEF Typed
<1> HIDE DEF m, bhir, darys, ids, slots, list, top
<1>11. /\ m2s'[r] = Registered(m2s[r], ids, slots) /\ s2m'[r] = Registered(s2m[r], slots, ids)
       /\ store'[r] = WithoutNext(store[r], Len(darys))
       /\ \A q \in Slave \ {r} : m2s'[q] = m2s[q] /\ s2m'[q] = s2m[q] /\ store'[q] = store[q]
  BY <1>3, <1>10
<1>12. /\ Inverses(r)' /\ SlotsInUse(r)'
       /\ m2s'[r] \in UNION {[S -> Nat] : S \in SUBSET Arys}
       /\ s2m'[r] \in UNION {[S -> Arys] : S \in SUBSET Nat}
       /\ store'[r] \in [free : Seq(Nat), next : Nat]
       /\ DOMAIN m2s'[r] = DOMAIN m2s[r] \union Ids(darys)
       /\ DOMAIN s2m[r] \subseteq DOMAIN s2m'[r]
       /\ DOMAIN slots = DOMAIN darys /\ \A i \in DOMAIN darys : slots[i] \in DOMAIN s2m'[r]
  <2>1. ids = IdsOf(darys) /\ slots = c_next(store[r], Len(darys))
    BY DEF ids, slots, IdsOf
  <2>2. AreNew(darys, DOMAIN m2s[r])
    BY <1>9 DEF AreNew
  <2>3. Learnt(r, darys, slots)
    BY <1>5, <1>6, <1>11, <2>1, <2>2, TablesLearn, Zenon
  <2> QED BY <2>3, Zenon DEF Learnt
<1>13. IsMap(ir', Rank) /\ ir'[r] = list /\ \A q \in Rank \ {r} : ir'[q] = ir[q]
  BY <1>0, <1>4, <1>5, Zenon DEF Typed, IsMap
<1>14. IsMap(stack', Rank) /\ stack'[r] = Pushed(top) /\ \A q \in Rank \ {r} : stack'[q] = stack[q]
  BY <1>0, <1>3, <1>5, Zenon DEF Typed, IsMap
<1>15. IsMap(inbox', Slave) /\ inbox'[r] = Tail(inbox[r]) /\ \A q \in Slave \ {r} : inbox'[q] = inbox[q]
  BY <1>1, <1>7, Zenon DEF IsMap
<1>16. \A q \in Slave : IsSeq(inbox'[q])
  <2>1. IsSeq(Tail(inbox[r]))
    BY <1>1, <1>7, SeqTail
  <2> QED BY <1>7, <1>15, <2>1
<1>17. /\ mode' \in [Rank -> {"idle", "scatter", "run", "down"}] /\ mode'[r] = "scatter"
       /\ \A q \in Rank \ {r} : mode'[q] = mode[q]
  <2>1. mode \in [Rank -> {"idle", "scatter", "run", "down"}]
    BY <1>5, Zenon DEF Typed
  <2> QED BY <1>0, <1>1, <2>1
<1>18. IsSeq(Pushed(top)) /\ \A i \in DOMAIN Pushed(top) : Pushed(top)[i].id \in DOMAIN s2m'[r]
  <2> DEFINE n == Len(darys)
  <2>1. n \in Nat /\ DOMAIN darys = 1 .. n
    BY <1>9
  <2> HIDE DEF n
  <2>2. top = [i \in 1 .. n |-> top[i]] /\ \A i \in 1 .. n : top[i].id = slots[i]
    BY <2>1 DEF top
  <2>3. \A i \in 1 .. n : top[i] \in Range(top)
    BY <2>2, Zenon DEF Range
  <2>4. Len(top) = n
    BY <2>1, <2>2, <2>3, SeqOver
  <2> DEFINE p == [i \in 1 .. n |-> top[n + 1 - i]]
  <2>5. Pushed(top) = p
    BY <2>4 DEF Pushed, Reversed
  <2>6. p = [i \in 1 .. n |-> p[i]] /\ \A i \in 1 .. n : n + 1 - i \in 1 .. n /\ p[i] = top[n + 1 - i]
    BY <2>1
  <2> HIDE DEF p
  <2>7. p \in Seq(Range(top)) /\ DOMAIN p = 1 .. n
    BY <2>1, <2>3, <2>6, SeqOver, Zenon
  <2>8. IsSeq(p)
    BY <2>7, SeqIsSeq
  <2>9. \A i \in 1 .. n : p[i].id \in DOMAIN s2m'[r]
    <3> SUFFICES ASSUME NEW i \in 1 .. n PROVE p[i].id \in DOMAIN s2m'[r]
      OBVIOUS
    <3>1. n + 1 - i \in 1 .. n /\ p[i] = top[n + 1 - i]
      BY <2>6
    <3>2. p[i].id = slots[n + 1 - i]
      BY <2>2, <3>1
    <3> QED BY <1>12, <2>1, <3>1, <3>2
  <2> QED BY <2>5, <2>7, <2>8, <2>9
<1>19. Typed'
  <2>1. \A q \in Slave : IsSeq(stack'[q])
    BY <1>0, <1>5, <1>14, <1>18, Zenon DEF Typed
  <2>2. m2s' \in [Slave -> UNION {[S -> Nat] : S \in SUBSET Arys}]
    <3> DEFINE T == UNION {[S -> Nat] : S \in SUBSET Arys}
    <3>1. m2s \in [Slave -> T]
      BY <1>5, Zenon DEF Typed
    <3>2. Registered(m2s[r], ids, slots) \in T
      BY <1>11, <1>12, Zenon
    <3> HIDE DEF T
    <3>3. m2s' \in [Slave -> T]
      BY <1>3, <3>1, <3>2
    <3> QED BY <3>3 DEF T
  <2>3. s2m' \in [Slave -> UNION {[S -> Arys] : S \in SUBSET Nat}]
    <3> DEFINE T == UNION {[S -> Arys] : S \in SUBSET Nat}
    <3>1. s2m \in [Slave -> T]
      BY <1>5, Zenon DEF Typed
    <3>2. Registered(s2m[r], slots, ids) \in T
      BY <1>11, <1>12, Zenon
    <3> HIDE DEF T
    <3>3. s2m' \in [Slave -> T]
      BY <1>3, <3>1, <3>2, Zenon
    <3> QED BY <3>3 DEF T
  <2>4. store' \in [Slave -> [free : Seq(Nat), next : Nat]]
    <3> DEFINE T == [free : Seq(Nat), next : Nat]
    <3>1. store \in [Slave -> T]
      BY <1>5, Zenon DEF Typed
    <3>2. WithoutNext(store[r], Len(darys)) \in T
      BY <1>11, <1>12, Zenon
    <3> HIDE DEF T
    <3>3. store' \in [Slave -> T]
      BY <1>3, <3>1, <3>2
    <3> QED BY <3>3, Zenon DEF T
  <2> QED BY <1>2, <1>5, <1>13, <1>14, <1>15, <1>16, <1>17, <2>1, <2>2, <2>3, <2>4, Zenon DEF Typed
<1>20. MasterList' /\ Target' = Target
  <2>1. ir'[0] = ir[0] /\ (mode'[0] \in {"idle", "down"} => ir[0] = <<>>)
    BY <1>0, <1>5, <1>13, <1>17 DEF MasterList
  <2> QED BY <1>2, <1>5, <2>1, MasterListStays
<1>21. \A q \in Slave \ {r} : Own(q)' = Own(q) /\ inbox'[q] = inbox[q]
  BY <1>0, <1>2, <1>11, <1>13, <1>14, <1>15, <1>17, Zenon DEF Own
<1> DEFINE M == m2s'[r]
           S == s2m'[r]
<1>22. \A a \in DOMAIN M : M[a] \in DOMAIN S /\ S[M[a]] = a /\ M[a] \in Nat
  <2>1. \A a \in DOMAIN M : M[a] \in DOMAIN S /\ S[M[a]] = a
    BY <1>12, Zenon DEF Inverses
  <2>2. PICK T \in SUBSET Arys : M \in [T -> Nat]
    BY <1>12, Zenon
  <2> QED BY <2>1, <2>2
<1>23. list = AllTranslated(bhir, M)
  BY DEF list, AllTranslated
<1>24. ArysOf(bhir) \subseteq DOMAIN M /\ DOMAIN M = DOMAIN m2s[r] \union Ids(darys)
  BY <1>9, <1>12, Zenon
<1> HIDE DEF M, S
<1>25. LeadsBack(M, S)
  BY <1>22 DEF LeadsBack
<1>26. /\ IsList(list, Nat) /\ ArysOf(list) \subseteq Image(M, DOMAIN M)
       /\ Discards(list) = Image(M, Discards(bhir)) /\ Discards(bhir) \subseteq DOMAIN M
       /\ \A i \in DOMAIN list : \E inst \in Instrs : IsTranslation(S, list[i], inst)
  <2>1. InSlots(list, bhir, M, S)
    BY <1>9, <1>23, <1>24, <1>25, TranslatedList, Zenon
  <2> QED BY <2>1, Zenon DEF InSlots
<1>27. SlaveList(r)'
  <2>1. ArysOf(list) \subseteq DOMAIN S
    BY <1>22, <1>26, Zenon DEF Image
  <2> QED BY <1>13, <1>17, <1>26, <2>1, Zenon DEF SlaveList, S
<1>28. Kept(r)' = (DOMAIN m2s[r] \union Ids(darys)) \ Discards(bhir)
  <2>1. {S[h] : h \in Image(M, Discards(bhir))} = Discards(bhir)
    <3>1. \A a \in Discards(bhir) : S[M[a]] = a
      BY <1>22, <1>26, Zenon
    <3> QED BY <3>1, Zenon DEF Image
  <2>2. Kept(r)' = DOMAIN M \ {S[h] : h \in Discards(list)}
    BY <1>13, Zenon DEF Kept, M, S
  <2> QED BY <1>24, <1>26, <2>1, <2>2, Zenon
<1>29. LocalParts(r)'
  <2>1. /\ DOMAIN local[r] \subseteq DOMAIN s2m[r] \union Doomed(batch[r]) /\ batch[r] = <<>>
    BY <1>1, <1>6, Zenon DEF LocalParts
  <2>2. DOMAIN local'[r] \subseteq DOMAIN s2m'[r] \union Doomed(batch'[r]) /\ batch'[r] = <<>>
    BY <1>2, <1>12, <2>1, Zenon
  <2> QED BY <1>14, <1>17, <1>18, <2>2, Zenon DEF LocalParts
<1>30. \A after \in SUBSET Arys : Delivered(Head(inbox[r]), Kept(r), after) => Kept(r)' = after
  BY <1>1, <1>8, <1>28, Zenon DEF Delivered, m, bhir, darys
<1>31. Behind(r)'
  BY <1>1, <1>6, <1>7, <1>15, <1>20, <1>30, BehindReads
<1>32. SlaveInv(r)'
  BY <1>12, <1>27, <1>29, <1>31, Zenon DEF SlaveInv
<1> QED BY <1>0, <1>19, <1>20, <1>21, <1>32, StepOfOne

\* A step that leaves the tables, the lists and the messages to the slaves alone.
LEMMA OthersKeep ==
  ASSUME TablesInv, UNCHANGED <<mode, known, m2s, s2m, store, stack, ir, local, batch, inbox>>
  PROVE  TablesInv'
<1>1. Typed /\ MasterList
  BY DEF TablesInv
<1>2. /\ mode' = mode /\ known' = known /\ m2s' = m2s /\ s2m' = s2m /\ store' = store
      /\ stack' = stack /\ ir' = ir /\ local' = local /\ batch' = batch /\ inbox' = inbox
  OBVIOUS
<1>3. Typed'
  BY <1>1, <1>2, Zenon DEF Typed
<1>4. MasterList' /\ Target' = Target
  BY <1>1, <1>2, Zenon DEF MasterList, Target
<1>5. \A q \in Slave \ {0} : Own(q)' = Own(q) /\ inbox'[q] = inbox[q]
  BY <1>2 DEF Own
<1> QED BY <1>3, <1>4, <1>5, RankFacts, StepOfOne

\* At the start no slave knows an array.
LEMMA TablesInit == Init => TablesInv
<1> SUFFICES ASSUME Init PROVE TablesInv
  OBVIOUS
<1>1. /\ mode = [r \in Rank |-> "idle"] /\ known = {}
      /\ m2s = [r \in Slave |-> <<>>] /\ s2m = [r \in Slave |-> <<>>]
      /\ store = [r \in Slave |-> [free |-> <<>>, next |-> 0]]
      /\ stack = [r \in Rank |-> <<>>] /\ ir = [r \in Rank |-> <<>>]
      /\ local = [r \in Rank |-> <<>>] /\ batch = [r \in Rank |-> <<>>]
      /\ inbox = [r \in Slave |-> <<>>]
  BY DEF Init
<1>2. IsSeq(<<>>)
  BY DEF IsSeq
<1>3. Typed
  <2>1. mode \in [Rank -> {"idle", "scatter", "run", "down"}] /\ known \subseteq Arys
    BY <1>1
  <2>2. <<>> \in UNION {[S -> Nat] : S \in SUBSET Arys} /\ <<>> \in UNION {[S -> Arys] : S \in SUBSET Nat}
    <3>1. <<>> \in [{} -> Nat] /\ <<>> \in [{} -> Arys]
      OBVIOUS
    <3> QED BY <3>1, Zenon
  <2> DEFINE M == UNION {[S -> Nat] : S \in SUBSET Arys}
             N == UNION {[S -> Arys] : S \in SUBSET Nat}
  <2> HIDE DEF M, N
  <2>3. m2s \in [Slave -> M] /\ s2m \in [Slave -> N]
    BY <1>1, <2>2, Zenon DEF M, N
  <2>4. store \in [Slave -> [free : Seq(Nat), next : Nat]]
    <3>1. [free |-> <<>>, next |-> 0] \in [free : Seq(Nat), next : Nat]
      OBVIOUS
    <3> QED BY <1>1, <3>1, Zenon
  <2>5. IsMap(inbox, Slave) /\ \A r \in Slave : IsSeq(inbox[r])
    BY <1>1, <1>2 DEF IsMap
  <2>6. IsMap(stack, Rank) /\ IsMap(batch, Rank) /\ IsMap(ir, Rank) /\ IsMap(local, Rank)
    BY <1>1 DEF IsMap
  <2>7. \A r \in Slave : IsSeq(stack[r]) /\ IsSeq(batch[r])
    BY <1>1, <1>2, RankFacts
  <2> QED BY <2>1, <2>3, <2>4, <2>5, <2>6, <2>7, Zenon DEF Typed, M, N
<1>4. ASSUME NEW A PROVE IsList(<<>>, A) /\ ArysOf(<<>>) = {}
  <2>1. IsList(<<>>, A)
    BY DEF IsList, DiscardsAreLast
  <2>2. ArysOf(<<>>) = UNION {Range(Bases(<<>>[i])) : i \in 1 .. Len(<<>>)}
    BY <2>1, ListFacts DEF ArysOf
  <2> QED BY <2>1, <2>2
<1>5. MasterList
  BY <1>1, <1>4, RankFacts DEF MasterList
<1>6. ASSUME NEW r \in Slave PROVE SlaveInv(r)
  <2>1. /\ mode[r] = "idle" /\ m2s[r] = <<>> /\ s2m[r] = <<>> /\ store[r] = [free |-> <<>>, next |-> 0]
        /\ stack[r] = <<>> /\ ir[r] = <<>> /\ local[r] = <<>> /\ batch[r] = <<>> /\ inbox[r] = <<>>
        /\ ir[0] = <<>>
    BY <1>1, RankFacts
  <2>2. DOMAIN <<>> = {}
    OBVIOUS
  <2>3. SlaveList(r)
    <3>1. ir[r] = <<>> /\ DOMAIN ir[r] = {}
      BY <2>1, <2>2, Zenon
    <3>2. IsList(ir[r], Nat) /\ ArysOf(ir[r]) = {}
      BY <1>4, <3>1, Zenon
    <3> QED BY <3>1, <3>2, Zenon DEF SlaveList
  <2>4. Inverses(r)
    <3>1. DOMAIN m2s[r] = {} /\ DOMAIN s2m[r] = {}
      BY <2>1, <2>2, Zenon
    <3> QED BY <3>1, Zenon DEF Inverses
  <2>5. SlotsInUse(r)
    <3>1. store[r].free = <<>> /\ store[r].next = 0
      BY <2>1
    <3>2. Range(<<>>) = {} /\ DOMAIN <<>> = {} /\ 0 .. 0 - 1 = {}
      BY DEF Range
    <3> QED BY <2>1, <3>1, <3>2, Zenon DEF SlotsInUse
  <2>6. LocalParts(r)
    <3>1. DOMAIN local[r] = {} /\ batch[r] = <<>> /\ stack[r] = <<>> /\ DOMAIN stack[r] = {}
      BY <2>1, <2>2, Zenon
    <3> QED BY <3>1, Zenon DEF LocalParts
  <2>7. Behind(r)
    <3> DEFINE K == [i \in 1 .. 1 |-> {}]
    <3>1. Discards(<<>>) = {}
      BY DEF Discards
    <3>2. Kept(r) = {}
      <4>1. DOMAIN m2s[r] = {}
        <5>1. m2s[r] = <<>>
          BY <2>1, Zenon
        <5>2. DOMAIN <<>> = {}
          OBVIOUS
        <5> QED BY <5>1, <5>2, Zenon
      <4> QED BY <4>1, Zenon DEF Kept
    <3>3. K \in [1 .. 1 -> SUBSET Arys] /\ K[1] = {}
      OBVIOUS
    <3>4. Len(inbox[r]) = 0 /\ Len(inbox[r]) + 1 = 1
      <4>1. inbox[r] = <<>>
        BY <2>1, Zenon
      <4>2. Len(<<>>) = 0 /\ 0 + 1 = 1
        OBVIOUS
      <4> QED BY <4>1, <4>2, Zenon
    <3>5. known \ Discards(ir[0]) = {}
      BY <1>1
    <3> HIDE DEF K
    <3>6. /\ K \in [1 .. Len(inbox[r]) + 1 -> SUBSET Arys]
          /\ K[1] = Kept(r) /\ K[Len(inbox[r]) + 1] = known \ Discards(ir[0])
          /\ \A i \in 1 .. Len(inbox[r]) : Delivered(inbox[r][i], K[i], K[i + 1])
      <4>1. 1 .. Len(inbox[r]) = {}
        BY <3>4
      <4>2. K \in [1 .. Len(inbox[r]) + 1 -> SUBSET Arys] /\ K[Len(inbox[r]) + 1] = {}
        BY <3>3, <3>4, Zenon
      <4> QED BY <3>2, <3>3, <3>5, <4>1, <4>2, Zenon
    <3> QED BY <3>6, Zenon DEF Behind
  <2> QED BY <2>3, <2>4, <2>5, <2>6, <2>7 DEF SlaveInv
<1> QED BY <1>3, <1>5, <1>6 DEF TablesInv

-----------------------------------------------------------------------------
(***************************************************************************)
(* The task lists of a computation, by induction: the smallest index that  *)
(* fails is not there.                                                     *)
(***************************************************************************)
\* Lemma Smallest, which the library has to give.
LeastNumbers == \A T : T \subseteq Nat /\ T # {} => \E n \in T : \A m \in T : n <= m

\* The recursive function in the definition of Concat exists.
LEMMA ConcatExists ==
  ASSUME LeastNumbers, NEW seqs, NEW n \in Nat
  PROVE  \E f : f = [i \in 0 .. n |-> IF i = 0 THEN <<>> ELSE f[i - 1] \o seqs[i]]
<1> DEFINE Good(k) == \E f : f = [i \in 0 .. k |-> IF i = 0 THEN <<>> ELSE f[i - 1] \o seqs[i]]
<1>1. Good(0)
  <2> DEFINE g == [i \in 0 .. 0 |-> <<>>]
  <2>1. g = [i \in 0 .. 0 |-> IF i = 0 THEN <<>> ELSE g[i - 1] \o seqs[i]]
    OBVIOUS
  <2> HIDE DEF g
  <2> QED BY <2>1
<1>2. ASSUME NEW k \in Nat, Good(k) PROVE Good(k + 1)
  <2>1. PICK f : f = [i \in 0 .. k |-> IF i = 0 THEN <<>> ELSE f[i - 1] \o seqs[i]]
    BY <1>2, Zenon
  <2> DEFINE g == [i \in 0 .. k + 1 |-> IF i = k + 1 THEN f[k] \o seqs[k + 1] ELSE f[i]]
  <2>2. g = [i \in 0 .. k + 1 |-> IF i = 0 THEN <<>> ELSE g[i - 1] \o seqs[i]]
    <3> SUFFICES ASSUME NEW i \in 0 .. k + 1 PROVE g[i] = IF i = 0 THEN <<>> ELSE g[i - 1] \o seqs[i]
      BY Zenon
    <3>1. CASE i = k + 1
      <4>1. i - 1 = k /\ k \in 0 .. k + 1 /\ k # k + 1 /\ i # 0
        BY <3>1
      <4>2. g[i] = f[k] \o seqs[i] /\ g[k] = f[k]
        BY <3>1, <4>1, Zenon
      <4> QED BY <4>1, <4>2, Zenon
    <3>2. CASE i # k + 1
      <4>1. i \in 0 .. k /\ (i # 0 => i - 1 \in 0 .. k /\ i - 1 # k + 1 /\ i - 1 \in 0 .. k + 1)
        BY <3>2
      <4> QED BY <2>1, <4>1, <3>2
    <3> QED BY <3>1, <3>2
  <2> HIDE DEF g
  <2> QED BY <2>2, Zenon
<1> HIDE DEF Good
<1>3. \A k \in Nat : Good(k)
  <2> DEFINE T == {k \in Nat : ~Good(k)}
  <2>0. T \subseteq Nat
    OBVIOUS
  <2> SUFFICES ASSUME T # {} PROVE FALSE
    OBVIOUS
  <2>1. PICK k \in T : \A m \in T : k <= m
    BY <2>0, Zenon DEF LeastNumbers
  <2>2. k # 0 /\ k \in Nat
    BY <1>1, <2>1
  <2>3. k - 1 \in Nat /\ k - 1 \notin T
    BY <2>1, <2>2
  <2>4. Good((k - 1) + 1)
    BY <2>3, <1>2
  <2> QED BY <2>1, <2>2, <2>4
<1> QED BY <1>3, Zenon DEF Good

\* Concat returns a sequence.
LEMMA ConcatIsSeq ==
  ASSUME LeastNumbers, NEW seqs, IsSeq(seqs), \A i \in 1 .. Len(seqs) : IsSeq(seqs[i])
  PROVE  IsSeq(Concat(seqs))
<1> DEFINE n == Len(seqs)
           f == CHOOSE f : f = [i \in 0 .. n |-> IF i = 0 THEN <<>> ELSE f[i - 1] \o seqs[i]]
<1>0. n \in Nat
  BY SeqFacts
<1>1. Concat(seqs) = f[n]
  BY Zenon DEF Concat
<1>2. f = [i \in 0 .. n |-> IF i = 0 THEN <<>> ELSE f[i - 1] \o seqs[i]]
  <2>1. \E h : h = [i \in 0 .. n |-> IF i = 0 THEN <<>> ELSE h[i - 1] \o seqs[i]]
    BY <1>0, ConcatExists, Zenon
  <2> QED BY <2>1, Zenon
<1> DEFINE T == {i \in 0 .. n : ~IsSeq(f[i])}
<1> HIDE DEF f
<1>3. T = {}
  <2> SUFFICES ASSUME T # {} PROVE FALSE
    OBVIOUS
  <2>0. T \subseteq Nat
    OBVIOUS
  <2>1. PICK k \in T : \A m \in T : k <= m
    BY <2>0, Zenon DEF LeastNumbers
  <2>2. k \in 0 .. n
    BY <2>1
  <2>3. k # 0
    <3>1. f[0] = <<>>
      BY <1>0, <1>2
    <3>2. IsSeq(<<>>)
      BY DEF IsSeq
    <3> QED BY <2>1, <3>1, <3>2
  <2>4. k - 1 \in 0 .. n /\ k - 1 \notin T /\ k \in 1 .. n
    BY <1>0, <2>1, <2>2, <2>3
  <2>5. f[k] = f[k - 1] \o seqs[k]
    BY <1>2, <2>2, <2>3, Zenon
  <2>6. IsSeq(f[k - 1] \o seqs[k])
    BY <2>4, SeqConcat
  <2> QED BY <2>1, <2>5, <2>6, Zenon
<1> QED BY <1>0, <1>1, <1>3

\* The tasks of a computation are a sequence.
LEMMA TasksAreListed ==
  ASSUME LeastNumbers, NEW r, NEW inst, IsSeq(Chunks(r, inst)), Len(inst.ins) \in Nat
  PROVE  IsSeq(execute_regular(r, inst)) /\ IsSeq(reduce_vector(r, inst))
<1> DEFINE chunks == Chunks(r, inst)
           of(chunk) ==
             Concat([j \in 1 .. Len(inst.ins) |->
                           Operand(r, inst, chunk, j + 1, chunk.rank[1])])
               \o Store(r, inst, chunk, Places(r, inst, chunk, 1))
<1>0. Len(chunks) \in Nat
  BY SeqFacts
<1>1. ASSUME NEW chunk, NEW o, NEW owner PROVE IsSeq(Operand(r, inst, chunk, o, owner))
  <2>1. \/ Operand(r, inst, chunk, o, owner) = <<>>
        \/ \E e : Operand(r, inst, chunk, o, owner) = <<e>>
    BY Zenon DEF Operand
  <2>2. IsSeq(<<>>)
    BY DEF IsSeq
  <2> QED BY <2>1, <2>2, SeqOne
<1>2. ASSUME NEW chunk, NEW places PROVE IsSeq(Store(r, inst, chunk, places))
  <2>1. \/ Store(r, inst, chunk, places) = <<>>
        \/ \E e : Store(r, inst, chunk, places) = <<e>>
    BY Zenon DEF Store
  <2>2. IsSeq(<<>>)
    BY DEF IsSeq
  <2> QED BY <2>1, <2>2, SeqOne
<1>3. ASSUME NEW n \in Nat, NEW f, \A i \in 1 .. n : IsSeq(f[i])
      PROVE  IsSeq(Concat([i \in 1 .. n |-> f[i]]))
  <2> DEFINE g == [i \in 1 .. n |-> f[i]]
  <2>1. g \in Seq(Range(g)) /\ Len(g) = n /\ \A i \in 1 .. n : g[i] = f[i]
    <3>1. DOMAIN g = 1 .. n /\ \A i \in 1 .. n : g[i] = f[i]
      OBVIOUS
    <3>2. \A i \in 1 .. n : g[i] \in Range(g)
      BY <3>1 DEF Range
    <3> QED BY <3>1, <3>2
  <2> HIDE DEF g
  <2>2. IsSeq(g)
    BY <2>1 DEF IsSeq
  <2>3. IsSeq(Concat(g))
    BY <1>3, <2>1, <2>2, ConcatIsSeq
  <2> QED BY <2>3 DEF g
<1>4. ASSUME NEW chunk PROVE IsSeq(of(chunk))
  <2> DEFINE f == [j \in 1 .. Len(inst.ins) |-> Operand(r, inst, chunk, j + 1, chunk.rank[1])]
  <2>1. \A j \in 1 .. Len(inst.ins) : IsSeq(f[j])
    BY <1>1
  <2>2. f = [j \in 1 .. Len(inst.ins) |-> f[j]]
    BY Zenon
  <2>3. of(chunk) = Concat(f) \o Store(r, inst, chunk, Places(r, inst, chunk, 1))
    OBVIOUS
  <2> HIDE DEF f, of
  <2>4. IsSeq(Concat(f))
    BY <1>3, <2>1, <2>2, Zenon
  <2> QED BY <1>2, <2>3, <2>4, SeqConcat, Zenon
<1>5. IsSeq(execute_regular(r, inst))
  <2> DEFINE f == [i \in 1 .. Len(chunks) |-> of(chunks[i])]
  <2>1. execute_regular(r, inst) = Concat(f)
    BY DEF execute_regular
  <2> HIDE DEF of
  <2>2. \A i \in 1 .. Len(chunks) : IsSeq(f[i])
    BY <1>4
  <2>3. f = [i \in 1 .. Len(chunks) |-> f[i]]
    OBVIOUS
  <2> HIDE DEF f
  <2> QED BY <1>0, <1>3, <2>1, <2>2, <2>3
<1>6. IsSeq(reduce_vector(r, inst))
  <2> DEFINE f == [i \in 1 .. Len(chunks) |-> Operand(r, inst, chunks[i], 2, chunks[1].rank[1])]
  <2>1. reduce_vector(r, inst) = Concat(f) \o Store(r, inst, chunks[1], <<Places(r, inst, chunks[1], 1)[1]>>)
    BY DEF reduce_vector
  <2>2. \A i \in 1 .. Len(chunks) : IsSeq(f[i])
    BY <1>1, Zenon
  <2>3. f = [i \in 1 .. Len(chunks) |-> f[i]]
    BY Zenon
  <2> HIDE DEF f
  <2>4. IsSeq(Concat(f))
    BY <1>0, <1>3, <2>2, <2>3
  <2> QED BY <1>2, <2>1, <2>4, SeqConcat, Zenon
<1> QED BY <1>5, <1>6

\* A computation gives local parts to arrays of the list, which have slots.
LEMMA ScheduleKeeps ==
  ASSUME LeastNumbers, ChunksAreListed, TablesInv, NEW r \in Rank, schedule(r)
  PROVE  TablesInv'
<1> DEFINE inst == Head(ir[r])
           more == IF inst.op = "REDUCE" THEN reduce_vector(r, inst) ELSE execute_regular(r, inst)
<1>1. /\ mode[r] = "run" /\ ir[r] # <<>> /\ ~IsSystem(inst)
      /\ ir' = [ir EXCEPT ![r] = Tail(@)]
  BY DEF schedule
<1>2. UNCHANGED <<mode, known, m2s, s2m, store, stack, inbox>>
  BY DEF schedule, maps, comm
<1>3. batch' = [batch EXCEPT ![r] = batch[r] \o more]
  BY DEF schedule, batch_schedule
<1>4. local' = [local EXCEPT ![r] = array_get_local(r, Touched(r, inst))]
  BY DEF schedule
<1>5. inst.op # "DISCARD"
  BY <1>1 DEF IsSystem
<1>6. IsMap(batch, Rank) /\ IsMap(local, Rank) /\ \A q \in Slave : IsSeq(batch[q])
  BY Zenon DEF TablesInv, Typed
<1>7. DOMAIN array_get_local(r, Touched(r, inst)) = DOMAIN local[r] \union Touched(r, inst)
  BY DEF array_get_local
<1>8. r \in Slave => /\ IsSeq(batch[r] \o more)
                     /\ DOMAIN local[r] \union Touched(r, inst) \subseteq DOMAIN s2m[r] \union Doomed(batch[r] \o more)
  <2> SUFFICES ASSUME r \in Slave
               PROVE  /\ IsSeq(batch[r] \o more)
                      /\ DOMAIN local[r] \union Touched(r, inst) \subseteq DOMAIN s2m[r] \union Doomed(batch[r] \o more)
    OBVIOUS
  <2>1. SlaveList(r) /\ LocalParts(r)
    BY DEF TablesInv, SlaveInv
  <2>2. IsList(ir[r], Nat) /\ ArysOf(ir[r]) \subseteq DOMAIN s2m[r]
    BY <2>1, Zenon DEF SlaveList
  <2>3. inst \in Instruction(Nat) /\ inst = ir[r][1] /\ 1 \in DOMAIN ir[r] /\ Range(Bases(inst)) \subseteq ArysOf(ir[r])
    BY <1>1, <2>2, ListTail, Zenon
  <2>4. PICK i \in Instrs : IsTranslation(s2m[r], inst, i)
    BY <2>1, <2>3, Zenon DEF SlaveList
  <2> HIDE DEF inst
  <2>5. IsSeq(Chunks(r, inst))
    BY <1>1, <2>4, MapsAlike, Zenon
  <2>6. Len(inst.ins) \in Nat
    BY <2>3, InstructionBases, Zenon
  <2>7. IsSeq(more)
    BY <2>5, <2>6, TasksAreListed
  <2> HIDE DEF more
  <2>8. IsSeq(batch[r] \o more) /\ Doomed(batch[r]) \subseteq Doomed(batch[r] \o more)
    BY <1>6, <2>7, DoomedGrows
  <2>9. Touched(r, inst) \subseteq DOMAIN s2m[r]
    BY <2>2, <2>3, TouchedOperands, Zenon
  <2>10. DOMAIN local[r] \subseteq DOMAIN s2m[r] \union Doomed(batch[r])
    BY <2>1, Zenon DEF LocalParts
  <2> QED BY <2>8, <2>9, <2>10
<1> HIDE DEF inst, more
<1>9. IsMap(batch', Rank) /\ batch'[r] = batch[r] \o more /\ \A q \in Rank \ {r} : batch'[q] = batch[q]
  BY <1>3, <1>6, Zenon DEF IsMap
<1>10. IsMap(local', Rank) /\ local'[r] = array_get_local(r, Touched(r, inst)) /\ \A q \in Rank \ {r} : local'[q] = local[q]
  BY <1>4, <1>6 DEF IsMap
<1>11. r \in Slave => IsSeq(batch'[r]) /\ DOMAIN local'[r] \subseteq DOMAIN s2m[r] \union Doomed(batch'[r])
  BY <1>7, <1>8, <1>9, <1>10, Zenon
<1>12. Head(ir[r]).op # "DISCARD"
  BY <1>5 DEF inst
<1> QED BY <1>1, <1>2, <1>9, <1>10, <1>11, <1>12, InstructionKeeps, Zenon

-----------------------------------------------------------------------------
(***************************************************************************)
(* A call from the bridge.                                                *)
(***************************************************************************)
\* The new arrays of a list are a sequence, each is there once.
NewArraysAreListed ==
  \A bhir \in BhIRs : \A new \in NewArrays(bhir) :
    /\ \E n \in Nat : new \in [1 .. n -> ArysOf(bhir) \ known]
    /\ \A i, j \in DOMAIN new : new[i] = new[j] => i = j
    /\ Range(new) = ArysOf(bhir) \ known

\* The master sends a list with the arrays that the slaves do not know yet.
LEMMA DispatchKeeps ==
  ASSUME NewArraysAreListed, TablesInv, NEW bhir \in BhIRs, dispatch_bhir(bhir)
  PROVE  TablesInv'
<1>0. 0 \in Rank /\ 0 \notin Slave /\ Slave \subseteq Rank
  BY RankFacts
<1>1. Typed /\ MasterList
  BY DEF TablesInv
<1>2. /\ mode[0] = "idle" /\ mode' = [mode EXCEPT ![0] = "scatter"] /\ ir' = [ir EXCEPT ![0] = bhir]
      /\ m2s' = m2s /\ s2m' = s2m /\ store' = store /\ local' = local /\ batch' = batch
  BY Zenon DEF dispatch_bhir, maps
<1> DEFINE Darys(new) == [i \in DOMAIN new |-> [id |-> new[i], hasdata |-> data[new[i]] # NULL]]
<1>3. PICK new \in NewArrays(bhir) :
         /\ known' = known \union Range(new)
         /\ stack' = [stack EXCEPT ![0] = Reversed(Darys(new))]
         /\ inbox' = [q \in Slave |-> Append(inbox[q], [type |-> "EXEC", bhir |-> bhir, darys |-> Darys(new)])]
  BY Zenon DEF dispatch_bhir, Bcast
<1> DEFINE darys == Darys(new)
           m == [type |-> "EXEC", bhir |-> bhir, darys |-> darys]
           U == ArysOf(bhir) \ known
<1>4. /\ \E n \in Nat : new \in [1 .. n -> U]
      /\ \A i, j \in DOMAIN new : new[i] = new[j] => i = j
      /\ Range(new) = U
  BY <1>3, Zenon DEF NewArraysAreListed
<1>5. IsList(bhir, Arys) /\ ArysOf(bhir) \subseteq Arys
  <2>1. IsList(bhir, Arys)
    BY ListsAssumption DEF IsList
  <2> QED BY <2>1, ListFacts
<1>6. PICK n \in Nat : new \in [1 .. n -> U]
  BY <1>4
<1>7. DOMAIN new = 1 .. n /\ \A i \in 1 .. n : new[i] \in Arys /\ new[i] \notin known
  BY <1>5, <1>6
<1>8. darys \in Seq([id : Arys, hasdata : BOOLEAN]) /\ DOMAIN darys = DOMAIN new /\ \A i \in DOMAIN new : darys[i].id = new[i]
  <2> DEFINE R == [id : Arys, hasdata : BOOLEAN]
  <2>1. darys = [i \in 1 .. n |-> darys[i]] /\ \A i \in 1 .. n : darys[i] = [id |-> new[i], hasdata |-> data[new[i]] # NULL]
    BY <1>7, Zenon
  <2>2. \A i \in 1 .. n : [id |-> new[i], hasdata |-> data[new[i]] # NULL] \in R
    BY <1>7
  <2>3. \A i \in 1 .. n : darys[i] \in R
    BY <2>1, <2>2, Zenon
  <2>4. \A i \in 1 .. n : darys[i].id = new[i]
    BY <2>1, Zenon
  <2> HIDE DEF darys, R
  <2>5. darys \in Seq(R) /\ DOMAIN darys = 1 .. n
    BY <2>1, <2>3, SeqOver
  <2> QED BY <1>7, <2>4, <2>5 DEF R
<1> HIDE DEF darys
<1>9. Ids(darys) = U
  <2>1. Ids(darys) = {new[i] : i \in DOMAIN new}
    BY <1>8, Zenon DEF Ids
  <2> QED BY <1>4, <2>1, Zenon DEF Range
<1>10. m.type = "EXEC" /\ m.bhir = bhir /\ m.darys = darys
  OBVIOUS
<1>11. inbox' = [q \in Slave |-> Append(inbox[q], m)]
  BY <1>3, Zenon DEF darys
<1> HIDE DEF m
<1>12. Target = known
  <2>1. ir[0] = <<>>
    BY <1>1, <1>2 DEF MasterList
  <2> QED BY <2>1 DEF Target, Discards
<1>13. IsMap(ir', Rank) /\ ir'[0] = bhir /\ \A q \in Slave : ir'[q] = ir[q]
  BY <1>0, <1>1, <1>2, Zenon DEF Typed, IsMap
<1>14. /\ mode' \in [Rank -> {"idle", "scatter", "run", "down"}] /\ mode'[0] = "scatter"
       /\ \A q \in Slave : mode'[q] = mode[q]
  <2>1. mode \in [Rank -> {"idle", "scatter", "run", "down"}]
    BY <1>1, Zenon DEF Typed
  <2> QED BY <1>0, <1>2, <2>1
<1>15. IsMap(stack', Rank) /\ \A q \in Slave : stack'[q] = stack[q]
  <2>1. IsMap(stack, Rank)
    BY <1>1, Zenon DEF Typed
  <2> DEFINE top == Reversed(Darys(new))
  <2>2. stack' = [stack EXCEPT ![0] = top]
    BY <1>3, Zenon
  <2> HIDE DEF top
  <2> QED BY <1>0, <2>1, <2>2 DEF IsMap
<1>16. known' = known \union U /\ known' \subseteq Arys /\ ArysOf(bhir) \subseteq known'
  <2>1. known \subseteq Arys
    BY <1>1, Zenon DEF Typed
  <2>2. known' = known \union U
    BY <1>3, <1>4, Zenon
  <2> QED BY <1>5, <2>1, <2>2
<1>17. /\ IsMap(inbox', Slave)
       /\ \A q \in Slave : IsSeq(inbox'[q]) /\ inbox'[q] = Append(inbox[q], m)
  BY <1>1, <1>11, BroadcastTyped, Zenon
<1>18. Typed'
  BY <1>1, <1>2, <1>13, <1>14, <1>15, <1>16, <1>17, Zenon DEF Typed
<1>19. MasterList'
  BY <1>5, <1>13, <1>14, <1>16, Zenon DEF MasterList
<1>20. Target' = (known \union Ids(darys)) \ Discards(bhir)
  BY <1>9, <1>13, <1>16, Zenon DEF Target
<1>21. Delivered(m, Target, Target')
  <2>1. \A i, j \in DOMAIN darys : darys[i].id = darys[j].id => i = j
    BY <1>4, <1>8
  <2>2. Ids(darys) \cap known = {} /\ ArysOf(bhir) \subseteq known \union Ids(darys)
    BY <1>9
  <2> DEFINE after == Target'
  <2>3. after = (known \union Ids(darys)) \ Discards(bhir)
    BY <1>20
  <2> HIDE DEF after
  <2>4. Delivered(m, known, after)
    BY <1>8, <1>10, <2>1, <2>2, <2>3, Zenon DEF Delivered
  <2> QED BY <1>12, <2>4 DEF after
<1>22. Target' \subseteq Arys
  BY <1>9, <1>16, <1>20
<1>23. \A q \in Slave : Own(q)' = Own(q) /\ inbox'[q] = Append(inbox[q], m)
  BY <1>2, <1>13, <1>14, <1>15, <1>17 DEF Own
<1> QED BY <1>18, <1>19, <1>21, <1>22, <1>23, BroadcastKeeps

-----------------------------------------------------------------------------
(***************************************************************************)
(* Every step, and what the invariant says about a slave.                  *)
(***************************************************************************)
\* Every step of every process keeps the tables together.
LEMMA TablesStep ==
  ASSUME LeastNumbers, NewArraysAreListed, ChunksAreListed, TablesInv, [Next]_vars
  PROVE  TablesInv'
<1>1. ASSUME NEW bhir \in BhIRs, dispatch_bhir(bhir) PROVE TablesInv'
  BY <1>1, DispatchKeeps
<1>2. ASSUME NEW r \in Rank, Step(r) PROVE TablesInv'
  <2>1. CASE dispatch_array_data(r)
    BY <2>1, RankFacts, ScatterMaster, ScatterSlave
  <2>2. CASE exec_execute(r)
    BY <2>2, ExecuteKeeps
  <2>3. CASE schedule(r)
    BY <2>3, ScheduleKeeps
  <2>4. CASE execute_free(r)
    BY <2>4, FreeKeeps
  <2>5. CASE execute_discard(r)
    BY <2>5, RankFacts, DiscardMaster, DiscardSlave
  <2>6. CASE flush_inst(r)
    BY <2>6, FlushInstKeeps
  <2>7. CASE flush_send(r)
    BY <2>7, FlushSendKeeps
  <2>8. CASE flush_recv(r)
    BY <2>8, FlushRecvKeeps
  <2>9. CASE exec_return(r)
    BY <2>9, ReturnKeeps
  <2> QED BY <1>2, <2>1, <2>2, <2>3, <2>4, <2>5, <2>6, <2>7, <2>8, <2>9, Zenon DEF Step
<1>3. ASSUME NEW r \in Slave, SlaveStep(r) PROVE TablesInv'
  <2>1. CASE slave_exec(r)
    BY <2>1, SlaveExecKeeps
  <2>2. CASE gather_slave(r)
    BY <2>2, GatherSlaveKeeps
  <2>3. CASE slave_shutdown(r)
    BY <2>3, SlaveShutdownKeeps
  <2> QED BY <1>3, <2>1, <2>2, <2>3, Zenon DEF SlaveStep
<1>4. CASE gather_master
  BY <1>4, GatherMasterKeeps
<1>5. CASE shutdown
  BY <1>5, ShutdownKeeps
<1>6. ASSUME NEW a \in Arys, NEW d \in Writes[a], bridge_data(a, d) PROVE TablesInv'
  BY <1>6, OthersKeep, Zenon DEF bridge_data, maps, comm
<1>7. CASE UNCHANGED vars
  BY <1>7, OthersKeep, Zenon DEF vars, maps, comm
<1> QED BY <1>1, <1>2, <1>3, <1>4, <1>5, <1>6, <1>7, Zenon DEF Next, Running, Down

\* A slave finds every array of its list.
LEMMA ArraysAreFound ==
  ASSUME NEW r \in Slave, SlaveInv(r), NEW i \in DOMAIN ir[r]
  PROVE  NULL \notin Range(Bases(ir[r][i]))
<1>1. IsList(ir[r], Nat)
  BY Zenon DEF SlaveInv, SlaveList
<1>2. DOMAIN ir[r] = 1 .. Len(ir[r]) /\ \A k \in 1 .. Len(ir[r]) : ir[r][k] \in Instruction(Nat)
  BY <1>1, ListFacts, Zenon
<1>3. ir[r][i] \in Instruction(Nat)
  BY <1>2
<1>4. Range(Bases(ir[r][i])) \subseteq Nat
  BY <1>3, InstructionBases, Zenon
<1> QED BY <1>4, NullAssumption

\* A slave that has read everything knows what the master takes for known.
LEMMA CaughtUp ==
  ASSUME MasterList, NEW r \in Slave, SlaveInv(r), mode[0] = "idle", mode[r] = "idle", inbox[r] = <<>>
  PROVE  DOMAIN m2s[r] = known
<1>1. ir[0] = <<>> /\ ir[r] = <<>>
  BY Zenon DEF MasterList, SlaveInv, SlaveList
<1>2. Discards(<<>>) = {}
  BY DEF Discards
<1>3. Behind(r) /\ Len(inbox[r]) + 1 = 1
  <2>1. Behind(r)
    BY Zenon DEF SlaveInv
  <2> QED BY <2>1
<1>4. Kept(r) = known \ Discards(ir[0])
  BY <1>3, Zenon DEF Behind
<1> QED BY <1>1, <1>2, <1>4, Zenon DEF Kept

-----------------------------------------------------------------------------
(***************************************************************************)
(* What the library says about induction and finite sets: the theorems of  *)
(* FiniteSetTheorems, which only the lemmas from here on need.             *)
(***************************************************************************)
INSTANCE FiniteSetTheorems

\* Induction over a set of numbers by its smallest element.
LEMMA Smallest ==
  ASSUME NEW T, T \subseteq Nat, T # {}
  PROVE  \E n \in T : \A m \in T : n <= m
<1>1. PICK n \in T : \A m \in T : ~(<<m, n>> \in OpToRel(<, Nat))
  BY WFMin, NatLessThanWellFounded, Zenon
<1>2. \A m \in T : ~(m < n)
  BY <1>1, Zenon DEF OpToRel
<1>3. \A m \in T : n <= m
  BY <1>2
<1> QED BY <1>3

\* A list has finitely many arrays.
LEMMA FiniteList ==
  ASSUME NEW A, NEW list, IsList(list, A)
  PROVE  IsFiniteSet(ArysOf(list))
<1> DEFINE f == [i \in 1 .. Len(list) |-> Range(Bases(list[i]))]
           T == {Range(Bases(list[i])) : i \in 1 .. Len(list)}
<1>1. Len(list) \in Nat /\ DOMAIN list = 1 .. Len(list) /\ \A i \in 1 .. Len(list) : list[i] \in Instruction(A)
  BY ListFacts
<1>2. IsFiniteSet(1 .. Len(list))
  BY <1>1, FS_Interval
<1>3. f \in Surjection(1 .. Len(list), T)
  BY DEF Surjection
<1>4. IsFiniteSet(T)
  BY <1>2, <1>3, FS_Surjection
<1>5. ASSUME NEW i \in 1 .. Len(list) PROVE IsFiniteSet(Range(Bases(list[i])))
  <2> DEFINE ins == list[i].ins
             n == Len(ins)
             I == {ins[j].base : j \in 1 .. n}
             g == [j \in 1 .. n |-> ins[j].base]
             o == list[i].out.base
  <2>1. n \in Nat /\ Range(Bases(list[i])) = {o} \union I
    BY <1>1, InstructionBases, Zenon
  <2>2. g \in Surjection(1 .. n, I)
    BY Zenon DEF Surjection
  <2> HIDE DEF n, I, g, o
  <2>3. IsFiniteSet(1 .. n)
    BY <2>1, FS_Interval
  <2>4. IsFiniteSet(I)
    BY <2>2, <2>3, FS_Surjection
  <2>5. IsFiniteSet({o})
    BY FS_Singleton, Zenon
  <2> QED BY <2>1, <2>4, <2>5, FS_Union, Zenon
<1>6. \A t \in T : IsFiniteSet(t)
  BY <1>5
<1>7. ArysOf(list) = UNION T
  BY <1>1 DEF ArysOf
<1> HIDE DEF T
<1> QED BY <1>4, <1>6, <1>7, FS_UNION

\* The arrays of a list that the slaves do not know, each of them once.
LEMMA NewArraysFacts ==
  ASSUME NEW bhir \in BhIRs, NEW new \in NewArrays(bhir)
  PROVE  /\ \E n \in Nat : new \in [1 .. n -> ArysOf(bhir) \ known]
         /\ \A i, j \in DOMAIN new : new[i] = new[j] => i = j
         /\ Range(new) = ArysOf(bhir) \ known
<1> DEFINE U == ArysOf(bhir) \ known
           n == Cardinality(U)
<1>1. IsList(bhir, Arys)
  BY ListsAssumption DEF IsList
<1>2. n \in Nat
  <2>1. IsFiniteSet(ArysOf(bhir))
    BY <1>1, FiniteList
  <2>2. IsFiniteSet(U)
    BY <2>1, FS_Difference, Zenon
  <2> HIDE DEF U
  <2> QED BY <2>2, FS_CardinalityType
<1>3. new \in Bijection(1 .. n, U)
  BY Zenon DEF NewArrays
<1> HIDE DEF n, U
<1>4. /\ new \in [1 .. n -> U] /\ (\A i, j \in DOMAIN new : new[i] = new[j] => i = j)
      /\ \A a \in U : \E i \in 1 .. n : new[i] = a
  BY <1>3, Zenon DEF Bijection, Injection, Surjection, IsInjective
<1>5. DOMAIN new = 1 .. n /\ \A i \in 1 .. n : new[i] \in U
  BY <1>4
<1>6. Range(new) = U
  BY <1>4, <1>5 DEF Range
<1> QED BY <1>2, <1>4, <1>6 DEF U

-----------------------------------------------------------------------------
(***************************************************************************)
(* The tables fit together in every state.                                 *)
(***************************************************************************)
\* A map with an inverse: its range and its domain have as many elements.
LEMMA InverseMaps ==
  ASSUME NEW r \in Slave, Typed, Inverses(r), SlotsInUse(r)
  PROVE  /\ s2m[r] = [h \in Range(m2s[r]) |-> CHOOSE a \in DOMAIN m2s[r] : m2s[r][a] = h]
         /\ Cardinality(Range(m2s[r])) = Cardinality(DOMAIN m2s[r])
<1> DEFINE f == m2s[r]
           g == s2m[r]
<1>1. /\ \A a \in DOMAIN f : f[a] \in DOMAIN g /\ g[f[a]] = a
      /\ \A h \in DOMAIN g : g[h] \in DOMAIN f /\ f[g[h]] = h
  BY Zenon DEF Inverses
<1>2. g = [h \in DOMAIN g |-> g[h]]
  <2>1. g \in UNION {[S -> Arys] : S \in SUBSET Nat}
    BY Zenon DEF Typed
  <2>2. PICK S \in SUBSET Nat : g \in [S -> Arys]
    BY <2>1, Zenon
  <2> HIDE DEF g
  <2> QED BY <2>2
<1>3. IsFiniteSet(DOMAIN g)
  <2>1. store[r].next \in Nat
    BY Zenon DEF Typed
  <2>2. IsFiniteSet(0 .. store[r].next - 1)
    BY <2>1, FS_Interval
  <2>3. DOMAIN g \subseteq 0 .. store[r].next - 1
    BY Zenon DEF SlotsInUse
  <2> HIDE DEF g
  <2> QED BY <2>2, <2>3, FS_Subset, Zenon
<1> HIDE DEF f, g
<1>4. Range(f) = DOMAIN g
  BY <1>1, Zenon DEF Range
<1>5. \A h \in DOMAIN g : (CHOOSE a \in DOMAIN f : f[a] = h) = g[h]
  <2> TAKE h \in DOMAIN g
  <2>1. g[h] \in DOMAIN f /\ f[g[h]] = h
    BY <1>1, Zenon
  <2>2. \A a \in DOMAIN f : f[a] = h => a = g[h]
    BY <1>1, Zenon
  <2> QED BY <2>1, <2>2, Zenon
<1>6. g = [h \in Range(f) |-> CHOOSE a \in DOMAIN f : f[a] = h]
  BY <1>2, <1>4, <1>5, Zenon
<1>7. Cardinality(Range(f)) = Cardinality(DOMAIN f)
  <2>1. g \in [DOMAIN g -> DOMAIN f]
    BY <1>1, <1>2
  <2>2. \A h, k \in DOMAIN g : g[h] = g[k] => h = k
    BY <1>1, Zenon
  <2>3. \A a \in DOMAIN f : \E h \in DOMAIN g : g[h] = a
    BY <1>1, Zenon
  <2>4. g \in Bijection(DOMAIN g, DOMAIN f)
    BY <2>1, <2>2, <2>3, Zenon DEF Bijection, Injection, Surjection, IsInjective
  <2>5. ExistsBijection(DOMAIN g, DOMAIN f)
    BY <2>4, Zenon DEF ExistsBijection
  <2>6. Cardinality(DOMAIN f) = Cardinality(DOMAIN g)
    BY <1>3, <2>5, FS_Bijection, Zenon
  <2> QED BY <1>4, <2>6, Zenon
<1> QED BY <1>6, <1>7 DEF f, g

\* No slot is free twice.
LEMMA FreeOnce ==
  ASSUME NEW r \in Slave, Typed, SlotsInUse(r)
  PROVE  Cardinality(Range(store[r].free)) = Len(store[r].free)
<1> DEFINE s == store[r].free
           n == Len(s)
<1>1. s \in Seq(Nat)
  BY Zenon DEF Typed
<1>2. \A i, j \in DOMAIN s : s[i] = s[j] => i = j
  BY Zenon DEF SlotsInUse
<1> HIDE DEF s
<1>3. n \in Nat /\ DOMAIN s = 1 .. n /\ s = [i \in 1 .. n |-> s[i]]
  BY <1>1
<1> HIDE DEF n
<1>4. s \in [1 .. n -> Range(s)]
  BY <1>3 DEF Range
<1>5. \A v \in Range(s) : \E i \in 1 .. n : s[i] = v
  BY <1>3 DEF Range
<1>6. \A i, j \in 1 .. n : s[i] = s[j] => i = j
  BY <1>2, <1>3
<1>7. s \in Bijection(1 .. n, Range(s))
  BY <1>3, <1>4, <1>5, <1>6, Zenon DEF Bijection, Injection, Surjection, IsInjective
<1>8. ExistsBijection(1 .. n, Range(s))
  BY <1>7, Zenon DEF ExistsBijection
<1>9. IsFiniteSet(1 .. n) /\ Cardinality(1 .. n) = n
  BY <1>3, FS_Interval
<1>10. Cardinality(Range(s)) = Cardinality(1 .. n)
  BY <1>8, <1>9, FS_Bijection
<1> QED BY <1>9, <1>10 DEF s, n

\* The inductive invariant gives what the run checks.
LEMMA TablesInvAgrees == TablesInv => TablesAgree
<1> SUFFICES ASSUME TablesInv PROVE TablesAgree
  OBVIOUS
<1>1. Typed /\ MasterList /\ \A r \in Slave : SlaveInv(r)
  BY DEF TablesInv
<1>2. ASSUME NEW r \in Slave
      PROVE  SlaveInv(r) /\ SlaveList(r) /\ Inverses(r) /\ SlotsInUse(r) /\ LocalParts(r)
  BY <1>1 DEF SlaveInv
<1>3. MapsAgree
  <2> SUFFICES ASSUME NEW r \in Slave
      PROVE /\ s2m[r] = [h \in Range(m2s[r]) |-> CHOOSE a \in DOMAIN m2s[r] : m2s[r][a] = h]
            /\ Cardinality(Range(m2s[r])) = Cardinality(DOMAIN m2s[r])
            /\ \A i \in DOMAIN ir[r] : NULL \notin Range(Bases(ir[r][i]))
            /\ mode[0] = "idle" /\ mode[r] = "idle" /\ inbox[r] = <<>> => DOMAIN m2s[r] = known
    BY Zenon DEF MapsAgree
  <2>1. /\ s2m[r] = [h \in Range(m2s[r]) |-> CHOOSE a \in DOMAIN m2s[r] : m2s[r][a] = h]
        /\ Cardinality(Range(m2s[r])) = Cardinality(DOMAIN m2s[r])
    BY <1>1, <1>2, InverseMaps, Zenon
  <2>2. \A i \in DOMAIN ir[r] : NULL \notin Range(Bases(ir[r][i]))
    BY <1>2, ArraysAreFound
  <2>3. mode[0] = "idle" /\ mode[r] = "idle" /\ inbox[r] = <<>> => DOMAIN m2s[r] = known
    BY <1>1, <1>2, CaughtUp, Zenon
  <2> QED BY <2>1, <2>2, <2>3, Zenon
<1>4. SlotsAreFresh
  <2> SUFFICES ASSUME NEW r \in Slave
      PROVE /\ \A i \in DOMAIN store[r].free : store[r].free[i] \notin DOMAIN s2m[r]
            /\ DOMAIN s2m[r] \union Range(store[r].free) = 0 .. store[r].next - 1
            /\ Cardinality(Range(store[r].free)) = Len(store[r].free)
            /\ mode[r] = "idle" => DOMAIN local[r] \subseteq DOMAIN s2m[r]
    BY Zenon DEF SlotsAreFresh
  <2>1. /\ \A i \in DOMAIN store[r].free : store[r].free[i] \notin DOMAIN s2m[r]
        /\ DOMAIN s2m[r] \union Range(store[r].free) = 0 .. store[r].next - 1
    BY <1>2, Zenon DEF SlotsInUse
  <2>2. Cardinality(Range(store[r].free)) = Len(store[r].free)
    BY <1>1, <1>2, FreeOnce
  <2>3. ASSUME mode[r] = "idle" PROVE DOMAIN local[r] \subseteq DOMAIN s2m[r]
    <3>1. batch[r] = <<>> /\ DOMAIN local[r] \subseteq DOMAIN s2m[r] \union Doomed(batch[r])
      BY <1>2, <2>3 DEF LocalParts
    <3>2. Doomed(<<>>) = {}
      BY DEF Doomed
    <3> QED BY <3>1, <3>2, Zenon
  <2> QED BY <2>1, <2>2, <2>3, Zenon
<1> QED BY <1>3, <1>4 DEF TablesAgree

(***************************************************************************)
(* For any number of processes and any lists of the bridge, the master and *)
(* its slaves agree on the arrays: the maps of a slave are inverse         *)
(* (dispatch_new_slave_array, dispatch_slave_known_remove), a slave finds  *)
(* every array of a list, knows what slave_known_arrays says when it has   *)
(* caught up, and slave_ary_store hands out no slot that is still in use.  *)
(* That mapping_chunks ends with a list of chunks is a hypothesis: how     *)
(* large the chunks are does not matter to the tables.                     *)
(***************************************************************************)
THEOREM SlavesKnowTheirArrays ==
  ASSUME ChunksAreListed
  PROVE  Spec => []TablesAgree
<1>1. Init => TablesInv
  BY TablesInit
<1>2. TablesInv /\ [Next]_vars => TablesInv'
  <2>1. LeastNumbers
    BY Smallest, Zenon DEF LeastNumbers
  <2>2. NewArraysAreListed
    BY NewArraysFacts, Zenon DEF NewArraysAreListed
  <2> QED BY <2>1, <2>2, TablesStep
<1>3. TablesInv => TablesAgree
  BY TablesInvAgrees
<1> QED BY <1>1, <1>2, <1>3, PTL DEF Spec
=============================================================================
