---------------------------- MODULE VcacheProofs ----------------------------
(***************************************************************************)
(* The memory discipline of the victim cache, for any number of base       *)
(* arrays, slots and addresses.  The checked invariants are inductive once *)
(* two facts join them: a base array with data is not empty, and exported  *)
(* memory is mapped.  They make every owned address one that mmap cannot   *)
(* return again.                                                           *)
(***************************************************************************)
EXTENDS Vcache, TLAPS

Mapped ==
  /\ \A b \in Base : data[b] # NULL => Bytes[b] > 0
  /\ \A a \in exported : mapped[a] > 0

IInv == TypeOK /\ SoleOwner /\ SizesAgree /\ NoLeak /\ Mapped

USE SizeAssumption, BytesAssumption, NullAssumption

\* bh_vcache_init establishes the invariant: nothing is owned or mapped.
LEMMA InitIInv == Init => IInv
  BY DEF Init, IInv, TypeOK, SoleOwner, SizesAgree, NoLeak, Mapped, InUse, Slot

(***************************************************************************)
(* A fresh mapping (bh_memory_malloc, under bh_vcache_malloc_base and      *)
(* bh_data_malloc) is at an address without an owner.                      *)
(***************************************************************************)
LEMMA FreshIInv ==
  ASSUME IInv, NEW b \in Base, data[b] = NULL, Bytes[b] > 0, bh_memory_malloc(b),
         UNCHANGED <<vcache, vcache_bytes, cur, exported, running>>
  PROVE  IInv'
<1>1. CASE UNCHANGED <<mapped, data>>
  BY <1>1 DEF IInv, TypeOK, SoleOwner, SizesAgree, NoLeak, Mapped, InUse
<1>2. ASSUME NEW a \in Addr, mapped[a] = 0,
             mapped' = [mapped EXCEPT ![a] = Bytes[b]],
             data' = [data EXCEPT ![b] = a]
      PROVE  IInv'
  <2>1. /\ \A c \in Base : data[c] # a
        /\ \A i \in Slot : InUse(i) => vcache[i] # a
        /\ a \notin exported
    BY <1>2 DEF IInv, TypeOK, SizesAgree, Mapped, InUse
  <2>2. TypeOK'
    BY <1>2 DEF IInv, TypeOK
  <2>3. SoleOwner'
    BY <1>2, <2>1 DEF IInv, TypeOK, SoleOwner, InUse
  <2>4. SizesAgree'
    BY <1>2, <2>1 DEF IInv, TypeOK, SizesAgree, InUse
  <2>5. NoLeak'
    BY <1>2, <2>1 DEF IInv, TypeOK, NoLeak, InUse
  <2>6. Mapped'
    BY <1>2, <2>1 DEF IInv, TypeOK, Mapped
  <2> QED  BY <2>2, <2>3, <2>4, <2>5, <2>6 DEF IInv
<1> QED  BY <1>1, <1>2 DEF bh_memory_malloc

(***************************************************************************)
(* A hit (bh_vcache_find) moves memory from a slot to the base array.      *)
(***************************************************************************)
LEMMA FindIInv ==
  ASSUME IInv, running, NEW b \in Base, data[b] = NULL, Bytes[b] > 0,
         bh_vcache_find(b), UNCHANGED <<vcache, cur, exported, running>>
  PROVE  IInv'
<1>1. PICK i \in Slot :
        /\ vcache_bytes[i] = Bytes[b]
        /\ vcache_bytes' = [vcache_bytes EXCEPT ![i] = 0]
        /\ data' = [data EXCEPT ![b] = vcache[i]]
        /\ mapped' = mapped
  BY DEF bh_vcache_find, Hits
<1>2. InUse(i) /\ vcache[i] \in Addr /\ mapped[vcache[i]] = Bytes[b]
  BY <1>1 DEF IInv, TypeOK, SizesAgree, InUse
<1>3. TypeOK'
  BY <1>1, <1>2 DEF IInv, TypeOK
<1>4. \A j \in Slot : InUse(j)' <=> InUse(j) /\ j # i
  BY <1>1 DEF IInv, TypeOK, InUse
<1>5. SoleOwner'
  BY <1>1, <1>2, <1>4 DEF IInv, TypeOK, SoleOwner
<1>6. SizesAgree'
  BY <1>1, <1>2, <1>4 DEF IInv, TypeOK, SizesAgree
<1>7. NoLeak'
  BY <1>1, <1>2, <1>4 DEF IInv, TypeOK, NoLeak
<1>8. Mapped'
  BY <1>1, <1>2 DEF IInv, TypeOK, Mapped
<1> QED  BY <1>3, <1>5, <1>6, <1>7, <1>8 DEF IInv

(***************************************************************************)
(* BH_FREE with the cache enabled: the evicted block is unmapped, the      *)
(* freed one takes its slot.                                               *)
(***************************************************************************)
LEMMA InsertIInv ==
  ASSUME IInv, running, Size > 0, NEW b \in Base, data[b] # NULL,
         bh_vcache_insert(data[b], Bytes[b]),
         data' = [data EXCEPT ![b] = NULL], UNCHANGED <<exported, running>>
  PROVE  IInv'
<1>1. /\ cur \in Slot
      /\ data[b] \in Addr
      /\ Bytes[b] > 0 /\ mapped[data[b]] = Bytes[b]
  BY DEF IInv, TypeOK, Slot, SizesAgree, Mapped
<1>2. \A j \in Slot : InUse(j)' <=> j = cur \/ InUse(j)
  BY <1>1 DEF IInv, TypeOK, InUse, bh_vcache_insert
<1>3. cur' \in Nat /\ cur' < Size
  BY DEF IInv, TypeOK, bh_vcache_insert
<1>4. CASE InUse(cur)
  <2>0. /\ vcache[cur] \in Addr
        /\ vcache[cur] # data[b]
        /\ mapped[vcache[cur]] = vcache_bytes[cur]
    BY <1>1, <1>4 DEF IInv, TypeOK, SoleOwner, SizesAgree
  <2>1. /\ vcache[cur] \in Addr
        /\ vcache[cur] # data[b]
        /\ mapped' = [mapped EXCEPT ![vcache[cur]] = 0]
    <3>1. mapped' = [mapped EXCEPT ![vcache[cur]] = @ - vcache_bytes[cur]]
      BY <1>4 DEF InUse, bh_vcache_insert, bh_memory_free
    <3>2. mapped[vcache[cur]] - vcache_bytes[cur] = 0
      BY <2>0 DEF IInv, TypeOK
    <3> QED  BY <2>0, <3>1, <3>2
  <2>2. TypeOK'
    BY <1>1, <1>3, <2>1 DEF IInv, TypeOK, bh_vcache_insert
  <2>3. SoleOwner'
    <3>1. /\ vcache' = [vcache EXCEPT ![cur] = data[b]]
          /\ vcache \in [Slot -> Addr \union {NULL}]
          /\ data \in [Base -> Addr \union {NULL}]
          /\ exported \subseteq Addr
      BY DEF IInv, TypeOK, bh_vcache_insert
    <3>2. \A i \in Slot : InUse(i) => vcache[i] # NULL
      BY DEF IInv, SizesAgree
    <3> QED  BY <1>1, <1>2, <1>4, <3>1, <3>2 DEF IInv, SoleOwner
  <2>4. SizesAgree'
    BY <1>1, <1>2, <1>4, <2>1 DEF IInv, TypeOK, SoleOwner, SizesAgree, bh_vcache_insert
  <2>5. NoLeak'
    BY <1>1, <1>2, <1>4, <2>1 DEF IInv, TypeOK, NoLeak, bh_vcache_insert
  <2>6. Mapped'
    BY <1>1, <1>4, <2>1 DEF IInv, TypeOK, SoleOwner, Mapped
  <2> QED  BY <2>2, <2>3, <2>4, <2>5, <2>6 DEF IInv
<1>5. CASE ~ InUse(cur)
  <2>1. mapped' = mapped
    BY <1>1, <1>5 DEF IInv, TypeOK, InUse, bh_vcache_insert
  <2>2. TypeOK'
    BY <1>1, <1>3, <2>1 DEF IInv, TypeOK, bh_vcache_insert
  <2>3. SoleOwner'
    <3>1. /\ vcache' = [vcache EXCEPT ![cur] = data[b]]
          /\ vcache \in [Slot -> Addr \union {NULL}]
          /\ data \in [Base -> Addr \union {NULL}]
          /\ exported \subseteq Addr
      BY DEF IInv, TypeOK, bh_vcache_insert
    <3>2. \A i \in Slot : InUse(i) => vcache[i] # NULL
      BY DEF IInv, SizesAgree
    <3> QED  BY <1>1, <1>2, <1>5, <3>1, <3>2 DEF IInv, SoleOwner
  <2>4. SizesAgree'
    BY <1>1, <1>2, <1>5, <2>1 DEF IInv, TypeOK, SizesAgree, bh_vcache_insert
  <2>5. NoLeak'
    BY <1>1, <1>2, <1>5, <2>1 DEF IInv, TypeOK, NoLeak, bh_vcache_insert
  <2>6. Mapped'
    BY <1>1, <2>1 DEF IInv, TypeOK, Mapped
  <2> QED  BY <2>2, <2>3, <2>4, <2>5, <2>6 DEF IInv
<1> QED  BY <1>4, <1>5

(***************************************************************************)
(* Memory unmapped under a base array that gives it up: bh_data_free, and  *)
(* BH_FREE with the cache disabled.                                        *)
(***************************************************************************)
LEMMA ReleaseIInv ==
  ASSUME IInv, NEW b \in Base, data[b] # NULL,
         mapped' = bh_memory_free(data[b], Bytes[b]),
         data' = [data EXCEPT ![b] = NULL],
         UNCHANGED <<vcache, vcache_bytes, cur, exported, running>>
  PROVE  IInv'
<1>1. data[b] \in Addr /\ mapped' = [mapped EXCEPT ![data[b]] = 0]
  <2>1. data[b] \in Addr /\ mapped[data[b]] - Bytes[b] = 0
    BY DEF IInv, TypeOK, SizesAgree
  <2> QED  BY <2>1 DEF bh_memory_free
<1>2. TypeOK'
  BY <1>1 DEF IInv, TypeOK
<1>3. SoleOwner'
  <2>1. /\ vcache \in [Slot -> Addr \union {NULL}]
        /\ data \in [Base -> Addr \union {NULL}]
        /\ exported \subseteq Addr
    BY DEF IInv, TypeOK
  <2>2. \A i \in Slot : InUse(i)' => InUse(i) /\ vcache[i] # NULL
    BY DEF IInv, SizesAgree, InUse
  <2> QED  BY <2>1, <2>2 DEF IInv, SoleOwner
<1>4. SizesAgree'
  BY <1>1 DEF IInv, TypeOK, SoleOwner, SizesAgree, InUse
<1>5. NoLeak'
  BY <1>1 DEF IInv, TypeOK, NoLeak, InUse
<1>6. Mapped'
  BY <1>1 DEF IInv, TypeOK, SoleOwner, Mapped
<1> QED  BY <1>2, <1>3, <1>4, <1>5, <1>6 DEF IInv

(***************************************************************************)
(* The engine's destructor unmaps exactly what the slots own.              *)
(***************************************************************************)
LEMMA ClearIInv == ASSUME IInv, bh_vcache_clear PROVE IInv'
<1>1. ASSUME NEW a \in Addr
      PROVE  mapped'[a] = IF Holding(a) = {} THEN mapped[a] ELSE 0
  <2>1. CASE Holding(a) = {}
    BY <2>1 DEF bh_vcache_clear
  <2>2. CASE Holding(a) # {}
    <3>1. PICK i : i = CHOOSE j \in Holding(a) : TRUE
      OBVIOUS
    <3>2. i \in Holding(a)
      BY <2>2, <3>1
    <3>3. vcache_bytes[i] = mapped[a]
      BY <3>2 DEF Holding, IInv, SizesAgree, InUse, bh_vcache_clear
    <3>4. mapped'[a] = mapped[a] - vcache_bytes[i]
      BY <2>2, <3>1 DEF bh_vcache_clear
    <3> QED  BY <2>2, <3>3, <3>4 DEF IInv, TypeOK
  <2> QED  BY <2>1, <2>2
<1>2. TypeOK'
  <2>1. mapped' \in [Addr -> Nat]
    <3>1. DOMAIN mapped' = Addr /\ mapped' = [a \in Addr |-> mapped'[a]]
      BY DEF bh_vcache_clear
    <3> QED  BY <1>1, <3>1 DEF IInv, TypeOK
  <2> QED  BY <2>1 DEF IInv, TypeOK, bh_vcache_clear
<1>3. \A a \in Addr : Holding(a) # {} =>
        (\A b \in Base : data[b] # a) /\ a \notin exported
  BY DEF IInv, SoleOwner, InUse, Holding, bh_vcache_clear
<1>4. SoleOwner'
  BY DEF IInv, SoleOwner, InUse, bh_vcache_clear
<1>5. SizesAgree'
  BY <1>1, <1>3 DEF IInv, TypeOK, SizesAgree, InUse, bh_vcache_clear
<1>6. NoLeak'
  BY <1>1 DEF IInv, TypeOK, NoLeak, InUse, Holding, bh_vcache_clear
<1>7. Mapped'
  BY <1>1, <1>3 DEF IInv, TypeOK, Mapped, bh_vcache_clear
<1> QED  BY <1>2, <1>4, <1>5, <1>6, <1>7 DEF IInv

(***************************************************************************)
(* Every step of the cache and of the bridge keeps the invariant.          *)
(***************************************************************************)
LEMMA NextIInv == IInv /\ [Next]_vars => IInv'
<1> SUFFICES ASSUME IInv, [Next]_vars PROVE IInv'
  OBVIOUS
<1>1. ASSUME NEW b \in Base, bh_vcache_malloc_base(b) PROVE IInv'
  BY <1>1, FreshIInv, FindIInv DEF bh_vcache_malloc_base
<1>2. ASSUME NEW b \in Base, bh_vcache_free_base(b) PROVE IInv'
  BY <1>2, InsertIInv, ReleaseIInv DEF bh_vcache_free_base
<1>3. CASE bh_vcache_clear
  BY <1>3, ClearIInv
<1>4. ASSUME NEW b \in Base, bh_data_malloc(b) PROVE IInv'
  BY <1>4, FreshIInv DEF bh_data_malloc
<1>5. ASSUME NEW b \in Base, bh_data_free(b) PROVE IInv'
  BY <1>5, ReleaseIInv DEF bh_data_free
<1>6. ASSUME NEW b \in Base, bh_data_export(b) PROVE IInv'
  <2>1. data[b] \in Addr /\ mapped[data[b]] > 0
    BY <1>6 DEF bh_data_export, IInv, TypeOK, SizesAgree, Mapped
  <2> QED
    BY <1>6, <2>1 DEF bh_data_export, IInv, TypeOK, SoleOwner, SizesAgree, NoLeak,
                      Mapped, InUse
<1>7. ASSUME NEW a \in Addr, Consume(a) PROVE IInv'
  BY <1>7 DEF Consume, IInv, TypeOK, SoleOwner, SizesAgree, NoLeak, Mapped, InUse
<1>8. CASE UNCHANGED vars
  BY <1>8 DEF vars, IInv, TypeOK, SoleOwner, SizesAgree, NoLeak, Mapped, InUse
<1> QED  BY <1>1, <1>2, <1>3, <1>4, <1>5, <1>6, <1>7, <1>8 DEF Next

\* The invariant holds of every state.
LEMMA Inductive == Spec => []IInv
  BY InitIInv, NextIInv, PTL DEF Spec

(***************************************************************************)
(* For every cache size and every set of base arrays, a block of memory    *)
(* has at most one owner: a base array, a slot of the cache or the bridge  *)
(* that took it over (bh_vcache_malloc_base, bh_vcache_insert, ...).       *)
(***************************************************************************)
THEOREM MemoryHasOneOwner == Spec => []SoleOwner
<1>1. IInv => SoleOwner
  BY DEF IInv
<1> QED  BY Inductive, <1>1, PTL

(***************************************************************************)
(* For every cache size and every set of base arrays, the size that is     *)
(* recorded with a slot, or follows from a base array, is that of its      *)
(* memory (bh_vcache_find, bh_vcache_insert).                              *)
(***************************************************************************)
THEOREM SizesAreTrue == Spec => []SizesAgree
<1>1. IInv => SizesAgree
  BY DEF IInv
<1> QED  BY Inductive, <1>1, PTL

(***************************************************************************)
(* For every cache size and every set of base arrays, memory that is       *)
(* mapped has an owner: evictions and clearing the cache lose nothing.     *)
(***************************************************************************)
THEOREM MemoryIsNotLost == Spec => []NoLeak
<1>1. IInv => NoLeak
  BY DEF IInv
<1> QED  BY Inductive, <1>1, PTL
=============================================================================
