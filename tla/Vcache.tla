------------------------------- MODULE Vcache -------------------------------
(***************************************************************************)
(* The victim cache of core/bh_vcache.cpp: the memory of a freed base      *)
(* array is kept in one of a fixed number of slots and handed to the next  *)
(* base array that needs exactly as many bytes.  The CPU engine is its     *)
(* client: bh_vcache_malloc_base for the output of an array operation,     *)
(* bh_vcache_free_base for a BH_FREE, and bh_vcache_clear when the engine  *)
(* is destroyed.  The bridge works on the same base->data pointers, past   *)
(* the cache: bh_data_malloc, bh_data_free and the exports of a pointer.   *)
(*                                                                         *)
(* The memory below (mmap and munmap, through core/bh_memory.cpp) is the   *)
(* variable mapped: the number of bytes mapped at each address.            *)
(***************************************************************************)
EXTENDS Integers

CONSTANTS
  Base,     \* the base arrays
  Bytes,    \* bh_base_size of each base array
  Addr,     \* the addresses mmap can return
  NULL,     \* the null pointer
  Size      \* bh_vcache_size, 0 when the cache is disabled

ASSUME SizeAssumption == Size \in Nat
ASSUME BytesAssumption == Bytes \in [Base -> Nat]
ASSUME NullAssumption == NULL \notin Addr

VARIABLES
  vcache,        \* bh_vcache: the pointer kept in each slot
  vcache_bytes,  \* bh_vcache_bytes: its size, 0 for an empty slot
  cur,           \* bh_vcache_cur: the slot that takes the next freed memory
  data,          \* base->data of each base array
  exported,      \* memory whose pointer the bridge took from a base array
  mapped,        \* bytes mapped at each address, 0 where nothing is mapped
  running        \* whether the engine that owns the cache still exists

vars == <<vcache, vcache_bytes, cur, data, exported, mapped, running>>

Slot == 0 .. Size - 1

TypeOK ==
  /\ vcache \in [Slot -> Addr \union {NULL}]
  /\ vcache_bytes \in [Slot -> Nat]
  /\ cur \in Nat /\ (Size > 0 => cur < Size)
  /\ data \in [Base -> Addr \union {NULL}]
  /\ exported \in SUBSET Addr
  /\ mapped \in [Addr -> Nat]
  /\ running \in BOOLEAN

(***************************************************************************)
(* bh_vcache_init, called by the constructor of the engine.                *)
(***************************************************************************)
Init ==
  /\ vcache = [i \in Slot |-> NULL]
  /\ vcache_bytes = [i \in Slot |-> 0]
  /\ cur = 0
  /\ data = [b \in Base |-> NULL]
  /\ exported = {}
  /\ mapped = [a \in Addr |-> 0]
  /\ running = TRUE

(***************************************************************************)
(* bh_memory_malloc either maps fresh memory, which becomes the data of b, *)
(* or fails and leaves the pointer NULL (BH_OUT_OF_MEMORY).                *)
(***************************************************************************)
bh_memory_malloc(b) ==
  \/ \E a \in Addr :
        /\ mapped[a] = 0
        /\ mapped' = [mapped EXCEPT ![a] = Bytes[b]]
        /\ data' = [data EXCEPT ![b] = a]
  \/ UNCHANGED <<mapped, data>>

\* The bytes mapped at each address after munmap(a, size).
bh_memory_free(a, size) == [mapped EXCEPT ![a] = @ - size]

(***************************************************************************)
(* bh_vcache_find: the first slot of exactly that size, which it empties.  *)
(***************************************************************************)
\* Mutant: any block that is large enough.
HitsLarger(bytes) == {i \in Slot : vcache_bytes[i] >= bytes}

Hits(bytes) == {i \in Slot : vcache_bytes[i] = bytes}

\* Mutant: the slot is not emptied on a hit.
FindKeepsSlot(b) ==
  \E i \in Hits(Bytes[b]) :
    /\ \A j \in Hits(Bytes[b]) : i <= j
    /\ data' = [data EXCEPT ![b] = vcache[i]]
    /\ UNCHANGED <<mapped, vcache_bytes>>

bh_vcache_find(b) ==
  \E i \in Hits(Bytes[b]) :
    /\ \A j \in Hits(Bytes[b]) : i <= j
    /\ vcache_bytes' = [vcache_bytes EXCEPT ![i] = 0]
    /\ data' = [data EXCEPT ![b] = vcache[i]]
    /\ UNCHANGED mapped

(***************************************************************************)
(* bh_vcache_malloc_base: memory for the output of an array operation.  A  *)
(* base array that has data keeps it; one without elements is an error.    *)
(***************************************************************************)
bh_vcache_malloc_base(b) ==
  /\ running
  /\ data[b] = NULL
  /\ Bytes[b] > 0
  /\ IF Hits(Bytes[b]) # {}
     THEN bh_vcache_find(b)
     ELSE bh_memory_malloc(b) /\ UNCHANGED vcache_bytes
  /\ UNCHANGED <<vcache, cur, exported, running>>

(***************************************************************************)
(* bh_vcache_insert: the memory goes to the current slot, whose former     *)
(* content is unmapped, and the round-robin counter moves on.              *)
(***************************************************************************)
\* Mutant: the block in the slot is overwritten without unmapping it.
InsertForgets(a, bytes) ==
  /\ vcache' = [vcache EXCEPT ![cur] = a]
  /\ vcache_bytes' = [vcache_bytes EXCEPT ![cur] = bytes]
  /\ cur' = (cur + 1) % Size
  /\ UNCHANGED mapped

bh_vcache_insert(a, bytes) ==
  /\ mapped' = IF vcache_bytes[cur] > 0
               THEN bh_memory_free(vcache[cur], vcache_bytes[cur])
               ELSE mapped
  /\ vcache' = [vcache EXCEPT ![cur] = a]
  /\ vcache_bytes' = [vcache_bytes EXCEPT ![cur] = bytes]
  /\ cur' = (cur + 1) % Size

(***************************************************************************)
(* bh_vcache_free_base: BH_FREE of a base array.                           *)
(***************************************************************************)
bh_vcache_free_base(b) ==
  /\ running
  /\ data[b] # NULL
  /\ IF Size > 0
     THEN bh_vcache_insert(data[b], Bytes[b])
     ELSE /\ mapped' = bh_memory_free(data[b], Bytes[b])
          /\ UNCHANGED <<vcache, vcache_bytes, cur>>
  /\ data' = [data EXCEPT ![b] = NULL]
  /\ UNCHANGED <<exported, running>>

(***************************************************************************)
(* The destructor of the engine: bh_vcache_clear unmaps every slot in use  *)
(* and bh_vcache_delete releases the slots themselves.                     *)
(***************************************************************************)
Holding(a) == {i \in Slot : vcache[i] = a /\ vcache_bytes[i] > 0}

bh_vcache_clear ==
  /\ running
  /\ running' = FALSE
  /\ mapped' = [a \in Addr |->
                  IF Holding(a) = {} THEN mapped[a]
                  ELSE mapped[a] - vcache_bytes[CHOOSE i \in Holding(a) : TRUE]]
  /\ UNCHANGED <<vcache, vcache_bytes, cur, data, exported>>

-----------------------------------------------------------------------------
(***************************************************************************)
(* What the bridge and the vector engine managers do to base->data without *)
(* the cache: core/bh.cpp and the export of the C++ bridge.                *)
(***************************************************************************)
bh_data_malloc(b) ==
  /\ data[b] = NULL
  /\ Bytes[b] > 0
  /\ bh_memory_malloc(b)
  /\ UNCHANGED <<vcache, vcache_bytes, cur, exported, running>>

bh_data_free(b) ==
  /\ data[b] # NULL
  /\ mapped' = bh_memory_free(data[b], Bytes[b])
  /\ data' = [data EXCEPT ![b] = NULL]
  /\ UNCHANGED <<vcache, vcache_bytes, cur, exported, running>>

\* bh_data_export(op, Export::RELEASED): the pointer leaves the base array.
bh_data_export(b) ==
  /\ data[b] # NULL
  /\ exported' = exported \union {data[b]}
  /\ data' = [data EXCEPT ![b] = NULL]
  /\ UNCHANGED <<vcache, vcache_bytes, cur, mapped, running>>

\* The application moves or unmaps memory it was given.
Consume(a) ==
  /\ a \in exported
  /\ exported' = exported \ {a}
  /\ mapped' = [mapped EXCEPT ![a] = 0]
  /\ UNCHANGED <<vcache, vcache_bytes, cur, data, running>>

Next ==
  \/ \E b \in Base : bh_vcache_malloc_base(b)
  \/ \E b \in Base : bh_vcache_free_base(b)
  \/ bh_vcache_clear
  \/ \E b \in Base : bh_data_malloc(b)
  \/ \E b \in Base : bh_data_free(b)
  \/ \E b \in Base : bh_data_export(b)
  \/ \E a \in Addr : Consume(a)

Spec == Init /\ [][Next]_vars

-----------------------------------------------------------------------------
(***************************************************************************)
(* Who owns a piece of memory.  A slot owns its pointer while its size is  *)
(* positive and the engine exists: bh_vcache_find and bh_vcache_clear      *)
(* leave the pointer behind.                                               *)
(***************************************************************************)
InUse(i) == running /\ vcache_bytes[i] > 0

(***************************************************************************)
(* No two owners: memory handed out by bh_vcache_find is out of the cache, *)
(* memory put in by bh_vcache_insert is out of every base array, and what  *)
(* was exported is neither, whatever pointers stay behind in empty slots.  *)
(***************************************************************************)
SoleOwner ==
  /\ \A b, c \in Base : data[b] # NULL /\ data[b] = data[c] => b = c
  /\ \A i, j \in Slot : InUse(i) /\ InUse(j) /\ vcache[i] = vcache[j] => i = j
  /\ \A b \in Base, i \in Slot : InUse(i) => data[b] # vcache[i]
  /\ \A b \in Base : data[b] \notin exported
  /\ \A i \in Slot : InUse(i) => vcache[i] \notin exported

(***************************************************************************)
(* The size kept with a pointer is the size of its mapping: the munmap of  *)
(* bh_memory_free, which is given only that size, removes all of it and    *)
(* nothing else, and a base array never gets a block of another size.      *)
(***************************************************************************)
SizesAgree ==
  /\ \A b \in Base : data[b] # NULL => mapped[data[b]] = Bytes[b]
  /\ \A i \in Slot : InUse(i) => /\ vcache[i] # NULL
                                 /\ mapped[vcache[i]] = vcache_bytes[i]

(***************************************************************************)
(* Nothing leaks: all mapped memory has an owner, through the evictions of *)
(* bh_vcache_insert and the final bh_vcache_clear.                         *)
(***************************************************************************)
NoLeak ==
  \A a \in Addr : mapped[a] > 0 =>
    \/ \E b \in Base : data[b] = a
    \/ \E i \in Slot : InUse(i) /\ vcache[i] = a
    \/ a \in exported
=============================================================================
