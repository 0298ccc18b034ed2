-------------------------------- MODULE Vem ---------------------------------
(***************************************************************************)
(* What a vector engine manager promises to the bridge above it: an        *)
(* instruction list behaves as if its instructions were applied one after  *)
(* the other to arrays in one memory.  The memory mem is the manager's     *)
(* own; the bridge sees base->data, which BH_SYNC brings up to date and    *)
(* BH_FREE releases.  BH_DISCARD makes the manager forget an array, whose  *)
(* data is then the bridge's alone, to be read again when the array        *)
(* reappears in an instruction list.                                       *)
(***************************************************************************)
EXTENDS Instructions

CONSTANTS
  Val,       \* the values of elements
  BhIRs      \* the instruction lists the bridge may execute

VARIABLES
  todo,      \* the instructions of the current list that remain
  known,     \* the arrays the manager knows
  mem,       \* their elements
  data       \* base->data of every array, as the bridge sees it

vars == <<todo, known, mem, data>>

Init ==
  /\ todo = <<>>
  /\ known = {}
  /\ mem = [a \in Arys |-> Blank(a)]
  /\ data = [a \in Arys |-> NULL]

Execute(bhir) ==
  /\ todo = <<>>
  /\ todo' = bhir
  /\ known' = known \union ArysOf(bhir)
  /\ mem' = [a \in Arys |-> IF a \in known' \ known THEN Imported(a, data) ELSE mem[a]]
  /\ UNCHANGED data

Instruction ==
  /\ todo # <<>>
  /\ LET inst == Head(todo)
         a    == inst.out.base
     IN  CASE inst.op = "SYNC" ->
                /\ data' = [data EXCEPT ![a] = mem[a]]
                /\ UNCHANGED <<known, mem>>
           [] inst.op = "FREE" ->
                /\ data' = [data EXCEPT ![a] = NULL]
                /\ mem' = [mem EXCEPT ![a] = Blank(a)]
                /\ UNCHANGED known
           [] inst.op = "DISCARD" ->
                /\ known' = known \ {a}
                /\ mem' = [mem EXCEPT ![a] = Blank(a)]
                /\ UNCHANGED data
           [] OTHER ->
                /\ mem' = [mem EXCEPT ![a] = Computed(inst, mem)]
                /\ UNCHANGED <<known, data>>
  /\ todo' = Tail(todo)

\* The bridge writes to, or takes away, the data of an array that is its own.
Bridge(a, d) ==
  /\ todo = <<>>
  /\ a \notin known
  /\ data' = [data EXCEPT ![a] = d]
  /\ UNCHANGED <<todo, known, mem>>

Next ==
  \/ \E bhir \in BhIRs : Execute(bhir)
  \/ Instruction
  \/ \E a \in Arys : \E d \in {NULL} \union [0 .. Nelem[a] - 1 -> Val \union {Undef}] : Bridge(a, d)

Spec == Init /\ [][Next]_vars
=============================================================================
