------------------------------ MODULE NpArray -------------------------------
(***************************************************************************)
(* The arrays of the Python bridge (bridge/npbackend).  A bohrium.ndarray  *)
(* is a NumPy array whose data lives either in Bohrium, while the NumPy    *)
(* memory is protected and attached to the SIGSEGV handler of              *)
(* core/bh_mem_signal.cpp, or in the NumPy memory.  A Bohrium operation    *)
(* moves a base array to Bohrium (_data_np2bhc); an access to protected    *)
(* memory, or an operation that only NumPy has, moves it back              *)
(* (_data_bhc2np).  Views cache their Bohrium-C view together with the     *)
(* version of the base array it was made for.                              *)
(*                                                                         *)
(* All operations run under the interpreter lock, one at a time.  The      *)
(* content of an array is the number of writes it has seen.                *)
(***************************************************************************)
EXTENDS Integers

CONSTANTS
  Base,        \* the base arrays
  View,        \* the other arrays, views of base arrays
  BaseOf,      \* get_base of every array
  Address,     \* where the NumPy memory of a base array starts
  Bytes,       \* its size
  Offset,      \* where NumPy first touches an array, relative to its base
  MaxGen,      \* bound on the number of Bohrium-C base arrays of an array
  MaxWrites    \* bound on the writes to an array

Obj == Base \union View

ASSUME BaseOfAssumption ==
  /\ BaseOf \in [Obj -> Base]
  /\ \A b \in Base : BaseOf[b] = b

None == 0      \* Py_None; Bohrium-C base arrays are counted from 1
Null == -1     \* a data pointer that is NULL

Word == 65536  \* the range of addresses, which subtraction wraps around

\* The segments of mmap are in the range of addresses and do not overlap, and
\* NumPy touches an array within its base array.
ASSUME SegmentAssumption ==
  /\ Bytes \in Nat \ {0}
  /\ Address \in [Base -> 0 .. Word - Bytes]
  /\ \A b, c \in Base :
       b # c => Address[b] + Bytes <= Address[c] \/ Address[c] + Bytes <= Address[b]
  /\ Offset \subseteq 0 .. Bytes - 1

ASSUME MaxGenAssumption == MaxGen \in Nat \ {0}

VARIABLES
  st,          \* each base array, see Fresh
  alive,       \* the Python arrays that exist
  writes,      \* history: the writes to each base array
  read,        \* history: what the last read saw, and what it should have
  killed,      \* the process was ended by a SIGSEGV
  locked       \* signal_mutex was left locked

vars == <<st, alive, writes, read, killed, locked>>

Of(b) == {o \in Obj : BaseOf[o] = b}

\* A base array that does not exist.
Fresh(b) ==
  [np       |-> 0,                    \* the content of the NumPy memory
   prot     |-> FALSE,                \* whether it is protected
   attached |-> FALSE,                \* whether its segment is in segments
   conflict |-> FALSE,                \* an attach found it there already
   bhc_ary  |-> None,
   bhc_ary_version |-> 0,
   bhc_view |-> [o \in Of(b) |-> None],
   bhc_view_version |-> [o \in Of(b) |-> None],
   gen      |-> 0,                    \* the Bohrium-C base arrays so far
   data     |-> [g \in 1 .. MaxGen |-> Null]]  \* the data of each

Init ==
  /\ st = [b \in Base |-> Fresh(b)]
  /\ alive = {}
  /\ writes = [b \in Base |-> 0]
  /\ read = [got |-> 0, want |-> 0]
  /\ killed = FALSE
  /\ locked = FALSE

-----------------------------------------------------------------------------
(***************************************************************************)
(* core/bh_mem_signal.cpp.                                                 *)
(***************************************************************************)
\* Mutant: upper_bound instead of lower_bound.
UpperBound(addr) ==
  {b \in Base :
     /\ st[b].attached /\ Address[b] > addr
     /\ \A c \in Base : st[c].attached /\ Address[c] > addr => Address[b] <= Address[c]
     /\ (addr - Address[b]) % Word <= Bytes}

\* The base arrays that get_segment finds for an address: the first segment
\* that does not start below it, if the address is in it.
get_segment(addr) ==
  {b \in Base :
     /\ st[b].attached /\ Address[b] >= addr
     /\ \A c \in Base : st[c].attached /\ Address[c] >= addr => Address[b] <= Address[c]
     /\ (addr - Address[b]) % Word <= Bytes}

\* An attach to an attached segment returns without unlocking signal_mutex.
bh_mem_signal_attach(s) ==
  [s EXCEPT !.attached = TRUE, !.conflict = s.attached]

bh_mem_signal_detach(s) == [s EXCEPT !.attached = FALSE]

-----------------------------------------------------------------------------
(***************************************************************************)
(* ndarray.pyx, target_bhc.py and _bhmodule.c on one base array.           *)
(***************************************************************************)
new_bhc_base(s) == [s EXCEPT !.gen = @ + 1, !.bhc_ary = s.gen + 1]

\* An existing Bohrium-C view is used again, or a new one is made.
cached(s, o) ==
  s.bhc_view[o] # None /\ s.bhc_ary_version = s.bhc_view_version[o]

with_view(s, o) ==
  IF cached(s, o) THEN s
  ELSE [s EXCEPT !.bhc_view[o] = s.bhc_ary, !.bhc_view_version[o] = s.bhc_ary_version]

\* The content of a Bohrium-C base array; memory it has to allocate is zero.
content(s, g) == IF s.data[g] = Null THEN 0 ELSE s.data[g]

\* memmove to the data pointer of the view of o.
set_bhc_data_from_ary(s, o, value) ==
  LET t == with_view(s, o)
  IN  [t EXCEPT !.data[t.bhc_view[o]] = value]

_munprotect(s) == [s EXCEPT !.prot = FALSE]

\* Mutant: the NumPy memory stays accessible.
AttachOnly(s) == bh_mem_signal_attach(s)

_mprotect_np_part(s) == bh_mem_signal_attach([s EXCEPT !.prot = TRUE])

BhArray_data_np2bhc(s, b) ==
  LET bhc    == IF s.bhc_ary = None THEN new_bhc_base(s) ELSE s
      open   == _munprotect(bh_mem_signal_detach(bhc))
      copied == set_bhc_data_from_ary(open, b, open.np)
  IN  _mprotect_np_part(copied)

get_bhc(s, o) ==
  IF cached(s, o) THEN s
  ELSE with_view(IF s.bhc_ary = None THEN BhArray_data_np2bhc(s, BaseOf[o]) ELSE s, o)

\* Mutant: the version is not counted up.
del_bhc_same_version(s, o) ==
  [s EXCEPT !.bhc_ary = None, !.bhc_view[o] = None, !.bhc_view[BaseOf[o]] = None]

del_bhc(s, o) ==
  [s EXCEPT !.bhc_ary = None, !.bhc_view[o] = None, !.bhc_view[BaseOf[o]] = None,
            !.bhc_ary_version = @ + 1]

\* _mremap_data: the pages of Bohrium become the NumPy memory.
\* Mutant: nothing is moved.
RemapForgets(s, g) == [s EXCEPT !.prot = FALSE, !.data[g] = Null]

_mremap_data(s, g) == [s EXCEPT !.np = s.data[g], !.prot = FALSE, !.data[g] = Null]

BhArray_data_bhc2np(s, o) ==
  LET b     == BaseOf[o]
      t     == get_bhc(bh_mem_signal_detach(s), b)
      g     == t.bhc_view[b]
      moved == IF t.data[g] # Null THEN _mremap_data(t, g) ELSE _munprotect(t)
  IN  del_bhc(moved, o)

-----------------------------------------------------------------------------
\* A call may be needed to make a new Bohrium-C base array.
Runs(o) ==
  /\ ~killed /\ ~locked /\ o \in alive
  /\ st[BaseOf[o]].gen < MaxGen

Set(b, s) ==
  /\ st' = [st EXCEPT ![b] = s]
  /\ locked' = s.conflict

(***************************************************************************)
(* A new base array, with (ndarray.new) or without (an array that NumPy    *)
(* makes) a Bohrium-C part: BhArray_new, BhArray_finalize and              *)
(* _protected_malloc.                                                      *)
(***************************************************************************)
_protected_malloc(s) == bh_mem_signal_attach([s EXCEPT !.np = 0, !.prot = TRUE])

new(b, bohrium) ==
  /\ ~killed /\ ~locked /\ b \notin alive
  /\ LET s == _protected_malloc([Fresh(b) EXCEPT !.attached = st[b].attached])
     IN  Set(b, IF bohrium THEN new_bhc_base(s) ELSE s)
  /\ alive' = alive \union {b}
  /\ writes' = [writes EXCEPT ![b] = 0]
  /\ UNCHANGED <<read, killed>>

\* A new view: BhArray_finalize.
finalize(v) ==
  /\ ~killed /\ ~locked /\ v \in View \ alive /\ BaseOf[v] \in alive
  /\ st' = [st EXCEPT ![BaseOf[v]].bhc_view[v] = None,
                      ![BaseOf[v]].bhc_view_version[v] = None]
  /\ alive' = alive \union {v}
  /\ UNCHANGED <<writes, read, killed, locked>>

\* Mutant: the segment stays attached.
DeallocAttached(s, b) == [Fresh(b) EXCEPT !.attached = s.attached]

\* munmap, then bh_mem_signal_detach.
dealloc(s, b) == [Fresh(b) EXCEPT !.attached = bh_mem_signal_detach(s).attached]

BhArray_dealloc(o) ==
  /\ ~killed /\ ~locked /\ o \in alive
  /\ o \in Base => Of(o) \intersect alive = {o}
  /\ alive' = alive \ {o}
  /\ st' = IF o \in Base THEN [st EXCEPT ![o] = dealloc(@, o)] ELSE st
  /\ UNCHANGED <<writes, read, killed, locked>>

\* A Bohrium operation that reads an array: Ufunc.__call__ on an input.
ufunc_input(o) ==
  /\ Runs(o)
  /\ LET s == get_bhc(st[BaseOf[o]], o)
     IN  /\ Set(BaseOf[o], s)
         /\ read' = [got |-> content(s, s.bhc_view[o]), want |-> writes[BaseOf[o]]]
  /\ UNCHANGED <<alive, writes, killed>>

\* ... and on the output; also ufunc.assign.
ufunc_output(o) ==
  LET b == BaseOf[o]
      s == get_bhc(st[b], o)
      g == s.bhc_view[o]
  IN  /\ Runs(o) /\ writes[b] < MaxWrites
      /\ Set(b, [s EXCEPT !.data[g] = content(s, g) + 1])
      /\ writes' = [writes EXCEPT ![b] = @ + 1]
      /\ UNCHANGED <<alive, read, killed>>

\* _data_fill overwrites a whole base array.
BhArray_data_fill(b) ==
  /\ Runs(b) /\ writes[b] < MaxWrites
  /\ LET s == get_bhc(st[b], b)
     IN  Set(b, set_bhc_data_from_ary(s, b, writes[b] + 1))
  /\ writes' = [writes EXCEPT ![b] = @ + 1]
  /\ UNCHANGED <<alive, read, killed>>

\* a[i]: NumPy gets the data first.  The same for copy2numpy, repr and str.
BhArray_GetItem(o) ==
  /\ Runs(o)
  /\ LET s == BhArray_data_bhc2np(st[BaseOf[o]], o)
     IN  /\ Set(BaseOf[o], s)
         /\ read' = [got |-> s.np, want |-> writes[BaseOf[o]]]
  /\ UNCHANGED <<alive, writes, killed>>

(***************************************************************************)
(* NumPy touches the memory of an array.  If it is protected, sighandler   *)
(* looks for the segment and calls mem_access_callback, or restores the    *)
(* default action, which ends the process.                                 *)
(***************************************************************************)
Faults(o) == st[BaseOf[o]].prot

sighandler(addr) == {BhArray_data_bhc2np(st[b], b) : b \in get_segment(addr)}

access(o, off) ==
  LET b == BaseOf[o]
  IN  /\ Runs(o) /\ writes[b] < MaxWrites
      /\ IF ~Faults(o)
         THEN /\ Set(b, [st[b] EXCEPT !.np = @ + 1])
              /\ read' = [got |-> st[b].np, want |-> writes[b]]
              /\ writes' = [writes EXCEPT ![b] = @ + 1]
              /\ UNCHANGED killed
         ELSE IF sighandler(Address[b] + off) = {}
         THEN killed' = TRUE /\ UNCHANGED <<st, locked, read, writes>>
         ELSE \E s \in sighandler(Address[b] + off) :
                /\ Set(b, [s EXCEPT !.np = @ + 1])
                /\ read' = [got |-> s.np, want |-> writes[b]]
                /\ writes' = [writes EXCEPT ![b] = @ + 1]
                /\ UNCHANGED killed
      /\ UNCHANGED alive

Next ==
  \/ \E b \in Base, bohrium \in BOOLEAN : new(b, bohrium)
  \/ \E v \in View : finalize(v)
  \/ \E o \in Obj : BhArray_dealloc(o)
  \/ \E o \in Obj : ufunc_input(o)
  \/ \E o \in Obj : ufunc_output(o)
  \/ \E b \in Base : BhArray_data_fill(b)
  \/ \E o \in Obj : BhArray_GetItem(o)
  \/ \E o \in Obj, off \in Offset : access(o, off)

Spec == Init /\ [][Next]_vars

-----------------------------------------------------------------------------
(***************************************************************************)
(* A read sees every write before it, through whichever array and on       *)
(* whichever side it was made: the data is moved when it has to be, and    *)
(* never from the side that is out of date.                                *)
(***************************************************************************)
ReadsLatest == read.got = read.want

(***************************************************************************)
(* sighandler "executes appropriate callback function associated with      *)
(* memory segment" (bh_mem_signal.cpp:66): touching an array never ends    *)
(* the process.                                                            *)
(***************************************************************************)
NeverKilled == ~killed

(***************************************************************************)
(* bh_mem_signal_attach never meets a segment that is attached already;    *)
(* it would return with signal_mutex locked, and the next call or fault    *)
(* would wait for ever.                                                    *)
(***************************************************************************)
NoConflict == ~locked
=============================================================================
