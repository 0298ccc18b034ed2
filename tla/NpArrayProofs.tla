---------------------------- MODULE NpArrayProofs ----------------------------
(***************************************************************************)
(* The arrays of the Python bridge, for any set of base arrays and views,  *)
(* any disjoint segments and any number of operations: reads see the       *)
(* latest write, and the signal handler is always in order.                *)
(*                                                                         *)
(* The inductive invariant says, for every base array that exists, on      *)
(* which side the latest content is (Current), that data in Bohrium is     *)
(* guarded by a protected and attached segment (Guarded), and that a view  *)
(* that counts as cached is one of the present Bohrium-C base array        *)
(* (ViewsCurrent), now and, because versions only grow, later.             *)
(***************************************************************************)
EXTENDS NpArray, TLAPS

BaseState(b) ==
  [np : Nat, prot : BOOLEAN, attached : BOOLEAN, conflict : BOOLEAN,
   bhc_ary : 0 .. MaxGen, bhc_ary_version : Nat,
   bhc_view : [Of(b) -> 0 .. MaxGen], bhc_view_version : [Of(b) -> Nat],
   gen : 0 .. MaxGen, data : [1 .. MaxGen -> Nat \union {Null}]]

\* The w writes so far are on the side that the next operation will look at.
Current(s, w) ==
  IF s.bhc_ary = None THEN s.np = w
  ELSE content(s, s.bhc_ary) = w /\ (s.data[s.bhc_ary] = Null => s.np = w)

ViewsCurrent(s, b) ==
  \A o \in Of(b) : /\ cached(s, o) => s.bhc_ary # None /\ s.bhc_view[o] = s.bhc_ary
                   /\ s.bhc_view_version[o] <= s.bhc_ary_version

\* While a base array is being moved its segment may be detached.
Moving(s, b, w) ==
  /\ s \in BaseState(b) /\ ~s.conflict
  /\ Current(s, w) /\ ViewsCurrent(s, b)
  /\ s.bhc_ary # None => s.prot

Guarded(s, b, w) == Moving(s, b, w) /\ (s.prot => s.attached)

IInv ==
  /\ DOMAIN st = Base
  /\ alive \subseteq Obj
  /\ writes \in [Base -> Nat]
  /\ \A o \in alive : BaseOf[o] \in alive
  /\ \A b \in Base : IF b \in alive THEN Guarded(st[b], b, writes[b]) ELSE st[b].attached = FALSE
  /\ ReadsLatest
  /\ NoConflict

-----------------------------------------------------------------------------
(***************************************************************************)
(* The operations on one base array.                                       *)
(***************************************************************************)
\* with_view: the view of o is one of the present Bohrium-C base array.
LEMMA WithView ==
  ASSUME NEW b \in Base, NEW o \in Of(b), NEW w, NEW s, Moving(s, b, w), s.bhc_ary # None
  PROVE  LET t == with_view(s, o)
         IN  /\ Moving(t, b, w) /\ cached(t, o) /\ t.bhc_view[o] = s.bhc_ary
             /\ t.bhc_ary = s.bhc_ary /\ t.data = s.data /\ t.np = s.np
             /\ t.prot = s.prot /\ t.attached = s.attached /\ t.gen = s.gen
<1> DEFINE t == with_view(s, o)
<1>1. CASE cached(s, o)
  BY <1>1 DEF with_view, Moving, ViewsCurrent
<1>2. CASE ~cached(s, o)
  <2>1. /\ t \in BaseState(b) /\ t.conflict = s.conflict
        /\ t.bhc_ary = s.bhc_ary /\ t.data = s.data /\ t.np = s.np
        /\ t.prot = s.prot /\ t.attached = s.attached /\ t.gen = s.gen
        /\ t.bhc_ary_version = s.bhc_ary_version
        /\ t.bhc_view = [s.bhc_view EXCEPT ![o] = s.bhc_ary]
        /\ t.bhc_view_version = [s.bhc_view_version EXCEPT ![o] = s.bhc_ary_version]
    BY <1>2 DEF with_view, Moving, BaseState
  <2>2. Current(t, w)
    BY <2>1 DEF Moving, Current, content
  <2>3. cached(t, o) /\ t.bhc_view[o] = s.bhc_ary
    BY <2>1 DEF cached, Moving, BaseState
  <2>4. ViewsCurrent(t, b)
    BY <2>1, <2>3 DEF cached, Moving, ViewsCurrent, BaseState
  <2> QED BY <2>1, <2>2, <2>3, <2>4 DEF Moving
<1> QED BY <1>1, <1>2

\* BhArray_data_np2bhc of an array whose data is in the NumPy memory.
LEMMA Np2Bhc ==
  ASSUME NEW b \in Base, NEW w \in Nat, NEW s, Moving(s, b, w), s.bhc_ary = None, s.gen < MaxGen
  PROVE  LET t == BhArray_data_np2bhc(s, b)
         IN  Guarded(t, b, w) /\ t.bhc_ary # None
<1> DEFINE m == _munprotect(bh_mem_signal_detach(new_bhc_base(s)))
           c == with_view(m, b)
           d == set_bhc_data_from_ary(m, b, m.np)
           t == BhArray_data_np2bhc(s, b)
<1> SUFFICES Guarded(t, b, w) /\ t.bhc_ary # None
  OBVIOUS
<1>1. b \in Of(b)
  BY BaseOfAssumption DEF Of, Obj
<1>2. /\ m \in BaseState(b) /\ ~m.conflict /\ ~m.attached /\ m.np = w
      /\ m.bhc_ary # None /\ m.bhc_ary \in 1 .. MaxGen
      /\ m.bhc_view = s.bhc_view /\ m.bhc_view_version = s.bhc_view_version
      /\ m.bhc_ary_version = s.bhc_ary_version
  <2> DEFINE n == new_bhc_base(s)
  <2>4. s.gen + 1 \in 1 .. MaxGen /\ s.gen + 1 \in 0 .. MaxGen /\ s.gen + 1 # None
    BY MaxGenAssumption DEF Moving, BaseState, None
  <2>1. n \in BaseState(b)
    BY <2>4 DEF Moving, BaseState, new_bhc_base
  <2>2. /\ ~n.conflict /\ n.np = w
        /\ n.bhc_ary = s.gen + 1 /\ n.bhc_view = s.bhc_view
        /\ n.bhc_view_version = s.bhc_view_version /\ n.bhc_ary_version = s.bhc_ary_version
    BY DEF Moving, BaseState, new_bhc_base, Current
  <2>3. m = [n EXCEPT !.attached = FALSE, !.prot = FALSE]
    BY <2>1 DEF _munprotect, bh_mem_signal_detach, BaseState
  <2> QED BY <2>1, <2>2, <2>3, <2>4 DEF BaseState
<1>3. \A o \in Of(b) : ~cached(m, o) /\ m.bhc_view_version[o] <= m.bhc_ary_version
  BY <1>2 DEF Moving, ViewsCurrent, cached
<1>4. c = [m EXCEPT !.bhc_view[b] = m.bhc_ary, !.bhc_view_version[b] = m.bhc_ary_version]
  BY <1>1, <1>3 DEF with_view
<1>5. d = [c EXCEPT !.data[m.bhc_ary] = w]
  BY <1>1, <1>2, <1>4 DEF set_bhc_data_from_ary, BaseState
<1>6. t = bh_mem_signal_attach([d EXCEPT !.prot = TRUE])
  BY DEF BhArray_data_np2bhc, _mprotect_np_part
<1> HIDE DEF m, c, d, t
<1>7. /\ t \in BaseState(b) /\ ~t.conflict /\ t.prot /\ t.attached
      /\ t.bhc_ary = m.bhc_ary /\ t.data[m.bhc_ary] = w /\ t.np = w
      /\ t.bhc_ary_version = m.bhc_ary_version
      /\ t.bhc_view = [m.bhc_view EXCEPT ![b] = m.bhc_ary]
      /\ t.bhc_view_version = [m.bhc_view_version EXCEPT ![b] = m.bhc_ary_version]
  <2>0. c \in BaseState(b)
    BY <1>1, <1>2, <1>4 DEF BaseState
  <2>1. /\ ~c.conflict /\ ~c.attached /\ c.np = w
        /\ c.bhc_ary = m.bhc_ary /\ c.bhc_ary_version = m.bhc_ary_version
        /\ c.bhc_view = [m.bhc_view EXCEPT ![b] = m.bhc_ary]
        /\ c.bhc_view_version = [m.bhc_view_version EXCEPT ![b] = m.bhc_ary_version]
    BY <1>1, <1>2, <1>4 DEF BaseState
  <2>3. d \in BaseState(b)
    BY <1>2, <1>5, <2>0 DEF BaseState
  <2>2. /\ ~d.conflict /\ ~d.attached /\ d.np = w
        /\ d.bhc_ary = m.bhc_ary /\ d.bhc_ary_version = m.bhc_ary_version
        /\ d.bhc_view = c.bhc_view /\ d.bhc_view_version = c.bhc_view_version
        /\ d.data[m.bhc_ary] = w
    BY <1>2, <1>5, <2>0, <2>1 DEF BaseState
  <2>4. t \in BaseState(b)
    BY <1>6, <2>2, <2>3 DEF bh_mem_signal_attach, BaseState
  <2> QED BY <1>6, <2>1, <2>2, <2>3, <2>4 DEF bh_mem_signal_attach, BaseState
<1>8. Current(t, w)
  BY <1>2, <1>7 DEF Current, content, Null
<1>9. ViewsCurrent(t, b)
  BY <1>1, <1>2, <1>3, <1>7 DEF ViewsCurrent, cached, BaseState
<1> QED BY <1>2, <1>7, <1>8, <1>9 DEF Guarded, Moving

\* get_bhc: afterwards the data is in Bohrium, and o has a view of it.
LEMMA GetBhc ==
  ASSUME NEW b \in Base, NEW o \in Of(b), NEW w \in Nat, NEW s, Moving(s, b, w), s.gen < MaxGen
  PROVE  LET t == get_bhc(s, o)
         IN  /\ Moving(t, b, w) /\ cached(t, o)
             /\ t.bhc_ary # None /\ t.bhc_view[o] = t.bhc_ary
             /\ Guarded(s, b, w) => Guarded(t, b, w)
<1>1. CASE cached(s, o)
  BY <1>1 DEF get_bhc, Moving, ViewsCurrent
<1>2. CASE ~cached(s, o) /\ s.bhc_ary # None
  <2>1. get_bhc(s, o) = with_view(s, o)
    BY <1>2 DEF get_bhc
  <2> QED BY <1>2, <2>1, WithView DEF Guarded
<1>3. CASE ~cached(s, o) /\ s.bhc_ary = None
  <2>1. BaseOf[o] = b
    BY DEF Of
  <2>2. get_bhc(s, o) = with_view(BhArray_data_np2bhc(s, b), o)
    BY <1>3, <2>1 DEF get_bhc
  <2>3. Guarded(BhArray_data_np2bhc(s, b), b, w) /\ BhArray_data_np2bhc(s, b).bhc_ary # None
    BY <1>3, Np2Bhc
  <2> QED BY <2>2, <2>3, WithView DEF Guarded
<1> QED BY <1>1, <1>2, <1>3

\* BhArray_data_bhc2np: afterwards the data is in the NumPy memory, which is accessible.
LEMMA Bhc2Np ==
  ASSUME NEW b \in Base, NEW o \in Of(b), NEW w \in Nat, NEW s, Guarded(s, b, w), s.gen < MaxGen
  PROVE  LET t == BhArray_data_bhc2np(s, o)
         IN  Guarded(t, b, w) /\ t.np = w /\ ~t.prot /\ t.bhc_ary = None
<1> DEFINE d == bh_mem_signal_detach(s)
           g == get_bhc(d, b)
           m == IF g.data[g.bhc_ary] # Null THEN _mremap_data(g, g.bhc_ary) ELSE _munprotect(g)
           t == BhArray_data_bhc2np(s, o)
<1> SUFFICES Guarded(t, b, w) /\ t.np = w /\ ~t.prot /\ t.bhc_ary = None
  OBVIOUS
<1>1. BaseOf[o] = b /\ b \in Of(b)
  BY BaseOfAssumption DEF Of, Obj
<1>2. Moving(d, b, w) /\ d.gen < MaxGen
  BY DEF bh_mem_signal_detach, Guarded, Moving, BaseState, Current, content, ViewsCurrent, cached
<1>3. Moving(g, b, w) /\ g.bhc_ary # None /\ g.bhc_view[b] = g.bhc_ary
  BY <1>1, <1>2, GetBhc
<1>4. t = del_bhc(m, o)
  BY <1>1, <1>3 DEF BhArray_data_bhc2np
<1>5. /\ m \in BaseState(b) /\ ~m.conflict /\ ~m.prot /\ m.np = w
      /\ m.bhc_view_version = g.bhc_view_version /\ m.bhc_ary_version = g.bhc_ary_version
  BY <1>3 DEF Moving, BaseState, Current, content, _mremap_data, _munprotect, None
<1> HIDE DEF d, g, m, t
<1>6. /\ t \in BaseState(b) /\ ~t.conflict /\ ~t.prot /\ t.np = w /\ t.bhc_ary = None
      /\ t.bhc_view_version = g.bhc_view_version
      /\ t.bhc_ary_version = g.bhc_ary_version + 1
  <2>1. None \in 0 .. MaxGen
    BY MaxGenAssumption DEF None
  <2> DEFINE V == [[m.bhc_view EXCEPT ![o] = None] EXCEPT ![b] = None]
             n == m.bhc_ary_version + 1
  <2>2. V \in [Of(b) -> 0 .. MaxGen] /\ n \in Nat
    <3>1. m.bhc_view \in [Of(b) -> 0 .. MaxGen] /\ n \in Nat
      BY <1>5 DEF BaseState
    <3>2. [m.bhc_view EXCEPT ![o] = None] \in [Of(b) -> 0 .. MaxGen]
      BY <2>1, <3>1
    <3> QED BY <2>1, <3>1, <3>2
  <2>3. t = [m EXCEPT !.bhc_ary = None, !.bhc_view = V, !.bhc_ary_version = n]
    BY <1>1, <1>4, <1>5 DEF del_bhc, BaseState
  <2>4. n = g.bhc_ary_version + 1
    BY <1>5
  <2> HIDE DEF V, n
  <2>5. t \in BaseState(b)
    BY <1>5, <2>1, <2>2, <2>3 DEF BaseState
  <2> QED BY <1>5, <2>3, <2>4, <2>5 DEF BaseState
<1>7. \A p \in Of(b) : t.bhc_view_version[p] < t.bhc_ary_version
  BY <1>3, <1>6 DEF Moving, ViewsCurrent, BaseState
<1>8. ViewsCurrent(t, b)
  BY <1>6, <1>7 DEF ViewsCurrent, cached, BaseState
<1> QED BY <1>6, <1>8 DEF Guarded, Moving, Current

-----------------------------------------------------------------------------
(***************************************************************************)
(* get_segment: lower_bound finds the segment of an attached array from    *)
(* its first byte, and no segment at all from any other byte of it.        *)
(***************************************************************************)
LEMMA FirstByteOnly ==
  ASSUME NEW b \in Base, st[b].attached, NEW off \in Offset
  PROVE  get_segment(Address[b] + off) = IF off = 0 THEN {b} ELSE {}
<1> DEFINE a == Address[b] + off
<1>1. /\ off \in 0 .. Bytes - 1 /\ Bytes \in Nat
      /\ \A c \in Base : Address[c] \in Int /\ 0 <= Address[c] /\ Address[c] <= Word - Bytes
      /\ Word = 65536
  BY SegmentAssumption DEF Word
<1>2. ASSUME NEW c \in Base, c # b, Address[c] >= a
      PROVE  off # 0 => ~((a - Address[c]) % Word <= Bytes)
  <2>1. Address[b] + Bytes <= Address[c]
    BY <1>1, <1>2, SegmentAssumption
  <2>2. off # 0 => /\ a - Address[c] \in Int /\ a - Address[c] < 0
                   /\ a - Address[c] >= Bytes + 1 - 65536
    BY <1>1, <2>1
  <2>3. \A x \in Int : -65536 < x /\ x < 0 => x % 65536 = x + 65536
    OBVIOUS
  <2> QED BY <1>1, <2>2, <2>3
<1>3. CASE off = 0
  <2>0. 0 % 65536 = 0
    OBVIOUS
  <2>1. a = Address[b] /\ a - Address[b] = 0 /\ (a - Address[b]) % Word <= Bytes
    BY <1>1, <1>3, <2>0
  <2>2. ASSUME NEW c \in Base, Address[c] >= Address[b], Address[c] <= Address[b] PROVE c = b
    BY <1>1, <2>2, SegmentAssumption
  <2> HIDE DEF a
  <2>3. b \in get_segment(a)
    BY <1>1, <2>1 DEF get_segment
  <2>4. ASSUME NEW c \in get_segment(a) PROVE c = b
    <3>1. c \in Base /\ Address[c] >= a /\ Address[c] <= Address[b]
      BY <2>1, <1>1 DEF get_segment
    <3> QED BY <1>1, <2>1, <2>2, <3>1
  <2> USE DEF a
  <2> QED BY <1>3, <2>3, <2>4
<1>4. CASE off # 0
  <2>1. ASSUME NEW c \in Base PROVE c \notin get_segment(a)
    <3>1. CASE c = b
      BY <1>1, <1>4, <3>1 DEF get_segment
    <3>2. CASE c # b
      BY <1>2, <1>4, <3>2 DEF get_segment
    <3> QED BY <3>1, <3>2
  <2>2. get_segment(a) \subseteq Base
    BY DEF get_segment
  <2> QED BY <1>4, <2>1, <2>2
<1> QED BY <1>3, <1>4

-----------------------------------------------------------------------------
(***************************************************************************)
(* The steps.                                                              *)
(***************************************************************************)
\* Nothing exists before the first array is made.
LEMMA InitIInv == Init => IInv
BY DEF Init, IInv, Fresh, ReadsLatest, NoConflict

\* An operation on one base array, to which w writes have been made after it.
LEMMA OneArray ==
  ASSUME IInv, NEW b \in Base, b \in alive, NEW s, NEW w \in Nat, Guarded(s, b, w), Set(b, s),
         writes' = [writes EXCEPT ![b] = w], alive' = alive, ReadsLatest'
  PROVE  IInv'
<1>1. st' = [st EXCEPT ![b] = s] /\ locked' = FALSE
  BY DEF Set, Guarded, Moving, BaseState
<1> QED BY <1>1 DEF IInv, NoConflict

\* What Runs says about the base array of o.
LEMMA RunsOn ==
  ASSUME IInv, NEW o \in Obj, Runs(o)
  PROVE  LET b == BaseOf[o]
         IN  /\ b \in Base /\ b \in alive /\ o \in Of(b) /\ writes[b] \in Nat
             /\ Guarded(st[b], b, writes[b]) /\ Moving(st[b], b, writes[b])
             /\ st[b].gen < MaxGen /\ st[b] \in BaseState(b)
             /\ writes = [writes EXCEPT ![b] = writes[b]]
BY BaseOfAssumption DEF IInv, Runs, Of, Guarded, Moving

\* ndarray.new, and arrays that NumPy makes.
LEMMA NewIInv ==
  ASSUME IInv, NEW b \in Base, NEW bohrium \in BOOLEAN, new(b, bohrium)
  PROVE  IInv'
<1> DEFINE f == [Fresh(b) EXCEPT !.attached = st[b].attached]
           m == _protected_malloc(f)
           s == IF bohrium THEN new_bhc_base(m) ELSE m
<1>1. st[b].attached = FALSE
  BY DEF IInv, new
<1>2. /\ 0 \in 0 .. MaxGen /\ 1 \in 0 .. MaxGen /\ 1 \in 1 .. MaxGen /\ None \in 0 .. MaxGen
      /\ None \in Nat
  BY MaxGenAssumption DEF None
<1>3. /\ m \in BaseState(b) /\ ~m.conflict /\ m.prot /\ m.attached /\ m.np = 0 /\ m.gen = 0
      /\ m.bhc_ary = None /\ m.data = [g \in 1 .. MaxGen |-> Null]
      /\ m.bhc_view = [o \in Of(b) |-> None] /\ m.bhc_view_version = [o \in Of(b) |-> None]
      /\ m.bhc_ary_version = 0
  <2>1. Fresh(b) \in BaseState(b)
    BY <1>2 DEF Fresh, BaseState
  <2>2. f \in BaseState(b) /\ f.attached = FALSE /\ f.gen = 0
        /\ f.bhc_ary = None /\ f.data = [g \in 1 .. MaxGen |-> Null]
        /\ f.bhc_view = [o \in Of(b) |-> None] /\ f.bhc_view_version = [o \in Of(b) |-> None]
        /\ f.bhc_ary_version = 0
    <3>1. f \in BaseState(b)
      BY <1>1, <2>1 DEF BaseState
    <3> QED BY <1>1, <3>1 DEF Fresh
  <2> HIDE DEF f
  <2>3. m = [f EXCEPT !.np = 0, !.prot = TRUE, !.attached = TRUE, !.conflict = FALSE]
    BY <2>2 DEF _protected_malloc, bh_mem_signal_attach, BaseState
  <2>4. m \in BaseState(b)
    BY <2>2, <2>3 DEF BaseState
  <2> QED BY <2>2, <2>3, <2>4 DEF BaseState
<1> HIDE DEF m
<1>4. ASSUME NEW n, n = new_bhc_base(m)
      PROVE  /\ n \in BaseState(b) /\ ~n.conflict /\ n.prot /\ n.attached /\ n.np = 0
             /\ n.bhc_ary = 1 /\ n.data[1] = Null
             /\ n.bhc_view = [o \in Of(b) |-> None] /\ n.bhc_view_version = [o \in Of(b) |-> None]
             /\ n.bhc_ary_version = 0
  <2>1. n = [m EXCEPT !.gen = 1, !.bhc_ary = 1]
    BY <1>3, <1>4 DEF new_bhc_base, BaseState
  <2>2. n \in BaseState(b)
    BY <1>2, <1>3, <2>1 DEF BaseState
  <2>3. /\ n.data = m.data /\ n.bhc_view = m.bhc_view /\ n.bhc_view_version = m.bhc_view_version
        /\ n.bhc_ary_version = m.bhc_ary_version /\ n.bhc_ary = 1 /\ n.np = m.np
        /\ n.prot = m.prot /\ n.attached = m.attached /\ n.conflict = m.conflict
    BY <1>3, <2>1 DEF BaseState
  <2> QED BY <1>2, <1>3, <2>2, <2>3
<1>5. Guarded(m, b, 0)
  BY <1>3 DEF Guarded, Moving, Current, ViewsCurrent, cached, None
<1>6. Guarded(new_bhc_base(m), b, 0)
  BY <1>4 DEF Guarded, Moving, Current, ViewsCurrent, cached, None, content
<1>7. Guarded(s, b, 0) /\ ~s.conflict
  BY <1>5, <1>6 DEF Guarded, Moving
<1>8. /\ st' = [st EXCEPT ![b] = s] /\ locked' = s.conflict /\ alive' = alive \union {b}
      /\ writes' = [writes EXCEPT ![b] = 0] /\ read' = read
  BY DEF new, Set, m
<1> HIDE DEF s
<1> QED BY <1>7, <1>8, BaseOfAssumption DEF IInv, NoConflict, ReadsLatest, Obj


\* BhArray_finalize of a view.
LEMMA FinalizeIInv ==
  ASSUME IInv, NEW v \in View, finalize(v)
  PROVE  IInv'
<1> DEFINE b == BaseOf[v]
           s == [st[b] EXCEPT !.bhc_view[v] = None, !.bhc_view_version[v] = None]
<1>1. /\ v \notin Base /\ v \notin alive /\ b \in Base /\ b \in alive /\ v \in Of(b)
      /\ Guarded(st[b], b, writes[b])
  BY BaseOfAssumption DEF IInv, finalize, Of, Obj
<1>2. /\ st' = [st EXCEPT ![b] = s] /\ alive' = alive \union {v}
      /\ writes' = writes /\ read' = read /\ locked' = locked
  BY <1>1 DEF IInv, finalize
<1>3. s \in BaseState(b)
  <2>1. None \in 0 .. MaxGen /\ None \in Nat
    BY MaxGenAssumption DEF None
  <2> QED BY <1>1, <2>1 DEF Guarded, Moving, BaseState
<1>4. /\ s.bhc_view = [st[b].bhc_view EXCEPT ![v] = None]
      /\ s.bhc_view_version = [st[b].bhc_view_version EXCEPT ![v] = None]
      /\ s.bhc_ary = st[b].bhc_ary /\ s.bhc_ary_version = st[b].bhc_ary_version
      /\ s.np = st[b].np /\ s.data = st[b].data /\ s.conflict = st[b].conflict
      /\ s.prot = st[b].prot /\ s.attached = st[b].attached
  BY <1>1 DEF Guarded, Moving, BaseState
<1> HIDE DEF s
<1>5. ViewsCurrent(s, b)
  BY <1>1, <1>3, <1>4 DEF Guarded, Moving, ViewsCurrent, cached, BaseState, None
<1>6. Guarded(s, b, writes[b])
  BY <1>1, <1>3, <1>4, <1>5 DEF Guarded, Moving, Current, content
<1> QED BY <1>1, <1>2, <1>6 DEF IInv, NoConflict, ReadsLatest, Obj

\* BhArray_dealloc: the segment of a base array is detached.
LEMMA DeallocIInv ==
  ASSUME IInv, NEW o \in Obj, BhArray_dealloc(o)
  PROVE  IInv'
<1>1. /\ o \in alive /\ (o \in Base => Of(o) \intersect alive = {o}) /\ alive' = alive \ {o}
      /\ st' = IF o \in Base THEN [st EXCEPT ![o] = dealloc(@, o)] ELSE st
      /\ writes' = writes /\ read' = read /\ locked' = locked
  BY DEF BhArray_dealloc
<1>2. ASSUME o \in Base
      PROVE  dealloc(st[o], o).attached = FALSE
  <2>1. st[o] \in BaseState(o)
    BY <1>1, <1>2 DEF IInv, Guarded, Moving
  <2>2. bh_mem_signal_detach(st[o]).attached = FALSE
    BY <2>1 DEF bh_mem_signal_detach, BaseState
  <2> QED BY <2>2 DEF dealloc, Fresh
<1>3. \A p \in alive' : BaseOf[p] \in alive'
  BY <1>1, BaseOfAssumption DEF IInv, Of, Obj
<1> QED BY <1>1, <1>2, <1>3 DEF IInv, NoConflict, ReadsLatest

\* An input of Ufunc.__call__.
LEMMA InputIInv ==
  ASSUME IInv, NEW o \in Obj, ufunc_input(o)
  PROVE  IInv'
<1> DEFINE b == BaseOf[o]
           s == get_bhc(st[b], o)
<1>1. Runs(o) /\ Set(b, s) /\ alive' = alive /\ writes' = writes
      /\ read' = [got |-> content(s, s.bhc_view[o]), want |-> writes[b]]
  BY DEF ufunc_input
<1>2. Guarded(s, b, writes[b]) /\ s.bhc_ary # None /\ s.bhc_view[o] = s.bhc_ary
  BY <1>1, RunsOn, GetBhc
<1>3. ReadsLatest'
  BY <1>1, <1>2 DEF ReadsLatest, Guarded, Moving, Current
<1> QED BY <1>1, <1>2, <1>3, RunsOn, OneArray

\* The output of Ufunc.__call__.
LEMMA OutputIInv ==
  ASSUME IInv, NEW o \in Obj, ufunc_output(o)
  PROVE  IInv'
<1> DEFINE b == BaseOf[o]
           s == get_bhc(st[b], o)
           g == s.bhc_view[o]
           t == [s EXCEPT !.data[g] = content(s, g) + 1]
<1>1. Runs(o) /\ Set(b, t) /\ alive' = alive /\ read' = read
      /\ writes' = [writes EXCEPT ![b] = @ + 1]
  BY DEF ufunc_output
<1>2. Guarded(s, b, writes[b]) /\ s.bhc_ary # None /\ g = s.bhc_ary /\ b \in Base
      /\ writes[b] \in Nat /\ b \in alive
  BY <1>1, RunsOn, GetBhc
<1>3. content(s, g) = writes[b] /\ g \in 1 .. MaxGen
  BY <1>2, MaxGenAssumption DEF Guarded, Moving, Current, BaseState, None
<1> DEFINE w == writes[b] + 1
<1>4. /\ t.data = [s.data EXCEPT ![g] = w] /\ t.bhc_ary = s.bhc_ary /\ t.np = s.np
      /\ t.bhc_view = s.bhc_view /\ t.bhc_view_version = s.bhc_view_version
      /\ t.bhc_ary_version = s.bhc_ary_version /\ t.conflict = s.conflict
      /\ t.prot = s.prot /\ t.attached = s.attached
  BY <1>2, <1>3 DEF Guarded, Moving, BaseState
<1>5. w \in Nat /\ writes' = [writes EXCEPT ![b] = w]
  BY <1>1, <1>2
<1>6. t \in BaseState(b)
  <2>1. t = [s EXCEPT !.data = [@ EXCEPT ![g] = w]]
    BY <1>3
  <2> HIDE DEF s, g, t, w
  <2> QED BY <1>2, <1>3, <1>5, <2>1 DEF Guarded, Moving, BaseState
<1> HIDE DEF s, g, t, w
<1>7. Current(t, w)
  <2>1. DOMAIN s.data = 1 .. MaxGen
    BY <1>2 DEF Guarded, Moving, BaseState
  <2>2. t.data[t.bhc_ary] = w
    BY <1>2, <1>3, <1>4, <2>1
  <2>3. w # Null
    BY <1>5 DEF Null
  <2> QED BY <1>2, <1>4, <2>2, <2>3 DEF Current, content
<1>8. Guarded(t, b, w)
  BY <1>2, <1>4, <1>6, <1>7 DEF Guarded, Moving, ViewsCurrent, cached
<1>9. ReadsLatest'
  BY <1>1 DEF IInv, ReadsLatest
<1> QED BY <1>1, <1>2, <1>5, <1>8, <1>9, OneArray

\* _data_fill.
LEMMA FillIInv ==
  ASSUME IInv, NEW b \in Base, BhArray_data_fill(b)
  PROVE  IInv'
<1> DEFINE s == get_bhc(st[b], b)
           w == writes[b] + 1
           t == set_bhc_data_from_ary(s, b, w)
<1>1. Runs(b) /\ Set(b, t) /\ alive' = alive /\ read' = read
      /\ writes' = [writes EXCEPT ![b] = @ + 1]
  BY DEF BhArray_data_fill
<1>2. BaseOf[b] = b /\ b \in Obj
  BY BaseOfAssumption DEF Obj
<1>3. Guarded(s, b, writes[b]) /\ s.bhc_ary # None /\ s.bhc_view[b] = s.bhc_ary
      /\ cached(s, b) /\ writes[b] \in Nat /\ b \in alive
  BY <1>1, <1>2, RunsOn, GetBhc
<1>4. w \in Nat /\ writes' = [writes EXCEPT ![b] = w] /\ w # Null
  BY <1>1, <1>3 DEF Null
<1>5. t = [s EXCEPT !.data[s.bhc_ary] = w]
  BY <1>3 DEF set_bhc_data_from_ary, with_view
<1> HIDE DEF s, w, t
<1>6. s.bhc_ary \in 1 .. MaxGen /\ DOMAIN s.data = 1 .. MaxGen
  BY <1>3, MaxGenAssumption DEF Guarded, Moving, BaseState, None
<1>7. t \in BaseState(b)
  BY <1>3, <1>4, <1>5, <1>6 DEF Guarded, Moving, BaseState
<1>8. /\ t.data = [s.data EXCEPT ![s.bhc_ary] = w] /\ t.bhc_ary = s.bhc_ary
      /\ t.bhc_view = s.bhc_view /\ t.bhc_view_version = s.bhc_view_version
      /\ t.bhc_ary_version = s.bhc_ary_version /\ t.conflict = s.conflict
      /\ t.prot = s.prot /\ t.attached = s.attached
  BY <1>3, <1>5 DEF Guarded, Moving, BaseState
<1>9. Current(t, w)
  BY <1>3, <1>4, <1>6, <1>8 DEF Current, content
<1>10. Guarded(t, b, w)
  BY <1>3, <1>7, <1>8, <1>9 DEF Guarded, Moving, ViewsCurrent, cached
<1>11. ReadsLatest'
  BY <1>1 DEF IInv, ReadsLatest
<1> QED BY <1>1, <1>3, <1>4, <1>10, <1>11, OneArray

\* a[i].
LEMMA GetItemIInv ==
  ASSUME IInv, NEW o \in Obj, BhArray_GetItem(o)
  PROVE  IInv'
<1> DEFINE b == BaseOf[o]
           s == BhArray_data_bhc2np(st[b], o)
<1>1. Runs(o) /\ Set(b, s) /\ alive' = alive /\ writes' = writes
      /\ read' = [got |-> s.np, want |-> writes[b]]
  BY DEF BhArray_GetItem
<1>2. Guarded(s, b, writes[b]) /\ s.np = writes[b]
  BY <1>1, RunsOn, Bhc2Np
<1>3. ReadsLatest'
  BY <1>1, <1>2 DEF ReadsLatest
<1> QED BY <1>1, <1>2, <1>3, RunsOn, OneArray

(***************************************************************************)
(* NumPy touches the memory of an array: sighandler, if it finds a         *)
(* segment, has moved the data of this array.                              *)
(***************************************************************************)
LEMMA AccessIInv ==
  ASSUME IInv, NEW o \in Obj, NEW off \in Offset, access(o, off)
  PROVE  IInv' /\ (killed' # killed => off # 0)
<1> DEFINE b == BaseOf[o]
<1>1. /\ b \in Base /\ b \in alive /\ writes[b] \in Nat /\ st[b].gen < MaxGen
      /\ Guarded(st[b], b, writes[b]) /\ st[b] \in BaseState(b) /\ alive' = alive
  BY RunsOn DEF access
<1>2. b \in Of(b)
  BY <1>1, BaseOfAssumption DEF Of, Obj
\* The write that follows, once the latest content is in accessible memory.
<1>3. ASSUME NEW s, Guarded(s, b, writes[b]), s.np = writes[b], s.bhc_ary = None,
             Set(b, [s EXCEPT !.np = @ + 1]),
             read' = [got |-> s.np, want |-> writes[b]],
             writes' = [writes EXCEPT ![b] = @ + 1]
      PROVE  IInv'
  <2> DEFINE t == [s EXCEPT !.np = @ + 1]
             w == writes[b] + 1
  <2>1. w \in Nat /\ writes' = [writes EXCEPT ![b] = w]
    BY <1>1, <1>3
  <2>2. s \in BaseState(b) /\ s.np \in Nat
    BY <1>1, <1>3 DEF Guarded, Moving
  <2>3. s.np + 1 \in Nat /\ t = [s EXCEPT !.np = s.np + 1]
    BY <2>2
  <2>4. t \in BaseState(b) /\ t.np = s.np + 1
    <3> HIDE DEF t, b
    <3> QED BY <2>2, <2>3 DEF BaseState
  <2>5. t \in BaseState(b) /\ t.np = w
    BY <1>3, <2>4
  <2>6. /\ t.bhc_ary = None /\ t.data = s.data
        /\ t.bhc_view = s.bhc_view /\ t.bhc_view_version = s.bhc_view_version
        /\ t.bhc_ary_version = s.bhc_ary_version /\ t.conflict = s.conflict
        /\ t.prot = s.prot /\ t.attached = s.attached
    BY <1>3 DEF Guarded, Moving, BaseState
  <2>7. Set(b, t)
    BY <1>3
  <2> HIDE DEF t, w
  <2>8. Guarded(t, b, w)
    BY <1>3, <2>5, <2>6 DEF Guarded, Moving, ViewsCurrent, cached, Current
  <2>9. ReadsLatest'
    BY <1>3 DEF ReadsLatest
  <2> QED BY <1>1, <2>1, <2>7, <2>8, <2>9, OneArray
<1>4. CASE ~Faults(o)
  <2>1. st[b].np = writes[b] /\ st[b].bhc_ary = None
    BY <1>1, <1>4 DEF Faults, Guarded, Moving, Current
  <2> QED BY <1>1, <1>3, <1>4, <2>1 DEF access
<1>5. CASE Faults(o)
  <2>1. st[b].attached
    BY <1>1, <1>5 DEF Faults, Guarded
  <2>2. get_segment(Address[b] + off) = IF off = 0 THEN {b} ELSE {}
    BY <1>1, <2>1, FirstByteOnly
  <2> DEFINE s == BhArray_data_bhc2np(st[b], b)
  <2>3. sighandler(Address[b] + off) = IF off = 0 THEN {s} ELSE {}
    BY <2>2 DEF sighandler
  <2>4. CASE off = 0
    <3>1. Guarded(s, b, writes[b]) /\ s.np = writes[b] /\ s.bhc_ary = None
      BY <1>1, <1>2, Bhc2Np
    <3>2. /\ Set(b, [s EXCEPT !.np = @ + 1]) /\ read' = [got |-> s.np, want |-> writes[b]]
          /\ writes' = [writes EXCEPT ![b] = @ + 1] /\ killed' = killed
      BY <1>5, <2>3, <2>4 DEF access
    <3> HIDE DEF s
    <3> QED BY <1>3, <3>1, <3>2
  <2>5. CASE off # 0
    <3>1. UNCHANGED <<st, locked, read, writes>>
      BY <1>5, <2>3, <2>5 DEF access
    <3> QED BY <1>1, <2>5, <3>1 DEF IInv, ReadsLatest, NoConflict
  <2> QED BY <2>4, <2>5
<1> QED BY <1>4, <1>5

-----------------------------------------------------------------------------
\* Every operation preserves the invariant, and only a touch beyond the first byte kills.
LEMMA NextIInv ==
  ASSUME IInv, [Next]_vars
  PROVE  IInv' /\ (Offset \subseteq {0} => killed' = killed)
<1>1. CASE UNCHANGED vars
  BY <1>1 DEF vars, IInv, ReadsLatest, NoConflict
<1>2. ASSUME NEW b \in Base, NEW bohrium \in BOOLEAN, new(b, bohrium) PROVE IInv' /\ killed' = killed
  BY <1>2, NewIInv DEF new
<1>3. ASSUME NEW v \in View, finalize(v) PROVE IInv' /\ killed' = killed
  BY <1>3, FinalizeIInv DEF finalize
<1>4. ASSUME NEW o \in Obj, BhArray_dealloc(o) PROVE IInv' /\ killed' = killed
  BY <1>4, DeallocIInv DEF BhArray_dealloc
<1>5. ASSUME NEW o \in Obj, ufunc_input(o) PROVE IInv' /\ killed' = killed
  BY <1>5, InputIInv DEF ufunc_input
<1>6. ASSUME NEW o \in Obj, ufunc_output(o) PROVE IInv' /\ killed' = killed
  BY <1>6, OutputIInv DEF ufunc_output
<1>7. ASSUME NEW b \in Base, BhArray_data_fill(b) PROVE IInv' /\ killed' = killed
  BY <1>7, FillIInv DEF BhArray_data_fill
<1>8. ASSUME NEW o \in Obj, BhArray_GetItem(o) PROVE IInv' /\ killed' = killed
  BY <1>8, GetItemIInv DEF BhArray_GetItem
<1>9. ASSUME NEW o \in Obj, NEW off \in Offset, access(o, off)
      PROVE  IInv' /\ (Offset \subseteq {0} => killed' = killed)
  BY <1>9, AccessIInv
<1> QED BY <1>1, <1>2, <1>3, <1>4, <1>5, <1>6, <1>7, <1>8, <1>9 DEF Next

(***************************************************************************)
(* A read on either side (Ufunc.__call__, _data_bhc2np, a touch of NumPy)  *)
(* sees every write before it, for any arrays, views and operations.       *)
(***************************************************************************)
THEOREM ReadsSeeWrites == Spec => []ReadsLatest
<1>1. Init => IInv
  BY InitIInv
<1>2. IInv /\ [Next]_vars => IInv'
  BY NextIInv
<1>3. IInv => ReadsLatest
  BY DEF IInv
<1> QED BY <1>1, <1>2, <1>3, PTL DEF Spec

(***************************************************************************)
(* bh_mem_signal_attach never meets an attached segment, so that           *)
(* signal_mutex is never left locked.                                      *)
(***************************************************************************)
THEOREM MutexIsReleased == Spec => []NoConflict
<1>1. Init => IInv
  BY InitIInv
<1>2. IInv /\ [Next]_vars => IInv'
  BY NextIInv
<1>3. IInv => NoConflict
  BY DEF IInv
<1> QED BY <1>1, <1>2, <1>3, PTL DEF Spec

(***************************************************************************)
(* If NumPy first touches the first byte of a base array, sighandler finds *)
(* its segment, and the process is never ended by a SIGSEGV.  Without the  *)
(* condition it is not so: see the run np_interior.                        *)
(***************************************************************************)
THEOREM TouchingTheStartIsSafe ==
  ASSUME Offset \subseteq {0}
  PROVE  Spec => []NeverKilled
<1>1. Init => IInv /\ NeverKilled
  BY InitIInv DEF Init, NeverKilled
<1>2. IInv /\ NeverKilled /\ [Next]_vars => IInv' /\ NeverKilled'
  BY NextIInv DEF NeverKilled
<1> QED BY <1>1, <1>2, PTL DEF Spec
=============================================================================
