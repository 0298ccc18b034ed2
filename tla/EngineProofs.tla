---------------------------- MODULE EngineProofs ----------------------------
(***************************************************************************)
(* The store of the CPU engine: the functions in memory, the table of the  *)
(* files they may be loaded from, and the object directory, which outlives *)
(* the process.  Whatever the blocks are, and however many sessions,       *)
(* compilations and failures there were, only code of whole files is       *)
(* called, and only under the symbol it was compiled for; and a call whose *)
(* code compiled fails only where a part of its file was left.             *)
(***************************************************************************)
EXTENDS Engine, TLAPS

\* The table: every entry is a file of the directory, with the symbol of the entry.
TableOfFiles ==
  \A s \in DOMAIN libraries_ : libraries_[s] \in files /\ libraries_[s].symbol = s

\* A function in memory is the code of a whole file with its symbol.
LoadedFromFiles ==
  \A s \in DOMAIN funcs :
    \E f \in files : f.symbol = s /\ f.whole /\ f.source = funcs[s]

\* What is not whole was left by a failure.
PartsHaveACause == \A f \in files : ~f.whole => nfailures > 0

\* With a compiler, a block gets as far as the call only with a function or a file.
ReadyToRun ==
  pc = "run" /\ level # 0 =>
    current.symbol \in DOMAIN funcs \/ current.symbol \in DOMAIN libraries_

StoreInv ==
  /\ nfailures \in Nat
  /\ level \in Levels
  /\ TableOfFiles
  /\ LoadedFromFiles
  /\ PartsHaveACause
  /\ ReadyToRun
  /\ ErrorsHaveACause

-----------------------------------------------------------------------------
\* The store, and where the process is, do not change.
StoreStutters == UNCHANGED <<funcs, libraries_, files, nfailures, level>>

\* A step that leaves the store alone and neither fails nor comes to a call keeps the
\* invariant: the filters, the fuser, the loops of the threads and the returns.
LEMMA ElsewhereKeeps ==
  ASSUME StoreInv, StoreStutters, pc' \notin {"run", "error"}
  PROVE  StoreInv'
BY DEF StoreInv, StoreStutters, TableOfFiles, LoadedFromFiles, PartsHaveACause, ReadyToRun, ErrorsHaveACause

\* Engine::Engine: the table is made from the directory, and whole files are preloaded.
LEMMA InitKeeps ==
  ASSUME StoreInv, NEW s \in Stacks, NEW l \in Levels, init(s, l)
  PROVE  StoreInv'
<1>1. /\ pc' = "idle" /\ level' = l /\ UNCHANGED <<files, nfailures>>
      /\ libraries_' \in Libraries /\ funcs' \in preload(libraries_')
  BY DEF init
<1>2. TableOfFiles'
  BY <1>1 DEF Libraries, TableOfFiles
<1>3. PICK S \in SUBSET {t \in DOMAIN libraries_' : libraries_'[t].whole} :
        funcs' = [t \in S |-> libraries_'[t].source]
  BY <1>1 DEF preload
<1>4. LoadedFromFiles'
  BY <1>2, <1>3 DEF LoadedFromFiles, TableOfFiles
<1> QED
  BY <1>1, <1>2, <1>4 DEF StoreInv, PartsHaveACause, ReadyToRun, ErrorsHaveACause

\* execute_block comes to the call, or to the compiler where there is one and the
\* function is not in memory.
LEMMA PrepareKeeps ==
  ASSUME StoreInv, prepare
  PROVE  StoreInv'
<1>1. StoreStutters
  BY DEF prepare, StoreStutters, session, store, bounds
<1>2. pc' = IF level >= 1 /\ current'.symbol \notin DOMAIN funcs THEN "jit" ELSE "run"
  BY DEF prepare, Symbolized
<1>3. level \in Nat
  BY LevelsAssumption DEF StoreInv
<1>4. ReadyToRun'
  BY <1>1, <1>2, <1>3 DEF ReadyToRun, StoreStutters
<1> QED
  BY <1>1, <1>2, <1>4 DEF StoreInv, StoreStutters, TableOfFiles, LoadedFromFiles, PartsHaveACause, ErrorsHaveACause

\* The compiler wrote the file, and the table has it.
LEMMA CompileKeeps ==
  ASSUME StoreInv, compile
  PROVE  StoreInv'
<1>1. /\ pc' = "run" /\ files' = files \union {File(TRUE)}
      /\ libraries_' = Inserted(libraries_, current.symbol, File(TRUE))
      /\ UNCHANGED <<funcs, nfailures, level, current>>
  BY DEF compile, session, memory, bounds
<1>2. File(TRUE).symbol = current.symbol /\ File(TRUE).whole
  BY DEF File
<1>3. /\ DOMAIN libraries_' = DOMAIN libraries_ \union {current.symbol}
      /\ \A s \in DOMAIN libraries_' :
           libraries_'[s] = IF s \in DOMAIN libraries_ THEN libraries_[s] ELSE File(TRUE)
  BY <1>1 DEF Inserted
<1>4. TableOfFiles'
  BY <1>1, <1>2, <1>3 DEF StoreInv, TableOfFiles
<1>5. LoadedFromFiles'
  BY <1>1 DEF StoreInv, LoadedFromFiles
<1>6. PartsHaveACause'
  BY <1>1, <1>2 DEF StoreInv, PartsHaveACause
<1> QED
  BY <1>1, <1>3, <1>4, <1>5, <1>6 DEF StoreInv, ReadyToRun, ErrorsHaveACause

\* The compiler failed: the store is as it was.
LEMMA CompileFailsKeeps ==
  ASSUME StoreInv, compile_fails
  PROVE  StoreInv'
<1>1. pc' = "failed" /\ nfailures' = nfailures + 1 /\ UNCHANGED <<funcs, libraries_, files, level>>
  BY DEF compile_fails, session, store
<1>2. nfailures' \in Nat /\ nfailures' > 0
  BY <1>1 DEF StoreInv
<1> QED
  BY <1>1, <1>2 DEF StoreInv, TableOfFiles, LoadedFromFiles, PartsHaveACause, ReadyToRun, ErrorsHaveACause

\* The process died while the compiler wrote: a part of a file is left, and it has a cause.
LEMMA KilledKeeps ==
  ASSUME StoreInv, killed
  PROVE  StoreInv'
<1>1. /\ pc' = "down" /\ nfailures' = nfailures + 1 /\ UNCHANGED level
      /\ funcs' = <<>> /\ libraries_' = <<>>
  BY DEF killed, Empty, session
<1>2. nfailures' \in Nat /\ nfailures' > 0
  BY <1>1 DEF StoreInv
<1> QED
  BY <1>1, <1>2 DEF StoreInv, TableOfFiles, LoadedFromFiles, PartsHaveACause, ReadyToRun, ErrorsHaveACause

\* The function is called, loaded from a whole file, or missing.
LEMMA RunKeeps ==
  ASSUME StoreInv, run
  PROVE  StoreInv'
<1>1. /\ pc = "run" /\ UNCHANGED <<libraries_, files, nfailures, level>>
  BY DEF run, session, bounds
<1>2. CASE current.symbol \notin DOMAIN funcs /\ Missing(current.symbol)
  <2>1. pc' = "error" /\ UNCHANGED <<funcs, current>>
    BY <1>2 DEF run
  <2>2. ASSUME level # 0
        PROVE  nfailures > 0 /\ \E f \in files : f.symbol = current.symbol /\ ~f.whole
    <3>1. current.symbol \in DOMAIN libraries_ /\ ~libraries_[current.symbol].whole
      BY <1>1, <1>2, <2>2 DEF StoreInv, ReadyToRun, Missing
    <3>2. libraries_[current.symbol] \in files /\ libraries_[current.symbol].symbol = current.symbol
      BY <3>1 DEF StoreInv, TableOfFiles
    <3> QED
      BY <3>1, <3>2 DEF StoreInv, PartsHaveACause
  <2> QED
    BY <1>1, <2>1, <2>2
    DEF StoreInv, TableOfFiles, LoadedFromFiles, PartsHaveACause, ReadyToRun, ErrorsHaveACause
<1>3. CASE ~(current.symbol \notin DOMAIN funcs /\ Missing(current.symbol))
  <2>1. pc' \in {"crashed", "loop"}
    BY <1>3 DEF run, Call
  <2>2. funcs' = Inserted(funcs, current.symbol, libraries_[current.symbol].source)
    BY <1>3 DEF run
  <2>3. ASSUME NEW s \in DOMAIN funcs'
        PROVE  \E f \in files : f.symbol = s /\ f.whole /\ f.source = funcs'[s]
    <3>1. CASE s \in DOMAIN funcs
      BY <2>2, <3>1 DEF Inserted, StoreInv, LoadedFromFiles
    <3>2. CASE s \notin DOMAIN funcs
      <4>1. s = current.symbol /\ funcs'[s] = libraries_[s].source
        BY <2>2, <2>3, <3>2 DEF Inserted
      <4>2. s \in DOMAIN libraries_ /\ libraries_[s].whole
        BY <1>3, <3>2, <4>1 DEF Missing
      <4>3. libraries_[s] \in files /\ libraries_[s].symbol = s
        BY <4>2 DEF StoreInv, TableOfFiles
      <4> QED
        BY <4>1, <4>2, <4>3
    <3> QED
      BY <3>1, <3>2
  <2>4. LoadedFromFiles'
    BY <1>1, <2>3 DEF LoadedFromFiles
  <2> QED
    BY <1>1, <2>1, <2>4 DEF StoreInv, TableOfFiles, PartsHaveACause, ReadyToRun, ErrorsHaveACause
<1> QED
  BY <1>2, <1>3

\* The process ends: what it had in memory is gone, the directory is not.
LEMMA ShutdownKeeps ==
  ASSUME StoreInv, shutdown
  PROVE  StoreInv'
<1>1. /\ pc' = "down" /\ UNCHANGED <<files, nfailures, level>>
      /\ funcs' = <<>> /\ libraries_' = <<>>
  BY DEF shutdown, Empty, session, bounds
<1> QED
  BY <1>1 DEF StoreInv, TableOfFiles, LoadedFromFiles, PartsHaveACause, ReadyToRun, ErrorsHaveACause

\* StoreInv is inductive.
LEMMA StoreAlways == Spec => []StoreInv
<1>1. Init => StoreInv
  BY DEF Init, StoreInv, TableOfFiles, LoadedFromFiles, PartsHaveACause, ReadyToRun, ErrorsHaveACause
<1>2. StoreInv /\ [Next]_vars => StoreInv'
  <2> SUFFICES ASSUME StoreInv, [Next]_vars
               PROVE  StoreInv'
    OBVIOUS
  <2>1. CASE UNCHANGED vars
    BY <2>1 DEF vars, session, memory, store, bridge, bounds, StoreInv, TableOfFiles, LoadedFromFiles,
                PartsHaveACause, ReadyToRun, ErrorsHaveACause
  <2>2. ASSUME NEW s \in Stacks, NEW l \in Levels, init(s, l) PROVE StoreInv'
    BY <2>2, InitKeeps
  <2>3. ASSUME NEW bhir \in Batches, execute(bhir) PROVE StoreInv'
    <3>1. StoreStutters /\ pc' = "filter"
      BY <2>3 DEF execute, StoreStutters, session, store
    <3> QED
      BY <3>1, ElsewhereKeeps
  <2>4. CASE bh_filter_bcexp_execute \/ bh_filter_bccon_execute \/ bh_filter_dimclean_execute
    <3>1. StoreStutters /\ pc' = "filter"
      BY <2>4 DEF bh_filter_bcexp_execute, bh_filter_bccon_execute, bh_filter_dimclean_execute, Pass,
                  StoreStutters, session, store, bounds
    <3> QED
      BY <3>1, ElsewhereKeeps
  <2>5. CASE fuse \/ join \/ run_system
    <3>1. StoreStutters /\ pc' = "block"
      BY <2>5 DEF fuse, join, run_system, StoreStutters, session, store, bounds
    <3> QED
      BY <3>1, ElsewhereKeeps
  <2>6. CASE extension
    <3>1. StoreStutters /\ pc' \in {"block", "crashed"}
      BY <2>6 DEF extension, StoreStutters, session, store, bounds
    <3> QED
      BY <3>1, ElsewhereKeeps
  <2>7. CASE compose
    <3>1. StoreStutters /\ pc' = "compose"
      BY <2>7 DEF compose, StoreStutters, session, store, bounds
    <3> QED
      BY <3>1, ElsewhereKeeps
  <2>8. CASE return
    <3>1. StoreStutters /\ pc' = "idle"
      BY <2>8 DEF return, StoreStutters, session, store, bounds
    <3> QED
      BY <3>1, ElsewhereKeeps
  <2>9. ASSUME NEW tid \in DOMAIN team, iterate(tid) \/ sync(tid) PROVE StoreInv'
    <3>1. StoreStutters /\ pc' = "loop"
      BY <2>9 DEF iterate, sync, StoreStutters, session, store, bounds
    <3> QED
      BY <3>1, ElsewhereKeeps
  <2> QED
    BY <2>1, <2>2, <2>3, <2>4, <2>5, <2>6, <2>7, <2>8, <2>9, PrepareKeeps, CompileKeeps, CompileFailsKeeps,
       KilledKeeps, RunKeeps, ShutdownKeeps
    DEF Next
<1> QED
  BY <1>1, <1>2, PTL DEF Spec

\* When there is a compiler, a call whose code compiled, or was in the store, fails only
\* where a process was killed while it compiled the same symbol and left a part of a
\* file: Engine::execute reports no error of the store by itself, whatever order the
\* directory is read in and however little of it was preloaded.
THEOREM ErrorsComeFromTheCompiler == Spec => []ErrorsHaveACause
<1>1. StoreInv => ErrorsHaveACause
  BY DEF StoreInv
<1> QED
  BY <1>1, StoreAlways, PTL

\* No part of a file is ever loaded, and nothing under a symbol that is not its own:
\* every function in memory is the code of a whole file of the directory that was
\* compiled for the symbol it is kept under (Store::preload and Store::load).
THEOREM OnlyWholeFilesAreLoaded == Spec => []LoadedFromFiles
<1>1. StoreInv => LoadedFromFiles
  BY DEF StoreInv
<1> QED
  BY <1>1, StoreAlways, PTL
=============================================================================
