------------------------------- MODULE Batch --------------------------------
(***************************************************************************)
(* The order of the point-to-point messages of the cluster VEM.  Every     *)
(* process goes through the same chunks of the same instructions: for a    *)
(* chunk that has to move, comm_array_data schedules a send on one         *)
(* process, a receive on another and nothing on the rest, and batch_flush  *)
(* executes them in that order with blocking calls, all with the same tag. *)
(* comm is that common sequence, for any instructions and any mapping.     *)
(*                                                                         *)
(* MPI_Send may return before the message is received (buffered) or only   *)
(* when the receiver has arrived at its MPI_Recv.                          *)
(***************************************************************************)
EXTENDS Integers, Sequences

CONSTANTS
  Rank,        \* the processes
  Comms        \* the sequences of moves: records [from, to]

\* comm_array_data returns at once when sender and receiver are the same.
ASSUME CommsAssumption ==
  \A c \in Comms :
    /\ c \in Seq([from : Rank, to : Rank])
    /\ \A i \in 1 .. Len(c) : c[i].from # c[i].to

VARIABLES
  comm,        \* the sequence of moves
  buffered,    \* whether MPI buffers messages
  pos,         \* the next move of the sequence each process looks at
  wire         \* the messages under way, by sender and receiver: moves

vars == <<comm, buffered, pos, wire>>

Moves == 1 .. Len(comm)

Between(i, s, r) == comm[i].from = s /\ comm[i].to = r

Init ==
  /\ comm \in Comms
  /\ buffered \in BOOLEAN
  /\ pos = [r \in Rank |-> 1]
  /\ wire = [s \in Rank |-> [r \in Rank |-> <<>>]]

\* The process has no part in the move.
skip(r) ==
  /\ pos[r] \in Moves
  /\ comm[pos[r]].from # r /\ comm[pos[r]].to # r
  /\ pos' = [pos EXCEPT ![r] = @ + 1]
  /\ UNCHANGED <<comm, buffered, wire>>

\* Mutant: the message is addressed to its sender.
SendToSelf(r) ==
  /\ buffered
  /\ pos[r] \in Moves
  /\ comm[pos[r]].from = r
  /\ wire' = [wire EXCEPT ![r][r] = Append(@, pos[r])]
  /\ pos' = [pos EXCEPT ![r] = @ + 1]
  /\ UNCHANGED <<comm, buffered>>

\* MPI_Send into a buffer.
send(r) ==
  /\ buffered
  /\ pos[r] \in Moves
  /\ comm[pos[r]].from = r
  /\ wire' = [wire EXCEPT ![r][comm[pos[r]].to] = Append(@, pos[r])]
  /\ pos' = [pos EXCEPT ![r] = @ + 1]
  /\ UNCHANGED <<comm, buffered>>

\* Mutant: the last message of the sender is taken.
RecvLast(r) ==
  /\ buffered
  /\ pos[r] \in Moves
  /\ comm[pos[r]].to = r
  /\ LET s == comm[pos[r]].from
     IN  /\ wire[s][r] # <<>>
         /\ wire' = [wire EXCEPT ![s][r] = SubSeq(@, 1, Len(@) - 1)]
  /\ pos' = [pos EXCEPT ![r] = @ + 1]
  /\ UNCHANGED <<comm, buffered>>

\* MPI_Recv of the first message of the sender.
recv(r) ==
  /\ buffered
  /\ pos[r] \in Moves
  /\ comm[pos[r]].to = r
  /\ LET s == comm[pos[r]].from
     IN  /\ wire[s][r] # <<>>
         /\ wire' = [wire EXCEPT ![s][r] = Tail(@)]
  /\ pos' = [pos EXCEPT ![r] = @ + 1]
  /\ UNCHANGED <<comm, buffered>>

\* An MPI_Send and the MPI_Recv it waits for.
meet(s, r) ==
  /\ ~buffered
  /\ pos[s] \in Moves /\ pos[r] \in Moves
  /\ Between(pos[s], s, r) /\ Between(pos[r], s, r)
  /\ pos' = [pos EXCEPT ![s] = @ + 1, ![r] = @ + 1]
  /\ UNCHANGED <<comm, buffered, wire>>

Flushed == \A r \in Rank : pos[r] = Len(comm) + 1

Done == Flushed /\ UNCHANGED vars

Next ==
  \/ \E r \in Rank : skip(r) \/ send(r) \/ recv(r)
  \/ \E s, r \in Rank : meet(s, r)
  \/ Done

Spec == Init /\ [][Next]_vars

-----------------------------------------------------------------------------
TypeOK ==
  /\ comm \in Comms /\ buffered \in BOOLEAN
  /\ pos \in [Rank -> 1 .. Len(comm) + 1]
  /\ wire \in [Rank -> [Rank -> Seq(Moves)]]

(***************************************************************************)
(* All messages have the same tag, so that MPI_Recv takes what comes next  *)
(* from the sender: it is the message of the move the receiver is at.      *)
(***************************************************************************)
RightMessage ==
  \A r \in Rank : pos[r] \in Moves /\ comm[pos[r]].to = r =>
    LET s == comm[pos[r]].from
    IN  /\ wire[s][r] # <<>> => Head(wire[s][r]) = pos[r]
        /\ ~buffered /\ pos[s] \in Moves /\ Between(pos[s], s, r) => pos[s] = pos[r]

CanStep(r) ==
  /\ pos[r] \in Moves
  /\ LET m == comm[pos[r]]
     IN  \/ m.from # r /\ m.to # r
         \/ buffered /\ m.from = r
         \/ buffered /\ m.to = r /\ wire[m.from][r] # <<>>
         \/ ~buffered /\ pos[m.from] = pos[r] /\ pos[m.to] = pos[r]

(***************************************************************************)
(* batch_flush does not deadlock: until all processes have flushed, some   *)
(* process can take its next step, although every process blocks in each   *)
(* of its calls and none knows where the others are.                       *)
(***************************************************************************)
NeverStuck == ~Flushed => \E r \in Rank : CanStep(r)
=============================================================================
