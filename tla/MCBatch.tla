------------------------------ MODULE MCBatch -------------------------------
(***************************************************************************)
(* All sequences of four moves between three processes.                    *)
(***************************************************************************)
EXTENDS Batch

Moving == {m \in [from : Rank, to : Rank] : m.from # m.to}

MCComms == [1 .. 4 -> Moving]
=============================================================================
