----------------------------- MODULE ByteChannel ------------------------------
(***************************************************************************)
(* What a pipe promises to programs: a bounded first-in first-out queue of *)
(* bytes with two ends that are closed once and for all.                    *)
(***************************************************************************)
EXTENDS Naturals, Sequences

CONSTANTS Byte, Capacity

VARIABLES queue, readEnd, writeEnd

cvars == <<queue, readEnd, writeEnd>>

CInit == queue = <<>> /\ readEnd = TRUE /\ writeEnd = TRUE

Put(b) ==
    /\ writeEnd /\ Len(queue) < Capacity
    /\ queue' = Append(queue, b)
    /\ UNCHANGED <<readEnd, writeEnd>>

Get ==
    /\ readEnd /\ queue # <<>>
    /\ queue' = Tail(queue)
    /\ UNCHANGED <<readEnd, writeEnd>>

CloseRead == readEnd /\ readEnd' = FALSE /\ UNCHANGED <<queue, writeEnd>>
CloseWrite == writeEnd /\ writeEnd' = FALSE /\ UNCHANGED <<queue, readEnd>>

CNext == (\E b \in Byte : Put(b)) \/ Get \/ CloseRead \/ CloseWrite

CSpec == CInit /\ [][CNext]_cvars
===============================================================================
