---------------------------- MODULE ByteChannel -----------------------------
(***************************************************************************)
(* What a pipe promises: a bounded first-in first-out channel of bytes     *)
(* between a read end and a write end.  Bytes leave in the order in which  *)
(* they came, none is lost, doubled or invented, at most Size wait, and    *)
(* each end is closed once and for all.                                    *)
(***************************************************************************)
EXTENDS Naturals, Sequences

CONSTANTS Bytes, Size
VARIABLES queue, readable, writable

chanvars == <<queue, readable, writable>>

Open == queue = <<>> /\ readable = 1 /\ writable = 1

Send == /\ writable = 1 /\ Len(queue) < Size
        /\ \E b \in Bytes : queue' = Append(queue, b)
        /\ UNCHANGED <<readable, writable>>

Receive == /\ readable = 1 /\ queue # <<>>
           /\ queue' = Tail(queue)
           /\ UNCHANGED <<readable, writable>>

CloseRead == readable = 1 /\ readable' = 0 /\ UNCHANGED <<queue, writable>>
CloseWrite == writable = 1 /\ writable' = 0 /\ UNCHANGED <<queue, readable>>

Transfer == Send \/ Receive \/ CloseRead \/ CloseWrite

Channel == Open /\ [][Transfer]_chanvars
=============================================================================
