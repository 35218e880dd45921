-------------------------------- MODULE Fifo --------------------------------
(***************************************************************************)
(* What a packet buffer promises: the packets that are put into it come    *)
(* out whole, once and in order.                                           *)
(***************************************************************************)
EXTENDS Sequences

CONSTANT Packet
VARIABLE queue

Init == queue = <<>>

Put == \E p \in Packet : queue' = Append(queue, p)
Get == queue # <<>> /\ queue' = Tail(queue)

Next == Put \/ Get

Spec == Init /\ [][Next]_queue
=============================================================================
