------------------------------- MODULE MCFlow -------------------------------
(* FairQueue and PacketBuffer for TLC: the two ends of a flow.  Neither depends on the *)
(* other, so that a behaviour is one of FairQueue or one of PacketBuffer.              *)
EXTENDS FairQueue, PacketBuffer, TLC

VARIABLE queueMoves

FlowInit == Init /\ BufferInit /\ queueMoves \in BOOLEAN

FlowNext == /\ UNCHANGED queueMoves
            /\ \/ queueMoves /\ Next /\ UNCHANGED bufferVars
               \/ ~queueMoves /\ BufferNext /\ UNCHANGED vars

FlowSpec == FlowInit /\ [][FlowNext]_<<vars, bufferVars, queueMoves>>

\* Flows are interchangeable, and so are contents of packets.
Symmetry == Permutations(Flows) \cup Permutations(Data)
=============================================================================
