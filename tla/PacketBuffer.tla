---------------------------- MODULE PacketBuffer ----------------------------
(***************************************************************************)
(* PacketBuffer, the queue of a udpgw connection, over ChunkBuffer2, the   *)
(* ring its packets are stored in.                                         *)
(*                                                                         *)
(* The ring is an array of blocks.  A packet takes a block for its length  *)
(* and as many blocks as its data needs, all in one piece: it never wraps  *)
(* around.  Where the rest of the array cannot hold the largest packet the *)
(* ring ends early (wrap).                                                 *)
(*                                                                         *)
(* The buffer lends the space after the last packet to its input, which    *)
(* writes there at any time until it is done, and the first packet to its  *)
(* output, which reads it until it is done.                                *)
(***************************************************************************)
EXTENDS Integers, Sequences

CONSTANTS
    Data, NoData,   \* contents of packets, and of blocks that hold none
    block,          \* sizeof(struct ChunkBuffer2_block)
    input_mtu, num_packets

ASSUME PacketBufferAssumption ==
    /\ NoData \notin Data
    /\ block \in Nat \ {0} /\ input_mtu \in Nat \ {0} /\ num_packets \in Nat \ {0}

VARIABLES
    len, data,      \* [Blocks -> what the block holds as a length, and as data]
    wrap, start, used,
    input_dest, input_avail,    \* as set by update_input, and by update_output:
    output_dest, output_avail,  \*   -1 for NULL
    lent,           \* where the input was asked to write a packet to, -1 if it was not asked
    sent,           \* where the output was asked to send a packet from, and its length; or <<>>
    places          \* history: where in the ring the packets begin, the first of them first

ring == <<len, data, wrap, start, used, places>>
inputVars == <<input_dest, input_avail>>
outputVars == <<output_dest, output_avail>>
bufferVars == <<ring, inputVars, outputVars, lent, sent>>

bdivide_up(n) == (n + block - 1) \div block

mtu == bdivide_up(input_mtu)

size_NoSpare == (1 + mtu) * num_packets

\* ChunkBuffer2_calc_blocks: one chunk more than there are packets.
size == (1 + mtu) * (num_packets + 1)

Blocks == 0..size - 1

-----------------------------------------------------------------------------
\* ChunkBuffer2, on a ring of the given fields

end(w, s, u) == IF u >= w - s THEN u - (w - s) ELSE s + u

free_IgnoresWrap(w, s, u) == size - end(w, s, u)

free(w, s, u) == IF u >= w - s THEN s - end(w, s, u) ELSE size - end(w, s, u)

HasInput(w, s, u) == size - end(w, s, u) - 1 >= mtu /\ free(w, s, u) > 0

update_input(w, s, u) ==
    /\ input_dest' = IF HasInput(w, s, u) THEN end(w, s, u) + 1 ELSE -1
    /\ input_avail' = IF HasInput(w, s, u) THEN (free(w, s, u) - 1) * block ELSE -1

update_output(l, s, u) ==
    /\ output_dest' = IF u > 0 THEN s + 1 ELSE -1
    /\ output_avail' = IF u > 0 THEN l[s] ELSE -1

\* After a packet that ends before e: the rest of the array is too short for another.
EndsEarly(e, u) == u <= wrap - start /\ mtu > size - e - 1

ChunkBuffer2_SubmitPacket(n) ==
    LET at == end(wrap, start, used)
        e  == at + 1 + bdivide_up(n)
        u  == used + 1 + bdivide_up(n)
    IN /\ len' = [len EXCEPT ![at] = n]
       /\ data' = [data EXCEPT ![at] = NoData]
       /\ used' = u
       /\ wrap' = IF EndsEarly(e, u) THEN e ELSE wrap
       /\ places' = Append(places, at)
       /\ UNCHANGED start
       /\ update_input(wrap', start, u)
       /\ IF used = 0 THEN update_output(len', start, u) ELSE UNCHANGED outputVars

WasWrapped == used >= wrap - start

AtWrap(s) == s = wrap

ChunkBuffer2_ConsumePacket ==
    LET n == 1 + bdivide_up(len[start])
    IN /\ start' = IF AtWrap(start + n) THEN 0 ELSE start + n
       /\ wrap' = IF AtWrap(start + n) THEN size ELSE wrap
       /\ used' = used - n
       /\ places' = Tail(places)
       /\ UNCHANGED <<len, data>>
       /\ IF WasWrapped THEN update_input(wrap', start', used') ELSE UNCHANGED inputVars
       /\ update_output(len, start', used')

-----------------------------------------------------------------------------
\* PacketBuffer

Receiver_Recv == lent' = input_dest'
Sender_Send == sent' = <<output_dest', output_avail'>>

\* The input writes to the space that it was lent; it may use all of it before it decides
\* how much of it is the packet.
InputWrites(d) ==
    /\ lent # -1
    /\ data' = [i \in Blocks |-> IF i \in lent..lent + mtu - 1 THEN d ELSE data[i]]
    /\ len'  = [i \in Blocks |-> IF i \in lent..lent + mtu - 1 THEN 0 ELSE len[i]]
    /\ UNCHANGED <<wrap, start, used, places, inputVars, outputVars, lent, sent>>

PacketBuffer_input_handler_done(n) ==
    /\ lent # -1
    /\ \E d \in Data : \A i \in lent..lent + bdivide_up(n) - 1 : data[i] = d
    /\ ChunkBuffer2_SubmitPacket(n)
    /\ IF input_avail' >= input_mtu THEN Receiver_Recv ELSE lent' = -1
    /\ IF output_avail < 0 THEN Sender_Send ELSE UNCHANGED sent

AsksInput_RoomOrNot(was_full) == was_full /\ input_avail' > 0

\* The input is asked again if it was not being asked.
AsksInput(was_full) == was_full /\ input_avail' >= input_mtu

PacketBuffer_output_handler_done ==
    /\ sent # <<>>
    /\ ChunkBuffer2_ConsumePacket
    /\ IF AsksInput(input_avail < input_mtu) THEN Receiver_Recv ELSE UNCHANGED lent
    /\ IF output_avail' >= 0 THEN Sender_Send ELSE sent' = <<>>

BufferInit ==
    /\ len = [i \in Blocks |-> 0] /\ data = [i \in Blocks |-> NoData]
    /\ wrap = size /\ start = 0 /\ used = 0
    /\ input_dest = 1 /\ input_avail = (size - 1) * block
    /\ output_dest = -1 /\ output_avail = -1
    /\ lent = 1 /\ sent = <<>> /\ places = <<>>

BufferNext ==
    \/ \E d \in Data : InputWrites(d)
    \/ \E n \in 0..input_mtu : PacketBuffer_input_handler_done(n)
    \/ PacketBuffer_output_handler_done

BufferSpec == BufferInit /\ [][BufferNext]_bufferVars

-----------------------------------------------------------------------------
\* The packets in the ring, for one who begins at start and goes from each to the next by its
\* length, as the code does: the length of each, and what all of its data is.
Blocks_OfData(p) == bdivide_up(len[p])
Past(p) == p + 1 + Blocks_OfData(p)
After(p) == IF Past(p) = wrap THEN 0 ELSE Past(p)

\* How many blocks lie from start to place p, and from there to the end of the data.
Before(p) == IF p >= start THEN p - start ELSE (wrap - start) + p
Left(p) == used - Before(p)

Found(k) ==
    LET p == places[k]
    IN /\ p = IF k = 1 THEN start ELSE After(places[k - 1])
       /\ data[p] = NoData /\ Past(p) <= wrap /\ 1 + Blocks_OfData(p) <= Left(p)

Corrupt == [len |-> -1, data |-> {}]

PacketAt(p) == [len |-> len[p], data |-> {data[i] : i \in p + 1..p + Blocks_OfData(p)}]

Contents == [k \in 1..Len(places) |-> IF Found(k) THEN PacketAt(places[k]) ELSE Corrupt]

Packet == {[len |-> n, data |-> IF n = 0 THEN {} ELSE {d}] : n \in 0..input_mtu, d \in Data}

F == INSTANCE Fifo WITH queue <- Contents

\* The assertions of _ChunkBuffer2_assert_buffer, and the range of every field.
BufferTypeOK ==
    /\ len \in [Blocks -> 0..input_mtu] /\ data \in [Blocks -> Data \cup {NoData}]
    /\ wrap \in 1..size /\ start \in 0..wrap - 1 /\ used \in 0..wrap
    /\ wrap = size \/ used >= wrap - start
    /\ input_dest \in Blocks \cup {-1} /\ output_dest \in Blocks \cup {-1}
    /\ lent \in Blocks \cup {-1} /\ places \in Seq(Blocks)

\* What is remembered of the ring is what it would be computed to now, although input and
\* output are not updated after every operation (_ChunkBuffer2_assert_io).
RememberedIsCurrent ==
    /\ input_dest = IF HasInput(wrap, start, used) THEN end(wrap, start, used) + 1 ELSE -1
    /\ input_avail = IF HasInput(wrap, start, used) THEN (free(wrap, start, used) - 1) * block ELSE -1
    /\ output_dest = IF used > 0 THEN start + 1 ELSE -1
    /\ output_avail = IF used > 0 THEN len[start] ELSE -1

\* What the input and the output were given stays valid until they are done with it: the
\* place for the next packet does not move, whatever is consumed meanwhile, it has room for
\* the largest packet, and the packet that is being sent stays the first one.
LoansStayValid ==
    /\ lent # -1 => lent = input_dest /\ input_avail >= input_mtu
    /\ sent # <<>> => sent = <<output_dest, output_avail>>

\* Neither side is forgotten: the output is asked to send whenever there is a packet, and the
\* input is asked for one whenever the largest would fit; that is so whenever there are less
\* than num_packets, "minimum number of packets the buffer must hold" (PacketBuffer.h).
NobodyForgotten ==
    /\ sent # <<>> <=> used > 0
    /\ lent # -1 <=> input_avail >= input_mtu
    /\ Len(places) < num_packets => lent # -1

\* Together: what the ring and both its users rely on, whatever one of them does while the
\* other holds a loan.
BufferAgrees == BufferTypeOK /\ RememberedIsCurrent /\ LoansStayValid /\ NobodyForgotten

\* The ring implements a FIFO: every packet comes out whole, unharmed by what the input wrote
\* since, once and in order.
IsFifo == F!Spec
=============================================================================
