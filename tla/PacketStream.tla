---------------------------- MODULE PacketStream ----------------------------
(***************************************************************************)
(* Packets over a byte stream that may be lost and made again: what the    *)
(* udpgw client and server do with the packets of UdpGw.                   *)
(*                                                                         *)
(* PacketPassConnector keeps the packet that is on its way while there is  *)
(* no stream, and starts it anew on the next one.  PacketStreamSender      *)
(* writes it in pieces.  PacketProtoDecoder reads pieces of any size into  *)
(* a buffer for one packet and cuts them into packets by the header        *)
(* (PacketProtoEncoder) each begins with.                                  *)
(*                                                                         *)
(* The stream keeps order; when it is lost, what was not read is lost too. *)
(* The two ends are those of either direction: the sender or the decoder   *)
(* is that of the udpgw server, which speaks the same protocol.            *)
(***************************************************************************)
EXTENDS Integers, Sequences, SequencesExt

CONSTANTS
    header,         \* sizeof(struct packetproto_header)
    output_mtu,     \* the largest packet the decoder takes
    Sizes,          \* payloads of the packets that are sent
    MaxPackets,     \* bound on their number
    MaxStreams      \* bound on the streams

ASSUME PacketStreamAssumption ==
    /\ header \in Nat \ {0} /\ output_mtu \in Nat
    /\ Sizes \subseteq Nat /\ MaxPackets \in Nat /\ MaxStreams \in Nat

VARIABLES
    sizes,      \* the payloads of the packets sent so far
    in_len,     \* the connector's packet (the last of sizes): its encoded length, -1 without
    in_used,    \* PacketStreamSender: how much of the packet it has written
    connected,  \* there is a stream, with a sender and a decoder
    stream,     \* bytes on their way
    buf, buf_start, buf_used,   \* PacketProtoDecoder
    passing,    \* the decoder's output is busy with a packet; otherwise its input is asked
    streams,    \* how many there were, see MaxStreams
    written,    \* history: packets that were written to the end
    first,      \* history: the first packet this stream has to carry
    got,        \* history: the last packet the decoder gave out
    misread     \* history: it cut the bytes in the wrong place

sender == <<sizes, in_len, in_used, written>>
decoder == <<buf, buf_start, buf_used, passing, got, misread>>
link == <<connected, streams, first>>
streamVars == <<sender, decoder, link, stream>>

PACKETPROTO_ENCLEN(n) == header + n

buf_size == PACKETPROTO_ENCLEN(output_mtu)
Places == 0..buf_size - 1

\* A byte is known by its packet and its place in it; the first of a packet tells its length.
NoByte == <<0, 0>>
Bytes(p, from, n) == [i \in 1..n |-> <<p, from + i>>]

-----------------------------------------------------------------------------
\* PacketPassConnector and PacketStreamSender

\* A packet of n comes down the pipe; it is written if there is a stream, and kept if not.
PacketPassConnector_input_handler_send(n) ==
    /\ in_len = -1 /\ Len(sizes) < MaxPackets
    /\ sizes' = Append(sizes, n)
    /\ in_len' = PACKETPROTO_ENCLEN(n)
    /\ in_used' = 0
    /\ UNCHANGED <<written, decoder, link, stream>>

\* The connection has taken n bytes.  The jobs by which the last of them ends the packet run
\* before anything else can happen to the stream.
Write(n) ==
    /\ connected /\ in_len # -1 /\ n \in 1..in_len - in_used
    /\ stream' = stream \o Bytes(Len(sizes), in_used, n)
    /\ in_used' = in_used + n
    /\ IF in_used' = in_len THEN in_len' = -1 /\ written' = Len(sizes)
                            ELSE UNCHANGED <<in_len, written>>
    /\ UNCHANGED <<sizes, decoder, link>>

-----------------------------------------------------------------------------
\* PacketProtoDecoder: u bytes at place s of b

HasHeader(u) == u >= header

Misplaced(b, s) == b[s][2] # 1

data_len(b, s) == sizes[b[s][1]]

HasPacket_AndMore(b, s, u) == u > PACKETPROTO_ENCLEN(data_len(b, s))

HasPacket(b, s, u) == u >= PACKETPROTO_ENCLEN(data_len(b, s))

\* Data that reaches the end of the buffer is moved to its front.
AtEnd(s, u) == s + u = buf_size

Moved(b, s, u) == [i \in Places |-> IF i < u THEN b[s + i] ELSE b[i]]

NewDecoder_KeepsBytes == UNCHANGED <<buf, buf_start, buf_used>> /\ passing' = FALSE

NewDecoder ==
    /\ buf' = [i \in Places |-> NoByte] /\ buf_start' = 0 /\ buf_used' = 0 /\ passing' = FALSE

Kept_IfNotBegun == IF in_used = 0 THEN in_len ELSE -1

\* free_server.  The connector keeps its packet; the bytes on their way are lost.
Kept == in_len

DisconnectOutput ==
    /\ connected' = FALSE /\ stream' = <<>>
    /\ in_len' = Kept /\ in_used' = 0
    /\ NewDecoder
    /\ UNCHANGED <<sizes, written, streams, first, got>>

\* The packet at s is passed to the output.
Pass(b, s, u) ==
    LET p == b[s][1]
        n == PACKETPROTO_ENCLEN(data_len(b, s))
    IN /\ buf' = b /\ buf_start' = s + n /\ buf_used' = u - n /\ passing' = TRUE
       /\ got' = p
       /\ misread' = (misread \/ [i \in 1..n |-> b[s + i - 1]] # Bytes(p, 0, n))
       /\ UNCHANGED <<sender, link>>

\* The input is asked for more.
Receive(b, s, u) ==
    /\ buf' = IF AtEnd(s, u) THEN Moved(b, s, u) ELSE b
    /\ buf_start' = IF AtEnd(s, u) THEN 0 ELSE s
    /\ buf_used' = u /\ passing' = FALSE
    /\ UNCHANGED <<got, misread, sender, link>>

\* What is left of the stream is rest.  A packet that is too large costs the connection.
process_data(b, s, u, rest) ==
    IF HasHeader(u) /\ (Misplaced(b, s) \/ data_len(b, s) > output_mtu)
    THEN DisconnectOutput /\ misread' = (misread \/ Misplaced(b, s))
    ELSE /\ stream' = rest
         /\ IF HasHeader(u) /\ HasPacket(b, s, u) THEN Pass(b, s, u) ELSE Receive(b, s, u)

Room == buf_size - (buf_start + buf_used)

\* The input has read n bytes to where the data in the buffer ends.
PacketProtoDecoder_input_handler_done(n) ==
    LET at == buf_start + buf_used
        b == [i \in Places |-> IF i \in at..at + n - 1 THEN stream[i - at + 1] ELSE buf[i]]
    IN /\ connected /\ ~passing
       /\ n <= Room /\ n <= Len(stream)
       /\ process_data(b, buf_start, buf_used + n, SubSeq(stream, n + 1, Len(stream)))

PacketProtoDecoder_output_handler_done ==
    connected /\ passing /\ process_data(buf, buf_start, buf_used, stream)

-----------------------------------------------------------------------------
\* The TCP connection to the server is lost, and made again.

StreamLost == connected /\ DisconnectOutput /\ UNCHANGED misread

StreamUp ==
    /\ ~connected /\ streams < MaxStreams
    /\ connected' = TRUE /\ streams' = streams + 1
    /\ first' = written + 1
    /\ UNCHANGED <<sender, decoder, stream>>

StreamInit ==
    /\ sizes = <<>> /\ in_len = -1 /\ in_used = 0 /\ written = 0
    /\ connected = FALSE /\ stream = <<>> /\ streams = 0 /\ first = 1
    /\ buf = [i \in Places |-> NoByte] /\ buf_start = 0 /\ buf_used = 0 /\ passing = FALSE
    /\ got = 0 /\ misread = FALSE

SomeWrite == \E n \in 1..PACKETPROTO_ENCLEN(Max(Sizes)) : Write(n)
SomeRead == \E n \in 1..buf_size : PacketProtoDecoder_input_handler_done(n)

StreamNext ==
    \/ \E n \in Sizes : PacketPassConnector_input_handler_send(n)
    \/ SomeWrite \/ SomeRead \/ PacketProtoDecoder_output_handler_done
    \/ StreamLost \/ StreamUp

StreamSpec == StreamInit /\ [][StreamNext]_streamVars

\* The connection moves what it is asked to move, and the output comes back.
FairStreamSpec ==
    /\ StreamSpec
    /\ WF_streamVars(SomeWrite) /\ WF_streamVars(SomeRead)
    /\ WF_streamVars(PacketProtoDecoder_output_handler_done)

-----------------------------------------------------------------------------
(***************************************************************************)
(* Properties                                                              *)
(***************************************************************************)

\* The packets have their sizes, the sender has written no more than there is, and the data in
\* the decoder's buffer lies within it (the asserts of output_handler_done and
\* input_handler_done).
StreamTypeOK ==
    /\ sizes \in Seq(Sizes) /\ Len(sizes) <= MaxPackets
    /\ in_len = -1 \/ in_used \in 0..in_len
    /\ connected \in BOOLEAN /\ passing \in BOOLEAN /\ misread \in BOOLEAN
    /\ DOMAIN buf = Places /\ buf_start \in Places \cup {buf_size}
    /\ buf_used \in 0..buf_size - buf_start
    /\ streams \in 0..MaxStreams /\ {written, got} \subseteq 0..Len(sizes)

\* However the stream cuts the bytes and wherever a connection ended, the decoder reads a header
\* only where a packet begins, and gives out that packet whole.
NeverMisread == ~misread

\* The decoder never asks the input for nothing (the assert data_len > 0 of
\* StreamRecvInterface_Receiver_Recv): a packet that is not whole leaves room for the rest of it.
RoomWhenAsked == connected /\ ~passing => Room > 0

\* What the decoder has in its buffer is what it takes it for, and there is room for the rest.
DecoderAgrees == StreamTypeOK /\ NeverMisread /\ RoomWhenAsked

\* A packet is not given out twice, and none is left out but those that had been written to the
\* end on a connection that was lost: the next is always the one after the last, or the first
\* that this stream has to carry.
NextInOrder ==
    [][got' # got => got' = IF got < first THEN first ELSE got + 1]_streamVars

\* On a stream that stays, each packet it has to carry comes out in the end.
Delivered ==
    \A p \in 1..MaxPackets :
        (connected /\ p \in first..Len(sizes)) ~> (got >= p \/ ~connected)
=============================================================================
