--------------------------- MODULE MCPacketStream ---------------------------
(* PacketStream for TLC: the buffer holds a packet of four or five bytes. *)
EXTENDS PacketStream
=============================================================================
