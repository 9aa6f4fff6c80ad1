--------------------------- MODULE MCPacketStream ---------------------------
(* Two writes, empty or small, that share a packet or not; every packet is *)
(* sent twice, and read whole, cut or not at all.                          *)
EXTENDS PacketStream
=============================================================================
