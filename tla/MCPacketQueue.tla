---------------------------- MODULE MCPacketQueue ----------------------------
(* A ring of four slots in which every other packet needs two reads. *)
EXTENDS PacketQueue

MCPiecesOf == [n \in 1 .. MaxPackets |-> 1 + (n % 2)]
==============================================================================
