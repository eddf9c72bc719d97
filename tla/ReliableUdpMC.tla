---------------------------- MODULE ReliableUdpMC ---------------------------
(***************************************************************************)
(* The bounds of each side.  The server's packets include its last notice. *)
(* A resend puts nothing new on the network, so a side that gives up early *)
(* only hides steps that change nothing but a count.                       *)
(***************************************************************************)
EXTENDS ReliableUdp

CONSTANTS ClientPackets, ServerPackets, ClientResends, ServerResends

PerSide(client, server) == [s \in Side |-> IF s = "client" THEN client ELSE server]

SequenceBounds == PerSide(ClientPackets, ServerPackets)
ResendBounds == PerSide(ClientResends, ServerResends)
=============================================================================
