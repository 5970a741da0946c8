-------------------------- MODULE MCPacketRouting ---------------------------
(* Model-checking instance of PacketRouting.                               *)
EXTENDS PacketRouting

CONSTANT n1

\* Two packets of a node and one without a sender.
MCPacket == {<<n1, 1>>, <<n1, 2>>, <<Nobody, 1>>}
=============================================================================
