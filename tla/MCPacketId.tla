----------------------------- MODULE MCPacketId -----------------------------
(* TLC instances of PacketId: a window of 3 instead of 256 and a counter   *)
(* that ends at MAX_SEQUENCE = 7: two copies, a wake and a rotation fit.   *)
EXTENDS PacketId

\* A hash that is one to one in the sequence and maps every session to the
\* same ids, as the code's does: a factor prime to the range, and a sum in
\* place of the exclusive or.
HashedSum(s, q) == (s + 2 * q) % SeqMod
=============================================================================
