---------------------------- MODULE MCPacketFraming ----------------------------
(* Three packets with contents of 1, 5 and 2 bytes.  The socket takes any of *)
(* them when it is empty, and never all three.                               *)
EXTENDS PacketFraming

MCStart == [k \in 0 .. 3 |-> CASE k = 0 -> 0 [] k = 1 -> 5
                               [] k = 2 -> 14 [] k = 3 -> 20]
==============================================================================
