---------------------------- MODULE MCSendPipeline ----------------------------
(* An instance of SendPipeline for TLC: two of the packets fill the buffer, or a *)
(* large one alone.                                                            *)
EXTENDS SendPipeline, TLC

CONSTANTS p1, p2, p3, p4

MCPackets == {p1, p2, p3, p4}
MCSize == p1 :> 1 @@ p2 :> 1 @@ p3 :> 2 @@ p4 :> 1

=============================================================================
