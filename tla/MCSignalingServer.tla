-------------------------- MODULE MCSignalingServer --------------------------
(* Instances of SignalingServer for TLC. *)
EXTENDS SignalingServer
CONSTANTS a, b, c, d, g1, g2

OneGroup == [p \in Peer |-> g1]
TwoGroups == [p \in Peer |-> IF p = c THEN g2 ELSE g1]
NoSdp == {}
SdpAcross == {<<a, b>>, <<a, c>>}
==============================================================================
