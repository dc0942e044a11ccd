-------------------------- MODULE MCSignalingRoom --------------------------
(* Instances of SignalingRoom for TLC. *)
EXTENDS SignalingRoom
CONSTANTS a, b, c, g1

OneGroup == [p \in Peer |-> g1]
OfferAndAnswer == {<<a, b>>, <<b, a>>}
OfferOnly == {<<a, b>>}
NoSdp == {}
=============================================================================
