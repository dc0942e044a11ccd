-------------------------- MODULE MCWebRtcTransfer --------------------------
(***************************************************************************)
(* Small instances of WebRtcTransfer: files f and g are in the sender's    *)
(* list, h is not.                                                         *)
(***************************************************************************)
EXTENDS WebRtcTransfer

CONSTANTS f, g, h

MCPins == {"", "123"}
OneOrTwoChunks == [x \in File |-> IF x = f THEN 2 ELSE 1]
Asking(s, r) == [e \in End |-> IF e = S THEN s ELSE r]
Open == [pin |-> Asking(NoPin, NoPin), expects |-> Asking(None, None)]
\* A PIN on either side, an empty one, an expected key that fits and one that does not.
MCConfigs ==
  {[pin |-> Asking("123", "123"), expects |-> Asking(SigningKey(R), SigningKey(S))],
   [Open EXCEPT !.pin = Asking(NoPin, "")],
   [Open EXCEPT !.expects = Asking(None, Key(S, "rsa-pss"))],
   [Open EXCEPT !.expects = Asking(SigningKey(S), None)]}
OpenOnly == {Open}
SomeSelections == {{}, {f, g}, {f, h}}
AllSelections == {{f, g}}
=============================================================================
