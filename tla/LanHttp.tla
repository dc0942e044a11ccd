------------------------------- MODULE LanHttp -------------------------------
(***************************************************************************)
(* What the two sides of a LAN transfer share: the requests of protocol v2 *)
(* that a sending app (send_provider.dart) has under way to a receiving    *)
(* app (receive_controller.dart).                                          *)
(*                                                                         *)
(* A transfer is one call of startSession.  Its id stands for both session *)
(* ids, which are fresh Uuids: the sender's, and the one the receiver      *)
(* draws when it opens a session for the request.  A transfer makes one    *)
(* prepare-upload request at a time, one upload request per file, and at   *)
(* most one cancel request.  Requests travel on connections of their own,  *)
(* so those of one transfer may overtake each other.                       *)
(***************************************************************************)
EXTENDS Naturals, FiniteSets

CONSTANTS
  Transfer,  \* calls of startSession
  File,      \* the files of a transfer
  Device,    \* sending devices
  DeviceOf,  \* the device of a transfer, known to the receiver by its IP
  Message,   \* the transfers that are a single text message
  Breaks     \* input: the requests whose connection may break, and the disk

ASSUME LanAssumption ==
  /\ IsFiniteSet(File) /\ File # {}
  /\ DeviceOf \in [Transfer -> Device]
  /\ Message \subseteq Transfer
  /\ Breaks \subseteq {"prepare", "upload", "disk"}

VARIABLES
  prepare,  \* the prepare-upload request: under way, being handled, or its status code
  pin,      \* the pin in the query of that request
  granted,  \* the files that got a token in the answer 200
  upload,   \* the upload request of each file, likewise
  cancel    \* the cancel request: with or without a session id, or handled
httpVars == <<prepare, pin, granted, upload, cancel>>

Code == {"200", "204", "401", "403", "409", "429", "500"}
\* What a client sees at the end of a request.
Outcome == Code \cup {"lost"}
RequestState == {"none", "sent", "open"} \cup Outcome

HttpTypeOK ==
  /\ prepare \in [Transfer -> RequestState]
  /\ pin \in [Transfer -> {"none", "right", "wrong"}]
  /\ granted \in [Transfer -> SUBSET File]
  /\ upload \in [Transfer -> [File -> RequestState]]
  /\ cancel \in [Transfer -> {"none", "bare", "named", "handled"}]

HttpInit ==
  /\ prepare = [t \in Transfer |-> "none"]
  /\ pin = [t \in Transfer |-> "none"]
  /\ granted = [t \in Transfer |-> {}]
  /\ upload = [t \in Transfer |-> [f \in File |-> "none"]]
  /\ cancel = [t \in Transfer |-> "none"]

\* respondJson: an answer to a connection that broke reaches nobody.
AnswerPrepare(t, code) ==
  prepare' = [prepare EXCEPT ![t] = IF @ = "open" THEN code ELSE @]
AnswerUpload(t, f, code) ==
  upload' = [upload EXCEPT ![t][f] = IF @ = "open" THEN code ELSE @]

UnderWay(r) == r \in {"sent", "open"}
\* The environment: a connection breaks, and the client learns it.
BreakPrepare(t) ==
  /\ "prepare" \in Breaks /\ UnderWay(prepare[t])
  /\ prepare' = [prepare EXCEPT ![t] = "lost"]
  /\ UNCHANGED <<pin, granted, upload, cancel>>
BreakUpload(t, f) ==
  /\ "upload" \in Breaks /\ UnderWay(upload[t][f])
  /\ upload' = [upload EXCEPT ![t][f] = "lost"]
  /\ UNCHANGED <<prepare, pin, granted, cancel>>
=============================================================================
