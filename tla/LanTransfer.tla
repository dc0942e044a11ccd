----------------------------- MODULE LanTransfer -----------------------------
(***************************************************************************)
(* LAN transfers: sending apps (SendSession) and one receiving app         *)
(* (ReceiveServer), with the requests between them.                        *)
(***************************************************************************)
EXTENDS SendSession, ReceiveServer

vars == <<httpVars, senderVars, receiverVars>>

Init == HttpInit /\ SenderInit /\ ReceiverInit

ConnectionBreaks ==
  \E t \in Transfer : BreakPrepare(t) \/ \E f \in File : BreakUpload(t, f)

Next ==
  \/ Sender /\ UNCHANGED receiverVars
  \/ Receiver /\ UNCHANGED senderVars
  \/ ConnectionBreaks /\ UNCHANGED <<senderVars, receiverVars>>

Spec == Init /\ [][Next]_vars

\* Requests reach the server, the event loops run what is due, and the handlers
\* of the upload isolate and of the platform's file system come back.
ReceiverStep(A) == A /\ UNCHANGED senderVars
SenderStep(A) == A /\ UNCHANGED receiverVars
MachineFairness ==
  /\ \A t \in Transfer :
       /\ WF_vars(ReceiverStep(PrepareUploadHandler(t)))
       /\ WF_vars(ReceiverStep(CancelHandler(t)))
       /\ WF_vars(SenderStep(Answered(t)))
  /\ \A t \in Transfer, f \in File :
       /\ WF_vars(ReceiverStep(UploadHandler(t, f)))
       /\ WF_vars(SenderStep(SendFile(t, f)))
       /\ WF_vars(SenderStep(AbortUpload(t, f)))
MachineSpec == Spec /\ MachineFairness

\* The users answer the dialogs: no timeout does it for them.
UserFairness ==
  \A t \in Transfer :
    /\ WF_vars(ReceiverStep(Decision(t)))
    /\ WF_vars(SenderStep(PinDialog(t)))
FairSpec == MachineSpec /\ UserFairness

-----------------------------------------------------------------------------
\* Types, and the bounds of the counters: concurrent requests of a device never
\* count more wrong pins than the three that checkPin allows.
TypeOK == HttpTypeOK /\ SenderTypeOK /\ ReceiverTypeOK

\* A sender that shows a transfer as finished has every accepted file saved on the
\* other device, whatever broke, was canceled or was replaced meanwhile.
SenderHonest ==
  \A t \in Transfer \ Message :
    status[t] = "finished" => \A f \in granted[t] : <<t, f>> \in saved

\* A receiver that shows its session as finished has saved every file of it that
\* was not skipped: uploads that run side by side end the session together.
FinishedMeansSaved ==
  session # None /\ session.status = "finished" =>
    \A f \in File : session.files[f] = "skipped" \/ <<session.id, f>> \in saved

\* The two sides agree on success: when the sender has finished, the receiver's
\* session of that transfer, if it is still there, has finished too.
Agreement ==
  \A t \in Transfer :
    status[t] = "finished" /\ session # None /\ session.id = t => session.status = "finished"

\* A transfer that has the receiver to itself ends on the sender's side, however
\* connections break, users cancel, and sessions close under it.
TransferEnds ==
  \A t \in Transfer : status[t] \in {"waiting", "sending"} ~> status[t] \in Terminal \cup {"closed"}

\* receive_controller.dart:197 answers 409 "blocked by another session" so that one
\* session never takes the place of another.
SessionNotReplaced ==
  [][session # None /\ session' # None => session'.id = session.id]_vars

\* progress_page.dart:154 "sender-side cancel must notify receiver during
\* active/waiting session, otherwise receiver can be stuck on the accept/decline page".
CancelReachesReceiver ==
  \A t \in Transfer :
    cancel[t] # "none" ~> ~(session # None /\ session.id = t /\ session.status = "waiting")
=============================================================================
