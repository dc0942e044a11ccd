----------------------------- MODULE SendSession -----------------------------
(***************************************************************************)
(* The sending app: startSession and its pin dialog, the loop that uploads *)
(* the accepted files, and the ways out of the progress page               *)
(* (send_provider.dart).                                                   *)
(*                                                                         *)
(* A step is the code between two awaits, with the completions that        *)
(* microtasks run: the answer to prepare-upload starts the first uploads,  *)
(* and the end of one upload starts the next.                              *)
(***************************************************************************)
EXTENDS LanHttp

CONSTANT Workers   \* uploadIsolateCount

ASSUME SenderAssumption == Workers \in Nat \ {0}

VARIABLES
  status,   \* SendSessionState.status; none before, closed once it is removed
  remote,   \* whether remoteSessionId is known
  files,    \* the status of each file
  queue,    \* the accepted files that no worker has taken yet
  asking    \* startSession waits in the pin dialog
senderVars == <<status, remote, files, queue, asking>>

\* Statuses the page is left with closeSession.
Terminal == {"declined", "recipientBusy", "tooManyAttempts", "canceledBySender",
             "finished", "finishedWithErrors"}
SenderTypeOK ==
  /\ status \in [Transfer -> {"none", "waiting", "sending", "closed"} \cup Terminal]
  /\ remote \in [Transfer -> BOOLEAN]
  /\ files \in [Transfer -> [File -> {"queue", "skipped", "sending", "failed", "finished"}]]
  /\ queue \in [Transfer -> SUBSET File]
  /\ asking \in [Transfer -> BOOLEAN]

SenderInit ==
  /\ status = [t \in Transfer |-> "none"]
  /\ remote = [t \in Transfer |-> FALSE]
  /\ files = [t \in Transfer |-> [f \in File |-> "queue"]]
  /\ queue = [t \in Transfer |-> {}]
  /\ asking = [t \in Transfer |-> FALSE]

\* updateSession changes nothing once the session is removed.
Present(t) == status[t] \notin {"none", "closed"}
SetStatus(t, s) == status' = IF Present(t) THEN [status EXCEPT ![t] = s] ELSE status

-----------------------------------------------------------------------------
(* startSession up to the answer                                           *)

StartSession(t) ==
  /\ status[t] = "none"
  /\ status' = [status EXCEPT ![t] = IF t \in Message THEN "sending" ELSE "waiting"]
  /\ prepare' = [prepare EXCEPT ![t] = "sent"]
  /\ UNCHANGED <<pin, granted, upload, cancel, remote, files, queue, asking>>

\* 401
AskPin(t) ==
  /\ prepare[t] = "401"
  /\ prepare' = [prepare EXCEPT ![t] = "none"]
  /\ asking' = [asking EXCEPT ![t] = TRUE]
  /\ UNCHANGED <<pin, granted, upload, cancel, status, remote, files, queue>>

\* The dialog outlives the session: nothing looks whether it was canceled.
EnterPin(t) ==
  /\ asking[t]
  /\ \E p \in {"right", "wrong"} : pin' = [pin EXCEPT ![t] = p]
  /\ prepare' = [prepare EXCEPT ![t] = "sent"]
  /\ asking' = [asking EXCEPT ![t] = FALSE]
  /\ UNCHANGED <<granted, upload, cancel, status, remote, files, queue>>

DismissPin(t) ==
  /\ asking[t]
  /\ SetStatus(t, "canceledBySender")
  /\ asking' = [asking EXCEPT ![t] = FALSE]
  /\ UNCHANGED <<httpVars, remote, files, queue>>

StatusOfCode == [c \in {"204", "403", "409", "429", "lost"} |->
  IF c = "204" THEN "finished" ELSE IF c = "403" THEN "declined"
  ELSE IF c = "409" THEN "recipientBusy" ELSE IF c = "429" THEN "tooManyAttempts"
  ELSE "finishedWithErrors"]

\* Refused, lost, or read: the session ends without an upload.
EndWithoutUpload(t) ==
  /\ prepare[t] \in DOMAIN StatusOfCode
  /\ SetStatus(t, StatusOfCode[prepare[t]])
  /\ prepare' = [prepare EXCEPT ![t] = "none"]
  /\ UNCHANGED <<pin, granted, upload, cancel, remote, files, queue, asking>>

-----------------------------------------------------------------------------
(* _sendLoop                                                               *)

\* The workers that find a file take one each.
FirstFiles(t) ==
  {first \in SUBSET granted[t] :
     Cardinality(first) = IF Cardinality(granted[t]) < Workers
                          THEN Cardinality(granted[t]) ELSE Workers}

\* 200; sendFile returns at once when the session is gone.
StartLoop(t) ==
  /\ prepare[t] = "200"
  /\ prepare' = [prepare EXCEPT ![t] = "none"]
  /\ IF ~Present(t) THEN UNCHANGED <<upload, status, remote, files, queue>>
     ELSE /\ status' = [status EXCEPT ![t] = "sending"]
          /\ remote' = [remote EXCEPT ![t] = TRUE]
          /\ \E first \in FirstFiles(t) :
               /\ files' = [files EXCEPT ![t] = [f \in File |->
                              IF f \in first THEN "sending"
                              ELSE IF f \in granted[t] THEN "queue" ELSE "skipped"]]
               /\ upload' = [upload EXCEPT ![t] = [f \in File |-> IF f \in first THEN "sent" ELSE @[f]]]
               /\ queue' = [queue EXCEPT ![t] = granted[t] \ first]
  /\ UNCHANGED <<pin, granted, cancel, asking>>

FileEnd(code) == IF code = "200" THEN "finished" ELSE "failed"

\* The worker takes the next file.
SendNext(t, f, g) ==
  /\ files' = [files EXCEPT ![t][f] = FileEnd(upload[t][f]), ![t][g] = "sending"]
  /\ upload' = [upload EXCEPT ![t][g] = "sent"]
  /\ queue' = [queue EXCEPT ![t] = @ \ {g}]
  /\ UNCHANGED status

\* The worker finds the queue empty; the last one reaches _finish.
StopWorker(t, f) ==
  LET now == [files[t] EXCEPT ![f] = FileEnd(upload[t][f])]
  IN /\ files' = [files EXCEPT ![t] = now]
     /\ status' = IF \E g \in File : now[g] = "sending" THEN status
                  ELSE [status EXCEPT ![t] = IF \E g \in File : now[g] = "failed"
                                             THEN "finishedWithErrors" ELSE "finished"]
     /\ UNCHANGED <<upload, queue>>

\* Mutant: the exception of a failed upload leaves the worker's loop.
SendFileGivingUp(t, f) ==
  /\ status[t] = "sending" /\ files[t][f] = "sending" /\ upload[t][f] = "200"
  /\ \/ \E g \in queue[t] : SendNext(t, f, g)
     \/ queue[t] = {} /\ StopWorker(t, f)
  /\ UNCHANGED <<prepare, pin, granted, cancel, remote, asking>>

\* sendFile comes back with the outcome of its upload.
SendFile(t, f) ==
  /\ status[t] = "sending" /\ files[t][f] = "sending" /\ upload[t][f] \in Outcome
  /\ \/ \E g \in queue[t] : SendNext(t, f, g)
     \/ queue[t] = {} /\ StopWorker(t, f)
  /\ UNCHANGED <<prepare, pin, granted, cancel, remote, asking>>

-----------------------------------------------------------------------------
(* The pages                                                               *)

\* The prepare-upload request goes on: its cancelToken is never used.
CancelSession(t) ==
  /\ status[t] \in {"waiting", "sending"}
  /\ cancel' = [cancel EXCEPT ![t] = IF remote[t] THEN "named" ELSE "bare"]
  /\ status' = [status EXCEPT ![t] = "closed"]
  /\ UNCHANGED <<prepare, pin, granted, upload, remote, files, queue, asking>>

\* _cancelRunningRequests has reached the upload isolate.
AbortUpload(t, f) ==
  /\ status[t] = "closed" /\ UnderWay(upload[t][f])
  /\ upload' = [upload EXCEPT ![t][f] = "lost"]
  /\ UNCHANGED <<prepare, pin, granted, cancel, senderVars>>

CloseSendSession(t) ==
  /\ status[t] \in Terminal
  /\ status' = [status EXCEPT ![t] = "closed"]
  /\ UNCHANGED <<httpVars, remote, files, queue, asking>>

-----------------------------------------------------------------------------
PinDialog(t) == EnterPin(t) \/ DismissPin(t)
Answered(t) == AskPin(t) \/ EndWithoutUpload(t) \/ StartLoop(t)
Sender ==
  \E t \in Transfer :
    \/ StartSession(t) \/ Answered(t) \/ PinDialog(t) \/ CancelSession(t) \/ CloseSendSession(t)
    \/ \E f \in File : SendFile(t, f) \/ AbortUpload(t, f)
=============================================================================
