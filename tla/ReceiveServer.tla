---------------------------- MODULE ReceiveServer ----------------------------
(***************************************************************************)
(* The receiving app: the HTTP server's only session and the handlers of   *)
(* prepare-upload, upload and cancel (receive_controller.dart), the PIN    *)
(* check (common.dart), and what the user does on the session's pages.     *)
(*                                                                         *)
(* Dart runs one event at a time: a handler's code between two awaits is   *)
(* one step, and so is a user's tap together with the handler that the     *)
(* completed stream.first resumes, because microtasks run before the next  *)
(* event.  The server keeps running, and every peer speaks v2.             *)
(***************************************************************************)
EXTENDS LanHttp

CONSTANTS
  ReceivePin,   \* whether the receive PIN is set
  QuickSaved,   \* the devices whose files are accepted without asking
  None          \* no session

ASSUME ReceiverAssumption ==
  ReceivePin \in BOOLEAN /\ QuickSaved \subseteq Device

VARIABLES
  session,       \* ServerState.session
  handler,       \* the prepare-upload handler of each request, between its awaits
  saving,        \* the upload handler of each file, likewise
  pin_attempts,  \* ServerState.pinAttempts, by IP
  saved          \* the files written to disk
receiverVars == <<session, handler, saving, pin_attempts, saved>>

SessionStatus == {"waiting", "sending", "finished", "finishedWithErrors", "canceledBySender"}
FileStatus == {"queue", "skipped", "sending", "failed", "finished"}
Session == [id : Transfer, status : SessionStatus, files : [File -> FileStatus],
            responseHandler : BOOLEAN]

ReceiverTypeOK ==
  /\ session \in Session \cup {None}
  /\ handler \in [Transfer -> {"off", "reading", "asking", "granting"}]
  /\ saving \in [Transfer -> [File -> {"off", "stream", "history", "closing"}]]
  /\ pin_attempts \in [Device -> 0..3]
  /\ saved \subseteq Transfer \X File

ReceiverInit ==
  /\ session = None
  /\ handler = [t \in Transfer |-> "off"]
  /\ saving = [t \in Transfer |-> [f \in File |-> "off"]]
  /\ pin_attempts = [d \in Device |-> 0]
  /\ saved = {}

-----------------------------------------------------------------------------
(* POST /prepare-upload                                                    *)

\* checkPin: too many attempts, or a pin that is missing or wrong.
AttemptsOf(t) == pin_attempts[DeviceOf[t]]
PinAnswer(t) ==
  IF ~ReceivePin THEN "ok"
  ELSE IF AttemptsOf(t) >= 3 THEN "429"
  ELSE IF pin[t] = "right" THEN "ok"
  ELSE IF pin[t] = "wrong" /\ AttemptsOf(t) = 2 THEN "429" ELSE "401"
\* Mutant: a wrong pin counts even when the device is out of attempts.
CountAttemptAlways(t) ==
  pin_attempts' = IF ReceivePin /\ pin[t] = "wrong"
                  THEN [pin_attempts EXCEPT ![DeviceOf[t]] = @ + 1] ELSE pin_attempts
CountAttempt(t) ==
  pin_attempts' = IF ReceivePin /\ AttemptsOf(t) < 3 /\ pin[t] = "wrong"
                  THEN [pin_attempts EXCEPT ![DeviceOf[t]] = @ + 1] ELSE pin_attempts

RefuseBusy(t) ==
  /\ prepare[t] = "sent" /\ session # None
  /\ prepare' = [prepare EXCEPT ![t] = "409"]
  /\ UNCHANGED <<pin, granted, upload, cancel, receiverVars>>

CheckPin(t) ==
  /\ prepare[t] = "sent" /\ session = None
  /\ CountAttempt(t)
  /\ IF PinAnswer(t) = "ok"
     THEN /\ prepare' = [prepare EXCEPT ![t] = "open"]
          /\ handler' = [handler EXCEPT ![t] = "reading"]
     ELSE prepare' = [prepare EXCEPT ![t] = PinAnswer(t)] /\ UNCHANGED handler
  /\ UNCHANGED <<pin, granted, upload, cancel, session, saving, saved>>

\* The selected files get tokens and the others are skipped.
Accepted(t, selection) ==
  [id |-> t, status |-> "sending",
   files |-> [f \in File |-> IF f \in selection THEN "queue" ELSE "skipped"],
   responseHandler |-> FALSE]
Grant(t, selection) ==
  /\ session' = Accepted(t, selection)
  /\ granted' = [granted EXCEPT ![t] = selection]
  /\ handler' = [handler EXCEPT ![t] = "granting"]

\* Settings quickSave, and quickSaveFromFavorites for a favorite.
QuickSave(t) == DeviceOf[t] \in QuickSaved /\ t \notin Message

\* The body and the directories have been read: the session opens, whatever
\* happened to the server's session meanwhile.
OpenSession(t) ==
  /\ handler[t] = "reading"
  /\ IF QuickSave(t)
     THEN Grant(t, File)
     ELSE /\ session' = [id |-> t, status |-> "waiting",
                         files |-> [f \in File |-> "queue"], responseHandler |-> TRUE]
          /\ handler' = [handler EXCEPT ![t] = "asking"]
          /\ UNCHANGED granted
  /\ UNCHANGED <<prepare, pin, upload, cancel, saving, pin_attempts, saved>>

\* A page answers through the responseHandler of the current session; it may have
\* been drawn before the last change of the session's status.
Asked(t) == session # None /\ session.id = t /\ session.responseHandler

AcceptFileRequest(t) ==
  /\ Asked(t) /\ t \notin Message
  /\ \E selection \in (SUBSET File) \ {{}} : Grant(t, selection)
  /\ UNCHANGED <<prepare, pin, upload, cancel, saving, pin_attempts, saved>>

\* acceptFileRequest({}) of a message, or declineFileRequest: the session closes.
CloseWith(t, code) ==
  /\ Asked(t)
  /\ session' = None
  /\ handler' = [handler EXCEPT ![t] = "off"]
  /\ AnswerPrepare(t, code)
  /\ UNCHANGED <<pin, granted, upload, cancel, saving, pin_attempts, saved>>
ReadMessage(t) == t \in Message /\ CloseWith(t, "204")
DeclineFileRequest(t) == CloseWith(t, "403")

\* The storage permission has been asked for.
AnswerGranted(t) ==
  /\ handler[t] = "granting"
  /\ AnswerPrepare(t, "200")
  /\ handler' = [handler EXCEPT ![t] = "off"]
  /\ UNCHANGED <<pin, granted, upload, cancel, session, saving, pin_attempts, saved>>

-----------------------------------------------------------------------------
(* POST /upload                                                            *)

\* The session takes files.
Open(s) == s # None /\ s.status \in {"sending", "finishedWithErrors"}
Receiving == Open(session)

UploadRefusal(t, f) ==
  IF session = None THEN "409"
  ELSE IF DeviceOf[session.id] # DeviceOf[t] THEN "403"
  ELSE IF ~Receiving THEN "409"
  ELSE IF session.id # t \/ session.files[f] = "skipped" THEN "403" ELSE "ok"

RefuseUpload(t, f) ==
  /\ upload[t][f] = "sent" /\ UploadRefusal(t, f) # "ok"
  /\ upload' = [upload EXCEPT ![t][f] = UploadRefusal(t, f)]
  /\ UNCHANGED <<prepare, pin, granted, cancel, receiverVars>>

BeginUpload(t, f) ==
  /\ upload[t][f] = "sent" /\ UploadRefusal(t, f) = "ok"
  /\ upload' = [upload EXCEPT ![t][f] = "open"]
  /\ session' = [session EXCEPT !.status = "sending", !.files[f] = "sending"]
  /\ saving' = [saving EXCEPT ![t][f] = "stream"]
  /\ UNCHANGED <<prepare, pin, granted, cancel, handler, pin_attempts, saved>>

\* The file is no member of the session that is there now: Map.update throws, in
\* the catch block as well, and the request is never answered.
Stray(t) == session # None /\ session.id # t
AbandonUpload(t, f) == /\ saving' = [saving EXCEPT ![t][f] = "off"]
                       /\ UNCHANGED <<session, upload>>

\* Mutant: a skipped file does not count as ended.
AllEndedButSkipped(s) == \A f \in File : s.files[f] \in {"failed", "finished"}
\* isFinishedOrError
AllEnded(s) == \A f \in File : s.files[f] \in {"skipped", "failed", "finished"}
Saved(t, f, s) == s # None /\ s.id = t /\ s.files[f] = "finished"
EndStatus(s) == IF \E f \in File : s.files[f] = "failed" THEN "finishedWithErrors" ELSE "finished"

\* Mutant: the answer tells that the request ended, not how.
ConcludeUploadAlwaysOk(t, f, s) ==
  LET done == Open(s) /\ AllEnded(s)
  IN /\ session' = IF done THEN [s EXCEPT !.status = EndStatus(s)] ELSE s
     /\ saving' = [saving EXCEPT ![t][f] = IF done /\ QuickSave(s.id) THEN "closing" ELSE "off"]
     /\ AnswerUpload(t, f, "200")

\* Mutant: the session ends with the file that ends first.
ConcludeUploadAtFirst(t, f, s) ==
  /\ session' = IF Open(s) THEN [s EXCEPT !.status = EndStatus(s)] ELSE s
  /\ saving' = [saving EXCEPT ![t][f] = IF Open(s) /\ QuickSave(s.id) THEN "closing" ELSE "off"]
  /\ AnswerUpload(t, f, IF Saved(t, f, s) THEN "200" ELSE "500")

\* The end of the handler, with s the session as it finds it.
ConcludeUpload(t, f, s) ==
  LET done == Open(s) /\ AllEnded(s)
  IN /\ session' = IF done THEN [s EXCEPT !.status = EndStatus(s)] ELSE s
     /\ saving' = [saving EXCEPT ![t][f] = IF done /\ QuickSave(s.id) THEN "closing" ELSE "off"]
     /\ AnswerUpload(t, f, IF Saved(t, f, s) THEN "200" ELSE "500")

\* saveFile has returned.
SaveFile(t, f) ==
  /\ saving[t][f] = "stream"
  /\ saved' = saved \cup {<<t, f>>}
  /\ \/ /\ ~Receiving
        /\ saving' = [saving EXCEPT ![t][f] = "off"]
        /\ AnswerUpload(t, f, "500")
        /\ UNCHANGED session
     \/ Receiving /\ Stray(t) /\ AbandonUpload(t, f)
     \/ /\ Receiving /\ ~Stray(t)
        /\ session' = [session EXCEPT !.files[f] = "finished"]
        /\ saving' = [saving EXCEPT ![t][f] = "history"]
        /\ UNCHANGED upload
  /\ UNCHANGED <<prepare, pin, granted, cancel, handler, pin_attempts>>

\* The history entry has been written.
TrackHistory(t, f) ==
  /\ saving[t][f] = "history"
  /\ ConcludeUpload(t, f, session)
  /\ UNCHANGED <<prepare, pin, granted, cancel, handler, pin_attempts, saved>>

\* saveFile has thrown: the stream broke, or the file could not be written.  Or the
\* history could not: the file is saved, and told to have failed.
FailToSave(t, f) ==
  /\ \/ saving[t][f] = "stream" /\ upload[t][f] = "lost"
     \/ saving[t][f] \in {"stream", "history"} /\ "disk" \in Breaks
  /\ IF Stray(t) THEN AbandonUpload(t, f)
     ELSE ConcludeUpload(t, f, IF session = None THEN None ELSE [session EXCEPT !.files[f] = "failed"])
  /\ UNCHANGED <<prepare, pin, granted, cancel, handler, pin_attempts, saved>>

\* After the answer that ended a quick-save session: the server's session closes.
QuickClose(t, f) ==
  /\ saving[t][f] = "closing"
  /\ session' = None
  /\ saving' = [saving EXCEPT ![t][f] = "off"]
  /\ UNCHANGED <<httpVars, handler, pin_attempts, saved>>

-----------------------------------------------------------------------------
(* POST /cancel, and the pages.                                            *)

\* While the session waits, no session id is required.
MayCancel(t) ==
  /\ session # None /\ DeviceOf[session.id] = DeviceOf[t]
  /\ \/ session.status = "waiting"
     \/ session.status = "sending" /\ cancel[t] = "named" /\ session.id = t

CancelHandler(t) ==
  /\ cancel[t] \in {"bare", "named"}
  /\ session' = IF MayCancel(t) THEN [session EXCEPT !.status = "canceledBySender"] ELSE session
  /\ cancel' = [cancel EXCEPT ![t] = "handled"]
  /\ UNCHANGED <<prepare, pin, granted, upload, handler, saving, pin_attempts, saved>>

\* The close button of a canceled request, and every way out of the progress page.
CloseSession ==
  /\ session # None /\ session.status # "waiting"
  /\ session' = None
  /\ UNCHANGED <<httpVars, handler, saving, pin_attempts, saved>>

-----------------------------------------------------------------------------
PrepareUploadHandler(t) == RefuseBusy(t) \/ CheckPin(t) \/ OpenSession(t) \/ AnswerGranted(t)
UploadHandler(t, f) ==
  \/ RefuseUpload(t, f) \/ BeginUpload(t, f) \/ SaveFile(t, f)
  \/ TrackHistory(t, f) \/ FailToSave(t, f) \/ QuickClose(t, f)
Decision(t) == AcceptFileRequest(t) \/ ReadMessage(t) \/ DeclineFileRequest(t)
Receiver ==
  \/ \E t \in Transfer : PrepareUploadHandler(t) \/ Decision(t) \/ CancelHandler(t)
  \/ \E t \in Transfer, f \in File : UploadHandler(t, f)
  \/ CloseSession
=============================================================================
