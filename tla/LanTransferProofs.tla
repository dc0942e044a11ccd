-------------------------- MODULE LanTransferProofs --------------------------
(***************************************************************************)
(* What LAN transfers guarantee for every set of transfers, files and      *)
(* devices and every number of upload workers, proved with TLAPS.          *)
(***************************************************************************)
EXTENDS LanTransfer, TLAPS

-----------------------------------------------------------------------------
(* Type correctness.  Sender and receiver steps are disjoint in what they   *)
(* change, apart from the requests.                                         *)

LEMMA TypeInit == Init => TypeOK
  BY LanAssumption DEF Init, TypeOK, HttpInit, HttpTypeOK, SenderInit, SenderTypeOK,
     ReceiverInit, ReceiverTypeOK, RequestState

\* The handlers of prepare-upload and the user's answers.
LEMMA PrepareType ==
  ASSUME TypeOK, NEW t \in Transfer, PrepareUploadHandler(t) \/ Decision(t), UNCHANGED senderVars
  PROVE  TypeOK'
<1> USE DEF HttpTypeOK, ReceiverTypeOK, RequestState, Outcome, Code
<1>0. TypeOK => HttpTypeOK /\ SenderTypeOK /\ ReceiverTypeOK BY DEF TypeOK
<1>1. SenderTypeOK' BY <1>0 DEF SenderTypeOK, senderVars
<1>2. CASE RefuseBusy(t)
  <2>1. HttpTypeOK' BY <1>0, <1>2 DEF RefuseBusy
  <2>2. ReceiverTypeOK' BY <1>0, <1>2 DEF RefuseBusy, receiverVars
  <2> QED BY <1>1, <2>1, <2>2 DEF TypeOK
<1>3. CASE CheckPin(t)
  <2>1. PinAnswer(t) \in {"ok", "429", "401"} BY DEF PinAnswer
  <2>2. HttpTypeOK' BY <1>0, <1>3, <2>1 DEF CheckPin
  <2>3. pin_attempts' \in [Device -> 0..3]
    <3>1. DeviceOf[t] \in Device /\ pin_attempts \in [Device -> 0..3] BY <1>0, LanAssumption
    <3>2. \/ UNCHANGED pin_attempts
          \/ /\ pin_attempts[DeviceOf[t]] < 3
             /\ pin_attempts' = [pin_attempts EXCEPT ![DeviceOf[t]] = @ + 1]
      BY <1>3 DEF CheckPin, CountAttempt, AttemptsOf
    <3> QED BY <3>1, <3>2
  <2>4. ReceiverTypeOK' BY <1>0, <1>3, <2>3 DEF CheckPin
  <2> QED BY <1>1, <2>2, <2>4 DEF TypeOK
<1>4. ASSUME NEW S \in SUBSET File PROVE Accepted(t, S) \in Session
  BY DEF Accepted, Session, SessionStatus, FileStatus
<1>5. CASE OpenSession(t)
  <2>1. HttpTypeOK' BY <1>0, <1>5 DEF OpenSession, Grant
  <2>2. session' \in Session
    <3>1. CASE QuickSave(t) BY <1>5, <1>4, <3>1 DEF OpenSession, Grant
    <3>2. CASE ~QuickSave(t)
      <4>1. session' = [id |-> t, status |-> "waiting",
                        files |-> [f \in File |-> "queue"], responseHandler |-> TRUE]
        BY <1>5, <3>2 DEF OpenSession
      <4>2. [f \in File |-> "queue"] \in [File -> FileStatus] BY DEF FileStatus
      <4> QED BY <4>1, <4>2 DEF Session, SessionStatus
    <3> QED BY <3>1, <3>2
  <2>3. ReceiverTypeOK' BY <1>0, <1>5, <2>2 DEF OpenSession, Grant
  <2> QED BY <1>1, <2>1, <2>3 DEF TypeOK
<1>6. CASE AnswerGranted(t)
  <2>1. HttpTypeOK' BY <1>0, <1>6 DEF AnswerGranted, AnswerPrepare
  <2>2. ReceiverTypeOK' BY <1>0, <1>6 DEF AnswerGranted
  <2> QED BY <1>1, <2>1, <2>2 DEF TypeOK
<1>7. CASE AcceptFileRequest(t)
  <2>1. PICK S \in (SUBSET File) \ {{}} : Grant(t, S) BY <1>7 DEF AcceptFileRequest
  <2>2. HttpTypeOK' BY <1>0, <1>7, <2>1 DEF AcceptFileRequest, Grant
  <2>3. ReceiverTypeOK' BY <1>0, <1>7, <1>4, <2>1 DEF AcceptFileRequest, Grant
  <2> QED BY <1>1, <2>2, <2>3 DEF TypeOK
<1>8. CASE ReadMessage(t) \/ DeclineFileRequest(t)
  <2>1. PICK c \in {"204", "403"} : CloseWith(t, c) BY <1>8 DEF ReadMessage, DeclineFileRequest
  <2>2. HttpTypeOK' BY <1>0, <2>1 DEF CloseWith, AnswerPrepare
  <2>3. ReceiverTypeOK' BY <1>0, <2>1 DEF CloseWith
  <2> QED BY <1>1, <2>2, <2>3 DEF TypeOK
<1> QED BY <1>2, <1>3, <1>5, <1>6, <1>7, <1>8 DEF PrepareUploadHandler, Decision

\* A session stays well formed when the status of one of its files changes.
LEMMA SessionUpdate ==
  ASSUME NEW s \in Session, NEW f \in File, NEW x \in FileStatus, NEW y \in SessionStatus
  PROVE  /\ [s EXCEPT !.files[f] = x] \in Session
         /\ [s EXCEPT !.status = y] \in Session
         /\ [s EXCEPT !.status = y, !.files[f] = x] \in Session
  BY DEF Session

LEMMA ConcludeType ==
  ASSUME TypeOK, NEW t \in Transfer, NEW f \in File, NEW s \in Session \cup {None},
         ConcludeUpload(t, f, s)
  PROVE  /\ session' \in Session \cup {None}
         /\ saving' \in [Transfer -> [File -> {"off", "stream", "history", "closing"}]]
         /\ upload' \in [Transfer -> [File -> RequestState]]
<1>1. EndStatus(s) \in SessionStatus BY DEF EndStatus, SessionStatus
<1>2. session' \in Session \cup {None}
  <2>1. CASE s \in Session
    <3>1. [s EXCEPT !.status = EndStatus(s)] \in Session BY <1>1, <2>1 DEF Session
    <3> QED BY <3>1, <2>1 DEF ConcludeUpload
  <2>2. CASE s = None BY <2>2 DEF ConcludeUpload, Open
  <2> QED BY <2>1, <2>2
<1>3. saving' \in [Transfer -> [File -> {"off", "stream", "history", "closing"}]]
  BY DEF ConcludeUpload, TypeOK, ReceiverTypeOK
<1>4. upload' \in [Transfer -> [File -> RequestState]]
  BY DEF ConcludeUpload, AnswerUpload, TypeOK, HttpTypeOK, RequestState, Outcome, Code
<1> QED BY <1>2, <1>3, <1>4

\* The upload handler.
LEMMA UploadType ==
  ASSUME TypeOK, NEW t \in Transfer, NEW f \in File, UploadHandler(t, f), UNCHANGED senderVars
  PROVE  TypeOK'
<1> USE DEF HttpTypeOK, ReceiverTypeOK
<1>0. TypeOK => HttpTypeOK /\ SenderTypeOK /\ ReceiverTypeOK BY DEF TypeOK
<1>1. SenderTypeOK' BY <1>0 DEF SenderTypeOK, senderVars
<1>2. CASE RefuseUpload(t, f)
  <2>1. UploadRefusal(t, f) \in {"409", "403"} BY <1>2 DEF RefuseUpload, UploadRefusal
  <2>2. UploadRefusal(t, f) \in RequestState BY <2>1 DEF RequestState, Outcome, Code
  <2>3. HttpTypeOK' BY <1>0, <1>2, <2>2 DEF RefuseUpload
  <2>4. ReceiverTypeOK' BY <1>0, <1>2 DEF RefuseUpload, receiverVars
  <2> QED BY <1>1, <2>3, <2>4 DEF TypeOK
<1>3. CASE BeginUpload(t, f)
  <2>1. session # None BY <1>3 DEF BeginUpload, UploadRefusal
  <2>2. session' \in Session
    BY <1>0, <1>3, <2>1, SessionUpdate DEF BeginUpload, FileStatus, SessionStatus
  <2>3. HttpTypeOK' BY <1>0, <1>3 DEF BeginUpload, RequestState
  <2>4. ReceiverTypeOK' BY <1>0, <1>3, <2>2 DEF BeginUpload
  <2> QED BY <1>1, <2>3, <2>4 DEF TypeOK
<1>4. CASE SaveFile(t, f)
  <2>1. /\ UNCHANGED <<prepare, pin, granted, cancel, handler, pin_attempts>>
        /\ saved' \subseteq Transfer \X File
    BY <1>0, <1>4 DEF SaveFile
  <2>2. CASE Receiving /\ Stray(t) /\ AbandonUpload(t, f)
    BY <1>0, <1>1, <2>1, <2>2 DEF AbandonUpload, TypeOK
  <2>3. CASE /\ ~Receiving
             /\ saving' = [saving EXCEPT ![t][f] = "off"]
             /\ AnswerUpload(t, f, "500")
             /\ UNCHANGED session
    <3>1. upload' \in [Transfer -> [File -> RequestState]]
      BY <1>0, <2>3 DEF AnswerUpload, RequestState, Outcome, Code
    <3> QED BY <1>0, <1>1, <2>1, <2>3, <3>1 DEF TypeOK
  <2>4. CASE /\ Receiving /\ ~Stray(t)
             /\ session' = [session EXCEPT !.files[f] = "finished"]
             /\ saving' = [saving EXCEPT ![t][f] = "history"]
             /\ UNCHANGED upload
    <3>1. session # None BY <2>4 DEF Receiving, Open
    <3>2. session' \in Session
      BY <1>0, <2>4, <3>1, SessionUpdate DEF FileStatus, SessionStatus
    <3> QED BY <1>0, <1>1, <2>1, <2>4, <3>2 DEF TypeOK
  <2> QED BY <1>4, <2>2, <2>3, <2>4 DEF SaveFile
<1>5. CASE TrackHistory(t, f)
  <2>1. ConcludeUpload(t, f, session) /\ session \in Session \cup {None}
    BY <1>0, <1>5 DEF TrackHistory
  <2> QED BY <1>0, <1>1, <1>5, <2>1, ConcludeType DEF TrackHistory, TypeOK
<1>6. CASE FailToSave(t, f)
  <2>1. UNCHANGED <<prepare, pin, granted, cancel, handler, pin_attempts, saved>>
    BY <1>6 DEF FailToSave
  <2>2. CASE AbandonUpload(t, f)
    BY <1>0, <1>1, <2>1, <2>2 DEF AbandonUpload, TypeOK
  <2>3. CASE ~AbandonUpload(t, f)
    <3>1. PICK s : /\ s = IF session = None THEN None ELSE [session EXCEPT !.files[f] = "failed"]
                   /\ ConcludeUpload(t, f, s)
      BY <1>6, <2>3 DEF FailToSave
    <3>2. s \in Session \cup {None}
      BY <1>0, <3>1, SessionUpdate DEF FileStatus, SessionStatus
    <3> QED BY <1>0, <1>1, <2>1, <3>1, <3>2, ConcludeType DEF TypeOK
  <2> QED BY <2>2, <2>3
<1>7. CASE QuickClose(t, f)
  <2>1. HttpTypeOK' BY <1>0, <1>7 DEF QuickClose, httpVars
  <2>2. ReceiverTypeOK' BY <1>0, <1>7 DEF QuickClose
  <2> QED BY <1>1, <2>1, <2>2 DEF TypeOK
<1> QED BY <1>2, <1>3, <1>4, <1>5, <1>6, <1>7 DEF UploadHandler

\* Cancels, and the end of a session.
LEMMA ClosingType ==
  ASSUME TypeOK, UNCHANGED senderVars,
         CloseSession \/ \E t \in Transfer : CancelHandler(t)
  PROVE  TypeOK'
<1> USE DEF HttpTypeOK, ReceiverTypeOK
<1>0. TypeOK => HttpTypeOK /\ SenderTypeOK /\ ReceiverTypeOK BY DEF TypeOK
<1>1. SenderTypeOK' BY <1>0 DEF SenderTypeOK, senderVars
<1>2. CASE CloseSession
  BY <1>0, <1>1, <1>2 DEF CloseSession, httpVars, TypeOK
<1>3. ASSUME NEW t \in Transfer, CancelHandler(t) PROVE TypeOK'
  <2>1. session' \in Session \cup {None}
    <3>1. CASE MayCancel(t)
      <4>1. session \in Session BY <1>0, <3>1 DEF MayCancel
      <4>2. [session EXCEPT !.status = "canceledBySender"] \in Session
        BY <4>1 DEF Session, SessionStatus
      <4> QED BY <1>3, <3>1, <4>2 DEF CancelHandler
    <3>2. CASE ~MayCancel(t) BY <1>0, <1>3, <3>2 DEF CancelHandler
    <3> QED BY <3>1, <3>2
  <2>2. HttpTypeOK' BY <1>0, <1>3 DEF CancelHandler
  <2>3. ReceiverTypeOK' BY <1>0, <1>3, <2>1 DEF CancelHandler
  <2> QED BY <1>1, <2>2, <2>3 DEF TypeOK
<1> QED BY <1>2, <1>3

\* The sender up to the answer of its prepare-upload request.
LEMMA StartType ==
  ASSUME TypeOK, NEW t \in Transfer, UNCHANGED receiverVars,
         StartSession(t) \/ Answered(t) \/ PinDialog(t)
  PROVE  TypeOK'
<1> USE DEF HttpTypeOK, SenderTypeOK, RequestState, Outcome, Code, Terminal
<1>0. TypeOK => HttpTypeOK /\ SenderTypeOK /\ ReceiverTypeOK BY DEF TypeOK
<1>1. ReceiverTypeOK' BY <1>0 DEF ReceiverTypeOK, receiverVars
<1>2. CASE StartSession(t) BY <1>0, <1>1, <1>2 DEF StartSession, TypeOK
<1>3. CASE AskPin(t) BY <1>0, <1>1, <1>3 DEF AskPin, TypeOK
<1>4. CASE EndWithoutUpload(t)
  <2>1. StatusOfCode[prepare[t]] \in Terminal BY <1>4 DEF EndWithoutUpload, StatusOfCode
  <2>2. status' \in [Transfer -> {"none", "waiting", "sending", "closed"} \cup Terminal]
    BY <1>0, <1>4, <2>1 DEF EndWithoutUpload, SetStatus
  <2> QED BY <1>0, <1>1, <1>4, <2>2 DEF EndWithoutUpload, TypeOK
<1>5. CASE StartLoop(t)
  <2>1. CASE ~Present(t) BY <1>0, <1>1, <1>5, <2>1 DEF StartLoop, TypeOK
  <2>2. CASE Present(t)
    <3>1. PICK first \in FirstFiles(t) :
            /\ files' = [files EXCEPT ![t] = [f \in File |->
                           IF f \in first THEN "sending"
                           ELSE IF f \in granted[t] THEN "queue" ELSE "skipped"]]
            /\ upload' = [upload EXCEPT ![t] = [f \in File |-> IF f \in first THEN "sent" ELSE @[f]]]
            /\ queue' = [queue EXCEPT ![t] = granted[t] \ first]
      BY <1>5, <2>2 DEF StartLoop
    <3>2. files' \in [Transfer -> [File -> {"queue", "skipped", "sending", "failed", "finished"}]]
      BY <1>0, <3>1
    <3>3. upload' \in [Transfer -> [File -> RequestState]] BY <1>0, <3>1
    <3>4. queue' \in [Transfer -> SUBSET File] BY <1>0, <3>1
    <3>5. /\ prepare' \in [Transfer -> RequestState] /\ remote' \in [Transfer -> BOOLEAN]
          /\ status' \in [Transfer -> {"none", "waiting", "sending", "closed"} \cup Terminal]
          /\ UNCHANGED <<pin, granted, cancel, asking>>
      BY <1>0, <1>5, <2>2 DEF StartLoop
    <3> QED BY <1>0, <1>1, <3>2, <3>3, <3>4, <3>5 DEF TypeOK
  <2> QED BY <2>1, <2>2
<1>6. CASE EnterPin(t) BY <1>0, <1>1, <1>6 DEF EnterPin, TypeOK
<1>7. CASE DismissPin(t)
  BY <1>0, <1>1, <1>7 DEF DismissPin, SetStatus, httpVars, TypeOK
<1> QED BY <1>2, <1>3, <1>4, <1>5, <1>6, <1>7 DEF Answered, PinDialog

\* The loop, and the ways out of the pages.
LEMMA LoopType ==
  ASSUME TypeOK, NEW t \in Transfer, UNCHANGED receiverVars,
         \/ CancelSession(t) \/ CloseSendSession(t)
         \/ \E f \in File : SendFile(t, f) \/ AbortUpload(t, f)
  PROVE  TypeOK'
<1> USE DEF HttpTypeOK, SenderTypeOK, RequestState, Outcome, Code, Terminal
<1>0. TypeOK => HttpTypeOK /\ SenderTypeOK /\ ReceiverTypeOK BY DEF TypeOK
<1>1. ReceiverTypeOK' BY <1>0 DEF ReceiverTypeOK, receiverVars
<1>2. CASE CancelSession(t) BY <1>0, <1>1, <1>2 DEF CancelSession, TypeOK
<1>3. CASE CloseSendSession(t) BY <1>0, <1>1, <1>3 DEF CloseSendSession, httpVars, TypeOK
<1>4. ASSUME NEW f \in File, AbortUpload(t, f) PROVE TypeOK'
  BY <1>0, <1>1, <1>4 DEF AbortUpload, senderVars, TypeOK
<1>5. ASSUME NEW f \in File, SendFile(t, f) PROVE TypeOK'
  <2>0. FileEnd(upload[t][f]) \in {"finished", "failed"} BY DEF FileEnd
  <2>1. UNCHANGED <<prepare, pin, granted, cancel, remote, asking>> BY <1>5 DEF SendFile
  <2>2. ASSUME NEW g \in queue[t], SendNext(t, f, g) PROVE TypeOK'
    <3>1. g \in File BY <1>0
    <3>2. files' \in [Transfer -> [File -> {"queue", "skipped", "sending", "failed", "finished"}]]
      BY <1>0, <2>0, <2>2, <3>1 DEF SendNext
    <3>3. upload' \in [Transfer -> [File -> RequestState]] BY <1>0, <2>2, <3>1 DEF SendNext
    <3>4. queue' \in [Transfer -> SUBSET File] BY <1>0, <2>2 DEF SendNext
    <3>5. UNCHANGED status BY <2>2 DEF SendNext
    <3> QED BY <1>0, <1>1, <2>1, <3>2, <3>3, <3>4, <3>5 DEF TypeOK
  <2>3. CASE StopWorker(t, f)
    <3>1. files' \in [Transfer -> [File -> {"queue", "skipped", "sending", "failed", "finished"}]]
      BY <1>0, <2>0, <2>3 DEF StopWorker
    <3>2. status' \in [Transfer -> {"none", "waiting", "sending", "closed"} \cup Terminal]
      BY <1>0, <2>3 DEF StopWorker
    <3>3. UNCHANGED <<upload, queue>> BY <2>3 DEF StopWorker
    <3> QED BY <1>0, <1>1, <2>1, <3>1, <3>2, <3>3 DEF TypeOK
  <2> QED BY <1>5, <2>2, <2>3 DEF SendFile
<1> QED BY <1>2, <1>3, <1>4, <1>5

LEMMA BreakType ==
  ASSUME TypeOK, ConnectionBreaks, UNCHANGED <<senderVars, receiverVars>>
  PROVE  TypeOK'
<1> USE DEF HttpTypeOK, RequestState, Outcome
<1>0. TypeOK => HttpTypeOK /\ SenderTypeOK /\ ReceiverTypeOK BY DEF TypeOK
<1>1. SenderTypeOK' BY <1>0 DEF senderVars, SenderTypeOK
<1>2. ReceiverTypeOK' BY <1>0 DEF receiverVars, ReceiverTypeOK
<1>3. ASSUME NEW t \in Transfer, BreakPrepare(t) PROVE HttpTypeOK'
  BY <1>0, <1>3 DEF BreakPrepare
<1>4. ASSUME NEW t \in Transfer, NEW f \in File, BreakUpload(t, f) PROVE HttpTypeOK'
  BY <1>0, <1>4 DEF BreakUpload
<1> QED BY <1>1, <1>2, <1>3, <1>4 DEF ConnectionBreaks, TypeOK

LEMMA TypeStep == TypeOK /\ [Next]_vars => TypeOK'
<1> SUFFICES ASSUME TypeOK, [Next]_vars PROVE TypeOK'
  OBVIOUS
<1>1. CASE Sender /\ UNCHANGED receiverVars BY <1>1, StartType, LoopType DEF Sender
<1>2. CASE Receiver /\ UNCHANGED senderVars
  BY <1>2, PrepareType, UploadType, ClosingType DEF Receiver
<1>3. CASE ConnectionBreaks /\ UNCHANGED <<senderVars, receiverVars>> BY <1>3, BreakType
<1>4. CASE UNCHANGED vars
  BY <1>4 DEF vars, httpVars, senderVars, receiverVars, TypeOK, HttpTypeOK, SenderTypeOK, ReceiverTypeOK
<1> QED BY <1>1, <1>2, <1>3, <1>4 DEF Next

\* Every reachable state is well typed; in particular checkPin (common.dart:8) never
\* counts more than three wrong pins of a device, however many requests it makes at once.
THEOREM TypeCorrect == Spec => []TypeOK
  BY TypeInit, TypeStep, PTL DEF Spec

-----------------------------------------------------------------------------
(* The stages of a transfer.                                               *)

\* startSession of t is past the answer to its prepare-upload request.
Past(t) == status[t] # "none" /\ prepare[t] = "none" /\ ~asking[t] /\ handler[t] = "off"

Stage(t) ==
  /\ handler[t] # "off" =>
       prepare[t] \in {"open", "lost", "none"} /\ ~asking[t] /\ status[t] # "none"
  /\ Asked(t) => handler[t] = "asking"
  /\ asking[t] => prepare[t] = "none" /\ status[t] # "none"
  /\ prepare[t] # "none" => status[t] # "none"
  /\ prepare[t] = "204" => t \in Message
Stages == \A t \in Transfer : Stage(t)
UploadsAfter == \A t \in Transfer, f \in File :
  upload[t][f] # "none" \/ saving[t][f] # "off" => Past(t)

\* Whatever is reported as saved is saved.
Reports == \A t \in Transfer, f \in File :
  upload[t][f] = "200" \/ files[t][f] = "finished" => <<t, f>> \in saved
SessionReports ==
  session # None => \A f \in File :
    /\ session.files[f] = "finished" => <<session.id, f>> \in saved
    /\ session.status = "finished" => session.files[f] = "skipped" \/ <<session.id, f>> \in saved
\* No handler works on a file that its session skips.
NotSkipped ==
  session # None => \A f \in File :
    saving[session.id][f] # "off" => session.files[f] # "skipped"

\* Every accepted file has its place in the loop.
Looping == \A t \in Transfer \ Message :
  /\ status[t] \in {"sending", "finished"} => Past(t)
  /\ status[t] = "sending" => \A f \in granted[t] :
       f \in queue[t] \/ files[t][f] \in {"sending", "failed", "finished"}

LEMMA StagesInit == Init => Stages
  BY DEF Init, HttpInit, SenderInit, ReceiverInit, Stages, Stage, Asked

\* An upload changes nothing but statuses in the session, and closes it at most.
LEMMA UploadSession ==
  ASSUME TypeOK, NEW t \in Transfer, NEW f \in File, UploadHandler(t, f)
  PROVE  \/ session' = None
         \/ /\ session # None /\ session'.id = session.id
            /\ session'.responseHandler = session.responseHandler
<1>0. session \in Session \cup {None} BY DEF TypeOK, ReceiverTypeOK
<1>1. ASSUME NEW s \in Session \cup {None}, ConcludeUpload(t, f, s)
      PROVE  \/ session' = None
             \/ s # None /\ session'.id = s.id /\ session'.responseHandler = s.responseHandler
  <2>1. session' = s \/ (s # None /\ session' = [s EXCEPT !.status = EndStatus(s)])
    BY <1>1 DEF ConcludeUpload, Open
  <2> QED BY <1>1, <2>1 DEF Session
<1>2. CASE RefuseUpload(t, f) BY <1>0, <1>2 DEF RefuseUpload, receiverVars
<1>3. CASE BeginUpload(t, f)
  <2>1. session # None BY <1>3 DEF BeginUpload, UploadRefusal
  <2>2. session' = [session EXCEPT !.status = "sending", !.files[f] = "sending"]
    BY <1>3 DEF BeginUpload
  <2> QED BY <1>0, <2>1, <2>2 DEF Session
<1>4. CASE SaveFile(t, f)
  <2>1. \/ UNCHANGED session
        \/ session # None /\ session' = [session EXCEPT !.files[f] = "finished"]
    BY <1>4 DEF SaveFile, AbandonUpload, Receiving, Open
  <2> QED BY <1>0, <2>1 DEF Session
<1>5. CASE TrackHistory(t, f) BY <1>0, <1>1, <1>5 DEF TrackHistory
<1>6. CASE FailToSave(t, f)
  <2>1. CASE AbandonUpload(t, f) BY <1>0, <2>1 DEF AbandonUpload
  <2>2. CASE ~AbandonUpload(t, f)
    <3>1. PICK s : /\ s = IF session = None THEN None ELSE [session EXCEPT !.files[f] = "failed"]
                   /\ ConcludeUpload(t, f, s)
      BY <1>6, <2>2 DEF FailToSave
    <3>2. s \in Session \cup {None}
      BY <1>0, <3>1, SessionUpdate DEF FileStatus, SessionStatus
    <3>3. CASE session = None BY <1>1, <3>1, <3>2, <3>3
    <3>4. CASE session # None
      <4>1. s.id = session.id /\ s.responseHandler = session.responseHandler
        BY <1>0, <3>1, <3>4 DEF Session
      <4> QED BY <1>1, <3>1, <3>2, <3>4, <4>1
    <3> QED BY <3>3, <3>4
  <2> QED BY <2>1, <2>2
<1>7. CASE QuickClose(t, f) BY <1>7 DEF QuickClose
<1> QED BY <1>2, <1>3, <1>4, <1>5, <1>6, <1>7 DEF UploadHandler

\* No step of a sender leads back.
LEMMA SenderStages ==
  ASSUME TypeOK, Stages, Sender, UNCHANGED receiverVars, NEW u \in Transfer
  PROVE  Stage(u)' /\ (Past(u) => Past(u)')
<1> USE DEF Stage, Past
<1>0. /\ Stage(u) /\ prepare[u] \in RequestState /\ UNCHANGED <<handler, session, saving>>
      /\ prepare \in [Transfer -> RequestState]
      /\ asking \in [Transfer -> BOOLEAN]
      /\ status \in [Transfer -> {"none", "waiting", "sending", "closed"} \cup Terminal]
  BY DEF Stages, TypeOK, HttpTypeOK, SenderTypeOK, receiverVars
<1>1. UNCHANGED Asked(u) BY <1>0 DEF Asked
<1>2. ASSUME NEW t \in Transfer, StartSession(t) PROVE Stage(u)' /\ (Past(u) => Past(u)')
  BY <1>0, <1>1, <1>2 DEF StartSession
<1>3. ASSUME NEW t \in Transfer, AskPin(t) PROVE Stage(u)' /\ (Past(u) => Past(u)')
  BY <1>0, <1>1, <1>3 DEF AskPin, Stages
<1>4. ASSUME NEW t \in Transfer, EndWithoutUpload(t) PROVE Stage(u)' /\ (Past(u) => Past(u)')
  <2>1. StatusOfCode[prepare[t]] # "none" BY <1>4 DEF EndWithoutUpload, StatusOfCode
  <2>2. status[u] # "none" => status'[u] # "none"
    BY <1>0, <1>4, <2>1 DEF EndWithoutUpload, SetStatus
  <2> QED BY <1>0, <1>1, <1>4, <2>2 DEF EndWithoutUpload
<1>5. ASSUME NEW t \in Transfer, StartLoop(t) PROVE Stage(u)' /\ (Past(u) => Past(u)')
  <2>1. /\ status[u] # "none" => status'[u] # "none"
        /\ prepare' = [prepare EXCEPT ![t] = "none"] /\ UNCHANGED asking
    BY <1>0, <1>5 DEF StartLoop
  <2> QED BY <1>0, <1>1, <2>1
<1>6. ASSUME NEW t \in Transfer, EnterPin(t) PROVE Stage(u)' /\ (Past(u) => Past(u)')
  BY <1>0, <1>1, <1>6 DEF EnterPin
<1>7. ASSUME NEW t \in Transfer, DismissPin(t) PROVE Stage(u)' /\ (Past(u) => Past(u)')
  <2>1. status[u] # "none" => status'[u] # "none" BY <1>0, <1>7 DEF DismissPin, SetStatus
  <2> QED BY <1>0, <1>1, <1>7, <2>1 DEF DismissPin, httpVars
<1>8. ASSUME NEW t \in Transfer, CancelSession(t) \/ CloseSendSession(t)
      PROVE  Stage(u)' /\ (Past(u) => Past(u)')
  BY <1>0, <1>1, <1>8 DEF CancelSession, CloseSendSession, httpVars
<1>9. ASSUME NEW t \in Transfer, NEW f \in File, AbortUpload(t, f)
      PROVE  Stage(u)' /\ (Past(u) => Past(u)')
  BY <1>0, <1>1, <1>9 DEF AbortUpload, senderVars
<1>10. ASSUME NEW t \in Transfer, NEW f \in File, SendFile(t, f)
       PROVE  Stage(u)' /\ (Past(u) => Past(u)')
  <2>1. UNCHANGED <<prepare, asking>> BY <1>10 DEF SendFile
  <2>2. status[u] # "none" => status'[u] # "none"
    <3>1. ASSUME NEW g \in queue[t], SendNext(t, f, g) PROVE status'[u] = status[u]
      BY <3>1 DEF SendNext
    <3>2. CASE StopWorker(t, f) BY <1>0, <3>2 DEF StopWorker
    <3> QED BY <1>10, <3>1, <3>2 DEF SendFile
  <2> QED BY <1>0, <1>1, <2>1, <2>2
<1> QED BY <1>2, <1>3, <1>4, <1>5, <1>6, <1>7, <1>8, <1>9, <1>10 DEF Sender, Answered, PinDialog

\* Nor does one of the receiver, and it asks about a transfer at most once.
LEMMA ReceiverStages ==
  ASSUME TypeOK, Stages, Receiver, UNCHANGED senderVars, NEW u \in Transfer
  PROVE  Stage(u)' /\ (Past(u) => Past(u)')
<1> USE DEF Stage, Past
<1>0. /\ Stage(u) /\ UNCHANGED <<status, asking>>
      /\ prepare \in [Transfer -> RequestState]
      /\ handler \in [Transfer -> {"off", "reading", "asking", "granting"}]
  BY DEF Stages, TypeOK, HttpTypeOK, ReceiverTypeOK, senderVars
<1>1. ASSUME NEW t \in Transfer, RefuseBusy(t) PROVE Stage(u)' /\ (Past(u) => Past(u)')
  BY <1>0, <1>1 DEF RefuseBusy, receiverVars, Asked
<1>2. ASSUME NEW t \in Transfer, CheckPin(t) PROVE Stage(u)' /\ (Past(u) => Past(u)')
  <2>1. PinAnswer(t) \in {"ok", "429", "401"} BY DEF PinAnswer
  <2>2. UNCHANGED session /\ session = None BY <1>2 DEF CheckPin
  <2>3. ~Asked(u)' BY <2>2 DEF Asked
  <2>4. Stage(t) BY DEF Stages
  <2> QED BY <1>0, <1>2, <2>1, <2>3, <2>4 DEF CheckPin
<1>3. ASSUME NEW t \in Transfer, OpenSession(t) PROVE Stage(u)' /\ (Past(u) => Past(u)')
  <2>1. UNCHANGED prepare /\ Stage(t) BY <1>3 DEF OpenSession, Stages
  <2>2. CASE QuickSave(t)
    <3>1. session' = Accepted(t, File) /\ handler' = [handler EXCEPT ![t] = "granting"]
      BY <1>3, <2>2 DEF OpenSession, Grant
    <3>2. ~Asked(u)' BY <3>1 DEF Asked, Accepted
    <3> QED BY <1>0, <1>3, <2>1, <3>1, <3>2 DEF OpenSession
  <2>3. CASE ~QuickSave(t)
    <3>1. session'.id = t /\ handler' = [handler EXCEPT ![t] = "asking"]
      BY <1>3, <2>3 DEF OpenSession
    <3>2. Asked(u)' => u = t BY <3>1 DEF Asked
    <3> QED BY <1>0, <1>3, <2>1, <3>1, <3>2 DEF OpenSession
  <2> QED BY <2>2, <2>3
<1>4. ASSUME NEW t \in Transfer, AnswerGranted(t) PROVE Stage(u)' /\ (Past(u) => Past(u)')
  BY <1>0, <1>4 DEF AnswerGranted, AnswerPrepare, Asked
<1>5. ASSUME NEW t \in Transfer, AcceptFileRequest(t) PROVE Stage(u)' /\ (Past(u) => Past(u)')
  <2>1. PICK S \in SUBSET File : Grant(t, S) BY <1>5 DEF AcceptFileRequest
  <2>2. session' = Accepted(t, S) /\ handler' = [handler EXCEPT ![t] = "granting"]
    BY <2>1 DEF Grant
  <2>3. ~Asked(u)' BY <2>2 DEF Asked, Accepted
  <2>4. handler[t] = "asking" /\ Stage(t) /\ UNCHANGED prepare
    BY <1>5 DEF AcceptFileRequest, Asked, Stages
  <2> QED BY <1>0, <2>2, <2>3, <2>4
<1>6. ASSUME NEW t \in Transfer, ReadMessage(t) \/ DeclineFileRequest(t)
      PROVE  Stage(u)' /\ (Past(u) => Past(u)')
  <2>1. PICK c \in {"204", "403"} : CloseWith(t, c) /\ (c = "204" => t \in Message)
    BY <1>6 DEF ReadMessage, DeclineFileRequest
  <2>2. ~Asked(u)' BY <2>1 DEF CloseWith, Asked
  <2>3. handler[t] = "asking" /\ Stage(t) BY <2>1 DEF CloseWith, Asked, Stages
  <2> QED BY <1>0, <2>1, <2>2, <2>3 DEF CloseWith, AnswerPrepare
<1>7. ASSUME UNCHANGED <<prepare, handler>>, Asked(u)' => Asked(u)
      PROVE  Stage(u)' /\ (Past(u) => Past(u)')
  BY <1>0, <1>7
<1>8. CASE CloseSession
  BY <1>7, <1>8 DEF CloseSession, httpVars, Asked
<1>9. ASSUME NEW t \in Transfer, CancelHandler(t) PROVE Stage(u)' /\ (Past(u) => Past(u)')
  <2>1. Asked(u)' => Asked(u)
    <3>1. CASE MayCancel(t)
      <4>1. session \in Session BY <3>1 DEF MayCancel, TypeOK, ReceiverTypeOK
      <4>2. session' = [session EXCEPT !.status = "canceledBySender"]
        BY <1>9, <3>1 DEF CancelHandler
      <4>3. session'.id = session.id /\ session'.responseHandler = session.responseHandler
        BY <4>1, <4>2 DEF Session
      <4> QED BY <4>3, <3>1 DEF Asked, MayCancel
    <3>2. CASE ~MayCancel(t) BY <1>9, <3>2 DEF CancelHandler, Asked
    <3> QED BY <3>1, <3>2
  <2> QED BY <1>7, <1>9, <2>1 DEF CancelHandler
<1>10. ASSUME NEW t \in Transfer, NEW f \in File, UploadHandler(t, f)
       PROVE  Stage(u)' /\ (Past(u) => Past(u)')
  <2>1. UNCHANGED <<prepare, handler>>
    BY <1>10 DEF UploadHandler, RefuseUpload, BeginUpload, SaveFile, TrackHistory, FailToSave,
       QuickClose, httpVars, receiverVars
  <2> QED BY <1>7, <1>10, <2>1, UploadSession DEF Asked
<1> QED BY <1>1, <1>2, <1>3, <1>4, <1>5, <1>6, <1>8, <1>9, <1>10
    DEF Receiver, PrepareUploadHandler, Decision

LEMMA StagesStep ==
  ASSUME TypeOK, Stages, [Next]_vars
  PROVE  Stages' /\ \A u \in Transfer : Past(u) => Past(u)'
<1> SUFFICES ASSUME NEW u \in Transfer PROVE Stage(u)' /\ (Past(u) => Past(u)')
  BY DEF Stages
<1>1. CASE Sender /\ UNCHANGED receiverVars BY <1>1, SenderStages
<1>2. CASE Receiver /\ UNCHANGED senderVars BY <1>2, ReceiverStages
<1>3. CASE ConnectionBreaks /\ UNCHANGED <<senderVars, receiverVars>>
  <2>1. UNCHANGED <<status, asking, handler, session>> BY <1>3 DEF senderVars, receiverVars
  <2>2. Stage(u) /\ prepare \in [Transfer -> RequestState] BY DEF Stages, TypeOK, HttpTypeOK
  <2>3. \/ UNCHANGED prepare
        \/ \E t \in Transfer : UnderWay(prepare[t]) /\ prepare' = [prepare EXCEPT ![t] = "lost"]
    BY <1>3 DEF ConnectionBreaks, BreakPrepare, BreakUpload
  <2> QED BY <2>1, <2>2, <2>3 DEF Stage, Past, Asked, UnderWay
<1>4. CASE UNCHANGED vars
  <2>1. UNCHANGED <<status, asking, handler, session, prepare>>
    BY <1>4 DEF vars, senderVars, receiverVars, httpVars
  <2>2. Stage(u) BY DEF Stages
  <2> QED BY <2>1, <2>2 DEF Stage, Past, Asked
<1> QED BY <1>1, <1>2, <1>3, <1>4 DEF Next

-----------------------------------------------------------------------------
(* Uploads come after the answer, and their reports are true.              *)

\* What a step does to the uploads of a transfer that has not got its answer yet.
LEMMA UploadsStep ==
  ASSUME TypeOK, Stages, UploadsAfter, [Next]_vars
  PROVE  UploadsAfter'
<1> SUFFICES ASSUME NEW u \in Transfer, NEW h \in File,
                    upload'[u][h] # "none" \/ saving'[u][h] # "off"
             PROVE  Past(u)'
  BY DEF UploadsAfter
<1>0. /\ upload \in [Transfer -> [File -> RequestState]]
      /\ saving \in [Transfer -> [File -> {"off", "stream", "history", "closing"}]]
  BY DEF TypeOK, HttpTypeOK, ReceiverTypeOK
<1>1. upload[u][h] # "none" \/ saving[u][h] # "off" => Past(u)'
  BY StagesStep DEF UploadsAfter
<1>2. ASSUME UNCHANGED <<upload, saving>> PROVE Past(u)' BY <1>1, <1>2
<1>3. CASE Sender /\ UNCHANGED receiverVars
  <2>0. UNCHANGED saving BY <1>3 DEF receiverVars
  <2>1. PICK t \in Transfer :
          \/ StartSession(t) \/ Answered(t) \/ PinDialog(t) \/ CancelSession(t) \/ CloseSendSession(t)
          \/ \E f \in File : SendFile(t, f) \/ AbortUpload(t, f)
    BY <1>3 DEF Sender
  <2>2. CASE StartLoop(t)
    <3>1. CASE u = t
      <4>1. Stage(t) /\ prepare[t] = "200" BY <2>2 DEF Stages, StartLoop
      <4>2. handler[t] = "off" /\ ~asking[t] /\ status[t] # "none" BY <4>1 DEF Stage
      <4>3. /\ prepare' = [prepare EXCEPT ![t] = "none"] /\ UNCHANGED <<asking, handler>>
            /\ status'[t] # "none"
        BY <1>3, <2>2, <4>2 DEF StartLoop, receiverVars, TypeOK, SenderTypeOK
      <4> QED BY <3>1, <4>2, <4>3 DEF Past, TypeOK, HttpTypeOK
    <3>2. CASE u # t
      <4>1. upload'[u] = upload[u] BY <1>0, <2>2, <3>2 DEF StartLoop
      <4> QED BY <1>1, <2>0, <4>1
    <3> QED BY <3>1, <3>2
  <2>3. ASSUME NEW f \in File, SendFile(t, f) PROVE Past(u)'
    <3>1. upload[t][f] # "none" BY <2>3 DEF SendFile, Outcome, Code
    <3>2. Past(t)' BY <3>1, StagesStep DEF UploadsAfter
    <3>3. u # t => upload'[u] = upload[u]
      BY <1>0, <2>3 DEF SendFile, SendNext, StopWorker
    <3> QED BY <1>1, <2>0, <3>2, <3>3
  <2>4. ASSUME NEW f \in File, AbortUpload(t, f) PROVE Past(u)'
    BY <1>0, <1>1, <2>0, <2>4 DEF AbortUpload, UnderWay
  <2>5. CASE \/ StartSession(t) \/ AskPin(t) \/ EndWithoutUpload(t) \/ PinDialog(t)
             \/ CancelSession(t) \/ CloseSendSession(t)
    BY <1>2, <2>0, <2>5 DEF StartSession, AskPin, EndWithoutUpload, PinDialog, EnterPin, DismissPin,
       CancelSession, CloseSendSession, httpVars
  <2> QED BY <2>1, <2>2, <2>3, <2>4, <2>5 DEF Answered
<1>4. CASE Receiver /\ UNCHANGED senderVars
  <2>1. ASSUME NEW t \in Transfer, PrepareUploadHandler(t) \/ Decision(t) \/ CancelHandler(t)
        PROVE  Past(u)'
    <3>1. UNCHANGED <<upload, saving>>
      BY <2>1 DEF PrepareUploadHandler, Decision, RefuseBusy, CheckPin, OpenSession, AnswerGranted,
         AcceptFileRequest, ReadMessage, DeclineFileRequest, CloseWith, CancelHandler, receiverVars
    <3> QED BY <1>2, <3>1
  <2>2. CASE CloseSession BY <1>2, <2>2 DEF CloseSession, httpVars
  <2>3. ASSUME NEW t \in Transfer, NEW f \in File, UploadHandler(t, f) PROVE Past(u)'
    <3>1. upload[t][f] # "none" \/ saving[t][f] # "off"
      BY <2>3 DEF UploadHandler, RefuseUpload, BeginUpload, SaveFile, TrackHistory, FailToSave, QuickClose
    <3>2. \/ u = t /\ h = f
          \/ upload'[u][h] = upload[u][h] /\ saving'[u][h] = saving[u][h]
      BY <1>0, <2>3 DEF UploadHandler, RefuseUpload, BeginUpload, SaveFile, TrackHistory, FailToSave,
         QuickClose, ConcludeUpload, AnswerUpload, AbandonUpload, httpVars, receiverVars
    <3> QED BY <1>1, <3>1, <3>2
  <2> QED BY <1>4, <2>1, <2>2, <2>3 DEF Receiver
<1>5. CASE ConnectionBreaks /\ UNCHANGED <<senderVars, receiverVars>>
  <2>1. UNCHANGED saving BY <1>5 DEF receiverVars
  <2> QED BY <1>0, <1>1, <1>5, <2>1 DEF ConnectionBreaks, BreakPrepare, BreakUpload, UnderWay
<1>6. CASE UNCHANGED vars BY <1>2, <1>6 DEF vars, httpVars, receiverVars
<1> QED BY <1>3, <1>4, <1>5, <1>6 DEF Next

-----------------------------------------------------------------------------
(* The session tells the truth about its files.                            *)

\* A session that tells the truth about its files.
TrueSession(s) == s # None => \A h \in File :
  /\ s.files[h] = "finished" => <<s.id, h>> \in saved
  /\ s.status = "finished" => s.files[h] = "skipped" \/ <<s.id, h>> \in saved

\* The end of the upload handler leaves the files alone, ends the session with the
\* right status, and answers 200 for a file that is saved only.
Concluded(t, f, s) ==
  /\ session' # None =>
       /\ s # None /\ session'.id = s.id /\ session'.files = s.files
       /\ \A h \in File :
            /\ s.files[h] = "finished" => <<s.id, h>> \in saved
            /\ session'.status = "finished" => s.files[h] = "skipped" \/ <<s.id, h>> \in saved
  /\ \A u \in Transfer, h \in File :
       /\ upload'[u][h] = "200" => upload[u][h] = "200" \/ <<u, h>> \in saved
       /\ saving'[u][h] # "off" => saving[u][h] # "off" \/ (u = t /\ h = f)
LEMMA ConcludeSession ==
  ASSUME TypeOK, NEW t \in Transfer, NEW f \in File, NEW s \in Session \cup {None},
         ConcludeUpload(t, f, s), TrueSession(s)
  PROVE  Concluded(t, f, s)
<1>1. ASSUME NEW u \in Transfer, NEW h \in File
      PROVE  /\ upload'[u][h] = "200" => upload[u][h] = "200" \/ <<u, h>> \in saved
             /\ saving'[u][h] # "off" => saving[u][h] # "off" \/ (u = t /\ h = f)
  <2>1. /\ upload \in [Transfer -> [File -> RequestState]]
        /\ saving \in [Transfer -> [File -> {"off", "stream", "history", "closing"}]]
    BY DEF TypeOK, HttpTypeOK, ReceiverTypeOK
  <2>2. \E x : saving' = [saving EXCEPT ![t][f] = x] BY DEF ConcludeUpload
  <2>3. Saved(t, f, s) => <<t, f>> \in saved BY DEF Saved, TrueSession
  <2>4. upload' = [upload EXCEPT ![t][f] =
                     IF @ = "open" THEN IF Saved(t, f, s) THEN "200" ELSE "500" ELSE @]
    BY DEF ConcludeUpload, AnswerUpload
  <2>5. saving'[u][h] # "off" => saving[u][h] # "off" \/ (u = t /\ h = f) BY <2>1, <2>2
  <2>6. CASE u = t /\ h = f BY <2>1, <2>3, <2>4, <2>5, <2>6
  <2>7. CASE ~(u = t /\ h = f)
    <3>1. upload'[u][h] = upload[u][h] BY <2>1, <2>4, <2>7
    <3> QED BY <2>5, <3>1
  <2> QED BY <2>6, <2>7
<1>2. CASE session' = s BY <1>1, <1>2 DEF TrueSession, Concluded
<1>3. CASE session' # s
  <2>1. /\ s \in Session /\ s # None /\ AllEnded(s)
        /\ session' = [s EXCEPT !.status = EndStatus(s)]
    BY <1>3 DEF ConcludeUpload, Open
  <2>2. /\ session'.id = s.id /\ session'.files = s.files
        /\ session'.status = EndStatus(s)
    BY <2>1 DEF Session
  <2>3. ASSUME NEW h \in File, session'.status = "finished"
        PROVE  s.files[h] = "skipped" \/ <<s.id, h>> \in saved
    <3>1. s.files[h] \in {"skipped", "failed", "finished"} BY <2>1 DEF AllEnded
    <3>2. s.files[h] # "failed" BY <2>2, <2>3 DEF EndStatus
    <3> QED BY <2>1, <3>1, <3>2 DEF TrueSession
  <2> QED BY <1>1, <2>1, <2>2, <2>3 DEF TrueSession, Concluded
<1> QED BY <1>2, <1>3

\* The upload handler: it saves before it marks, and marks no file that is skipped.
LEMMA UploadReports ==
  ASSUME TypeOK, SessionReports, NotSkipped, NEW t \in Transfer, NEW f \in File,
         UploadHandler(t, f)
  PROVE  /\ SessionReports' /\ NotSkipped'
         /\ \A u \in Transfer, h \in File :
              upload'[u][h] = "200" => upload[u][h] = "200" \/ <<u, h>> \in saved'
<1> USE DEF SessionReports, NotSkipped
<1>0. /\ session \in Session \cup {None}
      /\ upload \in [Transfer -> [File -> RequestState]]
      /\ saving \in [Transfer -> [File -> {"off", "stream", "history", "closing"}]]
  BY DEF TypeOK, HttpTypeOK, ReceiverTypeOK
<1>1. CASE RefuseUpload(t, f)
  <2>1. UNCHANGED <<session, saving, saved>> BY <1>1 DEF RefuseUpload, receiverVars
  <2>2. UploadRefusal(t, f) # "200" BY DEF UploadRefusal
  <2>3. upload' = [upload EXCEPT ![t][f] = UploadRefusal(t, f)] BY <1>1 DEF RefuseUpload
  <2>4. SessionReports' /\ NotSkipped' BY <2>1
  <2> QED BY <1>0, <2>2, <2>3, <2>4
<1>2. CASE BeginUpload(t, f)
  <2>1. session # None /\ session.id = t BY <1>2 DEF BeginUpload, UploadRefusal
  <2>2. /\ session' = [session EXCEPT !.status = "sending", !.files[f] = "sending"]
        /\ saving' = [saving EXCEPT ![t][f] = "stream"]
        /\ upload' = [upload EXCEPT ![t][f] = "open"] /\ UNCHANGED saved
    BY <1>2 DEF BeginUpload
  <2>3. /\ session'.id = t /\ session'.status = "sending"
        /\ session'.files = [session.files EXCEPT ![f] = "sending"]
        /\ session.files \in [File -> FileStatus]
    BY <1>0, <2>1, <2>2 DEF Session
  <2>4. SessionReports' BY <2>1, <2>2, <2>3
  <2>5. NotSkipped' BY <1>0, <2>1, <2>2, <2>3
  <2> QED BY <1>0, <2>2, <2>4, <2>5
<1>3. CASE SaveFile(t, f)
  <2>0. saved' = saved \cup {<<t, f>>} BY <1>3 DEF SaveFile
  <2>1. ASSUME UNCHANGED session, saving' = [saving EXCEPT ![t][f] = "off"],
               \A u \in Transfer, h \in File : upload'[u][h] = "200" => upload[u][h] = "200"
        PROVE  /\ SessionReports' /\ NotSkipped'
               /\ \A u \in Transfer, h \in File :
                    upload'[u][h] = "200" => upload[u][h] = "200" \/ <<u, h>> \in saved'
    <3>1. SessionReports' BY <2>0, <2>1
    <3>2. NotSkipped' BY <1>0, <2>1
    <3> QED BY <2>1, <3>1, <3>2
  <2>2. CASE /\ saving' = [saving EXCEPT ![t][f] = "off"]
             /\ AnswerUpload(t, f, "500") /\ UNCHANGED session
    <3>1. \A u \in Transfer, h \in File : upload'[u][h] = "200" => upload[u][h] = "200"
      BY <1>0, <2>2 DEF AnswerUpload
    <3> QED BY <2>1, <2>2, <3>1
  <2>3. CASE AbandonUpload(t, f)
    BY <2>1, <2>3 DEF AbandonUpload
  <2>4. CASE /\ Receiving /\ ~Stray(t)
             /\ session' = [session EXCEPT !.files[f] = "finished"]
             /\ saving' = [saving EXCEPT ![t][f] = "history"] /\ UNCHANGED upload
    <3>1. session # None /\ session.id = t BY <2>4 DEF Receiving, Open, Stray
    <3>2. /\ session'.id = t /\ session'.status = session.status
          /\ session'.files = [session.files EXCEPT ![f] = "finished"]
          /\ session.files \in [File -> FileStatus]
      BY <1>0, <2>4, <3>1 DEF Session
    <3>3. SessionReports' BY <2>0, <3>1, <3>2
    <3>4. NotSkipped' BY <1>0, <2>4, <3>1, <3>2
    <3> QED BY <2>4, <3>3, <3>4
  <2> QED BY <1>3, <2>2, <2>3, <2>4 DEF SaveFile
<1>4. ASSUME NEW s \in Session \cup {None}, ConcludeUpload(t, f, s), TrueSession(s),
             UNCHANGED saved, s # None => session # None /\ s.id = session.id,
             saving[t][f] # "off",
             s # None => \A h \in File : s.files[h] = "skipped" => session.files[h] = "skipped"
      PROVE  /\ SessionReports' /\ NotSkipped'
             /\ \A u \in Transfer, h \in File :
                  upload'[u][h] = "200" => upload[u][h] = "200" \/ <<u, h>> \in saved'
  <2>0. Concluded(t, f, s) BY <1>4, ConcludeSession
  <2>1. SessionReports' BY <1>4, <2>0 DEF Concluded
  <2>2. NotSkipped'
    <3> SUFFICES ASSUME session' # None, NEW h \in File, saving'[session'.id][h] # "off"
                 PROVE  session'.files[h] # "skipped"
      OBVIOUS
    <3>1. s # None /\ session'.id = s.id /\ session'.files = s.files BY <2>0 DEF Concluded
    <3>2. session.id \in Transfer BY <1>0, <1>4, <3>1 DEF Session
    <3>3. saving[session.id][h] # "off" BY <1>4, <2>0, <3>1, <3>2 DEF Concluded
    <3> QED BY <1>4, <3>1, <3>3
  <2> QED BY <1>4, <2>0, <2>1, <2>2 DEF Concluded
<1>5. CASE TrackHistory(t, f)
  BY <1>0, <1>4, <1>5 DEF TrackHistory, TrueSession
<1>6. CASE FailToSave(t, f)
  <2>0. UNCHANGED saved /\ saving[t][f] # "off" BY <1>6 DEF FailToSave
  <2>1. CASE Stray(t)
    <3>1. UNCHANGED <<session, upload>> /\ saving' = [saving EXCEPT ![t][f] = "off"]
      BY <1>6, <2>1 DEF FailToSave, AbandonUpload
    <3>2. NotSkipped' BY <1>0, <3>1
    <3> QED BY <2>0, <3>1, <3>2
  <2>2. CASE ~Stray(t)
    <3>1. PICK s : /\ s = IF session = None THEN None ELSE [session EXCEPT !.files[f] = "failed"]
                   /\ ConcludeUpload(t, f, s)
      BY <1>6, <2>2 DEF FailToSave
    <3>2. s \in Session \cup {None}
      BY <1>0, <3>1, SessionUpdate DEF FileStatus, SessionStatus
    <3>3. CASE session = None BY <1>4, <2>0, <3>1, <3>2, <3>3 DEF TrueSession
    <3>4. CASE session # None
      <4>1. /\ session.id = t /\ s.id = t /\ s.status = session.status
            /\ s.files = [session.files EXCEPT ![f] = "failed"]
            /\ session.files \in [File -> FileStatus]
        BY <1>0, <2>2, <3>1, <3>4 DEF Session, Stray
      <4>2. session.files[f] # "skipped" BY <2>0, <3>4, <4>1
      <4>3. TrueSession(s) BY <3>4, <4>1, <4>2 DEF TrueSession
      <4>4. \A h \in File : s.files[h] = "skipped" => session.files[h] = "skipped" BY <4>1
      <4> QED BY <1>4, <2>0, <3>1, <3>2, <3>4, <4>1, <4>3, <4>4
    <3> QED BY <3>3, <3>4
  <2> QED BY <2>1, <2>2
<1>7. CASE QuickClose(t, f) BY <1>7 DEF QuickClose, httpVars
<1> QED BY <1>1, <1>2, <1>3, <1>5, <1>6, <1>7 DEF UploadHandler

\* A session that opens or is granted is one of a transfer without uploads.
LEMMA PrepareReports ==
  ASSUME TypeOK, Stages, UploadsAfter, SessionReports, NotSkipped, NEW t \in Transfer,
         PrepareUploadHandler(t) \/ Decision(t)
  PROVE  SessionReports' /\ NotSkipped' /\ UNCHANGED <<upload, saved>>
<1> USE DEF SessionReports, NotSkipped
<1>1. UNCHANGED <<upload, saving, saved>>
  BY DEF PrepareUploadHandler, Decision, RefuseBusy, CheckPin, OpenSession, AnswerGranted,
     AcceptFileRequest, ReadMessage, DeclineFileRequest, CloseWith, receiverVars
<1>2. CASE UNCHANGED session \/ session' = None BY <1>1, <1>2
<1>3. ASSUME handler[t] # "off", session'.id = t,
             \A h \in File : session'.files[h] \in {"queue", "skipped"},
             session'.status # "finished"
      PROVE  SessionReports' /\ NotSkipped'
  <2>1. \A h \in File : saving[t][h] = "off" BY <1>3 DEF UploadsAfter, Past
  <2> QED BY <1>1, <1>3, <2>1
<1>4. ASSUME NEW S \in SUBSET File, Grant(t, S), handler[t] # "off"
      PROVE  SessionReports' /\ NotSkipped'
  BY <1>3, <1>4 DEF Grant, Accepted
<1>5. CASE OpenSession(t)
  <2>1. CASE QuickSave(t) BY <1>4, <1>5, <2>1, <1>1 DEF OpenSession
  <2>2. CASE ~QuickSave(t) BY <1>1, <1>3, <1>5, <2>2 DEF OpenSession
  <2> QED BY <2>1, <2>2
<1>6. CASE AcceptFileRequest(t)
  <2>1. PICK S \in SUBSET File : Grant(t, S) BY <1>6 DEF AcceptFileRequest
  <2>2. handler[t] # "off" BY <1>6 DEF AcceptFileRequest, Asked, Stages, Stage
  <2> QED BY <1>1, <1>4, <2>1, <2>2
<1>7. CASE RefuseBusy(t) \/ CheckPin(t) \/ AnswerGranted(t) \/ ReadMessage(t) \/ DeclineFileRequest(t)
  BY <1>2, <1>7, <1>1 DEF RefuseBusy, CheckPin, AnswerGranted, ReadMessage, DeclineFileRequest,
     CloseWith, receiverVars
<1> QED BY <1>1, <1>5, <1>6, <1>7 DEF PrepareUploadHandler, Decision

LEMMA SessionStep ==
  ASSUME TypeOK, Stages, UploadsAfter, SessionReports, NotSkipped, [Next]_vars
  PROVE  SessionReports' /\ NotSkipped'
<1> USE DEF SessionReports, NotSkipped
<1>1. CASE UNCHANGED receiverVars BY <1>1 DEF receiverVars
<1>2. ASSUME NEW t \in Transfer, CancelHandler(t) PROVE SessionReports' /\ NotSkipped'
  <2>1. UNCHANGED <<saving, saved>> BY <1>2 DEF CancelHandler
  <2>2. CASE MayCancel(t)
    <3>1. session \in Session BY <2>2 DEF MayCancel, TypeOK, ReceiverTypeOK
    <3>2. session' = [session EXCEPT !.status = "canceledBySender"] BY <1>2, <2>2 DEF CancelHandler
    <3>3. /\ session'.id = session.id /\ session'.files = session.files
          /\ session'.status = "canceledBySender"
      BY <3>1, <3>2 DEF Session
    <3>4. session # None BY <2>2 DEF MayCancel
    <3> QED BY <2>1, <3>3, <3>4
  <2>3. CASE ~MayCancel(t) BY <1>2, <2>1, <2>3 DEF CancelHandler
  <2> QED BY <2>2, <2>3
<1>3. CASE CloseSession BY <1>3 DEF CloseSession
<1> QED BY <1>1, <1>2, <1>3, UploadReports, PrepareReports
    DEF Next, Receiver, vars, ConnectionBreaks

-----------------------------------------------------------------------------
(* The sender believes what it was told, and no more.                      *)

\* Files once written stay, and an answer 200 is sent for those only.
LEMMA ReportsStep ==
  ASSUME TypeOK, SessionReports, NotSkipped, Reports, [Next]_vars
  PROVE  Reports'
<1>0. /\ upload \in [Transfer -> [File -> RequestState]]
      /\ files \in [Transfer -> [File -> {"queue", "skipped", "sending", "failed", "finished"}]]
      /\ queue \in [Transfer -> SUBSET File]
  BY DEF TypeOK, HttpTypeOK, SenderTypeOK
<1>1. ASSUME UNCHANGED files, saved \subseteq saved',
             \A u \in Transfer, h \in File :
               upload'[u][h] = "200" => upload[u][h] = "200" \/ <<u, h>> \in saved'
      PROVE  Reports'
  BY <1>1 DEF Reports
<1>2. CASE Sender /\ UNCHANGED receiverVars
  <2>0. UNCHANGED saved BY <1>2 DEF receiverVars
  <2>1. PICK t \in Transfer :
          \/ StartSession(t) \/ Answered(t) \/ PinDialog(t) \/ CancelSession(t) \/ CloseSendSession(t)
          \/ \E f \in File : SendFile(t, f) \/ AbortUpload(t, f)
    BY <1>2 DEF Sender
  <2>2. CASE StartLoop(t)
    <3>1. CASE ~Present(t) BY <2>0, <2>2, <3>1 DEF StartLoop, Reports
    <3>2. CASE Present(t)
      <4>1. PICK first \in FirstFiles(t) :
              /\ files' = [files EXCEPT ![t] = [f \in File |->
                             IF f \in first THEN "sending"
                             ELSE IF f \in granted[t] THEN "queue" ELSE "skipped"]]
              /\ upload' = [upload EXCEPT ![t] = [f \in File |-> IF f \in first THEN "sent" ELSE @[f]]]
        BY <2>2, <3>2 DEF StartLoop
      <4> QED BY <1>0, <2>0, <4>1 DEF Reports
    <3> QED BY <3>1, <3>2
  <2>3. ASSUME NEW f \in File, SendFile(t, f) PROVE Reports'
    <3>1. FileEnd(upload[t][f]) = "finished" => <<t, f>> \in saved BY DEF FileEnd, Reports
    <3>2. ASSUME NEW g \in queue[t], SendNext(t, f, g) PROVE Reports'
      BY <1>0, <2>0, <3>1, <3>2 DEF SendNext, Reports
    <3>3. CASE StopWorker(t, f)
      <4>1. UNCHANGED upload /\ files' = [files EXCEPT ![t][f] = FileEnd(upload[t][f])]
        BY <1>0, <3>3 DEF StopWorker
      <4> QED BY <1>0, <2>0, <3>1, <4>1 DEF Reports
    <3> QED BY <2>3, <3>2, <3>3 DEF SendFile
  <2>4. ASSUME NEW f \in File, AbortUpload(t, f) PROVE Reports'
    BY <1>0, <2>0, <2>4 DEF AbortUpload, senderVars, Reports
  <2>5. CASE \/ StartSession(t) \/ AskPin(t) \/ EndWithoutUpload(t) \/ PinDialog(t)
             \/ CancelSession(t) \/ CloseSendSession(t)
    BY <2>0, <2>5 DEF StartSession, AskPin, EndWithoutUpload, PinDialog, EnterPin, DismissPin,
       CancelSession, CloseSendSession, httpVars, Reports
  <2> QED BY <2>1, <2>2, <2>3, <2>4, <2>5 DEF Answered
<1>3. CASE Receiver /\ UNCHANGED senderVars
  <2>0. UNCHANGED files BY <1>3 DEF senderVars
  <2>1. ASSUME NEW t \in Transfer, PrepareUploadHandler(t) \/ Decision(t) \/ CancelHandler(t)
        PROVE  Reports'
    <3>1. UNCHANGED <<upload, saved>>
      BY <2>1 DEF PrepareUploadHandler, Decision, RefuseBusy, CheckPin, OpenSession, AnswerGranted,
         AcceptFileRequest, ReadMessage, DeclineFileRequest, CloseWith, CancelHandler, receiverVars
    <3> QED BY <1>1, <2>0, <3>1
  <2>2. CASE CloseSession BY <1>1, <2>0, <2>2 DEF CloseSession, httpVars
  <2>3. ASSUME NEW t \in Transfer, NEW f \in File, UploadHandler(t, f) PROVE Reports'
    <3>1. saved \subseteq saved'
      BY <2>3 DEF UploadHandler, RefuseUpload, BeginUpload, SaveFile, TrackHistory, FailToSave,
         QuickClose, receiverVars
    <3> QED BY <1>1, <2>0, <2>3, <3>1, UploadReports
  <2> QED BY <1>3, <2>1, <2>2, <2>3 DEF Receiver
<1>4. CASE ConnectionBreaks /\ UNCHANGED <<senderVars, receiverVars>>
  <2>1. UNCHANGED <<files, saved>> BY <1>4 DEF senderVars, receiverVars
  <2>2. \/ UNCHANGED upload
        \/ \E t \in Transfer, f \in File : upload' = [upload EXCEPT ![t][f] = "lost"]
    BY <1>4 DEF ConnectionBreaks, BreakPrepare, BreakUpload
  <2> QED BY <1>0, <1>1, <2>1, <2>2
<1>5. CASE UNCHANGED vars BY <1>1, <1>5 DEF vars, senderVars, httpVars, receiverVars
<1> QED BY <1>2, <1>3, <1>4, <1>5 DEF Next

\* The set of accepted files changes only while the handler of the request is at work.
LEMMA GrantedStep ==
  ASSUME TypeOK, Stages, [Next]_vars, NEW t \in Transfer, granted'[t] # granted[t]
  PROVE  handler[t] # "off" /\ UNCHANGED senderVars
<1>0. granted \in [Transfer -> SUBSET File] BY DEF TypeOK, HttpTypeOK
<1>1. ASSUME NEW u \in Transfer, PrepareUploadHandler(u) \/ Decision(u) PROVE handler[t] # "off"
  <2>1. CASE OpenSession(u)
    <3>1. u = t BY <1>0, <2>1 DEF OpenSession, Grant
    <3> QED BY <2>1, <3>1 DEF OpenSession
  <2>2. CASE AcceptFileRequest(u)
    <3>1. u = t BY <1>0, <2>2 DEF AcceptFileRequest, Grant
    <3> QED BY <2>2, <3>1 DEF AcceptFileRequest, Asked, Stages, Stage
  <2> QED BY <1>1, <2>1, <2>2 DEF PrepareUploadHandler, Decision, RefuseBusy, CheckPin, AnswerGranted,
         ReadMessage, DeclineFileRequest, CloseWith
<1>2. ASSUME NEW u \in Transfer, NEW f \in File, UploadHandler(u, f) PROVE UNCHANGED granted
  BY <1>2 DEF UploadHandler, RefuseUpload, BeginUpload, SaveFile, TrackHistory, FailToSave,
     QuickClose, httpVars
<1>3. CASE Receiver /\ UNCHANGED senderVars
  BY <1>1, <1>2, <1>3 DEF Receiver, CancelHandler, CloseSession, httpVars
<1>4. CASE Sender
  BY <1>4 DEF Sender, StartSession, Answered, AskPin, EndWithoutUpload, StartLoop, PinDialog,
     EnterPin, DismissPin, CancelSession, CloseSendSession, SendFile, AbortUpload, httpVars
<1>5. CASE ConnectionBreaks BY <1>5 DEF ConnectionBreaks, BreakPrepare, BreakUpload
<1> QED BY <1>3, <1>4, <1>5 DEF Next, vars, httpVars

\* What a step does to the place of the files in the loop, and to a finished transfer:
\* the sender of t either keeps its status, queue and files, or moves on.
LEMMA LoopStep ==
  ASSUME TypeOK, Stages, Reports, Looping, SenderHonest, Sender, UNCHANGED receiverVars,
         NEW t \in Transfer \ Message, NEW f \in File
  PROVE  /\ status'[t] \in {"sending", "finished"} => Past(t)'
         /\ status'[t] = "sending" /\ f \in granted[t] =>
              f \in queue'[t] \/ files'[t][f] \in {"sending", "failed", "finished"}
         /\ status'[t] = "finished" /\ f \in granted[t] => <<t, f>> \in saved
<1> USE DEF Terminal
<1>0. /\ status \in [Transfer -> {"none", "waiting", "sending", "closed"} \cup Terminal]
      /\ files \in [Transfer -> [File -> {"queue", "skipped", "sending", "failed", "finished"}]]
      /\ queue \in [Transfer -> SUBSET File]
      /\ granted \in [Transfer -> SUBSET File]
  BY DEF TypeOK, HttpTypeOK, SenderTypeOK
<1>1. /\ status[t] \in {"sending", "finished"} => Past(t)'
      /\ status[t] = "sending" /\ f \in granted[t] =>
           f \in queue[t] \/ files[t][f] \in {"sending", "failed", "finished"}
      /\ status[t] = "finished" /\ f \in granted[t] => <<t, f>> \in saved
  <2>1. [Next]_vars BY DEF Next
  <2> QED BY <2>1, StagesStep DEF Looping, SenderHonest
<1>2. ASSUME \/ UNCHANGED <<queue, files>>
             \/ queue'[t] = queue[t] /\ files'[t] = files[t],
             status'[t] \in {"sending", "finished"} => status'[t] = status[t]
      PROVE  /\ status'[t] \in {"sending", "finished"} => Past(t)'
             /\ status'[t] = "sending" /\ f \in granted[t] =>
                  f \in queue'[t] \/ files'[t][f] \in {"sending", "failed", "finished"}
             /\ status'[t] = "finished" /\ f \in granted[t] => <<t, f>> \in saved
  BY <1>1, <1>2
<1>3. PICK u \in Transfer :
        \/ StartSession(u) \/ Answered(u) \/ PinDialog(u) \/ CancelSession(u) \/ CloseSendSession(u)
        \/ \E h \in File : SendFile(u, h) \/ AbortUpload(u, h)
  BY DEF Sender
<1>4. CASE StartSession(u) BY <1>0, <1>2, <1>4 DEF StartSession
<1>5. CASE AskPin(u) \/ EnterPin(u) BY <1>0, <1>2, <1>5 DEF AskPin, EnterPin
<1>6. CASE EndWithoutUpload(u)
  <2>1. StatusOfCode[prepare[u]] \in {"sending", "finished"} => u # t
    BY <1>6 DEF EndWithoutUpload, StatusOfCode, Stages, Stage
  <2> QED BY <1>0, <1>2, <1>6, <2>1 DEF EndWithoutUpload, SetStatus
<1>7. CASE DismissPin(u) BY <1>0, <1>2, <1>7 DEF DismissPin, SetStatus
<1>8. CASE CancelSession(u) \/ CloseSendSession(u)
  BY <1>0, <1>2, <1>8 DEF CancelSession, CloseSendSession
<1>9. CASE StartLoop(u)
  <2>1. CASE u # t \/ ~Present(u) BY <1>0, <1>2, <1>9, <2>1 DEF StartLoop
  <2>2. CASE u = t /\ Present(u)
    <3>1. PICK first \in FirstFiles(t) :
            /\ files' = [files EXCEPT ![t] = [h \in File |->
                           IF h \in first THEN "sending"
                           ELSE IF h \in granted[t] THEN "queue" ELSE "skipped"]]
            /\ queue' = [queue EXCEPT ![t] = granted[t] \ first]
      BY <1>9, <2>2 DEF StartLoop
    <3>2. status' = [status EXCEPT ![t] = "sending"] BY <1>9, <2>2 DEF StartLoop
    <3>3. Past(t)'
      <4>1. Stage(t) /\ prepare[t] = "200" BY <1>9, <2>2 DEF Stages, StartLoop
      <4>2. handler[t] = "off" /\ ~asking[t] /\ status[t] # "none" BY <4>1 DEF Stage
      <4>3. /\ prepare' = [prepare EXCEPT ![t] = "none"] /\ UNCHANGED <<asking, handler>>
        BY <1>9, <2>2 DEF StartLoop, receiverVars
      <4> QED BY <1>0, <3>2, <4>2, <4>3 DEF Past, TypeOK, HttpTypeOK
    <3>4. f \in granted[t] => f \in queue'[t] \/ files'[t][f] = "sending" BY <1>0, <3>1
    <3> QED BY <1>0, <3>2, <3>3, <3>4
  <2> QED BY <2>1, <2>2
<1>10. ASSUME NEW h \in File, SendFile(u, h)
       PROVE  /\ status'[t] \in {"sending", "finished"} => Past(t)'
              /\ status'[t] = "sending" /\ f \in granted[t] =>
                   f \in queue'[t] \/ files'[t][f] \in {"sending", "failed", "finished"}
              /\ status'[t] = "finished" /\ f \in granted[t] => <<t, f>> \in saved
  <2>0. /\ status[u] = "sending" /\ FileEnd(upload[u][h]) \in {"finished", "failed"}
        /\ FileEnd(upload[u][h]) = "finished" => <<u, h>> \in saved
    BY <1>10 DEF SendFile, FileEnd, Reports
  <2>1. ASSUME NEW g \in queue[u], SendNext(u, h, g), u = t,
               f \in granted[t]
        PROVE  f \in queue'[t] \/ files'[t][f] \in {"sending", "failed", "finished"}
    BY <1>0, <1>1, <2>0, <2>1 DEF SendNext
  <2>2. ASSUME NEW g \in queue[u], SendNext(u, h, g), u # t
        PROVE  queue'[t] = queue[t] /\ files'[t] = files[t]
    BY <1>0, <2>2 DEF SendNext
  <2>3. ASSUME NEW g \in queue[u], SendNext(u, h, g) PROVE status' = status
    BY <2>3 DEF SendNext
  <2>4. CASE u # t /\ StopWorker(u, h)
    <3>1. /\ queue'[t] = queue[t] /\ files'[t] = files[t] /\ status'[t] = status[t]
      BY <1>0, <2>4 DEF StopWorker
    <3> QED BY <1>2, <3>1
  <2>5. CASE u = t /\ queue[t] = {} /\ StopWorker(u, h)
    <3> DEFINE now == [files[t] EXCEPT ![h] = FileEnd(upload[t][h])]
    <3>1. /\ files' = [files EXCEPT ![t] = now] /\ UNCHANGED queue
          /\ status' = IF \E g \in File : now[g] = "sending" THEN status
                       ELSE [status EXCEPT ![t] = IF \E g \in File : now[g] = "failed"
                                                  THEN "finishedWithErrors" ELSE "finished"]
      BY <2>5 DEF StopWorker
    <3>2. f \in granted[t] => now[f] \in {"sending", "failed", "finished"} BY <1>0, <1>1, <2>0, <2>5
    <3>3. now[f] = "finished" => <<t, f>> \in saved BY <1>0, <2>0, <2>5 DEF Reports
    <3>4. files'[t] = now BY <1>0, <3>1
    <3>5. status'[t] = "finished" => now[f] # "sending" /\ now[f] # "failed"
      <4>1. status'[t] = "finished" => status' # status BY <2>0, <2>5
      <4> HIDE DEF now
      <4> QED BY <1>0, <3>1, <4>1
    <3> QED BY <1>1, <2>0, <2>5, <3>2, <3>3, <3>4, <3>5
  <2> QED BY <1>1, <1>2, <1>10, <2>0, <2>1, <2>2, <2>3, <2>4, <2>5 DEF SendFile
<1>11. ASSUME NEW h \in File, AbortUpload(u, h)
       PROVE  UNCHANGED <<status, queue, files>>
  BY <1>11 DEF AbortUpload, senderVars
<1> QED BY <1>2, <1>3, <1>4, <1>5, <1>6, <1>7, <1>8, <1>9, <1>10, <1>11 DEF Answered, PinDialog

\* The sender's part of the invariant: no step of either side disturbs it.
LEMMA SenderKeeps ==
  ASSUME TypeOK, Stages, Reports, Looping, SenderHonest, [Next]_vars
  PROVE  Looping' /\ SenderHonest'
<1> SUFFICES ASSUME NEW t \in Transfer \ Message
             PROVE  /\ status'[t] \in {"sending", "finished"} => Past(t)'
                    /\ status'[t] = "sending" => \A f \in granted'[t] :
                         f \in queue'[t] \/ files'[t][f] \in {"sending", "failed", "finished"}
                    /\ status'[t] = "finished" => \A f \in granted'[t] : <<t, f>> \in saved'
  BY DEF Looping, SenderHonest
<1>1. status[t] \in {"sending", "finished"} => Past(t) /\ Past(t)'
  BY StagesStep DEF Looping
<1>2. saved \subseteq saved'
  BY DEF Next, Receiver, PrepareUploadHandler, Decision, RefuseBusy, CheckPin, OpenSession,
     AnswerGranted, AcceptFileRequest, ReadMessage, DeclineFileRequest, CloseWith, CancelHandler,
     CloseSession, UploadHandler, RefuseUpload, BeginUpload, SaveFile, TrackHistory, FailToSave,
     QuickClose, vars, receiverVars
<1>3. CASE Sender /\ UNCHANGED receiverVars
  <2>1. granted' = granted
    BY <1>3 DEF Sender, StartSession, Answered, AskPin, EndWithoutUpload, StartLoop, PinDialog,
       EnterPin, DismissPin, CancelSession, CloseSendSession, SendFile, AbortUpload, httpVars
  <2>2. PICK f \in File : TRUE BY LanAssumption
  <2>3. status'[t] \in {"sending", "finished"} => Past(t)' BY <1>3, <2>2, LoopStep
  <2>4. granted[t] \subseteq File BY DEF TypeOK, HttpTypeOK
  <2> QED BY <1>2, <1>3, <2>1, <2>3, <2>4, LoopStep
<1>4. CASE UNCHANGED senderVars
  <2>1. UNCHANGED <<status, queue, files>> BY <1>4 DEF senderVars
  <2>2. granted'[t] = granted[t] \/ status[t] \notin {"sending", "finished"}
    BY <1>1, GrantedStep DEF Past
  <2> QED BY <1>1, <1>2, <2>1, <2>2 DEF Looping, SenderHonest
<1> QED BY <1>3, <1>4 DEF Next, vars

-----------------------------------------------------------------------------
(* The inductive invariant.                                                *)

LanInv ==
  /\ TypeOK /\ Stages /\ UploadsAfter
  /\ SessionReports /\ NotSkipped /\ Reports
  /\ Looping /\ SenderHonest

LEMMA LanInit == Init => LanInv
<1> SUFFICES ASSUME Init PROVE LanInv
  OBVIOUS
<1>1. UploadsAfter
  BY DEF Init, HttpInit, ReceiverInit, UploadsAfter
<1>2. SessionReports /\ NotSkipped /\ Reports
  BY DEF Init, HttpInit, SenderInit, ReceiverInit, SessionReports, NotSkipped, Reports
<1>3. Looping /\ SenderHonest BY DEF Init, SenderInit, Looping, SenderHonest
<1> QED BY <1>1, <1>2, <1>3, TypeInit, StagesInit DEF LanInv

LEMMA LanStep == LanInv /\ [Next]_vars => LanInv'
<1> SUFFICES ASSUME LanInv, [Next]_vars PROVE LanInv'
  OBVIOUS
<1> USE DEF LanInv
<1>1. TypeOK' BY TypeStep
<1>2. Stages' BY StagesStep
<1>3. UploadsAfter' BY UploadsStep
<1>4. SessionReports' /\ NotSkipped' BY SessionStep
<1>5. Reports' BY ReportsStep
<1>6. Looping' /\ SenderHonest' BY SenderKeeps
<1> QED BY <1>1, <1>2, <1>3, <1>4, <1>5, <1>6

\* Together they hold in every reachable state.
THEOREM LanInvariant == Spec => []LanInv
  BY LanInit, LanStep, PTL DEF Spec

\* For any number of senders, files and upload workers: a sender that shows a transfer
\* as finished (send_provider.dart:401) has every accepted file written on the other
\* device, whatever connections break, sessions replace each other and users cancel.
THEOREM SendersAreHonest == Spec => []SenderHonest
  BY LanInvariant, PTL DEF LanInv

\* A receiver's session that is finished (receive_controller.dart:596) has written every
\* file that its user selected, in whatever order the uploads ended.
THEOREM FinishedIsSaved == Spec => []FinishedMeansSaved
<1>1. LanInv => FinishedMeansSaved BY DEF LanInv, SessionReports, FinishedMeansSaved
<1> QED BY <1>1, LanInvariant, PTL

-----------------------------------------------------------------------------
(* When the sender has finished, so has the session.                       *)

\* The sender knows of a file what it was told: nothing before it is sent, and a
\* file that it shows as finished got the answer 200.
Believed == \A t \in Transfer, f \in File :
  /\ f \in queue[t] => upload[t][f] = "none"
  /\ files[t][f] = "finished" => upload[t][f] = "200"
\* While a file is written, its request waits, or has been lost.
Writing == {"stream", "history"}
Working == \A t \in Transfer, f \in File :
  saving[t][f] \in Writing => upload[t][f] \in {"open", "lost"}
\* A transfer that has finished is past every dialog, and was told 200 for each file.
FinishedAll == \A t \in Transfer :
  status[t] = "finished" =>
    Past(t) /\ (t \notin Message => \A f \in granted[t] : upload[t][f] = "200")
\* A cancel that names the session comes from a transfer that is over.
Named == \A t \in Transfer : cancel[t] = "named" => status[t] = "closed"

\* The session of a transfer whose user has answered knows what its sender knows.
Knows(s) ==
  /\ s.status # "waiting" /\ s.id \notin Message
  /\ s.status = "canceledBySender" => status[s.id] = "closed"
  /\ \A f \in File :
       /\ f \in granted[s.id] <=> s.files[f] # "skipped"
       /\ upload[s.id][f] = "200" => s.files[f] = "finished"
\* It stays open with every file saved only until the history is written.
Complete(s) == \A f \in File : s.files[f] \in {"skipped", "finished"}
Ending(s) == Open(s) /\ Complete(s) => \E f \in File : saving[s.id][f] = "history"
SessionAgrees ==
  session # None /\ ~session.responseHandler => Knows(session) /\ Ending(session)

AgreeInv == Believed /\ Working /\ FinishedAll /\ Named /\ SessionAgrees

\* A step of a sender asks for files it has not asked for, and keeps the answers.
LEMMA SenderBelieves ==
  ASSUME TypeOK, Stages, UploadsAfter, Believed, Working, Sender, UNCHANGED receiverVars,
         NEW t \in Transfer, NEW f \in File
  PROVE  /\ f \in queue'[t] => upload'[t][f] = "none"
         /\ files'[t][f] = "finished" => upload'[t][f] = "200"
         /\ saving'[t][f] \in Writing => upload'[t][f] \in {"open", "lost"}
         /\ upload'[t][f] = "200" <=> upload[t][f] = "200"
<1>0. /\ upload \in [Transfer -> [File -> RequestState]]
      /\ files \in [Transfer -> [File -> {"queue", "skipped", "sending", "failed", "finished"}]]
      /\ queue \in [Transfer -> SUBSET File]
      /\ granted \in [Transfer -> SUBSET File]
      /\ saving' = saving
  BY DEF TypeOK, HttpTypeOK, SenderTypeOK, receiverVars
<1>1. ASSUME queue'[t] = queue[t], files'[t] = files[t], upload'[t] = upload[t]
      PROVE  /\ f \in queue'[t] => upload'[t][f] = "none"
             /\ files'[t][f] = "finished" => upload'[t][f] = "200"
             /\ saving'[t][f] \in Writing => upload'[t][f] \in {"open", "lost"}
             /\ upload'[t][f] = "200" <=> upload[t][f] = "200"
  BY <1>0, <1>1 DEF Believed, Working
<1>2. PICK u \in Transfer :
        \/ StartSession(u) \/ Answered(u) \/ PinDialog(u) \/ CancelSession(u) \/ CloseSendSession(u)
        \/ \E h \in File : SendFile(u, h) \/ AbortUpload(u, h)
  BY DEF Sender
<1>3. CASE \/ StartSession(u) \/ AskPin(u) \/ EndWithoutUpload(u) \/ PinDialog(u)
           \/ CancelSession(u) \/ CloseSendSession(u)
  <2>1. UNCHANGED <<queue, files, upload>>
    BY <1>3 DEF StartSession, AskPin, EndWithoutUpload, PinDialog, EnterPin, DismissPin,
       CancelSession, CloseSendSession, httpVars
  <2> QED BY <1>1, <2>1
<1>4. CASE StartLoop(u)
  <2>1. CASE ~Present(u) BY <1>1, <1>4, <2>1 DEF StartLoop
  <2>2. CASE Present(u) /\ u # t
    <3>1. queue'[t] = queue[t] /\ files'[t] = files[t] /\ upload'[t] = upload[t]
      BY <1>0, <1>4, <2>2 DEF StartLoop
    <3> QED BY <1>1, <3>1
  <2>3. CASE Present(u) /\ u = t
    <3>1. PICK first \in FirstFiles(t) :
            /\ files' = [files EXCEPT ![t] = [h \in File |->
                           IF h \in first THEN "sending"
                           ELSE IF h \in granted[t] THEN "queue" ELSE "skipped"]]
            /\ upload' = [upload EXCEPT ![t] = [h \in File |-> IF h \in first THEN "sent" ELSE @[h]]]
            /\ queue' = [queue EXCEPT ![t] = granted[t] \ first]
      BY <1>4, <2>3 DEF StartLoop
    <3>2. upload[t][f] = "none" /\ saving[t][f] = "off"
      BY <1>4, <2>3 DEF StartLoop, UploadsAfter, Past
    <3>3. upload'[t][f] = IF f \in first THEN "sent" ELSE "none"
      BY <1>0, <3>1, <3>2
    <3>4. f \in queue'[t] => f \notin first BY <1>0, <3>1
    <3>5. files'[t][f] # "finished" BY <1>0, <3>1
    <3> QED BY <1>0, <3>2, <3>3, <3>4, <3>5 DEF Writing
  <2> QED BY <2>1, <2>2, <2>3
<1>5. ASSUME NEW h \in File, SendFile(u, h)
      PROVE  /\ f \in queue'[t] => upload'[t][f] = "none"
             /\ files'[t][f] = "finished" => upload'[t][f] = "200"
             /\ saving'[t][f] \in Writing => upload'[t][f] \in {"open", "lost"}
             /\ upload'[t][f] = "200" <=> upload[t][f] = "200"
  <2>1. upload[u][h] # "none" /\ (FileEnd(upload[u][h]) = "finished" => upload[u][h] = "200")
    BY <1>5 DEF SendFile, FileEnd, Outcome, Code
  <2>2. ASSUME NEW g \in queue[u], SendNext(u, h, g)
        PROVE  /\ f \in queue'[t] => upload'[t][f] = "none"
               /\ files'[t][f] = "finished" => upload'[t][f] = "200"
               /\ saving'[t][f] \in Writing => upload'[t][f] \in {"open", "lost"}
               /\ upload'[t][f] = "200" <=> upload[t][f] = "200"
    <3>1. g \in File /\ upload[u][g] = "none" BY <1>0 DEF Believed
    <3>2. saving[u][g] \notin Writing BY <3>1 DEF Working
    <3>3. /\ files' = [files EXCEPT ![u][h] = FileEnd(upload[u][h]), ![u][g] = "sending"]
          /\ upload' = [upload EXCEPT ![u][g] = "sent"]
          /\ queue' = [queue EXCEPT ![u] = @ \ {g}]
      BY <2>2 DEF SendNext
    <3>4. CASE u # t
      <4>1. queue'[t] = queue[t] /\ files'[t] = files[t] /\ upload'[t] = upload[t]
        BY <1>0, <3>3, <3>4
      <4> QED BY <1>1, <4>1
    <3>5. CASE u = t /\ f = g
      <4>1. upload'[t][f] = "sent" /\ files'[t][f] = "sending" /\ f \notin queue'[t]
        BY <1>0, <3>1, <3>3, <3>5
      <4> QED BY <1>0, <3>1, <3>2, <3>5, <4>1
    <3>6. CASE u = t /\ f # g
      <4>1. /\ upload'[t][f] = upload[t][f] /\ (f \in queue'[t] => f \in queue[t])
            /\ files'[t][f] = IF f = h THEN FileEnd(upload[t][h]) ELSE files[t][f]
        BY <1>0, <3>1, <3>3, <3>6
      <4> QED BY <1>0, <2>1, <3>6, <4>1 DEF Believed, Working
    <3> QED BY <3>4, <3>5, <3>6
  <2>3. CASE StopWorker(u, h)
    <3>1. /\ UNCHANGED <<upload, queue>>
          /\ files' = [files EXCEPT ![u][h] = FileEnd(upload[u][h])]
      BY <1>0, <2>3 DEF StopWorker
    <3>2. files'[t][f] = IF u = t /\ f = h THEN FileEnd(upload[u][h]) ELSE files[t][f]
      BY <1>0, <3>1
    <3> QED BY <1>0, <2>1, <3>1, <3>2 DEF Believed, Working
  <2> QED BY <1>5, <2>2, <2>3 DEF SendFile
<1>6. ASSUME NEW h \in File, AbortUpload(u, h)
      PROVE  /\ f \in queue'[t] => upload'[t][f] = "none"
             /\ files'[t][f] = "finished" => upload'[t][f] = "200"
             /\ saving'[t][f] \in Writing => upload'[t][f] \in {"open", "lost"}
             /\ upload'[t][f] = "200" <=> upload[t][f] = "200"
  <2>1. /\ UNCHANGED <<queue, files>> /\ upload[u][h] \in {"sent", "open"}
        /\ upload' = [upload EXCEPT ![u][h] = "lost"]
    BY <1>6 DEF AbortUpload, senderVars, UnderWay
  <2>2. upload'[t][f] = IF u = t /\ f = h THEN "lost" ELSE upload[t][f]
    BY <1>0, <2>1
  <2> QED BY <1>0, <2>1, <2>2 DEF Believed, Working
<1> QED BY <1>2, <1>3, <1>4, <1>5, <1>6 DEF Answered

\* An upload handler answers a request that waits, and works on no other.
LEMMA HandlerAnswers ==
  ASSUME TypeOK, Working, NEW t \in Transfer, NEW f \in File, UploadHandler(t, f)
  PROVE  /\ upload'[t][f] = upload[t][f] \/ upload[t][f] \notin {"none", "200"}
         /\ saving'[t][f] \in Writing => upload'[t][f] \in {"open", "lost"}
<1>0. /\ upload \in [Transfer -> [File -> RequestState]]
      /\ saving \in [Transfer -> [File -> {"off", "stream", "history", "closing"}]]
  BY DEF TypeOK, HttpTypeOK, ReceiverTypeOK
<1>1. saving[t][f] \in Writing => upload[t][f] \in {"open", "lost"}
  BY DEF Working
<1>2. CASE RefuseUpload(t, f)
  BY <1>0, <1>1, <1>2 DEF RefuseUpload, receiverVars
<1>3. CASE BeginUpload(t, f)
  BY <1>0, <1>3 DEF BeginUpload
<1>4. ASSUME saving[t][f] \in Writing, NEW code \in Code, AnswerUpload(t, f, code)
      PROVE  upload'[t][f] = upload[t][f] \/ upload[t][f] \notin {"none", "200"}
  BY <1>1, <1>4
<1>5. ASSUME NEW s, ConcludeUpload(t, f, s), saving[t][f] \in Writing
      PROVE  /\ upload'[t][f] = upload[t][f] \/ upload[t][f] \notin {"none", "200"}
             /\ saving'[t][f] \in Writing => upload'[t][f] \in {"open", "lost"}
  <2>1. saving'[t][f] \notin Writing
    <3>1. PICK x \in {"closing", "off"} : saving' = [saving EXCEPT ![t][f] = x]
      BY <1>5 DEF ConcludeUpload
    <3> QED BY <1>0, <3>1 DEF Writing
  <2> QED BY <1>1, <1>5, <2>1
<1>6. CASE SaveFile(t, f)
  <2>1. saving[t][f] \in Writing BY <1>6 DEF SaveFile, Writing
  <2>2. CASE saving' = [saving EXCEPT ![t][f] = "off"]
    BY <1>0, <1>1, <2>1, <2>2 DEF Writing
  <2>3. CASE saving' = [saving EXCEPT ![t][f] = "history"] /\ UNCHANGED upload
    BY <1>1, <2>1, <2>3
  <2> QED BY <1>6, <2>2, <2>3 DEF SaveFile, AbandonUpload
<1>7. CASE TrackHistory(t, f)
  BY <1>5, <1>7 DEF TrackHistory, Writing
<1>8. CASE FailToSave(t, f)
  <2>1. saving[t][f] \in Writing BY <1>8 DEF FailToSave, Writing
  <2>2. CASE AbandonUpload(t, f)
    BY <1>0, <1>1, <2>1, <2>2 DEF AbandonUpload, Writing
  <2>3. CASE \E s : ConcludeUpload(t, f, s)
    BY <1>5, <2>1, <2>3
  <2> QED BY <1>8, <2>2, <2>3 DEF FailToSave
<1>9. CASE QuickClose(t, f)
  BY <1>0, <1>9 DEF QuickClose, httpVars, Writing
<1> QED BY <1>2, <1>3, <1>6, <1>7, <1>8, <1>9 DEF UploadHandler

\* No step of any kind forgets an answer 200, and none invents one for the sender.
LEMMA BelievedStep ==
  ASSUME TypeOK, Stages, UploadsAfter, Believed, Working, [Next]_vars
  PROVE  /\ Believed' /\ Working'
         /\ \A t \in Transfer, f \in File : upload[t][f] = "200" => upload'[t][f] = "200"
<1> SUFFICES ASSUME NEW t \in Transfer, NEW f \in File
             PROVE  /\ f \in queue'[t] => upload'[t][f] = "none"
                    /\ files'[t][f] = "finished" => upload'[t][f] = "200"
                    /\ saving'[t][f] \in Writing => upload'[t][f] \in {"open", "lost"}
                    /\ upload[t][f] = "200" => upload'[t][f] = "200"
  BY DEF Believed, Working
<1>0. upload \in [Transfer -> [File -> RequestState]] BY DEF TypeOK, HttpTypeOK
<1>1. CASE Sender /\ UNCHANGED receiverVars BY <1>1, SenderBelieves
<1>2. ASSUME UNCHANGED <<queue, files>>, upload'[t][f] = upload[t][f], saving'[t][f] = saving[t][f]
      PROVE  /\ f \in queue'[t] => upload'[t][f] = "none"
             /\ files'[t][f] = "finished" => upload'[t][f] = "200"
             /\ saving'[t][f] \in Writing => upload'[t][f] \in {"open", "lost"}
             /\ upload[t][f] = "200" => upload'[t][f] = "200"
  BY <1>2 DEF Believed, Working
<1>3. CASE Receiver /\ UNCHANGED senderVars
  <2>0. UNCHANGED <<queue, files>> BY <1>3 DEF senderVars
  <2>1. ASSUME NEW u \in Transfer, PrepareUploadHandler(u) \/ Decision(u) \/ CancelHandler(u)
        PROVE  UNCHANGED <<upload, saving>>
    BY <2>1 DEF PrepareUploadHandler, Decision, RefuseBusy, CheckPin, OpenSession, AnswerGranted,
       AcceptFileRequest, ReadMessage, DeclineFileRequest, CloseWith, CancelHandler, receiverVars
  <2>2. CASE CloseSession
    <3>1. UNCHANGED <<upload, saving>> BY <2>2 DEF CloseSession, httpVars
    <3> QED BY <1>2, <2>0, <3>1
  <2>3. ASSUME NEW u \in Transfer, NEW h \in File, UploadHandler(u, h), ~(u = t /\ h = f)
        PROVE  upload'[t][f] = upload[t][f] /\ saving'[t][f] = saving[t][f]
    BY <1>0, <2>3 DEF UploadHandler, RefuseUpload, BeginUpload, SaveFile, TrackHistory, FailToSave,
       QuickClose, ConcludeUpload, AnswerUpload, AbandonUpload, httpVars, receiverVars, TypeOK,
       ReceiverTypeOK
  <2>4. CASE UploadHandler(t, f)
    <3>1. f \in queue[t] => upload[t][f] = "none" BY DEF Believed
    <3>2. files[t][f] = "finished" => upload[t][f] = "200" BY DEF Believed
    <3> QED BY <2>0, <2>4, <3>1, <3>2, HandlerAnswers
  <2> QED BY <1>2, <1>3, <2>0, <2>1, <2>2, <2>3, <2>4 DEF Receiver
<1>4. CASE ConnectionBreaks /\ UNCHANGED <<senderVars, receiverVars>>
  <2>1. UNCHANGED <<queue, files, saving>> BY <1>4 DEF senderVars, receiverVars
  <2>2. upload'[t][f] = upload[t][f] \/ (upload[t][f] \in {"sent", "open"} /\ upload'[t][f] = "lost")
    BY <1>0, <1>4 DEF ConnectionBreaks, BreakPrepare, BreakUpload, UnderWay
  <2> QED BY <2>1, <2>2 DEF Believed, Working
<1>5. CASE UNCHANGED vars
  <2>1. UNCHANGED <<queue, files, saving, upload>>
    BY <1>5 DEF vars, senderVars, receiverVars, httpVars
  <2> QED BY <1>2, <2>1
<1> QED BY <1>1, <1>3, <1>4, <1>5 DEF Next

\* What a sender does to its status: over is over, and only a read message and the end
\* of the last upload finish a transfer.
LEMMA StatusSteps ==
  ASSUME TypeOK, Sender, NEW t \in Transfer
  PROVE  /\ status[t] = "closed" => status'[t] = "closed"
         /\ cancel'[t] = "named" => cancel[t] = "named" \/ status'[t] = "closed"
         /\ status'[t] = "finished" =>
              \/ status[t] = "finished"
              \/ EndWithoutUpload(t) /\ prepare[t] = "204"
              \/ \E h \in File : SendFile(t, h) /\ queue[t] = {} /\ StopWorker(t, h)
<1>0. /\ status \in [Transfer -> {"none", "waiting", "sending", "closed"} \cup Terminal]
      /\ cancel \in [Transfer -> {"none", "bare", "named", "handled"}]
  BY DEF TypeOK, HttpTypeOK, SenderTypeOK
<1>1. ASSUME cancel' = cancel, status'[t] = status[t]
      PROVE  /\ status[t] = "closed" => status'[t] = "closed"
             /\ cancel'[t] = "named" => cancel[t] = "named" \/ status'[t] = "closed"
             /\ status'[t] = "finished" => status[t] = "finished"
  BY <1>1
<1>2. PICK u \in Transfer :
        \/ StartSession(u) \/ Answered(u) \/ PinDialog(u) \/ CancelSession(u) \/ CloseSendSession(u)
        \/ \E h \in File : SendFile(u, h) \/ AbortUpload(u, h)
  BY DEF Sender
<1>3. CASE StartSession(u) BY <1>0, <1>3 DEF StartSession
<1>4. CASE AskPin(u) \/ EnterPin(u) BY <1>1, <1>4 DEF AskPin, EnterPin
<1>5. CASE EndWithoutUpload(u)
  <2>1. StatusOfCode[prepare[u]] = "finished" => prepare[u] = "204"
    BY <1>5 DEF EndWithoutUpload, StatusOfCode
  <2>2. /\ cancel' = cancel
        /\ status' = IF Present(u) THEN [status EXCEPT ![u] = StatusOfCode[prepare[u]]] ELSE status
    BY <1>5 DEF EndWithoutUpload, SetStatus
  <2>3. CASE u = t /\ Present(u)
    <3>1. status'[t] = StatusOfCode[prepare[t]] /\ status[t] # "closed"
      BY <1>0, <2>2, <2>3 DEF Present
    <3> QED BY <1>5, <2>1, <2>2, <2>3, <3>1
  <2>4. CASE ~(u = t /\ Present(u))
    <3>1. status'[t] = status[t] BY <1>0, <2>2, <2>4
    <3> QED BY <1>1, <2>2, <3>1
  <2> QED BY <2>3, <2>4
<1>6. CASE DismissPin(u)
  BY <1>0, <1>6 DEF DismissPin, SetStatus, Present, httpVars
<1>7. CASE StartLoop(u)
  <2>1. cancel' = cancel /\ (status' = status \/ (Present(u) /\ status' = [status EXCEPT ![u] = "sending"]))
    BY <1>7 DEF StartLoop
  <2> QED BY <1>0, <2>1 DEF Present
<1>8. CASE CancelSession(u)
  BY <1>0, <1>8 DEF CancelSession
<1>9. CASE CloseSendSession(u)
  BY <1>0, <1>9 DEF CloseSendSession, httpVars, Terminal
<1>10. ASSUME NEW h \in File, SendFile(u, h)
       PROVE  /\ status[t] = "closed" => status'[t] = "closed"
              /\ cancel'[t] = "named" => cancel[t] = "named" \/ status'[t] = "closed"
              /\ status'[t] = "finished" =>
                   status[t] = "finished" \/ (u = t /\ queue[t] = {} /\ StopWorker(t, h))
  <2>1. cancel' = cancel /\ status[u] = "sending" BY <1>10 DEF SendFile
  <2>2. ASSUME NEW g \in queue[u], SendNext(u, h, g) PROVE status' = status
    BY <2>2 DEF SendNext
  <2>3. CASE queue[u] = {} /\ StopWorker(u, h)
    <3>1. u # t => status'[t] = status[t] BY <1>0, <2>3 DEF StopWorker
    <3> QED BY <2>1, <2>3, <3>1
  <2> QED BY <1>1, <1>10, <2>1, <2>2, <2>3 DEF SendFile
<1>11. ASSUME NEW h \in File, AbortUpload(u, h) PROVE UNCHANGED <<cancel, status>>
  BY <1>11 DEF AbortUpload, senderVars
<1> QED BY <1>1, <1>2, <1>3, <1>4, <1>5, <1>6, <1>7, <1>8, <1>9, <1>10, <1>11 DEF Answered, PinDialog

LEMMA NamedStep ==
  ASSUME TypeOK, Named, [Next]_vars
  PROVE  Named' /\ \A t \in Transfer : status[t] = "closed" => status'[t] = "closed"
<1>1. CASE Sender BY <1>1, StatusSteps DEF Named
<1>2. ASSUME UNCHANGED status, \A t \in Transfer : cancel'[t] = "named" => cancel[t] = "named"
      PROVE  Named' /\ \A t \in Transfer : status[t] = "closed" => status'[t] = "closed"
  BY <1>2 DEF Named
<1>3. CASE UNCHANGED senderVars
  <2>1. UNCHANGED status BY <1>3 DEF senderVars
  <2>2. ASSUME NEW u \in Transfer, PrepareUploadHandler(u) \/ Decision(u) PROVE UNCHANGED cancel
    BY <2>2 DEF PrepareUploadHandler, Decision, RefuseBusy, CheckPin, OpenSession, AnswerGranted,
       AcceptFileRequest, ReadMessage, DeclineFileRequest, CloseWith, Grant
  <2>3. ASSUME NEW u \in Transfer, NEW h \in File, UploadHandler(u, h) PROVE UNCHANGED cancel
    BY <2>3 DEF UploadHandler, RefuseUpload, BeginUpload, SaveFile, TrackHistory, FailToSave,
       QuickClose, httpVars
  <2>4. ASSUME NEW u \in Transfer, CancelHandler(u)
        PROVE  \A t \in Transfer : cancel'[t] = "named" => cancel[t] = "named"
    BY <2>4 DEF CancelHandler, TypeOK, HttpTypeOK
  <2>5. CASE CloseSession \/ ConnectionBreaks \/ UNCHANGED vars
    <3>1. UNCHANGED cancel
      BY <2>5 DEF CloseSession, ConnectionBreaks, BreakPrepare, BreakUpload, vars, httpVars
    <3> QED BY <1>2, <2>1, <3>1
  <2>6. CASE Receiver BY <1>2, <2>1, <2>2, <2>3, <2>4, <2>5, <2>6 DEF Receiver
  <2>7. CASE Sender BY <1>1, <2>7
  <2> QED BY <2>5, <2>6, <2>7 DEF Next
<1> QED BY <1>1, <1>3 DEF Next, vars

LEMMA FinishedStep ==
  ASSUME TypeOK, Stages, UploadsAfter, Looping, Believed, Working, FinishedAll, [Next]_vars
  PROVE  FinishedAll'
<1> SUFFICES ASSUME NEW t \in Transfer, status'[t] = "finished"
             PROVE  Past(t)' /\ (t \notin Message => \A f \in granted'[t] : upload'[t][f] = "200")
  BY DEF FinishedAll
<1>0. /\ prepare \in [Transfer -> RequestState]
      /\ files \in [Transfer -> [File -> {"queue", "skipped", "sending", "failed", "finished"}]]
      /\ queue \in [Transfer -> SUBSET File]
      /\ granted \in [Transfer -> SUBSET File]
      /\ status \in [Transfer -> {"none", "waiting", "sending", "closed"} \cup Terminal]
  BY DEF TypeOK, HttpTypeOK, SenderTypeOK
<1>1. Past(t) => Past(t)' /\ granted'[t] = granted[t]
  <2>1. Past(t) => Past(t)' BY StagesStep
  <2>2. Past(t) => granted'[t] = granted[t] BY GrantedStep DEF Past
  <2> QED BY <2>1, <2>2
<1>2. \A f \in File : upload[t][f] = "200" => upload'[t][f] = "200"
  BY BelievedStep
<1>3. CASE status[t] = "finished"
  <2>1. Past(t) /\ (t \notin Message => \A f \in granted[t] : upload[t][f] = "200")
    BY <1>3 DEF FinishedAll
  <2> QED BY <1>0, <1>1, <1>2, <2>1
<1>4. CASE status[t] # "finished" /\ Sender /\ UNCHANGED receiverVars
  <2>1. CASE EndWithoutUpload(t) /\ prepare[t] = "204"
    <3>1. Stage(t) BY DEF Stages
    <3>2. t \in Message /\ handler[t] = "off" /\ ~asking[t] BY <2>1, <3>1 DEF Stage
    <3>3. prepare'[t] = "none" /\ asking' = asking /\ handler' = handler
      BY <1>0, <1>4, <2>1 DEF EndWithoutUpload, receiverVars
    <3> QED BY <3>2, <3>3 DEF Past
  <2>2. ASSUME NEW h \in File, SendFile(t, h), queue[t] = {}, StopWorker(t, h)
        PROVE  Past(t)' /\ (t \notin Message => \A f \in granted'[t] : upload'[t][f] = "200")
    <3>1. upload[t][h] # "none" /\ status[t] = "sending"
      BY <2>2 DEF SendFile, Outcome, Code
    <3>2. Past(t) BY <3>1 DEF UploadsAfter
    <3> DEFINE now == [files[t] EXCEPT ![h] = FileEnd(upload[t][h])]
    <3>3. /\ files' = [files EXCEPT ![t] = now]
          /\ status' = IF \E g \in File : now[g] = "sending" THEN status
                       ELSE [status EXCEPT ![t] = IF \E g \in File : now[g] = "failed"
                                                  THEN "finishedWithErrors" ELSE "finished"]
      BY <2>2 DEF StopWorker
    <3>4. files'[t] = now BY <1>0, <3>3
    <3>5. ASSUME t \notin Message, NEW f \in granted[t] PROVE upload'[t][f] = "200"
      <4>1. f \in File BY <1>0
      <4>2. files[t][f] \in {"sending", "failed", "finished"}
        BY <2>2, <3>1, <3>5 DEF Looping
      <4>3. now[f] \in {"sending", "failed", "finished"}
        BY <1>0, <4>1, <4>2 DEF FileEnd
      <4>4. now[f] # "sending" /\ now[f] # "failed"
        <5>1. status' # status BY <1>4
        <5> HIDE DEF now
        <5> QED BY <1>0, <3>3, <4>1, <5>1
      <4>5. files'[t][f] = "finished" BY <3>4, <4>3, <4>4
      <4> QED BY <4>1, <4>5, BelievedStep DEF Believed
    <3> QED BY <1>1, <3>2, <3>5
  <2> QED BY <1>4, <2>1, <2>2, StatusSteps
<1>5. CASE UNCHANGED senderVars BY <1>3, <1>5 DEF senderVars
<1> QED BY <1>3, <1>4, <1>5 DEF Next, vars

\* The end of the upload handler: an answer 200 is for a file that the session has, and
\* the session does not stay open with every file saved.
LEMMA ConcludeAgrees ==
  ASSUME TypeOK, NEW t \in Transfer, NEW f \in File, NEW s \in Session \cup {None},
         ConcludeUpload(t, f, s), s # None => Knows(s),
         UNCHANGED <<granted, status>>, session' # None
  PROVE  /\ s # None /\ session'.id = s.id /\ session'.responseHandler = s.responseHandler
         /\ Knows(session)' /\ Ending(session)'
<1>0. upload \in [Transfer -> [File -> RequestState]] BY DEF TypeOK, HttpTypeOK
<1>1. s # None /\ s \in Session /\ s.files \in [File -> FileStatus] /\ s.id \in Transfer
  BY DEF ConcludeUpload, Open, Session
<1>2. /\ session'.id = s.id /\ session'.files = s.files
      /\ session'.responseHandler = s.responseHandler
      /\ IF Open(s) /\ AllEnded(s) THEN session'.status = EndStatus(s)
         ELSE session'.status = s.status
  BY <1>1 DEF ConcludeUpload, Session
<1>3. EndStatus(s) \in {"finished", "finishedWithErrors"} BY DEF EndStatus
<1>4. Knows(s) BY <1>1
<1>5. session'.status # "waiting" /\ session'.id \notin Message
  BY <1>2, <1>3, <1>4 DEF Knows
<1>6. session'.status = "canceledBySender" => status'[session'.id] = "closed"
  BY <1>2, <1>3, <1>4 DEF Knows
<1>7. ASSUME NEW g \in File
      PROVE  /\ g \in granted'[session'.id] <=> session'.files[g] # "skipped"
             /\ upload'[session'.id][g] = "200" => session'.files[g] = "finished"
  <2>1. g \in granted'[session'.id] <=> session'.files[g] # "skipped"
    BY <1>2, <1>4 DEF Knows
  <2>2. upload'[s.id][g] = upload[s.id][g] \/ (s.id = t /\ g = f /\
          (upload'[s.id][g] = "200" => upload[s.id][g] = "200" \/ Saved(t, f, s)))
    BY <1>0, <1>1 DEF ConcludeUpload, AnswerUpload
  <2>3. upload[s.id][g] = "200" => s.files[g] = "finished" BY <1>4 DEF Knows
  <2> QED BY <1>2, <2>1, <2>2, <2>3 DEF Saved
<1>8. ~(Open(session') /\ Complete(session'))
  <2> SUFFICES ASSUME Open(session'), Complete(session') PROVE FALSE
    OBVIOUS
  <2>1. \A g \in File : s.files[g] \in {"skipped", "finished"} BY <1>2 DEF Complete
  <2>2. AllEnded(s) /\ EndStatus(s) = "finished" BY <2>1 DEF AllEnded, EndStatus
  <2>3. Open(s) BY <1>1, <1>2, <2>2 DEF Open
  <2> QED BY <1>2, <2>2, <2>3 DEF Open
<1>9. Knows(session)' BY <1>5, <1>6, <1>7 DEF Knows
<1>10. Ending(session)' BY <1>8 DEF Ending, Open, Complete
<1> QED BY <1>1, <1>2, <1>9, <1>10

\* The upload handler.
LEMMA UploadAgrees ==
  ASSUME TypeOK, NotSkipped, Working, SessionAgrees, NEW t \in Transfer, NEW f \in File,
         UploadHandler(t, f), UNCHANGED senderVars
  PROVE  SessionAgrees'
<1> SUFFICES ASSUME session' # None, ~session'.responseHandler
             PROVE  Knows(session)' /\ Ending(session)'
  BY DEF SessionAgrees
<1>0. /\ session \in Session \cup {None}
      /\ upload \in [Transfer -> [File -> RequestState]]
      /\ saving \in [Transfer -> [File -> {"off", "stream", "history", "closing"}]]
      /\ UNCHANGED status
  BY DEF TypeOK, HttpTypeOK, ReceiverTypeOK, senderVars
<1>1. /\ session # None /\ session'.id = session.id /\ ~session.responseHandler
      /\ Knows(session) /\ Ending(session) /\ session.id \in Transfer
      /\ session.files \in [File -> FileStatus]
  BY <1>0, UploadSession DEF SessionAgrees, Session
<1>2. UNCHANGED granted
  BY DEF UploadHandler, RefuseUpload, BeginUpload, SaveFile, TrackHistory, FailToSave,
     QuickClose, httpVars
<1>3. ASSUME UNCHANGED session,
             \A g \in File : upload'[session.id][g] = "200" => upload[session.id][g] = "200",
             Open(session) => \A g \in File :
                saving[session.id][g] = "history" => saving'[session.id][g] = "history"
      PROVE  Knows(session)' /\ Ending(session)'
  <2>1. Knows(session)' BY <1>0, <1>1, <1>2, <1>3 DEF Knows
  <2>2. Ending(session)' BY <1>1, <1>3 DEF Ending, Open, Complete
  <2> QED BY <2>1, <2>2
<1>4. CASE RefuseUpload(t, f)
  <2>1. UNCHANGED <<session, saving>> BY <1>4 DEF RefuseUpload, receiverVars
  <2>2. UploadRefusal(t, f) # "200" /\ upload' = [upload EXCEPT ![t][f] = UploadRefusal(t, f)]
    BY <1>4 DEF RefuseUpload, UploadRefusal
  <2>3. \A g \in File : upload'[session.id][g] = "200" => upload[session.id][g] = "200"
    BY <1>0, <1>1, <2>2
  <2> QED BY <1>3, <2>1, <2>3
<1>5. CASE BeginUpload(t, f)
  <2>1. session.id = t /\ session.files[f] # "skipped"
    BY <1>1, <1>5 DEF BeginUpload, UploadRefusal
  <2>2. /\ session' = [session EXCEPT !.status = "sending", !.files[f] = "sending"]
        /\ upload' = [upload EXCEPT ![t][f] = "open"]
    BY <1>5 DEF BeginUpload
  <2>3. /\ session'.id = t /\ session'.status = "sending"
        /\ session'.files = [session.files EXCEPT ![f] = "sending"]
    BY <1>0, <1>1, <2>1, <2>2 DEF Session
  <2>4. session'.files[f] = "sending" BY <1>1, <2>3
  <2>5. ASSUME NEW g \in File
        PROVE  /\ g \in granted'[t] <=> session'.files[g] # "skipped"
               /\ upload'[t][g] = "200" => session'.files[g] = "finished"
    <3>1. /\ g \in granted[t] <=> session.files[g] # "skipped"
          /\ upload[t][g] = "200" => session.files[g] = "finished"
      BY <1>1, <2>1 DEF Knows
    <3>2. CASE g = f
      BY <1>0, <1>2, <2>1, <2>2, <2>4, <3>1, <3>2
    <3>3. CASE g # f
      <4>1. session'.files[g] = session.files[g] /\ upload'[t][g] = upload[t][g]
        BY <1>0, <1>1, <2>2, <2>3, <3>3
      <4> QED BY <1>2, <3>1, <4>1
    <3> QED BY <3>2, <3>3
  <2>6. Knows(session)' BY <1>1, <2>1, <2>3, <2>5 DEF Knows
  <2>7. Ending(session)' BY <2>4 DEF Ending, Complete
  <2> QED BY <2>6, <2>7
<1>6. CASE SaveFile(t, f)
  <2>0. saving[t][f] = "stream" BY <1>6 DEF SaveFile
  <2>1. CASE /\ ~Receiving /\ saving' = [saving EXCEPT ![t][f] = "off"]
             /\ AnswerUpload(t, f, "500") /\ UNCHANGED session
    <3>1. \A g \in File : upload'[session.id][g] = "200" => upload[session.id][g] = "200"
      BY <1>0, <1>1, <2>1 DEF AnswerUpload
    <3> QED BY <1>3, <2>1, <3>1 DEF Receiving
  <2>2. CASE Stray(t) /\ AbandonUpload(t, f)
    <3>1. UNCHANGED <<session, upload>> /\ saving' = [saving EXCEPT ![t][f] = "off"]
      BY <2>2 DEF AbandonUpload
    <3>2. \A g \in File : saving'[session.id][g] = saving[session.id][g]
      BY <1>0, <1>1, <2>2, <3>1 DEF Stray
    <3> QED BY <1>3, <3>1, <3>2
  <2>3. CASE /\ Receiving /\ ~Stray(t)
             /\ session' = [session EXCEPT !.files[f] = "finished"]
             /\ saving' = [saving EXCEPT ![t][f] = "history"] /\ UNCHANGED upload
    <3>1. session.id = t BY <1>1, <2>3 DEF Stray
    <3>2. /\ session'.id = t /\ session'.status = session.status
          /\ session'.files = [session.files EXCEPT ![f] = "finished"]
      BY <1>0, <1>1, <2>3, <3>1 DEF Session
    <3>3. session.files[f] # "skipped" BY <1>1, <2>0, <3>1 DEF NotSkipped
    <3>4. ASSUME NEW g \in File
          PROVE  /\ g \in granted'[t] <=> session'.files[g] # "skipped"
                 /\ upload'[t][g] = "200" => session'.files[g] = "finished"
      <4>1. /\ g \in granted[t] <=> session.files[g] # "skipped"
            /\ upload[t][g] = "200" => session.files[g] = "finished"
        BY <1>1, <3>1 DEF Knows
      <4> QED BY <1>1, <1>2, <2>3, <3>2, <3>3, <4>1
    <3>5. Knows(session)' BY <1>0, <1>1, <3>1, <3>2, <3>4 DEF Knows
    <3>6. saving'[t][f] = "history" BY <1>0, <2>3
    <3>7. Ending(session)' BY <3>2, <3>6 DEF Ending
    <3> QED BY <3>5, <3>7
  <2> QED BY <1>6, <2>1, <2>2, <2>3 DEF SaveFile
<1>7. CASE TrackHistory(t, f)
  <2>1. ConcludeUpload(t, f, session) BY <1>7 DEF TrackHistory
  <2> QED BY <1>0, <1>1, <1>2, <2>1, ConcludeAgrees
<1>8. CASE FailToSave(t, f)
  <2>0. saving[t][f] \in Writing BY <1>8 DEF FailToSave, Writing
  <2>1. CASE Stray(t)
    <3>1. UNCHANGED <<session, upload>> /\ saving' = [saving EXCEPT ![t][f] = "off"]
      BY <1>8, <2>1 DEF FailToSave, AbandonUpload
    <3>2. \A g \in File : saving'[session.id][g] = saving[session.id][g]
      BY <1>0, <1>1, <2>1, <3>1 DEF Stray
    <3> QED BY <1>3, <3>1, <3>2
  <2>2. CASE ~Stray(t)
    <3>1. session.id = t BY <1>1, <2>2 DEF Stray
    <3>2. PICK s : s = [session EXCEPT !.files[f] = "failed"] /\ ConcludeUpload(t, f, s)
      BY <1>1, <1>8, <2>2 DEF FailToSave
    <3>3. s \in Session BY <1>0, <1>1, <3>2, SessionUpdate DEF FileStatus, SessionStatus
    <3>4. /\ s.id = t /\ s.status = session.status
          /\ s.files = [session.files EXCEPT ![f] = "failed"]
      BY <1>0, <1>1, <3>1, <3>2 DEF Session
    <3>5. session.files[f] # "skipped" /\ upload[t][f] # "200"
      BY <1>1, <2>0, <3>1 DEF NotSkipped, Writing, Working
    <3>6. Knows(s)
      <4>1. ASSUME NEW g \in File
            PROVE  /\ g \in granted[t] <=> s.files[g] # "skipped"
                   /\ upload[t][g] = "200" => s.files[g] = "finished"
        <5>1. /\ g \in granted[t] <=> session.files[g] # "skipped"
              /\ upload[t][g] = "200" => session.files[g] = "finished"
          BY <1>1, <3>1 DEF Knows
        <5> QED BY <1>1, <3>4, <3>5, <5>1
      <4> QED BY <1>1, <3>1, <3>4, <4>1 DEF Knows
    <3> QED BY <1>0, <1>2, <3>2, <3>3, <3>6, ConcludeAgrees
  <2> QED BY <2>1, <2>2
<1>9. CASE QuickClose(t, f) BY <1>9 DEF QuickClose
<1> QED BY <1>4, <1>5, <1>6, <1>7, <1>8, <1>9 DEF UploadHandler

\* The handlers of prepare-upload and the user's answers: a session is granted to a
\* transfer whose sender has not heard of it.
LEMMA GrantAgrees ==
  ASSUME TypeOK, Stages, UploadsAfter, SessionAgrees, NEW t \in Transfer,
         PrepareUploadHandler(t) \/ Decision(t), UNCHANGED senderVars
  PROVE  SessionAgrees'
<1>0. /\ granted \in [Transfer -> SUBSET File]
      /\ UNCHANGED <<upload, saving, status>>
  BY DEF TypeOK, HttpTypeOK, PrepareUploadHandler, Decision, RefuseBusy, CheckPin, OpenSession,
     AnswerGranted, AcceptFileRequest, ReadMessage, DeclineFileRequest, CloseWith, receiverVars,
     senderVars
<1>1. ASSUME NEW S \in SUBSET File, S # {}, Grant(t, S), handler[t] # "off", t \notin Message
      PROVE  SessionAgrees'
  <2>1. /\ session' = Accepted(t, S) /\ granted'[t] = S
    BY <1>0, <1>1 DEF Grant
  <2>2. /\ session'.id = t /\ session'.status = "sending"
        /\ session'.files = [f \in File |-> IF f \in S THEN "queue" ELSE "skipped"]
    BY <2>1 DEF Accepted
  <2>3. \A f \in File : upload[t][f] = "none" BY <1>1 DEF UploadsAfter, Past
  <2>4. Knows(session)' BY <1>0, <1>1, <2>1, <2>2, <2>3 DEF Knows
  <2>5. ~Complete(session')
    <3>1. PICK f \in S : TRUE BY <1>1
    <3>2. f \in File /\ session'.files[f] = "queue" BY <2>2
    <3> QED BY <3>2 DEF Complete
  <2>6. Ending(session)' BY <2>5 DEF Ending, Complete
  <2> QED BY <2>4, <2>6 DEF SessionAgrees
<1>2. CASE OpenSession(t)
  <2>1. CASE QuickSave(t)
    <3>1. Grant(t, File) /\ handler[t] # "off" /\ t \notin Message
      BY <1>2, <2>1 DEF OpenSession, QuickSave
    <3> QED BY <1>1, <3>1, LanAssumption
  <2>2. CASE ~QuickSave(t)
    <3>1. session'.responseHandler BY <1>2, <2>2 DEF OpenSession
    <3> QED BY <3>1 DEF SessionAgrees
  <2> QED BY <2>1, <2>2
<1>3. CASE AcceptFileRequest(t)
  <2>1. PICK S \in (SUBSET File) \ {{}} : Grant(t, S) BY <1>3 DEF AcceptFileRequest
  <2>2. handler[t] # "off" /\ t \notin Message
    BY <1>3 DEF AcceptFileRequest, Asked, Stages, Stage
  <2> QED BY <1>1, <2>1, <2>2
<1>4. CASE RefuseBusy(t) \/ CheckPin(t) \/ AnswerGranted(t)
  <2>1. UNCHANGED <<session, granted>>
    BY <1>4 DEF RefuseBusy, CheckPin, AnswerGranted, receiverVars
  <2>2. (Knows(session) => Knows(session)') /\ (Ending(session) => Ending(session)')
    BY <1>0, <2>1 DEF Knows, Ending, Open, Complete
  <2> QED BY <2>1, <2>2 DEF SessionAgrees
<1>5. CASE ReadMessage(t) \/ DeclineFileRequest(t)
  BY <1>5 DEF ReadMessage, DeclineFileRequest, CloseWith, SessionAgrees
<1> QED BY <1>2, <1>3, <1>4, <1>5 DEF PrepareUploadHandler, Decision

LEMMA AgreesStep ==
  ASSUME TypeOK, Stages, UploadsAfter, NotSkipped, Believed, Working, Named, SessionAgrees,
         [Next]_vars
  PROVE  SessionAgrees'
<1>0. session \in Session \cup {None} /\ upload \in [Transfer -> [File -> RequestState]]
  BY DEF TypeOK, HttpTypeOK, ReceiverTypeOK
<1>1. ASSUME UNCHANGED <<session, saving, granted>>,
             \A t \in Transfer, f \in File : upload'[t][f] = "200" => upload[t][f] = "200"
      PROVE  SessionAgrees'
  <2> SUFFICES ASSUME session # None, ~session.responseHandler
               PROVE  Knows(session)' /\ Ending(session)'
    BY <1>1 DEF SessionAgrees
  <2>1. Knows(session) /\ Ending(session) /\ session.id \in Transfer
    BY <1>0 DEF SessionAgrees, Session
  <2>2. status[session.id] = "closed" => status'[session.id] = "closed" BY <2>1, NamedStep
  <2>3. Knows(session)' BY <1>1, <2>1, <2>2 DEF Knows
  <2>4. Ending(session)' BY <1>1, <2>1 DEF Ending, Open, Complete
  <2> QED BY <2>3, <2>4
<1>2. CASE Sender /\ UNCHANGED receiverVars
  <2>1. granted' = granted
    BY <1>2 DEF Sender, StartSession, Answered, AskPin, EndWithoutUpload, StartLoop, PinDialog,
       EnterPin, DismissPin, CancelSession, CloseSendSession, SendFile, AbortUpload, httpVars
  <2>2. UNCHANGED <<session, saving>> BY <1>2 DEF receiverVars
  <2>3. \A t \in Transfer, f \in File : upload'[t][f] = "200" => upload[t][f] = "200"
    BY <1>2, SenderBelieves
  <2> QED BY <1>1, <2>1, <2>2, <2>3
<1>3. ASSUME NEW t \in Transfer, CancelHandler(t), UNCHANGED senderVars PROVE SessionAgrees'
  <2>0. UNCHANGED <<granted, upload, saving, status>> BY <1>3 DEF CancelHandler, senderVars
  <2>1. CASE ~MayCancel(t) BY <1>1, <1>3, <2>0, <2>1 DEF CancelHandler
  <2>2. CASE MayCancel(t)
    <3>1. session \in Session /\ session # None BY <1>0, <2>2 DEF MayCancel
    <3>2. session' = [session EXCEPT !.status = "canceledBySender"]
      BY <1>3, <2>2 DEF CancelHandler
    <3>3. /\ session'.id = session.id /\ session'.files = session.files
          /\ session'.responseHandler = session.responseHandler
          /\ session'.status = "canceledBySender"
      BY <3>1, <3>2 DEF Session
    <3>4. ASSUME ~session.responseHandler PROVE Knows(session)' /\ Ending(session)'
      <4>1. Knows(session) BY <3>1, <3>4 DEF SessionAgrees
      <4>2. status[session.id] = "closed" BY <2>2, <4>1 DEF Knows, MayCancel, Named
      <4>3. Knows(session)' BY <2>0, <3>3, <4>1, <4>2 DEF Knows
      <4>4. Ending(session)' BY <3>3 DEF Ending, Open
      <4> QED BY <4>3, <4>4
    <3> QED BY <3>3, <3>4 DEF SessionAgrees
  <2> QED BY <2>1, <2>2
<1>4. CASE CloseSession BY <1>4 DEF CloseSession, SessionAgrees
<1>5. CASE ConnectionBreaks /\ UNCHANGED <<senderVars, receiverVars>>
  <2>1. UNCHANGED <<session, saving, granted>>
    BY <1>5 DEF receiverVars, ConnectionBreaks, BreakPrepare, BreakUpload
  <2>2. \A t \in Transfer, f \in File : upload'[t][f] = "200" => upload[t][f] = "200"
    BY <1>0, <1>5 DEF ConnectionBreaks, BreakPrepare, BreakUpload
  <2> QED BY <1>1, <2>1, <2>2
<1>6. CASE UNCHANGED vars BY <1>1, <1>6 DEF vars, receiverVars, httpVars
<1> QED BY <1>2, <1>3, <1>4, <1>5, <1>6, UploadAgrees, GrantAgrees DEF Next, Receiver

\* With the invariant of the transfers, this one is inductive.
LEMMA AgreeInit == Init => AgreeInv
  BY DEF Init, HttpInit, SenderInit, ReceiverInit, AgreeInv, Believed, Working, Writing,
     FinishedAll, Named, SessionAgrees

LEMMA AgreeStep == LanInv /\ AgreeInv /\ [Next]_vars => AgreeInv'
<1> SUFFICES ASSUME LanInv, AgreeInv, [Next]_vars PROVE AgreeInv'
  OBVIOUS
<1> USE DEF LanInv, AgreeInv
<1>1. Believed' /\ Working' BY BelievedStep
<1>2. FinishedAll' BY FinishedStep
<1>3. Named' BY NamedStep
<1>4. SessionAgrees' BY AgreesStep
<1> QED BY <1>1, <1>2, <1>3, <1>4

LEMMA SidesAgree == LanInv /\ AgreeInv => Agreement
<1> SUFFICES ASSUME LanInv, AgreeInv, NEW t \in Transfer,
                    status[t] = "finished", session # None, session.id = t
             PROVE  session.status = "finished"
  BY DEF Agreement
<1> USE DEF LanInv, AgreeInv
<1>1. Past(t) /\ (t \notin Message => \A f \in granted[t] : upload[t][f] = "200")
  BY DEF FinishedAll
<1>2. ~session.responseHandler
  BY <1>1 DEF Past, Stages, Stage, Asked
<1>3. Knows(session) /\ Ending(session) BY <1>2 DEF SessionAgrees
<1>4. Complete(session)
  <2> SUFFICES ASSUME NEW f \in File, session.files[f] # "skipped"
               PROVE  session.files[f] = "finished"
    BY DEF Complete
  <2> QED BY <1>1, <1>3 DEF Knows
<1>5. ~Open(session)
  <2> SUFFICES ASSUME Open(session) PROVE FALSE
    OBVIOUS
  <2>1. PICK f \in File : saving[t][f] = "history" BY <1>3, <1>4 DEF Ending
  <2>2. session.files[f] # "skipped" BY <2>1 DEF NotSkipped
  <2>3. upload[t][f] = "200" BY <1>1, <1>3, <2>2 DEF Knows
  <2> QED BY <2>1, <2>3 DEF Working, Writing
<1>6. session.status \in SessionStatus BY DEF TypeOK, ReceiverTypeOK, Session
<1>7. session.status # "canceledBySender" BY <1>3 DEF Knows
<1> QED BY <1>3, <1>5, <1>6, <1>7 DEF Knows, Open, SessionStatus

\* For any number of transfers, whoever cancels, breaks or accepts in between: when a
\* sender has finished (send_provider.dart:401), the session of its transfer on the
\* receiver (receive_controller.dart:596) has finished too, or has been closed.
THEOREM SuccessIsShared == Spec => []Agreement
<1>1. Init => LanInv /\ AgreeInv BY LanInit, AgreeInit
<1>2. LanInv /\ AgreeInv /\ [Next]_vars => LanInv' /\ AgreeInv' BY LanStep, AgreeStep
<1> QED BY <1>1, <1>2, SidesAgree, PTL DEF Spec
=============================================================================
