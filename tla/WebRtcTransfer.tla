--------------------------- MODULE WebRtcTransfer ---------------------------
(***************************************************************************)
(* A file transfer over a WebRTC data channel (core/src/webrtc/webrtc.rs)  *)
(* between the send_offer call of one device and the accept_offer call of  *)
(* another, with the controllers that hand both calls to the app           *)
(* (app/rust/src/api/webrtc.rs).                                           *)
(*                                                                         *)
(* Each call is two tasks: the call itself, which exchanges the SDPs and   *)
(* then waits for the spawned task or the end of the connection (`main`),  *)
(* and the spawned task that speaks the protocol (`task`), which nobody    *)
(* aborts when the call returns.  A message travels on the wire until the  *)
(* other end's stack acknowledges it, then waits in that end's inbox, so   *)
(* wait_buffer_empty waits for an empty wire.  The listeners of statuses   *)
(* and errors never lag.                                                   *)
(***************************************************************************)
EXTENDS Naturals, Sequences, FiniteSets, Functions, Tokens

CONSTANTS
  File,           \* ids an app may name
  Listed,         \* ids in the list the sender offers
  Size,           \* chunks of each file
  Pins,           \* strings a user may type as PIN
  NoPin,          \* `pin` is None: no challenge
  MaxTries,       \* PinConfig::max_tries
  BinaryBuffer,   \* mpsc::channel::<Bytes>(4)
  None,
  Configs,        \* input: PINs and expected keys of the two calls
  Selections,     \* input: what the receiving user may select
  Faults          \* input: what goes wrong, of AllFaults

S == "sender"
R == "receiver"
End == {S, R}
Other(e) == IF e = S THEN R ELSE S
\* link: the network drops the connection; read: the sending app's file ends early;
\* write: the receiving app fails to write; slow: a status takes more than 5 s to arrive.
AllFaults == {"link", "read", "write", "slow"}

ASSUME TransferAssumption ==
  /\ IsFiniteSet(File) /\ Listed \subseteq File
  /\ Size \in [File -> Nat]
  /\ MaxTries \in Nat /\ BinaryBuffer \in Nat \ {0}
  /\ None \notin File \cup Selections \cup {{}} /\ NoPin \notin Pins /\ "" \in Pins
  /\ Configs \subseteq [pin : [End -> Pins \cup {NoPin}],
                        expects : [End -> [owner : End \cup {None}, method : {"ed25519", "rsa-pss"}] \cup {None}]]
  /\ Selections \subseteq SUBSET File
  /\ Faults \subseteq AllFaults

VARIABLES
  config,    \* arguments of the two calls: `pin`, `expecting_public_key`
  sdp,       \* the SDPs on their way through the signaling server
  main,      \* phase of each call
  task,      \* phase of each spawned task
  link,      \* the peer connection
  wire,      \* messages to an end that its stack has not acknowledged yet
  inbox,     \* messages an end's task has still to read (receive_rx)
  shown,     \* the last RTCStatus an app was given
  slot,      \* whether the controller holds a sender for a PIN (pin_tx)
  remote_pin, pin_try,   \* verify_pin
  asked,     \* files_tx: the receiving app has the list
  selection, \* selected_files: None while the user has not answered
  published, \* selected_files_tx: what the sending app may send, None before
  feed,      \* sending_rx: the file the sending app has handed over
  fed,       \* files the sending app has handed over so far
  feeding,   \* whether the sending app still holds its controller
  sending,   \* the file whose chunks the sender puts on the channel
  file_state,\* the file the receiver takes chunks for
  last_file, \* the file whose outcome the receiver waits for
  receiving, \* receiving_tx: the file the receiving app has still to pick up
  stream,    \* binary_tx: chunks of a file the receiving app has still to read
  reader,    \* what the receiving app does with a file
  saved,     \* chunks of a file the receiving app has read
  outcome,   \* file_status_tx
  accepted,    \* history: the ends that found the other's token and PIN right
  given, whole, got, answered   \* history: progress of each file, see FileTransfer

callVars == <<config, sdp, main, link, shown>>
pinVars == <<slot, remote_pin, pin_try>>
senderVars == <<published, feed, fed, feeding, sending>>
appVars == <<receiving, stream, reader, saved, outcome>>
receiverVars == <<asked, selection, file_state, last_file, appVars>>
historyVars == <<accepted, given, whole, got, answered>>
channelVars == <<wire, inbox>>
vars == <<callVars, task, channelVars, pinVars, senderVars, receiverVars, historyVars>>

-----------------------------------------------------------------------------
(* Messages.  A text frame is a string message; a list goes out in binary   *)
(* chunks, one here, that a delimiter ends.                                 *)

Nonce(e)      == [type |-> "Nonce", from |-> e]
TokenMsg(t)   == [type |-> "Token", token |-> t]
TokenOk(t)    == [type |-> "TokenOk", token |-> t]
TokenPin(t)   == [type |-> "TokenPinRequired", token |-> t]
TokenBad      == [type |-> "TokenInvalidSignature"]
PinMsg(p)     == [type |-> "Pin", pin |-> p]
PinOk         == [type |-> "PinOk"]
PinRequired   == [type |-> "PinRequired"]
PinTooMany    == [type |-> "PinTooManyAttempts"]
List          == [type |-> "List", files |-> Listed]
Grant(s)      == [type |-> "Grant", files |-> s]
Declined      == [type |-> "Declined"]
Header(f)     == [type |-> "Header", id |-> f]
Chunk(f, n)   == [type |-> "Chunk", id |-> f, n |-> n]
Delimiter     == [type |-> "Delimiter"]
Result(f, ok) == [type |-> "Result", id |-> f, success |-> ok]

\* What an end sends in chunks: the sender all that answers a PIN, the receiver a selection.
InChunks(e, m) ==
  IF e = S THEN m.type \in {"List", "PinRequired", "PinTooManyAttempts", "Chunk"}
           ELSE m.type \in {"Grant", "Declined"}
Framed(e, m) == IF InChunks(e, m) THEN <<m, Delimiter>> ELSE <<m>>

\* The connection of an end can be written to until its own call has closed it.
CanSend(e) == main[e] # "closed"
Send(e, ms) == wire' = [wire EXCEPT ![Other(e)] = @ \o ms]
BufferEmpty(e) == wire[Other(e)] = <<>>

\* receive_string_from_chunks: all that comes before the next string message, which
\* it swallows.  The reader parses the whole, so anything but one list is an error.
Strings(e) == {i \in DOMAIN inbox[e] : ~InChunks(Other(e), inbox[e][i])}
NextString(e) == CHOOSE i \in Strings(e) : \A j \in Strings(e) : i <= j
Collected(e) ==
  IF NextString(e) = 2 THEN inbox[e][1] ELSE [type |-> "Unparsable"]
Collect(e) == inbox' = [inbox EXCEPT ![e] = SubSeq(@, NextString(e) + 1, Len(@))]
Read(e) == inbox' = [inbox EXCEPT ![e] = Tail(@)]

\* sender_nonce || receiver_nonce
SessionNonce == <<S, R>>
LocalToken(e) == Token(SigningKey(e), SessionNonce)
\* The check is optional: without an expected key every token is fine.
TokenFits(e, token) ==
  \/ config.expects[e] = None
  \/ VerifyTokenNonce(config.expects[e], token, SessionNonce)

Go(e, phase) == task' = [task EXCEPT ![e] = phase]
Show(e, status) == shown' = [shown EXCEPT ![e] = status]
\* The task returns an error: what it owns is dropped, the open file's stream included.
Fail(e) == Go(e, "err") /\ file_state' = IF e = R THEN None ELSE file_state

-----------------------------------------------------------------------------
Init ==
  /\ config \in Configs
  /\ sdp = "none" /\ main = [e \in End |-> "start"] /\ link = "new"
  /\ task = [e \in End |-> IF e = S THEN "open" ELSE "nonce"]
  /\ wire = [e \in End |-> <<>>] /\ inbox = [e \in End |-> <<>>]
  /\ shown = [e \in End |-> "None"]
  /\ slot = [e \in End |-> FALSE]
  /\ remote_pin = [e \in End |-> ""] /\ pin_try = [e \in End |-> 0]
  /\ asked = FALSE /\ selection = None
  /\ published = None /\ feed = <<>> /\ fed = {} /\ feeding = TRUE /\ sending = None
  /\ file_state = None /\ last_file = None
  /\ receiving = <<>> /\ stream = [f \in File |-> <<>>]
  /\ reader = [f \in File |-> "none"] /\ saved = [f \in File |-> <<>>]
  /\ outcome = <<>>
  /\ accepted = {} /\ given = [f \in File |-> 0] /\ whole = {}
  /\ got = [f \in File |-> 0] /\ answered = {}

-----------------------------------------------------------------------------
(* The calls.                                                               *)

\* send_offer, up to signaling.send_offer.
SendOffer ==
  /\ main[S] = "start"
  /\ main' = [main EXCEPT ![S] = "offered"] /\ sdp' = "offer"
  /\ UNCHANGED <<config, link, shown, task, channelVars, pinVars, senderVars, receiverVars, historyVars>>

\* signaling.on_answer: from here on the listener finds the callback.
OnAnswer ==
  /\ main[S] = "offered"
  /\ main' = [main EXCEPT ![S] = "waiting"]
  /\ UNCHANGED <<config, sdp, link, shown, task, channelVars, pinVars, senderVars, receiverVars, historyVars>>

\* accept_offer, up to its select!.
AcceptOffer ==
  /\ sdp = "offer" /\ main[R] = "start"
  /\ main' = [main EXCEPT ![R] = "select"] /\ sdp' = "answer"
  /\ Show(R, "SdpExchanged")
  /\ UNCHANGED <<config, link, task, channelVars, pinVars, senderVars, receiverVars, historyVars>>

\* The answer reaches the sender's listener: without a callback it is passed on to
\* the app only, and rx_answer waits for ever.
ReceiveAnswer ==
  /\ sdp = "answer"
  /\ IF main[S] = "waiting"
     THEN /\ main' = [main EXCEPT ![S] = "select"] /\ Show(S, "SdpExchanged")
          /\ link' = "up" /\ sdp' = "done"
     ELSE sdp' = "missed" /\ UNCHANGED <<main, link, shown>>
  /\ UNCHANGED <<config, task, channelVars, pinVars, senderVars, receiverVars, historyVars>>

\* Mutant: the connection is not closed with the call.
CloseChannelOnly(e) ==
  /\ main' = [main EXCEPT ![e] = "closed"]
  /\ link' = link
  /\ Show(e, "Finished")

\* Finished, then close: whether its task is done or the connection is gone.
Close(e) ==
  /\ main' = [main EXCEPT ![e] = "closed"]
  /\ link' = "down"
  /\ Show(e, "Finished")

\* The select! of a call: its task has ended.  A call whose task failed returns
\* without closing the connection; the bridge turns the error into a status.
JoinTask(e) ==
  /\ main[e] = "select" /\ task[e] \in {"ok", "err"}
  /\ IF task[e] = "ok"
     THEN Close(e)
     ELSE /\ main' = [main EXCEPT ![e] = "failed"] /\ Show(e, "Error")
          /\ UNCHANGED link
  /\ UNCHANGED <<config, sdp, task, channelVars, pinVars, senderVars, receiverVars, historyVars>>

\* The select! of a call: done_rx, the connection is Disconnected.
Disconnected(e) ==
  /\ main[e] = "select" /\ link = "down"
  /\ Close(e)
  /\ UNCHANGED <<config, sdp, task, channelVars, pinVars, senderVars, receiverVars, historyVars>>

\* The network: an acknowledged message, a lost connection.
Deliver(e) ==
  /\ link = "up" /\ wire[e] # <<>>
  /\ inbox' = [inbox EXCEPT ![e] = Append(@, Head(wire[e]))]
  /\ wire' = [wire EXCEPT ![e] = Tail(@)]
  /\ UNCHANGED <<callVars, task, pinVars, senderVars, receiverVars, historyVars>>

LoseLink ==
  /\ "link" \in Faults /\ link = "up" /\ link' = "down"
  /\ UNCHANGED <<config, sdp, main, shown, task, channelVars, pinVars, senderVars, receiverVars, historyVars>>

-----------------------------------------------------------------------------
(* Nonces and tokens.                                                       *)

OpenChannel ==
  /\ task[S] = "open" /\ link # "new" /\ CanSend(S)
  /\ Send(S, <<Nonce(S)>>)
  /\ Go(S, "nonce")
  /\ UNCHANGED <<callVars, inbox, pinVars, senderVars, receiverVars, historyVars>>

\* receive_nonce; the sender follows with its token, the receiver with its nonce.
ReceiveNonce(e) ==
  /\ task[e] = "nonce" /\ inbox[e] # <<>> /\ CanSend(e)
  /\ Read(e)
  /\ Send(e, IF e = S THEN <<TokenMsg(LocalToken(S))>> ELSE <<Nonce(R)>>)
  /\ Go(e, "token")
  /\ UNCHANGED <<callVars, pinVars, senderVars, receiverVars, historyVars>>

\* Mutant: the sender's list does not wait for the receiver's PIN.
ChallengeInPassing(e) ==
  IF config.pin[e] = NoPin
  THEN Go(e, "list") /\ accepted' = accepted \cup {e} /\ UNCHANGED shown
  ELSE Go(e, IF e = S THEN "list" ELSE "verify") /\ Show(e, "PinRequired") /\ UNCHANGED accepted
\* The other end's token is fine: is there a PIN it has to give?
Challenge(e) ==
  IF config.pin[e] = NoPin
  THEN Go(e, "list") /\ accepted' = accepted \cup {e} /\ UNCHANGED shown
  ELSE Go(e, "verify") /\ Show(e, "PinRequired") /\ UNCHANGED accepted

\* The receiver checks the token before it shows its own.
ReceiveToken ==
  LET fits == TokenFits(R, Head(inbox[R]).token) IN
  /\ task[R] = "token" /\ inbox[R] # <<>> /\ CanSend(R)
  /\ Read(R)
  /\ IF ~fits
     THEN Send(R, <<TokenBad>>) /\ Fail(R) /\ UNCHANGED <<accepted, shown>>
     ELSE /\ Send(R, <<IF config.pin[R] = NoPin THEN TokenOk(LocalToken(R)) ELSE TokenPin(LocalToken(R))>>)
          /\ Challenge(R)
          /\ UNCHANGED file_state
  /\ UNCHANGED <<config, sdp, main, link, pinVars, senderVars, asked, selection, last_file, appVars,
                 given, whole, got, answered>>

ReceiveTokenResponse ==
  LET m == Head(inbox[S]) IN
  /\ task[S] = "token" /\ inbox[S] # <<>>
  /\ Read(S)
  /\ IF m.type = "TokenInvalidSignature" \/ ~TokenFits(S, m.token)
     THEN Go(S, "err") /\ UNCHANGED <<accepted, shown>>
     ELSE IF m.type = "TokenPinRequired"
          THEN Go(S, "ask") /\ UNCHANGED <<accepted, shown>>
          ELSE Challenge(S)
  /\ UNCHANGED <<config, sdp, main, link, wire, pinVars, senderVars, receiverVars, given, whole, got, answered>>

-----------------------------------------------------------------------------
(* handle_pin: the other end asks for a PIN.                                *)

\* The status goes out before the sender for the PIN reaches the controller.
AskPin(e) ==
  /\ task[e] = "ask"
  /\ Show(e, "PinRequired")
  /\ Go(e, "slot")
  /\ UNCHANGED <<config, sdp, main, link, channelVars, pinVars, senderVars, receiverVars, historyVars>>

FillSlot(e) ==
  /\ task[e] = "slot"
  /\ slot' = [slot EXCEPT ![e] = TRUE]
  /\ Go(e, "typing")
  /\ UNCHANGED <<callVars, channelVars, remote_pin, pin_try, senderVars, receiverVars, historyVars>>

\* send_pin of the controller, and the message of handle_pin that follows.
TypePin(e) ==
  /\ slot[e] /\ CanSend(e)
  /\ slot' = [slot EXCEPT ![e] = FALSE]
  /\ \E p \in Pins : Send(e, <<PinMsg(p)>>)
  /\ Go(e, "answer")
  /\ UNCHANGED <<callVars, inbox, remote_pin, pin_try, senderVars, receiverVars, historyVars>>

\* The call has closed the connection meanwhile: the message of handle_pin fails.  A
\* controller that is dropped is no step: the task that fills the slot keeps the sender
\* too, so that handle_pin waits for a PIN for ever.
TypePinTooLate(e) ==
  /\ slot[e] /\ ~CanSend(e)
  /\ slot' = [slot EXCEPT ![e] = FALSE]
  /\ Fail(e)
  /\ UNCHANGED <<callVars, channelVars, remote_pin, pin_try, senderVars, asked, selection, last_file,
                 appVars, historyVars>>

\* The receiver's answers are single text messages.
ReceivePinReceivingResponse ==
  LET m == Head(inbox[S]) IN
  /\ task[S] = "answer" /\ inbox[S] # <<>>
  /\ Read(S)
  /\ CASE m.type = "PinOk"       -> Challenge(S)
       [] m.type = "PinRequired" -> Go(S, "ask") /\ UNCHANGED <<accepted, shown>>
       [] OTHER                  -> Go(S, "err") /\ Show(S, "TooManyAttempts") /\ UNCHANGED accepted
  /\ UNCHANGED <<config, sdp, main, link, wire, pinVars, senderVars, receiverVars,
                 given, whole, got, answered>>

\* The sender's answers come in chunks, and PinSendingResponse::Ok is its list of files.
ReceivePinSendingResponse ==
  LET m == Collected(R) IN
  /\ task[R] \in {"list", "answer"} /\ Strings(R) # {}
  /\ Collect(R)
  /\ CASE m.type = "List" ->
            Go(R, "choose") /\ Show(R, "Connected") /\ asked' = TRUE /\ UNCHANGED file_state
       [] m.type = "PinRequired" ->
            Go(R, "ask") /\ UNCHANGED <<shown, asked, file_state>>
       [] OTHER ->
            /\ Fail(R) /\ UNCHANGED asked
            /\ shown' = IF m.type = "PinTooManyAttempts" /\ task[R] = "answer"
                        THEN [shown EXCEPT ![R] = "TooManyAttempts"] ELSE shown
  /\ UNCHANGED <<config, sdp, main, link, wire, pinVars, senderVars, selection, last_file, appVars, historyVars>>

-----------------------------------------------------------------------------
(* verify_pin: this end asks for a PIN.  The PIN it starts from is empty,   *)
(* and both of its locals end with it.                                      *)

PinRight(e) ==
  /\ task[e] = "verify" /\ remote_pin[e] = config.pin[e] /\ CanSend(e)
  /\ accepted' = accepted \cup {e}
  /\ remote_pin' = [remote_pin EXCEPT ![e] = ""] /\ pin_try' = [pin_try EXCEPT ![e] = 0]
  /\ Go(e, "list")
  /\ wire' = IF e = R THEN [wire EXCEPT ![S] = Append(@, PinOk)] ELSE wire
  /\ UNCHANGED <<callVars, inbox, slot, senderVars, receiverVars, given, whole, got, answered>>

\* Mutant: one try too many.
PinWantedOnceMore(e) ==
  /\ task[e] = "verify" /\ remote_pin[e] # config.pin[e] /\ CanSend(e)
  /\ pin_try[e] <= MaxTries
  /\ wire' = IF e = S \/ pin_try[e] > 0
             THEN [wire EXCEPT ![Other(e)] = @ \o Framed(e, PinRequired)] ELSE wire
  /\ Go(e, "pin")
  /\ UNCHANGED <<callVars, inbox, pinVars, senderVars, receiverVars, historyVars>>

\* The receiver's token response has asked for the first PIN already.
PinWanted(e) ==
  /\ task[e] = "verify" /\ remote_pin[e] # config.pin[e] /\ CanSend(e)
  /\ pin_try[e] < MaxTries
  /\ wire' = IF e = S \/ pin_try[e] > 0
             THEN [wire EXCEPT ![Other(e)] = @ \o Framed(e, PinRequired)] ELSE wire
  /\ Go(e, "pin")
  /\ UNCHANGED <<callVars, inbox, pinVars, senderVars, receiverVars, historyVars>>

PinExhausted(e) ==
  /\ task[e] = "verify" /\ remote_pin[e] # config.pin[e] /\ CanSend(e)
  /\ pin_try[e] >= MaxTries
  /\ Send(e, Framed(e, PinTooMany))
  /\ Show(e, "TooManyAttempts")
  /\ Fail(e)
  /\ UNCHANGED <<config, sdp, main, link, inbox, pinVars, senderVars, asked, selection, last_file,
                 appVars, historyVars>>

ReceivePin(e) ==
  LET m == Head(inbox[e]) IN
  /\ task[e] = "pin" /\ inbox[e] # <<>>
  /\ Read(e)
  /\ IF m.type = "Pin"
     THEN /\ remote_pin' = [remote_pin EXCEPT ![e] = m.pin]
          /\ pin_try' = [pin_try EXCEPT ![e] = @ + 1]
          /\ Go(e, "verify") /\ UNCHANGED file_state
     ELSE Fail(e) /\ UNCHANGED <<remote_pin, pin_try>>
  /\ UNCHANGED <<callVars, wire, slot, senderVars, asked, selection, last_file, appVars, historyVars>>

-----------------------------------------------------------------------------
(* The list and the selection.                                              *)

SendList ==
  /\ task[S] = "list" /\ CanSend(S)
  /\ Show(S, "Connected")
  /\ Send(S, Framed(S, List))
  /\ Go(S, "selection")
  /\ UNCHANGED <<config, sdp, main, link, inbox, pinVars, senderVars, receiverVars, historyVars>>

\* send_selection, decline, or a controller that is dropped: each takes the one
\* sender of the selection.  Without an answer the task just ends.
Choose ==
  /\ task[R] = "choose"
  /\ \/ \E s \in Selections :
          /\ CanSend(R)
          /\ selection' = s /\ Send(R, Framed(R, Grant(s))) /\ Go(R, "files")
     \/ /\ CanSend(R)
        /\ selection' = {} /\ Send(R, Framed(R, Declined)) /\ Go(R, "ok")
     \/ selection' = {} /\ Go(R, "ok") /\ UNCHANGED wire
     \/ ~CanSend(R) /\ selection' \in Selections /\ Go(R, "err") /\ UNCHANGED wire
  /\ UNCHANGED <<callVars, inbox, pinVars, senderVars, asked, file_state, last_file, appVars, historyVars>>

ReceiveSelection ==
  LET m == Collected(S) IN
  /\ task[S] = "selection" /\ Strings(S) # {}
  /\ Collect(S)
  /\ IF m.type = "Grant"
     THEN published' = m.files /\ Go(S, "feed") /\ UNCHANGED shown
     ELSE Show(S, "Declined") /\ Go(S, "ok") /\ UNCHANGED published
  /\ UNCHANGED <<config, sdp, main, link, wire, pinVars, feed, fed, feeding, sending, receiverVars, historyVars>>

-----------------------------------------------------------------------------
(* The sending app and the loop of send_offer.                              *)

\* send_file of the controller: the one slot of sending_rx.
SendFile(f) ==
  /\ task[S] \in {"feed", "file"} /\ feeding /\ feed = <<>> /\ f \notin fed
  /\ feed' = <<f>> /\ fed' = fed \cup {f}
  /\ UNCHANGED <<callVars, task, channelVars, pinVars, published, feeding, sending, receiverVars, historyVars>>

DropSendController ==
  /\ task[S] \in {"feed", "file"} /\ feeding /\ feed = <<>>
  /\ feeding' = FALSE
  /\ UNCHANGED <<callVars, task, channelVars, pinVars, published, feed, fed, sending, receiverVars, historyVars>>

\* Mutant: whatever the app hands over is sent.
StartFileUnselected ==
  /\ task[S] = "feed" /\ feed # <<>>
  /\ feed' = <<>>
  /\ IF CanSend(S)
     THEN /\ Send(S, <<Header(Head(feed))>>)
          /\ sending' = Head(feed) /\ Go(S, "file")
     ELSE UNCHANGED <<wire, sending, task>>
  /\ UNCHANGED <<callVars, inbox, pinVars, published, fed, feeding, receiverVars, historyVars>>

\* A file that was not selected, or a closed channel, is an error of that file only.
StartFile ==
  /\ task[S] = "feed" /\ feed # <<>>
  /\ feed' = <<>>
  /\ IF Head(feed) \in published /\ CanSend(S)
     THEN /\ Send(S, <<Header(Head(feed))>>)
          /\ sending' = Head(feed) /\ Go(S, "file")
     ELSE UNCHANGED <<wire, sending, task>>
  /\ UNCHANGED <<callVars, inbox, pinVars, published, fed, feeding, receiverVars, historyVars>>

SendChunk ==
  /\ task[S] = "file" /\ CanSend(S) /\ given[sending] < Size[sending]
  /\ Send(S, <<Chunk(sending, given[sending] + 1)>>)
  /\ given' = [given EXCEPT ![sending] = @ + 1]
  /\ UNCHANGED <<callVars, task, inbox, pinVars, senderVars, receiverVars, accepted, whole, got, answered>>

\* The app has dropped its RTCFileSender; it may have done so before the end of its file.
EndFile ==
  /\ task[S] = "file"
  /\ given[sending] = Size[sending] \/ "read" \in Faults \/ ~CanSend(S)
  /\ whole' = IF CanSend(S) THEN whole \cup {sending} ELSE whole
  /\ sending' = None /\ Go(S, "feed")
  /\ UNCHANGED <<callVars, channelVars, pinVars, published, feed, fed, feeding, receiverVars,
                 accepted, given, got, answered>>

\* Mutant: the call ends with the last file, without the exchange that confirms it.
SendDelimiterAndLeave ==
  /\ task[S] = "feed" /\ ~feeding /\ feed = <<>>
  /\ CanSend(S)
  /\ Send(S, <<Delimiter>>)
  /\ Go(S, "ok")
  /\ UNCHANGED <<callVars, inbox, pinVars, senderVars, receiverVars, historyVars>>

\* sending_rx is closed: every byte acknowledged, then the delimiter.
SendDelimiter ==
  /\ task[S] = "feed" /\ ~feeding /\ feed = <<>>
  /\ BufferEmpty(S) /\ CanSend(S)
  /\ Send(S, <<Delimiter>>)
  /\ Go(S, "last")
  /\ UNCHANGED <<callVars, inbox, pinVars, senderVars, receiverVars, historyVars>>

\* One message, whichever it is.
ReceiveLast ==
  /\ task[S] = "last" /\ inbox[S] # <<>>
  /\ Read(S)
  /\ Go(S, "ok")
  /\ UNCHANGED <<callVars, wire, pinVars, senderVars, receiverVars, historyVars>>

-----------------------------------------------------------------------------
(* The loop of accept_offer and the receiving app.                          *)

\* A string message ends the open file; the message waits for the app's outcome.
CloseFile ==
  /\ task[R] = "files" /\ inbox[R] # <<>>
  /\ file_state # None /\ Head(inbox[R]).type # "Chunk"
  /\ last_file' = file_state /\ file_state' = None
  /\ Go(R, "result")
  /\ UNCHANGED <<callVars, channelVars, pinVars, senderVars, asked, selection, appVars, historyVars>>

\* Mutant: a file without a report yet has failed (try_recv).
SendResultAtOnce ==
  /\ task[R] = "result" /\ CanSend(R)
  /\ Send(R, <<Result(last_file, outcome # <<>> /\ outcome[1].success)>>)
  /\ outcome' = <<>>
  /\ answered' = answered \cup {last_file}
  /\ last_file' = None
  /\ Go(R, IF Head(inbox[R]) = Delimiter THEN "flush" ELSE "files")
  /\ UNCHANGED <<callVars, inbox, pinVars, senderVars, asked, selection, file_state, receiving, stream,
                 reader, saved, accepted, given, whole, got>>

\* The outcome goes out under the id of the file that has ended.
SendResult ==
  /\ task[R] = "result" /\ outcome # <<>> /\ CanSend(R)
  /\ Send(R, <<Result(last_file, Head(outcome).success)>>)
  /\ outcome' = <<>>
  /\ answered' = answered \cup {last_file}
  /\ last_file' = None
  /\ Go(R, IF Head(inbox[R]) = Delimiter THEN "flush" ELSE "files")
  /\ UNCHANGED <<callVars, inbox, pinVars, senderVars, asked, selection, file_state, receiving, stream,
                 reader, saved, accepted, given, whole, got>>

\* End of all files: at most 5 s for the last status to be sent.
EndOfAllFiles ==
  /\ task[R] = "flush" /\ inbox[R] # <<>> /\ (BufferEmpty(R) \/ "slow" \in Faults)
  /\ Read(R)
  /\ Go(R, "ok")
  /\ UNCHANGED <<callVars, wire, pinVars, senderVars, receiverVars, historyVars>>

\* A file without token or without size is an error of that file only.
ReadHeader ==
  LET m == Head(inbox[R]) IN
  /\ task[R] = "files" /\ inbox[R] # <<>> /\ m.type = "Header" /\ file_state = None
  /\ IF m.id \in selection \cap Listed
     THEN /\ receiving = <<>>
          /\ file_state' = m.id /\ receiving' = <<m.id>>
     ELSE UNCHANGED <<file_state, receiving>>
  /\ Read(R)
  /\ UNCHANGED <<callVars, task, wire, pinVars, senderVars, asked, selection, last_file, stream, reader,
                 saved, outcome, historyVars>>

\* The delimiter counts as one only when it ends a file: otherwise it is parsed as a header.
DelimiterAsHeader ==
  /\ task[R] = "files" /\ inbox[R] # <<>> /\ Head(inbox[R]) = Delimiter /\ file_state = None
  /\ Read(R)
  /\ Fail(R)
  /\ UNCHANGED <<callVars, wire, pinVars, senderVars, asked, selection, last_file, appVars, historyVars>>

\* Mutant: a chunk that finds the stream full is lost (try_send).
ReadChunkOrDrop ==
  LET m == Head(inbox[R]) IN
  /\ task[R] = "files" /\ inbox[R] # <<>> /\ m.type = "Chunk"
  /\ Read(R)
  /\ IF file_state = None
     THEN UNCHANGED <<task, file_state, stream, got>>
     ELSE IF reader[file_state] = "dropped"
          THEN Fail(R) /\ UNCHANGED <<stream, got>>
          ELSE /\ stream' = IF Len(stream[file_state]) < BinaryBuffer
                            THEN [stream EXCEPT ![file_state] = Append(@, <<m.id, m.n>>)] ELSE stream
               /\ got' = [got EXCEPT ![file_state] = @ + 1]
               /\ UNCHANGED <<task, file_state>>
  /\ UNCHANGED <<callVars, wire, pinVars, senderVars, asked, selection, last_file, receiving, reader,
                 saved, outcome, accepted, given, whole, answered>>

\* The app has dropped its RTCFileReceiver: the send fails, and the task with it.
ReadChunk ==
  LET m == Head(inbox[R]) IN
  /\ task[R] = "files" /\ inbox[R] # <<>> /\ m.type = "Chunk"
  /\ Read(R)
  /\ IF file_state = None
     THEN UNCHANGED <<task, file_state, stream, got>>
     ELSE IF reader[file_state] = "dropped"
          THEN Fail(R) /\ UNCHANGED <<stream, got>>
          ELSE /\ Len(stream[file_state]) < BinaryBuffer
               /\ stream' = [stream EXCEPT ![file_state] = Append(@, <<m.id, m.n>>)]
               /\ got' = [got EXCEPT ![file_state] = @ + 1]
               /\ UNCHANGED <<task, file_state>>
  /\ UNCHANGED <<callVars, wire, pinVars, senderVars, asked, selection, last_file, receiving, reader,
                 saved, outcome, accepted, given, whole, answered>>

\* listen_receiving hands the app a file.
TakeFile ==
  /\ receiving # <<>>
  /\ receiving' = <<>>
  /\ reader' = [reader EXCEPT ![Head(receiving)] = "reading"]
  /\ UNCHANGED <<callVars, task, channelVars, pinVars, senderVars, asked, selection, file_state, last_file,
                 stream, saved, outcome, historyVars>>

\* RTCFileReceiver::receive, which goes on reading for an app that has stopped writing.
Write(f) ==
  /\ reader[f] \in {"reading", "failed"} /\ stream[f] # <<>>
  /\ stream' = [stream EXCEPT ![f] = Tail(@)]
  /\ saved' = IF reader[f] = "reading" THEN [saved EXCEPT ![f] = Append(@, Head(stream[f]))] ELSE saved
  /\ UNCHANGED <<callVars, task, channelVars, pinVars, senderVars, asked, selection, file_state, last_file,
                 receiving, reader, outcome, historyVars>>

\* send_file_status: success once the stream has ended, failure at any time.
Report(f) ==
  /\ reader[f] = "reading" /\ outcome = <<>>
  /\ \/ /\ file_state # f /\ stream[f] = <<>>
        /\ reader' = [reader EXCEPT ![f] = "done"]
        /\ outcome' = <<[id |-> f, success |-> TRUE]>>
     \/ /\ "write" \in Faults
        /\ reader' \in {[reader EXCEPT ![f] = r] : r \in {"failed", "dropped"}}
        /\ outcome' = <<[id |-> f, success |-> FALSE]>>
  /\ UNCHANGED <<callVars, task, channelVars, pinVars, senderVars, asked, selection, file_state, last_file,
                 receiving, stream, saved, historyVars>>

-----------------------------------------------------------------------------
\* A task that outlives its call finds the channel closed at its next message.
SendFails(e) ==
  /\ ~CanSend(e)
  /\ \/ task[e] \in {"open", "verify", "list"}
     \/ task[e] \in {"nonce", "token"} /\ inbox[e] # <<>>
     \/ task[e] = "result" /\ outcome # <<>>
  /\ Fail(e)
  /\ UNCHANGED <<callVars, channelVars, pinVars, senderVars, asked, selection, last_file, appVars, historyVars>>

Call(e) == JoinTask(e) \/ Disconnected(e)
Challenged(e) == AskPin(e) \/ FillSlot(e)
Verify(e) == PinRight(e) \/ PinWanted(e) \/ PinExhausted(e) \/ ReceivePin(e)
SendTask ==
  \/ OpenChannel \/ ReceiveNonce(S) \/ ReceiveTokenResponse \/ Challenged(S)
  \/ ReceivePinReceivingResponse \/ Verify(S) \/ SendList \/ ReceiveSelection
  \/ StartFile \/ SendChunk \/ EndFile \/ SendDelimiter \/ ReceiveLast \/ SendFails(S)
ReceiveTask ==
  \/ ReceiveNonce(R) \/ ReceiveToken \/ Verify(R) \/ ReceivePinSendingResponse \/ Challenged(R)
  \/ CloseFile \/ SendResult \/ EndOfAllFiles \/ ReadHeader \/ DelimiterAsHeader \/ ReadChunk
  \/ SendFails(R)
App ==
  \/ \E e \in End : TypePin(e) \/ TypePinTooLate(e)
  \/ Choose \/ TakeFile \/ DropSendController
  \/ \E f \in File : SendFile(f) \/ Write(f) \/ Report(f)
Next ==
  \/ SendOffer \/ OnAnswer \/ AcceptOffer \/ ReceiveAnswer \/ LoseLink
  \/ \E e \in End : Call(e) \/ Deliver(e)
  \/ SendTask \/ ReceiveTask \/ App
Spec == Init /\ [][Next]_vars

-----------------------------------------------------------------------------
(* Fairness: tokio runs every task that can go on, the network and the      *)
(* signaling server deliver, and the apps hand over, write and report what  *)
(* they are given.  The users owe nothing: a PIN may never be typed and a   *)
(* list never be answered.                                                  *)
Fairness ==
  /\ \A e \in End : WF_vars(Call(e)) /\ WF_vars(Deliver(e))
  /\ WF_vars(SendTask) /\ WF_vars(ReceiveTask)
  /\ WF_vars(OnAnswer) /\ WF_vars(ReceiveAnswer)
  /\ WF_vars(TakeFile) /\ WF_vars(DropSendController)
  /\ \A f \in File : WF_vars(Write(f)) /\ WF_vars(Report(f))
FairSpec == Spec /\ Fairness

-----------------------------------------------------------------------------
(* Properties.                                                              *)

MainPhase == {"start", "offered", "waiting", "select", "closed", "failed"}
TaskPhase ==
  {"open", "nonce", "token", "verify", "pin", "list", "ask", "slot", "typing", "answer", "selection",
   "choose", "feed", "file", "last", "files", "result", "flush", "ok", "err"}
Status == {"None", "SdpExchanged", "Connected", "PinRequired", "TooManyAttempts", "Declined",
           "Finished", "Error"}

\* The types of both calls' state (webrtc.rs, api/webrtc.rs); pin_try is a u8 that
\* never passes max_tries.
TypeOK ==
  /\ config \in Configs
  /\ sdp \in {"none", "offer", "answer", "missed", "done"}
  /\ main \in [End -> MainPhase] /\ task \in [End -> TaskPhase]
  /\ link \in {"new", "up", "down"} /\ shown \in [End -> Status]
  /\ slot \in [End -> BOOLEAN]
  /\ remote_pin \in [End -> Pins] /\ pin_try \in [End -> 0..MaxTries]
  /\ asked \in BOOLEAN /\ selection \in {None} \cup SUBSET File
  /\ published \in {None} \cup SUBSET File /\ Len(feed) <= 1 /\ fed \subseteq File
  /\ feeding \in BOOLEAN
  /\ {sending, file_state, last_file} \subseteq File \cup {None}
  /\ Len(receiving) <= 1 /\ Len(outcome) <= 1
  /\ \A f \in File : Len(stream[f]) <= BinaryBuffer
  /\ reader \in [File -> {"none", "reading", "failed", "dropped", "done"}]
  /\ accepted \subseteq End /\ whole \cup answered \subseteq File
  /\ \A f \in File : got[f] \in 0..given[f] /\ given[f] \in 0..Size[f]

\* The two calls keep what a transfer promises its users (FileTransfer): both
\* challenges come before the list, only selected files move, one at a time, and each
\* ends at the receiver only with all that its sender gave.
Transfer == INSTANCE FileTransfer WITH
  open <- file_state, granted <- IF selection = None THEN {} ELSE selection
Promise == Transfer!Spec

\* The receiving user sees the list only once both ends have accepted the other's token
\* and PIN, and nothing of a file leaves before that user has selected this very file:
\* the selection travels over the same channel as answers to PINs and lists.
Consented ==
  /\ asked => accepted = End
  /\ \A f \in File : (given[f] > 0 \/ f \in whole) => asked /\ selection # None /\ f \in selection

\* The app reads the chunks of each file in order, none missing, repeated or from
\* another file (process_in_chunks, accept_offer's binary_tx).
InOrder ==
  \A f \in File : reader[f] \notin {"failed", "dropped"} =>
    saved[f] \o stream[f] = [i \in 1..got[f] |-> <<f, i>>]

\* A call whose task is done leaves nothing of a file on the wire: closing the
\* connection cuts no file short (wait_buffer_empty before the delimiter).
NothingCutShort ==
  task[S] = "ok" => \A i \in DOMAIN wire[R] : wire[R][i].type # "Chunk"

\* The outcome that goes out under a file's id is the one the app reported for that
\* file: file_status_tx carries an id that accept_offer never looks at.
OutcomeIsOwn ==
  (task[R] = "result" /\ outcome # <<>>) => outcome[1].id = last_file

\* A call whose task failed returns without closing the connection.  The other end hears
\* of it in two cases only: the receiver has found its token wrong, or all tries of a PIN
\* are spent.
Announced(x) == pin_try[x] = MaxTries \/ (x = R /\ ~TokenFits(R, LocalToken(S)))
FailedSilently(x) == main[x] = "failed" /\ ~Announced(x)
\* A user owes a PIN or an answer to the list.
UserAsked == link = "up" /\ (task[R] = "choose" \/ \E x \in End : slot[x])

\* A call that waits for its task returns, once the users have answered: only an answer
\* that came before its callback and a failure that the other end never hears of leave it
\* waiting, whatever happens to the connection, the files and the disks in between.
CallReturns ==
  \A e \in End :
    (main[e] = "select" ~> (main[e] # "select" \/ sdp = "missed" \/ FailedSilently(Other(e))))
      \/ <>[]UserAsked

\* "Wait for the last status to be sent" (webrtc.rs:913): the sender that has finished
\* has had the outcome of every file it sent.
EveryFileAnswered ==
  task[S] = "ok" => \A f \in whole : f \in answered
=============================================================================
