------------------------ MODULE SignalingRoomProofs ------------------------
(***************************************************************************)
(* What the clients of the signaling server show, proved with TLAPS for    *)
(* every number of clients, Updates and messages: the server keeps its     *)
(* promises when its clients are those of the code, and an app at rest     *)
(* shows its room.                                                         *)
(***************************************************************************)
EXTENDS SignalingRoom, SignalingServerProofs

-----------------------------------------------------------------------------
(* The room is a run of the server: what a client does restricts the        *)
(* server's steps or leaves the server alone.                               *)

LEMMA ServerStep == [RoomNext]_roomVars => [Next]_vars
<1> SUFFICES ASSUME [RoomNext]_roomVars PROVE [Next]_vars
  OBVIOUS
<1>1. CASE UNCHANGED roomVars
  BY <1>1 DEF roomVars
<1>2. CASE ServerAlone
  BY <1>2 DEF ServerAlone, ServerMain, ServerRecv, Next, MainTask, SendTask, RecvTask
<1>3. ASSUME NEW p \in Peer, Connect(p) PROVE Next
  BY <1>3 DEF Connect, Next, MainTask
<1>4. ASSUME NEW p \in Peer, Transmit(p) PROVE Next
  BY <1>4 DEF Transmit, Next, SendTask
<1>5. ASSUME NEW p \in Peer, Submit(p) PROVE Next
  BY <1>5 DEF Submit, Next, RecvTask
<1>6. ASSUME NEW p \in Peer, LeaveMap(p) PROVE Next
  BY <1>6 DEF LeaveMap, Next, MainTask
<1>7. ASSUME NEW p \in Peer, Quit(p) PROVE Next
  BY <1>7 DEF Quit, Next
<1>8. ASSUME NEW p \in Peer, Reader(p) \/ Listen(p) \/ App(p) \/ SendUpdate(p) PROVE UNCHANGED vars
  BY <1>8 DEF Reader, ReadFrame, Return, Listen, App, Handle, AcceptOffer, EndOfStream, SendUpdate
<1>9. ASSUME NEW p \in Peer, NEW t \in Peer,
             SendOffer(p, t) \/ OnAnswer(p, t) \/ SendAnswer(p, t) \/ FailOffer(p, t)
      PROVE  UNCHANGED vars
  BY <1>9 DEF SendOffer, OnAnswer, SendAnswer, FailOffer
<1>10. CASE RoomNext
  BY <1>2, <1>3, <1>4, <1>5, <1>6, <1>7, <1>8, <1>9, <1>10 DEF RoomNext
<1> QED BY <1>1, <1>10

\* The server with these clients is the server, so that all that holds of it holds here
\* (signaling.rs, ws_controller.rs).
THEOREM RoomIsServer == RoomSpec => Spec
<1>1. RoomInit => Init BY DEF RoomInit
<1> QED BY <1>1, ServerStep, PTL DEF RoomSpec, Spec

\* An Update on its way is news to everyone it still has to reach, in the room as well
\* (send_update_to_other_peers_with_lock).
THEOREM RoomUpdatesAreNews == RoomSpec => []UpdateIsNews
  BY RoomIsServer, UpdatesAreNews, PTL

\* The invariants of the server that the proofs below use.
ServerInv == TypeInv /\ IsolationInv /\ NewsInv

LEMMA ServerInvariant == RoomSpec => []ServerInv
<1>1. Init => TypeInv /\ IsolationInv /\ NewsInv
  BY TypeInit, IsolationInit, NewsInit
<1>2. (TypeInv /\ IsolationInv /\ NewsInv) /\ [Next]_vars => (TypeInv /\ IsolationInv /\ NewsInv)'
  BY TypeStep, IsolationStep, NewsStep
<1>3. Spec => [](TypeInv /\ IsolationInv /\ NewsInv)
  BY <1>1, <1>2, PTL DEF Spec
<1> QED BY <1>3, RoomIsServer, PTL DEF ServerInv

-----------------------------------------------------------------------------
(* Types of the clients' state.                                             *)

\* What a queue of messages is: a sequence, no longer than it may get.
QueueTypes ==
  /\ frames \in [Peer -> Seq(Message)] /\ received \in [Peer -> Seq(Message)]
  /\ events \in [Peer -> Seq(Message)]
  /\ \A p \in Peer : Len(frames[p]) <= SocketBuffer /\ Len(received[p]) <= 2

AppTypes ==
  /\ connect \in [Peer -> {"off", "waiting", "listening", "ended", "gone"}]
  /\ devices \in [Peer -> SUBSET ClientInfo] /\ myself \in [Peer -> BOOLEAN]
  /\ busy \in [Peer -> SUBSET Peer] /\ answering \in [Peer -> SUBSET Peer]
  /\ on_answer \in [Peer -> [Peer -> {"none", "sent", "waiting", "called"}]]
  /\ missed \in [Peer -> SUBSET Peer] /\ torn \subseteq Peer

OutgoingTypes ==
  /\ outgoing \in [Peer -> Seq([type : {"Update"}] \cup [type : {"Sdp"}, target : Peer])]
  /\ \A p \in Peer : Len(outgoing[p]) <= 2

ClientTypes == QueueTypes /\ AppTypes /\ OutgoingTypes

\* A message taken from the front of a queue.
LEMMA FrontTypes ==
  ASSUME NEW M, NEW q \in Seq(M), q # <<>>
  PROVE  Head(q) \in M /\ Tail(q) \in Seq(M) /\ Len(Tail(q)) = Len(q) - 1 /\ Len(q) \in Nat
  BY HeadTailProperties

LEMMA BackTypes ==
  ASSUME NEW M, NEW q \in Seq(M), NEW m \in M
  PROVE  Append(q, m) \in Seq(M) /\ Len(Append(q, m)) = Len(q) + 1 /\ Len(q) \in Nat
  BY AppendProperties

LEMMA ServerQueue ==
  ASSUME TypeInv, NEW p \in Peer
  PROVE  chan[p] \in Seq(Message)
  BY DEF TypeInv, TypeOK

LEMMA QueueStep ==
  ASSUME TypeInv, QueueTypes, [RoomNext]_roomVars
  PROVE  QueueTypes'
<1>1. ASSUME UNCHANGED <<frames, received, events>> PROVE QueueTypes'
  BY <1>1 DEF QueueTypes
<1>2. ASSUME NEW p \in Peer, Transmit(p) PROVE QueueTypes'
  <2>1. chan[p] \in Seq(Message) /\ chan[p] # <<>>
    BY <1>2, ServerQueue DEF Transmit, WriteSocket
  <2>2. Head(chan[p]) \in Message
    BY <2>1, FrontTypes
  <2>3. CASE online[p]
    <3>1. /\ Append(frames[p], Head(chan[p])) \in Seq(Message)
          /\ Len(Append(frames[p], Head(chan[p]))) = Len(frames[p]) + 1 /\ Len(frames[p]) \in Nat
      BY <2>2, BackTypes DEF QueueTypes
    <3>2. Len(frames[p]) < SocketBuffer /\ SocketBuffer \in Nat
      BY <1>2, <2>3, RoomAssumption DEF Transmit
    <3>3. Len(Append(frames[p], Head(chan[p]))) <= SocketBuffer
      BY <3>1, <3>2
    <3>4. /\ frames' = [frames EXCEPT ![p] = Append(frames[p], Head(chan[p]))]
          /\ UNCHANGED <<received, events>>
      BY <1>2, <2>3 DEF Transmit
    <3> QED BY <3>1, <3>3, <3>4 DEF QueueTypes
  <2>4. CASE ~online[p]
    BY <1>1, <1>2, <2>4 DEF Transmit
  <2> QED BY <2>3, <2>4
<1>3. ASSUME NEW p \in Peer, Quit(p) PROVE QueueTypes'
  <2>1. <<>> \in Seq(Message) /\ Len(<<>>) = 0
    OBVIOUS
  <2>2. 0 <= SocketBuffer
    BY RoomAssumption
  <2>3. /\ frames' = [frames EXCEPT ![p] = <<>>] /\ received' = [received EXCEPT ![p] = <<>>]
        /\ events' = [events EXCEPT ![p] = <<>>]
    BY <1>3 DEF Quit
  <2> QED BY <2>1, <2>2, <2>3 DEF QueueTypes
<1>4. ASSUME NEW p \in Peer, ReadFrame(p) PROVE QueueTypes'
  <2>1. /\ frames[p] \in Seq(Message) /\ frames[p] # <<>> /\ received[p] \in Seq(Message)
        /\ Len(received[p]) < 2
    BY <1>4 DEF ReadFrame, QueueTypes
  <2>2. /\ Head(frames[p]) \in Message /\ Tail(frames[p]) \in Seq(Message)
        /\ Len(Tail(frames[p])) = Len(frames[p]) - 1 /\ Len(frames[p]) \in Nat
    BY <2>1, FrontTypes
  <2>3. /\ Append(received[p], Head(frames[p])) \in Seq(Message)
        /\ Len(Append(received[p], Head(frames[p]))) = Len(received[p]) + 1
        /\ Len(received[p]) \in Nat
    BY <2>1, <2>2, BackTypes
  <2>4. Len(Append(received[p], Head(frames[p]))) <= 2 /\ Len(Tail(frames[p])) <= SocketBuffer
    BY <2>1, <2>2, <2>3, RoomAssumption DEF QueueTypes
  <2>5. /\ received' = [received EXCEPT ![p] = Append(received[p], Head(frames[p]))]
        /\ frames' = [frames EXCEPT ![p] = Tail(frames[p])] /\ events' = events
    BY <1>4 DEF ReadFrame
  <2> QED BY <2>2, <2>3, <2>4, <2>5 DEF QueueTypes
<1>5. ASSUME NEW p \in Peer, Listen(p) PROVE QueueTypes'
  <2>1. received[p] \in Seq(Message) /\ received[p] # <<>> /\ events[p] \in Seq(Message)
    BY <1>5 DEF Listen, QueueTypes
  <2>2. /\ Head(received[p]) \in Message /\ Tail(received[p]) \in Seq(Message)
        /\ Len(Tail(received[p])) = Len(received[p]) - 1 /\ Len(received[p]) \in Nat
    BY <2>1, FrontTypes
  <2>3. Append(events[p], Head(received[p])) \in Seq(Message)
    BY <2>1, <2>2, BackTypes
  <2>4. Len(Tail(received[p])) <= 2
    BY <2>2 DEF QueueTypes
  <2>5. /\ events' = [events EXCEPT ![p] = Append(events[p], Head(received[p]))]
        /\ received' = [received EXCEPT ![p] = Tail(received[p])] /\ frames' = frames
    BY <1>5 DEF Listen
  <2> QED BY <2>2, <2>3, <2>4, <2>5 DEF QueueTypes
<1>6. ASSUME NEW p \in Peer, Handle(p) PROVE QueueTypes'
  <2>1. events[p] \in Seq(Message) /\ events[p] # <<>>
    BY <1>6 DEF Handle, QueueTypes
  <2>2. Tail(events[p]) \in Seq(Message)
    BY <2>1, FrontTypes
  <2>3. events' = [events EXCEPT ![p] = Tail(events[p])] /\ UNCHANGED <<frames, received>>
    BY <1>6 DEF Handle
  <2> QED BY <2>2, <2>3 DEF QueueTypes
<1>7. ASSUME ServerAlone \/ UNCHANGED roomVars PROVE QueueTypes'
  BY <1>1, <1>7 DEF ServerAlone, clientVars, roomVars
<1>8. ASSUME NEW p \in Peer,
             Connect(p) \/ Submit(p) \/ LeaveMap(p) \/ Return(p) \/ AcceptOffer(p) \/ EndOfStream(p) \/ SendUpdate(p)
      PROVE  QueueTypes'
  BY <1>1, <1>8 DEF Connect, Submit, LeaveMap, Return, AcceptOffer, EndOfStream, SendUpdate, clientVars
<1>9. ASSUME NEW p \in Peer, NEW t \in Peer,
             SendOffer(p, t) \/ OnAnswer(p, t) \/ SendAnswer(p, t) \/ FailOffer(p, t)
      PROVE  QueueTypes'
  BY <1>1, <1>9 DEF SendOffer, OnAnswer, SendAnswer, FailOffer
<1> QED BY <1>2, <1>3, <1>4, <1>5, <1>6, <1>7, <1>8, <1>9 DEF RoomNext, Reader, App

-----------------------------------------------------------------------------
\* What a message says about other devices.
LEMMA MessageFields ==
  ASSUME NEW m \in Message
  PROVE  /\ m.type \in {"Hello", "Join", "Update", "Sdp", "Left", "Error"}
         /\ m.type = "Hello" => m.peers \in SUBSET ClientInfo
         /\ m.type \in {"Join", "Update", "Sdp"} => m.peer \in ClientInfo /\ m.peer.id \in Peer
         /\ m.type = "Left" => m.id \in Peer
         /\ About(m) \in SUBSET Peer
<1>1. CASE m \in [type : {"Hello"}, peers : SUBSET ClientInfo]
  <2>1. m.type = "Hello" /\ m.peers \in SUBSET ClientInfo BY <1>1
  <2>2. About(m) = {i.id : i \in m.peers} BY <2>1 DEF About, Ids
  <2> QED BY <2>1, <2>2 DEF ClientInfo
<1>2. CASE m \in [type : {"Join", "Update", "Sdp"}, peer : ClientInfo]
  <2>1. m.type \in {"Join", "Update", "Sdp"} /\ m.peer \in ClientInfo BY <1>2
  <2>2. m.peer.id \in Peer BY <2>1 DEF ClientInfo
  <2>3. About(m) = {m.peer.id} BY <2>1 DEF About
  <2> QED BY <2>1, <2>2, <2>3
<1>3. CASE m \in [type : {"Left"}, id : Peer]
  BY <1>3 DEF About
<1>4. CASE m \in [type : {"Error"}]
  BY <1>4 DEF About
<1> QED BY <1>1, <1>2, <1>3, <1>4 DEF Message

\* The list of devices after one turn of the app's loop.
After(m, ds, me) ==
  CASE m.type = "Hello" -> RegisterAll(ds, m.peers)
    [] m.type \in {"Join", "Update"} /\ me -> Register(ds, m.peer)
    [] m.type = "Left" -> UnregisterDevice(ds, m.id)
    [] OTHER -> ds

LEMMA AfterType ==
  ASSUME NEW m \in Message, NEW ds \in SUBSET ClientInfo, NEW me \in BOOLEAN
  PROVE  /\ m.type = "Hello" =>
              After(m, ds, me)
                = {d \in ds : \A i \in m.peers : d.id # i.id \/ Token(d) # Token(i)} \cup m.peers
         /\ (m.type \in {"Join", "Update"} /\ me) =>
              After(m, ds, me)
                = {d \in ds : d.id # m.peer.id \/ Token(d) # Token(m.peer)} \cup {m.peer}
         /\ (m.type \in {"Join", "Update"} /\ ~me) => After(m, ds, me) = ds
         /\ m.type = "Left" => After(m, ds, me) = {d \in ds : d.id # m.id}
         /\ m.type \in {"Sdp", "Error"} => After(m, ds, me) = ds
         /\ After(m, ds, me) \in SUBSET ClientInfo
<1>1. /\ m.type \in {"Hello", "Join", "Update", "Sdp", "Left", "Error"}
      /\ m.type = "Hello" => m.peers \in SUBSET ClientInfo
      /\ m.type \in {"Join", "Update", "Sdp"} => m.peer \in ClientInfo
  BY MessageFields
<1>2. CASE m.type = "Hello" BY <1>1, <1>2 DEF After, RegisterAll
<1>3. CASE m.type \in {"Join", "Update"} /\ me BY <1>1, <1>3 DEF After, Register
<1>4. CASE m.type \in {"Join", "Update"} /\ ~me BY <1>1, <1>4 DEF After
<1>5. CASE m.type = "Left" BY <1>1, <1>5 DEF After, UnregisterDevice
<1>6. CASE m.type \in {"Sdp", "Error"} BY <1>1, <1>6 DEF After
<1> QED BY <1>1, <1>2, <1>3, <1>4, <1>5, <1>6

\* One turn of the app's loop.
LEMMA HandleEffect ==
  ASSUME QueueTypes, AppTypes, NEW p \in Peer, Handle(p), NEW m, m = Head(events[p])
  PROVE  /\ m \in Message /\ events[p] # <<>>
         /\ events' = [events EXCEPT ![p] = Tail(events[p])]
         /\ myself' = [myself EXCEPT ![p] = myself[p] \/ m.type = "Hello"]
         /\ devices' = [devices EXCEPT ![p] = After(m, devices[p], myself[p])]
         /\ missed' = [missed EXCEPT ![p] =
               IF m.type # "Hello" /\ ~myself[p] THEN missed[p] \cup About(m) ELSE missed[p]]
<1>1. events[p] # <<>> /\ events[p] \in Seq(Message)
  BY DEF Handle, QueueTypes
<1>2. m \in Message
  BY <1>1, FrontTypes
<1>3. events' = [events EXCEPT ![p] = Tail(events[p])]
  BY DEF Handle
<1>4. myself' = [myself EXCEPT ![p] = myself[p] \/ m.type = "Hello"]
  <2>1. myself' = IF m.type = "Hello" THEN [myself EXCEPT ![p] = TRUE] ELSE myself
    BY DEF Handle, IsHello
  <2>2. myself \in [Peer -> BOOLEAN]
    BY DEF AppTypes
  <2>3. CASE m.type = "Hello"
    BY <2>1, <2>3
  <2>4. CASE m.type # "Hello"
    <3>1. (myself[p] \/ m.type = "Hello") = myself[p] BY <2>2, <2>4
    <3> QED BY <2>1, <2>2, <2>4, <3>1
  <2> QED BY <2>3, <2>4
<1>5. devices' = [devices EXCEPT ![p] = After(m, devices[p], myself[p])]
  BY DEF Handle, After, IsHello
<1>6. missed' = [missed EXCEPT ![p] =
               IF m.type # "Hello" /\ ~myself[p] THEN missed[p] \cup About(m) ELSE missed[p]]
  <2>1. missed' = IF m.type # "Hello" /\ ~myself[p]
                  THEN [missed EXCEPT ![p] = missed[p] \cup About(m)] ELSE missed
    BY DEF Handle, IsHello
  <2> QED BY <2>1 DEF AppTypes
<1> QED BY <1>1, <1>2, <1>3, <1>4, <1>5, <1>6

LEMMA AppStep ==
  ASSUME QueueTypes, AppTypes, [RoomNext]_roomVars
  PROVE  AppTypes'
<1>1. ASSUME UNCHANGED <<connect, devices, myself, busy, answering, on_answer, missed, torn>> PROVE AppTypes'
  BY <1>1 DEF AppTypes
<1>2. ASSUME NEW p \in Peer, Connect(p) PROVE AppTypes'
  <2>1. PICK c \in {"waiting", "ended"} : connect' = [connect EXCEPT ![p] = c]
    BY <1>2 DEF Connect
  <2> QED BY <1>2, <2>1 DEF Connect, AppTypes, appVars
<1>3. ASSUME NEW p \in Peer, LeaveMap(p) PROVE AppTypes'
  BY <1>3 DEF LeaveMap, AppTypes, clientVars, appVars
<1>4. ASSUME NEW p \in Peer, Quit(p) PROVE AppTypes'
  BY <1>4 DEF Quit, AppTypes
<1>5. ASSUME NEW p \in Peer, Return(p) PROVE AppTypes'
  BY <1>5 DEF Return, AppTypes, appVars
<1>6. ASSUME NEW p \in Peer, Listen(p) PROVE AppTypes'
  <2>1. on_answer' \in [Peer -> [Peer -> {"none", "sent", "waiting", "called"}]]
    <3>1. PICK u : u = Head(received[p]).peer.id
      OBVIOUS
    <3>2. PICK f : f = [on_answer[p] EXCEPT ![u] = "called"]
      OBVIOUS
    <3>3. on_answer' = on_answer \/ on_answer' = [on_answer EXCEPT ![p] = f]
      BY <1>6, <3>1, <3>2 DEF Listen
    <3>4. on_answer \in [Peer -> [Peer -> {"none", "sent", "waiting", "called"}]]
      BY DEF AppTypes
    <3>5. f \in [Peer -> {"none", "sent", "waiting", "called"}]
      BY <3>2, <3>4
    <3> QED BY <3>3, <3>4, <3>5
  <2> QED BY <1>6, <2>1 DEF Listen, AppTypes, appVars
<1>7. ASSUME NEW p \in Peer, Handle(p) PROVE AppTypes'
  <2>1. PICK m : m = Head(events[p])
    OBVIOUS
  <2>2. /\ m \in Message
        /\ myself' = [myself EXCEPT ![p] = myself[p] \/ m.type = "Hello"]
        /\ devices' = [devices EXCEPT ![p] = After(m, devices[p], myself[p])]
        /\ missed' = [missed EXCEPT ![p] =
               IF m.type # "Hello" /\ ~myself[p] THEN missed[p] \cup About(m) ELSE missed[p]]
    BY <1>7, <2>1, HandleEffect
  <2>3. devices[p] \in SUBSET ClientInfo /\ myself[p] \in BOOLEAN
    BY DEF AppTypes
  <2>4. After(m, devices[p], myself[p]) \in SUBSET ClientInfo
    BY <2>2, <2>3, AfterType
  <2>5. About(m) \in SUBSET Peer
    BY <2>2, MessageFields
  <2>6. devices' \in [Peer -> SUBSET ClientInfo] /\ myself' \in [Peer -> BOOLEAN]
    BY <2>2, <2>4 DEF AppTypes
  <2>7. missed' \in [Peer -> SUBSET Peer]
    BY <2>2, <2>5 DEF AppTypes
  <2>8. busy' \in [Peer -> SUBSET Peer]
    <3>1. CASE m.type = "Sdp" /\ ~IsAnswer(p, m)
      <4>1. busy' = [busy EXCEPT ![p] = {m.peer.id}]
        BY <1>7, <2>1, <3>1 DEF Handle
      <4>2. About(m) = {m.peer.id}
        BY <3>1 DEF About
      <4>3. {m.peer.id} \in SUBSET Peer
        BY <2>5, <4>2
      <4> QED BY <4>1, <4>3 DEF AppTypes
    <3>2. CASE ~(m.type = "Sdp" /\ ~IsAnswer(p, m))
      BY <1>7, <2>1, <3>2 DEF Handle, AppTypes
    <3> QED BY <3>1, <3>2
  <2> QED BY <1>7, <2>6, <2>7, <2>8 DEF Handle, AppTypes
<1>8. ASSUME NEW p \in Peer, AcceptOffer(p) \/ EndOfStream(p) PROVE AppTypes'
  <2>1. CASE AcceptOffer(p) BY <2>1 DEF AcceptOffer, AppTypes
  <2>2. CASE EndOfStream(p) BY <2>2 DEF EndOfStream, AppTypes
  <2> QED BY <1>8, <2>1, <2>2
<1>9. ASSUME NEW p \in Peer, NEW t \in Peer, SendOffer(p, t) PROVE AppTypes'
  BY <1>9 DEF SendOffer, AppTypes, appVars
<1>10. ASSUME NEW p \in Peer, NEW t \in Peer, OnAnswer(p, t) PROVE AppTypes'
  BY <1>10 DEF OnAnswer, AppTypes, appVars
<1>11. ASSUME NEW p \in Peer, NEW t \in Peer, SendAnswer(p, t) \/ FailOffer(p, t) PROVE AppTypes'
  BY <1>11 DEF SendAnswer, FailOffer, AppTypes, appVars
<1>12. ASSUME ServerAlone \/ UNCHANGED roomVars PROVE AppTypes'
  BY <1>1, <1>12 DEF ServerAlone, clientVars, appVars, roomVars
<1>13. ASSUME NEW p \in Peer, Transmit(p) \/ Submit(p) \/ ReadFrame(p) \/ SendUpdate(p) PROVE AppTypes'
  BY <1>1, <1>13 DEF Transmit, Submit, ReadFrame, SendUpdate, appVars
<1> QED BY <1>2, <1>3, <1>4, <1>5, <1>6, <1>7, <1>8, <1>9, <1>10, <1>11, <1>12, <1>13
        DEF RoomNext, Reader, App

\* A client has at most one message in send_rx and one in the hand of the writing task.
LEMMA EnqueueType ==
  ASSUME OutgoingTypes, NEW p \in Peer, NEW m, Enqueue(p, m),
         m \in [type : {"Update"}] \cup [type : {"Sdp"}, target : Peer]
  PROVE  OutgoingTypes'
<1> DEFINE M == [type : {"Update"}] \cup [type : {"Sdp"}, target : Peer]
<1>1. outgoing[p] \in Seq(M) /\ Len(outgoing[p]) < 2
  BY DEF OutgoingTypes, Enqueue
<1> HIDE DEF M
<1>2. m \in M
  BY DEF M
<1>3. /\ Append(outgoing[p], m) \in Seq(M) /\ Len(Append(outgoing[p], m)) = Len(outgoing[p]) + 1
      /\ Len(outgoing[p]) \in Nat
  BY <1>1, <1>2, BackTypes
<1>4. Len(Append(outgoing[p], m)) <= 2
  BY <1>1, <1>3
<1>5. outgoing \in [Peer -> Seq(M)] /\ \A q \in Peer : Len(outgoing[q]) <= 2
  BY DEF OutgoingTypes, M
<1>6. outgoing' = [outgoing EXCEPT ![p] = Append(outgoing[p], m)]
  BY DEF Enqueue
<1>7. outgoing' \in [Peer -> Seq(M)] /\ \A q \in Peer : Len(outgoing'[q]) <= 2
  BY <1>3, <1>4, <1>5, <1>6
<1> QED BY <1>7 DEF OutgoingTypes, M

LEMMA OutgoingStep ==
  ASSUME OutgoingTypes, [RoomNext]_roomVars
  PROVE  OutgoingTypes'
<1>1. ASSUME UNCHANGED outgoing PROVE OutgoingTypes'
  BY <1>1 DEF OutgoingTypes
<1>2. ASSUME NEW p \in Peer, Submit(p) PROVE OutgoingTypes'
  <2> DEFINE M == [type : {"Update"}] \cup [type : {"Sdp"}, target : Peer]
  <2>1. outgoing[p] \in Seq(M) /\ outgoing[p] # <<>> /\ Len(outgoing[p]) <= 2
    BY <1>2 DEF Submit, OutgoingTypes
  <2>2. outgoing \in [Peer -> Seq(M)] /\ \A q \in Peer : Len(outgoing[q]) <= 2
    BY DEF OutgoingTypes
  <2> HIDE DEF M
  <2>3. /\ Tail(outgoing[p]) \in Seq(M) /\ Len(Tail(outgoing[p])) = Len(outgoing[p]) - 1
        /\ Len(outgoing[p]) \in Nat
    BY <2>1, FrontTypes
  <2>4. Len(Tail(outgoing[p])) <= 2
    BY <2>1, <2>3
  <2>5. outgoing' = [outgoing EXCEPT ![p] = Tail(outgoing[p])]
    BY <1>2 DEF Submit
  <2>6. outgoing' \in [Peer -> Seq(M)] /\ \A q \in Peer : Len(outgoing'[q]) <= 2
    BY <2>2, <2>3, <2>4, <2>5
  <2> QED BY <2>6 DEF OutgoingTypes, M
<1>3. ASSUME NEW p \in Peer, Quit(p) PROVE OutgoingTypes'
  <2>1. <<>> \in Seq([type : {"Update"}] \cup [type : {"Sdp"}, target : Peer]) /\ Len(<<>>) = 0
    OBVIOUS
  <2> QED BY <1>3, <2>1 DEF Quit, OutgoingTypes
<1>4. ASSUME NEW p \in Peer, SendUpdate(p) PROVE OutgoingTypes'
  <2>1. PICK m : m = [type |-> "Update"]
    OBVIOUS
  <2>2. Enqueue(p, m) /\ m \in [type : {"Update"}] \cup [type : {"Sdp"}, target : Peer]
    BY <1>4, <2>1 DEF SendUpdate
  <2> QED BY <2>2, EnqueueType
<1>5. ASSUME NEW p \in Peer, NEW t \in Peer, SendOffer(p, t) \/ SendAnswer(p, t) PROVE OutgoingTypes'
  <2>1. PICK m : m = [type |-> "Sdp", target |-> t]
    OBVIOUS
  <2>2. Enqueue(p, m) /\ m \in [type : {"Update"}] \cup [type : {"Sdp"}, target : Peer]
    BY <1>5, <2>1 DEF SendOffer, SendAnswer
  <2> QED BY <2>2, EnqueueType
<1>6. ASSUME ServerAlone \/ UNCHANGED roomVars PROVE OutgoingTypes'
  BY <1>1, <1>6 DEF ServerAlone, clientVars, roomVars
<1>7. ASSUME NEW p \in Peer, Connect(p) \/ Transmit(p) \/ LeaveMap(p) \/ Reader(p) \/ Listen(p) \/ App(p)
      PROVE  OutgoingTypes'
  BY <1>1, <1>7 DEF Connect, Transmit, LeaveMap, Reader, ReadFrame, Return, Listen, App, Handle,
     AcceptOffer, EndOfStream, clientVars
<1>8. ASSUME NEW p \in Peer, NEW t \in Peer, OnAnswer(p, t) \/ FailOffer(p, t) PROVE OutgoingTypes'
  BY <1>1, <1>8 DEF OnAnswer, FailOffer
<1> QED BY <1>2, <1>3, <1>4, <1>5, <1>6, <1>7, <1>8 DEF RoomNext

LEMMA ClientTypesInit == RoomInit => ClientTypes
<1> SUFFICES ASSUME RoomInit PROVE ClientTypes
  OBVIOUS
<1>1. \A M : <<>> \in Seq(M)
  OBVIOUS
<1>2. Len(<<>>) = 0 /\ 0 <= SocketBuffer
  BY RoomAssumption
<1>3. QueueTypes
  BY <1>1, <1>2 DEF RoomInit, QueueTypes
<1>4. AppTypes
  BY DEF RoomInit, AppTypes
<1>5. OutgoingTypes
  BY <1>1, <1>2 DEF RoomInit, OutgoingTypes
<1> QED BY <1>3, <1>4, <1>5 DEF ClientTypes

LEMMA ClientTypesStep == ServerInv /\ ClientTypes /\ [RoomNext]_roomVars => ClientTypes'
  BY QueueStep, AppStep, OutgoingStep DEF ClientTypes, ServerInv

LEMMA ClientTypesInvariant == RoomSpec => []ClientTypes
  BY ClientTypesInit, ClientTypesStep, ServerInvariant, PTL DEF RoomSpec

\* Every queue on the way to the app holds messages of the server and is no longer than it
\* may be, and the app's own state keeps its types (signaling.rs, signaling_provider.dart).
THEOREM RoomTypes == RoomSpec => []RoomTypeOK
<1>1. ASSUME ClientTypes PROVE RoomTypeOK
  <2>1. ASSUME NEW q \in Seq(Message) PROVE Range(q) \subseteq Message
    BY <2>1 DEF Range
  <2>2. ASSUME NEW p \in Peer
        PROVE  Range(frames[p]) \cup Range(received[p]) \cup Range(events[p]) \subseteq Message
    BY <1>1, <2>1 DEF ClientTypes, QueueTypes
  <2> QED BY <1>1, <2>2 DEF ClientTypes, QueueTypes, AppTypes, OutgoingTypes, RoomTypeOK
<1>2. ClientTypes => RoomTypeOK
  BY <1>1
<1> QED BY <1>2, ClientTypesInvariant, PTL

-----------------------------------------------------------------------------
(* A queue of messages and the list of devices it will be merged into.  An  *)
(* entry is held if some message, or the list, has it and nothing later      *)
(* replaces or removes it; a device is absent if nothing brings it back       *)
(* after its Left, or after a list without it.                               *)

\* The devices a message brings into the list.
Carried(m) ==
  CASE m.type = "Hello" -> m.peers
    [] m.type \in {"Join", "Update"} -> {m.peer}
    [] OTHER -> {}

\* A message that leaves the entry i in the list, or brings the same.
Sparing(m, i) ==
  /\ m.type = "Left" => m.id # i.id
  /\ \A j \in Carried(m) : j.id = i.id => j = i \/ Token(j) # Token(i)

Kept(q, k, i) == \A j \in k+1..Len(q) : Sparing(q[j], i)
Held(q, ds, i) ==
  \/ i \in ds /\ Kept(q, 0, i)
  \/ \E k \in 1..Len(q) : i \in Carried(q[k]) /\ Kept(q, k, i)

Silent(q, k, t) == \A j \in k+1..Len(q) : t \notin Ids(Carried(q[j]))
Absent(q, ds, t) ==
  \/ t \notin Ids(ds) /\ Silent(q, 0, t)
  \/ \E k \in 1..Len(q) : q[k] = Left(t) /\ Silent(q, k, t)

\* The app will hear of t before it knows who it is itself.
NoHello(q) == \A k \in 1..Len(q) : ~IsHello(q[k])
Early(q, t) == \E k \in 1..Len(q) : t \in About(q[k]) /\ \A j \in 1..k : ~IsHello(q[j])

LEMMA CarriedIsAbout ==
  ASSUME NEW m \in Message
  PROVE  Ids(Carried(m)) \subseteq About(m)
<1>1. m.type \in {"Hello", "Join", "Update", "Sdp", "Left", "Error"}
  BY MessageFields
<1>2. CASE m.type = "Hello" BY <1>2 DEF Carried, About
<1>3. CASE m.type \in {"Join", "Update"} BY <1>3 DEF Carried, About, Ids
<1>4. CASE m.type \in {"Sdp", "Left", "Error"}
  <2>1. Carried(m) = {} BY <1>4 DEF Carried
  <2> QED BY <2>1 DEF Ids
<1> QED BY <1>1, <1>2, <1>3, <1>4

\* One more message at the back of a queue.
LEMMA AtTheBack ==
  ASSUME NEW q \in Seq(Message), NEW m \in Message
  PROVE  /\ Append(q, m) \in Seq(Message) /\ Len(Append(q, m)) = Len(q) + 1 /\ Len(q) \in Nat
         /\ Append(q, m)[Len(q) + 1] = m
         /\ \A j \in 1..Len(q) : Append(q, m)[j] = q[j]
         /\ \A k \in 0..Len(q) : \A j \in k+1..Len(Append(q, m)) :
              (j \in k+1..Len(q) /\ Append(q, m)[j] = q[j]) \/ Append(q, m)[j] = m
         /\ \A j \in Len(q)+2..Len(Append(q, m)) : FALSE
<1>1. /\ Append(q, m) \in Seq(Message) /\ Len(Append(q, m)) = Len(q) + 1 /\ Len(q) \in Nat
      /\ Append(q, m)[Len(q) + 1] = m
      /\ \A j \in 1..Len(q) : Append(q, m)[j] = q[j]
  BY AppendProperties
<1>2. ASSUME NEW k \in 0..Len(q), NEW j \in k+1..Len(Append(q, m))
      PROVE  (j \in k+1..Len(q) /\ Append(q, m)[j] = q[j]) \/ Append(q, m)[j] = m
  <2>1. j = Len(q) + 1 \/ (j \in k+1..Len(q) /\ j \in 1..Len(q))
    BY <1>1
  <2> QED BY <1>1, <2>1
<1>3. \A j \in Len(q)+2..Len(Append(q, m)) : FALSE
  BY <1>1
<1> QED BY <1>1, <1>2, <1>3

LEMMA HeldAtTheBack ==
  ASSUME NEW q \in Seq(Message), NEW m \in Message, NEW ds, NEW i
  PROVE  /\ Held(q, ds, i) /\ Sparing(m, i) => Held(Append(q, m), ds, i)
         /\ i \in Carried(m) => Held(Append(q, m), ds, i)
<1> DEFINE b == Append(q, m)
<1>1. /\ Len(b) = Len(q) + 1 /\ Len(q) \in Nat /\ b[Len(q) + 1] = m
      /\ \A j \in 1..Len(q) : b[j] = q[j]
      /\ \A k \in 0..Len(q) : \A j \in k+1..Len(b) : (j \in k+1..Len(q) /\ b[j] = q[j]) \/ b[j] = m
      /\ \A j \in Len(q)+2..Len(b) : FALSE
  BY AtTheBack
<1> HIDE DEF b
<1>2. ASSUME NEW k \in 0..Len(q), Kept(q, k, i), Sparing(m, i) PROVE Kept(b, k, i)
  BY <1>1, <1>2 DEF Kept
<1>3. ASSUME Held(q, ds, i), Sparing(m, i) PROVE Held(b, ds, i)
  <2>1. CASE i \in ds /\ Kept(q, 0, i)
    <3>1. 0 \in 0..Len(q) BY <1>1
    <3> QED BY <1>2, <1>3, <2>1, <3>1 DEF Held
  <2>2. CASE \E k \in 1..Len(q) : i \in Carried(q[k]) /\ Kept(q, k, i)
    <3>1. PICK k \in 1..Len(q) : i \in Carried(q[k]) /\ Kept(q, k, i)
      BY <2>2
    <3>2. k \in 0..Len(q) /\ k \in 1..Len(b) /\ b[k] = q[k]
      BY <1>1, <3>1
    <3> QED BY <1>2, <1>3, <3>1, <3>2 DEF Held
  <2> QED BY <1>3, <2>1, <2>2 DEF Held
<1>4. ASSUME i \in Carried(m) PROVE Held(b, ds, i)
  <2>1. Len(q) + 1 \in 1..Len(b) /\ (Len(q) + 1) + 1 = Len(q) + 2
    BY <1>1
  <2>2. Kept(b, Len(q) + 1, i)
    BY <1>1, <2>1 DEF Kept
  <2> QED BY <1>1, <1>4, <2>1, <2>2 DEF Held
<1> QED BY <1>3, <1>4 DEF b

LEMMA AbsentAtTheBack ==
  ASSUME NEW q \in Seq(Message), NEW m \in Message, NEW ds, NEW t
  PROVE  /\ Absent(q, ds, t) /\ t \notin Ids(Carried(m)) => Absent(Append(q, m), ds, t)
         /\ m = Left(t) => Absent(Append(q, m), ds, t)
<1> DEFINE b == Append(q, m)
<1>1. /\ Len(b) = Len(q) + 1 /\ Len(q) \in Nat /\ b[Len(q) + 1] = m
      /\ \A j \in 1..Len(q) : b[j] = q[j]
      /\ \A k \in 0..Len(q) : \A j \in k+1..Len(b) : (j \in k+1..Len(q) /\ b[j] = q[j]) \/ b[j] = m
      /\ \A j \in Len(q)+2..Len(b) : FALSE
  BY AtTheBack
<1> HIDE DEF b
<1>2. ASSUME NEW k \in 0..Len(q), Silent(q, k, t), t \notin Ids(Carried(m)) PROVE Silent(b, k, t)
  BY <1>1, <1>2 DEF Silent
<1>3. ASSUME Absent(q, ds, t), t \notin Ids(Carried(m)) PROVE Absent(b, ds, t)
  <2>1. CASE t \notin Ids(ds) /\ Silent(q, 0, t)
    <3>1. 0 \in 0..Len(q) BY <1>1
    <3> QED BY <1>2, <1>3, <2>1, <3>1 DEF Absent
  <2>2. CASE \E k \in 1..Len(q) : q[k] = Left(t) /\ Silent(q, k, t)
    <3>1. PICK k \in 1..Len(q) : q[k] = Left(t) /\ Silent(q, k, t)
      BY <2>2
    <3>2. k \in 0..Len(q) /\ k \in 1..Len(b) /\ b[k] = q[k]
      BY <1>1, <3>1
    <3> QED BY <1>2, <1>3, <3>1, <3>2 DEF Absent
  <2> QED BY <1>3, <2>1, <2>2 DEF Absent
<1>4. ASSUME m = Left(t) PROVE Absent(b, ds, t)
  <2>1. Len(q) + 1 \in 1..Len(b) /\ (Len(q) + 1) + 1 = Len(q) + 2
    BY <1>1
  <2>2. Silent(b, Len(q) + 1, t)
    BY <1>1, <2>1 DEF Silent
  <2> QED BY <1>1, <1>4, <2>1, <2>2 DEF Absent
<1> QED BY <1>3, <1>4 DEF b

LEMMA EarlyAtTheBack ==
  ASSUME NEW q \in Seq(Message), NEW m \in Message, NEW t
  PROVE  /\ Early(q, t) => Early(Append(q, m), t)
         /\ NoHello(q) /\ ~IsHello(m) => NoHello(Append(q, m))
         /\ NoHello(q) /\ ~IsHello(m) /\ t \in About(m) => Early(Append(q, m), t)
<1> DEFINE b == Append(q, m)
<1>1. /\ Len(b) = Len(q) + 1 /\ Len(q) \in Nat /\ b[Len(q) + 1] = m
      /\ \A j \in 1..Len(q) : b[j] = q[j]
  BY AtTheBack
<1> HIDE DEF b
<1>2. ASSUME Early(q, t) PROVE Early(b, t)
  <2>1. PICK k \in 1..Len(q) : t \in About(q[k]) /\ \A j \in 1..k : ~IsHello(q[j])
    BY <1>2 DEF Early
  <2>2. k \in 1..Len(b) /\ b[k] = q[k]
    BY <1>1, <2>1
  <2>3. ASSUME NEW j \in 1..k PROVE ~IsHello(b[j])
    <3>1. j \in 1..Len(q) BY <1>1, <2>1
    <3> QED BY <1>1, <2>1, <3>1
  <2> QED BY <2>1, <2>2, <2>3 DEF Early
<1>3. ASSUME NoHello(q), ~IsHello(m) PROVE NoHello(b)
  <2>1. ASSUME NEW j \in 1..Len(b) PROVE ~IsHello(b[j])
    <3>1. j \in 1..Len(q) \/ j = Len(q) + 1 BY <1>1
    <3> QED BY <1>1, <1>3, <3>1 DEF NoHello
  <2> QED BY <2>1 DEF NoHello
<1>4. ASSUME NoHello(q), ~IsHello(m), t \in About(m) PROVE Early(b, t)
  <2>1. NoHello(b) BY <1>3, <1>4
  <2>2. Len(b) \in 1..Len(b) /\ b[Len(b)] = m BY <1>1
  <2> QED BY <1>4, <2>1, <2>2 DEF Early, NoHello
<1> QED BY <1>2, <1>3, <1>4 DEF b

\* A Hello at the back of a queue that brought nothing to an empty list.
LEMMA HelloAtTheBack ==
  ASSUME NEW q \in Seq(Message), NoHello(q), NEW h \in SUBSET ClientInfo, NEW t, t \notin Ids(h),
         Hello(h) \in Message
  PROVE  Early(q, t) \/ Absent(Append(q, Hello(h)), {}, t)
<1> SUFFICES ASSUME ~Early(q, t) PROVE Absent(Append(q, Hello(h)), {}, t)
  OBVIOUS
<1>0. Len(q) \in Nat
  OBVIOUS
<1>1. ASSUME NEW k \in 1..Len(q) PROVE t \notin Ids(Carried(q[k]))
  <2>1. \A j \in 1..k : j \in 1..Len(q)
    BY <1>0
  <2>2. t \notin About(q[k])
    BY <2>1 DEF Early, NoHello
  <2>3. q[k] \in Message
    OBVIOUS
  <2> QED BY <2>2, <2>3, CarriedIsAbout
<1>2. Silent(q, 0, t)
  <2>1. 0 + 1 = 1
    OBVIOUS
  <2> QED BY <1>1, <2>1 DEF Silent
<1>3. t \notin Ids({})
  BY DEF Ids
<1>4. Absent(q, {}, t)
  BY <1>2, <1>3 DEF Absent
<1>5. Carried(Hello(h)) = h
  BY DEF Carried, Hello
<1> QED BY <1>4, <1>5, AbsentAtTheBack

\* The first message of a queue, and what is left of it.
LEMMA AtTheFront ==
  ASSUME NEW q \in Seq(Message), q # <<>>
  PROVE  /\ Head(q) = q[1] /\ Head(q) \in Message /\ Tail(q) \in Seq(Message)
         /\ Len(Tail(q)) = Len(q) - 1 /\ Len(q) \in Nat \ {0}
         /\ \A j \in 1..Len(Tail(q)) : Tail(q)[j] = q[j + 1]
         /\ \A k \in 1..Len(q) : k # 1 => k - 1 \in 1..Len(Tail(q)) /\ Tail(q)[k - 1] = q[k]
         /\ \A k \in 1..Len(q) : \A j \in (k-1)+1..Len(Tail(q)) :
              Tail(q)[j] = q[j+1] /\ j+1 \in k+1..Len(q)
<1>1. /\ Head(q) \in Message /\ Tail(q) \in Seq(Message) /\ Len(Tail(q)) = Len(q) - 1
      /\ \A j \in 1..Len(Tail(q)) : Tail(q)[j] = q[j + 1]
  BY HeadTailProperties
<1>2. Head(q) = q[1] /\ Len(q) \in Nat \ {0}
  BY EmptySeq
<1>3. ASSUME NEW k \in 1..Len(q), k # 1 PROVE k - 1 \in 1..Len(Tail(q)) /\ Tail(q)[k - 1] = q[k]
  <2>1. k - 1 \in 1..Len(Tail(q)) /\ (k - 1) + 1 = k
    BY <1>1, <1>2, <1>3
  <2> QED BY <1>1, <2>1
<1>4. ASSUME NEW k \in 1..Len(q), NEW j \in (k-1)+1..Len(Tail(q))
      PROVE  Tail(q)[j] = q[j+1] /\ j+1 \in k+1..Len(q)
  <2>1. j \in 1..Len(Tail(q)) /\ j+1 \in k+1..Len(q)
    BY <1>1, <1>2
  <2> QED BY <1>1, <2>1
<1> QED BY <1>1, <1>2, <1>3, <1>4

LEMMA KeptBehind ==
  ASSUME NEW q \in Seq(Message), q # <<>>, NEW k \in 1..Len(q), NEW i
  PROVE  /\ Kept(q, k, i) => Kept(Tail(q), k - 1, i)
         /\ Silent(q, k, i) => Silent(Tail(q), k - 1, i)
<1>1. \A j \in (k-1)+1..Len(Tail(q)) : Tail(q)[j] = q[j+1] /\ j+1 \in k+1..Len(q)
  BY AtTheFront
<1>2. ASSUME Kept(q, k, i) PROVE Kept(Tail(q), k - 1, i)
  BY <1>1, <1>2 DEF Kept
<1>3. ASSUME Silent(q, k, i) PROVE Silent(Tail(q), k - 1, i)
  BY <1>1, <1>3 DEF Silent
<1> QED BY <1>2, <1>3

\* What the first message does to an entry that is in the list and spared, or that it brings.
LEMMA HandledEntry ==
  ASSUME NEW m \in Message, NEW ds \in SUBSET ClientInfo, NEW me \in BOOLEAN, NEW i
  PROVE  /\ i \in ds /\ Sparing(m, i) => i \in After(m, ds, me)
         /\ i \in Carried(m) => i \in After(m, ds, me) \/ (~me /\ m.type # "Hello" /\ i.id \in About(m))
<1>1. /\ m.type \in {"Hello", "Join", "Update", "Sdp", "Left", "Error"}
      /\ m.type \in {"Join", "Update", "Sdp"} => m.peer \in ClientInfo
  BY MessageFields
<1>2. CASE m.type = "Hello"
  <2>1. After(m, ds, me) = {d \in ds : \A j \in m.peers : d.id # j.id \/ Token(d) # Token(j)} \cup m.peers
    BY <1>2, AfterType
  <2>2. Carried(m) = m.peers
    BY <1>2 DEF Carried
  <2>3. ASSUME i \in ds, Sparing(m, i) PROVE i \in After(m, ds, me)
    <3>1. CASE i \in m.peers BY <2>1, <3>1
    <3>2. CASE i \notin m.peers
      <4>1. \A j \in m.peers : i.id # j.id \/ Token(i) # Token(j)
        BY <2>2, <2>3, <3>2 DEF Sparing
      <4> QED BY <2>1, <2>3, <4>1
    <3> QED BY <3>1, <3>2
  <2> QED BY <2>1, <2>2, <2>3
<1>3. CASE m.type \in {"Join", "Update"}
  <2>1. Carried(m) = {m.peer} /\ About(m) = {m.peer.id}
    BY <1>3 DEF Carried, About
  <2>2. CASE me
    <3>1. After(m, ds, me) = {d \in ds : d.id # m.peer.id \/ Token(d) # Token(m.peer)} \cup {m.peer}
      BY <1>3, <2>2, AfterType
    <3>2. ASSUME i \in ds, Sparing(m, i) PROVE i \in After(m, ds, me)
      <4>1. i = m.peer \/ i.id # m.peer.id \/ Token(i) # Token(m.peer)
        BY <2>1, <3>2 DEF Sparing
      <4> QED BY <3>1, <3>2, <4>1
    <3> QED BY <2>1, <3>1, <3>2
  <2>3. CASE ~me
    <3>1. After(m, ds, me) = ds
      BY <1>3, <2>3, AfterType
    <3> QED BY <1>3, <2>1, <2>3, <3>1
  <2> QED BY <2>2, <2>3
<1>4. CASE m.type = "Left"
  <2>1. After(m, ds, me) = {d \in ds : d.id # m.id} /\ Carried(m) = {}
    BY <1>4, AfterType DEF Carried
  <2> QED BY <1>4, <2>1 DEF Sparing
<1>5. CASE m.type \in {"Sdp", "Error"}
  <2>1. After(m, ds, me) = ds /\ Carried(m) = {}
    BY <1>5, AfterType DEF Carried
  <2> QED BY <2>1
<1> QED BY <1>1, <1>2, <1>3, <1>4, <1>5

\* A device that the first message does not bring is not in the list afterwards, if it was
\* not before or the message is its Left.
LEMMA HandledAbsence ==
  ASSUME NEW m \in Message, NEW ds \in SUBSET ClientInfo, NEW me \in BOOLEAN, NEW t
  PROVE  /\ t \notin Ids(ds) /\ t \notin Ids(Carried(m)) => t \notin Ids(After(m, ds, me))
         /\ m = Left(t) => t \notin Ids(After(m, ds, me))
<1>1. m.type \in {"Hello", "Join", "Update", "Sdp", "Left", "Error"}
  BY MessageFields
<1>2. After(m, ds, me) \subseteq ds \cup Carried(m)
  <2>1. CASE m.type = "Hello"
    <3>1. After(m, ds, me) = {d \in ds : \A j \in m.peers : d.id # j.id \/ Token(d) # Token(j)} \cup m.peers
      BY <2>1, AfterType
    <3>2. Carried(m) = m.peers BY <2>1 DEF Carried
    <3> QED BY <3>1, <3>2
  <2>2. CASE m.type \in {"Join", "Update"}
    <3>1. Carried(m) = {m.peer} BY <2>2 DEF Carried
    <3>2. CASE me
      <4>1. After(m, ds, me) = {d \in ds : d.id # m.peer.id \/ Token(d) # Token(m.peer)} \cup {m.peer}
        BY <2>2, <3>2, AfterType
      <4> QED BY <3>1, <4>1
    <3>3. CASE ~me BY <2>2, <3>3, AfterType
    <3> QED BY <3>2, <3>3
  <2>3. CASE m.type = "Left"
    <3>1. After(m, ds, me) = {d \in ds : d.id # m.id} BY <2>3, AfterType
    <3> QED BY <3>1
  <2>4. CASE m.type \in {"Sdp", "Error"} BY <2>4, AfterType
  <2> QED BY <1>1, <2>1, <2>2, <2>3, <2>4
<1>3. ASSUME t \notin Ids(ds), t \notin Ids(Carried(m)) PROVE t \notin Ids(After(m, ds, me))
  BY <1>2, <1>3 DEF Ids
<1>4. ASSUME m = Left(t) PROVE t \notin Ids(After(m, ds, me))
  <2>1. m.type = "Left" /\ m.id = t BY <1>4 DEF Left
  <2>2. After(m, ds, me) = {d \in ds : d.id # t} BY <2>1, AfterType
  <2> QED BY <2>2 DEF Ids
<1> QED BY <1>3, <1>4

LEMMA HandledHeld ==
  ASSUME NEW q \in Seq(Message), q # <<>>, NEW ds \in SUBSET ClientInfo, NEW me \in BOOLEAN, NEW i,
         Held(q, ds, i), NEW m, m = Head(q)
  PROVE  \/ Held(Tail(q), After(m, ds, me), i)
         \/ ~me /\ m.type # "Hello" /\ i.id \in About(m)
<1>1. /\ m = q[1] /\ m \in Message /\ Len(q) \in Nat \ {0}
      /\ \A k \in 1..Len(q) : k # 1 => k - 1 \in 1..Len(Tail(q)) /\ Tail(q)[k - 1] = q[k]
  BY AtTheFront
<1>2. 1 \in 1..Len(q) /\ 0 + 1 = 1 /\ 1 - 1 = 0 /\ \A j \in 1+1..Len(q) : j \in 1..Len(q)
  BY <1>1
<1>3. CASE i \in ds /\ Kept(q, 0, i)
  <2>1. Sparing(m, i)
    BY <1>1, <1>2, <1>3 DEF Kept
  <2>2. i \in After(m, ds, me)
    BY <1>1, <1>3, <2>1, HandledEntry
  <2>3. Kept(q, 1, i)
    BY <1>2, <1>3 DEF Kept
  <2>4. Kept(Tail(q), 1 - 1, i)
    BY <1>2, <2>3, KeptBehind
  <2> QED BY <1>2, <2>2, <2>4 DEF Held
<1>4. ASSUME NEW k \in 1..Len(q), i \in Carried(q[k]), Kept(q, k, i)
      PROVE  \/ Held(Tail(q), After(m, ds, me), i)
             \/ ~me /\ m.type # "Hello" /\ i.id \in About(m)
  <2>1. Kept(Tail(q), k - 1, i)
    BY <1>4, KeptBehind
  <2>2. CASE k = 1
    <3>1. i \in After(m, ds, me) \/ (~me /\ m.type # "Hello" /\ i.id \in About(m))
      BY <1>1, <1>4, <2>2, HandledEntry
    <3> QED BY <1>2, <2>1, <2>2, <3>1 DEF Held
  <2>3. CASE k # 1
    <3>1. k - 1 \in 1..Len(Tail(q)) /\ Tail(q)[k - 1] = q[k]
      BY <1>1, <2>3
    <3> QED BY <1>4, <2>1, <3>1 DEF Held
  <2> QED BY <2>2, <2>3
<1> QED BY <1>3, <1>4 DEF Held

LEMMA HandledAbsent ==
  ASSUME NEW q \in Seq(Message), q # <<>>, NEW ds \in SUBSET ClientInfo, NEW me \in BOOLEAN, NEW t,
         Absent(q, ds, t), NEW m, m = Head(q)
  PROVE  Absent(Tail(q), After(m, ds, me), t)
<1>1. /\ m = q[1] /\ m \in Message /\ Len(q) \in Nat \ {0}
      /\ \A k \in 1..Len(q) : k # 1 => k - 1 \in 1..Len(Tail(q)) /\ Tail(q)[k - 1] = q[k]
  BY AtTheFront
<1>2. 1 \in 1..Len(q) /\ 0 + 1 = 1 /\ 1 - 1 = 0 /\ \A j \in 1+1..Len(q) : j \in 1..Len(q)
  BY <1>1
<1>3. CASE t \notin Ids(ds) /\ Silent(q, 0, t)
  <2>1. t \notin Ids(Carried(m))
    BY <1>1, <1>2, <1>3 DEF Silent
  <2>2. t \notin Ids(After(m, ds, me))
    BY <1>1, <1>3, <2>1, HandledAbsence
  <2>3. Silent(q, 1, t)
    BY <1>2, <1>3 DEF Silent
  <2>4. Silent(Tail(q), 1 - 1, t)
    BY <1>2, <2>3, KeptBehind
  <2> QED BY <1>2, <2>2, <2>4 DEF Absent
<1>4. ASSUME NEW k \in 1..Len(q), q[k] = Left(t), Silent(q, k, t)
      PROVE  Absent(Tail(q), After(m, ds, me), t)
  <2>1. Silent(Tail(q), k - 1, t)
    BY <1>4, KeptBehind
  <2>2. CASE k = 1
    <3>1. t \notin Ids(After(m, ds, me))
      BY <1>1, <1>4, <2>2, HandledAbsence
    <3> QED BY <1>2, <2>1, <2>2, <3>1 DEF Absent
  <2>3. CASE k # 1
    <3>1. k - 1 \in 1..Len(Tail(q)) /\ Tail(q)[k - 1] = q[k]
      BY <1>1, <2>3
    <3> QED BY <1>4, <2>1, <3>1 DEF Absent
  <2> QED BY <2>2, <2>3
<1> QED BY <1>3, <1>4 DEF Absent

LEMMA HandledEarly ==
  ASSUME NEW q \in Seq(Message), q # <<>>, NEW t, Early(q, t), NEW m, m = Head(q)
  PROVE  m.type # "Hello" /\ (t \in About(m) \/ Early(Tail(q), t))
<1>1. /\ m = q[1] /\ Len(q) \in Nat \ {0} /\ Len(Tail(q)) = Len(q) - 1
      /\ \A j \in 1..Len(Tail(q)) : Tail(q)[j] = q[j + 1]
      /\ \A k \in 1..Len(q) : k # 1 => k - 1 \in 1..Len(Tail(q)) /\ Tail(q)[k - 1] = q[k]
  BY AtTheFront
<1>2. PICK k \in 1..Len(q) : t \in About(q[k]) /\ \A j \in 1..k : ~IsHello(q[j])
  BY DEF Early
<1>3. m.type # "Hello"
  <2>1. 1 \in 1..k BY <1>1, <1>2
  <2> QED BY <1>1, <1>2, <2>1 DEF IsHello
<1>4. CASE k = 1 BY <1>1, <1>2, <1>3, <1>4
<1>5. CASE k # 1
  <2>1. k - 1 \in 1..Len(Tail(q)) /\ Tail(q)[k - 1] = q[k]
    BY <1>1, <1>5
  <2>2. ASSUME NEW j \in 1..(k-1) PROVE ~IsHello(Tail(q)[j])
    <3>1. j + 1 \in 1..k /\ j \in 1..Len(Tail(q)) BY <1>1, <1>2
    <3> QED BY <1>1, <1>2, <3>1
  <2>3. Early(Tail(q), t)
    BY <1>2, <2>1, <2>2 DEF Early
  <2> QED BY <1>3, <2>3
<1> QED BY <1>4, <1>5

-----------------------------------------------------------------------------
(* All that is under way to the app of p, in the order in which it arrives.  *)

Pipe(p) == events[p] \o (received[p] \o (frames[p] \o chan[p]))

LEMMA PipeType ==
  ASSUME TypeInv, QueueTypes, NEW p \in Peer
  PROVE  /\ events[p] \in Seq(Message) /\ received[p] \in Seq(Message)
         /\ frames[p] \in Seq(Message) /\ chan[p] \in Seq(Message)
         /\ frames[p] \o chan[p] \in Seq(Message)
         /\ received[p] \o (frames[p] \o chan[p]) \in Seq(Message)
         /\ Pipe(p) \in Seq(Message)
<1>1. /\ events[p] \in Seq(Message) /\ received[p] \in Seq(Message)
      /\ frames[p] \in Seq(Message) /\ chan[p] \in Seq(Message)
  BY ServerQueue DEF QueueTypes
<1>2. frames[p] \o chan[p] \in Seq(Message)
  BY <1>1
<1>3. received[p] \o (frames[p] \o chan[p]) \in Seq(Message)
  BY <1>1, <1>2
<1>4. Pipe(p) \in Seq(Message)
  BY <1>1, <1>3 DEF Pipe
<1> QED BY <1>1, <1>2, <1>3, <1>4

\* Appending queues is associative.
LEMMA Reassociated ==
  ASSUME NEW M, NEW a \in Seq(M), NEW b \in Seq(M), NEW c \in Seq(M)
  PROVE  (a \o b) \o c = a \o (b \o c)
<1>1. /\ a \o b \in Seq(M) /\ Len(a \o b) = Len(a) + Len(b)
      /\ \A i \in 1..Len(a) + Len(b) : (a \o b)[i] = IF i <= Len(a) THEN a[i] ELSE b[i - Len(a)]
  BY ConcatProperties
<1>2. /\ b \o c \in Seq(M) /\ Len(b \o c) = Len(b) + Len(c)
      /\ \A i \in 1..Len(b) + Len(c) : (b \o c)[i] = IF i <= Len(b) THEN b[i] ELSE c[i - Len(b)]
  BY ConcatProperties
<1> DEFINE la == Len(a)
           lb == Len(b)
           lc == Len(c)
<1>3. la \in Nat /\ lb \in Nat /\ lc \in Nat
  OBVIOUS
<1>4. PICK ab \in Seq(M) : ab = a \o b
  BY <1>1
<1>5. PICK bc \in Seq(M) : bc = b \o c
  BY <1>2
<1>6. /\ ab \o c \in Seq(M) /\ Len(ab \o c) = Len(ab) + Len(c)
      /\ \A i \in 1..Len(ab) + Len(c) : (ab \o c)[i] = IF i <= Len(ab) THEN ab[i] ELSE c[i - Len(ab)]
  BY ConcatProperties
<1>7. /\ a \o bc \in Seq(M) /\ Len(a \o bc) = Len(a) + Len(bc)
      /\ \A i \in 1..Len(a) + Len(bc) : (a \o bc)[i] = IF i <= Len(a) THEN a[i] ELSE bc[i - Len(a)]
  BY ConcatProperties
<1>8. PICK l \in Seq(M) : l = ab \o c
  BY <1>6
<1>9. PICK r \in Seq(M) : r = a \o bc
  BY <1>7
<1>10. /\ Len(ab) = la + lb
       /\ \A i \in 1..la + lb : ab[i] = IF i <= la THEN a[i] ELSE b[i - la]
  BY <1>1, <1>4
<1>11. /\ Len(bc) = lb + lc
       /\ \A i \in 1..lb + lc : bc[i] = IF i <= lb THEN b[i] ELSE c[i - lb]
  BY <1>2, <1>5
<1>12. /\ Len(l) = (la + lb) + lc
       /\ \A i \in 1..(la + lb) + lc : l[i] = IF i <= la + lb THEN ab[i] ELSE c[i - (la + lb)]
  BY <1>6, <1>8, <1>10
<1>13. /\ Len(r) = la + (lb + lc)
       /\ \A i \in 1..la + (lb + lc) : r[i] = IF i <= la THEN a[i] ELSE bc[i - la]
  BY <1>7, <1>9, <1>11
<1> HIDE DEF la, lb, lc
<1>14. Len(l) = Len(r)
  BY <1>3, <1>12, <1>13
<1>15. ASSUME NEW i \in 1..Len(l) PROVE l[i] = r[i]
  <2>1. i \in 1..(la + lb) + lc /\ i \in 1..la + (lb + lc) /\ i \in Int
    BY <1>3, <1>12
  <2>2. CASE i <= la
    <3>1. i \in 1..la + lb /\ i <= la + lb
      BY <1>3, <2>1, <2>2
    <3>2. l[i] = ab[i] /\ ab[i] = a[i] /\ r[i] = a[i]
      BY <1>10, <1>12, <1>13, <2>1, <2>2, <3>1
    <3> QED BY <3>2
  <2>3. CASE ~(i <= la) /\ i <= la + lb
    <3>1. i \in 1..la + lb /\ i - la \in 1..lb + lc /\ i - la <= lb
      BY <1>3, <2>1, <2>3
    <3>2. l[i] = ab[i] /\ ab[i] = b[i - la] /\ r[i] = bc[i - la] /\ bc[i - la] = b[i - la]
      BY <1>10, <1>11, <1>12, <1>13, <2>1, <2>3, <3>1
    <3> QED BY <3>2
  <2>4. CASE ~(i <= la) /\ ~(i <= la + lb)
    <3>1. i - la \in 1..lb + lc /\ ~(i - la <= lb) /\ (i - la) - lb = i - (la + lb)
      BY <1>3, <2>1, <2>4
    <3>2. l[i] = c[i - (la + lb)] /\ r[i] = bc[i - la] /\ bc[i - la] = c[(i - la) - lb]
      BY <1>11, <1>12, <1>13, <2>1, <2>4, <3>1
    <3> QED BY <3>1, <3>2
  <2> QED BY <1>3, <2>1, <2>2, <2>3, <2>4
<1>16. l = r
  BY <1>14, <1>15, SeqEqual
<1> QED BY <1>4, <1>5, <1>8, <1>9, <1>16

\* A message that goes from the front of one queue to the back of the next.
LEMMA Moved ==
  ASSUME NEW M, NEW a \in Seq(M), NEW b \in Seq(M), b # <<>>, NEW c \in Seq(M)
  PROVE  Append(a, Head(b)) \o (Tail(b) \o c) = a \o (b \o c)
<1>1. Head(b) \in M /\ Tail(b) \in Seq(M)
  BY HeadTailProperties
<1>2. <<Head(b)>> \in Seq(M) /\ Tail(b) \o c \in Seq(M) /\ <<Head(b)>> \o Tail(b) \in Seq(M)
  BY <1>1
<1>3. <<Head(b)>> \o Tail(b) = b
  <2>1. /\ Len(Tail(b)) = Len(b) - 1 /\ \A i \in 1..Len(Tail(b)) : Tail(b)[i] = b[i + 1]
        /\ Head(b) = b[1] /\ Len(b) \in Nat \ {0}
    BY HeadTailProperties, EmptySeq
  <2>2. Len(<<Head(b)>>) = 1 /\ <<Head(b)>>[1] = Head(b)
    OBVIOUS
  <2>3. /\ Len(<<Head(b)>> \o Tail(b)) = 1 + Len(Tail(b))
        /\ \A i \in 1..1 + Len(Tail(b)) :
             (<<Head(b)>> \o Tail(b))[i] = IF i <= 1 THEN <<Head(b)>>[i] ELSE Tail(b)[i - 1]
    BY <1>1, <1>2, <2>2, ConcatProperties
  <2>4. ASSUME NEW i \in 1..Len(b) PROVE (<<Head(b)>> \o Tail(b))[i] = b[i]
    <3>1. CASE i = 1 BY <2>1, <2>2, <2>3, <3>1
    <3>2. CASE i # 1
      <4>1. i - 1 \in 1..Len(Tail(b)) /\ (i - 1) + 1 = i /\ ~(i <= 1) /\ i \in 1..1 + Len(Tail(b))
        BY <2>1, <3>2
      <4> QED BY <2>1, <2>3, <4>1
    <3> QED BY <3>1, <3>2
  <2>5. Len(<<Head(b)>> \o Tail(b)) = Len(b)
    BY <2>1, <2>3
  <2> QED BY <1>2, <2>4, <2>5, SeqEqual
<1>4. Append(a, Head(b)) = a \o <<Head(b)>>
  BY <1>1, AppendIsConcat
<1>5. (a \o <<Head(b)>>) \o (Tail(b) \o c) = a \o (<<Head(b)>> \o (Tail(b) \o c))
  <2>1. PICK u \in Seq(M), v \in Seq(M) : u = <<Head(b)>> /\ v = Tail(b) \o c
    BY <1>2
  <2>2. (a \o u) \o v = a \o (u \o v)
    BY Reassociated, SMTT(60)
  <2> QED BY <2>1, <2>2
<1>6. (<<Head(b)>> \o Tail(b)) \o c = <<Head(b)>> \o (Tail(b) \o c)
  <2>1. PICK h \in Seq(M), t \in Seq(M) : h = <<Head(b)>> /\ t = Tail(b)
    BY <1>1, <1>2
  <2>2. (h \o t) \o c = h \o (t \o c)
    BY Reassociated, SMTT(60)
  <2> QED BY <2>1, <2>2
<1> QED BY <1>3, <1>4, <1>5, <1>6

LEMMA Pushed ==
  ASSUME NEW M, NEW a \in Seq(M), NEW b \in Seq(M), NEW m \in M
  PROVE  a \o Append(b, m) = Append(a \o b, m)
<1>1. <<m>> \in Seq(M) /\ a \o b \in Seq(M)
  OBVIOUS
<1>2. Append(b, m) = b \o <<m>> /\ Append(a \o b, m) = (a \o b) \o <<m>>
  BY <1>1, AppendIsConcat
<1>3. (a \o b) \o <<m>> = a \o (b \o <<m>>)
  <2>1. PICK u \in Seq(M) : u = <<m>>
    BY <1>1
  <2>2. (a \o b) \o u = a \o (b \o u)
    BY Reassociated, SMTT(60)
  <2> QED BY <2>1, <2>2
<1> QED BY <1>2, <1>3

LEMMA Popped ==
  ASSUME NEW M, NEW a \in Seq(M), a # <<>>, NEW b \in Seq(M)
  PROVE  a \o b # <<>> /\ Head(a \o b) = Head(a) /\ Tail(a \o b) = Tail(a) \o b
<1>1. /\ a \o b \in Seq(M) /\ Len(a \o b) = Len(a) + Len(b)
      /\ \A i \in 1..Len(a) + Len(b) : (a \o b)[i] = IF i <= Len(a) THEN a[i] ELSE b[i - Len(a)]
  BY ConcatProperties
<1>2. /\ Tail(a) \in Seq(M) /\ Len(Tail(a)) = Len(a) - 1
      /\ \A i \in 1..Len(Tail(a)) : Tail(a)[i] = a[i + 1]
      /\ Head(a) = a[1] /\ Len(a) \in Nat \ {0} /\ Len(b) \in Nat
  BY HeadTailProperties, EmptySeq
<1>3. a \o b # <<>>
  BY <1>1, <1>2, EmptySeq
<1>4. Head(a \o b) = (a \o b)[1]
  BY <1>1, <1>3, EmptySeq
<1>5. Head(a \o b) = Head(a)
  BY <1>1, <1>2, <1>4
<1>6. /\ Tail(a \o b) \in Seq(M) /\ Len(Tail(a \o b)) = Len(a \o b) - 1
      /\ \A i \in 1..Len(Tail(a \o b)) : Tail(a \o b)[i] = (a \o b)[i + 1]
  BY <1>1, <1>3, HeadTailProperties
<1>7. /\ Tail(a) \o b \in Seq(M) /\ Len(Tail(a) \o b) = Len(Tail(a)) + Len(b)
      /\ \A i \in 1..Len(Tail(a)) + Len(b) :
           (Tail(a) \o b)[i] = IF i <= Len(Tail(a)) THEN Tail(a)[i] ELSE b[i - Len(Tail(a))]
  BY <1>2, ConcatProperties
<1>8. Len(Tail(a \o b)) = Len(Tail(a) \o b)
  BY <1>1, <1>2, <1>6, <1>7
<1>9. ASSUME NEW i \in 1..Len(Tail(a \o b)) PROVE Tail(a \o b)[i] = (Tail(a) \o b)[i]
  <2>1. /\ i + 1 \in 1..Len(a) + Len(b) /\ i \in 1..Len(Tail(a)) + Len(b)
        /\ i <= Len(Tail(a)) <=> i + 1 <= Len(a)
        /\ i <= Len(Tail(a)) => i \in 1..Len(Tail(a))
        /\ i - Len(Tail(a)) = (i + 1) - Len(a)
    BY <1>1, <1>2, <1>6
  <2>2. Tail(a \o b)[i] = IF i + 1 <= Len(a) THEN a[i + 1] ELSE b[(i + 1) - Len(a)]
    BY <1>1, <1>6, <2>1
  <2>3. (Tail(a) \o b)[i] = IF i <= Len(Tail(a)) THEN Tail(a)[i] ELSE b[i - Len(Tail(a))]
    BY <1>7, <2>1
  <2> QED BY <1>2, <2>1, <2>2, <2>3
<1>10. Tail(a \o b) = Tail(a) \o b
  BY <1>6, <1>7, <1>8, <1>9, SeqEqual
<1> QED BY <1>3, <1>5, <1>10

\* The client's own steps move messages along.
LEMMA PipeMoves ==
  ASSUME TypeInv, QueueTypes, NEW p \in Peer,
         (Transmit(p) /\ online[p]) \/ ReadFrame(p) \/ Listen(p)
  PROVE  Pipe(p)' = Pipe(p)
<1>0. /\ events[p] \in Seq(Message) /\ received[p] \in Seq(Message)
      /\ frames[p] \in Seq(Message) /\ chan[p] \in Seq(Message)
      /\ frames[p] \o chan[p] \in Seq(Message)
      /\ <<>> \in Seq(Message)
  BY PipeType
<1>1. CASE Transmit(p) /\ online[p]
  <2>1. chan[p] # <<>> /\ chan'[p] = Tail(chan[p])
    BY <1>1 DEF Transmit, WriteSocket, TypeInv, TypeOK
  <2>2. frames'[p] = Append(frames[p], Head(chan[p])) /\ events'[p] = events[p] /\ received'[p] = received[p]
    BY <1>1 DEF Transmit, QueueTypes
  <2>3. Append(frames[p], Head(chan[p])) \o (Tail(chan[p]) \o <<>>) = frames[p] \o (chan[p] \o <<>>)
    <3>1. PICK a \in Seq(Message), b \in Seq(Message), c \in Seq(Message) :
            a = frames[p] /\ b = chan[p] /\ c = <<>>
      BY <1>0
    <3>2. b # <<>>
      BY <2>1, <3>1
    <3>3. Append(a, Head(b)) \o (Tail(b) \o c) = a \o (b \o c)
      BY <3>2, Moved, SMTT(40)
    <3> QED BY <3>1, <3>3
  <2>4. Tail(chan[p]) \in Seq(Message)
    BY <1>0, <2>1, HeadTailProperties
  <2>5. Tail(chan[p]) \o <<>> = Tail(chan[p]) /\ chan[p] \o <<>> = chan[p]
    BY <1>0, <2>4, ConcatEmptySeq
  <2> QED BY <2>1, <2>2, <2>3, <2>5 DEF Pipe
<1>2. CASE ReadFrame(p)
  <2>1. /\ frames[p] # <<>> /\ frames'[p] = Tail(frames[p])
        /\ received'[p] = Append(received[p], Head(frames[p]))
        /\ events'[p] = events[p] /\ chan'[p] = chan[p]
    BY <1>2 DEF ReadFrame, QueueTypes, vars
  <2>2. Append(received[p], Head(frames[p])) \o (Tail(frames[p]) \o chan[p]) = received[p] \o (frames[p] \o chan[p])
    <3>1. PICK a \in Seq(Message), b \in Seq(Message), c \in Seq(Message) :
            a = received[p] /\ b = frames[p] /\ c = chan[p]
      BY <1>0
    <3>2. b # <<>>
      BY <2>1, <3>1
    <3>3. Append(a, Head(b)) \o (Tail(b) \o c) = a \o (b \o c)
      BY <3>2, Moved, SMTT(40)
    <3> QED BY <3>1, <3>3
  <2> QED BY <2>1, <2>2 DEF Pipe
<1>3. CASE Listen(p)
  <2>1. /\ received[p] # <<>> /\ received'[p] = Tail(received[p])
        /\ events'[p] = Append(events[p], Head(received[p]))
        /\ frames'[p] = frames[p] /\ chan'[p] = chan[p]
    BY <1>3 DEF Listen, QueueTypes, vars
  <2>2. Append(events[p], Head(received[p])) \o (Tail(received[p]) \o (frames[p] \o chan[p]))
          = events[p] \o (received[p] \o (frames[p] \o chan[p]))
    <3>1. PICK a \in Seq(Message), b \in Seq(Message), c \in Seq(Message) :
            a = events[p] /\ b = received[p] /\ c = frames[p] \o chan[p]
      BY <1>0
    <3>2. b # <<>>
      BY <2>1, <3>1
    <3>3. Append(a, Head(b)) \o (Tail(b) \o c) = a \o (b \o c)
      BY <3>2, Moved, SMTT(40)
    <3> QED BY <3>1, <3>3
  <2> QED BY <2>1, <2>2 DEF Pipe
<1> QED BY <1>1, <1>2, <1>3

\* A message queued by the server, and one handled by the app.
LEMMA PipeGrows ==
  ASSUME TypeInv, QueueTypes, NEW p \in Peer, NEW m \in Message, RxOpen(p), Send(p, m),
         UNCHANGED <<frames, received, events>>
  PROVE  Pipe(p)' = Append(Pipe(p), m)
<1>0. /\ events[p] \in Seq(Message) /\ received[p] \in Seq(Message)
      /\ frames[p] \in Seq(Message) /\ chan[p] \in Seq(Message)
      /\ frames[p] \o chan[p] \in Seq(Message)
      /\ received[p] \o (frames[p] \o chan[p]) \in Seq(Message)
  BY PipeType
<1>1. chan'[p] = Append(chan[p], m)
  BY DEF Send, TypeInv, TypeOK
<1>2. frames[p] \o Append(chan[p], m) = Append(frames[p] \o chan[p], m)
  <2>1. PICK a \in Seq(Message), b \in Seq(Message) : a = frames[p] /\ b = chan[p]
    BY <1>0
  <2>2. a \o Append(b, m) = Append(a \o b, m)
    BY Pushed
  <2> QED BY <2>1, <2>2
<1>3. received[p] \o Append(frames[p] \o chan[p], m) = Append(received[p] \o (frames[p] \o chan[p]), m)
  <2>1. PICK a \in Seq(Message), b \in Seq(Message) : a = received[p] /\ b = frames[p] \o chan[p]
    BY <1>0
  <2>2. a \o Append(b, m) = Append(a \o b, m)
    BY Pushed
  <2> QED BY <2>1, <2>2
<1>4. events[p] \o Append(received[p] \o (frames[p] \o chan[p]), m)
        = Append(events[p] \o (received[p] \o (frames[p] \o chan[p])), m)
  <2>1. PICK a \in Seq(Message), b \in Seq(Message) :
          a = events[p] /\ b = received[p] \o (frames[p] \o chan[p])
    BY <1>0
  <2>2. a \o Append(b, m) = Append(a \o b, m)
    BY Pushed
  <2> QED BY <2>1, <2>2
<1> QED BY <1>1, <1>2, <1>3, <1>4 DEF Pipe

LEMMA PipeShrinks ==
  ASSUME TypeInv, QueueTypes, NEW p \in Peer, Handle(p)
  PROVE  Pipe(p) # <<>> /\ Head(Pipe(p)) = Head(events[p]) /\ Pipe(p)' = Tail(Pipe(p))
<1>0. events[p] \in Seq(Message) /\ received[p] \o (frames[p] \o chan[p]) \in Seq(Message)
  BY PipeType
<1>1. /\ events[p] # <<>> /\ events'[p] = Tail(events[p])
      /\ frames'[p] = frames[p] /\ received'[p] = received[p] /\ chan'[p] = chan[p]
  BY DEF Handle, QueueTypes, vars
<1>2. PICK a \in Seq(Message), b \in Seq(Message) :
        a = events[p] /\ b = received[p] \o (frames[p] \o chan[p])
  BY <1>0
<1>3. a \o b # <<>> /\ Head(a \o b) = Head(a) /\ Tail(a \o b) = Tail(a) \o b
  BY <1>1, <1>2, Popped
<1> QED BY <1>1, <1>2, <1>3 DEF Pipe

-----------------------------------------------------------------------------
(* What the server knows of a connection is about others of its group, and   *)
(* an Update under way is the newest.                                        *)

Updating(p) == recv_task[p] = "fanout" /\ request[p].type = "Update"

OthersInv ==
  \A p \in Peer :
    /\ \A i \in AllShown(p) : i.id # p /\ GroupOf[i.id] = GroupOf[p]
    /\ p \notin Range(todo[p])
    /\ Updating(p) => p \notin Range(fan[p]) /\ (p \in registered => request[p].ver = info[p])
    /\ main[p] \in {"new", "joining"} => info[p] = 0

LEMMA OthersInit == Init => OthersInv
  BY DEF Init, OthersInv, AllShown, Updating, Range

\* A step that shows no further device and starts no fan-out keeps all of it.
LEMMA OthersKept ==
  ASSUME OthersInv,
         \A p \in Peer :
           /\ \A i \in AllShown(p)' : \E j \in AllShown(p) : j.id = i.id
           /\ Range(todo'[p]) \subseteq Range(todo[p])
           /\ Updating(p)' => /\ Updating(p) /\ Range(fan'[p]) \subseteq Range(fan[p])
                              /\ p \in registered' => p \in registered /\ request'[p].ver = request[p].ver
                                                     /\ info'[p] = info[p]
           /\ main'[p] \in {"new", "joining"} => main[p] \in {"new", "joining"} /\ info'[p] = info[p]
  PROVE  OthersInv'
<1> SUFFICES ASSUME NEW p \in Peer
             PROVE  /\ \A i \in AllShown(p)' : i.id # p /\ GroupOf[i.id] = GroupOf[p]
                    /\ p \notin Range(todo'[p])
                    /\ Updating(p)' => p \notin Range(fan'[p]) /\ (p \in registered' => request'[p].ver = info'[p])
                    /\ main'[p] \in {"new", "joining"} => info'[p] = 0
  BY DEF OthersInv
<1>1. /\ \A i \in AllShown(p) : i.id # p /\ GroupOf[i.id] = GroupOf[p]
      /\ p \notin Range(todo[p])
      /\ Updating(p) => p \notin Range(fan[p]) /\ (p \in registered => request[p].ver = info[p])
      /\ main[p] \in {"new", "joining"} => info[p] = 0
  BY DEF OthersInv
<1>2. \A i \in AllShown(p)' : i.id # p /\ GroupOf[i.id] = GroupOf[p]
  BY <1>1
<1> QED BY <1>1, <1>2

\* What a message adds to the devices its receiver has been shown.
LEMMA ShownIds ==
  ASSUME TypeInv, NEW r \in Peer, NEW m \in Message, Send(r, m)
  PROVE  /\ \A q \in Peer \ {r} : told'[q] = told[q]
         /\ told'[r] \in {told[r], Seen(told[r], m)}
         /\ RxOpen(r) => told'[r] = Seen(told[r], m)
         /\ told[r] \in SUBSET ClientInfo
  BY DEF Send, TypeInv, TypeOK

LEMMA OthersStep == TypeInv /\ IsolationInv /\ NewsInv /\ OthersInv /\ [Next]_vars => OthersInv'
<1> SUFFICES ASSUME TypeInv, IsolationInv, NewsInv, OthersInv, [Next]_vars PROVE OthersInv'
  OBVIOUS
<1> USE DEF TypeInv
<1>0. /\ \A q \in Peer : GroupOf[q] \in Group
      /\ registered = {q \in Peer : main[q] \in {"joining", "serving", "leaving"}}
      /\ \A q \in Peer : main[q] \in {"new", "joining"} => recv_task[q] = "off"
      /\ \A q \in Peer : main[q] = "new" => told[q] = {} /\ peers[q] = {}
      /\ DOMAIN <<>> = {} /\ Range(<<>>) = {}
  BY ServerAssumption DEF NewsInv, IntroInv, Membership, Phases, Range
<1>1. ASSUME NEW p \in Peer, Accept(p) PROVE OthersInv'
  <2>1. PICK s \in Orders(Members(GroupOf[p])) : todo' = [todo EXCEPT ![p] = s]
    BY <1>1 DEF Accept
  <2>2. Range(s) = Members(GroupOf[p])
    BY <2>1, MembersFinite, OrdersOfSet
  <2>3. p \notin Members(GroupOf[p])
    BY <1>0, <1>1 DEF Accept, Members
  <2>4. /\ peers' = [peers EXCEPT ![p] = {[id |-> q, ver |-> info[q]] : q \in Members(GroupOf[p])}]
        /\ UNCHANGED <<info, recv_task, request, fan, told>>
        /\ main' = [main EXCEPT ![p] = "joining"] /\ registered' = registered \cup {p} /\ main[p] = "new"
    BY <1>1 DEF Accept, recvVars
  <2> SUFFICES ASSUME NEW q \in Peer
               PROVE  /\ \A i \in AllShown(q)' : i.id # q /\ GroupOf[i.id] = GroupOf[q]
                      /\ q \notin Range(todo'[q])
                      /\ Updating(q)' => q \notin Range(fan'[q]) /\ (q \in registered' => request'[q].ver = info'[q])
                      /\ main'[q] \in {"new", "joining"} => info'[q] = 0
    BY DEF OthersInv
  <2>5. CASE q = p
    <3>1. peers'[p] = {[id |-> x, ver |-> info[x]] : x \in Members(GroupOf[p])} /\ told'[p] = {}
      BY <1>0, <2>4 DEF TypeOK
    <3>2. \A i \in AllShown(p)' : i.id \in Members(GroupOf[p])
      BY <3>1 DEF AllShown
    <3>3. \A i \in AllShown(p)' : i.id # p /\ GroupOf[i.id] = GroupOf[p]
      BY <2>3, <3>2 DEF Members
    <3>4. p \notin Range(todo'[p])
      BY <2>1, <2>2, <2>3 DEF TypeOK
    <3>5. ~Updating(p)'
      BY <1>0, <2>4 DEF Updating
    <3>6. info'[p] = 0
      BY <2>4 DEF OthersInv
    <3> QED BY <2>5, <3>3, <3>4, <3>5, <3>6
  <2>6. CASE q # p
    <3>1. AllShown(q)' = AllShown(q) /\ todo'[q] = todo[q] /\ main'[q] = main[q]
      BY <2>1, <2>4, <2>6 DEF AllShown, TypeOK
    <3>2. (Updating(q)' <=> Updating(q)) /\ (q \in registered' <=> q \in registered)
      BY <2>4, <2>6 DEF Updating
    <3> QED BY <2>4, <3>1, <3>2 DEF OthersInv
  <2> QED BY <2>5, <2>6
<1>2. ASSUME NEW p \in Peer, Refuse(p) PROVE OthersInv'
  BY <1>2, OthersKept DEF Refuse, AllShown, Updating, recvVars, TypeOK
<1>3. ASSUME NEW p \in Peer, SendJoin(p) PROVE OthersInv'
  <2>1. PICK r \in Peer : r = Head(todo[p])
    BY <1>3, TailOfFan DEF SendJoin, TypeOK
  <2>2. r \in Range(todo[p]) /\ Range(Tail(todo[p])) \subseteq Range(todo[p])
    BY <1>3, <2>1, TailOfFan DEF SendJoin, TypeOK
  <2>3. r # p /\ GroupOf[r] = GroupOf[p]
    BY <2>2 DEF OthersInv, IsolationInv, GroupBound
  <2>4. Join(p) \in Message /\ 0 \in 0..MaxVersion
    BY ServerAssumption, MessageTypes
  <2>5. /\ \A q \in Peer \ {r} : told'[q] = told[q]
        /\ told'[r] \in {told[r], Seen(told[r], Join(p))}
    BY <1>3, <2>1, <2>4, ShownIds DEF SendJoin
  <2>6. Seen(told[r], Join(p)) = told[r] \cup {[id |-> p, ver |-> 0]}
    BY DEF Seen, Join
  <2>7. /\ UNCHANGED <<registered, info, main, peers, recv_task, request, fan>>
        /\ todo' = [todo EXCEPT ![p] = Tail(todo[p])]
    BY <1>3 DEF SendJoin, mapVars, recvVars
  <2> SUFFICES ASSUME NEW q \in Peer
               PROVE  /\ \A i \in AllShown(q)' : i.id # q /\ GroupOf[i.id] = GroupOf[q]
                      /\ q \notin Range(todo'[q])
    BY <2>7 DEF OthersInv, Updating
  <2>8. q \notin Range(todo'[q])
    BY <2>2, <2>7 DEF OthersInv, TypeOK
  <2>9. \A i \in AllShown(q)' : i \in AllShown(q) \/ (q = r /\ i.id = p)
    BY <2>5, <2>6, <2>7 DEF AllShown
  <2> QED BY <2>3, <2>8, <2>9 DEF OthersInv
<1>4. ASSUME NEW p \in Peer, SendHello(p) PROVE OthersInv'
  <2>1. Hello(peers[p]) \in Message
    BY <1>4, ServerAssumption, MessageTypes DEF TypeOK
  <2>2. /\ \A q \in Peer \ {p} : told'[q] = told[q]
        /\ told'[p] \in {told[p], Seen(told[p], Hello(peers[p]))}
    BY <1>4, <2>1, ShownIds DEF SendHello
  <2>3. Seen(told[p], Hello(peers[p])) = told[p] \cup peers[p]
    BY DEF Seen, Hello
  <2>4. /\ UNCHANGED <<registered, info, todo, request, fan>>
        /\ main' = [main EXCEPT ![p] = "serving"] /\ peers' = [peers EXCEPT ![p] = {}]
        /\ recv_task' = [recv_task EXCEPT ![p] = "idle"]
    BY <1>4 DEF SendHello, mapVars
  <2>5. \A q \in Peer : AllShown(q)' \subseteq AllShown(q)
    BY <2>2, <2>3, <2>4 DEF AllShown, TypeOK
  <2>6. \A q \in Peer : Updating(q)' => Updating(q)
    BY <2>4 DEF Updating, TypeOK
  <2>7. \A q \in Peer : main'[q] \in {"new", "joining"} => main[q] \in {"new", "joining"}
    BY <2>4 DEF TypeOK
  <2> QED BY <2>4, <2>5, <2>6, <2>7, OthersKept
<1>5. ASSUME NEW p \in Peer, Select(p) PROVE OthersInv'
  BY <1>5, OthersKept DEF Select, AllShown, Updating, mapVars, recvVars, TypeOK
<1>6. ASSUME NEW p \in Peer, Unregister(p) PROVE OthersInv'
  <2>1. PICK s \in Orders(Members(GroupOf[p]) \ {p}) : Farewell(p, s)
    BY <1>6 DEF Unregister
  <2>2. Range(s) = Members(GroupOf[p]) \ {p}
    BY <2>1, MembersFinite, OrdersOfSet
  <2>3. /\ todo' = [todo EXCEPT ![p] = s]
        /\ main' = [main EXCEPT ![p] = IF s = <<>> THEN "closed" ELSE "goodbye"]
    BY <2>1 DEF Farewell
  <2>4. /\ registered' = registered \ {p} /\ info' = [info EXCEPT ![p] = 0]
        /\ UNCHANGED <<peers, recv_task, request, fan, told>>
    BY <1>6 DEF Unregister, recvVars
  <2> SUFFICES ASSUME NEW q \in Peer
               PROVE  /\ \A i \in AllShown(q)' : i.id # q /\ GroupOf[i.id] = GroupOf[q]
                      /\ q \notin Range(todo'[q])
                      /\ Updating(q)' => q \notin Range(fan'[q]) /\ (q \in registered' => request'[q].ver = info'[q])
                      /\ main'[q] \in {"new", "joining"} => info'[q] = 0
    BY DEF OthersInv
  <2>5. AllShown(q)' = AllShown(q) /\ (Updating(q)' <=> Updating(q))
    BY <2>4 DEF AllShown, Updating
  <2>6. CASE q = p
    <3>1. p \notin Range(todo'[p]) /\ main'[p] \notin {"new", "joining"} /\ p \notin registered'
      BY <2>2, <2>3, <2>4 DEF TypeOK
    <3> QED BY <2>4, <2>5, <2>6, <3>1 DEF OthersInv
  <2>7. CASE q # p
    <3>1. todo'[q] = todo[q] /\ main'[q] = main[q] /\ info'[q] = info[q]
      BY <2>3, <2>4, <2>7 DEF TypeOK
    <3> QED BY <2>4, <2>5, <3>1 DEF OthersInv
  <2> QED BY <2>6, <2>7
<1>7. ASSUME NEW p \in Peer, SendLeft(p) PROVE OthersInv'
  <2>1. PICK r \in Peer : r = Head(todo[p])
    BY <1>7, TailOfFan DEF SendLeft, TypeOK, FanoutPending
  <2>2. Range(Tail(todo[p])) \subseteq Range(todo[p])
    BY <1>7, TailOfFan DEF SendLeft, TypeOK, FanoutPending
  <2>3. Left(p) \in Message /\ Left(p).type = "Left"
    BY ServerAssumption DEF Left, Message
  <2>4. \A q \in Peer : told'[q] \subseteq told[q]
    BY <1>7, <2>1, <2>3, SendShows DEF SendLeft
  <2>5. /\ UNCHANGED <<registered, info, peers, recv_task, request, fan>>
        /\ todo' = [todo EXCEPT ![p] = Tail(todo[p])]
        /\ main' = [main EXCEPT ![p] = IF Tail(todo[p]) = <<>> THEN "closed" ELSE "goodbye"]
    BY <1>7 DEF SendLeft, Farewell, mapVars, recvVars
  <2>6. \A q \in Peer : AllShown(q)' \subseteq AllShown(q) /\ Range(todo'[q]) \subseteq Range(todo[q])
    BY <2>2, <2>4, <2>5 DEF AllShown, TypeOK
  <2>7. \A q \in Peer : main'[q] \in {"new", "joining"} => main[q] \in {"new", "joining"}
    BY <2>5 DEF TypeOK
  <2> QED BY <2>5, <2>6, <2>7, OthersKept DEF Updating
<1>8. ASSUME NEW p \in Peer, WriteSocket(p) PROVE OthersInv'
  BY <1>8, OthersKept DEF WriteSocket, AllShown, Updating, mapVars, mainVars, recvVars
<1>9. ASSUME NEW p \in Peer, EndSendTask(p) PROVE OthersInv'
  BY <1>9, OthersKept DEF EndSendTask, AllShown, Updating, mapVars, mainVars, recvVars, TypeOK
<1>10. ASSUME NEW p \in Peer, ReadRequest(p) PROVE OthersInv'
  <2>1. /\ UNCHANGED <<registered, info, main, todo, peers, fan, told>>
        /\ \A q \in Peer : recv_task'[q] = "fanout" => recv_task[q] = "fanout" /\ q # p
        /\ \A q \in Peer : q # p => request'[q] = request[q]
    BY <1>10 DEF ReadRequest, mainVars, TypeOK
  <2> QED BY <2>1, OthersKept DEF AllShown, Updating
<1>11. ASSUME NEW p \in Peer, LookupUpdate(p) PROVE OthersInv'
  <2>0. UNCHANGED <<registered, main, todo, peers, told>>
    BY <1>11 DEF LookupUpdate, mainVars
  <2>1. CASE p \in registered
    <3>1. PICK s \in Orders(Members(GroupOf[p]) \ {p}) : Reach(p, s)
      BY <1>11, <2>1 DEF LookupUpdate
    <3>2. Range(s) = Members(GroupOf[p]) \ {p}
      BY <3>1, MembersFinite, OrdersOfSet
    <3>3. /\ info' = [info EXCEPT ![p] = request[p].ver] /\ fan' = [fan EXCEPT ![p] = s]
          /\ recv_task' = [recv_task EXCEPT ![p] = IF s = <<>> THEN "idle" ELSE "fanout"]
          /\ request' = [request EXCEPT ![p] = IF s = <<>> THEN NoRequest ELSE request[p]]
          /\ recv_task[p] = "lookup"
      BY <1>11, <2>1, <3>1 DEF LookupUpdate, Reach
    <3> SUFFICES ASSUME NEW q \in Peer
                 PROVE  /\ Updating(q)' => q \notin Range(fan'[q]) /\ (q \in registered' => request'[q].ver = info'[q])
                        /\ main'[q] \in {"new", "joining"} => info'[q] = 0
      BY <2>0 DEF OthersInv, AllShown
    <3>4. CASE q = p
      <4>1. main[p] \notin {"new", "joining"}
        BY <1>0, <3>3
      <4>2. p \notin Range(fan'[p])
        BY <3>2, <3>3 DEF TypeOK
      <4>3. Updating(p)' => request'[p].ver = info'[p]
        BY <3>3 DEF Updating, TypeOK
      <4> QED BY <2>0, <3>4, <4>1, <4>2, <4>3
    <3>5. CASE q # p
      <4>1. /\ fan'[q] = fan[q] /\ info'[q] = info[q] /\ request'[q] = request[q]
            /\ recv_task'[q] = recv_task[q]
        BY <3>3, <3>5 DEF TypeOK
      <4> QED BY <2>0, <4>1 DEF OthersInv, Updating
    <3> QED BY <3>4, <3>5
  <2>2. CASE p \notin registered
    <3>1. /\ UNCHANGED info /\ fan' = [fan EXCEPT ![p] = <<>>]
          /\ recv_task' = [recv_task EXCEPT ![p] = "idle"]
          /\ request' = [request EXCEPT ![p] = NoRequest]
      BY <1>11, <2>2 DEF LookupUpdate, Reach
    <3>2. \A q \in Peer : Updating(q)' => q # p
      BY <3>1 DEF Updating, TypeOK
    <3>3. \A q \in Peer : q # p =>
             fan'[q] = fan[q] /\ request'[q] = request[q] /\ recv_task'[q] = recv_task[q]
      BY <3>1 DEF TypeOK
    <3> QED BY <2>0, <3>1, <3>2, <3>3, OthersKept DEF Updating, AllShown
  <2> QED BY <2>1, <2>2
<1>12. ASSUME NEW p \in Peer, LookupTarget(p) PROVE OthersInv'
  <2>1. /\ UNCHANGED <<registered, info, main, todo, peers, told>>
        /\ request[p].type = "Sdp"
    BY <1>12 DEF LookupTarget, mapVars, mainVars
  <2>2. PICK s : Reach(p, s)
    BY <1>12 DEF LookupTarget
  <2>3. \A q \in Peer : Updating(q)' => q # p
    BY <2>1, <2>2 DEF Updating, Reach, TypeOK, NoRequest
  <2>4. \A q \in Peer : q # p =>
           fan'[q] = fan[q] /\ request'[q] = request[q] /\ recv_task'[q] = recv_task[q]
    BY <2>2 DEF Reach, TypeOK
  <2> QED BY <2>1, <2>3, <2>4, OthersKept DEF Updating, AllShown
<1>13. ASSUME NEW p \in Peer, SendFan(p) PROVE OthersInv'
  <2>1. PICK r \in Peer : r = Head(fan[p])
    BY <1>13, TailOfFan DEF SendFan, TypeOK, FanoutPending
  <2>2. Range(Tail(fan[p])) \subseteq Range(fan[p])
    BY <1>13, TailOfFan DEF SendFan, TypeOK, FanoutPending
  <2>3. PICK m : m = IF request[p].type = "Update" THEN Update(p, request[p].ver) ELSE Sdp(p)
    OBVIOUS
  <2>4. request[p].type = "Update" => request[p].ver \in 0..MaxVersion
    BY DEF TypeOK, Request
  <2>5. m \in Message /\ m.type \in {"Update", "Sdp"}
    <3>1. CASE request[p].type = "Update"
      <4>1. PICK v \in 0..MaxVersion : v = request[p].ver
        BY <2>4, <3>1
      <4>2. m = Update(p, v)
        BY <2>3, <3>1, <4>1
      <4>3. Update(p, v) \in Message
        BY MessageTypes
      <4> QED BY <4>2, <4>3 DEF Update
    <3>2. CASE request[p].type # "Update"
      <4>1. Sdp(p) \in Message
        BY ServerAssumption DEF Sdp, Message, ClientInfo
      <4> QED BY <2>3, <3>2, <4>1 DEF Sdp
    <3> QED BY <3>1, <3>2
  <2>6. /\ \A q \in Peer \ {r} : told'[q] = told[q]
        /\ told'[r] \in {told[r], Seen(told[r], m)}
    BY <1>13, <2>1, <2>3, <2>5, ShownIds DEF SendFan
  <2>7. \A i \in Seen(told[r], m) : \E j \in told[r] : j.id = i.id
    BY <2>5 DEF Seen
  <2>8. UNCHANGED <<registered, info, main, todo, peers>> /\ Reach(p, Tail(fan[p])) /\ recv_task[p] = "fanout"
    BY <1>13 DEF SendFan, mapVars, mainVars
  <2>9. \A q \in Peer : \A i \in AllShown(q)' : \E j \in AllShown(q) : j.id = i.id
    <3> SUFFICES ASSUME NEW q \in Peer, NEW i \in AllShown(q)' PROVE \E j \in AllShown(q) : j.id = i.id
      OBVIOUS
    <3>1. i \in AllShown(q) \/ (q = r /\ i \in Seen(told[r], m))
      BY <2>6, <2>8 DEF AllShown
    <3> QED BY <2>7, <3>1 DEF AllShown
  <2>10. \A q \in Peer : Updating(q)' => /\ Updating(q) /\ Range(fan'[q]) \subseteq Range(fan[q])
                                         /\ request'[q] = request[q]
    BY <2>2, <2>8 DEF Updating, Reach, TypeOK, NoRequest
  <2> QED BY <2>8, <2>9, <2>10, OthersKept
<1>14. ASSUME NEW p \in Peer, SendError(p) PROVE OthersInv'
  <2>1. Error \in Message /\ Error.type = "Error" BY DEF Error, Message
  <2>2. \A t \in Peer : told'[t] \subseteq told[t] BY <1>14, <2>1, SendShows DEF SendError
  <2>3. /\ UNCHANGED <<registered, info, main, todo, peers, request, fan>>
        /\ recv_task' = [recv_task EXCEPT ![p] = "off"]
    BY <1>14 DEF SendError, mapVars, mainVars
  <2>4. \A q \in Peer : Updating(q)' => Updating(q)
    BY <2>3 DEF Updating, TypeOK
  <2>5. \A q \in Peer : AllShown(q)' \subseteq AllShown(q)
    BY <2>2, <2>3 DEF AllShown
  <2> QED BY <2>3, <2>4, <2>5, OthersKept
<1>15. ASSUME NEW p \in Peer, EndRecvTask(p) PROVE OthersInv'
  <2>1. /\ UNCHANGED <<registered, info, main, todo, peers, told>>
        /\ recv_task' = [recv_task EXCEPT ![p] = "off"]
        /\ request' = [request EXCEPT ![p] = NoRequest] /\ fan' = [fan EXCEPT ![p] = <<>>]
    BY <1>15 DEF EndRecvTask, mapVars, mainVars
  <2>2. \A q \in Peer : Updating(q)' => Updating(q) /\ fan'[q] = fan[q] /\ request'[q] = request[q]
    BY <2>1 DEF Updating, TypeOK
  <2> QED BY <2>1, <2>2, OthersKept DEF AllShown
<1>16. ASSUME NEW p \in Peer, ClientLeaves(p) PROVE OthersInv'
  BY <1>16, OthersKept DEF ClientLeaves, AllShown, Updating, mapVars, mainVars, recvVars
<1>17. ASSUME ResetCounts \/ UNCHANGED vars PROVE OthersInv'
  BY <1>17, OthersKept DEF ResetCounts, vars, AllShown, Updating, mapVars, mainVars, recvVars
<1> QED
  BY <1>1, <1>2, <1>3, <1>4, <1>5, <1>6, <1>7, <1>8, <1>9, <1>10, <1>11, <1>12, <1>13,
     <1>14, <1>15, <1>16, <1>17 DEF Next, MainTask, SendTask, RecvTask

-----------------------------------------------------------------------------
(* A connection that leaves the map amid the fan-out of an Update is torn,   *)
(* and it never comes back.                                                  *)

TornInv ==
  \A p \in Peer :
    /\ Updating(p) /\ p \notin registered => p \in torn
    /\ p \in torn => main[p] \in {"goodbye", "closed"}

LEMMA TornInit == RoomInit => TornInv
  BY DEF RoomInit, Init, TornInv, Updating

\* What the server does to the phases of its connections.
LEMMA PhaseSteps ==
  ASSUME ServerInv, [Next]_vars, NEW q \in Peer
  PROVE  /\ main[q] \in {"goodbye", "closed"} => main'[q] \in {"goodbye", "closed"}
         /\ q \in registered' => q \in registered \/ Accept(q)
         /\ q \notin registered' => q \notin registered \/ Unregister(q)
         /\ Updating(q)' => Updating(q) \/ q \in registered'
<1> USE DEF ServerInv, TypeInv
<1>1. ASSUME NEW p \in Peer, Accept(p)
      PROVE  /\ main[q] \in {"goodbye", "closed"} => main'[q] \in {"goodbye", "closed"}
             /\ q \in registered' => q \in registered \/ Accept(q)
             /\ q \notin registered' => q \notin registered \/ Unregister(q)
             /\ Updating(q)' => Updating(q) \/ q \in registered'
  BY <1>1 DEF Accept, TypeOK, Updating, recvVars
<1>2. ASSUME NEW p \in Peer, Unregister(p)
      PROVE  /\ main[q] \in {"goodbye", "closed"} => main'[q] \in {"goodbye", "closed"}
             /\ q \in registered' => q \in registered \/ Accept(q)
             /\ q \notin registered' => q \notin registered \/ Unregister(q)
             /\ Updating(q)' => Updating(q) \/ q \in registered'
  <2>1. PICK c \in {"closed", "goodbye"} : main' = [main EXCEPT ![p] = c]
    BY <1>2 DEF Unregister, Farewell
  <2>2. /\ registered' = registered \ {p} /\ send_task' = send_task
        /\ recv_task' = recv_task /\ request' = request
    BY <1>2 DEF Unregister, recvVars
  <2>3. main[q] \in {"goodbye", "closed"} => main'[q] \in {"goodbye", "closed"}
    BY <2>1 DEF TypeOK
  <2>4. q \notin registered' => q \notin registered \/ Unregister(q)
    BY <1>2, <2>2
  <2> QED BY <2>2, <2>3, <2>4 DEF Updating
<1>3. ASSUME NEW p \in Peer, LookupUpdate(p)
      PROVE  /\ main[q] \in {"goodbye", "closed"} => main'[q] \in {"goodbye", "closed"}
             /\ q \in registered' => q \in registered \/ Accept(q)
             /\ q \notin registered' => q \notin registered \/ Unregister(q)
             /\ Updating(q)' => Updating(q) \/ q \in registered'
  <2>1. UNCHANGED <<main, registered>>
    BY <1>3 DEF LookupUpdate, mainVars
  <2>2. Updating(q)' => Updating(q) \/ q \in registered'
    <3>1. CASE p \in registered
      <4>1. PICK s : Reach(p, s)
        BY <1>3, <3>1 DEF LookupUpdate
      <4> QED BY <2>1, <3>1, <4>1 DEF Reach, Updating, TypeOK
    <3>2. CASE p \notin registered
      <4>1. Reach(p, <<>>)
        BY <1>3, <3>2 DEF LookupUpdate
      <4> QED BY <4>1 DEF Reach, Updating, TypeOK
    <3> QED BY <3>1, <3>2
  <2> QED BY <2>1, <2>2
<1>4. ASSUME NEW p \in Peer, LookupTarget(p) PROVE Updating(q)' => Updating(q)
  <2>1. PICK s : Reach(p, s)
    BY <1>4 DEF LookupTarget
  <2> QED BY <1>4, <2>1 DEF LookupTarget, Reach, Updating, TypeOK, NoRequest
<1>5. ASSUME NEW p \in Peer, SendFan(p) PROVE Updating(q)' => Updating(q)
  BY <1>5 DEF SendFan, Reach, Updating, TypeOK, NoRequest
<1>6. ASSUME NEW p \in Peer, ReadRequest(p) PROVE Updating(q)' => Updating(q)
  BY <1>6 DEF ReadRequest, Updating, TypeOK
<1>7. ASSUME NEW p \in Peer, SendHello(p) \/ SendError(p) \/ EndRecvTask(p) PROVE Updating(q)' => Updating(q)
  BY <1>7 DEF SendHello, SendError, EndRecvTask, Updating, TypeOK, NoRequest
<1>8. ASSUME NEW p \in Peer, Refuse(p) \/ SendHello(p) \/ Select(p)
      PROVE  main[q] \in {"goodbye", "closed"} => main'[q] \in {"goodbye", "closed"}
  BY <1>8 DEF Refuse, SendHello, Select, TypeOK
<1>9. ASSUME NEW p \in Peer, SendLeft(p)
      PROVE  main[q] \in {"goodbye", "closed"} => main'[q] \in {"goodbye", "closed"}
  BY <1>9 DEF SendLeft, Farewell, TypeOK
<1>10. ASSUME NEW p \in Peer,
              \/ SendJoin(p) \/ WriteSocket(p) \/ EndSendTask(p) \/ ReadRequest(p) \/ LookupTarget(p)
              \/ SendFan(p) \/ SendError(p) \/ EndRecvTask(p) \/ ClientLeaves(p)
       PROVE  main'[q] = main[q]
  BY <1>10 DEF SendJoin, WriteSocket, EndSendTask, ReadRequest, LookupTarget, SendFan, SendError,
     EndRecvTask, ClientLeaves, mainVars
<1>11. ASSUME NEW p \in Peer,
              \/ Refuse(p) \/ SendJoin(p) \/ SendHello(p) \/ Select(p) \/ SendLeft(p)
              \/ WriteSocket(p) \/ EndSendTask(p) \/ ReadRequest(p) \/ LookupTarget(p)
              \/ SendFan(p) \/ SendError(p) \/ EndRecvTask(p) \/ ClientLeaves(p)
       PROVE  registered' = registered
  BY <1>11 DEF Refuse, SendJoin, SendHello, Select, SendLeft, WriteSocket, EndSendTask, ReadRequest,
     LookupTarget, SendFan, SendError, EndRecvTask, ClientLeaves, mapVars
<1>12. ASSUME NEW p \in Peer,
              \/ Refuse(p) \/ SendJoin(p) \/ Select(p) \/ SendLeft(p)
              \/ WriteSocket(p) \/ EndSendTask(p) \/ ClientLeaves(p)
       PROVE  Updating(q)' <=> Updating(q)
  BY <1>12 DEF Refuse, SendJoin, Select, SendLeft, WriteSocket, EndSendTask, ClientLeaves, recvVars, Updating
<1>13. ASSUME ResetCounts \/ UNCHANGED vars
       PROVE  UNCHANGED <<main, registered>> /\ (Updating(q)' <=> Updating(q))
  BY <1>13 DEF ResetCounts, vars, mapVars, mainVars, recvVars, Updating
<1> QED
  BY <1>1, <1>2, <1>3, <1>4, <1>5, <1>6, <1>7, <1>8, <1>9, <1>10, <1>11, <1>12, <1>13
     DEF Next, MainTask, SendTask, RecvTask

\* Only LeaveMap takes a connection out of the map.
LEMMA TornSteps ==
  ASSUME ServerInv, [RoomNext]_roomVars
  PROVE  \/ torn' = torn /\ \A p \in Peer : ~Unregister(p)
         \/ \E p \in Peer : LeaveMap(p)
         \/ UNCHANGED roomVars
<1> USE DEF ServerInv
<1>0. \A p \in Peer : Unregister(p) => main[p] = "leaving" /\ main'[p] \in {"closed", "goodbye"}
  <2>1. ASSUME NEW p \in Peer, Unregister(p) PROVE main[p] = "leaving" /\ main'[p] \in {"closed", "goodbye"}
    BY <2>1 DEF Unregister, Farewell, TypeInv, TypeOK
  <2> QED BY <2>1
<1>1. ASSUME NEW p \in Peer, NEW x \in Peer, main[x] = "leaving" =>  main'[x] = "leaving"
      PROVE  ~Unregister(x)
  BY <1>0, <1>1
<1>2. ASSUME NEW p \in Peer, SendJoin(p) \/ SendHello(p) \/ Select(p) \/ SendLeft(p) \/ ServerRecv(p) \/ EndSendTask(p),
             NEW x \in Peer
      PROVE  ~Unregister(x)
  <2>1. main[x] = "leaving" =>  main'[x] = "leaving"
    BY <1>2 DEF SendJoin, SendHello, Select, SendLeft, Farewell, ServerRecv, LookupUpdate, LookupTarget,
       SendFan, SendError, EndRecvTask, EndSendTask, mainVars, TypeInv, TypeOK
  <2> QED BY <1>1, <2>1
<1>3. ASSUME ServerAlone, NEW x \in Peer PROVE ~Unregister(x)
  <2>1. CASE ResetCounts
    BY <1>1, <2>1 DEF ResetCounts, mainVars
  <2> QED BY <1>2, <1>3, <2>1 DEF ServerAlone, ServerMain
<1>4. ASSUME NEW p \in Peer, Connect(p), NEW x \in Peer PROVE ~Unregister(x)
  <2>1. main[x] = "leaving" =>  main'[x] = "leaving"
    BY <1>4 DEF Connect, Accept, Refuse, TypeInv, TypeOK
  <2> QED BY <1>1, <2>1
<1>5. ASSUME NEW p \in Peer, Transmit(p) \/ Submit(p) \/ Quit(p), NEW x \in Peer PROVE ~Unregister(x)
  <2>1. main[x] = "leaving" =>  main'[x] = "leaving"
    BY <1>5 DEF Transmit, WriteSocket, Submit, ReadRequest, Quit, ClientLeaves, mainVars
  <2> QED BY <1>1, <2>1
<1>6. ASSUME UNCHANGED vars, NEW x \in Peer PROVE ~Unregister(x)
  BY <1>1, <1>6 DEF vars, mainVars
<1>7. ASSUME NEW p \in Peer, Reader(p) \/ Listen(p) \/ App(p) \/ SendUpdate(p) PROVE UNCHANGED <<vars, torn>>
  BY <1>7 DEF Reader, ReadFrame, Return, Listen, App, Handle, AcceptOffer, EndOfStream, SendUpdate
<1>8. ASSUME NEW p \in Peer, NEW t \in Peer,
             SendOffer(p, t) \/ OnAnswer(p, t) \/ SendAnswer(p, t) \/ FailOffer(p, t)
      PROVE  UNCHANGED <<vars, torn>>
  BY <1>8 DEF SendOffer, OnAnswer, SendAnswer, FailOffer
<1>9. ASSUME NEW p \in Peer, Connect(p) \/ Transmit(p) \/ Submit(p) \/ Quit(p) PROVE torn' = torn
  BY <1>9 DEF Connect, Transmit, Submit, Quit
<1>10. ASSUME ServerAlone PROVE torn' = torn
  BY <1>10 DEF ServerAlone
<1> QED BY <1>3, <1>4, <1>5, <1>6, <1>7, <1>8, <1>9, <1>10 DEF RoomNext

LEMMA TornStep == ServerInv /\ TornInv /\ [RoomNext]_roomVars => TornInv'
<1> SUFFICES ASSUME ServerInv, TornInv, [RoomNext]_roomVars PROVE TornInv'
  OBVIOUS
<1>0. [Next]_vars
  BY ServerStep
<1>1. \A q \in Peer :
         /\ main[q] \in {"goodbye", "closed"} => main'[q] \in {"goodbye", "closed"}
         /\ q \in registered' => q \in registered \/ Accept(q)
         /\ q \notin registered' => q \notin registered \/ Unregister(q)
         /\ Updating(q)' => Updating(q) \/ q \in registered'
  BY <1>0, PhaseSteps
<1>2. CASE torn' = torn /\ \A p \in Peer : ~Unregister(p)
  BY <1>1, <1>2 DEF TornInv
<1>3. ASSUME NEW p \in Peer, LeaveMap(p) PROVE TornInv'
  <2>1. /\ torn' = IF recv_task[p] = "fanout" THEN torn \cup {p} ELSE torn
        /\ UNCHANGED <<recv_task, request>> /\ registered' = registered \ {p}
        /\ main'[p] \in {"goodbye", "closed"}
    BY <1>3 DEF LeaveMap, Unregister, Farewell, recvVars, ServerInv, TypeInv, TypeOK
  <2>2. \A q \in Peer : Updating(q)' <=> Updating(q)
    BY <2>1 DEF Updating
  <2> QED BY <1>1, <2>1, <2>2 DEF TornInv, Updating
<1>4. CASE UNCHANGED roomVars
  <2>1. UNCHANGED <<main, registered, recv_task, request, torn>>
    BY <1>4 DEF roomVars, vars, mapVars, mainVars, recvVars
  <2> QED BY <2>1 DEF TornInv, Updating
<1> QED BY <1>2, <1>3, <1>4, TornSteps

-----------------------------------------------------------------------------
(* How a step touches what is under way to one client, and what its app      *)
(* holds.                                                                    *)

\* The step leaves the client q, and what the server has for it, alone.
Idle(q) ==
  /\ Pipe(q)' = Pipe(q) /\ told'[q] = told[q] /\ peers'[q] = peers[q]
  /\ devices'[q] = devices[q] /\ myself'[q] = myself[q] /\ missed'[q] = missed[q]
  /\ connect'[q] = connect[q] /\ online'[q] = online[q]

\* The step only queues a message for q.
Queued(q, m) ==
  /\ RxOpen(q) /\ Send(q, m) /\ peers'[q] = peers[q]
  /\ Pipe(q)' = Append(Pipe(q), m)
  /\ devices'[q] = devices[q] /\ myself'[q] = myself[q] /\ missed'[q] = missed[q]
  /\ connect'[q] = connect[q] /\ online'[q] = online[q]

LEMMA SendTouches ==
  ASSUME ServerInv, ClientTypes, NEW r \in Peer, NEW m \in Message, Send(r, m),
         UNCHANGED <<clientVars, online, peers>>, NEW q \in Peer
  PROVE  Idle(q) \/ (q = r /\ Queued(q, m))
<1>1. CASE q = r /\ RxOpen(r)
  <2>1. Pipe(q)' = Append(Pipe(q), m)
    BY <1>1, PipeGrows DEF ServerInv, ClientTypes, clientVars
  <2> QED BY <1>1, <2>1 DEF Queued, clientVars, appVars
<1>2. CASE q # r \/ ~RxOpen(r)
  <2>1. chan'[q] = chan[q] /\ told'[q] = told[q]
    BY <1>2 DEF Send, ServerInv, TypeInv, TypeOK
  <2> QED BY <2>1 DEF Idle, Pipe, clientVars, appVars
<1> QED BY <1>1, <1>2

\* The messages that come from the tasks of p, and those of no consequence.
Posted(q) ==
  \/ \E p \in Peer : SendJoin(p) /\ q = Head(todo[p]) /\ Queued(q, Join(p))
  \/ \E p \in Peer : SendLeft(p) /\ q = Head(todo[p]) /\ Queued(q, Left(p))
  \/ \E p \in Peer : /\ SendFan(p) /\ q = Head(fan[p]) /\ request[p].type = "Update"
                     /\ Queued(q, Update(p, request[p].ver))
  \/ \E m \in Message : m.type \in {"Sdp", "Error"} /\ Queued(q, m)

LEMMA UntouchedIsIdle ==
  ASSUME NEW q \in Peer, UNCHANGED <<frames, received, events, devices, myself, missed, connect, online>>,
         chan'[q] = chan[q], told'[q] = told[q], peers'[q] = peers[q]
  PROVE  Idle(q)
  BY DEF Idle, Pipe

\* The messages of the tasks and who they are for.
LEMMA SentMessages ==
  ASSUME ServerInv, NEW p \in Peer
  PROVE  /\ SendJoin(p) => Head(todo[p]) \in Peer /\ Head(todo[p]) \in Range(todo[p])
         /\ SendLeft(p) => Head(todo[p]) \in Peer /\ Head(todo[p]) \in Range(todo[p])
         /\ SendFan(p) => Head(fan[p]) \in Peer /\ Head(fan[p]) \in Range(fan[p])
         /\ Join(p) \in Message /\ Left(p) \in Message /\ Sdp(p) \in Message /\ Error \in Message
         /\ Hello(peers[p]) \in Message /\ peers[p] \in SUBSET ClientInfo
         /\ request[p].type = "Update" =>
              Update(p, request[p].ver) \in Message /\ request[p].ver \in 0..MaxVersion
<1> USE DEF ServerInv, TypeInv
<1>1. SendJoin(p) => Head(todo[p]) \in Peer /\ Head(todo[p]) \in Range(todo[p])
  BY TailOfFan DEF SendJoin, TypeOK
<1>2. SendLeft(p) => Head(todo[p]) \in Peer /\ Head(todo[p]) \in Range(todo[p])
  BY TailOfFan DEF SendLeft, TypeOK, FanoutPending
<1>3. SendFan(p) => Head(fan[p]) \in Peer /\ Head(fan[p]) \in Range(fan[p])
  BY TailOfFan DEF SendFan, TypeOK, FanoutPending
<1>4. Join(p) \in Message /\ Left(p) \in Message /\ Sdp(p) \in Message /\ Error \in Message
  BY ServerAssumption DEF Join, Left, Sdp, Error, Message, ClientInfo
<1>5. Hello(peers[p]) \in Message /\ peers[p] \in SUBSET ClientInfo
  BY DEF TypeOK, Hello, Message
<1>6. request[p].type = "Update" =>
         Update(p, request[p].ver) \in Message /\ request[p].ver \in 0..MaxVersion
  <2> SUFFICES ASSUME request[p].type = "Update"
               PROVE  Update(p, request[p].ver) \in Message /\ request[p].ver \in 0..MaxVersion
    OBVIOUS
  <2>1. request[p].ver \in 0..MaxVersion
    BY DEF TypeOK, Request
  <2> QED BY <2>1 DEF Update, Message, ClientInfo
<1> QED BY <1>1, <1>2, <1>3, <1>4, <1>5, <1>6

LEMMA ServerTouches ==
  ASSUME ServerInv, ClientTypes, ServerAlone, NEW q \in Peer
  PROVE  Idle(q) \/ SendHello(q) \/ EndSendTask(q) \/ Posted(q)
<1>0. UNCHANGED clientVars
  BY DEF ServerAlone
<1>u. UNCHANGED <<frames, received, events, devices, myself, missed, connect>>
  BY <1>0 DEF clientVars, appVars
<1>t. /\ chan \in [Peer -> Seq(Message)] /\ told \in [Peer -> SUBSET ClientInfo]
      /\ peers \in [Peer -> SUBSET ClientInfo]
  BY DEF ServerInv, TypeInv, TypeOK
<1>1. CASE ResetCounts
  BY <1>1, <1>u, UntouchedIsIdle DEF ResetCounts, mainVars
<1>2. ASSUME NEW p \in Peer, SendJoin(p) PROVE Idle(q) \/ Posted(q)
  <2>1. PICK r \in Peer : r = Head(todo[p])
    BY <1>2, SentMessages
  <2>2. PICK m \in Message : m = Join(p)
    BY SentMessages
  <2>3. Send(r, m) /\ UNCHANGED <<clientVars, online, peers>>
    BY <1>0, <1>2, <2>1, <2>2 DEF SendJoin
  <2>4. Idle(q) \/ (q = r /\ Queued(q, m))
    BY <2>3, SendTouches
  <2> QED BY <1>2, <2>1, <2>2, <2>4 DEF Posted
<1>3. ASSUME NEW p \in Peer, SendHello(p) PROVE Idle(q) \/ SendHello(q)
  <2>1. CASE q = p BY <1>3, <2>1
  <2>2. CASE q # p
    BY <1>3, <1>t, <1>u, <2>2, UntouchedIsIdle DEF SendHello, Send
  <2> QED BY <2>1, <2>2
<1>4. ASSUME NEW p \in Peer, Select(p) PROVE Idle(q)
  BY <1>4, <1>u, UntouchedIsIdle DEF Select
<1>5. ASSUME NEW p \in Peer, SendLeft(p) PROVE Idle(q) \/ Posted(q)
  <2>1. PICK r \in Peer : r = Head(todo[p])
    BY <1>5, SentMessages
  <2>2. PICK m \in Message : m = Left(p)
    BY SentMessages
  <2>3. Send(r, m) /\ UNCHANGED <<clientVars, online, peers>>
    BY <1>0, <1>5, <2>1, <2>2 DEF SendLeft
  <2>4. Idle(q) \/ (q = r /\ Queued(q, m))
    BY <2>3, SendTouches
  <2> QED BY <1>5, <2>1, <2>2, <2>4 DEF Posted
<1>6. ASSUME NEW p \in Peer, LookupUpdate(p) \/ LookupTarget(p) \/ EndRecvTask(p) PROVE Idle(q)
  BY <1>6, <1>u, UntouchedIsIdle DEF LookupUpdate, LookupTarget, EndRecvTask, mainVars
<1>7. ASSUME NEW p \in Peer, SendFan(p) PROVE Idle(q) \/ Posted(q)
  <2>1. PICK r \in Peer : r = Head(fan[p])
    BY <1>7, SentMessages
  <2>2. PICK m \in Message : m = IF request[p].type = "Update" THEN Update(p, request[p].ver) ELSE Sdp(p)
    BY SentMessages
  <2>3. Send(r, m) /\ UNCHANGED <<clientVars, online, peers>>
    BY <1>0, <1>7, <2>1, <2>2 DEF SendFan, mainVars
  <2>4. Idle(q) \/ (q = r /\ Queued(q, m))
    BY <2>3, SendTouches
  <2>5. CASE request[p].type = "Update"
    BY <1>7, <2>1, <2>2, <2>4, <2>5 DEF Posted
  <2>6. CASE request[p].type # "Update"
    <3>1. m.type = "Sdp"
      BY <2>2, <2>6 DEF Sdp
    <3> QED BY <2>4, <3>1 DEF Posted
  <2> QED BY <2>5, <2>6
<1>8. ASSUME NEW p \in Peer, SendError(p) PROVE Idle(q) \/ Posted(q)
  <2>1. PICK m \in Message : m = Error
    BY SentMessages
  <2>2. Send(p, m) /\ UNCHANGED <<clientVars, online, peers>>
    BY <1>0, <1>8, <2>1 DEF SendError, mainVars
  <2>3. Idle(q) \/ (q = p /\ Queued(q, m))
    BY <2>2, SendTouches
  <2> QED BY <2>1, <2>3 DEF Posted, Error
<1>9. ASSUME NEW p \in Peer, EndSendTask(p) PROVE Idle(q) \/ EndSendTask(q)
  <2>1. CASE q = p BY <1>9, <2>1
  <2>2. CASE q # p
    BY <1>9, <1>t, <1>u, <2>2, UntouchedIsIdle DEF EndSendTask, mainVars
  <2> QED BY <2>1, <2>2
<1> QED BY <1>1, <1>2, <1>3, <1>4, <1>5, <1>6, <1>7, <1>8, <1>9 DEF ServerAlone, ServerMain, ServerRecv

LEMMA PostedMessage ==
  ASSUME ServerInv, NEW q \in Peer, Posted(q)
  PROVE  \E m \in Message : Queued(q, m) /\ ~IsHello(m)
<1>1. ASSUME NEW p \in Peer
      PROVE  /\ Join(p) \in Message /\ ~IsHello(Join(p)) /\ Left(p) \in Message /\ ~IsHello(Left(p))
             /\ request[p].type = "Update" =>
                  /\ Update(p, request[p].ver) \in Message
                  /\ ~IsHello(Update(p, request[p].ver))
  BY SentMessages DEF IsHello, Join, Left, Update
<1> QED BY <1>1 DEF Posted, IsHello

\* Every step of the room, seen from one client.
LEMMA Touches ==
  ASSUME ServerInv, ClientTypes, [RoomNext]_roomVars, NEW q \in Peer
  PROVE  \/ Idle(q)
         \/ ServerAlone /\ (SendHello(q) \/ EndSendTask(q) \/ Posted(q))
         \/ Connect(q) \/ (Transmit(q) /\ ~online[q]) \/ Quit(q) \/ Return(q) \/ Handle(q) \/ EndOfStream(q)
<1>t. /\ chan \in [Peer -> Seq(Message)] /\ online \in [Peer -> BOOLEAN]
      /\ frames \in [Peer -> Seq(Message)] /\ received \in [Peer -> Seq(Message)]
      /\ events \in [Peer -> Seq(Message)]
      /\ connect \in [Peer -> {"off", "waiting", "listening", "ended", "gone"}]
      /\ devices \in [Peer -> SUBSET ClientInfo] /\ myself \in [Peer -> BOOLEAN]
      /\ missed \in [Peer -> SUBSET Peer]
      /\ told \in [Peer -> SUBSET ClientInfo] /\ peers \in [Peer -> SUBSET ClientInfo]
  BY DEF ServerInv, TypeInv, TypeOK, ClientTypes, QueueTypes, AppTypes
<1>1. CASE ServerAlone
  BY <1>1, ServerTouches
<1>2. ASSUME NEW p \in Peer, Connect(p) PROVE Idle(q) \/ Connect(q)
  <2>1. CASE q = p BY <1>2, <2>1
  <2>2. CASE q # p
    BY <1>2, <1>t, <2>2 DEF Connect, Accept, Refuse, Idle, Pipe, appVars
  <2> QED BY <2>1, <2>2
<1>3. ASSUME NEW p \in Peer, Transmit(p) PROVE Idle(q) \/ (Transmit(q) /\ ~online[q])
  <2>1. UNCHANGED <<devices, myself, missed, connect, online, received, events, told, peers>>
    BY <1>3 DEF Transmit, WriteSocket, appVars, mainVars
  <2>2. CASE q = p /\ online[p]
    <3>1. Pipe(q)' = Pipe(q)
      BY <1>3, <2>2, PipeMoves DEF ServerInv, ClientTypes
    <3> QED BY <2>1, <3>1 DEF Idle
  <2>3. CASE q = p /\ ~online[p] BY <1>3, <2>3
  <2>4. CASE q # p
    BY <1>3, <1>t, <2>1, <2>4 DEF Transmit, WriteSocket, Idle, Pipe
  <2> QED BY <2>2, <2>3, <2>4
<1>4. ASSUME NEW p \in Peer, Submit(p) PROVE Idle(q)
  BY <1>4, UntouchedIsIdle DEF Submit, ReadRequest, appVars, mainVars
<1>5. ASSUME NEW p \in Peer, LeaveMap(p) PROVE Idle(q)
  BY <1>5, UntouchedIsIdle DEF LeaveMap, Unregister, clientVars, appVars
<1>6. ASSUME NEW p \in Peer, Quit(p) PROVE Idle(q) \/ Quit(q)
  <2>1. CASE q = p BY <1>6, <2>1
  <2>2. CASE q # p
    BY <1>6, <1>t, <2>2 DEF Quit, ClientLeaves, Idle, Pipe, mainVars
  <2> QED BY <2>1, <2>2
<1>7. ASSUME NEW p \in Peer, ReadFrame(p) \/ Listen(p) PROVE Idle(q)
  <2>1. UNCHANGED <<devices, myself, missed, connect, online, chan, told, peers>>
    BY <1>7 DEF ReadFrame, Listen, appVars, vars, mainVars
  <2>2. CASE q = p
    <3>1. Pipe(q)' = Pipe(q)
      BY <1>7, <2>2, PipeMoves DEF ServerInv, ClientTypes
    <3> QED BY <2>1, <3>1 DEF Idle
  <2>3. CASE q # p
    BY <1>7, <1>t, <2>1, <2>3 DEF ReadFrame, Listen, Idle, Pipe
  <2> QED BY <2>2, <2>3
<1>8. ASSUME NEW p \in Peer, Return(p) PROVE Idle(q) \/ Return(q)
  <2>1. CASE q = p BY <1>8, <2>1
  <2>2. CASE q # p
    BY <1>8, <1>t, <2>2 DEF Return, Idle, Pipe, vars, appVars, mainVars
  <2> QED BY <2>1, <2>2
<1>9. ASSUME NEW p \in Peer, Handle(p) PROVE Idle(q) \/ Handle(q)
  <2>1. CASE q = p BY <1>9, <2>1
  <2>2. CASE q # p
    BY <1>9, <1>t, <2>2 DEF Handle, Idle, Pipe, vars, mainVars
  <2> QED BY <2>1, <2>2
<1>10. ASSUME NEW p \in Peer, EndOfStream(p) PROVE Idle(q) \/ EndOfStream(q)
  <2>1. CASE q = p BY <1>10, <2>1
  <2>2. CASE q # p
    BY <1>10, <1>t, <2>2 DEF EndOfStream, Idle, Pipe, vars, mainVars
  <2> QED BY <2>1, <2>2
<1>11. ASSUME NEW p \in Peer, AcceptOffer(p) \/ SendUpdate(p) PROVE Idle(q)
  BY <1>11, UntouchedIsIdle DEF AcceptOffer, SendUpdate, vars, appVars, mainVars
<1>12. ASSUME NEW p \in Peer, NEW t \in Peer,
             SendOffer(p, t) \/ OnAnswer(p, t) \/ SendAnswer(p, t) \/ FailOffer(p, t)
       PROVE  Idle(q)
  BY <1>12, UntouchedIsIdle DEF SendOffer, OnAnswer, SendAnswer, FailOffer, vars, appVars, mainVars
<1>13. CASE UNCHANGED roomVars
  BY <1>13, UntouchedIsIdle DEF roomVars, vars, clientVars, appVars, mainVars
<1> QED BY <1>1, <1>2, <1>3, <1>4, <1>5, <1>6, <1>7, <1>8, <1>9, <1>10, <1>11, <1>12, <1>13
        DEF RoomNext, Reader, App

-----------------------------------------------------------------------------
(* A client up to its Hello: it waits, knows nothing yet, and the Hello is   *)
(* queued when the server is through with its Joins.                         *)

OpeningInv ==
  \A p \in Peer :
    /\ connect[p] \in {"off", "waiting"} => ~myself[p] /\ devices[p] = {}
    /\ connect[p] \in {"off", "waiting", "listening"} => online[p]
    /\ main[p] = "new" => connect[p] = "off" /\ NoHello(Pipe(p))
    /\ main[p] = "joining" => connect[p] = "gone" \/ (connect[p] = "waiting" /\ NoHello(Pipe(p)))

LEMMA OpeningInit == RoomInit => OpeningInv
<1> SUFFICES ASSUME RoomInit, NEW p \in Peer
             PROVE  /\ ~myself[p] /\ devices[p] = {} /\ online[p]
                    /\ main[p] = "new" /\ connect[p] = "off" /\ NoHello(Pipe(p))
  BY DEF OpeningInv
<1>1. events[p] = <<>> /\ received[p] = <<>> /\ frames[p] = <<>> /\ chan[p] = <<>>
  BY DEF RoomInit, Init
<1>2. Pipe(p) = <<>>
  BY <1>1 DEF Pipe
<1>3. 1..Len(<<>>) = {}
  OBVIOUS
<1> QED BY <1>2, <1>3 DEF RoomInit, Init, NoHello

\* A connection is new, then joining, and never again.
LEMMA OpeningPhases ==
  ASSUME ServerInv, [RoomNext]_roomVars, NEW q \in Peer
  PROVE  main'[q] \in {"new", "joining"} => main'[q] = main[q] \/ Connect(q)
<1> USE DEF ServerInv, TypeInv
<1>1. ASSUME NEW p \in Peer, Connect(p)
      PROVE  main'[q] \in {"new", "joining"} => main'[q] = main[q] \/ Connect(q)
  BY <1>1 DEF Connect, Accept, Refuse, TypeOK
<1>2. ASSUME NEW p \in Peer, ServerMain(p) PROVE main'[q] \in {"new", "joining"} => main'[q] = main[q]
  BY <1>2 DEF ServerMain, SendJoin, SendHello, Select, SendLeft, Farewell, TypeOK
<1>3. ASSUME NEW p \in Peer, ServerRecv(p) \/ EndSendTask(p) PROVE main' = main
  BY <1>3 DEF ServerRecv, LookupUpdate, LookupTarget, SendFan, SendError, EndRecvTask, EndSendTask, mainVars
<1>4. ASSUME ResetCounts \/ UNCHANGED vars PROVE main' = main
  BY <1>4 DEF ResetCounts, vars, mainVars
<1>5. ASSUME NEW p \in Peer, LeaveMap(p) PROVE main'[q] \in {"new", "joining"} => main'[q] = main[q]
  BY <1>5 DEF LeaveMap, Unregister, Farewell, TypeOK
<1>6. ASSUME NEW p \in Peer, Transmit(p) \/ Submit(p) \/ Quit(p) PROVE main' = main
  BY <1>6 DEF Transmit, WriteSocket, Submit, ReadRequest, Quit, ClientLeaves, mainVars
<1>7. ASSUME NEW p \in Peer, Reader(p) \/ Listen(p) \/ App(p) \/ SendUpdate(p) PROVE UNCHANGED vars
  BY <1>7 DEF Reader, ReadFrame, Return, Listen, App, Handle, AcceptOffer, EndOfStream, SendUpdate
<1>8. ASSUME NEW p \in Peer, NEW t \in Peer,
             SendOffer(p, t) \/ OnAnswer(p, t) \/ SendAnswer(p, t) \/ FailOffer(p, t)
      PROVE  UNCHANGED vars
  BY <1>8 DEF SendOffer, OnAnswer, SendAnswer, FailOffer
<1>9. CASE ServerAlone
  BY <1>2, <1>3, <1>4, <1>9 DEF ServerAlone
<1>10. CASE UNCHANGED roomVars
  BY <1>4, <1>10 DEF roomVars
<1> QED BY <1>1, <1>4, <1>5, <1>6, <1>7, <1>8, <1>9, <1>10 DEF RoomNext

\* What a client has read is under way to its app.
LEMMA ReadIsInPipe ==
  ASSUME TypeInv, QueueTypes, NEW p \in Peer, NEW m \in Range(received[p])
  PROVE  \E k \in 1..Len(Pipe(p)) : Pipe(p)[k] = m
<1>1. PICK a \in Seq(Message), b \in Seq(Message), c \in Seq(Message) :
        a = events[p] /\ b = received[p] /\ c = frames[p] \o chan[p]
  BY PipeType
<1>2. b \o c \in Seq(Message) /\ a \o (b \o c) = Pipe(p)
  BY <1>1 DEF Pipe
<1>3. PICK j \in 1..Len(b) : b[j] = m
  BY <1>1 DEF Range
<1>4. Len(a) \in Nat /\ Len(b) \in Nat /\ Len(c) \in Nat
  OBVIOUS
<1>5. /\ Len(b \o c) = Len(b) + Len(c)
      /\ \A i \in 1..Len(b) + Len(c) : (b \o c)[i] = IF i <= Len(b) THEN b[i] ELSE c[i - Len(b)]
  BY ConcatProperties
<1>6. j \in 1..Len(b \o c) /\ (b \o c)[j] = m
  BY <1>3, <1>4, <1>5
<1>7. PICK d \in Seq(Message) : d = b \o c
  BY <1>2
<1>8. /\ Len(a \o d) = Len(a) + Len(d) /\ Len(d) \in Nat
      /\ \A i \in 1..Len(a) + Len(d) : (a \o d)[i] = IF i <= Len(a) THEN a[i] ELSE d[i - Len(a)]
  BY ConcatProperties
<1>9. /\ Len(a) + j \in 1..Len(a) + Len(d) /\ ~(Len(a) + j <= Len(a)) /\ (Len(a) + j) - Len(a) = j
  BY <1>4, <1>6, <1>7, <1>8
<1>10. Len(a) + j \in 1..Len(a \o d) /\ (a \o d)[Len(a) + j] = m
  BY <1>6, <1>7, <1>8, <1>9
<1> QED BY <1>2, <1>7, <1>10

LEMMA OpeningStep == ServerInv /\ ClientTypes /\ OpeningInv /\ [RoomNext]_roomVars => OpeningInv'
<1> SUFFICES ASSUME ServerInv, ClientTypes, OpeningInv, [RoomNext]_roomVars, NEW q \in Peer
             PROVE  /\ connect'[q] \in {"off", "waiting"} => ~myself'[q] /\ devices'[q] = {}
                    /\ connect'[q] \in {"off", "waiting", "listening"} => online'[q]
                    /\ main'[q] = "new" => connect'[q] = "off" /\ NoHello(Pipe(q))'
                    /\ main'[q] = "joining" =>
                         connect'[q] = "gone" \/ (connect'[q] = "waiting" /\ NoHello(Pipe(q))')
  BY DEF OpeningInv
<1>0. /\ connect[q] \in {"off", "waiting"} => ~myself[q] /\ devices[q] = {}
      /\ connect[q] \in {"off", "waiting", "listening"} => online[q]
      /\ main[q] = "new" => connect[q] = "off" /\ NoHello(Pipe(q))
      /\ main[q] = "joining" => connect[q] = "gone" \/ (connect[q] = "waiting" /\ NoHello(Pipe(q)))
  BY DEF OpeningInv
<1>1. main'[q] \in {"new", "joining"} => main'[q] = main[q] \/ Connect(q)
  BY OpeningPhases
<1>2. /\ main[q] \in {"new", "joining"} => ~send_task[q]
      /\ Pipe(q) \in Seq(Message)
      /\ registered = {p \in Peer : main[p] \in {"joining", "serving", "leaving"}}
  BY PipeType DEF ServerInv, NewsInv, IntroInv, Membership, Phases, ClientTypes
<1>t. /\ main \in [Peer -> Phase] /\ send_task \in [Peer -> BOOLEAN]
      /\ connect \in [Peer -> {"off", "waiting", "listening", "ended", "gone"}]
      /\ online \in [Peer -> BOOLEAN]
  BY DEF ServerInv, TypeInv, TypeOK, ClientTypes, AppTypes
<1>3. CASE Connect(q)
  <2>1. UNCHANGED <<frames, received, events, myself, devices>> /\ main[q] = "new"
    BY <1>3 DEF Connect, Accept, Refuse, appVars
  <2>2. CASE Accept(q)
    <3>1. q \in registered' /\ main'[q] = "joining" /\ UNCHANGED <<chan, online>>
      BY <1>t, <2>2 DEF Accept
    <3>2. connect'[q] = "waiting"
      BY <1>3, <1>t, <3>1 DEF Connect
    <3>3. Pipe(q)' = Pipe(q)
      BY <2>1, <3>1 DEF Pipe
    <3> QED BY <1>0, <2>1, <3>1, <3>2, <3>3
  <2>3. CASE Refuse(q)
    <3>1. q \notin registered' /\ main'[q] = "closed"
      BY <1>2, <1>t, <2>1, <2>3 DEF Refuse
    <3>2. connect'[q] = "ended"
      BY <1>3, <1>t, <3>1 DEF Connect
    <3> QED BY <3>1, <3>2
  <2> QED BY <1>3, <2>2, <2>3 DEF Connect
<1>4. CASE ~Connect(q) /\ Idle(q)
  BY <1>0, <1>1, <1>4 DEF Idle
<1>5. ASSUME ~Connect(q), NEW m \in Message, Queued(q, m), ~IsHello(m)
      PROVE  /\ connect'[q] \in {"off", "waiting"} => ~myself'[q] /\ devices'[q] = {}
             /\ connect'[q] \in {"off", "waiting", "listening"} => online'[q]
             /\ main'[q] = "new" => connect'[q] = "off" /\ NoHello(Pipe(q))'
             /\ main'[q] = "joining" =>
                  connect'[q] = "gone" \/ (connect'[q] = "waiting" /\ NoHello(Pipe(q))')
  <2>1. NoHello(Pipe(q)) => NoHello(Append(Pipe(q), m))
    BY <1>2, <1>5, EarlyAtTheBack
  <2>2. Pipe(q)' = Append(Pipe(q), m)
    BY <1>5 DEF Queued
  <2>3. NoHello(Pipe(q)) => NoHello(Pipe(q))'
    BY <2>1, <2>2
  <2> QED BY <1>0, <1>1, <1>5, <2>3 DEF Queued
<1>6. CASE ~Connect(q) /\ ServerAlone /\ (SendHello(q) \/ EndSendTask(q))
  <2>1. UNCHANGED <<connect, myself, devices, online>>
    BY <1>6 DEF ServerAlone, SendHello, EndSendTask, clientVars, appVars
  <2>2. main'[q] \notin {"new", "joining"}
    <3>1. CASE SendHello(q)
      BY <1>t, <3>1 DEF SendHello
    <3>2. CASE EndSendTask(q)
      BY <1>2, <3>2 DEF EndSendTask, mainVars
    <3> QED BY <1>6, <3>1, <3>2
  <2> QED BY <1>0, <2>1, <2>2
<1>7. CASE ~Connect(q) /\ Transmit(q)
  <2>1. UNCHANGED <<connect, myself, devices, online, main>> /\ send_task[q]
    BY <1>7 DEF Transmit, WriteSocket, appVars, mainVars
  <2> QED BY <1>0, <1>2, <2>1
<1>8. CASE ~Connect(q) /\ Quit(q)
  <2>1. connect'[q] = "gone" /\ main' = main /\ main[q] # "new"
    BY <1>8, <1>t DEF Quit, ClientLeaves, mainVars
  <2> QED BY <2>1
<1>9. CASE ~Connect(q) /\ Return(q)
  <2>1. PICK m \in Range(received[q]) : IsHello(m)
    BY <1>9 DEF Return
  <2>2. ~NoHello(Pipe(q))
    BY <2>1, ReadIsInPipe DEF NoHello, ServerInv, ClientTypes
  <2>3. /\ connect[q] = "waiting" /\ connect'[q] = "listening"
        /\ UNCHANGED <<main, online>>
    BY <1>9, <1>t DEF Return, vars, mainVars
  <2> QED BY <1>0, <2>2, <2>3
<1>10. CASE ~Connect(q) /\ (Handle(q) \/ EndOfStream(q))
  <2>1. /\ connect[q] = "listening" /\ connect'[q] \in {"listening", "ended"}
        /\ UNCHANGED <<main, online>>
    BY <1>10, <1>t DEF Handle, EndOfStream, vars, mainVars
  <2> QED BY <1>0, <2>1
<1> QED BY <1>3, <1>4, <1>5, <1>6, <1>7, <1>8, <1>9, <1>10, Touches, PostedMessage

-----------------------------------------------------------------------------
(* What the app of a connection that is served shows, or will show once it   *)
(* has dealt with all that is under way to it: the devices the server has    *)
(* told it of, in the versions the server has, except those it heard of      *)
(* before its Hello.                                                         *)

Live(p) == p \in registered /\ RxOpen(p) /\ connect[p] \in {"waiting", "listening"}

\* The app has heard of t before its Hello, or will.
Missing(p, t) == t \in missed[p] \/ (~myself[p] /\ Early(Pipe(p), t))

\* The app gathers what the server told it, and nothing else.
Gathered(p) ==
  IF main[p] = "joining" THEN \A t \in Ids(told[p]) : Missing(p, t)
  ELSE /\ \A i \in told[p] : Held(Pipe(p), devices[p], i) \/ Missing(p, i.id)
       /\ \A t \in Peer \ Ids(told[p]) :
            Absent(Pipe(p), devices[p], t) \/ Missing(p, t) \/ (t \in torn /\ t \notin registered)

\* It is told the version in the map, or an Update is on its way to it.
Newest(p, t) ==
  main[t] \in {"joining", "serving"} =>
    \A i \in AllShown(p) : i.id = t =>
      i.ver = info[t] \/ Missing(p, t) \/ (Updating(t) /\ p \in Range(fan[t]))

\* It is told that a peer has left, or the Left is still to be sent.
Gone(p, t) ==
  (t \notin registered /\ t \in Ids(AllShown(p))) =>
    Missing(p, t) \/ (main[t] = "goodbye" /\ p \in Range(todo[t]))

ShownInv == \A p \in Peer : Live(p) => Gathered(p) /\ \A t \in Peer : Newest(p, t) /\ Gone(p, t)

\* What the room's proofs rest on.
RoomInv == ServerInv /\ ClientTypes /\ OthersInv /\ TornInv /\ OpeningInv

LEMMA ShownInit == RoomInit => ShownInv
  BY DEF RoomInit, Init, ShownInv, Live

\* The Joins end with the Hello.
LEMMA JoiningSteps ==
  ASSUME ServerInv, [RoomNext]_roomVars, NEW q \in Peer
  PROVE  /\ main[q] = "joining" => main'[q] = "joining" \/ (ServerAlone /\ SendHello(q))
         /\ send_task'[q] => send_task[q] \/ main[q] = "joining"
<1> USE DEF ServerInv, TypeInv
<1>1. ASSUME NEW p \in Peer, Connect(p)
      PROVE  (main[q] = "joining" => main'[q] = "joining") /\ send_task' = send_task
  BY <1>1 DEF Connect, Accept, Refuse, TypeOK
<1>2. ASSUME NEW p \in Peer, ServerMain(p)
      PROVE  main[q] = "joining" => main'[q] = "joining" \/ SendHello(q)
  BY <1>2 DEF ServerMain, SendJoin, SendHello, Select, SendLeft, Farewell, TypeOK
<1>3. ASSUME NEW p \in Peer, ServerMain(p)
      PROVE  send_task'[q] => send_task[q] \/ main[q] = "joining"
  BY <1>3 DEF ServerMain, SendJoin, SendHello, Select, SendLeft, TypeOK
<1>4. ASSUME NEW p \in Peer, ServerRecv(p) \/ EndSendTask(p)
      PROVE  main' = main /\ (send_task'[q] => send_task[q])
  BY <1>4 DEF ServerRecv, LookupUpdate, LookupTarget, SendFan, SendError, EndRecvTask, EndSendTask, mainVars,
     TypeOK
<1>5. ASSUME ResetCounts \/ UNCHANGED vars PROVE main' = main /\ send_task' = send_task
  BY <1>5 DEF ResetCounts, vars, mainVars
<1>6. ASSUME NEW p \in Peer, LeaveMap(p)
      PROVE  (main[q] = "joining" => main'[q] = "joining") /\ send_task' = send_task
  BY <1>6 DEF LeaveMap, Unregister, Farewell, TypeOK
<1>7. ASSUME NEW p \in Peer, Transmit(p) \/ Submit(p) \/ Quit(p) PROVE main' = main /\ send_task' = send_task
  BY <1>7 DEF Transmit, WriteSocket, Submit, ReadRequest, Quit, ClientLeaves, mainVars
<1>8. ASSUME NEW p \in Peer, Reader(p) \/ Listen(p) \/ App(p) \/ SendUpdate(p) PROVE UNCHANGED vars
  BY <1>8 DEF Reader, ReadFrame, Return, Listen, App, Handle, AcceptOffer, EndOfStream, SendUpdate
<1>9. ASSUME NEW p \in Peer, NEW t \in Peer,
             SendOffer(p, t) \/ OnAnswer(p, t) \/ SendAnswer(p, t) \/ FailOffer(p, t)
      PROVE  UNCHANGED vars
  BY <1>9 DEF SendOffer, OnAnswer, SendAnswer, FailOffer
<1>10. CASE ServerAlone
  BY <1>2, <1>3, <1>4, <1>5, <1>10 DEF ServerAlone
<1>11. CASE UNCHANGED roomVars
  BY <1>5, <1>11 DEF roomVars
<1> QED BY <1>1, <1>5, <1>6, <1>7, <1>8, <1>9, <1>10, <1>11 DEF RoomNext

\* A connection that is served was so before, unless it is new, and this is all that may
\* have happened to it.
LEMMA Onward ==
  ASSUME RoomInv, [RoomNext]_roomVars, NEW q \in Peer, Live(q)', ~Connect(q)
  PROVE  /\ Live(q)
         /\ Idle(q) \/ (ServerAlone /\ (SendHello(q) \/ Posted(q))) \/ Return(q) \/ Handle(q)
         /\ main'[q] = "joining" => main[q] = "joining"
<1> USE DEF RoomInv
<1>1. main'[q] = "joining" => main[q] = "joining"
  BY OpeningPhases
<1>2. RxOpen(q)
  BY <1>1, JoiningSteps DEF Live, RxOpen
<1>3. q \in registered
  <2>1. q \in registered \/ Accept(q)
    BY ServerStep, PhaseSteps DEF Live
  <2>2. Accept(q) => main[q] = "new" /\ main'[q] = "joining"
    BY DEF Accept, ServerInv, TypeInv, TypeOK
  <2> QED BY <1>1, <2>1, <2>2
<1>4. connect'[q] \in {"waiting", "listening"} /\ RxOpen(q)' /\ connect \in [Peer -> {"off", "waiting", "listening", "ended", "gone"}]
  BY DEF Live, ClientTypes, AppTypes
<1>5. ~(ServerAlone /\ EndSendTask(q))
  <2> SUFFICES ASSUME EndSendTask(q) PROVE FALSE
    OBVIOUS
  <2>1. send_task[q] /\ ~send_task'[q] /\ main' = main
    BY DEF EndSendTask, mainVars, ServerInv, TypeInv, TypeOK
  <2>2. main[q] # "joining"
    BY <2>1 DEF ServerInv, NewsInv, IntroInv, Phases
  <2> QED BY <1>4, <2>1, <2>2 DEF RxOpen
<1>6. ~(Transmit(q) /\ ~online[q])
  BY <1>4 DEF Transmit, OpeningInv
<1>7. ~Quit(q) /\ ~EndOfStream(q)
  BY <1>4 DEF Quit, EndOfStream
<1>8. Idle(q) \/ (ServerAlone /\ (SendHello(q) \/ Posted(q))) \/ Return(q) \/ Handle(q)
  BY <1>5, <1>6, <1>7, Touches
<1>9. connect[q] \in {"waiting", "listening"}
  <2>1. CASE Idle(q) BY <1>4, <2>1 DEF Idle
  <2>2. CASE ServerAlone BY <1>4, <2>2 DEF ServerAlone, clientVars
  <2>3. CASE Return(q) BY <2>3 DEF Return
  <2>4. CASE Handle(q) BY <2>4 DEF Handle
  <2> QED BY <1>8, <2>1, <2>2, <2>3, <2>4
<1> QED BY <1>1, <1>2, <1>3, <1>8, <1>9 DEF Live

\* What the Hello does.
LEMMA HelloQueued ==
  ASSUME RoomInv, NEW q \in Peer, ServerAlone, SendHello(q)
  PROVE  /\ Pipe(q)' = Append(Pipe(q), Hello(peers[q])) /\ Pipe(q) \in Seq(Message)
         /\ Hello(peers[q]) \in Message /\ peers[q] \in SUBSET ClientInfo
         /\ main[q] = "joining" /\ main'[q] = "serving"
         /\ told'[q] = told[q] \cup peers[q] /\ peers'[q] = {}
         /\ UNCHANGED <<devices, myself, missed, torn, registered, connect>>
<1> USE DEF RoomInv
<1>1. PICK m \in Message : m = Hello(peers[q])
  BY SentMessages
<1>2. UNCHANGED <<frames, received, events>>
  BY DEF ServerAlone, clientVars
<1>3. RxOpen(q) /\ Send(q, m)
  BY <1>1 DEF SendHello, RxOpen
<1>4. Pipe(q)' = Append(Pipe(q), m)
  BY <1>2, <1>3, PipeGrows DEF ServerInv, ClientTypes
<1>5. Pipe(q) \in Seq(Message)
  BY PipeType DEF ServerInv, ClientTypes
<1>6. told'[q] = told[q] \cup peers[q]
  <2>1. told'[q] = Seen(told[q], m)
    BY <1>3, ShownIds DEF ServerInv
  <2>2. Seen(told[q], m) = told[q] \cup peers[q]
    BY <1>1 DEF Seen, Hello
  <2> QED BY <2>1, <2>2
<1>7. main[q] = "joining" /\ main'[q] = "serving" /\ peers'[q] = {}
  BY DEF SendHello, ServerInv, TypeInv, TypeOK
<1>8. UNCHANGED <<devices, myself, missed, torn, registered, connect>>
  BY DEF ServerAlone, clientVars, appVars, SendHello, mapVars
<1>9. peers[q] \in SUBSET ClientInfo
  BY SentMessages
<1> QED BY <1>1, <1>4, <1>5, <1>6, <1>7, <1>8, <1>9

\* What the app has missed it keeps missing.
LEMMA MissingStays ==
  ASSUME RoomInv, [RoomNext]_roomVars, NEW q \in Peer, Live(q)', ~Connect(q), NEW t, Missing(q, t)
  PROVE  Missing(q, t)'
<1> USE DEF RoomInv
<1>1. CASE Idle(q)
  BY <1>1 DEF Idle, Missing
<1>2. CASE ServerAlone /\ SendHello(q)
  <2>1. PICK m \in Message : Pipe(q)' = Append(Pipe(q), m)
    BY <1>2, HelloQueued
  <2>2. UNCHANGED <<myself, missed>> /\ Pipe(q) \in Seq(Message)
    BY <1>2, HelloQueued
  <2>3. Early(Pipe(q), t) => Early(Append(Pipe(q), m), t)
    BY <2>2, EarlyAtTheBack
  <2> QED BY <2>1, <2>2, <2>3 DEF Missing
<1>3. CASE Posted(q)
  <2>1. PICK m \in Message : Queued(q, m)
    BY <1>3, PostedMessage
  <2>2. Pipe(q) \in Seq(Message)
    BY PipeType DEF ServerInv, ClientTypes
  <2>3. Early(Pipe(q), t) => Early(Append(Pipe(q), m), t)
    BY <2>2, EarlyAtTheBack
  <2> QED BY <2>1, <2>3 DEF Missing, Queued
<1>4. CASE Return(q)
  BY <1>4 DEF Return, Missing, Pipe, vars, appVars
<1>5. CASE Handle(q)
  <2>1. PICK m : m = Head(events[q])
    OBVIOUS
  <2>2. /\ myself' = [myself EXCEPT ![q] = myself[q] \/ m.type = "Hello"]
        /\ missed' = [missed EXCEPT ![q] =
               IF m.type # "Hello" /\ ~myself[q] THEN missed[q] \cup About(m) ELSE missed[q]]
        /\ myself \in [Peer -> BOOLEAN] /\ missed \in [Peer -> SUBSET Peer]
    BY <1>5, <2>1, HandleEffect DEF ClientTypes, AppTypes
  <2>3. Pipe(q) # <<>> /\ m = Head(Pipe(q)) /\ Pipe(q)' = Tail(Pipe(q)) /\ Pipe(q) \in Seq(Message)
    BY <1>5, <2>1, PipeShrinks, PipeType DEF ServerInv, ClientTypes
  <2>4. CASE t \in missed[q]
    BY <2>2, <2>4 DEF Missing
  <2>5. CASE ~myself[q] /\ Early(Pipe(q), t)
    <3>1. m.type # "Hello" /\ (t \in About(m) \/ Early(Tail(Pipe(q)), t))
      BY <2>3, <2>5, HandledEarly
    <3>2. missed'[q] = missed[q] \cup About(m) /\ ~myself'[q]
      BY <2>2, <2>5, <3>1
    <3> QED BY <2>3, <3>1, <3>2 DEF Missing
  <2> QED BY <2>4, <2>5 DEF Missing
<1> QED BY <1>1, <1>2, <1>3, <1>4, <1>5, Onward

\* A torn connection stays torn, and out of the map.
LEMMA TornStays ==
  ASSUME RoomInv, [RoomNext]_roomVars, NEW t \in Peer, t \in torn, t \notin registered
  PROVE  t \in torn' /\ t \notin registered'
<1> USE DEF RoomInv
<1>1. t \in torn'
  BY TornSteps DEF LeaveMap, roomVars
<1>2. t \in registered' => Accept(t)
  BY ServerStep, PhaseSteps
<1>3. main[t] \in {"goodbye", "closed"}
  BY DEF TornInv
<1> QED BY <1>1, <1>2, <1>3 DEF Accept

\* What a message says to a reader, and what the app makes of it, agree.
Agreeing(q, m) ==
  /\ \A i \in told'[q] : i \in Carried(m) \/ (i \in told[q] /\ Sparing(m, i))
  /\ \A t \in Peer \ Ids(told'[q]) :
       \/ m = Left(t)
       \/ t \notin Ids(told[q]) /\ t \notin Ids(Carried(m))
       \/ t \in torn /\ t \notin registered

LEMMA JoinAgrees ==
  ASSUME TypeInv, NEW q \in Peer, NEW p \in Peer, told'[q] = Seen(told[q], Join(p))
  PROVE  Agreeing(q, Join(p))
<1> DEFINE j == [id |-> p, ver |-> 0]
<1>1. told[q] \in SUBSET ClientInfo
  BY DEF TypeInv, TypeOK
<1>2. Carried(Join(p)) = {j} /\ Join(p).type = "Join" /\ told'[q] = told[q] \cup {j}
  BY DEF Carried, Join, Seen
<1>3. ASSUME NEW i \in told[q], i # j PROVE Sparing(Join(p), i)
  <2>1. i = [id |-> i.id, ver |-> i.ver]
    BY <1>1 DEF ClientInfo
  <2>2. i.id = p => i.ver # 0
    BY <1>3, <2>1
  <2>3. i.id = p => Token(j) # Token(i)
    BY <2>2 DEF Token
  <2> QED BY <1>2, <2>3 DEF Sparing
<1>4. \A i \in told'[q] : i \in Carried(Join(p)) \/ (i \in told[q] /\ Sparing(Join(p), i))
  BY <1>2, <1>3
<1>5. Ids(told'[q]) = Ids(told[q]) \cup Ids(Carried(Join(p)))
  BY <1>2 DEF Ids
<1> QED BY <1>4, <1>5 DEF Agreeing

LEMMA LeftAgrees ==
  ASSUME TypeInv, NEW q \in Peer, NEW p \in Peer, told'[q] = Seen(told[q], Left(p))
  PROVE  Agreeing(q, Left(p))
<1>1. /\ Carried(Left(p)) = {} /\ Left(p).type = "Left" /\ Left(p).id = p
      /\ told'[q] = {i \in told[q] : i.id # p}
  BY DEF Carried, Left, Seen
<1>2. \A i \in told'[q] : i \in told[q] /\ Sparing(Left(p), i)
  BY <1>1 DEF Sparing
<1>3. ASSUME NEW t \in Peer \ Ids(told'[q]), t # p
      PROVE  t \notin Ids(told[q]) /\ t \notin Ids(Carried(Left(p)))
  BY <1>1, <1>3 DEF Ids
<1> QED BY <1>2, <1>3 DEF Agreeing

\* The Update of a device that its receiver has not been told of is one of a device that
\* has left the map since.
LEMMA UpdateReaches ==
  ASSUME RoomInv, NEW q \in Peer, Live(q), main[q] # "joining", NEW p \in Peer, Updating(p),
         q \in Range(fan[p]), p \notin Ids(told[q])
  PROVE  p \in torn /\ p \notin registered
<1> USE DEF RoomInv
<1>1. CASE p \notin registered
  BY <1>1 DEF TornInv
<1>2. CASE p \in registered
  <2>1. q \in registered /\ RxOpen(q)
    BY DEF Live
  <2>2. p # q
    BY DEF OthersInv
  <2>3. GroupOf[p] = GroupOf[q]
    BY DEF ServerInv, IsolationInv, GroupBound
  <2>4. peers[q] = {} /\ main[p] # "joining"
    BY DEF ServerInv, NewsInv, IntroInv, Phases, Updating
  <2>5. p \in Ids(told[q]) \cup Ids(peers[q])
    BY <1>2, <2>1, <2>2, <2>3, <2>4 DEF ServerInv, NewsInv, IntroInv, Accounted
  <2>6. Ids(peers[q]) = {}
    BY <2>4 DEF Ids
  <2> QED BY <2>5, <2>6
<1> QED BY <1>1, <1>2

LEMMA UpdateAgrees ==
  ASSUME RoomInv, NEW q \in Peer, Live(q), main[q] # "joining", NEW p \in Peer, Updating(p),
         q \in Range(fan[p]), NEW v \in 0..MaxVersion, told'[q] = Seen(told[q], Update(p, v))
  PROVE  Agreeing(q, Update(p, v))
<1> DEFINE j == [id |-> p, ver |-> v]
<1>1. told[q] \in SUBSET ClientInfo
  BY DEF RoomInv, ServerInv, TypeInv, TypeOK
<1>2. /\ Carried(Update(p, v)) = {j} /\ Update(p, v).type = "Update"
      /\ told'[q] = {IF i.id = p THEN j ELSE i : i \in told[q]}
  BY DEF Carried, Update, Seen
<1>3. \A i \in told[q] : i.id # p => Sparing(Update(p, v), i)
  BY <1>2 DEF Sparing
<1>4. \A i \in told'[q] : i \in {j} \/ (i \in told[q] /\ i.id # p)
  BY <1>2
<1>5. Ids(told'[q]) = Ids(told[q])
  <2>1. \A i \in told[q] : (IF i.id = p THEN j ELSE i).id = i.id
    OBVIOUS
  <2>2. Ids({IF i.id = p THEN j ELSE i : i \in told[q]}) = Ids(told[q])
    BY <2>1, Zenon DEF Ids
  <2> QED BY <1>2, <2>2
<1>6. Ids(Carried(Update(p, v))) = {p}
  BY <1>2 DEF Ids
<1>7. p \notin Ids(told[q]) => p \in torn /\ p \notin registered
  BY UpdateReaches
<1> QED BY <1>2, <1>3, <1>4, <1>5, <1>6, <1>7 DEF Agreeing

LEMMA OtherAgrees ==
  ASSUME TypeInv, NEW q \in Peer, NEW m \in Message, m.type \in {"Sdp", "Error"},
         told'[q] = Seen(told[q], m)
  PROVE  Agreeing(q, m)
<1>1. Carried(m) = {} /\ told'[q] = told[q]
  BY DEF Carried, Seen
<1> QED BY <1>1 DEF Agreeing, Sparing, Ids

LEMMA PostedAgrees ==
  ASSUME RoomInv, NEW q \in Peer, Live(q), Posted(q)
  PROVE  \E m \in Message :
           /\ Queued(q, m) /\ ~IsHello(m) /\ told'[q] = Seen(told[q], m)
           /\ main[q] # "joining" => Agreeing(q, m)
<1> USE DEF RoomInv
<1>0. TypeInv
  BY DEF ServerInv
<1>1. ASSUME NEW m \in Message, Queued(q, m) PROVE told'[q] = Seen(told[q], m)
  BY <1>0, <1>1, ShownIds DEF Queued
<1>2. ASSUME NEW p \in Peer, Queued(q, Join(p))
      PROVE  Join(p) \in Message /\ ~IsHello(Join(p)) /\ Agreeing(q, Join(p))
  <2>1. Join(p) \in Message BY SentMessages
  <2>2. ~IsHello(Join(p)) BY DEF IsHello, Join
  <2> QED BY <1>0, <1>1, <1>2, <2>1, <2>2, JoinAgrees
<1>3. ASSUME NEW p \in Peer, Queued(q, Left(p))
      PROVE  Left(p) \in Message /\ ~IsHello(Left(p)) /\ Agreeing(q, Left(p))
  <2>1. Left(p) \in Message BY SentMessages
  <2>2. ~IsHello(Left(p)) BY DEF IsHello, Left
  <2> QED BY <1>0, <1>1, <1>3, <2>1, <2>2, LeftAgrees
<1>4. ASSUME NEW p \in Peer, SendFan(p), q = Head(fan[p]), request[p].type = "Update",
             Queued(q, Update(p, request[p].ver))
      PROVE  \E m \in Message : /\ Queued(q, m) /\ ~IsHello(m)
                                /\ main[q] # "joining" => Agreeing(q, m)
  <2>1. PICK v \in 0..MaxVersion : v = request[p].ver
    BY <1>4, SentMessages
  <2>2. Update(p, v) \in Message
    BY <1>4, <2>1, SentMessages
  <2>3. ~IsHello(Update(p, v)) BY DEF IsHello, Update
  <2>4. Updating(p) /\ q \in Range(fan[p])
    BY <1>4, SentMessages DEF SendFan, Updating
  <2>5. Queued(q, Update(p, v))
    BY <1>4, <2>1
  <2>6. told'[q] = Seen(told[q], Update(p, v))
    BY <1>1, <2>2, <2>5
  <2>7. main[q] # "joining" => Agreeing(q, Update(p, v))
    BY <2>4, <2>6, UpdateAgrees
  <2> QED BY <2>2, <2>3, <2>5, <2>7
<1>5. ASSUME NEW m \in Message, m.type \in {"Sdp", "Error"}, Queued(q, m)
      PROVE  ~IsHello(m) /\ Agreeing(q, m)
  BY <1>0, <1>1, <1>5, OtherAgrees DEF IsHello
<1>6. \E m \in Message : Queued(q, m) /\ ~IsHello(m) /\ (main[q] # "joining" => Agreeing(q, m))
  BY <1>2, <1>3, <1>4, <1>5 DEF Posted
<1> QED BY <1>1, <1>6

\* Whatever m is about was not known before, or is what the message is about.
LEMMA SeenAbout ==
  ASSUME NEW s \in SUBSET ClientInfo, NEW m \in Message, NEW t \in Ids(Seen(s, m))
  PROVE  t \in Ids(s) \/ t \in About(m)
<1>1. m.type \in {"Hello", "Join", "Update", "Sdp", "Left", "Error"}
  BY MessageFields
<1>2. PICK i \in Seen(s, m) : i.id = t
  BY DEF Ids
<1>3. CASE m.type = "Hello" BY <1>2, <1>3 DEF Seen, About, Ids
<1>4. CASE m.type = "Join" BY <1>2, <1>4 DEF Seen, About, Ids
<1>5. CASE m.type = "Update" BY <1>2, <1>5 DEF Seen, About, Ids
<1>6. CASE m.type = "Left"
  <2>1. i \in s BY <1>2, <1>6 DEF Seen
  <2> QED BY <1>2, <2>1 DEF Ids
<1>7. CASE m.type \in {"Sdp", "Error"}
  <2>1. i \in s BY <1>2, <1>7 DEF Seen
  <2> QED BY <1>2, <2>1 DEF Ids
<1> QED BY <1>1, <1>3, <1>4, <1>5, <1>6, <1>7

\* Before the Hello whatever reaches the client is missed.
LEMMA EarlyIsMissed ==
  ASSUME RoomInv, NEW q \in Peer, Live(q), main[q] = "joining", NEW m \in Message, ~IsHello(m),
         Pipe(q)' = Append(Pipe(q), m), myself'[q] = myself[q], NEW t \in About(m)
  PROVE  Missing(q, t)'
<1>1. NoHello(Pipe(q)) /\ ~myself[q]
  BY DEF RoomInv, OpeningInv, Live
<1>2. Pipe(q) \in Seq(Message)
  BY PipeType DEF RoomInv, ServerInv, ClientTypes
<1>3. Early(Append(Pipe(q), m), t)
  BY <1>1, <1>2, EarlyAtTheBack
<1> QED BY <1>1, <1>3 DEF Missing

\* While the Joins go out.
LEMMA GatheredEarly ==
  ASSUME RoomInv, [RoomNext]_roomVars, NEW q \in Peer, Live(q)', ~Connect(q), Gathered(q),
         main'[q] = "joining"
  PROVE  Gathered(q)'
<1> SUFFICES ASSUME NEW t \in Ids(told'[q]) PROVE Missing(q, t)'
  BY DEF Gathered
<1>1. Live(q) /\ main[q] = "joining"
  BY Onward
<1>2. \A u \in Ids(told[q]) : Missing(q, u)'
  BY <1>1, MissingStays DEF Gathered
<1>3. CASE Idle(q) \/ Return(q) \/ Handle(q)
  <2>1. told'[q] = told[q]
    BY <1>3 DEF Idle, Return, Handle, vars
  <2> QED BY <1>2, <2>1
<1>4. CASE ServerAlone /\ SendHello(q)
  BY <1>4, HelloQueued
<1>5. CASE Posted(q)
  <2>1. PICK m \in Message : Queued(q, m) /\ ~IsHello(m) /\ told'[q] = Seen(told[q], m)
    BY <1>1, <1>5, PostedAgrees
  <2>2. told[q] \in SUBSET ClientInfo
    BY DEF RoomInv, ServerInv, TypeInv, TypeOK
  <2>3. t \in Ids(told[q]) \/ t \in About(m)
    BY <2>1, <2>2, SeenAbout
  <2>4. t \in About(m) => Missing(q, t)'
    BY <1>1, <2>1, EarlyIsMissed DEF Queued
  <2> QED BY <1>2, <2>3, <2>4
<1> QED BY <1>3, <1>4, <1>5, Onward

\* The Hello brings what it lists to an empty list.
LEMMA GatheredByHello ==
  ASSUME RoomInv, [RoomNext]_roomVars, NEW q \in Peer, Live(q)', ~Connect(q), Gathered(q),
         ServerAlone, SendHello(q)
  PROVE  Gathered(q)'
<1>1. Live(q)
  BY Onward
<1>2. /\ Pipe(q)' = Append(Pipe(q), Hello(peers[q])) /\ Pipe(q) \in Seq(Message)
      /\ Hello(peers[q]) \in Message /\ peers[q] \in SUBSET ClientInfo
      /\ main[q] = "joining" /\ main'[q] = "serving"
      /\ told'[q] = told[q] \cup peers[q]
      /\ UNCHANGED <<devices, myself, missed, torn, registered, connect>>
  BY HelloQueued
<1>3. NoHello(Pipe(q)) /\ ~myself[q] /\ devices[q] = {}
  BY <1>1, <1>2 DEF RoomInv, OpeningInv, Live
<1>4. ASSUME NEW i \in told'[q] PROVE Held(Pipe(q)', devices'[q], i) \/ Missing(q, i.id)'
  <2>1. CASE i \in told[q]
    <3>1. i.id \in Ids(told[q])
      BY <2>1 DEF Ids
    <3>2. Missing(q, i.id)
      BY <1>2, <3>1 DEF Gathered
    <3> QED BY <3>2, MissingStays
  <2>2. CASE i \in peers[q]
    <3>1. i \in Carried(Hello(peers[q]))
      BY <2>2 DEF Carried, Hello
    <3>2. Held(Append(Pipe(q), Hello(peers[q])), devices[q], i)
      BY <1>2, <3>1, HeldAtTheBack
    <3> QED BY <1>2, <3>2
  <2> QED BY <1>2, <2>1, <2>2
<1>5. ASSUME NEW t \in Peer \ Ids(told'[q]) PROVE Absent(Pipe(q)', devices'[q], t) \/ Missing(q, t)'
  <2>1. t \notin Ids(peers[q])
    BY <1>2, <1>5 DEF Ids
  <2>2. Early(Pipe(q), t) \/ Absent(Append(Pipe(q), Hello(peers[q])), {}, t)
    BY <1>2, <1>3, <2>1, HelloAtTheBack
  <2>3. Early(Pipe(q), t) => Missing(q, t)
    BY <1>3 DEF Missing
  <2> QED BY <1>2, <1>3, <2>2, <2>3, MissingStays
<1> QED BY <1>2, <1>4, <1>5 DEF Gathered

\* After the Hello: a message queued at the back.
LEMMA GatheredByPost ==
  ASSUME RoomInv, [RoomNext]_roomVars, NEW q \in Peer, Live(q)', ~Connect(q), Gathered(q),
         main[q] # "joining", main'[q] # "joining", Posted(q)
  PROVE  Gathered(q)'
<1>1. Live(q)
  BY Onward
<1>2. PICK m \in Message : Queued(q, m) /\ Agreeing(q, m)
  BY <1>1, PostedAgrees
<1>3. /\ Pipe(q) \in Seq(Message) /\ Pipe(q)' = Append(Pipe(q), m) /\ devices'[q] = devices[q]
  BY <1>2, PipeType DEF Queued, RoomInv, ServerInv, ClientTypes
<1>4. ASSUME NEW i \in told'[q] PROVE Held(Pipe(q)', devices'[q], i) \/ Missing(q, i.id)'
  <2>1. CASE i \in Carried(m)
    BY <1>3, <2>1, HeldAtTheBack
  <2>2. CASE i \in told[q] /\ Sparing(m, i)
    <3>1. Held(Pipe(q), devices[q], i) \/ Missing(q, i.id)
      BY <2>2 DEF Gathered
    <3>2. Held(Pipe(q), devices[q], i) => Held(Append(Pipe(q), m), devices[q], i)
      BY <1>3, <2>2, HeldAtTheBack
    <3> QED BY <1>3, <3>1, <3>2, MissingStays
  <2> QED BY <1>2, <2>1, <2>2 DEF Agreeing
<1>5. ASSUME NEW t \in Peer \ Ids(told'[q])
      PROVE  Absent(Pipe(q)', devices'[q], t) \/ Missing(q, t)' \/ (t \in torn' /\ t \notin registered')
  <2>1. CASE m = Left(t)
    BY <1>3, <2>1, AbsentAtTheBack
  <2>2. CASE t \notin Ids(told[q]) /\ t \notin Ids(Carried(m))
    <3>1. Absent(Pipe(q), devices[q], t) \/ Missing(q, t) \/ (t \in torn /\ t \notin registered)
      BY <2>2 DEF Gathered
    <3>2. Absent(Pipe(q), devices[q], t) => Absent(Append(Pipe(q), m), devices[q], t)
      BY <1>3, <2>2, AbsentAtTheBack
    <3> QED BY <1>3, <3>1, <3>2, MissingStays, TornStays
  <2>3. CASE t \in torn /\ t \notin registered
    BY <2>3, TornStays
  <2> QED BY <1>2, <2>1, <2>2, <2>3 DEF Agreeing
<1> QED BY <1>4, <1>5 DEF Gathered

\* After the Hello: the app's own turn.
LEMMA GatheredByHandle ==
  ASSUME RoomInv, [RoomNext]_roomVars, NEW q \in Peer, Live(q)', ~Connect(q), Gathered(q),
         main[q] # "joining", main'[q] # "joining", Handle(q)
  PROVE  Gathered(q)'
<1> USE DEF RoomInv
<1>1. PICK m : m = Head(events[q])
  OBVIOUS
<1>2. /\ devices' = [devices EXCEPT ![q] = After(m, devices[q], myself[q])]
      /\ missed' = [missed EXCEPT ![q] =
               IF m.type # "Hello" /\ ~myself[q] THEN missed[q] \cup About(m) ELSE missed[q]]
      /\ myself \in [Peer -> BOOLEAN] /\ missed \in [Peer -> SUBSET Peer]
      /\ devices \in [Peer -> SUBSET ClientInfo]
  BY <1>1, HandleEffect DEF ClientTypes, AppTypes
<1>3. Pipe(q) # <<>> /\ m = Head(Pipe(q)) /\ Pipe(q)' = Tail(Pipe(q)) /\ Pipe(q) \in Seq(Message)
  BY <1>1, PipeShrinks, PipeType DEF ServerInv, ClientTypes
<1>4. told' = told
  BY DEF Handle, vars
<1>5. devices'[q] = After(m, devices[q], myself[q]) /\ devices[q] \in SUBSET ClientInfo /\ myself[q] \in BOOLEAN
  BY <1>2
<1>6. ASSUME NEW i \in told'[q] PROVE Held(Pipe(q)', devices'[q], i) \/ Missing(q, i.id)'
  <2>1. Held(Pipe(q), devices[q], i) \/ Missing(q, i.id)
    BY <1>4 DEF Gathered
  <2>2. ASSUME Held(Pipe(q), devices[q], i)
        PROVE  \/ Held(Tail(Pipe(q)), After(m, devices[q], myself[q]), i)
               \/ ~myself[q] /\ m.type # "Hello" /\ i.id \in About(m)
    BY <1>3, <1>5, <2>2, HandledHeld
  <2>3. (~myself[q] /\ m.type # "Hello" /\ i.id \in About(m)) => Missing(q, i.id)'
    BY <1>2 DEF Missing
  <2> QED BY <1>3, <1>5, <2>1, <2>2, <2>3, MissingStays
<1>7. ASSUME NEW t \in Peer \ Ids(told'[q])
      PROVE  Absent(Pipe(q)', devices'[q], t) \/ Missing(q, t)' \/ (t \in torn' /\ t \notin registered')
  <2>1. Absent(Pipe(q), devices[q], t) \/ Missing(q, t) \/ (t \in torn /\ t \notin registered)
    BY <1>4 DEF Gathered
  <2>2. Absent(Pipe(q), devices[q], t) => Absent(Tail(Pipe(q)), After(m, devices[q], myself[q]), t)
    BY <1>3, <1>5, HandledAbsent
  <2> QED BY <1>3, <1>5, <2>1, <2>2, MissingStays, TornStays
<1> QED BY <1>6, <1>7 DEF Gathered

\* After the Hello: any step.
LEMMA GatheredLate ==
  ASSUME RoomInv, [RoomNext]_roomVars, NEW q \in Peer, Live(q)', ~Connect(q), Gathered(q),
         main'[q] # "joining"
  PROVE  Gathered(q)'
<1>1. CASE main[q] = "joining"
  <2>1. ServerAlone /\ SendHello(q)
    BY <1>1, JoiningSteps DEF RoomInv
  <2> QED BY <2>1, GatheredByHello
<1>2. CASE main[q] # "joining"
  <2>1. CASE Idle(q) \/ Return(q)
    <3>1. Pipe(q)' = Pipe(q) /\ devices'[q] = devices[q] /\ told'[q] = told[q]
      BY <2>1 DEF Idle, Return, Pipe, vars, appVars
    <3>2. ASSUME NEW i \in told[q] PROVE Held(Pipe(q)', devices'[q], i) \/ Missing(q, i.id)'
      <4>1. Held(Pipe(q), devices[q], i) \/ Missing(q, i.id)
        BY <1>2 DEF Gathered
      <4> QED BY <3>1, <4>1, MissingStays
    <3>3. ASSUME NEW t \in Peer \ Ids(told[q])
          PROVE  Absent(Pipe(q)', devices'[q], t) \/ Missing(q, t)' \/ (t \in torn' /\ t \notin registered')
      <4>1. Absent(Pipe(q), devices[q], t) \/ Missing(q, t) \/ (t \in torn /\ t \notin registered)
        BY <1>2 DEF Gathered
      <4>2. Missing(q, t) => Missing(q, t)'
        BY MissingStays
      <4>3. t \in torn /\ t \notin registered => t \in torn' /\ t \notin registered'
        BY TornStays
      <4>4. Absent(Pipe(q), devices[q], t) => Absent(Pipe(q)', devices'[q], t)
        BY <3>1, Zenon
      <4> QED BY <4>1, <4>2, <4>3, <4>4, Zenon
    <3>4. told'[q] = told[q] /\ main'[q] # "joining"
      BY <3>1
    <3> QED BY <3>2, <3>3, <3>4, SMTT(40) DEF Gathered
  <2>2. ~(ServerAlone /\ SendHello(q))
    BY <1>2 DEF SendHello
  <2>3. CASE Posted(q)
    BY <1>2, <2>3, GatheredByPost
  <2>4. CASE Handle(q)
    BY <1>2, <2>4, GatheredByHandle
  <2> QED BY <2>1, <2>2, <2>3, <2>4, Onward
<1> QED BY <1>1, <1>2

\* What a step does to the version of a device in the map.
KeepsNews(t) ==
  /\ main[t] \in {"joining", "serving"} /\ info'[t] = info[t]
  /\ Updating(t) => Updating(t)' /\ fan'[t] = fan[t]

LEMMA NewsSteps ==
  ASSUME ServerInv, [RoomNext]_roomVars, NEW t \in Peer, main'[t] \in {"joining", "serving"}
  PROVE  \/ KeepsNews(t)
         \/ main[t] = "new"
         \/ LookupUpdate(t)
         \/ ServerAlone /\ SendFan(t) /\ main[t] \in {"joining", "serving"} /\ info'[t] = info[t]
<1> USE DEF ServerInv, TypeInv
<1>1. ASSUME NEW p \in Peer, Connect(p) PROVE KeepsNews(t) \/ main[t] = "new"
  BY <1>1 DEF Connect, Accept, Refuse, KeepsNews, Updating, recvVars, TypeOK
<1>2. ASSUME NEW p \in Peer, SendJoin(p) \/ Select(p) PROVE KeepsNews(t)
  BY <1>2 DEF SendJoin, Select, KeepsNews, Updating, recvVars, mapVars, TypeOK
<1>3. ASSUME NEW p \in Peer, SendHello(p) PROVE KeepsNews(t)
  <2>1. recv_task[p] = "off"
    BY <1>3 DEF SendHello, NewsInv, IntroInv, Phases
  <2> QED BY <1>3, <2>1 DEF SendHello, KeepsNews, Updating, mapVars, TypeOK
<1>4. ASSUME NEW p \in Peer, SendLeft(p) PROVE KeepsNews(t)
  BY <1>4 DEF SendLeft, Farewell, KeepsNews, Updating, recvVars, mapVars, TypeOK
<1>5. ASSUME NEW p \in Peer, LookupUpdate(p) PROVE KeepsNews(t) \/ LookupUpdate(t)
  <2>1. CASE p = t BY <1>5, <2>1
  <2>2. CASE p # t
    <3>1. main' = main
      BY <1>5 DEF LookupUpdate, mainVars
    <3>2. info'[t] = info[t]
      BY <1>5, <2>2 DEF LookupUpdate, TypeOK
    <3>3. recv_task'[t] = recv_task[t] /\ request'[t] = request[t] /\ fan'[t] = fan[t]
      <4>1. PICK s : Reach(p, s)
        BY <1>5 DEF LookupUpdate
      <4> QED BY <2>2, <4>1 DEF Reach, TypeOK
    <3> QED BY <3>1, <3>2, <3>3 DEF KeepsNews, Updating
  <2> QED BY <2>1, <2>2
<1>6. ASSUME NEW p \in Peer, LookupTarget(p) PROVE KeepsNews(t)
  <2>1. PICK s : Reach(p, s)
    BY <1>6 DEF LookupTarget
  <2>2. recv_task[p] = "lookup"
    BY <1>6 DEF LookupTarget
  <2> QED BY <1>6, <2>1, <2>2 DEF LookupTarget, Reach, KeepsNews, Updating, mapVars, mainVars, TypeOK
<1>7. ASSUME NEW p \in Peer, ServerAlone, SendFan(p)
      PROVE  \/ KeepsNews(t)
             \/ ServerAlone /\ SendFan(t) /\ main[t] \in {"joining", "serving"} /\ info'[t] = info[t]
  <2>1. main' = main /\ info' = info
    BY <1>7 DEF SendFan, mapVars, mainVars
  <2>2. CASE p = t BY <1>7, <2>1, <2>2
  <2>3. CASE p # t
    <3>1. recv_task'[t] = recv_task[t] /\ request'[t] = request[t] /\ fan'[t] = fan[t]
      BY <1>7, <2>3 DEF SendFan, Reach, TypeOK
    <3> QED BY <2>1, <3>1 DEF KeepsNews, Updating
  <2> QED BY <2>2, <2>3
<1>8. ASSUME NEW p \in Peer, SendError(p) PROVE KeepsNews(t)
  BY <1>8 DEF SendError, KeepsNews, Updating, mapVars, mainVars, TypeOK
<1>9. ASSUME NEW p \in Peer, EndRecvTask(p) PROVE KeepsNews(t)
  <2>1. main' = main /\ info' = info
    BY <1>9 DEF EndRecvTask, mapVars, mainVars
  <2>2. CASE p = t
    <3>1. ~Aborted(t)
      BY <2>1 DEF Aborted
    <3>2. recv_task[t] = "idle"
      BY <1>9, <2>2, <3>1 DEF EndRecvTask
    <3> QED BY <2>1, <3>2 DEF KeepsNews, Updating
  <2>3. CASE p # t
    BY <1>9, <2>1, <2>3 DEF EndRecvTask, KeepsNews, Updating, TypeOK
  <2> QED BY <2>2, <2>3
<1>10. ASSUME NEW p \in Peer, EndSendTask(p) \/ Transmit(p) \/ Quit(p) PROVE KeepsNews(t)
  BY <1>10 DEF EndSendTask, Transmit, WriteSocket, Quit, ClientLeaves, KeepsNews, Updating, mapVars, mainVars,
     recvVars
<1>11. ASSUME NEW p \in Peer, Submit(p) PROVE KeepsNews(t)
  <2>1. main' = main /\ info' = info /\ fan' = fan /\ recv_task[p] = "idle"
    BY <1>11 DEF Submit, ReadRequest, mainVars
  <2>2. p # t => recv_task'[t] = recv_task[t] /\ request'[t] = request[t]
    BY <1>11 DEF Submit, ReadRequest, TypeOK
  <2> QED BY <2>1, <2>2 DEF KeepsNews, Updating
<1>12. ASSUME NEW p \in Peer, LeaveMap(p) PROVE KeepsNews(t)
  <2>1. main'[p] \in {"closed", "goodbye"}
    BY <1>12 DEF LeaveMap, Unregister, Farewell, TypeOK
  <2>2. p # t
    BY <2>1
  <2> QED BY <1>12, <2>2 DEF LeaveMap, Unregister, Farewell, KeepsNews, Updating, recvVars, TypeOK
<1>13. ASSUME ResetCounts \/ UNCHANGED vars PROVE KeepsNews(t)
  BY <1>13 DEF ResetCounts, vars, mapVars, mainVars, recvVars, KeepsNews, Updating
<1>14. ASSUME NEW p \in Peer, Reader(p) \/ Listen(p) \/ App(p) \/ SendUpdate(p) PROVE UNCHANGED vars
  BY <1>14 DEF Reader, ReadFrame, Return, Listen, App, Handle, AcceptOffer, EndOfStream, SendUpdate
<1>15. ASSUME NEW p \in Peer, NEW u \in Peer,
             SendOffer(p, u) \/ OnAnswer(p, u) \/ SendAnswer(p, u) \/ FailOffer(p, u)
      PROVE  UNCHANGED vars
  BY <1>15 DEF SendOffer, OnAnswer, SendAnswer, FailOffer
<1>16. CASE ServerAlone
  BY <1>2, <1>3, <1>4, <1>5, <1>6, <1>7, <1>8, <1>9, <1>10, <1>13, <1>16 DEF ServerAlone, ServerMain, ServerRecv
<1>17. CASE UNCHANGED roomVars
  BY <1>13, <1>17 DEF roomVars
<1> QED BY <1>1, <1>10, <1>11, <1>12, <1>13, <1>14, <1>15, <1>16, <1>17 DEF RoomNext

\* What a step does to the Lefts of a connection that has left the map.
LEMMA GoodbyeSteps ==
  ASSUME ServerInv, [RoomNext]_roomVars, NEW t \in Peer, main[t] = "goodbye"
  PROVE  (main'[t] = "goodbye" /\ todo'[t] = todo[t]) \/ (ServerAlone /\ SendLeft(t))
<1> USE DEF ServerInv, TypeInv
<1>1. ASSUME NEW p \in Peer, Connect(p) PROVE main'[t] = "goodbye" /\ todo'[t] = todo[t]
  BY <1>1 DEF Connect, Accept, Refuse, TypeOK
<1>2. ASSUME NEW p \in Peer, SendJoin(p) \/ SendHello(p) \/ Select(p)
      PROVE  main'[t] = "goodbye" /\ todo'[t] = todo[t]
  BY <1>2 DEF SendJoin, SendHello, Select, TypeOK
<1>3. ASSUME NEW p \in Peer, SendLeft(p) PROVE (main'[t] = "goodbye" /\ todo'[t] = todo[t]) \/ SendLeft(t)
  BY <1>3 DEF SendLeft, Farewell, TypeOK
<1>4. ASSUME NEW p \in Peer, ServerRecv(p) \/ EndSendTask(p) PROVE UNCHANGED <<main, todo>>
  BY <1>4 DEF ServerRecv, LookupUpdate, LookupTarget, SendFan, SendError, EndRecvTask, EndSendTask, mainVars
<1>5. ASSUME ResetCounts \/ UNCHANGED vars PROVE UNCHANGED <<main, todo>>
  BY <1>5 DEF ResetCounts, vars, mainVars
<1>6. ASSUME NEW p \in Peer, LeaveMap(p) PROVE main'[t] = "goodbye" /\ todo'[t] = todo[t]
  BY <1>6 DEF LeaveMap, Unregister, Farewell, TypeOK
<1>7. ASSUME NEW p \in Peer, Transmit(p) \/ Submit(p) \/ Quit(p) PROVE UNCHANGED <<main, todo>>
  BY <1>7 DEF Transmit, WriteSocket, Submit, ReadRequest, Quit, ClientLeaves, mainVars
<1>8. ASSUME NEW p \in Peer, Reader(p) \/ Listen(p) \/ App(p) \/ SendUpdate(p) PROVE UNCHANGED vars
  BY <1>8 DEF Reader, ReadFrame, Return, Listen, App, Handle, AcceptOffer, EndOfStream, SendUpdate
<1>9. ASSUME NEW p \in Peer, NEW u \in Peer,
             SendOffer(p, u) \/ OnAnswer(p, u) \/ SendAnswer(p, u) \/ FailOffer(p, u)
      PROVE  UNCHANGED vars
  BY <1>9 DEF SendOffer, OnAnswer, SendAnswer, FailOffer
<1>10. CASE ServerAlone
  BY <1>2, <1>3, <1>4, <1>5, <1>10 DEF ServerAlone, ServerMain
<1>11. CASE UNCHANGED roomVars
  BY <1>5, <1>11 DEF roomVars
<1> QED BY <1>1, <1>5, <1>6, <1>7, <1>8, <1>9, <1>10, <1>11 DEF RoomNext

\* What a client is shown, it was shown before, or it is the version of a Join or of an
\* Update that is sent to it.
LEMMA ShownSteps ==
  ASSUME RoomInv, [RoomNext]_roomVars, NEW q \in Peer, Live(q)', ~Connect(q), NEW i \in AllShown(q)'
  PROVE  \/ i \in AllShown(q)
         \/ SendJoin(i.id) /\ i.ver = 0
         \/ /\ SendFan(i.id) /\ request[i.id].type = "Update" /\ i.ver = request[i.id].ver
            /\ i.id \in Ids(told[q])
<1> USE DEF RoomInv
<1>1. CASE Idle(q) \/ Return(q) \/ Handle(q)
  BY <1>1 DEF Idle, Return, Handle, vars, mainVars, AllShown
<1>2. CASE ServerAlone /\ SendHello(q)
  <2>1. told'[q] = told[q] \cup peers[q] /\ peers'[q] = {}
    BY <1>2, HelloQueued
  <2> QED BY <2>1 DEF AllShown
<1>3. ASSUME NEW m \in Message, Queued(q, m)
      PROVE  told'[q] = Seen(told[q], m) /\ peers'[q] = peers[q]
  BY <1>3, ShownIds DEF Queued, ServerInv
<1>4. ASSUME NEW p \in Peer, SendJoin(p), Queued(q, Join(p))
      PROVE  i \in AllShown(q) \/ (SendJoin(i.id) /\ i.ver = 0)
  <2>1. told'[q] = Seen(told[q], Join(p)) /\ peers'[q] = peers[q]
    BY <1>3, <1>4, SentMessages
  <2>2. Seen(told[q], Join(p)) = told[q] \cup {[id |-> p, ver |-> 0]}
    BY DEF Seen, Join
  <2> QED BY <1>4, <2>1, <2>2 DEF AllShown
<1>5. ASSUME NEW p \in Peer, SendLeft(p), Queued(q, Left(p))
      PROVE  i \in AllShown(q)
  <2>1. told'[q] = Seen(told[q], Left(p)) /\ peers'[q] = peers[q]
    BY <1>3, <1>5, SentMessages
  <2>2. Seen(told[q], Left(p)) \subseteq told[q]
    BY DEF Seen, Left
  <2> QED BY <2>1, <2>2 DEF AllShown
<1>6. ASSUME NEW p \in Peer, SendFan(p), request[p].type = "Update", Queued(q, Update(p, request[p].ver))
      PROVE  \/ i \in AllShown(q)
             \/ /\ SendFan(i.id) /\ request[i.id].type = "Update" /\ i.ver = request[i.id].ver
                /\ i.id \in Ids(told[q])
  <2>1. PICK v \in 0..MaxVersion : v = request[p].ver
    BY <1>6, SentMessages
  <2>2. Update(p, v) \in Message
    BY <1>6, <2>1, SentMessages
  <2>3. told'[q] = Seen(told[q], Update(p, v)) /\ peers'[q] = peers[q]
    BY <1>3, <1>6, <2>1, <2>2
  <2>4. Seen(told[q], Update(p, v)) = {IF j.id = p THEN [id |-> p, ver |-> v] ELSE j : j \in told[q]}
    BY DEF Seen, Update
  <2>5. CASE i \in peers[q]
    BY <2>5 DEF AllShown
  <2>6. CASE i \in told'[q]
    <3>1. PICK j \in told[q] : i = IF j.id = p THEN [id |-> p, ver |-> v] ELSE j
      BY <2>3, <2>4, <2>6
    <3>2. CASE j.id = p
      <4>1. p \in Ids(told[q])
        BY <3>2 DEF Ids
      <4>2. i.id = p /\ i.ver = v
        BY <3>1, <3>2
      <4> QED BY <1>6, <2>1, <4>1, <4>2
    <3>3. CASE j.id # p
      BY <3>1, <3>3 DEF AllShown
    <3> QED BY <3>2, <3>3
  <2> QED BY <2>3, <2>5, <2>6 DEF AllShown
<1>7. ASSUME NEW m \in Message, m.type \in {"Sdp", "Error"}, Queued(q, m)
      PROVE  i \in AllShown(q)
  <2>1. told'[q] = Seen(told[q], m) /\ peers'[q] = peers[q]
    BY <1>3, <1>7
  <2>2. Seen(told[q], m) = told[q]
    BY <1>7 DEF Seen
  <2> QED BY <2>1, <2>2 DEF AllShown
<1>8. CASE Posted(q)
  BY <1>4, <1>5, <1>6, <1>7, <1>8 DEF Posted
<1> QED BY <1>1, <1>2, <1>8, Onward

\* Before the Hello, what is queued by a step of the server is missed.
LEMMA SentIsMissed ==
  ASSUME RoomInv, NEW q \in Peer, Live(q), main[q] = "joining", ServerAlone,
         NEW m \in Message, ~IsHello(m), Send(q, m), NEW t \in About(m)
  PROVE  Missing(q, t)'
<1>1. UNCHANGED <<frames, received, events, myself>>
  BY DEF ServerAlone, clientVars, appVars
<1>2. Pipe(q)' = Append(Pipe(q), m)
  BY <1>1, PipeGrows DEF RoomInv, ServerInv, ClientTypes, Live
<1> QED BY <1>1, <1>2, EarlyIsMissed

\* The first receiver of a fan-out and the rest.
LEMMA FanSteps ==
  ASSUME RoomInv, NEW t \in Peer, SendFan(t), NEW q \in Range(fan[t]), q # Head(fan[t])
  PROVE  q \in Range(fan'[t]) /\ (Updating(t) => Updating(t)')
<1> USE DEF RoomInv, ServerInv, TypeInv
<1>1. fan[t] \in Seq(Peer) /\ fan[t] # <<>>
  BY DEF TypeOK, FanoutPending, SendFan
<1>2. PICK r \in Seq(Peer) : r = Tail(fan[t])
  BY <1>1, TailOfFan
<1>3. q \in Range(r)
  BY <1>1, <1>2, TailOfFan
<1>4. r # <<>>
  <2> SUFFICES ASSUME r = <<>> PROVE FALSE
    OBVIOUS
  <2>1. Range(<<>>) = {}
    BY DEF Range
  <2> QED BY <1>3, <2>1
<1>5. Reach(t, r)
  BY <1>2 DEF SendFan
<1>6. fan'[t] = r /\ recv_task'[t] = "fanout" /\ request'[t] = request[t]
  BY <1>4, <1>5 DEF Reach, TypeOK
<1> QED BY <1>3, <1>6 DEF Updating

LEMMA NewestStep ==
  ASSUME RoomInv, [RoomNext]_roomVars, NEW q \in Peer, Live(q)', ~Connect(q), NEW t \in Peer, Newest(q, t)
  PROVE  Newest(q, t)'
<1> SUFFICES ASSUME main'[t] \in {"joining", "serving"}, NEW i \in AllShown(q)', i.id = t
             PROVE  i.ver = info'[t] \/ Missing(q, t)' \/ (Updating(t)' /\ q \in Range(fan'[t]))
  BY DEF Newest
<1> USE DEF RoomInv
<1>0. Live(q) /\ (Missing(q, t) => Missing(q, t)')
  BY Onward, MissingStays
<1>1. main[t] = "joining" => info[t] = 0
  BY DEF OthersInv
<1>2. Updating(t) /\ t \in registered => request[t].ver = info[t]
  BY DEF OthersInv
<1>3. main[t] \in {"joining", "serving"} => t \in registered
  BY DEF ServerInv, NewsInv, IntroInv, Membership
<1>4. main[t] \in {"new", "joining"} => recv_task[t] = "off"
  BY DEF ServerInv, NewsInv, IntroInv, Phases
<1>5. \/ i \in AllShown(q)
      \/ SendJoin(t) /\ i.ver = 0
      \/ SendFan(t) /\ request[t].type = "Update" /\ i.ver = request[t].ver
  BY ShownSteps
<1>6. SendJoin(t) => main[t] = "joining"
  BY DEF SendJoin
<1>7. SendFan(t) => recv_task[t] = "fanout"
  BY DEF SendFan
<1>8. (i \in AllShown(q) /\ main[t] \in {"joining", "serving"}) =>
         i.ver = info[t] \/ Missing(q, t) \/ (Updating(t) /\ q \in Range(fan[t]))
  BY DEF Newest
<1>9. CASE KeepsNews(t)
  BY <1>0, <1>1, <1>2, <1>3, <1>5, <1>6, <1>7, <1>8, <1>9 DEF KeepsNews, Updating
<1>10. CASE main[t] = "new"
  <2>1. i \in AllShown(q)
    BY <1>4, <1>5, <1>6, <1>7, <1>10
  <2> QED BY <1>10, <2>1 DEF ServerInv, NewsInv, ShownBound
<1>11. CASE LookupUpdate(t)
  <2>1. recv_task[t] = "lookup" /\ main' = main
    BY <1>11 DEF LookupUpdate, mainVars
  <2>2. i \in AllShown(q)
    BY <1>4, <1>5, <1>6, <1>7, <2>1
  <2>3. t \in registered
    BY <1>3, <2>1
  <2>4. t # q /\ GroupOf[t] = GroupOf[q]
    BY <2>2 DEF OthersInv
  <2>5. PICK s \in Orders(Members(GroupOf[t]) \ {t}) : Reach(t, s)
    BY <1>11, <2>3 DEF LookupUpdate
  <2>6. q \in Members(GroupOf[t]) \ {t}
    BY <1>0, <2>4 DEF Members, Live
  <2>7. Range(s) = Members(GroupOf[t]) \ {t} /\ s # <<>>
    <3>1. IsFiniteSet(Members(GroupOf[t]) \ {t})
      BY MembersFinite DEF ServerInv, TypeInv
    <3> QED BY <2>5, <2>6, <3>1, OrdersOfSet
  <2>8. fan'[t] = s /\ recv_task'[t] = "fanout" /\ request'[t] = request[t]
    BY <2>5, <2>7 DEF Reach, ServerInv, TypeInv, TypeOK
  <2>9. request[t].type = "Update"
    BY <1>11 DEF LookupUpdate
  <2> QED BY <2>6, <2>7, <2>8, <2>9 DEF Updating
<1>12. CASE ServerAlone /\ SendFan(t) /\ main[t] \in {"joining", "serving"} /\ info'[t] = info[t]
  <2>1. t \in registered /\ recv_task[t] = "fanout" /\ main[t] = "serving"
    BY <1>3, <1>4, <1>7, <1>12
  <2>2. CASE i \notin AllShown(q)
    BY <1>2, <1>5, <1>6, <1>12, <2>1, <2>2 DEF Updating
  <2>3. CASE i \in AllShown(q) /\ ~(Updating(t) /\ q \in Range(fan[t]))
    BY <1>0, <1>8, <1>12, <2>3
  <2>4. CASE Updating(t) /\ q \in Range(fan[t]) /\ q # Head(fan[t])
    BY <1>12, <2>4, FanSteps
  <2>5. CASE Updating(t) /\ q = Head(fan[t])
    <3>1. PICK v \in 0..MaxVersion : v = request[t].ver
      BY <2>5, SentMessages DEF Updating
    <3>2. PICK m \in Message : m = Update(t, v)
      BY <2>5, <3>1, SentMessages DEF Updating
    <3>3. Send(q, m)
      BY <1>12, <2>5, <3>1, <3>2 DEF SendFan, Updating
    <3>4. peers' = peers
      BY <1>12 DEF SendFan, mainVars
    <3>5. CASE i \in told'[q]
      <4>1. told'[q] = Seen(told[q], m)
        BY <1>0, <3>3, ShownIds DEF Live, ServerInv
      <4>2. Seen(told[q], m) = {IF j.id = t THEN [id |-> t, ver |-> v] ELSE j : j \in told[q]}
        BY <3>2 DEF Seen, Update
      <4>3. i.ver = v
        BY <3>5, <4>1, <4>2
      <4> QED BY <1>2, <1>12, <2>1, <2>5, <3>1, <4>3
    <3>6. CASE i \in peers[q]
      <4>1. main[q] = "joining"
        BY <3>6 DEF ServerInv, NewsInv, IntroInv, Phases
      <4>2. ~IsHello(m) /\ t \in About(m)
        BY <3>2, AboutMessages DEF IsHello, Update
      <4> QED BY <1>0, <1>12, <3>3, <4>1, <4>2, SentIsMissed
    <3> QED BY <3>4, <3>5, <3>6 DEF AllShown
  <2> QED BY <2>2, <2>3, <2>4, <2>5
<1> QED BY <1>9, <1>10, <1>11, <1>12, NewsSteps

LEMMA GoneStep ==
  ASSUME RoomInv, [RoomNext]_roomVars, NEW q \in Peer, Live(q)', ~Connect(q), NEW t \in Peer, Gone(q, t)
  PROVE  Gone(q, t)'
<1> SUFFICES ASSUME t \notin registered', NEW i \in AllShown(q)', i.id = t
             PROVE  Missing(q, t)' \/ (main'[t] = "goodbye" /\ q \in Range(todo'[t]))
  BY DEF Gone, Ids
<1> USE DEF RoomInv
<1>0. Live(q) /\ (Missing(q, t) => Missing(q, t)')
  BY Onward, MissingStays
<1>1. t \notin registered \/ Unregister(t)
  BY ServerStep, PhaseSteps
<1>2. \E j \in AllShown(q) : j.id = t
  <2>1. CASE i \in AllShown(q)
    BY <2>1
  <2>2. CASE SendJoin(t)
    <3>1. main[t] = "joining" /\ t \in registered
      BY <2>2 DEF SendJoin, ServerInv, NewsInv, IntroInv, Membership
    <3> QED BY <1>1, <3>1 DEF Unregister
  <2>3. CASE t \in Ids(told[q])
    BY <2>3 DEF Ids, AllShown
  <2> QED BY <2>1, <2>2, <2>3, ShownSteps
<1>3. t # q /\ GroupOf[t] = GroupOf[q] /\ t \in Ids(AllShown(q))
  BY <1>2 DEF OthersInv, Ids
<1>4. CASE Unregister(t)
  <2>1. PICK s \in Orders(Members(GroupOf[t]) \ {t}) : Farewell(t, s)
    BY <1>4 DEF Unregister
  <2>2. q \in Members(GroupOf[t]) \ {t}
    BY <1>0, <1>3 DEF Members, Live
  <2>3. Range(s) = Members(GroupOf[t]) \ {t} /\ s # <<>>
    <3>1. IsFiniteSet(Members(GroupOf[t]) \ {t})
      BY MembersFinite DEF ServerInv, TypeInv
    <3> QED BY <2>1, <2>2, <3>1, OrdersOfSet
  <2>4. todo'[t] = s /\ main'[t] = "goodbye"
    BY <2>1, <2>3 DEF Farewell, ServerInv, TypeInv, TypeOK
  <2> QED BY <2>2, <2>3, <2>4
<1>5. CASE t \notin registered /\ ~Missing(q, t)
  <2>1. main[t] = "goodbye" /\ q \in Range(todo[t])
    BY <1>3, <1>5 DEF Gone
  <2>2. CASE main'[t] = "goodbye" /\ todo'[t] = todo[t]
    BY <2>1, <2>2
  <2>3. CASE ServerAlone /\ SendLeft(t) /\ q # Head(todo[t])
    <3>1. todo[t] \in Seq(Peer) /\ todo[t] # <<>>
      BY <2>1 DEF ServerInv, TypeInv, TypeOK, FanoutPending
    <3>2. PICK r \in Seq(Peer) : r = Tail(todo[t])
      BY <3>1, TailOfFan
    <3>3. q \in Range(r)
      BY <2>1, <2>3, <3>1, <3>2, TailOfFan
    <3>4. Farewell(t, r)
      BY <2>3, <3>2 DEF SendLeft
    <3>5. r # <<>>
      <4> SUFFICES ASSUME r = <<>> PROVE FALSE
        OBVIOUS
      <4>1. Range(<<>>) = {}
        BY DEF Range
      <4> QED BY <3>3, <4>1
    <3>6. todo'[t] = r /\ main'[t] = "goodbye"
      BY <3>4, <3>5 DEF Farewell, ServerInv, TypeInv, TypeOK
    <3> QED BY <3>3, <3>6
  <2>4. CASE ServerAlone /\ SendLeft(t) /\ q = Head(todo[t])
    <3>1. PICK m \in Message : m = Left(t)
      BY SentMessages
    <3>2. Send(q, m) /\ peers' = peers
      BY <2>4, <3>1 DEF SendLeft
    <3>3. told'[q] = {j \in told[q] : j.id # t}
      <4>1. told'[q] = Seen(told[q], m)
        BY <1>0, <3>2, ShownIds DEF Live, ServerInv
      <4> QED BY <3>1, <4>1 DEF Seen, Left
    <3>4. i \in peers[q]
      BY <3>2, <3>3 DEF AllShown
    <3>5. main[q] = "joining"
      BY <3>4 DEF ServerInv, NewsInv, IntroInv, Phases
    <3>6. ~IsHello(m) /\ t \in About(m)
      BY <3>1, AboutMessages DEF IsHello, Left
    <3> QED BY <1>0, <2>4, <3>2, <3>5, <3>6, SentIsMissed
  <2> QED BY <2>1, <2>2, <2>3, <2>4, GoodbyeSteps
<1> QED BY <1>0, <1>1, <1>4, <1>5

\* A new connection: the Hello to come lists the versions of now.
LEMMA ShownToNew ==
  ASSUME RoomInv, NEW q \in Peer, Live(q)', Connect(q)
  PROVE  Gathered(q)' /\ \A t \in Peer : Newest(q, t)' /\ Gone(q, t)'
<1> USE DEF RoomInv, ServerInv, TypeInv
<1>1. main[q] = "new"
  BY DEF Connect, Accept, Refuse
<1>2. ~send_task[q] /\ told[q] = {}
  BY <1>1 DEF NewsInv, IntroInv, Phases
<1>3. ~Refuse(q)
  BY <1>2 DEF Refuse, Live, RxOpen, TypeOK
<1>4. Accept(q)
  BY <1>3 DEF Connect
<1>5. /\ main'[q] = "joining" /\ told'[q] = {}
      /\ peers'[q] = {[id |-> u, ver |-> info[u]] : u \in Members(GroupOf[q])}
      /\ info' = info /\ registered' = registered \cup {q}
  BY <1>2, <1>4 DEF Accept, TypeOK
<1>6. Gathered(q)'
  <2>1. Ids(told'[q]) = {}
    BY <1>5 DEF Ids
  <2> QED BY <1>5, <2>1 DEF Gathered
<1>7. ASSUME NEW i \in AllShown(q)'
      PROVE  i.ver = info'[i.id] /\ i.id \in registered'
  BY <1>5, <1>7 DEF AllShown, Members
<1>8. ASSUME NEW t \in Peer PROVE Newest(q, t)' /\ Gone(q, t)'
  <2>1. Newest(q, t)'
    BY <1>7 DEF Newest
  <2>2. Gone(q, t)'
    BY <1>7 DEF Gone, Ids
  <2> QED BY <2>1, <2>2
<1> QED BY <1>6, <1>8

LEMMA ShownStep == RoomInv /\ ShownInv /\ [RoomNext]_roomVars => ShownInv'
<1> SUFFICES ASSUME RoomInv, ShownInv, [RoomNext]_roomVars, NEW q \in Peer, Live(q)'
             PROVE  Gathered(q)' /\ \A t \in Peer : Newest(q, t)' /\ Gone(q, t)'
  BY DEF ShownInv
<1>1. CASE Connect(q)
  BY <1>1, ShownToNew
<1>2. CASE ~Connect(q)
  <2>1. Gathered(q) /\ \A t \in Peer : Newest(q, t) /\ Gone(q, t)
    BY <1>2, Onward DEF ShownInv
  <2>2. Gathered(q)'
    BY <1>2, <2>1, GatheredEarly, GatheredLate
  <2>3. \A t \in Peer : Newest(q, t)' /\ Gone(q, t)'
    BY <1>2, <2>1, NewestStep, GoneStep
  <2> QED BY <2>2, <2>3
<1> QED BY <1>1, <1>2

LEMMA RoomInvariant == RoomSpec => [](RoomInv /\ ShownInv)
<1>1. RoomInit => OthersInv /\ TornInv /\ OpeningInv /\ ShownInv
  BY OthersInit, TornInit, OpeningInit, ShownInit DEF RoomInit
<1>2. RoomInv /\ [RoomNext]_roomVars => OthersInv' /\ TornInv' /\ OpeningInv'
  BY ServerStep, OthersStep, TornStep, OpeningStep DEF RoomInv, ServerInv
<1>3. RoomSpec => []ServerInv
  BY ServerInvariant
<1>4. RoomSpec => []ClientTypes
  BY ClientTypesInvariant
<1> QED BY <1>1, <1>2, <1>3, <1>4, ShownStep, PTL DEF RoomSpec, RoomInv

\* With nothing under way, what is held is in the list and what is absent is not.
LEMMA AtRestHeld ==
  ASSUME NEW ds, NEW i, NEW t
  PROVE  /\ Held(<<>>, ds, i) => i \in ds
         /\ Absent(<<>>, ds, t) => t \notin Ids(ds)
         /\ ~Early(<<>>, t)
  BY DEF Held, Absent, Early

LEMMA RoomIsShown == ASSUME RoomInv, ShownInv PROVE RoomShown
<1> USE DEF RoomInv
<1> SUFFICES ASSUME NEW p \in Peer, NEW t \in Peer, AtRest(p), Settled(p, t), t \notin missed[p],
                    ~(t \in torn /\ t \notin registered)
             PROVE  ShownAsIs(p, t)
  BY DEF RoomShown
<1>1. Pipe(p) = <<>> /\ Live(p) /\ myself[p] /\ main[p] = "serving"
  BY DEF AtRest, Pipe, Live, RxOpen
<1>2. ~Missing(p, t)
  BY <1>1 DEF Missing
<1>3. /\ \A i \in told[p] : Held(<<>>, devices[p], i) \/ Missing(p, i.id)
      /\ t \notin Ids(told[p]) => Absent(<<>>, devices[p], t)
      /\ Newest(p, t) /\ Gone(p, t)
  BY <1>1, <1>2 DEF ShownInv, Gathered
<1>4. p \notin Range(todo[t]) \cup Range(fan[t]) /\ main[t] \notin {"joining", "leaving"}
      /\ t # p /\ GroupOf[t] = GroupOf[p]
  BY DEF Settled
<1>5. peers[p] = {} /\ AllShown(p) = told[p]
  BY <1>1 DEF ServerInv, NewsInv, IntroInv, Phases, AllShown
<1>6. CASE t \in registered
  <2>1. main[t] = "serving"
    BY <1>4, <1>6 DEF ServerInv, NewsInv, IntroInv, Membership
  <2>2. t \in Ids(told[p]) \cup Ids(peers[p])
    BY <1>1, <1>4, <1>6, <2>1 DEF ServerInv, NewsInv, IntroInv, Accounted, Live
  <2>3. PICK i \in told[p] : i.id = t
    BY <1>5, <2>2 DEF Ids
  <2>4. i.ver = info[t]
    BY <1>2, <1>3, <1>4, <1>5, <2>1, <2>3 DEF Newest
  <2>5. i \in devices[p]
    BY <1>2, <1>3, <2>3, AtRestHeld
  <2>6. i = [id |-> t, ver |-> info[t]]
    BY <2>3, <2>4 DEF ServerInv, TypeInv, TypeOK, ClientInfo
  <2> QED BY <1>6, <2>5, <2>6 DEF ShownAsIs
<1>7. CASE t \notin registered
  <2>1. t \notin Ids(told[p])
    BY <1>2, <1>3, <1>4, <1>5, <1>7 DEF Gone
  <2>2. t \notin Ids(devices[p])
    BY <1>3, <2>1, AtRestHeld
  <2> QED BY <1>7, <2>2 DEF ShownAsIs
<1> QED BY <1>6, <1>7

\* However many connections come, change what they show and leave, and however their
\* messages wait in the five queues between the locks of the server and the app: an app at
\* rest shows each settled peer of its room in the version of the map, and none that has
\* left (ws_controller.rs, signaling.rs, signaling_provider.dart).
THEOREM RoomShownToAll == RoomSpec => []RoomShown
  BY RoomInvariant, RoomIsShown, PTL
=============================================================================
