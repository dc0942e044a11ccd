--------------------------- MODULE SignalingRoom ---------------------------
(***************************************************************************)
(* The signaling server together with the clients it serves: the           *)
(* connection of core/src/webrtc/signaling.rs, the loop of the bridge that *)
(* passes its messages on (app/rust/src/api/webrtc.rs, connect), and the   *)
(* action of the app that turns them into nearby devices                   *)
(* (signaling_provider.dart).                                              *)
(*                                                                         *)
(* On its way to the app a message passes the socket, the task that reads  *)
(* it, receive_rx (one slot), the listener's channel and the stream of the *)
(* bridge.  Nobody empties receive_rx before connect() has returned, and   *)
(* connect() returns once the reading task has come across the Hello, so   *)
(* that slot and the message in the task's hand are kept apart from the    *)
(* rest.  Behind it nothing ever waits for room: the bridge adds to a      *)
(* stream without bound.                                                   *)
(***************************************************************************)
EXTENDS SignalingServer

CONSTANTS
  Offers,        \* input: the pairs of SdpPairs that are offers, not answers
  MixedUpdates,  \* bound: Updates of one client in a behavior with Offers
  SocketBuffer   \* bound: frames under way to one client

ASSUME RoomAssumption ==
  /\ Offers \subseteq SdpPairs
  /\ MixedUpdates \in Nat /\ SocketBuffer \in Nat \ {0}

VARIABLES
  connect,    \* phase of the bridge's connect()
  frames,     \* frames the client has not read
  received,   \* receive_rx and the message the reading task still holds
  events,     \* messages under way from the listener to the app
  myself,     \* whether localSignalingPeerId is set
  devices,    \* signalingDevices of the app
  busy,       \* whose offer the app passes to the bridge before the next message
  answering,  \* whose offers spawned accept_offer tasks have still to answer
  outgoing,   \* send_rx and the message the writing task still holds
  updates,    \* bound: number of Updates sent
  on_answer,  \* the callback of the one offer to each peer
  missed,     \* history: peers the app heard about before its Hello
  torn        \* history: connections that left the map amid the fan-out of an Update

appVars == <<myself, devices, busy, missed>>
clientVars == <<connect, frames, received, events, appVars, answering, outgoing, updates, on_answer>>
roomVars == <<vars, clientVars, torn>>

-----------------------------------------------------------------------------
\* A device announces itself with a token made from the time of its connect, and
\* updates its info with its certificate hash.
Token(i) == IF i.ver = 0 THEN "timestamp" ELSE "certificate"

\* RegisterSignalingDeviceAction: devices are kept by token, and a device takes the
\* place of itself under the same token only.
Register(ds, i) == {d \in ds : d.id # i.id \/ Token(d) # Token(i)} \cup {i}
\* A Hello, which names a device once: all of them, one after the other.
RegisterAll(ds, is) == {d \in ds : \A i \in is : d.id # i.id \/ Token(d) # Token(i)} \cup is

\* Mutant: only under the token of the last device found.
UnregisterByToken(ds, id) == {d \in ds : d.id # id \/ d.ver > 0}
\* UnregisterSignalingDeviceAction: under whichever token.
UnregisterDevice(ds, id) == {d \in ds : d.id # id}

IsHello(m) == m.type = "Hello"
IsAnswer(p, m) == m.type = "Sdp" /\ <<m.peer.id, p>> \notin Offers
\* Both halves of the server's socket are gone.
ServerClosed(p) == main[p] # "joining" /\ ~send_task[p] /\ recv_task[p] = "off"

-----------------------------------------------------------------------------
RoomInit ==
  /\ Init
  /\ connect = [p \in Peer |-> "off"]
  /\ frames = [p \in Peer |-> <<>>] /\ received = [p \in Peer |-> <<>>]
  /\ events = [p \in Peer |-> <<>>]
  /\ myself = [p \in Peer |-> FALSE] /\ devices = [p \in Peer |-> {}]
  /\ busy = [p \in Peer |-> {}] /\ answering = [p \in Peer |-> {}]
  /\ outgoing = [p \in Peer |-> <<>>] /\ updates = [p \in Peer |-> 0]
  /\ on_answer = [p \in Peer |-> [t \in Peer |-> "none"]]
  /\ missed = [p \in Peer |-> {}] /\ torn = {}

-----------------------------------------------------------------------------
(* The server's steps that a client takes part in.                          *)

\* connect_async: the upgrade succeeds before the server looks at its limits.  The
\* socket of a refused client ends without a Hello, and client_rx.recv().await.unwrap()
\* panics.
Connect(p) ==
  /\ Accept(p) \/ Refuse(p)
  /\ connect' = [connect EXCEPT ![p] = IF p \in registered' THEN "waiting" ELSE "ended"]
  /\ UNCHANGED <<frames, received, events, appVars, answering, outgoing, updates, on_answer, torn>>

Transmit(p) ==
  /\ WriteSocket(p)
  /\ online[p] => Len(frames[p]) < SocketBuffer
  /\ frames' = IF online[p] THEN [frames EXCEPT ![p] = Append(@, Head(chan[p]))] ELSE frames
  /\ UNCHANGED <<connect, received, events, appVars, answering, outgoing, updates, on_answer, torn>>

\* The server reads what the client wrote; over the limit it does not matter what.
Submit(p) ==
  /\ outgoing[p] # <<>>
  /\ ReadRequest(p)
  /\ \/ recv_task'[p] = "limited"
     \/ /\ request'[p].type = Head(outgoing[p]).type
        /\ request'[p].type = "Sdp" => request'[p] = Head(outgoing[p])
  /\ outgoing' = [outgoing EXCEPT ![p] = Tail(@)]
  /\ UNCHANGED <<connect, frames, received, events, appVars, answering, updates, on_answer, torn>>

LeaveMap(p) ==
  /\ Unregister(p)
  /\ torn' = IF recv_task[p] = "fanout" THEN torn \cup {p} ELSE torn
  /\ UNCHANGED clientVars

\* The app quits, or its network is gone for good.
Quit(p) ==
  /\ ClientLeaves(p)
  /\ connect' = [connect EXCEPT ![p] = "gone"]
  /\ frames' = [frames EXCEPT ![p] = <<>>] /\ received' = [received EXCEPT ![p] = <<>>]
  /\ events' = [events EXCEPT ![p] = <<>>] /\ outgoing' = [outgoing EXCEPT ![p] = <<>>]
  /\ devices' = [devices EXCEPT ![p] = {}] /\ busy' = [busy EXCEPT ![p] = {}]
  /\ answering' = [answering EXCEPT ![p] = {}]
  /\ UNCHANGED <<myself, missed, updates, on_answer, torn>>

ServerMain(p) == SendJoin(p) \/ SendHello(p) \/ Select(p) \/ SendLeft(p)
ServerRecv(p) ==
  LookupUpdate(p) \/ LookupTarget(p) \/ SendFan(p) \/ SendError(p) \/ EndRecvTask(p)
ServerAlone ==
  /\ ResetCounts \/ \E p \in Peer : ServerMain(p) \/ ServerRecv(p) \/ EndSendTask(p)
  /\ UNCHANGED <<clientVars, torn>>

-----------------------------------------------------------------------------
(* SignalingConnection::connect and start_listener.                         *)

\* Mutant: a channel of more slots.
ReadFrameAhead(p) ==
  /\ connect[p] \in {"waiting", "listening"} /\ frames[p] # <<>> /\ Len(received[p]) < 4
  /\ received' = [received EXCEPT ![p] = Append(@, Head(frames[p]))]
  /\ frames' = [frames EXCEPT ![p] = Tail(@)]
  /\ UNCHANGED <<vars, connect, events, appVars, answering, outgoing, updates, on_answer, torn>>

\* The task that reads the socket holds one message while receive_rx is full.
ReadFrame(p) ==
  /\ connect[p] \in {"waiting", "listening"} /\ frames[p] # <<>> /\ Len(received[p]) < 2
  /\ received' = [received EXCEPT ![p] = Append(@, Head(frames[p]))]
  /\ frames' = [frames EXCEPT ![p] = Tail(@)]
  /\ UNCHANGED <<vars, connect, events, appVars, answering, outgoing, updates, on_answer, torn>>

\* Mutant: the message goes into receive_rx before the Hello is taken from it.
ReturnOnceForwarded(p) ==
  /\ connect[p] = "waiting" /\ received[p] # <<>> /\ IsHello(received[p][1])
  /\ connect' = [connect EXCEPT ![p] = "listening"]
  /\ UNCHANGED <<vars, frames, received, events, appVars, answering, outgoing, updates, on_answer, torn>>

\* client_tx has the Hello: connect() returns, the listener starts, and the app is
\* given the connection (_SetConnectionAction).
Return(p) ==
  /\ connect[p] = "waiting" /\ \E m \in Range(received[p]) : IsHello(m)
  /\ connect' = [connect EXCEPT ![p] = "listening"]
  /\ UNCHANGED <<vars, frames, received, events, appVars, answering, outgoing, updates, on_answer, torn>>

\* An Answer goes to its callback, which is gone then, and like any message to the app.
Listen(p) ==
  LET m == Head(received[p]) IN
  /\ connect[p] = "listening" /\ received[p] # <<>>
  /\ on_answer' = IF IsAnswer(p, m) /\ on_answer[p][m.peer.id] = "waiting"
                  THEN [on_answer EXCEPT ![p][m.peer.id] = "called"] ELSE on_answer
  /\ events' = [events EXCEPT ![p] = Append(@, m)]
  /\ received' = [received EXCEPT ![p] = Tail(@)]
  /\ UNCHANGED <<vars, connect, frames, appVars, answering, outgoing, updates, torn>>

-----------------------------------------------------------------------------
(* The app: _SetupSignalingConnection.                                      *)

\* Before its Hello the app does not know who it is and skips what it hears; a Left is
\* not skipped, but finds nothing to remove.
Handle(p) ==
  LET m == Head(events[p]) IN
  /\ connect[p] = "listening" /\ events[p] # <<>> /\ busy[p] = {}
  /\ events' = [events EXCEPT ![p] = Tail(@)]
  /\ myself' = IF IsHello(m) THEN [myself EXCEPT ![p] = TRUE] ELSE myself
  /\ devices' = [devices EXCEPT ![p] =
       CASE IsHello(m) -> RegisterAll(@, m.peers)
         [] m.type \in {"Join", "Update"} /\ myself[p] -> Register(@, m.peer)
         [] m.type = "Left" -> UnregisterDevice(@, m.id)
         [] OTHER -> @]
  /\ busy' = IF m.type = "Sdp" /\ ~IsAnswer(p, m) THEN [busy EXCEPT ![p] = {m.peer.id}] ELSE busy
  /\ missed' = IF ~IsHello(m) /\ ~myself[p] THEN [missed EXCEPT ![p] = @ \cup About(m)] ELSE missed
  /\ UNCHANGED <<vars, connect, frames, received, answering, outgoing, updates, on_answer, torn>>

\* The stream ends with the connection: the devices of this server are cleared.
EndOfStream(p) ==
  /\ connect[p] = "listening" /\ ServerClosed(p) /\ busy[p] = {}
  /\ frames[p] = <<>> /\ received[p] = <<>> /\ events[p] = <<>>
  /\ connect' = [connect EXCEPT ![p] = "ended"]
  /\ devices' = [devices EXCEPT ![p] = {}]
  /\ UNCHANGED <<vars, frames, received, events, myself, busy, missed, answering, outgoing, updates,
                 on_answer, torn>>

\* tx.send(..).await of send_update, send_offer and send_answer.
Enqueue(p, m) ==
  /\ Len(outgoing[p]) < 2
  /\ outgoing' = [outgoing EXCEPT ![p] = Append(@, m)]

\* The user changes what the device shows.
SendUpdate(p) ==
  /\ p \in Updaters /\ connect[p] = "listening" /\ updates[p] < MaxVersion
  /\ updates[p] < MixedUpdates \/ \A q, t \in Peer : on_answer[q][t] = "none"
  /\ Enqueue(p, [type |-> "Update"])
  /\ updates' = [updates EXCEPT ![p] = @ + 1]
  /\ UNCHANGED <<vars, connect, frames, received, events, appVars, answering, on_answer, torn>>

SendOffer(p, t) ==
  /\ connect[p] = "listening" /\ <<p, t>> \in Offers /\ on_answer[p][t] = "none"
  /\ t \in Ids(devices[p]) /\ \A q \in Peer : updates[q] <= MixedUpdates
  /\ Enqueue(p, [type |-> "Sdp", target |-> t])
  /\ on_answer' = [on_answer EXCEPT ![p][t] = "sent"]
  /\ UNCHANGED <<vars, connect, frames, received, events, appVars, answering, updates, torn>>

\* send_offer returns, and only then the callback is added.
OnAnswer(p, t) ==
  /\ connect[p] = "listening" /\ on_answer[p][t] = "sent"
  /\ on_answer' = [on_answer EXCEPT ![p][t] = "waiting"]
  /\ UNCHANGED <<vars, connect, frames, received, events, appVars, answering, outgoing, updates, torn>>

\* What the app awaits is the call into the bridge, which spawns the transfer and
\* returns its controller.
AcceptOffer(p) ==
  /\ busy[p] # {}
  /\ answering' = [answering EXCEPT ![p] = @ \cup busy[p]]
  /\ busy' = [busy EXCEPT ![p] = {}]
  /\ UNCHANGED <<vars, connect, frames, received, events, myself, devices, missed, outgoing, updates,
                 on_answer, torn>>

\* The spawned task answers, while the app goes on with its messages.
SendAnswer(p, t) ==
  /\ t \in answering[p]
  /\ Enqueue(p, [type |-> "Sdp", target |-> t])
  /\ answering' = [answering EXCEPT ![p] = @ \ {t}]
  /\ UNCHANGED <<vars, connect, frames, received, events, appVars, updates, on_answer, torn>>

\* The task fails before its answer: an offer it cannot decode or set, or a send_rx
\* that is gone.
FailOffer(p, t) ==
  /\ t \in answering[p]
  /\ answering' = [answering EXCEPT ![p] = @ \ {t}]
  /\ UNCHANGED <<vars, connect, frames, received, events, appVars, outgoing, updates, on_answer, torn>>

-----------------------------------------------------------------------------
Reader(p) == ReadFrame(p) \/ Return(p)
App(p) == Handle(p) \/ AcceptOffer(p) \/ EndOfStream(p)
RoomNext ==
  \/ ServerAlone
  \/ \E p \in Peer :
       \/ Connect(p) \/ Transmit(p) \/ Submit(p) \/ LeaveMap(p) \/ Quit(p)
       \/ Reader(p) \/ Listen(p) \/ App(p) \/ SendUpdate(p)
       \/ \E t \in Peer : SendOffer(p, t) \/ OnAnswer(p, t) \/ SendAnswer(p, t) \/ FailOffer(p, t)
RoomSpec == RoomInit /\ [][RoomNext]_roomVars

\* Tokio and the app's event loop run the tasks of each connection.  Weak fairness of
\* each side as a whole asks less than fairness of each of its tasks, and the bounded
\* inputs leave no task behind for ever.
ServerSide(p) ==
  \/ (ServerMain(p) \/ ServerRecv(p) \/ EndSendTask(p)) /\ UNCHANGED <<clientVars, torn>>
  \/ Transmit(p) \/ LeaveMap(p)
ClientSide(p) == Reader(p) \/ Listen(p) \/ App(p)
RoomFairness == \A p \in Peer : WF_roomVars(ServerSide(p)) /\ WF_roomVars(ClientSide(p))
FairRoom == RoomSpec /\ RoomFairness

-----------------------------------------------------------------------------
\* The types of the client's state (signaling.rs, signaling_provider.dart).
RoomTypeOK ==
  /\ connect \in [Peer -> {"off", "waiting", "listening", "ended", "gone"}]
  /\ \A p \in Peer :
       /\ Range(frames[p]) \cup Range(received[p]) \cup Range(events[p]) \subseteq Message
       /\ Len(frames[p]) <= SocketBuffer /\ Len(received[p]) <= 2 /\ Len(outgoing[p]) <= 2
  /\ devices \in [Peer -> SUBSET ClientInfo] /\ myself \in [Peer -> BOOLEAN]
  /\ busy \in [Peer -> SUBSET Peer] /\ answering \in [Peer -> SUBSET Peer]
  /\ on_answer \in [Peer -> [Peer -> {"none", "sent", "waiting", "called"}]] /\ torn \subseteq Peer

\* The app has dealt with all that the server has for it, and is still served.
AtRest(p) ==
  /\ p \in registered /\ main[p] = "serving" /\ send_task[p]
  /\ connect[p] = "listening" /\ myself[p] /\ busy[p] = {}
  /\ events[p] = <<>> /\ received[p] = <<>> /\ frames[p] = <<>> /\ chan[p] = <<>>

\* t is in the room of p, and there is nothing about it on its way to p.
Settled(p, t) ==
  /\ t # p /\ GroupOf[t] = GroupOf[p]
  /\ p \notin Range(todo[t]) \cup Range(fan[t])
  /\ main[t] \notin {"joining", "leaving"}

ShownAsIs(p, t) ==
  IF t \in registered THEN [id |-> t, ver |-> info[t]] \in devices[p] ELSE t \notin Ids(devices[p])

\* An app that is at rest shows each peer of its room in the version the server has, and
\* none that has left: from the locks of the server through five queues to the device
\* list.  Excepted are peers it heard about before its Hello, and those whose last
\* Update was overtaken by their own departure.
RoomShown ==
  \A p, t \in Peer : (AtRest(p) /\ Settled(p, t)) =>
    ShownAsIs(p, t) \/ t \in missed[p] \/ (t \in torn /\ t \notin registered)

\* "The list of members (excluding the client) in the IP room" and "A new peer has
\* joined the IP room" (signaling.rs:27, 31): together they leave no member out.
NobodyMissed ==
  \A p, t \in registered : (AtRest(p) /\ Settled(p, t)) => t \in Ids(devices[p])

\* connect() returns once the server has queued the Hello, as long as no more than one
\* message is ahead of it: a second one fills receive_rx, which nobody empties yet, and
\* the Hello stays unread behind it (signaling.rs:239-269).
Pending(p) == received[p] \o frames[p] \o chan[p]
HelloNear(p) == \E i \in 1..2 : i <= Len(Pending(p)) /\ IsHello(Pending(p)[i])
ConnectReturns == \A p \in Peer : (connect[p] = "waiting" /\ HelloNear(p)) ~> connect[p] # "waiting"

\* Who can be stuck for good: a handle_socket whose Hello finds its own channel full,
\* which nobody drains before the Hello is in it (ws_controller.rs:158), and a connect()
\* with two messages ahead of the Hello, which reads no further (signaling.rs:239-269).
WedgedAtHello(q) == main[q] = "joining" /\ todo[q] = <<>> /\ Len(chan[q]) = ChannelCapacity
DeafInConnect(q) ==
  connect[q] = "waiting" /\ Len(received[q]) = 2 /\ \A m \in Range(received[q]) : ~IsHello(m)
Stuck(g) == \E q \in Peer : GroupOf[q] = g /\ (WedgedAtHello(q) \/ DeafInConnect(q))

\* The main task of a connection passes through each of these once, so that somebody is
\* always in one of them only if one of them stays there.
Joining(p) == main[p] = "joining"
Ending(p) == main[p] \in {"leaving", "goodbye"} \/ (p \in registered /\ ~online[p])

\* Waiting for slots in each other's channels never leaves a connection of a group
\* unserved, unless someone there stays stuck in one of these two ways: whatever the order
\* of Joins, Updates, Offers and Lefts between the tasks, no other circle of waits closes.
ServedUnlessStuck == \A g \in Group :
  <>[](\E p \in Peer : GroupOf[p] = g /\ Joining(p)) => <>[]Stuck(g)

\* Nor does it keep a connection whose client has gone in tx_map, or its handle_socket at
\* the Lefts, be one of its tasks amid a fan-out to peers that read slowly or have left.
EndsUnlessStuck == \A g \in Group :
  <>[](\E p \in Peer : GroupOf[p] = g /\ Ending(p)) => <>[]Stuck(g)
=============================================================================
