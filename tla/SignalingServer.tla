-------------------------- MODULE SignalingServer --------------------------
(***************************************************************************)
(* The signaling server (server/src): one task group per websocket         *)
(* connection, the map of connections by IP group behind a mutex, the      *)
(* request counter per IP group, and one bounded mpsc channel per          *)
(* connection that a send task drains into the socket.                     *)
(*                                                                         *)
(* A peer is one connection: the server draws a fresh Uuid for each, so a  *)
(* peer connects once.  Every critical section of a mutex is one step, and *)
(* so is every `tx.send(..).await` of a fan-out: that is where tasks       *)
(* interleave.  What a client announces about itself is a version number,  *)
(* 0 at connect time and one more with each Update.  Offer and Answer take *)
(* the same path and are one kind of message, Sdp.                         *)
(***************************************************************************)
EXTENDS Naturals, Sequences, FiniteSets, Functions

CONSTANTS
  Peer,             \* connections
  Group,            \* IP groups
  GroupOf,          \* the IP group of each connection
  MaxConnections,   \* MAX_CONNECTIONS_PER_IP
  MaxRequests,      \* MAX_REQUESTS_PER_IP_PER_HOUR
  ChannelCapacity,  \* mpsc::channel(4)
  MaxVersion,       \* bound: Updates of one client
  Updaters,         \* input: the clients that send Updates
  SdpPairs,         \* input: who sends an Offer or an Answer to whom
  Leavers,          \* input: the clients that may disconnect
  Hourly            \* input: whether the hourly job falls into the behaviour

ASSUME ServerAssumption ==
  /\ IsFiniteSet(Peer)
  /\ GroupOf \in [Peer -> Group]
  /\ {MaxConnections, MaxRequests, MaxVersion} \subseteq Nat
  /\ MaxConnections # 0 /\ ChannelCapacity \in Nat \ {0}
  /\ SdpPairs \subseteq Peer \X Peer
  /\ Updaters \subseteq Peer /\ Leavers \subseteq Peer
  /\ Hourly \in BOOLEAN

VARIABLES
  groups,         \* keys of tx_map
  registered,     \* the connections in tx_map, each under its group
  info,           \* ClientState.client of a connection in tx_map, 0 for another
  request_count,  \* IpRequestCountMap, 0 for a missing key
  main,           \* phase of handle_socket
  todo,           \* main: the receivers its Join or Left fan-out still has to reach
  peers,          \* main: the snapshot the Hello will carry
  send_task,      \* whether the send task, hence the receiver of the channel, lives
  recv_task,      \* phase of the recv task
  request,        \* recv task: the request being handled
  fan,            \* recv task: the receivers its fan-out still has to reach
  chan,           \* the mpsc channel of a connection
  online,         \* environment: the client holds its end of the socket
  told            \* history: the room the messages queued to a connection add up to

mapVars  == <<groups, registered, info, request_count>>
mainVars == <<main, todo, peers>>
recvVars == <<recv_task, request, fan>>
vars == <<mapVars, mainVars, send_task, recvVars, chan, online, told>>

-----------------------------------------------------------------------------
ClientInfo == [id : Peer, ver : 0..MaxVersion]
Message ==
  [type : {"Hello"}, peers : SUBSET ClientInfo]
    \cup [type : {"Join", "Update", "Sdp"}, peer : ClientInfo]
    \cup [type : {"Left"}, id : Peer]
    \cup [type : {"Error"}]
Request == [type : {"None"}] \cup [type : {"Update"}, ver : 0..MaxVersion]
             \cup [type : {"Sdp"}, target : Peer]

Hello(s)     == [type |-> "Hello", peers |-> s]
Join(p)      == [type |-> "Join", peer |-> [id |-> p, ver |-> 0]]
Update(p, v) == [type |-> "Update", peer |-> [id |-> p, ver |-> v]]
\* The recv task owns the ClientInfo of connect time: Updates never reach it.
Sdp(p)       == [type |-> "Sdp", peer |-> [id |-> p, ver |-> 0]]
Left(p)      == [type |-> "Left", id |-> p]
Error        == [type |-> "Error"]
NoRequest    == [type |-> "None"]

Ids(infos) == {i.id : i \in infos}
\* The peers a message is about.
About(m) ==
  CASE m.type = "Hello" -> Ids(m.peers)
    [] m.type \in {"Join", "Update", "Sdp"} -> {m.peer.id}
    [] m.type = "Left" -> {m.id}
    [] OTHER -> {}

\* The room a reader that merges its messages in order sees after one more.
Seen(infos, m) ==
  CASE m.type = "Hello" -> infos \cup m.peers
    [] m.type = "Join" -> infos \cup {m.peer}
    [] m.type = "Update" -> {IF i.id = m.peer.id THEN m.peer ELSE i : i \in infos}
    [] m.type = "Left" -> {i \in infos : i.id # m.id}
    [] OTHER -> infos

Members(g) == {p \in registered : GroupOf[p] = g}
\* The orders in which a HashMap may yield a set of keys.
Orders(S) == Bijection(1..Cardinality(S), S)

\* The receiver of a channel lives in handle_socket, then in the send task.
RxOpen(p) == main[p] = "joining" \/ send_task[p]
\* Past the select! the task that still runs has been aborted.
Aborted(p) == main[p] \in {"leaving", "goodbye", "closed"}

\* Mutant: try_send, which drops the message when the channel is full.
SendOrDrop(p, m) ==
  LET room == RxOpen(p) /\ Len(chan[p]) < ChannelCapacity IN
  /\ chan' = [chan EXCEPT ![p] = IF room THEN Append(@, m) ELSE @]
  /\ told' = [told EXCEPT ![p] = IF room THEN Seen(@, m) ELSE @]

\* tx.send(m).await: waits while the channel is full, fails once the receiver is gone.
Send(p, m) ==
  /\ RxOpen(p) => Len(chan[p]) < ChannelCapacity
  /\ chan' = [chan EXCEPT ![p] = IF RxOpen(p) THEN Append(@, m) ELSE @]
  /\ told' = [told EXCEPT ![p] = IF RxOpen(p) THEN Seen(@, m) ELSE @]

\* Mutant: > for >= in the comparison with MAX_REQUESTS.
HasBudgetOffByOne(g) == request_count[g] <= MaxRequests
\* protect_ddos_request_count
HasBudget(g) == request_count[g] < MaxRequests
Count(g) == request_count' = [request_count EXCEPT ![g] = @ + 1]

-----------------------------------------------------------------------------
Init ==
  /\ groups = {}
  /\ registered = {}
  /\ info = [p \in Peer |-> 0]
  /\ request_count = [g \in Group |-> 0]
  /\ main = [p \in Peer |-> "new"]
  /\ todo = [p \in Peer |-> <<>>]
  /\ peers = [p \in Peer |-> {}]
  /\ send_task = [p \in Peer |-> FALSE]
  /\ recv_task = [p \in Peer |-> "off"]
  /\ request = [p \in Peer |-> NoRequest]
  /\ fan = [p \in Peer |-> <<>>]
  /\ chan = [p \in Peer |-> <<>>]
  /\ online = [p \in Peer |-> TRUE]
  /\ told = [p \in Peer |-> {}]

-----------------------------------------------------------------------------
(* handle_socket up to the end of the locked block.                        *)

\* Mutant: > for >= in the comparison with MAX_CONNECTIONS.
AcceptOverLimit(p) ==
  LET g == GroupOf[p] IN
  /\ main[p] = "new"
  /\ Cardinality(Members(g)) <= MaxConnections
  /\ HasBudget(g)
  /\ Count(g)
  /\ groups' = groups \cup {g}
  /\ registered' = registered \cup {p}
  /\ main' = [main EXCEPT ![p] = "joining"]
  /\ \E s \in Orders(Members(g)) : todo' = [todo EXCEPT ![p] = s]
  /\ peers' = [peers EXCEPT ![p] = {[id |-> q, ver |-> info[q]] : q \in Members(g)}]
  /\ UNCHANGED <<info, send_task, recvVars, chan, online, told>>

\* Mutant: the snapshot of the senders is taken after the insertion of the peer itself.
AcceptTellingItself(p) ==
  LET g == GroupOf[p] IN
  /\ main[p] = "new"
  /\ Cardinality(Members(g)) < MaxConnections
  /\ HasBudget(g)
  /\ Count(g)
  /\ groups' = groups \cup {g}
  /\ registered' = registered \cup {p}
  /\ main' = [main EXCEPT ![p] = "joining"]
  /\ \E s \in Orders(Members(g) \cup {p}) : todo' = [todo EXCEPT ![p] = s]
  /\ peers' = [peers EXCEPT ![p] = {[id |-> q, ver |-> info[q]] : q \in Members(g)}]
  /\ UNCHANGED <<info, send_task, recvVars, chan, online, told>>

Accept(p) ==
  LET g == GroupOf[p] IN
  /\ main[p] = "new"
  /\ Cardinality(Members(g)) < MaxConnections
  /\ HasBudget(g)
  /\ Count(g)
  /\ groups' = groups \cup {g}
  /\ registered' = registered \cup {p}
  /\ main' = [main EXCEPT ![p] = "joining"]
  /\ \E s \in Orders(Members(g)) : todo' = [todo EXCEPT ![p] = s]
  /\ peers' = [peers EXCEPT ![p] = {[id |-> q, ver |-> info[q]] : q \in Members(g)}]
  /\ UNCHANGED <<info, send_task, recvVars, chan, online, told>>

\* "Limit reached": the entry of the group has been created all the same.
Refuse(p) ==
  LET g == GroupOf[p] IN
  /\ main[p] = "new"
  /\ Cardinality(Members(g)) >= MaxConnections \/ ~HasBudget(g)
  /\ groups' = groups \cup {g}
  /\ main' = [main EXCEPT ![p] = "closed"]
  /\ online' = [online EXCEPT ![p] = FALSE]
  /\ UNCHANGED <<registered, info, request_count, todo, peers, send_task, recvVars,
                 chan, told>>

SendJoin(p) ==
  /\ main[p] = "joining" /\ todo[p] # <<>>
  /\ Send(Head(todo[p]), Join(p))
  /\ todo' = [todo EXCEPT ![p] = Tail(@)]
  /\ UNCHANGED <<mapVars, main, peers, send_task, recvVars, online>>

\* Mutant: the snapshot is read again when the Hello is queued, outside the lock.
SendHelloFresh(p) ==
  /\ main[p] = "joining" /\ todo[p] = <<>>
  /\ Send(p, Hello({[id |-> q, ver |-> info[q]] : q \in Members(GroupOf[p]) \ {p}}))
  /\ main' = [main EXCEPT ![p] = "serving"]
  /\ peers' = [peers EXCEPT ![p] = {}]
  /\ send_task' = [send_task EXCEPT ![p] = TRUE]
  /\ recv_task' = [recv_task EXCEPT ![p] = "idle"]
  /\ UNCHANGED <<mapVars, todo, request, fan, online>>

\* Both tasks are spawned after the Hello has been queued: until then nobody
\* drains the channel and nobody watches the socket.
SendHello(p) ==
  /\ main[p] = "joining" /\ todo[p] = <<>>
  /\ Send(p, Hello(peers[p]))
  /\ main' = [main EXCEPT ![p] = "serving"]
  /\ peers' = [peers EXCEPT ![p] = {}]
  /\ send_task' = [send_task EXCEPT ![p] = TRUE]
  /\ recv_task' = [recv_task EXCEPT ![p] = "idle"]
  /\ UNCHANGED <<mapVars, todo, request, fan, online>>

-----------------------------------------------------------------------------
(* The send task.                                                          *)

\* A write is the client reading: a client that reads slowly keeps the task
\* waiting.  A write after the client has gone may still be accepted, and is lost.
WriteSocket(p) ==
  /\ send_task[p] /\ chan[p] # <<>>
  /\ chan' = [chan EXCEPT ![p] = Tail(@)]
  /\ UNCHANGED <<mapVars, mainVars, send_task, recvVars, online, told>>

\* The task ends, and the channel with what it holds is dropped: a failed
\* write, or the abort after the select!.
EndSendTask(p) ==
  /\ send_task[p]
  /\ (~online[p] /\ chan[p] # <<>>) \/ Aborted(p)
  /\ send_task' = [send_task EXCEPT ![p] = FALSE]
  /\ chan' = [chan EXCEPT ![p] = <<>>]
  /\ told' = [told EXCEPT ![p] = {}]
  /\ UNCHANGED <<mapVars, mainVars, recvVars, online>>

-----------------------------------------------------------------------------
(* The recv task.  A frame sent before the client closed can still be read *)
(* after it, and an aborted task runs on until its next await is pending.  *)

\* A client says what is newer than what it said before.
Requests(p) ==
  {[type |-> "Update", ver |-> v] :
      v \in {w \in 0..MaxVersion : p \in Updaters /\ w = info[p] + 1}}
    \cup {[type |-> "Sdp", target |-> q[2]] : q \in {s \in SdpPairs : s[1] = p}}

ReadRequest(p) ==
  /\ recv_task[p] = "idle"
  /\ \E r \in Requests(p) :
       IF HasBudget(GroupOf[p])
       THEN /\ Count(GroupOf[p])
            /\ recv_task' = [recv_task EXCEPT ![p] = "lookup"]
            /\ request' = [request EXCEPT ![p] = r]
       ELSE /\ recv_task' = [recv_task EXCEPT ![p] = "limited"]
            /\ UNCHANGED <<request_count, request>>
  /\ UNCHANGED <<groups, registered, info, mainVars, send_task, fan, chan, online, told>>

\* The receivers still to be reached; with none left the next frame is read.
Reach(p, s) ==
  /\ fan' = [fan EXCEPT ![p] = s]
  /\ recv_task' = [recv_task EXCEPT ![p] = IF s = <<>> THEN "idle" ELSE "fanout"]
  /\ request' = [request EXCEPT ![p] = IF s = <<>> THEN NoRequest ELSE @]

\* send_update_to_other_peers_with_lock: the locked block.
LookupUpdate(p) ==
  /\ recv_task[p] = "lookup" /\ request[p].type = "Update"
  /\ IF p \in registered
     THEN /\ info' = [info EXCEPT ![p] = request[p].ver]
          /\ \E s \in Orders(Members(GroupOf[p]) \ {p}) : Reach(p, s)
     ELSE UNCHANGED info /\ Reach(p, <<>>)
  /\ UNCHANGED <<groups, registered, request_count, mainVars, send_task, chan, online, told>>

\* Mutant: the target is looked up in the whole map, not in the sender's group.
LookupTargetAnywhere(p) ==
  /\ recv_task[p] = "lookup" /\ request[p].type = "Sdp"
  /\ LET t == request[p].target IN Reach(p, IF t \in registered THEN <<t>> ELSE <<>>)
  /\ UNCHANGED <<mapVars, mainVars, send_task, chan, online, told>>

\* send_to_peer_with_lock: the locked block.
LookupTarget(p) ==
  /\ recv_task[p] = "lookup" /\ request[p].type = "Sdp"
  /\ LET t == request[p].target IN
     Reach(p, IF t \in Members(GroupOf[p]) THEN <<t>> ELSE <<>>)
  /\ UNCHANGED <<mapVars, mainVars, send_task, chan, online, told>>

SendFan(p) ==
  /\ recv_task[p] = "fanout"
  /\ Send(Head(fan[p]), IF request[p].type = "Update" THEN Update(p, request[p].ver) ELSE Sdp(p))
  /\ Reach(p, Tail(fan[p]))
  /\ UNCHANGED <<mapVars, mainVars, send_task, online>>

SendError(p) ==
  /\ recv_task[p] = "limited"
  /\ Send(p, Error)
  /\ recv_task' = [recv_task EXCEPT ![p] = "off"]
  /\ UNCHANGED <<mapVars, mainVars, send_task, request, fan, online>>

\* The socket ended, or the task was aborted at an await of any phase.
EndRecvTask(p) ==
  /\ recv_task[p] # "off"
  /\ (recv_task[p] = "idle" /\ ~online[p]) \/ Aborted(p)
  /\ recv_task' = [recv_task EXCEPT ![p] = "off"]
  /\ request' = [request EXCEPT ![p] = NoRequest]
  /\ fan' = [fan EXCEPT ![p] = <<>>]
  /\ UNCHANGED <<mapVars, mainVars, send_task, chan, online, told>>

-----------------------------------------------------------------------------
(* handle_socket from the select! on.                                      *)

\* Mutant: only the send task is awaited.
SelectSendTaskOnly(p) ==
  /\ main[p] = "serving"
  /\ ~send_task[p]
  /\ main' = [main EXCEPT ![p] = "leaving"]
  /\ UNCHANGED <<mapVars, todo, peers, send_task, recvVars, chan, online, told>>

Select(p) ==
  /\ main[p] = "serving"
  /\ ~send_task[p] \/ recv_task[p] = "off"
  /\ main' = [main EXCEPT ![p] = "leaving"]
  /\ UNCHANGED <<mapVars, todo, peers, send_task, recvVars, chan, online, told>>

\* The peers still to be told; with none left handle_socket returns.
Farewell(p, s) ==
  /\ todo' = [todo EXCEPT ![p] = s]
  /\ main' = [main EXCEPT ![p] = IF s = <<>> THEN "closed" ELSE "goodbye"]

\* Mutant: the entry of the group stays when its last connection goes.
UnregisterKeepingGroup(p) ==
  LET rest == Members(GroupOf[p]) \ {p} IN
  /\ main[p] = "leaving"
  /\ registered' = registered \ {p}
  /\ info' = [info EXCEPT ![p] = 0]
  /\ \E s \in Orders(rest) : Farewell(p, s)
  /\ UNCHANGED <<groups, request_count, peers, send_task, recvVars, chan, online, told>>

Unregister(p) ==
  LET rest == Members(GroupOf[p]) \ {p} IN
  /\ main[p] = "leaving"
  /\ registered' = registered \ {p}
  /\ info' = [info EXCEPT ![p] = 0]
  /\ groups' = IF rest = {} THEN groups \ {GroupOf[p]} ELSE groups
  /\ \E s \in Orders(rest) : Farewell(p, s)
  /\ UNCHANGED <<request_count, peers, send_task, recvVars, chan, online, told>>

SendLeft(p) ==
  /\ main[p] = "goodbye"
  /\ Send(Head(todo[p]), Left(p))
  /\ Farewell(p, Tail(todo[p]))
  /\ UNCHANGED <<mapVars, peers, send_task, recvVars, online>>

-----------------------------------------------------------------------------
\* scheduler.rs: the hourly job clears the whole map.
ResetCounts ==
  /\ Hourly
  /\ request_count' = [g \in Group |-> 0]
  /\ UNCHANGED <<groups, registered, info, mainVars, send_task, recvVars, chan, online, told>>

\* The environment: the client closes its socket, or is gone.
ClientLeaves(p) ==
  /\ p \in Leavers /\ online[p] /\ main[p] # "new"
  /\ online' = [online EXCEPT ![p] = FALSE]
  /\ UNCHANGED <<mapVars, mainVars, send_task, recvVars, chan, told>>

MainTask(p) ==
  \/ Accept(p) \/ Refuse(p) \/ SendJoin(p) \/ SendHello(p)
  \/ Select(p) \/ Unregister(p) \/ SendLeft(p)
SendTask(p) == WriteSocket(p) \/ EndSendTask(p)
RecvTask(p) ==
  \/ ReadRequest(p) \/ LookupUpdate(p) \/ LookupTarget(p) \/ SendFan(p)
  \/ SendError(p) \/ EndRecvTask(p)
Next ==
  \/ \E p \in Peer : MainTask(p) \/ SendTask(p) \/ RecvTask(p) \/ ClientLeaves(p)
  \/ ResetCounts
Spec == Init /\ [][Next]_vars

-----------------------------------------------------------------------------
(* Fairness.  Tokio polls every ready task, and a bounded channel grants    *)
(* its slots first come first served, so a task that waits for a slot which *)
(* frees again and again gets it: strong fairness of each task.  An         *)
(* arriving connection, the hourly reset, a client's request or departure   *)
(* owe nothing; that of SendTask includes that a client which is there      *)
(* reads its socket.                                                        *)
Fairness == \A p \in Peer :
  /\ SF_vars(SendJoin(p) \/ SendHello(p) \/ Select(p) \/ Unregister(p) \/ SendLeft(p))
  /\ SF_vars(LookupUpdate(p) \/ LookupTarget(p) \/ SendFan(p) \/ SendError(p) \/ EndRecvTask(p))
  /\ WF_vars(SendTask(p))
FairSpec == Spec /\ Fairness

-----------------------------------------------------------------------------
(* Properties.                                                              *)

Phase == {"new", "joining", "serving", "leaving", "goodbye", "closed"}
RecvPhase == {"off", "idle", "lookup", "fanout", "limited"}

\* The types of the server's state (ws_controller.rs, state.rs).
TypeOK ==
  /\ groups \subseteq Group /\ registered \subseteq Peer
  /\ info \in [Peer -> 0..MaxVersion] /\ request_count \in [Group -> 0..MaxRequests]
  /\ main \in [Peer -> Phase] /\ todo \in [Peer -> Seq(Peer)]
  /\ peers \in [Peer -> SUBSET ClientInfo]
  /\ send_task \in [Peer -> BOOLEAN] /\ recv_task \in [Peer -> RecvPhase]
  /\ request \in [Peer -> Request] /\ fan \in [Peer -> Seq(Peer)]
  /\ chan \in [Peer -> Seq(Message)]
  /\ online \in [Peer -> BOOLEAN] /\ told \in [Peer -> SUBSET ClientInfo]

\* No IP group ever holds more than MAX_CONNECTIONS_PER_IP connections, however
\* many of them arrive at once, and a connection is in the map exactly while its
\* handle_socket is between the two locked blocks, with the entry of its group.
Membership ==
  /\ \A g \in Group : Cardinality(Members(g)) <= MaxConnections
  /\ registered = {p \in Peer : main[p] \in {"joining", "serving", "leaving"}}
  /\ \A p \in registered : GroupOf[p] \in groups

\* A connection hears only about peers of its own IP group, whatever target a
\* client names in an Offer or an Answer (send_to_peer_with_lock).
GroupIsolation ==
  \A p \in Peer : \A m \in Range(chan[p]) :
    \A q \in About(m) : GroupOf[q] = GroupOf[p]

\* Two connections of a group that both got past their Hello have been shown to
\* each other, by the Hello of the later one and the Join to the earlier one,
\* however their handle_socket tasks interleaved.
Introduced ==
  \A p, t \in registered :
    (p # t /\ GroupOf[p] = GroupOf[t] /\ main[p] # "joining" /\ send_task[t]) => p \in Ids(told[t])

\* An Update on its way is news to everyone it still has to reach: none of them has
\* been shown that version, or will be by its Hello (the locked snapshot of connect
\* against the locked replacement of Update; both fan out after the unlock).
UpdateIsNews ==
  \A p \in Peer : (recv_task[p] = "fanout" /\ request[p].type = "Update") =>
    \A t \in Range(fan[p]) : \A i \in told[t] \cup peers[t] :
      i.id = p => i.ver < request[p].ver

\* Disconnecting never leaves an empty group behind in tx_map: an empty entry only
\* appears when a first connection is refused because the budget is spent.
Empty(g) == g \in groups /\ Members(g) = {}
EmptyGroupOnlyByRefusal ==
  [][\A g \in Group : (Empty(g)' /\ ~Empty(g)) => ~HasBudget(g)]_vars

\* Every accepted connection gets served: its Joins and its Hello are queued.
ConnectionGetsServed == \A p \in Peer : main[p] = "joining" ~> main[p] # "joining"
=============================================================================
