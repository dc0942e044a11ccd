----------------------- MODULE SignalingServerProofs -----------------------
(***************************************************************************)
(* What the signaling server guarantees for every set of connections, IP   *)
(* groups and limits, proved with TLAPS.                                   *)
(***************************************************************************)
EXTENDS SignalingServer, FiniteSetTheorems, SequenceTheorems, TLAPS

-----------------------------------------------------------------------------
(* The operators.                                                          *)

\* A snapshot of a HashMap's keys lists each of them once.
LEMMA OrdersOfSet ==
  ASSUME NEW S, IsFiniteSet(S), NEW s \in Orders(S)
  PROVE  /\ s \in Seq(S) /\ Range(s) = S
         /\ s = <<>> <=> S = {}
         /\ \A i, j \in DOMAIN s : s[i] = s[j] => i = j
<1>1. Cardinality(S) \in Nat BY FS_CardinalityType
<1>2. /\ s \in [1..Cardinality(S) -> S]
      /\ \A i, j \in DOMAIN s : s[i] = s[j] => i = j
      /\ \A x \in S : \E i \in DOMAIN s : s[i] = x
  BY DEF Orders, Bijection, Injection, Surjection, IsInjective
<1>3. s \in Seq(S) BY <1>1, <1>2
<1>4. Range(s) = S BY <1>2 DEF Range
<1>5. s = <<>> <=> S = {}
  <2>1. ASSUME s = <<>> PROVE S = {}
    <3>1. DOMAIN s = {} BY <2>1
    <3> QED BY <3>1, <1>2
  <2>2. ASSUME S = {} PROVE s = <<>>
    <3>1. Cardinality(S) = 0 BY <2>2, FS_EmptySet
    <3>2. Len(s) = 0 BY <3>1, <1>1, <1>2
    <3> QED BY <3>2, <1>3, EmptySeq
  <2> QED BY <2>1, <2>2
<1> QED BY <1>2, <1>3, <1>4, <1>5

\* What is left of a fan-out after its first receiver.
LEMMA TailOfFan ==
  ASSUME NEW S, NEW s \in Seq(S), s # <<>>
  PROVE  /\ Head(s) \in S /\ Tail(s) \in Seq(S)
         /\ Range(s) = Range(Tail(s)) \cup {Head(s)}
<1>1. /\ Head(s) \in S /\ Tail(s) \in Seq(S) /\ Len(Tail(s)) = Len(s) - 1
      /\ \A i \in 1..Len(Tail(s)) : Tail(s)[i] = s[i+1]
  BY HeadTailProperties
<1>2. Head(s) = s[1] /\ Len(s) \in Nat \ {0} BY EmptySeq
<1>3. ASSUME NEW x \in Range(s) PROVE x \in Range(Tail(s)) \cup {Head(s)}
  <2>1. PICK i \in 1..Len(s) : x = s[i] BY <1>3 DEF Range
  <2>2. CASE i = 1 BY <2>1, <2>2, <1>2
  <2>3. CASE i # 1
    <3>1. i - 1 \in 1..Len(Tail(s)) BY <2>1, <2>3, <1>1, <1>2
    <3>2. Tail(s)[i - 1] = x BY <3>1, <2>1, <1>1
    <3>3. DOMAIN Tail(s) = 1..Len(Tail(s)) BY <1>1
    <3> QED BY <3>1, <3>2, <3>3 DEF Range
  <2> QED BY <2>2, <2>3
<1>4. Range(Tail(s)) \cup {Head(s)} \subseteq Range(s) BY <1>1, <1>2 DEF Range
<1> QED BY <1>1, <1>3, <1>4

\* Every message keeps the merged room a set of peers' information.
LEMMA SeenType ==
  ASSUME NEW s \in SUBSET ClientInfo, NEW m \in Message
  PROVE  Seen(s, m) \in SUBSET ClientInfo
<1>1. CASE m.type = "Hello" BY <1>1 DEF Seen, Message
<1>2. CASE m.type = "Join" BY <1>2 DEF Seen, Message
<1>3. CASE m.type = "Update" BY <1>3 DEF Seen, Message
<1>4. CASE m.type = "Left" BY <1>4 DEF Seen, Message
<1>5. CASE m.type \in {"Sdp", "Error"} BY <1>5 DEF Seen, Message
<1> QED BY <1>1, <1>2, <1>3, <1>4, <1>5 DEF Message

\* The messages the tasks send are well formed.
LEMMA MessageTypes ==
  ASSUME NEW p \in Peer, NEW v \in 0..MaxVersion, NEW s \in SUBSET ClientInfo
  PROVE  /\ Hello(s) \in Message /\ Join(p) \in Message /\ Update(p, v) \in Message
         /\ Sdp(p) \in Message /\ Left(p) \in Message /\ Error \in Message
  BY ServerAssumption DEF Hello, Join, Update, Sdp, Left, Error, Message, ClientInfo

LEMMA SendType ==
  ASSUME TypeOK, NEW p \in Peer, NEW m \in Message, Send(p, m)
  PROVE  chan' \in [Peer -> Seq(Message)] /\ told' \in [Peer -> SUBSET ClientInfo]
<1>1. Append(chan[p], m) \in Seq(Message) BY DEF TypeOK
<1>2. Seen(told[p], m) \in SUBSET ClientInfo BY SeenType DEF TypeOK
<1> QED BY <1>1, <1>2 DEF TypeOK, Send

LEMMA MembersFinite ==
  ASSUME TypeOK, NEW g
  PROVE  /\ IsFiniteSet(Members(g)) /\ Members(g) \subseteq Peer
         /\ \A p : IsFiniteSet(Members(g) \ {p})
<1>1. Members(g) \subseteq Peer BY DEF TypeOK, Members
<1> QED BY <1>1, FS_Subset, FS_RemoveElement, ServerAssumption

-----------------------------------------------------------------------------
(* Type correctness.  A fan-out phase always has a receiver left, which is  *)
(* what makes the Head and the Tail of its list meaningful.                 *)

FanoutPending == \A p \in Peer :
  /\ main[p] = "goodbye" => todo[p] # <<>>
  /\ recv_task[p] = "fanout" => fan[p] # <<>>

TypeInv == TypeOK /\ FanoutPending

LEMMA TypeInit == Init => TypeInv
  BY ServerAssumption DEF Init, TypeInv, TypeOK, FanoutPending, Phase, RecvPhase,
     Request, NoRequest

\* A recv task that gets a list of receivers keeps its types.
LEMMA ReachType ==
  ASSUME TypeInv, NEW p \in Peer, NEW s \in Seq(Peer), Reach(p, s), UNCHANGED <<main, todo>>
  PROVE  /\ fan' \in [Peer -> Seq(Peer)] /\ recv_task' \in [Peer -> RecvPhase]
         /\ request' \in [Peer -> Request]
         /\ FanoutPending'
<1>1. NoRequest \in Request BY DEF NoRequest, Request
<1>2. request' \in [Peer -> Request] BY <1>1 DEF Reach, TypeInv, TypeOK
<1>3. fan' \in [Peer -> Seq(Peer)] BY DEF Reach, TypeInv, TypeOK
<1>4. recv_task' \in [Peer -> RecvPhase] BY DEF Reach, TypeInv, TypeOK, RecvPhase
<1>5. FanoutPending' BY DEF Reach, TypeInv, TypeOK, FanoutPending
<1> QED BY <1>2, <1>3, <1>4, <1>5

LEMMA TypeStep == TypeInv /\ [Next]_vars => TypeInv'
<1> SUFFICES ASSUME TypeInv, [Next]_vars PROVE TypeInv'
  OBVIOUS
<1> USE DEF TypeInv
<1>0. /\ \A p \in Peer : GroupOf[p] \in Group
      /\ MaxRequests \in Nat /\ MaxVersion \in Nat /\ 0 \in 0..MaxVersion
  BY ServerAssumption
<1>1. ASSUME NEW p \in Peer, Accept(p) PROVE TypeInv'
  <2>1. \A s \in Orders(Members(GroupOf[p])) : s \in Seq(Peer)
    <3>1. ASSUME NEW s \in Orders(Members(GroupOf[p])) PROVE s \in Seq(Members(GroupOf[p]))
      BY OrdersOfSet, MembersFinite
    <3> QED BY <3>1, MembersFinite
  <2>2. todo' \in [Peer -> Seq(Peer)] BY <1>1, <2>1 DEF Accept, TypeOK
  <2>3. peers' \in [Peer -> SUBSET ClientInfo]
    BY <1>1 DEF Accept, TypeOK, ClientInfo, Members
  <2>4. request_count' \in [Group -> 0..MaxRequests]
    BY <1>1, <1>0 DEF Accept, Count, HasBudget, TypeOK
  <2>5. TypeOK'
    <3>1. groups' \subseteq Group /\ registered' \subseteq Peer
      BY <1>1, <1>0 DEF Accept, TypeOK
    <3>2. main' \in [Peer -> Phase] BY <1>1 DEF Accept, TypeOK, Phase
    <3> QED BY <1>1, <2>2, <2>3, <2>4, <3>1, <3>2 DEF Accept, TypeOK, recvVars
  <2>6. FanoutPending'
    BY <1>1 DEF Accept, TypeOK, FanoutPending, recvVars
  <2> QED BY <2>5, <2>6
<1>2. ASSUME NEW p \in Peer, Refuse(p) PROVE TypeInv'
  BY <1>2, <1>0 DEF Refuse, TypeOK, FanoutPending, Phase, recvVars
<1>3. ASSUME NEW p \in Peer, SendJoin(p) PROVE TypeInv'
  <2>1. Head(todo[p]) \in Peer /\ Tail(todo[p]) \in Seq(Peer)
    BY <1>3, TailOfFan DEF SendJoin, TypeOK
  <2>2. chan' \in [Peer -> Seq(Message)] /\ told' \in [Peer -> SUBSET ClientInfo]
    BY <1>3, <1>0, <2>1, MessageTypes, SendType DEF SendJoin
  <2> QED BY <1>3, <2>1, <2>2 DEF SendJoin, TypeOK, FanoutPending, mapVars, recvVars
<1>4. ASSUME NEW p \in Peer, SendHello(p) PROVE TypeInv'
  <2>1. Hello(peers[p]) \in Message BY <1>0, MessageTypes DEF TypeOK
  <2>2. chan' \in [Peer -> Seq(Message)] /\ told' \in [Peer -> SUBSET ClientInfo]
    BY <1>4, <2>1, SendType DEF SendHello
  <2> QED BY <1>4, <2>2 DEF SendHello, TypeOK, FanoutPending, Phase, RecvPhase, mapVars
<1>5. ASSUME NEW p \in Peer, Select(p) PROVE TypeInv'
  BY <1>5 DEF Select, TypeOK, FanoutPending, Phase, mapVars, recvVars
<1>6. ASSUME NEW p \in Peer, Unregister(p) PROVE TypeInv'
  <2>1. PICK s \in Orders(Members(GroupOf[p]) \ {p}) : Farewell(p, s)
    BY <1>6 DEF Unregister
  <2>2. s \in Seq(Peer)
    <3>1. s \in Seq(Members(GroupOf[p]) \ {p}) BY OrdersOfSet, MembersFinite
    <3> QED BY <3>1, MembersFinite
  <2>3. TypeOK'
    BY <1>6, <1>0, <2>1, <2>2 DEF Unregister, Farewell, TypeOK, Phase, recvVars
  <2>4. FanoutPending'
    BY <1>6, <2>1, <2>2 DEF Unregister, Farewell, TypeOK, FanoutPending, recvVars
  <2> QED BY <2>3, <2>4
<1>7. ASSUME NEW p \in Peer, SendLeft(p) PROVE TypeInv'
  <2>1. Head(todo[p]) \in Peer /\ Tail(todo[p]) \in Seq(Peer)
    BY <1>7, TailOfFan DEF SendLeft, TypeOK, FanoutPending
  <2>2. chan' \in [Peer -> Seq(Message)] /\ told' \in [Peer -> SUBSET ClientInfo]
    BY <1>7, <1>0, <2>1, MessageTypes, SendType DEF SendLeft
  <2> QED
    BY <1>7, <2>1, <2>2 DEF SendLeft, Farewell, TypeOK, FanoutPending, Phase, mapVars, recvVars
<1>8. ASSUME NEW p \in Peer, WriteSocket(p) PROVE TypeInv'
  <2>1. Tail(chan[p]) \in Seq(Message)
    BY <1>8, HeadTailProperties DEF WriteSocket, TypeOK
  <2> QED BY <1>8, <2>1 DEF WriteSocket, TypeOK, FanoutPending, mapVars, mainVars, recvVars
<1>9. ASSUME NEW p \in Peer, EndSendTask(p) PROVE TypeInv'
  BY <1>9 DEF EndSendTask, TypeOK, FanoutPending, mapVars, mainVars, recvVars
<1>10. ASSUME NEW p \in Peer, ReadRequest(p) PROVE TypeInv'
  <2>1. Requests(p) \subseteq Request BY ServerAssumption DEF Requests, Request
  <2> DEFINE g == GroupOf[p]
  <2>c. request_count' = request_count \/ (HasBudget(g) /\ Count(g))
    BY <1>10 DEF ReadRequest
  <2>2. request_count' \in [Group -> 0..MaxRequests]
    <3>1. request_count \in [Group -> 0..MaxRequests] BY DEF TypeOK
    <3>2. ASSUME HasBudget(g), Count(g) PROVE request_count' \in [Group -> 0..MaxRequests]
      <4>1. g \in Group /\ request_count[g] + 1 \in 0..MaxRequests
        BY <3>1, <3>2, <1>0 DEF HasBudget
      <4> QED BY <3>1, <3>2, <4>1 DEF Count
    <3> QED BY <3>1, <3>2, <2>c
  <2>a. PICK r \in Request : request' = request \/ request' = [request EXCEPT ![p] = r]
    BY <1>10, <2>1 DEF ReadRequest
  <2>b. recv_task' = [recv_task EXCEPT ![p] = "lookup"]
          \/ recv_task' = [recv_task EXCEPT ![p] = "limited"]
    BY <1>10 DEF ReadRequest
  <2>3. request' \in [Peer -> Request] /\ recv_task' \in [Peer -> RecvPhase]
    BY <2>a, <2>b DEF TypeOK, RecvPhase
  <2>4. \A q \in Peer : recv_task'[q] = "fanout" => recv_task[q] = "fanout"
    BY <1>10 DEF ReadRequest, TypeOK
  <2> QED BY <1>10, <2>2, <2>3, <2>4 DEF ReadRequest, TypeOK, FanoutPending, mainVars
<1>11. ASSUME NEW p \in Peer, LookupUpdate(p) PROVE TypeInv'
  <2>1. PICK s \in Seq(Peer) : Reach(p, s)
    <3>1. CASE p \in registered
      <4>1. PICK s \in Orders(Members(GroupOf[p]) \ {p}) : Reach(p, s)
        BY <1>11, <3>1 DEF LookupUpdate
      <4>2. s \in Seq(Members(GroupOf[p]) \ {p}) BY OrdersOfSet, MembersFinite
      <4>3. s \in Seq(Peer) BY <4>2, MembersFinite
      <4> QED BY <4>1, <4>3
    <3>2. CASE p \notin registered
      <4>1. Reach(p, <<>>) BY <1>11, <3>2 DEF LookupUpdate
      <4>2. <<>> \in Seq(Peer) OBVIOUS
      <4> QED BY <4>1, <4>2
    <3> QED BY <3>1, <3>2
  <2>2. info' \in [Peer -> 0..MaxVersion]
    <3>1. request[p] \in Request /\ request[p].type = "Update" BY <1>11 DEF LookupUpdate, TypeOK
    <3>2. request[p].ver \in 0..MaxVersion BY <3>1 DEF Request
    <3> QED BY <1>11, <3>2 DEF LookupUpdate, TypeOK
  <2> QED BY <1>11, <2>1, <2>2, ReachType DEF LookupUpdate, TypeOK, mainVars
<1>12. ASSUME NEW p \in Peer, LookupTarget(p) PROVE TypeInv'
  <2>1. PICK s \in Seq(Peer) : Reach(p, s)
    <3> DEFINE t == request[p].target
               s == IF t \in Members(GroupOf[p]) THEN <<t>> ELSE <<>>
    <3>1. Reach(p, s) BY <1>12 DEF LookupTarget
    <3>2. s \in Seq(Peer) BY MembersFinite
    <3> QED BY <3>1, <3>2
  <2> QED BY <1>12, <2>1, ReachType DEF LookupTarget, TypeOK, mainVars, mapVars
<1>13. ASSUME NEW p \in Peer, SendFan(p) PROVE TypeInv'
  <2>1. Head(fan[p]) \in Peer /\ Tail(fan[p]) \in Seq(Peer)
    BY <1>13, TailOfFan DEF SendFan, TypeOK, FanoutPending
  <2>2. request[p].type = "Update" => request[p].ver \in 0..MaxVersion
    BY DEF TypeOK, Request
  <2>3. PICK m \in Message : Send(Head(fan[p]), m)
    BY <1>13, <1>0, <2>2, MessageTypes DEF SendFan
  <2>4. chan' \in [Peer -> Seq(Message)] /\ told' \in [Peer -> SUBSET ClientInfo]
    BY <2>1, <2>3, SendType
  <2>5. Reach(p, Tail(fan[p])) /\ UNCHANGED <<main, todo>> BY <1>13 DEF SendFan, mainVars
  <2> QED BY <1>13, <2>1, <2>4, <2>5, ReachType DEF SendFan, TypeOK, mainVars, mapVars
<1>14. ASSUME NEW p \in Peer, SendError(p) PROVE TypeInv'
  <2>1. chan' \in [Peer -> Seq(Message)] /\ told' \in [Peer -> SUBSET ClientInfo]
    BY <1>14, <1>0, MessageTypes, SendType DEF SendError
  <2> QED BY <1>14, <2>1 DEF SendError, TypeOK, FanoutPending, RecvPhase, mainVars, mapVars
<1>15. ASSUME NEW p \in Peer, EndRecvTask(p) PROVE TypeInv'
  BY <1>15 DEF EndRecvTask, TypeOK, FanoutPending, RecvPhase, Request, NoRequest,
     mainVars, mapVars
<1>16. ASSUME NEW p \in Peer, ClientLeaves(p) PROVE TypeInv'
  BY <1>16 DEF ClientLeaves, TypeOK, FanoutPending, mainVars, mapVars, recvVars
<1>17. ASSUME ResetCounts PROVE TypeInv'
  BY <1>17, <1>0 DEF ResetCounts, TypeOK, FanoutPending, mainVars, recvVars
<1>18. ASSUME UNCHANGED vars PROVE TypeInv'
  BY <1>18 DEF vars, mapVars, mainVars, recvVars, TypeOK, FanoutPending
<1> QED
  BY <1>1, <1>2, <1>3, <1>4, <1>5, <1>6, <1>7, <1>8, <1>9, <1>10, <1>11, <1>12, <1>13,
     <1>14, <1>15, <1>16, <1>17, <1>18 DEF Next, MainTask, SendTask, RecvTask

LEMMA TypeInvariant == Spec => []TypeInv
<1>1. Init => TypeInv BY TypeInit
<1>2. TypeInv /\ [Next]_vars => TypeInv' BY TypeStep
<1> QED BY <1>1, <1>2, PTL DEF Spec

\* The state of the server keeps its types.
THEOREM TypeCorrect == Spec => []TypeOK
<1>1. TypeInv => TypeOK BY DEF TypeInv
<1> QED BY <1>1, TypeInvariant, PTL

-----------------------------------------------------------------------------
(* Membership: connections enter and leave the map in the two locked blocks *)
(* of handle_socket, and nowhere else.                                      *)

LEMMA MembershipInit == Init => Membership
<1> SUFFICES ASSUME Init PROVE Membership OBVIOUS
<1>1. \A g : Members(g) = {} BY DEF Init, Members
<1>2. Cardinality({}) <= MaxConnections BY FS_EmptySet, ServerAssumption
<1>3. {p \in Peer : main[p] \in {"joining", "serving", "leaving"}} = {} BY DEF Init
<1> QED BY <1>1, <1>2, <1>3 DEF Init, Membership

\* Taking connections out of the map keeps every group within its limit.
LEMMA FewerMembers ==
  ASSUME TypeInv, Membership, registered' \subseteq registered
  PROVE  \A g \in Group : Cardinality(Members(g))' <= MaxConnections
<1> SUFFICES ASSUME NEW g \in Group PROVE Cardinality(Members(g))' <= MaxConnections
  OBVIOUS
<1>1. Members(g)' \subseteq Members(g) BY DEF Members
<1>2. IsFiniteSet(Members(g)) BY MembersFinite DEF TypeInv
<1>3. IsFiniteSet(Members(g)') BY <1>1, <1>2, FS_Subset
<1>4. /\ Cardinality(Members(g)') <= Cardinality(Members(g))
      /\ Cardinality(Members(g)') \in Nat /\ Cardinality(Members(g)) \in Nat
  BY <1>1, <1>2, <1>3, FS_Subset, FS_CardinalityType
<1> QED BY <1>4, ServerAssumption DEF Membership

LEMMA MembershipStep == TypeInv /\ Membership /\ [Next]_vars => Membership'
<1> SUFFICES ASSUME TypeInv, Membership, [Next]_vars PROVE Membership'
  OBVIOUS
<1> USE DEF TypeInv
<1>0. \A p \in Peer : GroupOf[p] \in Group BY ServerAssumption
<1>1. ASSUME NEW p \in Peer, Accept(p) PROVE Membership'
  <2>1. ASSUME NEW g \in Group PROVE Cardinality(Members(g))' <= MaxConnections
    <3>1. CASE g = GroupOf[p]
      <4>1. Members(g)' = Members(g) \cup {p} BY <1>1, <3>1 DEF Accept, Members
      <4>2. IsFiniteSet(Members(g)) /\ Cardinality(Members(g)) \in Nat
        BY MembersFinite, FS_CardinalityType
      <4>3. Cardinality(Members(g)') <= Cardinality(Members(g)) + 1
        BY <4>1, <4>2, FS_AddElement
      <4>4. Cardinality(Members(g)') \in Nat BY <4>1, <4>2, FS_AddElement
      <4>5. Cardinality(Members(g)) < MaxConnections BY <1>1, <3>1 DEF Accept
      <4> QED BY <4>2, <4>3, <4>4, <4>5, ServerAssumption
    <3>2. CASE g # GroupOf[p]
      <4>1. Members(g)' = Members(g) BY <1>1, <3>2 DEF Accept, Members
      <4> QED BY <4>1 DEF Membership
    <3> QED BY <3>1, <3>2
  <2>2. registered' = {q \in Peer : main'[q] \in {"joining", "serving", "leaving"}}
    BY <1>1 DEF Accept, Membership, TypeOK
  <2>3. \A q \in registered' : GroupOf[q] \in groups'
    BY <1>1 DEF Accept, Membership
  <2> QED BY <2>1, <2>2, <2>3 DEF Membership
<1>2. ASSUME NEW p \in Peer, Unregister(p) PROVE Membership'
  <2>1. PICK s \in Orders(Members(GroupOf[p]) \ {p}) : Farewell(p, s)
    BY <1>2 DEF Unregister
  <2>2. registered' = {q \in Peer : main'[q] \in {"joining", "serving", "leaving"}}
    BY <1>2, <2>1 DEF Unregister, Farewell, Membership, TypeOK
  <2>3. \A q \in registered' : GroupOf[q] \in groups'
    BY <1>2 DEF Unregister, Membership, Members
  <2>4. registered' \subseteq registered BY <1>2 DEF Unregister
  <2> QED BY <2>2, <2>3, <2>4, FewerMembers DEF Membership
<1>3. ASSUME registered' = registered, groups \subseteq groups',
             \A q \in Peer : main'[q] \in {"joining", "serving", "leaving"}
                               <=> main[q] \in {"joining", "serving", "leaving"}
      PROVE  Membership'
  <2>1. \A g : Members(g)' = Members(g) BY <1>3 DEF Members
  <2> QED BY <1>3, <2>1 DEF Membership
<1>4. ASSUME NEW p \in Peer, Refuse(p) PROVE Membership'
  BY <1>3, <1>4 DEF Refuse, TypeOK
<1>5. ASSUME NEW p \in Peer, SendJoin(p) PROVE Membership'
  BY <1>3, <1>5 DEF SendJoin, mapVars
<1>6. ASSUME NEW p \in Peer, SendHello(p) PROVE Membership'
  BY <1>3, <1>6 DEF SendHello, mapVars, TypeOK
<1>7. ASSUME NEW p \in Peer, Select(p) PROVE Membership'
  BY <1>3, <1>7 DEF Select, mapVars, TypeOK
<1>8. ASSUME NEW p \in Peer, SendLeft(p) PROVE Membership'
  BY <1>3, <1>8 DEF SendLeft, Farewell, mapVars, TypeOK
<1>9. ASSUME NEW p \in Peer, SendTask(p) PROVE Membership'
  BY <1>3, <1>9 DEF SendTask, WriteSocket, EndSendTask, mapVars, mainVars
<1>10. ASSUME NEW p \in Peer, RecvTask(p) PROVE Membership'
  BY <1>3, <1>10 DEF RecvTask, ReadRequest, LookupUpdate, LookupTarget, SendFan, SendError,
     EndRecvTask, mapVars, mainVars
<1>11. ASSUME NEW p \in Peer, ClientLeaves(p) PROVE Membership'
  BY <1>3, <1>11 DEF ClientLeaves, mapVars, mainVars
<1>12. ASSUME ResetCounts \/ UNCHANGED vars PROVE Membership'
  BY <1>3, <1>12 DEF ResetCounts, vars, mapVars, mainVars
<1> QED
  BY <1>1, <1>2, <1>4, <1>5, <1>6, <1>7, <1>8, <1>9, <1>10, <1>11, <1>12 DEF Next, MainTask

\* However many connections arrive at once, no IP group exceeds its limit, and the
\* map holds exactly the connections between the two locked blocks.
THEOREM MembershipCorrect == Spec => []Membership
<1>1. Init => Membership BY MembershipInit
<1>2. TypeInv /\ Membership /\ [Next]_vars => Membership' BY MembershipStep
<1> QED BY <1>1, <1>2, TypeInvariant, PTL DEF Spec

\* An entry of tx_map without connections only comes from a refusal for the budget: the
\* last connection to leave takes the entry along, and the limit of connections cannot
\* refuse the first.
LEMMA RefusalStep ==
  ASSUME TypeInv, [Next]_vars, NEW g \in Group, Empty(g)', ~Empty(g)
  PROVE  ~HasBudget(g)
<1>1. ASSUME NEW p \in Peer, Accept(p) PROVE FALSE
  <2>1. groups' = groups \cup {GroupOf[p]} /\ registered' = registered \cup {p}
    BY <1>1 DEF Accept
  <2>2. CASE g = GroupOf[p]
    BY <2>1, <2>2 DEF Empty, Members
  <2>3. CASE g # GroupOf[p]
    <3>1. Members(g) \subseteq Members(g)'
      BY <2>1 DEF Members
    <3> QED BY <2>1, <2>3, <3>1 DEF Empty
  <2> QED BY <2>2, <2>3
<1>2. ASSUME NEW p \in Peer, Refuse(p) PROVE ~HasBudget(g)
  <2>1. groups' = groups \cup {GroupOf[p]} /\ Members(g)' = Members(g)
    BY <1>2 DEF Refuse, Members
  <2>2. g = GroupOf[p] /\ Members(g) = {}
    BY <2>1 DEF Empty
  <2>3. ~(Cardinality(Members(g)) >= MaxConnections)
    BY <2>2, FS_EmptySet, ServerAssumption
  <2> QED BY <1>2, <2>2, <2>3 DEF Refuse
<1>3. ASSUME NEW p \in Peer, Unregister(p) PROVE FALSE
  <2> DEFINE rest == Members(GroupOf[p]) \ {p}
  <2>1. /\ registered' = registered \ {p}
        /\ groups' = IF rest = {} THEN groups \ {GroupOf[p]} ELSE groups
    BY <1>3 DEF Unregister
  <2>2. CASE g = GroupOf[p]
    <3>1. Members(g)' = rest
      BY <2>1, <2>2 DEF Members
    <3> QED BY <2>1, <2>2, <3>1 DEF Empty
  <2>3. CASE g # GroupOf[p]
    <3>1. Members(g)' = Members(g)
      BY <2>1, <2>3 DEF Members
    <3> QED BY <2>1, <3>1 DEF Empty
  <2> QED BY <2>2, <2>3
<1>4. ASSUME UNCHANGED <<groups, registered>> PROVE FALSE
  BY <1>4 DEF Empty, Members
<1>5. ASSUME NEW p \in Peer, MainTask(p) PROVE ~HasBudget(g)
  BY <1>1, <1>2, <1>3, <1>4, <1>5 DEF MainTask, SendJoin, SendHello, Select, SendLeft, mapVars
<1>6. ASSUME NEW p \in Peer, SendTask(p) \/ ClientLeaves(p) PROVE FALSE
  BY <1>4, <1>6 DEF SendTask, WriteSocket, EndSendTask, ClientLeaves, mapVars
<1>7. ASSUME NEW p \in Peer, RecvTask(p) PROVE FALSE
  BY <1>4, <1>7 DEF RecvTask, ReadRequest, LookupUpdate, LookupTarget, SendFan, SendError,
     EndRecvTask, mapVars
<1>8. ASSUME ResetCounts \/ UNCHANGED vars PROVE FALSE
  BY <1>4, <1>8 DEF ResetCounts, vars, mapVars
<1> QED BY <1>5, <1>6, <1>7, <1>8 DEF Next

\* tx_map keeps no empty entry behind a disconnect (handle_socket, the second locked block).
THEOREM NoEmptyGroupLeft == Spec => EmptyGroupOnlyByRefusal
<1>1. TypeInv /\ [Next]_vars => [\A g \in Group : (Empty(g)' /\ ~Empty(g)) => ~HasBudget(g)]_vars
  BY RefusalStep
<1> QED BY <1>1, TypeInvariant, PTL DEF Spec, EmptyGroupOnlyByRefusal

-----------------------------------------------------------------------------
(* Isolation of the IP groups: every list of receivers and every snapshot   *)
(* stays within the group it was taken from, and so do the messages.        *)

GroupBound ==
  \A p \in Peer :
    /\ \A t \in Range(todo[p]) \cup Range(fan[p]) : GroupOf[t] = GroupOf[p]
    /\ \A i \in peers[p] : GroupOf[i.id] = GroupOf[p]

LEMMA AboutMessages ==
  ASSUME NEW p, NEW v, NEW s
  PROVE  /\ About(Hello(s)) = Ids(s) /\ About(Join(p)) = {p} /\ About(Update(p, v)) = {p}
         /\ About(Sdp(p)) = {p} /\ About(Left(p)) = {p} /\ About(Error) = {}
  BY DEF About, Hello, Join, Update, Sdp, Left, Error

LEMMA SendWithinGroup ==
  ASSUME TypeOK, GroupIsolation, NEW t \in Peer, NEW m \in Message, Send(t, m),
         \A q \in About(m) : GroupOf[q] = GroupOf[t]
  PROVE  GroupIsolation'
<1>1. Append(chan[t], m) \in Seq(Message) /\ Range(Append(chan[t], m)) = Range(chan[t]) \cup {m}
  <2>1. chan[t] \in Seq(Message) BY DEF TypeOK
  <2> QED BY <2>1, AppendProperties DEF Range
<1> QED BY <1>1 DEF Send, GroupIsolation, TypeOK

IsolationInv == GroupIsolation /\ GroupBound

LEMMA IsolationInit == Init => IsolationInv
  BY DEF Init, IsolationInv, GroupIsolation, GroupBound, Range

LEMMA IsolationStep == TypeInv /\ IsolationInv /\ [Next]_vars => IsolationInv'
<1> SUFFICES ASSUME TypeInv, IsolationInv, [Next]_vars PROVE IsolationInv'
  OBVIOUS
<1> USE DEF TypeInv, IsolationInv
<1>0. 0 \in 0..MaxVersion /\ Range(<<>>) = {} BY ServerAssumption DEF Range
<1>1. ASSUME NEW p \in Peer, Accept(p) PROVE IsolationInv'
  <2>1. PICK s \in Orders(Members(GroupOf[p])) : todo' = [todo EXCEPT ![p] = s]
    BY <1>1 DEF Accept
  <2>2. Range(s) = Members(GroupOf[p]) BY OrdersOfSet, MembersFinite
  <2>3. \A t \in Range(s) : GroupOf[t] = GroupOf[p] BY <2>2 DEF Members
  <2>4. \A i \in peers'[p] : GroupOf[i.id] = GroupOf[p] BY <1>1 DEF Accept, Members, TypeOK
  <2>5. GroupIsolation' BY <1>1 DEF Accept, GroupIsolation
  <2>6. GroupBound' BY <1>1, <2>1, <2>3, <2>4 DEF Accept, GroupBound, TypeOK, recvVars
  <2> QED BY <2>5, <2>6
<1>2. ASSUME NEW p \in Peer, Refuse(p) PROVE IsolationInv'
  BY <1>2 DEF Refuse, GroupIsolation, GroupBound, recvVars
<1>3. ASSUME NEW p \in Peer, SendJoin(p) PROVE IsolationInv'
  <2>1. /\ Head(todo[p]) \in Peer
        /\ Range(todo[p]) = Range(Tail(todo[p])) \cup {Head(todo[p])}
    BY <1>3, TailOfFan DEF SendJoin, TypeOK
  <2>2. GroupOf[Head(todo[p])] = GroupOf[p] BY <2>1 DEF GroupBound
  <2>a. Join(p) \in Message /\ \A q \in About(Join(p)) : GroupOf[q] = GroupOf[p]
    BY <1>0, MessageTypes, AboutMessages
  <2>b. Send(Head(todo[p]), Join(p)) BY <1>3 DEF SendJoin
  <2>3. GroupIsolation' BY <2>1, <2>2, <2>a, <2>b, SendWithinGroup
  <2>4. GroupBound' BY <1>3, <2>1 DEF SendJoin, GroupBound, TypeOK, recvVars
  <2> QED BY <2>3, <2>4
<1>4. ASSUME NEW p \in Peer, SendHello(p) PROVE IsolationInv'
  <2>1. Hello(peers[p]) \in Message /\ \A q \in Ids(peers[p]) : GroupOf[q] = GroupOf[p]
    BY <1>0, MessageTypes DEF TypeOK, GroupBound, Ids
  <2>2. GroupIsolation' BY <1>4, <2>1, AboutMessages, SendWithinGroup DEF SendHello
  <2>3. GroupBound' BY <1>4 DEF SendHello, GroupBound, TypeOK
  <2> QED BY <2>2, <2>3
<1>5. ASSUME NEW p \in Peer, Select(p) PROVE IsolationInv'
  BY <1>5 DEF Select, GroupIsolation, GroupBound, recvVars
<1>6. ASSUME NEW p \in Peer, Unregister(p) PROVE IsolationInv'
  <2>1. PICK s \in Orders(Members(GroupOf[p]) \ {p}) : Farewell(p, s)
    BY <1>6 DEF Unregister
  <2>2. Range(s) = Members(GroupOf[p]) \ {p} BY OrdersOfSet, MembersFinite
  <2>3. \A t \in Range(s) : GroupOf[t] = GroupOf[p] BY <2>2 DEF Members
  <2>4. GroupIsolation' BY <1>6 DEF Unregister, GroupIsolation
  <2>5. GroupBound'
    BY <1>6, <2>1, <2>3 DEF Unregister, Farewell, GroupBound, TypeOK, recvVars
  <2> QED BY <2>4, <2>5
<1>7. ASSUME NEW p \in Peer, SendLeft(p) PROVE IsolationInv'
  <2>1. /\ Head(todo[p]) \in Peer
        /\ Range(todo[p]) = Range(Tail(todo[p])) \cup {Head(todo[p])}
    BY <1>7, TailOfFan DEF SendLeft, TypeOK, FanoutPending
  <2>2. GroupOf[Head(todo[p])] = GroupOf[p] BY <2>1 DEF GroupBound
  <2>3. GroupIsolation'
    BY <1>0, <1>7, <2>1, <2>2, MessageTypes, AboutMessages, SendWithinGroup DEF SendLeft
  <2>4. GroupBound' BY <1>7, <2>1 DEF SendLeft, Farewell, GroupBound, TypeOK, recvVars
  <2> QED BY <2>3, <2>4
<1>8. ASSUME NEW p \in Peer, WriteSocket(p) PROVE IsolationInv'
  <2>1. Range(Tail(chan[p])) \subseteq Range(chan[p])
    BY <1>8, TailOfFan DEF WriteSocket, TypeOK
  <2> QED
    BY <1>8, <2>1 DEF WriteSocket, GroupIsolation, GroupBound, TypeOK, mainVars, recvVars
<1>9. ASSUME NEW p \in Peer, EndSendTask(p) PROVE IsolationInv'
  BY <1>0, <1>9 DEF EndSendTask, GroupIsolation, GroupBound, TypeOK, mainVars, recvVars
<1>10. ASSUME NEW p \in Peer, ReadRequest(p) PROVE IsolationInv'
  BY <1>10 DEF ReadRequest, GroupIsolation, GroupBound, mainVars
<1>11. ASSUME NEW p \in Peer, NEW s, Reach(p, s), UNCHANGED <<chan, todo, peers>>,
              \A t \in Range(s) : GroupOf[t] = GroupOf[p]
       PROVE  IsolationInv'
  BY <1>11 DEF Reach, GroupIsolation, GroupBound, TypeOK
<1>12. ASSUME NEW p \in Peer, LookupUpdate(p) PROVE IsolationInv'
  <2>1. PICK s : Reach(p, s) /\ \A t \in Range(s) : GroupOf[t] = GroupOf[p]
    <3>1. CASE p \in registered
      <4>1. PICK s \in Orders(Members(GroupOf[p]) \ {p}) : Reach(p, s)
        BY <1>12, <3>1 DEF LookupUpdate
      <4>2. Range(s) = Members(GroupOf[p]) \ {p} BY OrdersOfSet, MembersFinite
      <4> QED BY <4>1, <4>2 DEF Members
    <3>2. CASE p \notin registered BY <1>0, <1>12, <3>2 DEF LookupUpdate
    <3> QED BY <3>1, <3>2
  <2> QED BY <1>11, <1>12, <2>1 DEF LookupUpdate, mainVars
<1>13. ASSUME NEW p \in Peer, LookupTarget(p) PROVE IsolationInv'
  <2> DEFINE t == request[p].target
             s == IF t \in Members(GroupOf[p]) THEN <<t>> ELSE <<>>
  <2>1. Reach(p, s) BY <1>13 DEF LookupTarget
  <2>2. \A x \in Range(s) : GroupOf[x] = GroupOf[p] BY <1>0 DEF Members, Range
  <2> QED BY <1>11, <1>13, <2>1, <2>2 DEF LookupTarget, mainVars
<1>14. ASSUME NEW p \in Peer, SendFan(p) PROVE IsolationInv'
  <2>1. /\ Head(fan[p]) \in Peer
        /\ Range(fan[p]) = Range(Tail(fan[p])) \cup {Head(fan[p])}
    BY <1>14, TailOfFan DEF SendFan, TypeOK, FanoutPending
  <2>2. GroupOf[Head(fan[p])] = GroupOf[p] BY <2>1 DEF GroupBound
  <2>3. request[p].type = "Update" => request[p].ver \in 0..MaxVersion
    BY DEF TypeOK, Request
  <2>4. PICK m \in Message : Send(Head(fan[p]), m) /\ About(m) = {p}
    BY <1>0, <1>14, <2>3, MessageTypes, AboutMessages DEF SendFan
  <2>5. GroupIsolation' BY <2>1, <2>2, <2>4, SendWithinGroup
  <2>6. GroupBound'
    BY <1>14, <2>1 DEF SendFan, Reach, GroupBound, TypeOK, mainVars
  <2> QED BY <2>5, <2>6
<1>15. ASSUME NEW p \in Peer, SendError(p) PROVE IsolationInv'
  <2>1. GroupIsolation'
    BY <1>0, <1>15, MessageTypes, AboutMessages, SendWithinGroup DEF SendError
  <2> QED BY <1>15, <2>1 DEF SendError, GroupBound, mainVars
<1>16. ASSUME NEW p \in Peer, EndRecvTask(p) PROVE IsolationInv'
  BY <1>0, <1>16 DEF EndRecvTask, GroupIsolation, GroupBound, TypeOK, mainVars
<1>17. ASSUME NEW p \in Peer, ClientLeaves(p) PROVE IsolationInv'
  BY <1>17 DEF ClientLeaves, GroupIsolation, GroupBound, mainVars, recvVars
<1>18. ASSUME ResetCounts \/ UNCHANGED vars PROVE IsolationInv'
  BY <1>18 DEF ResetCounts, vars, GroupIsolation, GroupBound, mainVars, recvVars
<1> QED
  BY <1>1, <1>2, <1>3, <1>4, <1>5, <1>6, <1>7, <1>8, <1>9, <1>10, <1>12, <1>13, <1>14,
     <1>15, <1>16, <1>17, <1>18 DEF Next, MainTask, SendTask, RecvTask

\* Whatever targets the clients name, a connection hears only of its own IP group.
THEOREM GroupsAreIsolated == Spec => []GroupIsolation
<1>1. Init => IsolationInv BY IsolationInit
<1>2. TypeInv /\ IsolationInv /\ [Next]_vars => IsolationInv' BY IsolationStep
<1>3. IsolationInv => GroupIsolation BY DEF IsolationInv
<1> QED BY <1>1, <1>2, <1>3, TypeInvariant, PTL DEF Spec

-----------------------------------------------------------------------------
(* Mutual introduction.                                                     *)

LEMMA SeenContent ==
  ASSUME NEW s \in SUBSET ClientInfo, NEW h \in SUBSET ClientInfo, NEW p \in Peer,
         NEW v \in 0..MaxVersion
  PROVE  /\ Seen(s, Hello(h)) = s \cup h
         /\ Seen(s, Join(p)) = s \cup {[id |-> p, ver |-> 0]}
         /\ Seen(s, Update(p, v)) =
              {IF i.id = p THEN [id |-> p, ver |-> v] ELSE i : i \in s}
         /\ Seen(s, Left(p)) = {i \in s : i.id # p}
         /\ Seen(s, Sdp(p)) = s /\ Seen(s, Error) = s
  BY DEF Seen, Hello, Join, Update, Left, Sdp, Error

LEMMA SeenIds ==
  ASSUME NEW s \in SUBSET ClientInfo, NEW h \in SUBSET ClientInfo, NEW p \in Peer,
         NEW v \in 0..MaxVersion
  PROVE  /\ Ids(Seen(s, Hello(h))) = Ids(s) \cup Ids(h)
         /\ Ids(Seen(s, Join(p))) = Ids(s) \cup {p}
         /\ Ids(Seen(s, Update(p, v))) = Ids(s)
         /\ Ids(Seen(s, Left(p))) = Ids(s) \ {p}
<1>0. ASSUME NEW S, NEW T PROVE Ids(S \cup T) = Ids(S) \cup Ids(T)
  BY DEF Ids
<1>1. Ids(Seen(s, Hello(h))) = Ids(s) \cup Ids(h)
  <2>1. Seen(s, Hello(h)) = s \cup h BY SeenContent
  <2> QED BY <2>1, <1>0
<1>2. Ids(Seen(s, Join(p))) = Ids(s) \cup {p}
  <2>1. Seen(s, Join(p)) = s \cup {[id |-> p, ver |-> 0]} BY SeenContent
  <2>2. Ids({[id |-> p, ver |-> 0]}) = {p} BY DEF Ids
  <2> QED BY <2>1, <2>2, <1>0
<1>3. Ids(Seen(s, Update(p, v))) = Ids(s)
  <2>0. Seen(s, Update(p, v)) = {IF i.id = p THEN [id |-> p, ver |-> v] ELSE i : i \in s}
    BY DEF Seen, Update
  <2>1. ASSUME NEW x \in Ids(Seen(s, Update(p, v))) PROVE x \in Ids(s)
    <3>1. PICK k \in Seen(s, Update(p, v)) : x = k.id BY <2>1 DEF Ids
    <3>2. PICK i \in s : k = IF i.id = p THEN [id |-> p, ver |-> v] ELSE i
      BY <2>0, <3>1
    <3>3. x = i.id BY <3>1, <3>2
    <3> QED BY <3>3 DEF Ids
  <2>2. ASSUME NEW i \in s PROVE i.id \in Ids(Seen(s, Update(p, v)))
    <3> DEFINE k == IF i.id = p THEN [id |-> p, ver |-> v] ELSE i
    <3>1. k \in Seen(s, Update(p, v)) /\ k.id = i.id BY <2>0
    <3> QED BY <3>1 DEF Ids
  <2> QED BY <2>1, <2>2 DEF Ids
<1>4. Ids(Seen(s, Left(p))) = Ids(s) \ {p} BY SeenContent DEF Ids
<1> QED BY <1>1, <1>2, <1>3, <1>4

\* The tasks of a connection are spawned after its Hello, which takes the snapshot.
Phases ==
  \A p \in Peer :
    /\ main[p] \in {"new", "joining"} => ~send_task[p] /\ recv_task[p] = "off"
    /\ main[p] # "joining" => peers[p] = {}
    /\ main[p] = "new" => told[p] = {}

\* Of two connections of a group each is on its way to the other: already shown, in
\* the snapshot of a Hello to come, or on the list of a Join still to be sent.
Accounted ==
  \A p, t \in registered :
    (p # t /\ GroupOf[p] = GroupOf[t] /\ RxOpen(t)) =>
      \/ p \in Ids(told[t]) \cup Ids(peers[t])
      \/ main[p] = "joining" /\ t \in Range(todo[p])

IntroInv == Membership /\ Phases /\ Accounted

LEMMA IntroInit == Init => IntroInv
  BY MembershipInit DEF Init, IntroInv, Phases, Accounted

\* A message that takes no registered peer away keeps what is accounted for.
LEMMA SendKeepsAccount ==
  ASSUME TypeInv, Accounted, UNCHANGED <<registered, main, send_task, peers>>,
         NEW r \in Peer, NEW m, Send(r, m),
         Ids(told[r]) \cap registered \subseteq Ids(Seen(told[r], m)),
         \A p, t \in registered : (main[p] = "joining" /\ t \in Range(todo[p])) =>
           (t \in Range(todo'[p]) \/ (RxOpen(t) => p \in Ids(told'[t])))
  PROVE  Accounted'
<1>1. \A t \in Peer : Ids(told[t]) \cap registered \subseteq Ids(told'[t])
  BY DEF Send, TypeInv, TypeOK
<1>2. registered \subseteq Peer BY DEF TypeInv, TypeOK
<1> QED BY <1>1, <1>2 DEF Accounted, RxOpen

LEMMA IntroStep == TypeInv /\ IntroInv /\ [Next]_vars => IntroInv'
<1> SUFFICES ASSUME TypeInv, IntroInv, [Next]_vars PROVE Phases' /\ Accounted'
  BY MembershipStep DEF IntroInv
<1> USE DEF TypeInv, IntroInv
<1>0. 0 \in 0..MaxVersion /\ registered \subseteq Peer BY ServerAssumption DEF TypeOK
<1>1. ASSUME NEW n \in Peer, Accept(n) PROVE Phases' /\ Accounted'
  <2>1. PICK s \in Orders(Members(GroupOf[n])) : todo' = [todo EXCEPT ![n] = s]
    BY <1>1 DEF Accept
  <2>2. Range(s) = Members(GroupOf[n]) BY OrdersOfSet, MembersFinite
  <2>3. n \notin registered BY <1>1 DEF Accept, Membership
  <2>4. Phases' BY <1>1 DEF Accept, Phases, TypeOK, recvVars
  <2>5. ASSUME NEW p \in registered', NEW t \in registered', p # t,
               GroupOf[p] = GroupOf[t], RxOpen(t)'
        PROVE  \/ p \in Ids(told'[t]) \cup Ids(peers'[t])
               \/ main'[p] = "joining" /\ t \in Range(todo'[p])
    <3>1. CASE p = n
      BY <1>1, <2>1, <2>2, <2>5, <3>1 DEF Accept, Members, TypeOK
    <3>2. CASE t = n
      <4>1. p \in Members(GroupOf[n]) BY <1>1, <2>5, <3>2 DEF Accept, Members
      <4>2. [id |-> p, ver |-> info[p]] \in peers'[n] BY <1>1, <4>1 DEF Accept, TypeOK
      <4> QED BY <3>2, <4>2 DEF Ids
    <3>3. CASE p # n /\ t # n
      BY <1>1, <2>1, <2>5, <3>3, <1>0 DEF Accept, Accounted, RxOpen, TypeOK
    <3> QED BY <3>1, <3>2, <3>3
  <2>6. Accounted' BY <2>5 DEF Accounted
  <2> QED BY <2>4, <2>6
<1>2. ASSUME NEW p \in Peer, Refuse(p) PROVE Phases' /\ Accounted'
  <2>1. p \notin registered BY <1>2 DEF Refuse, Membership
  <2>2. Phases' BY <1>2 DEF Refuse, Phases, TypeOK, recvVars
  <2>3. Accounted' BY <1>2, <2>1, <1>0 DEF Refuse, Accounted, RxOpen, TypeOK
  <2> QED BY <2>2, <2>3
<1>3. ASSUME NEW p \in Peer, SendJoin(p) PROVE Phases' /\ Accounted'
  <2> DEFINE r == Head(todo[p])
  <2>1. r \in Peer /\ Range(todo[p]) = Range(Tail(todo[p])) \cup {r}
    BY <1>3, TailOfFan DEF SendJoin, TypeOK
  <2>2. Ids(Seen(told[r], Join(p))) = Ids(told[r]) \cup {p}
    BY <1>0, <2>1, SeenIds DEF TypeOK
  <2>3. RxOpen(r) => p \in Ids(told'[r])
    BY <1>3, <2>1, <2>2 DEF SendJoin, Send, TypeOK
  <2>4. main[r] = "new" => ~RxOpen(r) BY <2>1 DEF Phases, RxOpen
  <2>5. Phases' BY <1>3, <2>1, <2>4 DEF SendJoin, Send, Phases, TypeOK, recvVars
  <2>6. \A q, t \in registered : (main[q] = "joining" /\ t \in Range(todo[q])) =>
          (t \in Range(todo'[q]) \/ (RxOpen(t) => q \in Ids(told'[t])))
    BY <1>3, <1>0, <2>1, <2>3 DEF SendJoin, TypeOK
  <2>7. UNCHANGED <<registered, main, send_task, peers>> /\ Send(r, Join(p))
    BY <1>3 DEF SendJoin, mapVars
  <2>8. Accounted' BY <2>1, <2>2, <2>6, <2>7, SendKeepsAccount
  <2> QED BY <2>5, <2>8
<1>4. ASSUME NEW n \in Peer, SendHello(n) PROVE Phases' /\ Accounted'
  <2>1. told' = [told EXCEPT ![n] = Seen(@, Hello(peers[n]))]
    BY <1>4 DEF SendHello, Send, RxOpen
  <2>2. Ids(Seen(told[n], Hello(peers[n]))) = Ids(told[n]) \cup Ids(peers[n])
    BY <1>0, SeenIds DEF TypeOK
  <2>3. Phases' BY <1>4, <2>1 DEF SendHello, Phases, TypeOK
  <2>4. ASSUME NEW p \in registered', NEW t \in registered', p # t,
               GroupOf[p] = GroupOf[t], RxOpen(t)'
        PROVE  \/ p \in Ids(told'[t]) \cup Ids(peers'[t])
               \/ main'[p] = "joining" /\ t \in Range(todo'[p])
    <3>1. p \in registered /\ t \in registered /\ RxOpen(t)
      BY <1>4, <2>4, <1>0 DEF SendHello, mapVars, RxOpen, TypeOK
    <3>2. \/ p \in Ids(told[t]) \cup Ids(peers[t])
          \/ main[p] = "joining" /\ t \in Range(todo[p])
      BY <2>4, <3>1 DEF Accounted
    <3>3. p \in Ids(told[t]) \cup Ids(peers[t]) => p \in Ids(told'[t]) \cup Ids(peers'[t])
      BY <1>4, <2>1, <2>2, <3>1, <1>0 DEF SendHello, TypeOK
    <3>4. (main[p] = "joining" /\ t \in Range(todo[p]))
            => (main'[p] = "joining" /\ t \in Range(todo'[p]))
      <4>1. Range(<<>>) = {} BY DEF Range
      <4> QED BY <1>4, <4>1, <3>1, <1>0 DEF SendHello, TypeOK
    <3> QED BY <3>2, <3>3, <3>4
  <2>5. Accounted' BY <2>4 DEF Accounted
  <2> QED BY <2>3, <2>5
<1>5. ASSUME NEW p \in Peer, Select(p) PROVE Phases' /\ Accounted'
  <2>1. Phases' BY <1>5 DEF Select, Phases, TypeOK, recvVars
  <2>2. Accounted' BY <1>5, <1>0 DEF Select, Accounted, RxOpen, TypeOK, mapVars
  <2> QED BY <2>1, <2>2
<1>6. ASSUME NEW n \in Peer, Unregister(n) PROVE Phases' /\ Accounted'
  <2>1. PICK s \in Orders(Members(GroupOf[n]) \ {n}) : Farewell(n, s)
    BY <1>6 DEF Unregister
  <2>2. Phases' BY <1>6, <2>1 DEF Unregister, Farewell, Phases, TypeOK, recvVars
  <2>3. Accounted'
    BY <1>6, <2>1, <1>0 DEF Unregister, Farewell, Accounted, RxOpen, TypeOK
  <2> QED BY <2>2, <2>3
<1>7. ASSUME NEW p \in Peer, SendLeft(p) PROVE Phases' /\ Accounted'
  <2> DEFINE r == Head(todo[p])
  <2>1. r \in Peer /\ p \notin registered
    BY <1>7, TailOfFan DEF SendLeft, TypeOK, FanoutPending, Membership
  <2>2. Ids(Seen(told[r], Left(p))) = Ids(told[r]) \ {p}
    BY <1>0, <2>1, SeenIds DEF TypeOK
  <2>3. main[r] = "new" => ~RxOpen(r) BY <2>1 DEF Phases, RxOpen
  <2>4. Phases'
    BY <1>7, <2>1, <2>3 DEF SendLeft, Farewell, Send, Phases, TypeOK, recvVars
  <2>5. \A t \in Peer : Ids(told[t]) \cap registered \subseteq Ids(told'[t])
    BY <1>7, <2>1, <2>2 DEF SendLeft, Send, TypeOK
  <2>6. Accounted'
    BY <1>7, <1>0, <2>1, <2>5 DEF SendLeft, Farewell, Accounted, RxOpen, TypeOK, mapVars
  <2> QED BY <2>4, <2>6
<1>8. ASSUME NEW p \in Peer, WriteSocket(p) PROVE Phases' /\ Accounted'
  BY <1>8 DEF WriteSocket, Phases, Accounted, RxOpen, mapVars, mainVars, recvVars
<1>9. ASSUME NEW p \in Peer, EndSendTask(p) PROVE Phases' /\ Accounted'
  <2>1. Phases' BY <1>9 DEF EndSendTask, Phases, TypeOK, mainVars, recvVars
  <2>2. main[p] # "joining" BY <1>9 DEF EndSendTask, Phases
  <2>3. Accounted'
    BY <1>9, <2>2, <1>0 DEF EndSendTask, Accounted, RxOpen, TypeOK, mapVars, mainVars
  <2> QED BY <2>1, <2>3
<1>10. ASSUME NEW p \in Peer, recv_task[p] # "off", UNCHANGED <<mainVars, send_task, told>>,
              registered' = registered, \A q \in Peer \ {p} : recv_task'[q] = recv_task[q]
       PROVE  Phases' /\ Accounted'
  BY <1>10 DEF Phases, Accounted, RxOpen, mainVars
<1>11. ASSUME NEW p \in Peer, ReadRequest(p) PROVE Phases' /\ Accounted'
  BY <1>10, <1>11 DEF ReadRequest, TypeOK
<1>12. ASSUME NEW p \in Peer, LookupUpdate(p) PROVE Phases' /\ Accounted'
  BY <1>10, <1>12 DEF LookupUpdate, Reach, TypeOK
<1>13. ASSUME NEW p \in Peer, LookupTarget(p) PROVE Phases' /\ Accounted'
  BY <1>10, <1>13 DEF LookupTarget, Reach, TypeOK, mapVars
<1>14. ASSUME NEW p \in Peer, NEW r \in Peer, NEW m, Send(r, m), recv_task[p] # "off",
              Ids(Seen(told[r], m)) = Ids(told[r]), UNCHANGED <<registered, mainVars, send_task>>,
              \A q \in Peer \ {p} : recv_task'[q] = recv_task[q]
       PROVE  Phases' /\ Accounted'
  <2>1. main[r] = "new" => ~RxOpen(r) BY <1>14 DEF Phases, RxOpen
  <2>2. Phases' BY <1>14, <2>1 DEF Phases, Send, TypeOK, mainVars
  <2>3. Accounted' BY <1>14, SendKeepsAccount DEF mainVars
  <2> QED BY <2>2, <2>3
<1>15. ASSUME NEW p \in Peer, SendFan(p) PROVE Phases' /\ Accounted'
  <2> DEFINE r == Head(fan[p])
  <2>1. r \in Peer BY <1>15, TailOfFan DEF SendFan, TypeOK, FanoutPending
  <2>2. request[p].type = "Update" => request[p].ver \in 0..MaxVersion
    BY DEF TypeOK, Request
  <2>3. PICK m : Send(r, m) /\ Ids(Seen(told[r], m)) = Ids(told[r])
    <3>1. CASE request[p].type = "Update"
      <4>1. Send(r, Update(p, request[p].ver)) BY <1>15, <3>1 DEF SendFan
      <4>2. told[r] \in SUBSET ClientInfo BY <2>1 DEF TypeOK
      <4> QED BY <2>2, <3>1, <4>1, <4>2, SeenIds
    <3>2. CASE request[p].type # "Update"
      <4>1. Send(r, Sdp(p)) BY <1>15, <3>2 DEF SendFan
      <4> QED BY <4>1 DEF Seen, Sdp
    <3> QED BY <3>1, <3>2
  <2> QED BY <1>14, <1>15, <2>1, <2>3 DEF SendFan, Reach, TypeOK, mapVars
<1>16. ASSUME NEW p \in Peer, SendError(p) PROVE Phases' /\ Accounted'
  <2>1. Seen(told[p], Error) = told[p] BY DEF Seen, Error
  <2> QED BY <1>14, <1>16, <2>1 DEF SendError, TypeOK, mapVars
<1>17. ASSUME NEW p \in Peer, EndRecvTask(p) PROVE Phases' /\ Accounted'
  BY <1>10, <1>17 DEF EndRecvTask, TypeOK, mapVars
<1>18. ASSUME NEW p \in Peer, ClientLeaves(p) PROVE Phases' /\ Accounted'
  BY <1>18 DEF ClientLeaves, Phases, Accounted, RxOpen, mapVars, mainVars, recvVars
<1>19. ASSUME ResetCounts \/ UNCHANGED vars PROVE Phases' /\ Accounted'
  BY <1>19 DEF ResetCounts, vars, Phases, Accounted, RxOpen, mapVars, mainVars, recvVars
<1> QED
  BY <1>1, <1>2, <1>3, <1>4, <1>5, <1>6, <1>7, <1>8, <1>9, <1>11, <1>12, <1>13,
     <1>15, <1>16, <1>17, <1>18, <1>19 DEF Next, MainTask, SendTask, RecvTask

LEMMA IntroInvariant == Spec => []IntroInv
<1>1. Init => IntroInv BY IntroInit
<1>2. TypeInv /\ IntroInv /\ [Next]_vars => IntroInv' BY IntroStep
<1> QED BY <1>1, <1>2, TypeInvariant, PTL DEF Spec

\* Two connections of a group that are both past their Hello have been shown to each
\* other, for any number of connections arriving and leaving in any order.
THEOREM MutualIntroduction == Spec => []Introduced
<1>1. TypeInv /\ IntroInv => Introduced
  <2> SUFFICES ASSUME TypeInv, IntroInv, NEW p \in registered, NEW t \in registered,
                      p # t, GroupOf[p] = GroupOf[t], main[p] # "joining", send_task[t]
               PROVE  p \in Ids(told[t])
    BY DEF Introduced
  <2>1. t \in Peer BY DEF TypeInv, TypeOK
  <2>2. peers[t] = {} BY <2>1 DEF IntroInv, Phases
  <2> QED BY <2>2 DEF IntroInv, Accounted, RxOpen, Ids
<1> QED BY <1>1, TypeInvariant, IntroInvariant, PTL

-----------------------------------------------------------------------------
(* Updates are news.  The versions shown never exceed the version in the    *)
(* map, and a receiver appears once on a list, so that it leaves the list   *)
(* when it has been sent the version.                                       *)

\* What a connection has been shown or will be by its Hello.
AllShown(t) == told[t] \cup peers[t]

ShownBound ==
  \A t \in Peer : \A i \in AllShown(t) :
    /\ main[i.id] # "new"
    /\ i.id \in registered => i.ver <= info[i.id]

RequestBound ==
  \A p \in registered : request[p].type = "Update" =>
    /\ recv_task[p] = "lookup" => info[p] < request[p].ver
    /\ recv_task[p] = "fanout" => request[p].ver <= info[p]

FanOnce ==
  \A p \in Peer :
    /\ \A i, j \in DOMAIN fan[p] : fan[p][i] = fan[p][j] => i = j
    /\ \A t \in Range(fan[p]) : main[t] # "new"

NewsInv == IntroInv /\ ShownBound /\ RequestBound /\ FanOnce /\ UpdateIsNews

LEMMA NewsInit == Init => NewsInv
<1> SUFFICES ASSUME Init PROVE NewsInv OBVIOUS
<1>1. \A p \in Peer : fan[p] = <<>> /\ DOMAIN <<>> = {} /\ Range(<<>>) = {}
  BY DEF Init, Range
<1> QED
  BY <1>1, IntroInit DEF Init, NewsInv, ShownBound, AllShown, RequestBound, FanOnce, UpdateIsNews

\* The first receiver of a fan-out is not on what is left of it.
LEMMA HeadOnce ==
  ASSUME NEW s \in Seq(Peer), s # <<>>, \A i, j \in DOMAIN s : s[i] = s[j] => i = j
  PROVE  /\ Head(s) \notin Range(Tail(s))
         /\ \A i, j \in DOMAIN Tail(s) : Tail(s)[i] = Tail(s)[j] => i = j
<1>1. /\ Tail(s) \in Seq(Peer) /\ Len(Tail(s)) = Len(s) - 1
      /\ \A i \in 1..Len(Tail(s)) : Tail(s)[i] = s[i+1]
  BY HeadTailProperties
<1>2. Head(s) = s[1] /\ Len(s) \in Nat \ {0} BY EmptySeq
<1>3. DOMAIN s = 1..Len(s) /\ DOMAIN Tail(s) = 1..Len(Tail(s)) BY <1>1
<1>4. \A i \in DOMAIN Tail(s) : i + 1 \in DOMAIN s /\ i + 1 # 1 /\ i \in Nat
  BY <1>1, <1>2, <1>3
<1>5. ASSUME Head(s) \in Range(Tail(s)) PROVE FALSE
  <2>1. PICK i \in DOMAIN Tail(s) : Tail(s)[i] = Head(s) BY <1>5 DEF Range
  <2>2. s[i+1] = s[1] /\ 1 \in DOMAIN s BY <1>1, <1>2, <1>3, <2>1
  <2> QED BY <2>2, <1>4
<1>6. ASSUME NEW i \in DOMAIN Tail(s), NEW j \in DOMAIN Tail(s), Tail(s)[i] = Tail(s)[j]
      PROVE  i = j
  <2>1. s[i+1] = s[j+1] BY <1>1, <1>3, <1>6
  <2>2. i + 1 = j + 1 BY <2>1, <1>4
  <2> QED BY <2>2, <1>4
<1> QED BY <1>5, <1>6

\* Everything a Send adds to what its receiver has been shown.
LEMMA SendShows ==
  ASSUME TypeOK, NEW r \in Peer, NEW m \in Message, Send(r, m),
         m.type \in {"Left", "Sdp", "Error"}
  PROVE  \A t \in Peer : told'[t] \subseteq told[t]
<1>1. Seen(told[r], m) \subseteq told[r] BY DEF Seen
<1> QED BY <1>1 DEF Send, TypeOK

NewsParts == ShownBound /\ RequestBound /\ FanOnce /\ UpdateIsNews

\* A step that shows nothing new and starts no request keeps all of it.
LEMMA NewsKept ==
  ASSUME TypeInv, NewsInv,
         registered' \subseteq registered, \A q \in registered' : info'[q] = info[q],
         \A q : main[q] # "new" => main'[q] # "new",
         \A t \in Peer : AllShown(t)' \subseteq AllShown(t),
         \A q \in Peer :
           /\ fan'[q] \in {fan[q], <<>>}
           /\ recv_task'[q] \in {"lookup", "fanout"} =>
                recv_task'[q] = recv_task[q] /\ request'[q] = request[q] /\ fan'[q] = fan[q]
  PROVE  NewsParts'
<1>0. registered \subseteq Peer /\ DOMAIN <<>> = {} /\ Range(<<>>) = {}
  BY DEF TypeInv, TypeOK, Range
<1>1. ShownBound' BY <1>0 DEF NewsInv, ShownBound
<1>2. RequestBound' BY <1>0 DEF NewsInv, RequestBound
<1>3. FanOnce' BY <1>0 DEF NewsInv, FanOnce
<1>4. UpdateIsNews'
  <2> SUFFICES ASSUME NEW p \in Peer, recv_task'[p] = "fanout", request'[p].type = "Update",
                      NEW t \in Range(fan'[p]), NEW i \in AllShown(t)', i.id = p
               PROVE  i.ver < request'[p].ver
    BY DEF UpdateIsNews, AllShown
  <2>1. recv_task[p] = "fanout" /\ request'[p] = request[p] /\ fan'[p] = fan[p] OBVIOUS
  <2>2. Range(fan[p]) \subseteq Peer BY DEF TypeInv, TypeOK, Range
  <2>3. i \in AllShown(t) BY <2>1, <2>2
  <2> QED BY <2>1, <2>3 DEF NewsInv, UpdateIsNews, AllShown
<1> QED BY <1>1, <1>2, <1>3, <1>4 DEF NewsParts

LEMMA NewsStep == TypeInv /\ NewsInv /\ [Next]_vars => NewsInv'
<1> SUFFICES ASSUME TypeInv, NewsInv, [Next]_vars PROVE NewsParts'
  BY IntroStep DEF NewsInv, NewsParts
<1> USE DEF TypeInv
<1>0. /\ 0 \in 0..MaxVersion /\ registered \subseteq Peer
      /\ \A p \in Peer : Range(fan[p]) \subseteq Peer
      /\ Membership /\ Phases
      /\ DOMAIN <<>> = {} /\ Range(<<>>) = {}
  BY ServerAssumption DEF TypeOK, NewsInv, IntroInv, Range
<1>1. ASSUME NEW n \in Peer, Accept(n) PROVE NewsParts'
  <2>1. n \notin registered /\ main[n] = "new" /\ told[n] = {} BY <1>0, <1>1 DEF Accept, Membership, Phases
  <2>2. /\ peers' = [peers EXCEPT ![n] = {[id |-> q, ver |-> info[q]] : q \in Members(GroupOf[n])}]
        /\ registered' = registered \cup {n} /\ main' = [main EXCEPT ![n] = "joining"]
        /\ UNCHANGED <<info, recv_task, request, fan, told>>
    BY <1>1 DEF Accept, recvVars
  <2>3. ShownBound'
    <3> SUFFICES ASSUME NEW t \in Peer, NEW i \in AllShown(t)'
                 PROVE  main'[i.id] # "new" /\ (i.id \in registered' => i.ver <= info'[i.id])
      BY DEF ShownBound
    <3>1. CASE i \in AllShown(t)
      <4>1. main[i.id] # "new" /\ (i.id \in registered => i.ver <= info[i.id])
        BY <3>1 DEF NewsInv, ShownBound
      <4> QED BY <2>1, <2>2, <4>1 DEF TypeOK
    <3>2. CASE i \notin AllShown(t)
      <4>1. t = n /\ i \in peers'[n] BY <2>2, <3>2 DEF AllShown, TypeOK
      <4>2. PICK q \in Members(GroupOf[n]) : i = [id |-> q, ver |-> info[q]]
        BY <2>2, <4>1 DEF TypeOK
      <4>3. q \in registered /\ q \in Peer /\ info[q] \in Nat BY <1>0, <4>2 DEF Members, TypeOK
      <4>4. main[q] # "new" BY <1>0, <4>3 DEF Membership
      <4> QED BY <2>1, <2>2, <4>2, <4>3, <4>4 DEF TypeOK
    <3> QED BY <3>1, <3>2
  <2>4. RequestBound'
    BY <1>0, <2>1, <2>2 DEF NewsInv, RequestBound, Phases
  <2>5. FanOnce' BY <1>0, <2>2 DEF NewsInv, FanOnce, TypeOK
  <2>6. UpdateIsNews'
    <3>1. \A p \in Peer : n \notin Range(fan[p]) BY <2>1 DEF NewsInv, FanOnce
    <3>2. \A t \in Peer \ {n} : told'[t] = told[t] /\ peers'[t] = peers[t] BY <2>2 DEF TypeOK
    <3> QED BY <1>0, <2>2, <3>1, <3>2 DEF NewsInv, UpdateIsNews
  <2> QED BY <2>3, <2>4, <2>5, <2>6 DEF NewsParts
<1>2. ASSUME NEW p \in Peer, Refuse(p) PROVE NewsParts'
  BY <1>2, NewsKept DEF Refuse, AllShown, TypeOK, recvVars
<1>3. ASSUME NEW p \in Peer, SendJoin(p) PROVE NewsParts'
  <2> DEFINE r == Head(todo[p])
             j == [id |-> p, ver |-> 0]
  <2>1. r \in Peer /\ main[p] = "joining" BY <1>3, TailOfFan DEF SendJoin, TypeOK
  <2>2. Seen(told[r], Join(p)) = told[r] \cup {j} BY DEF Seen, Join
  <2>3. /\ \A t \in Peer : AllShown(t)' \subseteq AllShown(t) \cup {j}
        /\ UNCHANGED <<registered, info, main, recv_task, request, fan>>
    BY <1>3, <2>1, <2>2 DEF SendJoin, Send, AllShown, TypeOK, mapVars, recvVars
  <2>4. info[p] \in Nat /\ recv_task[p] = "off" BY <1>0, <2>1 DEF TypeOK, Phases
  <2>5. ShownBound' BY <2>1, <2>3, <2>4 DEF NewsInv, ShownBound
  <2>6. RequestBound' BY <2>3 DEF NewsInv, RequestBound
  <2>7. FanOnce' BY <2>3 DEF NewsInv, FanOnce
  <2>8. UpdateIsNews'
    <3> SUFFICES ASSUME NEW q \in Peer, recv_task[q] = "fanout", request[q].type = "Update",
                        NEW t \in Range(fan[q]), NEW i \in AllShown(t)', i.id = q
                 PROVE  i.ver < request[q].ver
      BY <2>3 DEF UpdateIsNews, AllShown
    <3>1. t \in Peer /\ q # p BY <1>0, <2>4
    <3>2. i \in AllShown(t) BY <2>3, <3>1
    <3> QED BY <3>2 DEF NewsInv, UpdateIsNews, AllShown
  <2> QED BY <2>5, <2>6, <2>7, <2>8 DEF NewsParts
<1>4. ASSUME NEW p \in Peer, SendHello(p) PROVE NewsParts'
  <2>1. Seen(told[p], Hello(peers[p])) = told[p] \cup peers[p] BY DEF Seen, Hello
  <2>2. \A t \in Peer : AllShown(t)' = AllShown(t)
    BY <1>4, <2>1 DEF SendHello, Send, RxOpen, AllShown, TypeOK
  <2> QED BY <1>4, <2>2, NewsKept DEF SendHello, TypeOK, mapVars
<1>5. ASSUME NEW p \in Peer, Select(p) PROVE NewsParts'
  BY <1>5, NewsKept DEF Select, AllShown, TypeOK, mapVars, recvVars
<1>6. ASSUME NEW p \in Peer, Unregister(p) PROVE NewsParts'
  <2>1. PICK s \in Orders(Members(GroupOf[p]) \ {p}) : Farewell(p, s)
    BY <1>6 DEF Unregister
  <2> QED BY <1>0, <1>6, <2>1, NewsKept DEF Unregister, Farewell, AllShown, TypeOK, recvVars
<1>7. ASSUME NEW p \in Peer, SendLeft(p) PROVE NewsParts'
  <2>1. Head(todo[p]) \in Peer BY <1>7, TailOfFan DEF SendLeft, TypeOK, FanoutPending
  <2>2. Left(p) \in Message /\ Left(p).type = "Left" BY DEF Left, Message
  <2>3. \A t \in Peer : told'[t] \subseteq told[t] BY <1>7, <2>1, <2>2, SendShows DEF SendLeft
  <2>4. /\ UNCHANGED <<registered, info, peers, recv_task, request, fan>>
        /\ main' = [main EXCEPT ![p] = IF Tail(todo[p]) = <<>> THEN "closed" ELSE "goodbye"]
    BY <1>7 DEF SendLeft, Farewell, mapVars, recvVars
  <2>5. \A q : main[q] # "new" => main'[q] # "new" BY <2>4 DEF TypeOK
  <2>6. \A t \in Peer : AllShown(t)' \subseteq AllShown(t) BY <2>3, <2>4 DEF AllShown
  <2> QED BY <2>4, <2>5, <2>6, NewsKept
<1>8. ASSUME NEW p \in Peer, WriteSocket(p) PROVE NewsParts'
  BY <1>8, NewsKept DEF WriteSocket, AllShown, mapVars, mainVars, recvVars
<1>9. ASSUME NEW p \in Peer, EndSendTask(p) PROVE NewsParts'
  BY <1>9, NewsKept DEF EndSendTask, AllShown, TypeOK, mapVars, mainVars, recvVars
<1>10. ASSUME NEW p \in Peer, ReadRequest(p) PROVE NewsParts'
  <2>1. UNCHANGED <<registered, info, main, peers, told, fan>>
    BY <1>10 DEF ReadRequest, mainVars
  <2>2. CASE recv_task' = [recv_task EXCEPT ![p] = "limited"] /\ request' = request
    BY <2>1, <2>2, NewsKept DEF AllShown, TypeOK
  <2>3. ASSUME NEW r \in Requests(p), recv_task' = [recv_task EXCEPT ![p] = "lookup"],
               request' = [request EXCEPT ![p] = r]
        PROVE  NewsParts'
    <3>1. r.type = "Update" => info[p] < r.ver
      <4>1. info[p] \in Nat BY ServerAssumption DEF TypeOK
      <4>2. CASE r \in {[type |-> "Update", ver |-> v] : v \in {info[p] + 1} \cap 0..MaxVersion}
        BY <4>1, <4>2
      <4>3. CASE r \in {[type |-> "Sdp", target |-> q[2]] : q \in {d \in SdpPairs : d[1] = p}}
        BY <4>3
      <4> QED BY <4>2, <4>3 DEF Requests
    <3>2. ShownBound' BY <2>1 DEF NewsInv, ShownBound, AllShown
    <3>3. RequestBound' BY <1>0, <2>1, <2>3, <3>1 DEF NewsInv, RequestBound, TypeOK
    <3>4. FanOnce' BY <2>1 DEF NewsInv, FanOnce
    <3>5. UpdateIsNews' BY <2>1, <2>3 DEF NewsInv, UpdateIsNews, TypeOK
    <3> QED BY <3>2, <3>3, <3>4, <3>5 DEF NewsParts
  <2> QED BY <1>10, <2>2, <2>3 DEF ReadRequest
<1>11. ASSUME NEW p \in Peer, LookupUpdate(p) PROVE NewsParts'
  <2>1. UNCHANGED <<registered, main, peers, told>> BY <1>11 DEF LookupUpdate, mainVars
  <2>2. CASE p \notin registered
    BY <1>11, <2>1, <2>2, NewsKept DEF LookupUpdate, Reach, AllShown, TypeOK
  <2>3. CASE p \in registered
    <3>1. PICK s \in Orders(Members(GroupOf[p]) \ {p}) : Reach(p, s)
      BY <1>11, <2>3 DEF LookupUpdate
    <3>2. /\ Range(s) = Members(GroupOf[p]) \ {p}
          /\ \A i, j \in DOMAIN s : s[i] = s[j] => i = j
      BY OrdersOfSet, MembersFinite
    <3>3. info' = [info EXCEPT ![p] = request[p].ver] /\ info[p] < request[p].ver
      BY <1>11, <2>3 DEF LookupUpdate, NewsInv, RequestBound
    <3>4. info[p] \in Nat /\ request[p].ver \in Nat /\ request[p].type = "Update"
      <4>1. request[p].type = "Update" BY <1>11 DEF LookupUpdate
      <4>2. request[p] \in Request /\ info[p] \in 0..MaxVersion BY DEF TypeOK
      <4>3. request[p] \in [type : {"Update"}, ver : 0..MaxVersion] BY <4>1, <4>2 DEF Request
      <4> QED BY <4>1, <4>2, <4>3, ServerAssumption
    <3>5. ShownBound'
      <4> SUFFICES ASSUME NEW t \in Peer, NEW i \in AllShown(t), i.id \in registered
                   PROVE  i.ver <= info'[i.id]
        BY <2>1 DEF NewsInv, ShownBound, AllShown
      <4>1. i.ver <= info[i.id] BY DEF NewsInv, ShownBound
      <4>2. i.ver \in Nat BY DEF AllShown, TypeOK, ClientInfo
      <4> QED BY <3>3, <3>4, <4>1, <4>2, <1>0 DEF TypeOK
    <3>6. RequestBound'
      <4> SUFFICES ASSUME NEW q \in registered, request'[q].type = "Update"
                   PROVE  /\ recv_task'[q] = "lookup" => info'[q] < request'[q].ver
                          /\ recv_task'[q] = "fanout" => request'[q].ver <= info'[q]
        BY <2>1 DEF RequestBound
      <4>1. CASE q = p BY <1>0, <3>1, <3>3, <3>4, <4>1 DEF Reach, TypeOK, NoRequest
      <4>2. CASE q # p BY <1>0, <3>1, <3>3, <4>2 DEF Reach, TypeOK, NewsInv, RequestBound
      <4> QED BY <4>1, <4>2
    <3>7. FanOnce'
      <4>1. \A t \in Range(s) : main[t] # "new" BY <1>0, <3>2 DEF Members, Membership
      <4> QED BY <2>1, <3>1, <3>2, <4>1 DEF Reach, TypeOK, NewsInv, FanOnce
    <3>8. UpdateIsNews'
      <4> SUFFICES ASSUME NEW q \in Peer, recv_task'[q] = "fanout", request'[q].type = "Update",
                          NEW t \in Range(fan'[q]), NEW i \in AllShown(t), i.id = q
                   PROVE  i.ver < request'[q].ver
        BY <2>1 DEF UpdateIsNews, AllShown
      <4>1. CASE q = p
        <5>1. t \in Peer /\ request'[p] = request[p]
          BY <1>0, <3>1, <3>2, <4>1 DEF Reach, TypeOK, Members
        <5>2. i.ver <= info[p] /\ i.ver \in Nat
          BY <2>3, <4>1, <5>1 DEF NewsInv, ShownBound, AllShown, TypeOK, ClientInfo
        <5> QED BY <3>3, <3>4, <4>1, <5>1, <5>2
      <4>2. CASE q # p
        BY <3>1, <4>2 DEF Reach, TypeOK, NewsInv, UpdateIsNews, AllShown
      <4> QED BY <4>1, <4>2
    <3> QED BY <3>5, <3>6, <3>7, <3>8 DEF NewsParts
  <2> QED BY <2>2, <2>3
<1>12. ASSUME NEW p \in Peer, LookupTarget(p) PROVE NewsParts'
  <2> DEFINE t == request[p].target
             s == IF t \in Members(GroupOf[p]) THEN <<t>> ELSE <<>>
  <2>1. Reach(p, s) /\ request[p].type = "Sdp" BY <1>12 DEF LookupTarget
  <2>2. UNCHANGED <<registered, info, main, peers, told>>
    BY <1>12 DEF LookupTarget, mapVars, mainVars
  <2>3. /\ \A i, j \in DOMAIN s : s[i] = s[j] => i = j
        /\ \A x \in Range(s) : main[x] # "new"
    BY <1>0 DEF Members, Membership, Range
  <2>4. ShownBound' BY <2>2 DEF NewsInv, ShownBound, AllShown
  <2>5. RequestBound' BY <1>0, <2>1, <2>2 DEF Reach, TypeOK, NewsInv, RequestBound, NoRequest
  <2>6. FanOnce'
    <3>1. fan' = [fan EXCEPT ![p] = s] BY <2>1 DEF Reach
    <3> HIDE DEF s
    <3> QED BY <2>2, <2>3, <3>1 DEF TypeOK, NewsInv, FanOnce
  <2>7. UpdateIsNews'
    <3>1. recv_task'[p] = "fanout" => request'[p].type = "Sdp"
      BY <2>1 DEF Reach, TypeOK
    <3>2. \A q \in Peer \ {p} :
            recv_task'[q] = recv_task[q] /\ request'[q] = request[q] /\ fan'[q] = fan[q]
      BY <2>1 DEF Reach, TypeOK
    <3> QED BY <2>2, <3>1, <3>2 DEF NewsInv, UpdateIsNews
  <2> QED BY <2>4, <2>5, <2>6, <2>7 DEF NewsParts
<1>13. ASSUME NEW p \in Peer, SendFan(p) PROVE NewsParts'
  <2>a. PICK r \in Peer : r = Head(fan[p])
    BY <1>13, TailOfFan DEF SendFan, TypeOK, FanoutPending
  <2>b. PICK k : k = [id |-> p, ver |-> request[p].ver] OBVIOUS
  <2>1. /\ r \in Peer /\ fan[p] \in Seq(Peer) /\ fan[p] # <<>>
        /\ Range(fan[p]) = Range(Tail(fan[p])) \cup {r}
    BY <1>13, <2>a, TailOfFan DEF SendFan, TypeOK, FanoutPending
  <2>2. /\ r \notin Range(Tail(fan[p]))
        /\ \A i, j \in DOMAIN Tail(fan[p]) : Tail(fan[p])[i] = Tail(fan[p])[j] => i = j
    BY <2>1, <2>a, HeadOnce DEF NewsInv, FanOnce
  <2>3. UNCHANGED <<registered, info, main, peers>> BY <1>13 DEF SendFan, mapVars, mainVars
  <2>4. recv_task[p] = "fanout" /\ Reach(p, Tail(fan[p])) BY <1>13 DEF SendFan
  <2>5. \A t \in Peer \ {r} : told'[t] = told[t] BY <1>13, <2>a DEF SendFan, Send, TypeOK
  <2>6. \A i \in AllShown(r)' :
          i \in AllShown(r) \/ (request[p].type = "Update" /\ i = k)
    <3>1. CASE request[p].type = "Update"
      <4>1. Seen(told[r], Update(p, request[p].ver)) = {IF i.id = p THEN k ELSE i : i \in told[r]}
        BY <2>b DEF Seen, Update
      <4>2. told'[r] \in {told[r], Seen(told[r], Update(p, request[p].ver))}
        BY <1>13, <2>a, <3>1 DEF SendFan, Send, TypeOK
      <4>3. told'[r] \subseteq told[r] \cup {k} BY <4>1, <4>2
      <4> QED BY <2>3, <3>1, <4>3 DEF AllShown
    <3>2. CASE request[p].type # "Update"
      <4>1. Seen(told[r], Sdp(p)) = told[r] BY DEF Seen, Sdp
      <4> QED BY <1>13, <2>a, <2>1, <2>3, <3>2, <4>1 DEF SendFan, Send, TypeOK, AllShown
    <3> QED BY <3>1, <3>2
  <2>7. ShownBound'
    <3> SUFFICES ASSUME NEW t \in Peer, NEW i \in AllShown(t)'
                 PROVE  main[i.id] # "new" /\ (i.id \in registered => i.ver <= info[i.id])
      BY <2>3 DEF ShownBound
    <3>1. CASE i \in AllShown(t) BY <3>1 DEF NewsInv, ShownBound
    <3>2. CASE i \notin AllShown(t)
      <4>1. t = r BY <2>3, <2>5, <3>2 DEF AllShown
      <4>2. i = k /\ request[p].type = "Update" BY <2>6, <3>2, <4>1
      <4>3. main[p] # "new" BY <1>0, <2>4 DEF Phases
      <4>4. p \in registered => request[p].ver <= info[p]
        BY <2>4, <4>2 DEF NewsInv, RequestBound
      <4> QED BY <2>b, <4>2, <4>3, <4>4
    <3> QED BY <3>1, <3>2
  <2>8. RequestBound'
    BY <1>0, <2>3, <2>4 DEF Reach, TypeOK, NewsInv, RequestBound, NoRequest
  <2>9. FanOnce'
    BY <2>1, <2>2, <2>3, <2>4 DEF Reach, TypeOK, NewsInv, FanOnce
  <2>10. UpdateIsNews'
    <3> SUFFICES ASSUME NEW q \in Peer, recv_task'[q] = "fanout", request'[q].type = "Update",
                        NEW t \in Range(fan'[q]), NEW i \in AllShown(t)', i.id = q
                 PROVE  i.ver < request'[q].ver
      BY DEF UpdateIsNews, AllShown
    <3>1. /\ recv_task[q] = "fanout" /\ request'[q] = request[q]
          /\ Range(fan'[q]) \subseteq Range(fan[q])
      BY <2>1, <2>4, <1>0 DEF Reach, TypeOK, NoRequest
    <3>2. t \in Peer BY <1>0, <3>1
    <3>3. CASE i \in AllShown(t) BY <3>1, <3>3 DEF NewsInv, UpdateIsNews, AllShown
    <3>4. CASE i \notin AllShown(t)
      <4>1. t = r /\ i = k BY <2>3, <2>5, <2>6, <3>2, <3>4 DEF AllShown
      <4>2. q = p /\ fan'[p] = Tail(fan[p]) BY <2>b, <2>4, <4>1 DEF Reach, TypeOK
      <4> QED BY <2>2, <4>1, <4>2, <2>b
    <3> QED BY <3>3, <3>4
  <2> QED BY <2>7, <2>8, <2>9, <2>10 DEF NewsParts
<1>14. ASSUME NEW p \in Peer, SendError(p) PROVE NewsParts'
  <2>1. Error \in Message /\ Error.type = "Error" BY DEF Error, Message
  <2>2. \A t \in Peer : told'[t] \subseteq told[t] BY <1>14, <2>1, SendShows DEF SendError
  <2> QED BY <1>14, <2>2, NewsKept DEF SendError, AllShown, TypeOK, mapVars, mainVars
<1>15. ASSUME NEW p \in Peer, EndRecvTask(p) PROVE NewsParts'
  BY <1>15, NewsKept DEF EndRecvTask, AllShown, TypeOK, mapVars, mainVars
<1>16. ASSUME NEW p \in Peer, ClientLeaves(p) PROVE NewsParts'
  BY <1>16, NewsKept DEF ClientLeaves, AllShown, mapVars, mainVars, recvVars
<1>17. ASSUME ResetCounts \/ UNCHANGED vars PROVE NewsParts'
  BY <1>17, NewsKept DEF ResetCounts, vars, AllShown, mapVars, mainVars, recvVars
<1> QED
  BY <1>1, <1>2, <1>3, <1>4, <1>5, <1>6, <1>7, <1>8, <1>9, <1>10, <1>11, <1>12, <1>13,
     <1>14, <1>15, <1>16, <1>17 DEF Next, MainTask, SendTask, RecvTask

\* An Update on its way carries a version that none of its receivers has been shown.
THEOREM UpdatesAreNews == Spec => []UpdateIsNews
<1>1. Init => NewsInv BY NewsInit
<1>2. TypeInv /\ NewsInv /\ [Next]_vars => NewsInv' BY NewsStep
<1>3. NewsInv => UpdateIsNews BY DEF NewsInv
<1> QED BY <1>1, <1>2, <1>3, TypeInvariant, PTL DEF Spec
=============================================================================
