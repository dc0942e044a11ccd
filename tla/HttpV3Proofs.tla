---------------------------- MODULE HttpV3Proofs ----------------------------
(***************************************************************************)
(* Proofs about HttpV3, for any devices, requests, configurations, number  *)
(* of calls and cache size.                                                *)
(***************************************************************************)
EXTENDS HttpV3, SequenceTheorems, TLAPS

Place == {"off", "connecting", "sent", "stored", "answered", "saving", "ok", "error"}

\* The identifier under which a side files call k.
IdAt(s, k) == IF s = Server THEN ClientId(request[k]) ELSE ServerId(request[k])

\* A call that has begun keeps its request, and it is one of a device.
Requests == \A k \in Call : pc[k] # "off" => request[k] \in Request

\* Whoever holds the lock of a side's first map is halfway through an exchange: the
\* first map is ahead of the second by exactly that exchange.
Halfway(s) ==
  /\ holder[s] \in Call
  /\ pc[holder[s]] = (IF s = Server THEN "stored" ELSE "saving")
  /\ s # Server => request[holder[s]].client = s
  /\ received_nonce_map[s] = Put(generated_nonce_map[s], IdAt(s, holder[s]), holder[s])
Settled(s) == holder[s] = NoCall /\ received_nonce_map[s] = generated_nonce_map[s]

MapsInv ==
  /\ pc \in [Call -> Place] /\ holder \in [Side -> Call \cup {NoCall}]
  /\ request \in [Call -> Request \cup {NoRequest}]
  /\ received_nonce_map = [s \in Side |-> received_nonce_map[s]]
  /\ generated_nonce_map = [s \in Side |-> generated_nonce_map[s]]
  /\ Requests
  /\ \A s \in Side : Settled(s) \/ Halfway(s)

-----------------------------------------------------------------------------
\* The two halves of an exchange (nonce_exchange, nonce) on one side leave every other
\* side as it is.
LEMMA FirstHalf ==
  ASSUME MapsInv, NEW s \in Side, NEW k \in Call, StoreReceived(s, k, IdAt(s, k)),
         NEW there \in Place, pc' = [pc EXCEPT ![k] = there], there = (IF s = Server THEN "stored" ELSE "saving"),
         s # Server => request[k].client = s,
         pc[k] \in {"sent", "answered"},
         UNCHANGED <<config, request>>
  PROVE  MapsInv'
<1>1. /\ holder[s] = NoCall
      /\ holder' = [holder EXCEPT ![s] = k]
      /\ received_nonce_map' = [received_nonce_map EXCEPT ![s] = Put(@, IdAt(s, k), k)]
      /\ generated_nonce_map' = generated_nonce_map
      /\ pc' = [pc EXCEPT ![k] = there]
  BY DEF StoreReceived
<1>2. k # NoCall
  BY DEF Call, NoCall
<1>3. \A t \in Side, j \in Call : IdAt(t, j)' = IdAt(t, j)
  BY DEF IdAt, ClientId, ServerId, Ip
<1>4. pc' \in [Call -> Place] /\ holder' \in [Side -> Call \cup {NoCall}]
  BY <1>1 DEF MapsInv
<1>5. Requests'
  BY <1>1 DEF MapsInv, Requests
<1>6. Settled(s)
  BY <1>1, <1>2 DEF MapsInv, Halfway, NoCall, Call
<1>7. Halfway(s)'
  <2>1. received_nonce_map[s]' = Put(generated_nonce_map[s], IdAt(s, k), k)
    BY <1>1, <1>6 DEF Settled, MapsInv
  <2>2. holder[s]' = k /\ pc[k]' = there
    BY <1>1 DEF MapsInv
  <2> QED BY <1>1, <1>3, <2>1, <2>2 DEF Halfway
<1>8. ASSUME NEW t \in Side, t # s PROVE (Settled(t) \/ Halfway(t))'
  <2>1. holder[t]' = holder[t] /\ received_nonce_map[t]' = received_nonce_map[t]
    BY <1>1, <1>8 DEF MapsInv
  <2>2. CASE Settled(t)
    BY <1>1, <2>1, <2>2 DEF Settled
  <2>3. CASE Halfway(t)
    <3>1. holder[t] # k
      BY <2>3 DEF Halfway
    <3>2. pc[holder[t]]' = pc[holder[t]]
      BY <1>1, <2>3, <3>1 DEF Halfway, MapsInv
    <3> QED BY <1>1, <1>3, <2>1, <2>3, <3>2 DEF Halfway
  <2> QED BY <2>2, <2>3 DEF MapsInv
<1> QED BY <1>1, <1>4, <1>5, <1>7, <1>8 DEF MapsInv

LEMMA SecondHalf ==
  ASSUME MapsInv, NEW s \in Side, NEW k \in Call, StoreGenerated(s, k, IdAt(s, k)),
         NEW there \in Place, there # "off", pc' = [pc EXCEPT ![k] = there],
         UNCHANGED <<config, request>>
  PROVE  MapsInv'
<1>1. /\ holder[s] = k
      /\ holder' = [holder EXCEPT ![s] = NoCall]
      /\ generated_nonce_map' = [generated_nonce_map EXCEPT ![s] = Put(@, IdAt(s, k), k)]
      /\ received_nonce_map' = received_nonce_map
      /\ pc' = [pc EXCEPT ![k] = there]
  BY DEF StoreGenerated
<1>2. k # NoCall
  BY DEF Call, NoCall
<1>3. \A t \in Side, j \in Call : IdAt(t, j)' = IdAt(t, j)
  BY DEF IdAt, ClientId, ServerId, Ip
<1>4. pc' \in [Call -> Place] /\ holder' \in [Side -> Call \cup {NoCall}]
  BY <1>1 DEF MapsInv
<1>5. Halfway(s)
  BY <1>1, <1>2 DEF MapsInv, Settled
<1>6. Requests'
  <2>1. pc[k] # "off"
    BY <1>1, <1>5 DEF Halfway
  <2> QED BY <1>1, <2>1 DEF MapsInv, Requests
<1>7. Settled(s)'
  <2>1. generated_nonce_map[s]' = received_nonce_map[s]
    BY <1>1, <1>5 DEF Halfway, MapsInv
  <2> QED BY <1>1, <2>1 DEF Settled, MapsInv
<1>8. ASSUME NEW t \in Side, t # s PROVE (Settled(t) \/ Halfway(t))'
  <2>1. holder[t]' = holder[t] /\ generated_nonce_map[t]' = generated_nonce_map[t]
    BY <1>1, <1>8 DEF MapsInv
  <2>2. CASE Settled(t)
    BY <1>1, <2>1, <2>2 DEF Settled
  <2>3. CASE Halfway(t)
    <3>1. holder[t] # k
      BY <1>1, <1>5, <1>8, <2>3 DEF Halfway, Side, Server
    <3>2. pc[holder[t]]' = pc[holder[t]]
      BY <1>1, <2>3, <3>1 DEF Halfway, MapsInv
    <3> QED BY <1>1, <1>3, <2>1, <2>3, <3>2 DEF Halfway
  <2> QED BY <2>2, <2>3 DEF MapsInv
<1> QED BY <1>1, <1>4, <1>6, <1>7, <1>8 DEF MapsInv

\* The steps that write no map, of a call that holds no lock.
LEMMA NoHalf ==
  ASSUME MapsInv, UNCHANGED <<config, maps>>, pc' \in [Call -> Place],
         request' \in [Call -> Request \cup {NoRequest}], Requests',
         \A j \in Call : pc[j] \in {"stored", "saving"} =>
           pc[j]' = pc[j] /\ request[j]' = request[j]
  PROVE  MapsInv'
<1>1. holder' = holder /\ received_nonce_map' = received_nonce_map
      /\ generated_nonce_map' = generated_nonce_map /\ config' = config
  BY DEF maps
<1>2. ASSUME NEW t \in Side PROVE (Settled(t) \/ Halfway(t))'
  <2>1. CASE Settled(t)
    BY <1>1, <2>1 DEF Settled
  <2>2. CASE Halfway(t)
    <3>1. pc[holder[t]] \in {"stored", "saving"}
      BY <2>2 DEF Halfway
    <3>2. pc[holder[t]]' = pc[holder[t]] /\ request[holder[t]]' = request[holder[t]]
      BY <1>1, <2>2, <3>1 DEF Halfway
    <3>3. IdAt(t, holder[t])' = IdAt(t, holder[t])
      BY <1>1, <3>2 DEF IdAt, ClientId, ServerId, Ip
    <3> QED BY <1>1, <2>2, <3>2, <3>3 DEF Halfway
  <2> QED BY <2>1, <2>2 DEF MapsInv
<1> QED BY <1>1, <1>2 DEF MapsInv

-----------------------------------------------------------------------------
\* The requests handed to Begin are requests of devices.
LEMMA InputIsRequest == \A k \in Call : \A r \in Input[k] : r \in Request
  BY HttpAssumption

LEMMA ClientIsDevice ==
  ASSUME MapsInv, NEW k \in Call, pc[k] # "off"
  PROVE  request[k].client \in Side /\ request[k].client # Server
<1>1. request[k] \in Request
  BY DEF MapsInv, Requests
<1>2. request[k].client \in Device
  BY <1>1 DEF Request
<1> QED BY <1>2, HttpAssumption DEF Side

LEMMA MapsInit == Init => MapsInv
<1> SUFFICES ASSUME Init PROVE MapsInv
  OBVIOUS
<1>1. pc \in [Call -> Place] /\ request \in [Call -> Request \cup {NoRequest}] /\ Requests
  BY DEF Init, Requests, Place
<1>2. holder \in [Side -> Call \cup {NoCall}]
  BY DEF Init
<1>3. \A s \in Side : Settled(s)
  BY DEF Init, Settled
<1>4. /\ received_nonce_map = [s \in Side |-> received_nonce_map[s]]
      /\ generated_nonce_map = [s \in Side |-> generated_nonce_map[s]]
  BY DEF Init
<1> QED BY <1>1, <1>2, <1>3, <1>4 DEF MapsInv

LEMMA MapsNext == MapsInv /\ [Next]_vars => MapsInv'
<1> SUFFICES ASSUME MapsInv, [Next]_vars PROVE MapsInv'
  OBVIOUS
<1>1. ASSUME UNCHANGED <<config, request, pc, maps>> PROVE MapsInv'
  BY <1>1, NoHalf DEF MapsInv, Requests
<1>2. CASE FailV4 \/ FailV6 \/ Stop \/ \E h \in Host : Bind(h)
  BY <1>1, <1>2 DEF FailV4, FailV6, Stop, Bind, UnchangedByServer
<1>3. ASSUME NEW k \in Call, NEW r \in Input[k], Begin(k, r) PROVE MapsInv'
  <2>1. pc' \in [Call -> Place] /\ request' \in [Call -> Request \cup {NoRequest}]
    BY <1>3, InputIsRequest DEF Begin, Goto, MapsInv, Place
  <2>2. Requests'
    BY <1>3, InputIsRequest DEF Begin, Goto, MapsInv, Requests
  <2>3. \A j \in Call : pc[j] \in {"stored", "saving"} =>
          pc[j]' = pc[j] /\ request[j]' = request[j]
    BY <1>3 DEF Begin, Goto, MapsInv
  <2> QED BY <1>3, <2>1, <2>2, <2>3, NoHalf DEF Begin, lifecycle
<1>4. ASSUME NEW k \in Call, NEW there \in Place, there # "off", pc' = [pc EXCEPT ![k] = there],
             pc[k] \in {"connecting", "sent", "answered"}, UNCHANGED <<config, request, maps>>
      PROVE  MapsInv'
  <2>1. pc' \in [Call -> Place] /\ request' \in [Call -> Request \cup {NoRequest}]
    BY <1>4 DEF MapsInv
  <2>2. Requests'
    BY <1>4 DEF MapsInv, Requests
  <2>3. \A j \in Call : pc[j] \in {"stored", "saving"} =>
          pc[j]' = pc[j] /\ request[j]' = request[j]
    BY <1>4 DEF MapsInv
  <2> QED BY <1>4, <2>1, <2>2, <2>3, NoHalf
<1>5. ASSUME NEW k \in Call, Progress(k) \/ Break(k) PROVE MapsInv'
  <2>1. CASE Reuse(k)
    BY <1>4, <2>1 DEF Reuse, lifecycle, Goto, Place
  <2>2. CASE Connect(k)
    <3> DEFINE there == IF UrlValid(request[k]) /\ listener[request[k].host] = "listening"
                           /\ Handshake(request[k].client) THEN "sent" ELSE "error"
    <3>1. there \in Place /\ there # "off" /\ pc' = [pc EXCEPT ![k] = there]
      BY <2>2 DEF Connect, Goto, Place
    <3> HIDE DEF there
    <3> QED BY <1>4, <2>2, <3>1 DEF Connect, lifecycle
  <2>3. CASE Respond(k)
    BY <1>4, <2>3 DEF Respond, lifecycle, Goto, Place
  <2>4. CASE Break(k)
    BY <1>4, <2>4 DEF Break, lifecycle, Goto, Place
  <2>5. CASE Return(k)
    <3> DEFINE there == IF ~request[k].own \/ Succeeds(k) THEN "ok" ELSE "error"
    <3>1. there \in Place /\ there # "off" /\ pc' = [pc EXCEPT ![k] = there]
      BY <2>5 DEF Return, Goto, Place
    <3> HIDE DEF there
    <3> QED BY <1>4, <2>5, <3>1 DEF Return, lifecycle
  <2>6. CASE NonceExchange(k)
    <3>1. StoreReceived(Server, k, IdAt(Server, k)) /\ Server \in Side
      BY <2>6 DEF NonceExchange, IdAt, Side
    <3>2. pc' = [pc EXCEPT ![k] = "stored"] /\ pc[k] = "sent" /\ UNCHANGED <<config, request>>
      BY <2>6 DEF NonceExchange, lifecycle, Goto
    <3> QED BY <3>1, <3>2, FirstHalf DEF Place
  <2>7. CASE NonceAnswer(k)
    <3>1. StoreGenerated(Server, k, IdAt(Server, k)) /\ Server \in Side
      BY <2>7 DEF NonceAnswer, IdAt, Side
    <3>2. pc' = [pc EXCEPT ![k] = "answered"] /\ UNCHANGED <<config, request>>
      BY <2>7 DEF NonceAnswer, lifecycle, Goto
    <3> QED BY <3>1, <3>2, SecondHalf DEF Place
  <2>8. CASE SaveReceived(k)
    <3> DEFINE d == request[k].client
    <3>1. d \in Side /\ d # Server
      BY <2>8, ClientIsDevice DEF SaveReceived
    <3>2. StoreReceived(d, k, IdAt(d, k))
      BY <2>8, <3>1 DEF SaveReceived, IdAt
    <3>3. pc' = [pc EXCEPT ![k] = "saving"] /\ pc[k] = "answered" /\ UNCHANGED <<config, request>>
      BY <2>8 DEF SaveReceived, lifecycle, Goto
    <3> QED BY <3>1, <3>2, <3>3, FirstHalf DEF Place
  <2>9. CASE SaveGenerated(k)
    <3> DEFINE d == request[k].client
    <3>1. d \in Side /\ d # Server
      BY <2>9, ClientIsDevice DEF SaveGenerated
    <3>2. StoreGenerated(d, k, IdAt(d, k))
      BY <2>9, <3>1 DEF SaveGenerated, IdAt
    <3>3. pc' = [pc EXCEPT ![k] = "ok"] /\ UNCHANGED <<config, request>>
      BY <2>9 DEF SaveGenerated, lifecycle, Goto
    <3> QED BY <3>1, <3>2, <3>3, SecondHalf DEF Place
  <2> QED BY <1>5, <2>1, <2>2, <2>3, <2>4, <2>5, <2>6, <2>7, <2>8, <2>9 DEF Progress
<1>6. CASE UNCHANGED vars
  BY <1>1, <1>6 DEF vars, lifecycle
<1> QED BY <1>2, <1>3, <1>5, <1>6 DEF Next

\* However many exchanges interleave, on any number of clients, the two nonces a side
\* keeps for another come from one exchange (nonce_exchange of the server, nonce() of
\* the client): the lock of the first map spans the write of the second.
THEOREM NoncesOfOneExchange == Spec => []SameExchange
<1>1. MapsInv => SameExchange
  BY DEF MapsInv, SameExchange, Settled, Halfway, NoCall, Call
<1> QED BY <1>1, MapsInit, MapsNext, PTL DEF Spec

-----------------------------------------------------------------------------
(* What LruCache::put leaves in a map.                                      *)

LEMMA Removed ==
  ASSUME NEW Entry, NEW map \in Seq(Entry), NEW i \in 1..Len(map)
  PROVE  /\ RemoveAt(map, i) \in Seq(Entry) /\ Len(RemoveAt(map, i)) = Len(map) - 1
         /\ \A j \in 1..(Len(map) - 1) : RemoveAt(map, i)[j] = map[IF j < i THEN j ELSE j + 1]
<1> DEFINE before == SubSeq(map, 1, i - 1)
           after == SubSeq(map, i + 1, Len(map))
<1>1. RemoveAt(map, i) = before \o after
  BY DEF RemoveAt
<1>2. before \in Seq(Entry) /\ Len(before) = i - 1 /\ \A j \in 1..(i - 1) : before[j] = map[j]
  <2>1. i - 1 \in Int /\ \A j \in 1..(i - 1) : map[j] \in Entry
    OBVIOUS
  <2> QED BY <2>1, SubSeqProperties
<1>3. /\ after \in Seq(Entry) /\ Len(after) = Len(map) - i
      /\ \A j \in 1..(Len(map) - i) : after[j] = map[i + j]
  <2>1. i + 1 \in Int /\ Len(map) \in Int /\ \A j \in (i + 1)..Len(map) : map[j] \in Entry
    OBVIOUS
  <2> QED BY <2>1, SubSeqProperties
<1> HIDE DEF before, after
<1>4. before \o after \in Seq(Entry) /\ Len(before \o after) = Len(map) - 1
  BY <1>2, <1>3
<1>5. ASSUME NEW j \in 1..(Len(map) - 1)
      PROVE  (before \o after)[j] = map[IF j < i THEN j ELSE j + 1]
  <2>1. CASE j < i
    BY <1>2, <1>3, <1>4, <2>1
  <2>2. CASE ~(j < i)
    <3>1. (before \o after)[j] = after[j - (i - 1)] /\ j - (i - 1) \in 1..(Len(map) - i)
      BY <1>2, <1>3, <1>4, <2>2
    <3>2. i + (j - (i - 1)) = j + 1
      OBVIOUS
    <3> QED BY <1>3, <2>2, <3>1, <3>2
  <2> QED BY <2>1, <2>2
<1> QED BY <1>1, <1>4, <1>5

Distinct(map) == \A i, j \in DOMAIN map : map[i].id = map[j].id => i = j

\* What else falls out for an identifier that is put again: the entry it had.
LEMMA Others ==
  ASSUME NEW Entry, NEW map \in Seq(Entry), NEW id
  PROVE  /\ Without(map, id) \in Seq(Entry) /\ Len(Without(map, id)) <= Len(map)
         /\ Entries(Without(map, id)) \subseteq Entries(map)
         /\ Distinct(map) => /\ Distinct(Without(map, id))
                             /\ \A e \in Entries(Without(map, id)) : e.id # id
<1>1. CASE ~\E i \in DOMAIN map : map[i].id = id
  BY <1>1 DEF Without, Entries
<1>2. CASE \E i \in DOMAIN map : map[i].id = id
  <2> DEFINE found == CHOOSE i \in DOMAIN map : map[i].id = id
  <2>0. found \in DOMAIN map /\ map[found].id = id /\ Without(map, id) = RemoveAt(map, found)
    BY <1>2 DEF Without
  <2> HIDE DEF found
  <2>1. PICK i \in 1..Len(map) : map[i].id = id /\ Without(map, id) = RemoveAt(map, i)
    BY <2>0
  <2>2. PICK others : others = Without(map, id)
    OBVIOUS
  <2> DEFINE At(j) == IF j < i THEN j ELSE j + 1
  <2>3. /\ others \in Seq(Entry) /\ Len(others) = Len(map) - 1
        /\ \A j \in 1..Len(others) : others[j] = map[At(j)]
    <3>1. /\ RemoveAt(map, i) \in Seq(Entry) /\ Len(RemoveAt(map, i)) = Len(map) - 1
          /\ \A j \in 1..(Len(map) - 1) : RemoveAt(map, i)[j] = map[At(j)]
      BY Removed
    <3> QED BY <2>1, <2>2, <3>1
  <2>4. \A j \in 1..Len(others) : At(j) \in 1..Len(map) /\ At(j) # i
    BY <2>3
  <2>5. \A j, k \in 1..Len(others) : At(j) = At(k) => j = k
    BY <2>3
  <2> HIDE DEF At
  <2>6. Entries(others) \subseteq Entries(map)
    BY <2>3, <2>4 DEF Entries
  <2>7. Distinct(map) => Distinct(others)
    BY <2>3, <2>4, <2>5 DEF Distinct
  <2>8. Distinct(map) => \A e \in Entries(others) : e.id # id
    BY <2>1, <2>3, <2>4 DEF Distinct, Entries
  <2> QED BY <2>2, <2>3, <2>6, <2>7, <2>8
<1> QED BY <1>1, <1>2

LEMMA PutEntries ==
  ASSUME NEW Entry, NEW map \in Seq(Entry), NEW id, NEW k, [id |-> id, nonce |-> k] \in Entry
  PROVE  /\ Put(map, id, k) \in Seq(Entry)
         /\ Entries(Put(map, id, k)) \subseteq Entries(map) \cup {[id |-> id, nonce |-> k]}
         /\ Len(map) <= Capacity => Len(Put(map, id, k)) <= Capacity
         /\ Distinct(map) => /\ Distinct(Put(map, id, k))
                             /\ \A e \in Entries(Put(map, id, k)) : e.id = id => e.nonce = k
<1> DEFINE others == Without(map, id)
           first == [id |-> id, nonce |-> k]
           new == <<first>> \o others
<1>0. Capacity \in Nat /\ Capacity >= 1
  BY HttpAssumption
<1>1. /\ others \in Seq(Entry) /\ Entries(others) \subseteq Entries(map)
      /\ Distinct(map) => Distinct(others) /\ \A e \in Entries(others) : e.id # id
  BY Others
<1> HIDE DEF others
<1>2. /\ new \in Seq(Entry) /\ Len(new) = Len(others) + 1 /\ new[1] = first
      /\ \A j \in 2..Len(new) : new[j] = others[j - 1] /\ j - 1 \in DOMAIN others
  BY <1>1
<1>3. Put(map, id, k) = IF Len(new) > Capacity THEN SubSeq(new, 1, Capacity) ELSE new
  BY DEF Put, others
<1> HIDE DEF new
<1>4. \A j \in 1..Len(new) : j = 1 \/ j \in 2..Len(new)
  OBVIOUS
<1>5. Entries(new) \subseteq Entries(map) \cup {first}
  <2>1. \A j \in 2..Len(new) : new[j] \in Entries(map)
    BY <1>1, <1>2 DEF Entries
  <2>2. DOMAIN new = 1..Len(new)
    BY <1>2
  <2> QED BY <1>2, <1>4, <2>1, <2>2 DEF Entries
<1>6. Distinct(map) => Distinct(new) /\ \A e \in Entries(new) : e.id = id => e.nonce = k
  <2> SUFFICES ASSUME Distinct(map) PROVE Distinct(new) /\ \A e \in Entries(new) : e.id = id => e.nonce = k
    OBVIOUS
  <2>1. \A j \in 2..Len(new) : new[j].id # id
    BY <1>1, <1>2 DEF Entries
  <2>2. ASSUME NEW i \in 2..Len(new), NEW j \in 2..Len(new), new[i].id = new[j].id PROVE i = j
    <3>1. i - 1 = j - 1
      BY <1>1, <1>2, <2>2 DEF Distinct
    <3> QED BY <3>1
  <2>3. DOMAIN new = 1..Len(new) /\ new[1].id = id /\ new[1].nonce = k
    BY <1>2
  <2>4. ASSUME NEW i \in 1..Len(new), NEW j \in 1..Len(new), new[i].id = new[j].id PROVE i = j
    BY <1>4, <2>1, <2>2, <2>3, <2>4
  <2>5. Distinct(new)
    BY <2>3, <2>4 DEF Distinct
  <2>6. ASSUME NEW j \in 1..Len(new), new[j].id = id PROVE new[j].nonce = k
    BY <1>4, <2>1, <2>3, <2>6
  <2> QED BY <2>3, <2>5, <2>6 DEF Entries
<1>7. PICK put : put = Put(map, id, k)
  OBVIOUS
<1>8. /\ put \in Seq(Entry) /\ Len(put) <= Len(new) /\ Len(put) <= Capacity
      /\ \A j \in 1..Len(put) : put[j] = new[j]
  <2>1. CASE Len(new) > Capacity
    <3>1. /\ SubSeq(new, 1, Capacity) \in Seq(Entry) /\ Len(SubSeq(new, 1, Capacity)) = Capacity
          /\ \A j \in 1..Capacity : SubSeq(new, 1, Capacity)[j] = new[j]
      <4>1. Capacity \in Int /\ 1 \in Int /\ \A j \in 1..Capacity : new[j] \in Entry
        BY <1>0, <1>2, <2>1
      <4> QED BY <1>0, <4>1, SubSeqProperties
    <3> QED BY <1>0, <1>2, <1>3, <1>7, <2>1, <3>1
  <2>2. CASE ~(Len(new) > Capacity)
    BY <1>0, <1>2, <1>3, <1>7, <2>2
  <2> QED BY <2>1, <2>2
<1>9. 1..Len(put) \subseteq 1..Len(new) /\ DOMAIN put = 1..Len(put) /\ DOMAIN new = 1..Len(new)
  <2>1. Len(put) \in Nat /\ Len(new) \in Nat
    BY <1>2, <1>8
  <2> QED BY <1>2, <1>8, <2>1
<1>10. Entries(put) \subseteq Entries(new)
  BY <1>8, <1>9 DEF Entries
<1>11. Distinct(new) => Distinct(put)
  BY <1>8, <1>9 DEF Distinct
<1> QED BY <1>5, <1>6, <1>7, <1>8, <1>10, <1>11
-----------------------------------------------------------------------------
(* Whose nonces the server holds.                                           *)

\* What the server may file: the identifier of a request, and its call.
Filed == [id : {ClientId(r) : r \in Request}, nonce : Call]

\* The handshake lies before a handler runs, and a connection that is used again has
\* it behind it; what the server holds was filed by a handler.
KeyInv ==
  /\ MapsInv
  /\ received_nonce_map[Server] \in Seq(Filed)
  /\ \A c \in idle : Handshake(c[1])
  /\ \A k \in Call : pc[k] \in {"sent", "stored", "answered"} => Handshake(request[k].client)
  /\ \A e \in Entries(received_nonce_map[Server]) :
       pc[e.nonce] # "off" /\ Handshake(request[e.nonce].client) /\ e.id = ClientId(request[e.nonce])

\* The steps after which the server holds no more than before.
LEMMA KeysKept ==
  ASSUME KeyInv, MapsInv', UNCHANGED <<config, request>>,
         received_nonce_map'[Server] = received_nonce_map[Server],
         NEW k \in Call, NEW there \in Place, there # "off", pc' = [pc EXCEPT ![k] = there],
         there \in {"sent", "stored", "answered"} => Handshake(request[k].client),
         \A c \in idle' : Handshake(c[1])
  PROVE  KeyInv'
<1>1. \A d \in Device : Handshake(d)' = Handshake(d)
  BY DEF Handshake
<1>2. \A r \in Request : ClientId(r)' = ClientId(r)
  BY DEF ClientId, Ip
<1>3. Filed' = Filed
  BY <1>2 DEF Filed
<1>4. \A c \in idle' : Handshake(c[1])'
  BY DEF Handshake
<1>5. pc \in [Call -> Place]
  BY DEF KeyInv, MapsInv
<1>6. \A j \in Call : (pc[j] \in {"sent", "stored", "answered"} => Handshake(request[j].client))'
  BY <1>5 DEF KeyInv, Handshake
<1>7. ASSUME NEW e \in Entries(received_nonce_map[Server])'
      PROVE  /\ pc'[e.nonce] # "off" /\ Handshake(request[e.nonce].client)'
             /\ e.id = ClientId(request[e.nonce])'
  <2>1. e \in Entries(received_nonce_map[Server]) /\ e \in Filed
    BY <1>7 DEF Entries, KeyInv
  <2>2. e.nonce \in Call
    BY <2>1 DEF Filed
  <2>3. pc'[e.nonce] # "off"
    BY <1>5, <2>1, <2>2 DEF KeyInv
  <2> QED BY <2>1, <2>3 DEF KeyInv, Handshake, ClientId, Ip
<1> QED BY <1>3, <1>4, <1>6, <1>7 DEF KeyInv

LEMMA KeyInit == Init => KeyInv
<1> SUFFICES ASSUME Init PROVE KeyInv
  OBVIOUS
<1>1. received_nonce_map[Server] = <<>> /\ idle = {} /\ \A k \in Call : pc[k] = "off"
  BY DEF Init, Side
<1> QED BY <1>1, MapsInit DEF KeyInv, Entries

LEMMA KeyNext == KeyInv /\ [Next]_vars => KeyInv'
<1> SUFFICES ASSUME KeyInv, [Next]_vars PROVE KeyInv'
  OBVIOUS
<1>1. MapsInv /\ MapsInv' /\ pc \in [Call -> Place] /\ config' = config
  BY MapsNext DEF KeyInv, MapsInv, Next, vars, lifecycle, Progress, Begin, Break, Reuse, Connect,
       Respond, NonceExchange, NonceAnswer, Return, SaveReceived, SaveGenerated, FailV4, FailV6,
       Stop, Bind, UnchangedByServer
<1>2. ASSUME UNCHANGED <<config, request, pc, idle, maps>> PROVE KeyInv'
  BY <1>1, <1>2 DEF KeyInv, maps, Handshake, Entries, Filed, ClientId, Ip
<1>3. CASE FailV4 \/ FailV6 \/ Stop \/ (\E h \in Host : Bind(h)) \/ UNCHANGED vars
  BY <1>2, <1>3 DEF FailV4, FailV6, Stop, Bind, UnchangedByServer, vars, lifecycle
<1>4. ASSUME NEW k \in Call, NEW r \in Input[k], Begin(k, r) PROVE KeyInv'
  <2>1. pc[k] = "off" /\ pc' = [pc EXCEPT ![k] = "connecting"]
        /\ request' = [request EXCEPT ![k] = r] /\ UNCHANGED <<config, idle, maps>>
    BY <1>4 DEF Begin, Goto, lifecycle
  <2>2. received_nonce_map[Server]' \in Seq(Filed')
    BY <2>1 DEF KeyInv, Filed, ClientId, Ip, maps
  <2>3. \A c \in idle' : Handshake(c[1])'
    BY <2>1 DEF KeyInv, Handshake
  <2>4. \A j \in Call : (pc[j] \in {"sent", "stored", "answered"} => Handshake(request[j].client))'
    BY <1>1, <2>1 DEF KeyInv, Handshake, MapsInv
  <2>5. ASSUME NEW e \in Entries(received_nonce_map[Server])'
        PROVE  /\ pc'[e.nonce] # "off" /\ Handshake(request[e.nonce].client)'
               /\ e.id = ClientId(request[e.nonce])'
    <3>1. e \in Entries(received_nonce_map[Server]) /\ e \in Filed
      BY <2>1, <2>5 DEF Entries, KeyInv, maps
    <3>2. e.nonce \in Call /\ e.nonce # k
      BY <2>1, <3>1 DEF Filed, KeyInv
    <3>3. pc'[e.nonce] = pc[e.nonce] /\ request'[e.nonce] = request[e.nonce]
      BY <1>1, <2>1, <3>2 DEF MapsInv
    <3> QED BY <2>1, <3>1, <3>3 DEF KeyInv, Handshake, ClientId, Ip
  <2> QED BY <1>1, <2>2, <2>3, <2>4, <2>5 DEF KeyInv
<1>5. ASSUME NEW k \in Call, Progress(k) \/ Break(k) PROVE KeyInv'
  <2>1. CASE Reuse(k)
    <3>1. Handshake(request[k].client) /\ idle' \subseteq idle
      BY <2>1 DEF Reuse, KeyInv
    <3> QED BY <1>1, <2>1, <3>1, KeysKept DEF Reuse, lifecycle, maps, Goto, Place, KeyInv
  <2>2. CASE Connect(k)
    <3> DEFINE there == IF UrlValid(request[k]) /\ listener[request[k].host] = "listening"
                           /\ Handshake(request[k].client) THEN "sent" ELSE "error"
    <3>1. there \in Place /\ there # "off" /\ pc' = [pc EXCEPT ![k] = there]
      BY <2>2 DEF Connect, Goto, Place
    <3>2. there \in {"sent", "stored", "answered"} => Handshake(request[k].client)
      OBVIOUS
    <3> HIDE DEF there
    <3> QED BY <1>1, <2>2, <3>1, <3>2, KeysKept DEF Connect, lifecycle, maps, KeyInv
  <2>3. CASE Respond(k)
    BY <1>1, <2>3, KeysKept DEF Respond, lifecycle, maps, Goto, Place, KeyInv
  <2>4. CASE Break(k)
    BY <1>1, <2>4, KeysKept DEF Break, lifecycle, maps, Goto, Place, KeyInv
  <2>5. ASSUME KeepAlive(k), pc[k] = "answered" PROVE \A c \in idle' : Handshake(c[1])
    <3>1. Handshake(request[k].client)
      BY <2>5 DEF KeyInv
    <3> QED BY <2>5, <3>1 DEF KeepAlive, KeyInv
  <2>6. CASE Return(k)
    <3> DEFINE there == IF ~request[k].own \/ Succeeds(k) THEN "ok" ELSE "error"
    <3>1. there \in Place /\ there \notin {"off", "sent", "stored", "answered"}
          /\ pc' = [pc EXCEPT ![k] = there]
      BY <2>6 DEF Return, Goto, Place
    <3>2. \A c \in idle' : Handshake(c[1])
      BY <2>5, <2>6 DEF Return
    <3> HIDE DEF there
    <3> QED BY <1>1, <2>6, <3>1, <3>2, KeysKept DEF Return, lifecycle, maps
  <2>7. CASE NonceExchange(k)
    <3> DEFINE id == ClientId(request[k])
               filed == Entries(received_nonce_map[Server]) \cup {[id |-> id, nonce |-> k]}
    <3>1. /\ pc[k] = "sent" /\ pc' = [pc EXCEPT ![k] = "stored"] /\ UNCHANGED <<config, request, idle>>
          /\ received_nonce_map'[Server] = Put(received_nonce_map[Server], id, k)
      BY <2>7, <1>1 DEF NonceExchange, StoreReceived, Goto, lifecycle, MapsInv, Side
    <3>2. Handshake(request[k].client)
      BY <3>1 DEF KeyInv
    <3>3. request[k] \in Request
      BY <1>1, <3>1 DEF MapsInv, Requests
    <3>4. [id |-> id, nonce |-> k] \in Filed
      BY <3>3 DEF Filed
    <3>5. received_nonce_map'[Server] \in Seq(Filed) /\ Entries(received_nonce_map[Server])' \subseteq filed
      <4>1. received_nonce_map[Server] \in Seq(Filed)
        BY DEF KeyInv
      <4> HIDE DEF id
      <4>2. Entries(Put(received_nonce_map[Server], id, k)) \subseteq filed
            /\ Put(received_nonce_map[Server], id, k) \in Seq(Filed)
        BY <3>4, <4>1, PutEntries
      <4> QED BY <3>1, <4>2 DEF Entries
    <3>6. Filed' = Filed
      BY <3>1 DEF Filed, ClientId, Ip
    <3>7. \A j \in Call : (pc[j] \in {"sent", "stored", "answered"} => Handshake(request[j].client))'
      BY <1>1, <3>1, <3>2 DEF KeyInv, Handshake
    <3>8. \A c \in idle' : Handshake(c[1])'
      BY <3>1 DEF KeyInv, Handshake
    <3>9. ASSUME NEW e \in Entries(received_nonce_map[Server])'
          PROVE  /\ pc'[e.nonce] # "off" /\ Handshake(request[e.nonce].client)'
                 /\ e.id = ClientId(request[e.nonce])'
      <4>1. CASE e \in Entries(received_nonce_map[Server])
        <5>1. e.nonce \in Call
          <6>1. e \in Filed
            BY <4>1 DEF KeyInv, Entries
          <6> QED BY <6>1 DEF Filed
        <5>2. pc'[e.nonce] # "off"
          BY <1>1, <3>1, <4>1, <5>1 DEF KeyInv
        <5> QED BY <3>1, <4>1, <5>2 DEF KeyInv, Handshake, ClientId, Ip
      <4>2. CASE e = [id |-> id, nonce |-> k]
        BY <1>1, <3>1, <3>2, <4>2 DEF Handshake, ClientId, Ip
      <4> QED BY <3>5, <3>9, <4>1, <4>2
    <3> QED BY <1>1, <3>5, <3>6, <3>7, <3>8, <3>9 DEF KeyInv
  <2>8. CASE NonceAnswer(k)
    <3>1. Handshake(request[k].client)
      BY <2>8 DEF NonceAnswer, KeyInv
    <3> QED BY <1>1, <2>8, <3>1, KeysKept
            DEF NonceAnswer, StoreGenerated, lifecycle, Goto, Place, KeyInv
  <2>9. CASE SaveReceived(k)
    <3>1. request[k].client \in Side /\ request[k].client # Server
      BY <1>1, <2>9, ClientIsDevice DEF SaveReceived
    <3>2. received_nonce_map'[Server] = received_nonce_map[Server]
      BY <1>1, <2>9, <3>1 DEF SaveReceived, StoreReceived, MapsInv, Side
    <3>3. \A c \in idle' : Handshake(c[1])
      BY <2>5, <2>9 DEF SaveReceived
    <3> QED BY <1>1, <2>9, <3>2, <3>3, KeysKept DEF SaveReceived, lifecycle, Goto, Place
  <2>10. CASE SaveGenerated(k)
    BY <1>1, <2>10, KeysKept DEF SaveGenerated, StoreGenerated, lifecycle, Goto, Place, KeyInv
  <2> QED BY <1>5, <2>1, <2>2, <2>3, <2>4, <2>6, <2>7, <2>8, <2>9, <2>10 DEF Progress
<1> QED BY <1>3, <1>4, <1>5 DEF Next

\* Over TLS a nonce is filed under the key of a valid certificate of the client whose
\* request brought it (CustomClientCertVerifier, RequestClientInfo::identifier), also
\* when the request came over a connection that was kept.
THEOREM KeysOfCallers == Spec => []FiledUnderKey
<1>1. KeyInv => FiledUnderKey
  <2> SUFFICES ASSUME KeyInv, config.tls, NEW e \in Entries(received_nonce_map[Server])
               PROVE  LET cert == CertOf[request[e.nonce].client] IN
                      cert # NoCert /\ VerifyCert(cert, "") /\ e.id = <<"key", cert.key>>
    BY DEF FiledUnderKey
  <2>1. Handshake(request[e.nonce].client) /\ e.id = ClientId(request[e.nonce])
    BY DEF KeyInv
  <2> QED BY <2>1 DEF Handshake, ClientId
<1> QED BY <1>1, KeyInit, KeyNext, PTL DEF Spec

-----------------------------------------------------------------------------
(* The types.                                                               *)

\* An LruCache: its entries, in order of age.
IsMap(map) == map \in Seq(Entries(map)) /\ Len(map) <= Capacity /\ Distinct(map)

LEMMA PutIsMap ==
  ASSUME NEW map, IsMap(map), NEW id, NEW k
  PROVE  IsMap(Put(map, id, k))
<1> DEFINE Entry == Entries(map) \cup {[id |-> id, nonce |-> k]}
<1>1. map \in Seq(Entry) /\ [id |-> id, nonce |-> k] \in Entry
  BY SeqMonotonic DEF IsMap
<1> HIDE DEF Entry
<1>2. PICK put : put = Put(map, id, k)
  OBVIOUS
<1>3. put \in Seq(Entry) /\ Len(put) <= Capacity /\ Distinct(put)
  BY <1>1, <1>2, PutEntries DEF IsMap
<1>4. put \in Seq(Entries(put))
  <2>1. \A i \in 1..Len(put) : put[i] \in Entries(put)
    BY <1>3 DEF Entries
  <2>2. Len(put) \in Nat /\ put = [i \in 1..Len(put) |-> put[i]]
    BY <1>3
  <2> QED BY <2>1, <2>2, IsASeq
<1> QED BY <1>2, <1>3, <1>4 DEF IsMap

HttpTypes ==
  /\ status \in [Call -> {0, 200, 400, 404}]
  /\ request \in [Call -> (UNION {Input[k] : k \in Call}) \cup {NoRequest}]
  /\ idle \subseteq Device \X Host
  /\ \A s \in Side : IsMap(received_nonce_map[s]) /\ IsMap(generated_nonce_map[s])

LEMMA HttpTypesInit == Init => HttpTypes
<1> SUFFICES ASSUME Init PROVE HttpTypes
  OBVIOUS
<1>1. IsMap(<<>>)
  BY HttpAssumption DEF IsMap, Entries, Distinct
<1>2. \A s \in Side : received_nonce_map[s] = <<>> /\ generated_nonce_map[s] = <<>>
  BY DEF Init
<1>3. status \in [Call -> {0, 200, 400, 404}] /\ idle \subseteq Device \X Host
  BY DEF Init
<1>4. request \in [Call -> (UNION {Input[k] : k \in Call}) \cup {NoRequest}]
  <2>1. NoRequest \in (UNION {Input[k] : k \in Call}) \cup {NoRequest}
    OBVIOUS
  <2>2. request = [k \in Call |-> NoRequest]
    BY DEF Init
  <2> QED BY <2>1, <2>2
<1> QED BY <1>1, <1>2, <1>3, <1>4 DEF HttpTypes

LEMMA Connection ==
  ASSUME MapsInv, NEW k \in Call, pc[k] # "off"
  PROVE  <<request[k].client, request[k].host>> \in Device \X Host
<1>1. request[k] \in Request
  BY DEF MapsInv, Requests
<1> QED BY <1>1 DEF Request

LEMMA HttpTypesNext == MapsInv /\ HttpTypes /\ [Next]_vars => HttpTypes'
<1> SUFFICES ASSUME MapsInv, HttpTypes, [Next]_vars PROVE HttpTypes'
  OBVIOUS
<1>1. CASE FailV4 \/ FailV6 \/ Stop \/ (\E h \in Host : Bind(h)) \/ UNCHANGED vars
  BY <1>1 DEF FailV4, FailV6, Stop, Bind, UnchangedByServer, vars, maps, HttpTypes
<1>2. ASSUME NEW k \in Call, NEW r \in Input[k], Begin(k, r) PROVE HttpTypes'
  <2>1. request' = [request EXCEPT ![k] = r] /\ UNCHANGED <<status, idle, maps>>
    BY <1>2 DEF Begin
  <2>2. request' \in [Call -> (UNION {Input[j] : j \in Call}) \cup {NoRequest}]
    BY <2>1 DEF HttpTypes
  <2> QED BY <2>1, <2>2 DEF HttpTypes, maps
<1>3. ASSUME NEW k \in Call, KeepAlive(k), pc[k] = "answered" PROVE idle' \subseteq Device \X Host
  BY <1>3, Connection DEF KeepAlive, HttpTypes
<1>4. ASSUME NEW s \in Side, NEW k, NEW id, StoreReceived(s, k, id) \/ StoreGenerated(s, k, id)
      PROVE  \A t \in Side : IsMap(received_nonce_map'[t]) /\ IsMap(generated_nonce_map'[t])
  <2>1. /\ IsMap(Put(received_nonce_map[s], id, k)) /\ IsMap(Put(generated_nonce_map[s], id, k))
    BY PutIsMap DEF HttpTypes
  <2>2. CASE StoreReceived(s, k, id)
    BY <2>1, <2>2 DEF StoreReceived, HttpTypes, MapsInv
  <2>3. CASE StoreGenerated(s, k, id)
    BY <2>1, <2>3 DEF StoreGenerated, HttpTypes, MapsInv
  <2> QED BY <1>4, <2>2, <2>3
<1>5. ASSUME NEW k \in Call, Reuse(k) \/ Connect(k) \/ Break(k) PROVE HttpTypes'
  <2>1. idle' \subseteq idle /\ UNCHANGED <<status, request, maps>>
    BY <1>5 DEF Reuse, Connect, Break
  <2> QED BY <2>1 DEF HttpTypes, maps
<1>6. ASSUME NEW k \in Call, Respond(k) \/ NonceExchange(k) \/ NonceAnswer(k) PROVE HttpTypes'
  <2>1. UNCHANGED <<request, idle>>
    BY <1>6 DEF Respond, NonceExchange, NonceAnswer
  <2>2. status' \in [Call -> {0, 200, 400, 404}]
    BY <1>6 DEF Respond, NonceExchange, NonceAnswer, Status, HttpTypes
  <2>3. \A t \in Side : IsMap(received_nonce_map'[t]) /\ IsMap(generated_nonce_map'[t])
    BY <1>4, <1>6 DEF Respond, NonceExchange, NonceAnswer, maps, HttpTypes, Side
  <2> QED BY <2>1, <2>2, <2>3 DEF HttpTypes
<1>7. ASSUME NEW k \in Call, Return(k) PROVE HttpTypes'
  <2>1. KeepAlive(k) /\ pc[k] = "answered" /\ UNCHANGED <<request, status, maps>>
    BY <1>7 DEF Return
  <2> QED BY <1>3, <2>1 DEF HttpTypes, maps
<1>8. ASSUME NEW k \in Call, SaveReceived(k) PROVE HttpTypes'
  <2>1. KeepAlive(k) /\ pc[k] = "answered" /\ UNCHANGED <<request, status>>
    BY <1>8 DEF SaveReceived
  <2>2. request[k].client \in Side
    BY <2>1, ClientIsDevice
  <2>3. \A t \in Side : IsMap(received_nonce_map'[t]) /\ IsMap(generated_nonce_map'[t])
    BY <1>4, <1>8, <2>2 DEF SaveReceived
  <2> QED BY <1>3, <2>1, <2>3 DEF HttpTypes
<1>9. ASSUME NEW k \in Call, SaveGenerated(k) PROVE HttpTypes'
  <2>1. pc[k] = "saving" /\ UNCHANGED <<request, status, idle>>
    BY <1>9 DEF SaveGenerated
  <2>2. request[k].client \in Side
    BY <2>1, ClientIsDevice
  <2>3. \A t \in Side : IsMap(received_nonce_map'[t]) /\ IsMap(generated_nonce_map'[t])
    BY <1>4, <1>9, <2>2 DEF SaveGenerated
  <2> QED BY <2>1, <2>3 DEF HttpTypes
<1> QED BY <1>1, <1>2, <1>5, <1>6, <1>7, <1>8, <1>9 DEF Next, Progress

\* The maps of both sides stay LruCaches: one entry for an identifier, and never more
\* than their size, however many devices ask for a nonce (LruCache::put).
THEOREM HttpTypesOK == Spec => []HttpTypeOK
<1>1. MapsInv /\ HttpTypes => HttpTypeOK
  <2> SUFFICES ASSUME MapsInv, HttpTypes PROVE HttpTypeOK
    OBVIOUS
  <2>1. pc \in [Call -> {"off", "connecting", "sent", "stored", "answered", "saving", "ok", "error"}]
    BY DEF MapsInv, Place
  <2>2. ASSUME NEW map \in {received_nonce_map[s] : s \in Side} \cup {generated_nonce_map[s] : s \in Side}
        PROVE  Len(map) <= Capacity /\ \A i, j \in DOMAIN map : map[i].id = map[j].id => i = j
    BY DEF HttpTypes, IsMap, Distinct
  <2>3. holder \in [Side -> Call \cup {NoCall}]
    BY DEF MapsInv
  <2>4. /\ status \in [Call -> {0, 200, 400, 404}] /\ idle \subseteq Device \X Host
        /\ request \in [Call -> (UNION {Input[k] : k \in Call}) \cup {NoRequest}]
    BY DEF HttpTypes
  <2> QED BY <2>1, <2>2, <2>3, <2>4 DEF HttpTypeOK
<1> QED BY <1>1, MapsInit, MapsNext, HttpTypesInit, HttpTypesNext, PTL DEF Spec

-----------------------------------------------------------------------------
(* The two sides of an exchange.                                            *)

\* The server has filed the call's nonces, and the call has not returned.
Behind(k) == pc[k] \in {"stored", "saving"} \/ (pc[k] = "answered" /\ ExchangesNonce(k))
Kept(k) == pc[k] \in {"saving", "ok"} /\ request[k].own
Overlapped(j, k) == j = k \/ {j, k} \in overlap

\* A status 200 of the nonce route stands for an exchange; calls that are in flight
\* together overlap; so what the server holds is the last exchange of its client, or one
\* that overlaps with it, and so is what the client holds for the server.
StepInv ==
  /\ \A k \in Call : pc[k] \in {"stored", "saving"} => ExchangesNonce(k)
  /\ \A k \in Call : pc[k] = "answered" => status[k] = Status(request[k])
  /\ \A j, k \in Call : Active(j) /\ Active(k) => Overlapped(j, k)
  /\ \A e \in Entries(received_nonce_map[Server]) :
       /\ ExchangesNonce(e.nonce)
       /\ \A k \in Call : Behind(k) /\ ClientId(request[k]) = e.id => Overlapped(e.nonce, k)
       /\ Kept(e.nonce) =>
            \A f \in Entries(received_nonce_map[request[e.nonce].client]) :
              f.id = ServerId(request[e.nonce]) => Overlapped(f.nonce, e.nonce)

LEMMA StepInit == Init => StepInv
<1> SUFFICES ASSUME Init PROVE StepInv
  OBVIOUS
<1>1. received_nonce_map[Server] = <<>> /\ \A k \in Call : pc[k] = "off"
  BY DEF Init, Side
<1>2. Entries(received_nonce_map[Server]) = {}
  BY <1>1 DEF Entries
<1> QED BY <1>1, <1>2 DEF StepInv, Active

\* A step of one call that writes no map.
LEMMA StepKept ==
  ASSUME MapsInv, KeyInv, StepInv, UNCHANGED <<config, request, overlap>>,
         UNCHANGED received_nonce_map,
         NEW k \in Call, NEW there \in Place, pc' = [pc EXCEPT ![k] = there],
         Active(k), there # "off",
         there \in {"stored", "saving"} => pc[k] = there,
         there = "ok" => pc[k] = "saving" \/ ~request[k].own \/ ~ExchangesNonce(k),
         there = "answered" => (ExchangesNonce(k) => pc[k] = "stored") /\ status'[k] = Status(request[k]),
         \A j \in Call : j # k => status'[j] = status[j]
  PROVE  StepInv'
<1>1. \A j \in Call : j # k => pc'[j] = pc[j]
  BY DEF MapsInv
<1>2. pc'[k] = there
  BY DEF MapsInv
<1>3. \A j \in Call : Active(j)' => Active(j)
  BY <1>1 DEF Active
<1>4. \A j \in Call : ExchangesNonce(j)' = ExchangesNonce(j) /\ ClientId(request[j])' = ClientId(request[j])
                      /\ ServerId(request[j])' = ServerId(request[j]) /\ Status(request[j])' = Status(request[j])
  BY DEF ExchangesNonce, ClientId, Ip, ServerId, Status
<1>5. \A j \in Call : Behind(j)' => Behind(j)
  BY <1>1, <1>2, <1>4 DEF Behind
<1>6. \A i, j \in Call : Overlapped(i, j)' = Overlapped(i, j)
  BY DEF Overlapped
<1>7. \A e \in Entries(received_nonce_map[Server]) : e.nonce \in Call
  <2> SUFFICES ASSUME NEW e \in Entries(received_nonce_map[Server]) PROVE e.nonce \in Call
    OBVIOUS
  <2>1. e \in Filed
    BY DEF KeyInv, Entries
  <2> QED BY <2>1 DEF Filed
<1>8. \A j \in Call : ExchangesNonce(j) /\ Kept(j)' => Kept(j)
  BY <1>1, <1>2 DEF Kept
<1>9. ASSUME NEW e \in Entries(received_nonce_map[Server])
      PROVE  /\ ExchangesNonce(e.nonce)'
             /\ \A j \in Call : Behind(j)' /\ ClientId(request[j])' = e.id => Overlapped(e.nonce, j)'
             /\ Kept(e.nonce)' =>
                  \A f \in Entries(received_nonce_map[request[e.nonce].client]) :
                    f.id = ServerId(request[e.nonce])' => Overlapped(f.nonce, e.nonce)'
  <2>1. PICK n \in Call : n = e.nonce
    BY <1>7
  <2>2. ExchangesNonce(n)' /\ \A j \in Call : Behind(j)' /\ ClientId(request[j])' = e.id => Overlapped(n, j)'
    BY <1>4, <1>5, <1>6, <2>1 DEF StepInv
  <2>3. \A f : Overlapped(f, n)' = Overlapped(f, n)
    BY DEF Overlapped
  <2> QED BY <1>4, <1>8, <2>1, <2>2, <2>3 DEF StepInv
<1>10. \A j \in Call : (pc[j] = "answered" => status[j] = Status(request[j]))'
  BY <1>1, <1>2, <1>4 DEF StepInv
<1>11. \A j \in Call : (pc[j] \in {"stored", "saving"} => ExchangesNonce(j))'
  BY <1>1, <1>2, <1>4 DEF StepInv
<1>12. \A i, j \in Call : (Active(i) /\ Active(j) => Overlapped(i, j))'
  BY <1>3, <1>6 DEF StepInv
<1> QED BY <1>9, <1>10, <1>11, <1>12 DEF StepInv, Entries

\* A new call: it is in flight together with all that are.
LEMMA StepBegin ==
  ASSUME MapsInv, KeyInv, StepInv, NEW k \in Call, NEW r \in Input[k], Begin(k, r)
  PROVE  StepInv'
<1>1. /\ pc[k] = "off" /\ pc' = [pc EXCEPT ![k] = "connecting"] /\ request' = [request EXCEPT ![k] = r]
      /\ overlap' = overlap \cup {{j, k} : j \in {i \in Call : Active(i)}}
      /\ UNCHANGED <<config, status, maps>>
  BY DEF Begin, Goto, lifecycle
<1>2. /\ pc'[k] = "connecting" /\ \A j \in Call : j # k => pc'[j] = pc[j] /\ request'[j] = request[j]
  BY <1>1 DEF MapsInv
<1>3. \A i, j : Overlapped(i, j) => Overlapped(i, j)'
  BY <1>1 DEF Overlapped
<1>4. ASSUME NEW i \in Call, NEW j \in Call, Active(i)', Active(j)' PROVE Overlapped(i, j)'
  <2>1. CASE i # k /\ j # k
    BY <1>2, <1>3, <1>4, <2>1 DEF Active, StepInv
  <2>2. CASE i = k /\ j # k
    <3>1. Active(j) /\ {j, i} = {i, j}
      BY <1>2, <1>4, <2>2 DEF Active
    <3> QED BY <1>1, <2>2, <3>1 DEF Overlapped
  <2>3. CASE i # k /\ j = k
    <3>1. Active(i)
      BY <1>2, <1>4, <2>3 DEF Active
    <3> QED BY <1>1, <2>3, <3>1 DEF Overlapped
  <2>4. CASE i = k /\ j = k
    BY <2>4 DEF Overlapped
  <2> QED BY <2>1, <2>2, <2>3, <2>4
<1>5. \A j \in Call : j # k => /\ ExchangesNonce(j)' = ExchangesNonce(j)
                               /\ ClientId(request[j])' = ClientId(request[j])
                               /\ ServerId(request[j])' = ServerId(request[j])
                               /\ Status(request[j])' = Status(request[j])
                               /\ Behind(j)' = Behind(j) /\ Kept(j)' = Kept(j)
  BY <1>1, <1>2 DEF ExchangesNonce, ClientId, Ip, ServerId, Status, Behind, Kept
<1>6. ~Behind(k)'
  BY <1>2 DEF Behind
<1>7. ASSUME NEW e \in Entries(received_nonce_map[Server])
      PROVE  /\ ExchangesNonce(e.nonce)'
             /\ \A j \in Call : Behind(j)' /\ ClientId(request[j])' = e.id => Overlapped(e.nonce, j)'
             /\ Kept(e.nonce)' =>
                  \A f \in Entries(received_nonce_map[request'[e.nonce].client]) :
                    f.id = ServerId(request[e.nonce])' => Overlapped(f.nonce, e.nonce)'
  <2>1. PICK n \in Call : n = e.nonce /\ n # k
    <3>1. e \in Filed
      BY DEF KeyInv, Entries
    <3> QED BY <1>1, <3>1 DEF Filed, KeyInv
  <2>2. request'[n] = request[n]
    BY <1>2, <2>1
  <2> QED BY <1>3, <1>5, <1>6, <2>1, <2>2 DEF StepInv
<1>8. \A j \in Call : (pc[j] = "answered" => status[j] = Status(request[j]))'
  BY <1>1, <1>2, <1>5 DEF StepInv
<1>9. \A j \in Call : (pc[j] \in {"stored", "saving"} => ExchangesNonce(j))'
  BY <1>2, <1>5 DEF StepInv
<1>10. received_nonce_map' = received_nonce_map
  BY <1>1 DEF maps
<1> QED BY <1>4, <1>7, <1>8, <1>9, <1>10 DEF StepInv, Entries

\* The server files the nonces of a call: what it held for this client is gone.
LEMMA StepExchange ==
  ASSUME MapsInv, KeyInv, HttpTypes, StepInv, NEW k \in Call, NonceExchange(k)
  PROVE  StepInv'
<1> DEFINE old == received_nonce_map[Server]
           id == ClientId(request[k])
<1>1. /\ pc[k] = "sent" /\ ExchangesNonce(k) /\ pc' = [pc EXCEPT ![k] = "stored"]
      /\ received_nonce_map' = [received_nonce_map EXCEPT ![Server] = Put(old, id, k)]
      /\ UNCHANGED <<config, request, status, overlap>>
  BY DEF NonceExchange, StoreReceived, Goto, lifecycle
<1>2. PICK new : /\ new = received_nonce_map'[Server]
                 /\ Entries(new) \subseteq Entries(old) \cup {[id |-> id, nonce |-> k]}
                 /\ \A e \in Entries(new) : e.id = id => e.nonce = k
  <2> DEFINE Entry == Entries(old) \cup {[id |-> id, nonce |-> k]}
  <2>1. old \in Seq(Entry) /\ [id |-> id, nonce |-> k] \in Entry /\ Distinct(old)
    BY SeqMonotonic DEF HttpTypes, IsMap, Side
  <2> HIDE DEF Entry, id, old
  <2>2. /\ Entries(Put(old, id, k)) \subseteq Entries(old) \cup {[id |-> id, nonce |-> k]}
        /\ \A e \in Entries(Put(old, id, k)) : e.id = id => e.nonce = k
    BY <2>1, PutEntries
  <2>3. received_nonce_map'[Server] = Put(old, id, k)
    BY <1>1 DEF MapsInv, Side
  <2> QED BY <2>2, <2>3
<1>3. pc'[k] = "stored" /\ \A j \in Call : j # k => pc'[j] = pc[j]
  BY <1>1 DEF MapsInv
<1>4. \A j \in Call : ExchangesNonce(j)' = ExchangesNonce(j) /\ ClientId(request[j])' = ClientId(request[j])
                      /\ ServerId(request[j])' = ServerId(request[j]) /\ Status(request[j])' = Status(request[j])
  BY <1>1 DEF ExchangesNonce, ClientId, Ip, ServerId, Status
<1>5. \A i, j : Overlapped(i, j)' = Overlapped(i, j)
  BY <1>1 DEF Overlapped
<1>6. \A j \in Call : Active(j)' = Active(j)
  BY <1>1, <1>3 DEF Active
<1>7. \A j \in Call : j # k => Behind(j)' = Behind(j) /\ Kept(j)' = Kept(j)
  BY <1>1, <1>3, <1>4 DEF Behind, Kept
<1>8. \A j \in Call : Behind(j) => Active(j)
  BY DEF Behind, Active
<1>9. ASSUME NEW e \in Entries(new)
      PROVE  /\ ExchangesNonce(e.nonce)'
             /\ \A j \in Call : Behind(j)' /\ ClientId(request[j])' = e.id => Overlapped(e.nonce, j)'
             /\ Kept(e.nonce)' =>
                  \A f \in Entries(received_nonce_map'[request'[e.nonce].client]) :
                    f.id = ServerId(request[e.nonce])' => Overlapped(f.nonce, e.nonce)'
  <2>1. CASE e.nonce = k
    <3>1. Active(k)
      BY <1>1 DEF Active
    <3>2. ASSUME NEW j \in Call, Behind(j)' PROVE Overlapped(k, j)'
      <4>1. CASE j = k
        BY <4>1 DEF Overlapped
      <4>2. CASE j # k
        BY <1>5, <1>7, <1>8, <3>1, <3>2, <4>2 DEF StepInv
      <4> QED BY <4>1, <4>2
    <3>3. ~Kept(k)'
      BY <1>3 DEF Kept
    <3> QED BY <1>1, <1>4, <2>1, <3>2, <3>3
  <2>2. CASE e.nonce # k
    <3>1. e \in Entries(old) /\ e.id # id
      BY <1>2, <1>9, <2>2
    <3>2. PICK n \in Call : n = e.nonce /\ n # k
      <4>1. e \in Filed
        BY <3>1 DEF KeyInv, Entries
      <4> QED BY <2>2, <4>1 DEF Filed
    <3>3. ASSUME NEW j \in Call, Behind(j)', ClientId(request[j])' = e.id PROVE Overlapped(n, j)'
      <4>1. j # k
        BY <1>4, <3>1, <3>3
      <4> QED BY <1>4, <1>5, <1>7, <3>1, <3>2, <3>3, <4>1 DEF StepInv
    <3>4. Kept(n)' =>
            \A f \in Entries(received_nonce_map'[request'[n].client]) :
              f.id = ServerId(request[n])' => Overlapped(f.nonce, n)'
      <4>1. Kept(n)' => Kept(n) /\ request[n].client \in Side /\ request[n].client # Server
        BY <1>7, <3>2, ClientIsDevice DEF Kept
      <4>2. Kept(n) /\ request[n].client \in Side /\ request[n].client # Server =>
              received_nonce_map'[request'[n].client] = received_nonce_map[request[n].client]
        BY <1>1 DEF MapsInv
      <4> QED BY <1>4, <1>5, <3>1, <3>2, <4>1, <4>2 DEF StepInv
    <3>5. ExchangesNonce(n)'
      BY <1>4, <3>1, <3>2 DEF StepInv
    <3> QED BY <3>2, <3>3, <3>4, <3>5
  <2> QED BY <2>1, <2>2
<1>10. \A j \in Call : (pc[j] = "answered" => status[j] = Status(request[j]))'
  BY <1>1, <1>3, <1>4 DEF StepInv
<1>11. \A j \in Call : (pc[j] \in {"stored", "saving"} => ExchangesNonce(j))'
  BY <1>1, <1>3, <1>4 DEF StepInv
<1>12. \A i, j \in Call : (Active(i) /\ Active(j) => Overlapped(i, j))'
  BY <1>5, <1>6 DEF StepInv
<1> QED BY <1>2, <1>9, <1>10, <1>11, <1>12 DEF StepInv, Entries

\* What tells two calls of one client apart from the server's side does so on the
\* client's side: the address of the server names the IP version, its key does not.
LEMMA SameIds ==
  ASSUME KeyInv, NEW j \in Call, NEW k \in Call, pc[j] # "off", Handshake(request[j].client),
         request[j].client = request[k].client, ServerId(request[j]) = ServerId(request[k])
  PROVE  ClientId(request[j]) = ClientId(request[k])
<1>1. CASE config.tls
  BY <1>1 DEF ClientId, Handshake
<1>2. CASE ~config.tls
  <2>1. request[j].host = request[k].host
    BY <1>2 DEF ServerId
  <2> QED BY <1>2, <2>1 DEF ClientId, Ip
<1> QED BY <1>1, <1>2

\* The client files the nonces of a call: what it held for this server is gone, and of
\* what the server holds for this client nothing is older than the call.
LEMMA StepSave ==
  ASSUME MapsInv, KeyInv, HttpTypes, StepInv, NEW k \in Call, SaveReceived(k)
  PROVE  StepInv'
<1> DEFINE d == request[k].client
           old == received_nonce_map[d]
           id == ServerId(request[k])
<1>1. /\ pc[k] = "answered" /\ SavesNonce(k) /\ pc' = [pc EXCEPT ![k] = "saving"]
      /\ received_nonce_map' = [received_nonce_map EXCEPT ![d] = Put(old, id, k)]
      /\ UNCHANGED <<config, request, status, overlap>>
  BY DEF SaveReceived, StoreReceived, Goto, lifecycle
<1>2. d \in Side /\ d # Server
  BY <1>1, ClientIsDevice
<1>3. PICK new : /\ new = received_nonce_map'[d]
                 /\ Entries(new) \subseteq Entries(old) \cup {[id |-> id, nonce |-> k]}
                 /\ \A e \in Entries(new) : e.id = id => e.nonce = k
  <2> DEFINE Entry == Entries(old) \cup {[id |-> id, nonce |-> k]}
  <2>1. old \in Seq(Entry) /\ [id |-> id, nonce |-> k] \in Entry /\ Distinct(old)
    BY <1>2, SeqMonotonic DEF HttpTypes, IsMap
  <2> HIDE DEF Entry, id, old
  <2>2. /\ Entries(Put(old, id, k)) \subseteq Entries(old) \cup {[id |-> id, nonce |-> k]}
        /\ \A e \in Entries(Put(old, id, k)) : e.id = id => e.nonce = k
    BY <2>1, PutEntries
  <2>3. received_nonce_map'[d] = Put(old, id, k)
    BY <1>1, <1>2 DEF MapsInv
  <2> QED BY <2>2, <2>3
<1>4. received_nonce_map'[Server] = received_nonce_map[Server]
      /\ \A s \in Side : s # d => received_nonce_map'[s] = received_nonce_map[s]
  BY <1>1, <1>2 DEF MapsInv, Side
<1>5. pc'[k] = "saving" /\ \A j \in Call : j # k => pc'[j] = pc[j]
  BY <1>1 DEF MapsInv
<1>6. \A j \in Call : ExchangesNonce(j)' = ExchangesNonce(j) /\ ClientId(request[j])' = ClientId(request[j])
                      /\ ServerId(request[j])' = ServerId(request[j]) /\ Status(request[j])' = Status(request[j])
  BY <1>1 DEF ExchangesNonce, ClientId, Ip, ServerId, Status
<1>7. \A i, j : Overlapped(i, j)' = Overlapped(i, j)
  BY <1>1 DEF Overlapped
<1>8. ExchangesNonce(k)
  BY <1>1 DEF SavesNonce, StepInv, ExchangesNonce
<1>9. \A j \in Call : Active(j)' = Active(j) /\ Behind(j)' = Behind(j) /\ (j # k => Kept(j)' = Kept(j))
  BY <1>1, <1>5, <1>6, <1>8 DEF Active, Behind, Kept
<1>10. ASSUME NEW e \in Entries(received_nonce_map[Server])
      PROVE  /\ ExchangesNonce(e.nonce)'
             /\ \A j \in Call : Behind(j)' /\ ClientId(request[j])' = e.id => Overlapped(e.nonce, j)'
             /\ Kept(e.nonce)' =>
                  \A f \in Entries(received_nonce_map'[request'[e.nonce].client]) :
                    f.id = ServerId(request[e.nonce])' => Overlapped(f.nonce, e.nonce)'
  <2>1. PICK n \in Call : n = e.nonce /\ pc[n] # "off"
    <3>1. e \in Filed
      BY DEF KeyInv, Entries
    <3> QED BY <3>1 DEF Filed, KeyInv
  <2>2. ExchangesNonce(n)' /\ \A j \in Call : Behind(j)' /\ ClientId(request[j])' = e.id => Overlapped(n, j)'
    BY <1>6, <1>7, <1>9, <2>1 DEF StepInv
  <2>3. ASSUME Kept(n)', NEW f \in Entries(received_nonce_map'[request[n].client]),
               f.id = ServerId(request[n])
        PROVE  Overlapped(f.nonce, n)
    <3>1. CASE n = k
      BY <1>3, <2>3, <3>1 DEF Overlapped
    <3>2. CASE n # k /\ request[n].client # d
      <4>1. request[n].client \in Side /\ Kept(n)
        BY <1>9, <2>1, <2>3, <3>2, ClientIsDevice
      <4>2. f \in Entries(received_nonce_map[request[n].client])
        BY <1>4, <2>3, <3>2, <4>1
      <4> QED BY <2>1, <2>3, <4>1, <4>2 DEF StepInv
    <3>3. CASE n # k /\ request[n].client = d
      <4>1. Kept(n)
        BY <1>9, <2>3, <3>3
      <4>2. CASE f \in Entries(old)
        BY <2>1, <2>3, <3>3, <4>1, <4>2 DEF StepInv
      <4>3. CASE f = [id |-> id, nonce |-> k]
        <5>1. ServerId(request[n]) = ServerId(request[k])
          BY <2>3, <4>3
        <5>2. Handshake(request[n].client) /\ e.id = ClientId(request[n])
          BY <2>1 DEF KeyInv
        <5>3. ClientId(request[k]) = e.id
          BY <2>1, <3>3, <5>1, <5>2, SameIds
        <5>4. Behind(k)
          BY <1>1, <1>8 DEF Behind
        <5>5. Overlapped(n, k)
          BY <2>1, <5>3, <5>4 DEF StepInv
        <5>6. {n, k} = {k, n}
          OBVIOUS
        <5> QED BY <4>3, <5>5, <5>6 DEF Overlapped
      <4> QED BY <1>3, <2>3, <3>3, <4>2, <4>3
    <3> QED BY <3>1, <3>2, <3>3
  <2> QED BY <1>1, <1>6, <1>7, <2>1, <2>2, <2>3
<1>11. \A j \in Call : (pc[j] = "answered" => status[j] = Status(request[j]))'
  BY <1>1, <1>5, <1>6 DEF StepInv
<1>12. \A j \in Call : (pc[j] \in {"stored", "saving"} => ExchangesNonce(j))'
  BY <1>5, <1>6, <1>8 DEF StepInv
<1>13. \A i, j \in Call : (Active(i) /\ Active(j) => Overlapped(i, j))'
  BY <1>7, <1>9 DEF StepInv
<1> QED BY <1>4, <1>10, <1>11, <1>12, <1>13 DEF StepInv, Entries

LEMMA StepNext == MapsInv /\ KeyInv /\ HttpTypes /\ StepInv /\ [Next]_vars => StepInv'
<1> SUFFICES ASSUME MapsInv, KeyInv, HttpTypes, StepInv, [Next]_vars PROVE StepInv'
  OBVIOUS
<1>1. ASSUME UNCHANGED <<config, request, pc, status, maps, overlap>> PROVE StepInv'
  BY <1>1 DEF StepInv, maps, ExchangesNonce, Status, Active, Overlapped, Behind, Kept, ClientId, Ip, ServerId, Entries
<1>2. CASE FailV4 \/ FailV6 \/ Stop \/ (\E h \in Host : Bind(h)) \/ UNCHANGED vars
  BY <1>1, <1>2 DEF FailV4, FailV6, Stop, Bind, UnchangedByServer, vars, lifecycle
<1>3. ASSUME NEW k \in Call, Progress(k) \/ Break(k) PROVE StepInv'
  <2>1. CASE Reuse(k)
    BY <2>1, StepKept DEF Reuse, Goto, lifecycle, maps, Place, Active
  <2>2. CASE Connect(k)
    <3> DEFINE there == IF UrlValid(request[k]) /\ listener[request[k].host] = "listening"
                           /\ Handshake(request[k].client) THEN "sent" ELSE "error"
    <3>1. there \in {"sent", "error"} /\ there \in Place /\ pc' = [pc EXCEPT ![k] = there] /\ Active(k)
      BY <2>2 DEF Connect, Goto, Place, Active
    <3> HIDE DEF there
    <3> QED BY <2>2, <3>1, StepKept DEF Connect, lifecycle, maps
  <2>3. CASE Respond(k)
    <3>1. status' = [status EXCEPT ![k] = Status(request[k])] /\ status'[k] = Status(request[k])
      BY <2>3 DEF Respond, HttpTypes
    <3>2. pc' = [pc EXCEPT ![k] = "answered"] /\ Active(k) /\ ~ExchangesNonce(k)
      BY <2>3 DEF Respond, Goto, Active
    <3>3. \A j \in Call : j # k => status'[j] = status[j]
      BY <3>1 DEF HttpTypes
    <3> QED BY <2>3, <3>1, <3>2, <3>3, StepKept DEF Respond, lifecycle, maps, Place
  <2>4. CASE Break(k)
    BY <2>4, StepKept DEF Break, Goto, lifecycle, maps, Place, Active
  <2>5. CASE Return(k)
    <3> DEFINE there == IF ~request[k].own \/ Succeeds(k) THEN "ok" ELSE "error"
    <3>1. there \in {"ok", "error"} /\ there \in Place /\ pc' = [pc EXCEPT ![k] = there] /\ Active(k)
      BY <2>5 DEF Return, Goto, Place, Active
    <3>2. there = "ok" => ~request[k].own \/ ~ExchangesNonce(k)
      BY DEF Succeeds, ExchangesNonce
    <3> HIDE DEF there
    <3> QED BY <2>5, <3>1, <3>2, StepKept DEF Return, lifecycle, maps
  <2>6. CASE NonceExchange(k)
    BY <2>6, StepExchange
  <2>7. CASE NonceAnswer(k)
    <3>1. pc[k] = "stored" /\ ExchangesNonce(k) /\ Status(request[k]) = 200
      BY <2>7 DEF NonceAnswer, StepInv, ExchangesNonce
    <3>2. status' = [status EXCEPT ![k] = 200] /\ status'[k] = Status(request[k])
      BY <2>7, <3>1 DEF NonceAnswer, HttpTypes
    <3>3. pc' = [pc EXCEPT ![k] = "answered"] /\ Active(k)
      BY <2>7, <3>1 DEF NonceAnswer, Goto, Active
    <3>4. \A j \in Call : j # k => status'[j] = status[j]
      BY <3>2 DEF HttpTypes
    <3> QED BY <2>7, <3>1, <3>2, <3>3, <3>4, StepKept DEF NonceAnswer, StoreGenerated, lifecycle, Place
  <2>8. CASE SaveReceived(k)
    BY <2>8, StepSave
  <2>9. CASE SaveGenerated(k)
    BY <2>9, StepKept DEF SaveGenerated, StoreGenerated, Goto, lifecycle, Place, Active
  <2> QED BY <1>3, <2>1, <2>2, <2>3, <2>4, <2>5, <2>6, <2>7, <2>8, <2>9 DEF Progress
<1> QED BY <1>2, <1>3, StepBegin DEF Next

\* When nonce() has returned the exchange that the server holds for its caller, the
\* caller holds the same for that server, or one of a call that ran at the same time:
\* the two sides are out of step only by calls that overlapped.
THEOREM SidesInStep == Spec => []InStep
<1>1. MapsInv /\ KeyInv /\ StepInv => InStep
  <2> SUFFICES ASSUME MapsInv, KeyInv, StepInv, NEW e \in Entries(received_nonce_map[Server]),
                      request[e.nonce].own, pc[e.nonce] = "ok",
                      NEW f \in Entries(received_nonce_map[request[e.nonce].client]),
                      f.id = ServerId(request[e.nonce])
               PROVE  f.nonce = e.nonce \/ {f.nonce, e.nonce} \in overlap
    BY DEF InStep
  <2>1. Kept(e.nonce)
    BY DEF Kept
  <2> QED BY <2>1 DEF StepInv, Overlapped
<1> QED BY <1>1, MapsInit, MapsNext, KeyInit, KeyNext, HttpTypesInit, HttpTypesNext, StepInit, StepNext, PTL
        DEF Spec
=============================================================================
