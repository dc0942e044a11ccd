------------------------------- MODULE HttpV3 -------------------------------
(***************************************************************************)
(* The HTTP server and client of the core (core/src/http): the start of    *)
(* the server on IPv4 and IPv6, the TLS handshake with its mandatory       *)
(* client certificate, the routes, and the nonce exchange after which both *)
(* sides hold the two nonces under an identifier of the other.             *)
(*                                                                         *)
(* A nonce is named by the call in whose exchange it was generated, so     *)
(* both maps of a side hold calls; the address of a client is its network  *)
(* and the IP version.  Several calls of one LsHttpClient may run at once  *)
(* (its methods take &self).                                               *)
(***************************************************************************)
EXTENDS Naturals, SequencesExt

CONSTANTS
  Device,       \* clients of the server
  NetworkOf,    \* network of a device: devices of one network share an IPv4 address
  CertOf,       \* certificate a device presents, NoCert for none
  NoCert,
  Configs,      \* input: tls_config, its certificate and legacy_enabled
  Input,        \* input: the requests that each call may make
  MaxCalls,     \* bound: number of calls
  Capacity      \* size of the LruCaches (200)

Call == 1..MaxCalls
NoCall == 0
NoRequest == <<>>
Server == "server"
Side == Device \cup {Server}
Host == {"v4", "v6"}

\* What verify_cert_from_cert looks at: the time validity, the key, the self-signature.
Cert == [key : STRING, current : BOOLEAN, signed : BOOLEAN]
Path == {"v2/register", "v2/prepare-upload", "v2/upload", "v2/cancel",
         "v3/nonce", "v3/register", "v3/prepare-upload", "v3/upload", "v3/cancel"}
Body == {"nonce", "other length", "not base64", "register", "files", "binary", "none"}

\* A request; `own` if an LsHttpClient makes it, and not another HTTP client.
Request == [client : Device, path : Path, body : Body, host : Host, own : BOOLEAN]

ASSUME HttpAssumption ==
  /\ Capacity \in Nat \ {0} /\ MaxCalls \in Nat
  /\ Input \in [Call -> SUBSET Request]
  /\ Configs \subseteq [tls : BOOLEAN, cert : Cert, legacy : BOOLEAN]
  /\ Server \notin Device

VARIABLES
  config,     \* tls_config, the certificate and legacy_enabled
  server,     \* the task of start_with_port
  listener,   \* its two sockets
  request,    \* the request of each call
  pc,         \* where each call is
  status,     \* the status of the answer
  idle,       \* connections kept alive
  received_nonce_map, generated_nonce_map, holder,  \* per side; holder of the first's lock
  pinned,     \* public key that register() returned
  overlap     \* history: calls that were in flight at the same time

lifecycle == <<config, server, listener>>
maps == <<received_nonce_map, generated_nonce_map, holder>>
vars == <<lifecycle, request, pc, status, idle, maps, pinned, overlap>>

-----------------------------------------------------------------------------
Active(k) == pc[k] \notin {"off", "ok", "error"}
Goto(k, there) == pc' = [pc EXCEPT ![k] = there]

\* verify_cert_from_cert; expected is "" when no key is given.
VerifyCert(cert, expected) ==
  /\ cert.current
  /\ expected # "" => cert.key = expected
  /\ cert.signed

\* Mutant: client_auth_mandatory returns false.
HandshakeOptional(d) == config.tls => CertOf[d] = NoCert \/ VerifyCert(CertOf[d], "")
\* CustomClientCertVerifier: any certificate that is valid, but not none.
Handshake(d) == config.tls => CertOf[d] # NoCert /\ VerifyCert(CertOf[d], "")

Ip(r) == <<IF r.host = "v4" THEN NetworkOf[r.client] ELSE r.client, r.host>>
\* RequestClientInfo::identifier
ClientId(r) ==
  IF config.tls /\ CertOf[r.client] # NoCert THEN <<"key", CertOf[r.client].key>> ELSE Ip(r)
\* to_identifier
ServerId(r) == IF config.tls THEN <<"key", config.cert.key>> ELSE <<Server, r.host>>

\* An LruCache has one entry at most for an identifier.
Without(map, id) ==
  IF \E i \in DOMAIN map : map[i].id = id
  THEN RemoveAt(map, CHOOSE i \in DOMAIN map : map[i].id = id) ELSE map
\* Mutant: no limit.
PutUnbounded(map, id, k) == <<[id |-> id, nonce |-> k]>> \o Without(map, id)
\* LruCache::put: the newest first, the oldest falls out.
Put(map, id, k) ==
  LET new == <<[id |-> id, nonce |-> k]>> \o Without(map, id)
  IN IF Len(new) > Capacity THEN SubSeq(new, 1, Capacity) ELSE new

\* handle_request_inner and the bodies the handlers take: every path of v2 leads to the
\* register of v2, and v3 has no path but nonce and register.
Status(r) ==
  CASE r.path \in {"v2/register", "v2/prepare-upload", "v2/upload", "v2/cancel"} ->
         IF ~config.legacy THEN 404 ELSE IF r.body = "register" THEN 200 ELSE 400
    [] r.path = "v3/nonce" -> IF r.body = "nonce" THEN 200 ELSE 400
    [] r.path = "v3/register" -> IF r.body = "register" THEN 200 ELSE 400
    [] OTHER -> 404

-----------------------------------------------------------------------------
Init ==
  /\ config \in Configs
  /\ server = "running" /\ listener = [h \in Host |-> "unbound"]
  /\ request = [k \in Call |-> NoRequest]
  /\ pc = [k \in Call |-> "off"] /\ status = [k \in Call |-> 0]
  /\ idle = {}
  /\ received_nonce_map = [s \in Side |-> <<>>] /\ generated_nonce_map = [s \in Side |-> <<>>]
  /\ holder = [s \in Side |-> NoCall]
  /\ pinned = [d \in Device |-> ""] /\ overlap = {}

-----------------------------------------------------------------------------
(* start_with_port: returns at once, the sockets are bound in its task.     *)

UnchangedByServer == UNCHANGED <<config, request, pc, status, idle, maps, pinned, overlap>>

\* Both addresses, in either order; whether the system lets them share the port or
\* not is left open.
Bind(h) ==
  /\ server = "running" /\ listener[h] = "unbound"
  /\ listener' = [listener EXCEPT ![h] = "listening"]
  /\ UNCHANGED server /\ UnchangedByServer

\* bind, create_tls_config or accept fails on IPv4: the select! is over.
FailV4 ==
  /\ server = "running" /\ listener["v4"] \in {"unbound", "listening"}
  /\ listener' = [h \in Host |-> IF h = "v4" THEN "failed" ELSE "closed"]
  /\ server' = "ended"
  /\ UnchangedByServer

\* The same on IPv6: this branch sleeps for ever, the other goes on.
FailV6 ==
  /\ server = "running" /\ listener["v6"] \in {"unbound", "listening"}
  /\ listener' = [listener EXCEPT !["v6"] = "failed"]
  /\ UNCHANGED server /\ UnchangedByServer

\* stop_tx is used or dropped.  The tasks of accepted connections are not part of the
\* select! and go on.
Stop ==
  /\ server = "running"
  /\ server' = "stopped" /\ listener' = [h \in Host |-> "closed"]
  /\ UnchangedByServer

-----------------------------------------------------------------------------
(* A call on its way to a handler.                                          *)

Begin(k, r) ==
  /\ pc[k] = "off" /\ \A j \in 1..(k - 1) : pc[j] # "off"
  /\ request' = [request EXCEPT ![k] = r]
  /\ Goto(k, "connecting")
  /\ overlap' = overlap \cup {{j, k} : j \in {i \in Call : Active(i)}}
  /\ UNCHANGED <<lifecycle, status, idle, maps, pinned>>

\* Only nonce() puts an IPv6 address into brackets (TargetUrl); the URLs of the other
\* calls are not valid with one.
UrlValid(r) == r.own /\ r.host = "v6" => r.path = "v3/nonce"

Reuse(k) ==
  LET connection == <<request[k].client, request[k].host>> IN
  /\ pc[k] = "connecting" /\ UrlValid(request[k]) /\ connection \in idle
  /\ idle' = idle \ {connection}
  /\ Goto(k, "sent")
  /\ UNCHANGED <<lifecycle, request, status, maps, pinned, overlap>>

Connect(k) ==
  LET r == request[k] IN
  /\ pc[k] = "connecting" /\ (UrlValid(r) => <<r.client, r.host>> \notin idle)
  /\ Goto(k, IF UrlValid(r) /\ listener[r.host] = "listening" /\ Handshake(r.client)
             THEN "sent" ELSE "error")
  /\ UNCHANGED <<lifecycle, request, status, idle, maps, pinned, overlap>>

\* The connection breaks: a handler that still waits is dropped, or its answer is lost.
Break(k) ==
  /\ pc[k] \in {"sent", "answered"}
  /\ Goto(k, "error")
  /\ UNCHANGED <<lifecycle, request, status, idle, maps, pinned, overlap>>

-----------------------------------------------------------------------------
(* The handlers.                                                            *)

ExchangesNonce(k) == request[k].path = "v3/nonce" /\ Status(request[k]) = 200

\* Everything but a good nonce changes no state.
Respond(k) ==
  /\ pc[k] = "sent" /\ ~ExchangesNonce(k)
  /\ status' = [status EXCEPT ![k] = Status(request[k])]
  /\ Goto(k, "answered")
  /\ UNCHANGED <<lifecycle, request, idle, maps, pinned, overlap>>

\* The two halves of an exchange on a side: the lock of the first map is kept until the
\* second map is written.
StoreReceived(s, k, id) ==
  /\ holder[s] = NoCall
  /\ holder' = [holder EXCEPT ![s] = k]
  /\ received_nonce_map' = [received_nonce_map EXCEPT ![s] = Put(@, id, k)]
  /\ UNCHANGED generated_nonce_map
StoreGenerated(s, k, id) ==
  /\ holder[s] = k
  /\ holder' = [holder EXCEPT ![s] = NoCall]
  /\ generated_nonce_map' = [generated_nonce_map EXCEPT ![s] = Put(@, id, k)]
  /\ UNCHANGED received_nonce_map

\* Mutant: the guard of the first map is dropped early.
NonceExchangeUnlocked(k) ==
  /\ pc[k] = "sent" /\ ExchangesNonce(k) /\ holder[Server] = NoCall
  /\ received_nonce_map' = [received_nonce_map EXCEPT ![Server] = Put(@, ClientId(request[k]), k)]
  /\ Goto(k, "stored")
  /\ UNCHANGED <<lifecycle, request, status, idle, generated_nonce_map, holder, pinned, overlap>>

\* nonce_exchange
NonceExchange(k) ==
  /\ pc[k] = "sent" /\ ExchangesNonce(k)
  /\ StoreReceived(Server, k, ClientId(request[k]))
  /\ Goto(k, "stored")
  /\ UNCHANGED <<lifecycle, request, status, idle, pinned, overlap>>

\* Mutant: the first map is locked a second time.
NonceAnswerRelocks(k) ==
  /\ pc[k] = "stored" /\ holder[Server] = NoCall
  /\ StoreGenerated(Server, k, ClientId(request[k]))
  /\ status' = [status EXCEPT ![k] = 200]
  /\ Goto(k, "answered")
  /\ UNCHANGED <<lifecycle, request, idle, pinned, overlap>>

NonceAnswer(k) ==
  /\ pc[k] = "stored"
  /\ StoreGenerated(Server, k, ClientId(request[k]))
  /\ status' = [status EXCEPT ![k] = 200]
  /\ Goto(k, "answered")
  /\ UNCHANGED <<lifecycle, request, idle, pinned, overlap>>

-----------------------------------------------------------------------------
(* The caller and the answer.                                               *)

\* A connection whose answer is read is kept, unless the other side has closed it.
KeepAlive(k) ==
  \/ idle' = idle \cup {<<request[k].client, request[k].host>>}
  \/ UNCHANGED idle

\* verify_cert_from_res
ServerVerified(expected) == config.tls /\ VerifyCert(config.cert, expected)
SavesNonce(k) ==
  /\ request[k].own /\ request[k].path = "v3/nonce"
  /\ status[k] = 200 /\ (config.tls => ServerVerified(""))

\* register() does not look at the status, but needs the body of a 200; cancel() looks
\* at neither; prepare_upload() verifies the certificate against the key of register().
Succeeds(k) ==
  LET r == request[k] IN
  CASE r.path = "v3/cancel" -> TRUE
    [] r.path = "v3/register" -> status[k] = 200 /\ (config.tls => ServerVerified(""))
    [] r.path = "v3/prepare-upload" ->
         status[k] = 200 /\ (pinned[r.client] # "" => ServerVerified(pinned[r.client]))
    [] OTHER -> status[k] = 200 /\ r.path # "v3/nonce"

Return(k) ==
  LET r == request[k] IN
  /\ pc[k] = "answered" /\ ~SavesNonce(k)
  /\ Goto(k, IF ~r.own \/ Succeeds(k) THEN "ok" ELSE "error")
  /\ pinned' = IF r.own /\ r.path = "v3/register" /\ Succeeds(k) /\ config.tls
               THEN [pinned EXCEPT ![r.client] = config.cert.key] ELSE pinned
  /\ KeepAlive(k)
  /\ UNCHANGED <<lifecycle, request, status, maps, overlap>>

\* Mutant: a server that is known already is not saved again.
SaveReceivedOnce(k) ==
  LET id == ServerId(request[k])
      map == received_nonce_map[request[k].client]
      known == \E i \in DOMAIN map : map[i].id = id
  IN
  /\ pc[k] = "answered" /\ SavesNonce(k)
  /\ IF known THEN UNCHANGED maps ELSE StoreReceived(request[k].client, k, id)
  /\ Goto(k, IF known THEN "ok" ELSE "saving") /\ KeepAlive(k)
  /\ UNCHANGED <<lifecycle, request, status, pinned, overlap>>

\* nonce(), after the answer has been verified and decoded.
SaveReceived(k) ==
  /\ pc[k] = "answered" /\ SavesNonce(k)
  /\ StoreReceived(request[k].client, k, ServerId(request[k]))
  /\ Goto(k, "saving") /\ KeepAlive(k)
  /\ UNCHANGED <<lifecycle, request, status, pinned, overlap>>
SaveGenerated(k) ==
  /\ pc[k] = "saving"
  /\ StoreGenerated(request[k].client, k, ServerId(request[k]))
  /\ Goto(k, "ok")
  /\ UNCHANGED <<lifecycle, request, status, idle, pinned, overlap>>

-----------------------------------------------------------------------------
Progress(k) ==
  \/ Reuse(k) \/ Connect(k) \/ Respond(k) \/ NonceExchange(k) \/ NonceAnswer(k)
  \/ Return(k) \/ SaveReceived(k) \/ SaveGenerated(k)
Next ==
  \/ FailV4 \/ FailV6 \/ Stop \/ \E h \in Host : Bind(h)
  \/ \E k \in Call : Progress(k) \/ Break(k) \/ \E r \in Input[k] : Begin(k, r)
Spec == Init /\ [][Next]_vars
\* Tokio runs every task that can go on; its mutexes serve the tasks in turn.
FairSpec == Spec /\ \A k \in Call : WF_vars(Progress(k))

-----------------------------------------------------------------------------
Entries(map) == {map[i] : i \in DOMAIN map}

\* The types; an LruCache keeps one entry for an identifier, and no more than its size.
HttpTypeOK ==
  /\ pc \in [Call -> {"off", "connecting", "sent", "stored", "answered", "saving", "ok", "error"}]
  /\ status \in [Call -> {0, 200, 400, 404}] /\ holder \in [Side -> Call \cup {NoCall}]
  /\ request \in [Call -> (UNION {Input[k] : k \in Call}) \cup {NoRequest}] /\ idle \subseteq Device \X Host
  /\ \A map \in {received_nonce_map[s] : s \in Side} \cup {generated_nonce_map[s] : s \in Side} :
       /\ Len(map) <= Capacity
       /\ \A i, j \in DOMAIN map : map[i].id = map[j].id => i = j

\* The nonce received from a device and the nonce generated for it come from one
\* exchange, on both sides, however many exchanges run at once: a side that nobody is
\* writing holds the same calls, in the same order of age, in its two maps.
SameExchange ==
  \A s \in Side : holder[s] = NoCall => received_nonce_map[s] = generated_nonce_map[s]

\* Over TLS the server files nonces under the key of a valid certificate of the very
\* client of the exchange, never under an address that devices share.
FiledUnderKey ==
  config.tls => \A e \in Entries(received_nonce_map[Server]) :
    LET cert == CertOf[request[e.nonce].client] IN
    cert # NoCert /\ VerifyCert(cert, "") /\ e.id = <<"key", cert.key>>

\* The two sides agree: if nonce() returned the exchange that the server holds for its
\* caller, the caller holds the same, or one of a call that ran at the same time.
InStep ==
  \A e \in Entries(received_nonce_map[Server]) :
    LET k == e.nonce  r == request[k] IN
    (r.own /\ pc[k] = "ok") =>
      \A f \in Entries(received_nonce_map[r.client]) :
        f.id = ServerId(r) => f.nonce = k \/ {f.nonce, k} \in overlap

\* Every call returns: no exchange waits for ever for the maps of either side.
CallEnds == \A k \in Call : Active(k) ~> ~Active(k)
=============================================================================
