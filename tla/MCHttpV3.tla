------------------------------ MODULE MCHttpV3 ------------------------------
(* Instances of HttpV3 for TLC. *)
EXTENDS HttpV3
CONSTANTS c, d, e, n, n2

\* Three devices; e shares its IPv4 address with c, is not an LsHttpClient and has no
\* certificate.
TwoNetworks == [x \in Device |-> IF x = d THEN n2 ELSE n]
Valid(k) == [key |-> k, current |-> TRUE, signed |-> TRUE]
Certs == [x \in Device |-> IF x = c THEN Valid("kc") ELSE IF x = d THEN Valid("kd") ELSE NoCert]
Http == [tls |-> FALSE, cert |-> Valid("ks"), legacy |-> TRUE]
Https == [Http EXCEPT !.tls = TRUE, !.legacy = FALSE]
Outdated == [Https EXCEPT !.cert.current = FALSE]
ThreeConfigs == {Http, Https, Outdated}

Own(x, h, p, b) == [client |-> x, path |-> p, body |-> b, host |-> h, own |-> TRUE]
Other(x, p, b) == [client |-> x, path |-> p, body |-> b, host |-> "v4", own |-> FALSE]
AllRequests ==
  { Own(c, "v4", "v3/nonce", "nonce"), Own(c, "v6", "v3/nonce", "nonce"),
    Own(c, "v4", "v3/register", "register"), Own(c, "v6", "v3/register", "register"),
    Own(c, "v4", "v3/prepare-upload", "files"), Own(c, "v4", "v3/cancel", "none"),
    Own(d, "v4", "v3/nonce", "nonce"),
    Other(e, "v3/nonce", "nonce"), Other(e, "v2/prepare-upload", "files") }
\* The first call is an exchange of c or e, the second may be any, the last one is an
\* exchange of d.
Requests == [k \in Call |->
  CASE k = 1 -> {Own(c, "v4", "v3/nonce", "nonce"), Other(e, "v3/nonce", "nonce")}
    [] k = 2 -> AllRequests
    [] OTHER -> {Own(d, "v4", "v3/nonce", "nonce")}]
=============================================================================
