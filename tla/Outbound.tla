------------------------------ MODULE Outbound ------------------------------
(***************************************************************************)
(* The request an upstream sees (internal/proxy/request.go, headers.go,    *)
(* Engine.forward and writeUpstreamHandshake): the clone of the client's   *)
(* request that every attempt and every WebSocket handshake makes, with    *)
(* the upstream's address, without the hop-by-hop headers and with the     *)
(* X-Forwarded headers.                                                    *)
(*                                                                         *)
(* splitHeaderTokens puts the tokens of Connection in canonical form, as   *)
(* net/http does with names: a name stands for all its spellings.  A value *)
(* of Connection is the names it lists, a line of X-Forwarded-For the      *)
(* addresses in it.                                                        *)
(***************************************************************************)
EXTENDS Headers

CONSTANTS Names,       \* header names of a request, X-Forwarded ones aside
          Keys,        \* query parameters
          Client,      \* the client's address
          Proxy,       \* the address of a proxy before this one
          MaxAttempts  \* 1 + the retries of the route

ASSUME OutboundConfig ==
  /\ MaxAttempts \in Nat
  /\ Client # Proxy
  /\ {"Connection", "Upgrade"} \subseteq Names

hopByHopHeaders == {"Connection", "Proxy-Connection", "Keep-Alive", "Proxy-Authenticate",
                    "Proxy-Authorization", "Te", "Trailer", "Transfer-Encoding", "Upgrade"}

VARIABLES orig,      \* the request as it reached the engine
          in,        \* the request as the engine holds it
          out,       \* the last request handed to the transport
          attempts   \* requests handed over so far

outbound == <<orig, in, out, attempts>>

Request(method, asked, header, query, xff, tls) ==
  [method |-> method, host |-> asked, header |-> header, query |-> query,
   xff |-> xff, tls |-> tls, forwardedHost |-> <<>>, proto |-> ""]

IsRequest(r) ==
  /\ r = Request(r.method, r.host, r.header, r.query, r.xff, r.tls)
  /\ IsHeader(r.header, Names)
  /\ IsHeader(r.query, Keys)

OutboundInit(requests) ==
  /\ orig \in requests
  /\ in = orig
  /\ out = orig
  /\ attempts = 0

\* The clone starts with the values of the original and shares no header with it.
cloneRequest(r) == r

rewriteRequest(r, u) == [r EXCEPT !.host = u]

\* Variant of removeHopByHopHeaders: Upgrade and Connection are kept.
removeHopByHopHeadersBut(h) == Del(h, hopByHopHeaders \ {"Upgrade", "Connection"})

\* The names that the values of Connection list.
Listed(h) == UNION {Range(v) : v \in Range(h["Connection"])}

\* First the fixed names go, then the ones Connection lists by then.
removeHopByHopHeaders(h) ==
  LET left == Del(h, hopByHopHeaders)
  IN  Del(left, Listed(left))

\* The client's address joins the first line of X-Forwarded-For, which becomes the
\* only one.
appendForwardHeaders(r) ==
  [r EXCEPT !.xff = IF @ = <<>> THEN <<<<Client>>>> ELSE <<Append(@[1], Client)>>,
            !.proto = IF r.tls THEN "https" ELSE "http",
            !.forwardedHost = r.host]

prepareOutboundRequest(r) == appendForwardHeaders([r EXCEPT !.header = removeHopByHopHeaders(@)])

\* Variant of forward: the headers of the original are the clone's.
forwardShared(u) ==
  /\ ~(Get(in.header, "Upgrade") = <<"websocket">> /\ "Upgrade" \in Listed(in.header))
  /\ attempts < MaxAttempts
  /\ out' = prepareOutboundRequest(rewriteRequest(in, u))
  /\ in' = [in EXCEPT !.header = out'.header, !.xff = out'.xff]
  /\ attempts' = attempts + 1
  /\ UNCHANGED orig

\* The Upgrade header names websocket and Connection lists it.
isWebSocketUpgrade(r) == Get(r.header, "Upgrade") = <<"websocket">> /\ "Upgrade" \in Listed(r.header)

\* Engine.forward, once per attempt, on a clone with headers of its own (bodies are
\* left out).  An Upgrade header may still be there: of another protocol.
forward(u) ==
  /\ ~isWebSocketUpgrade(in)
  /\ attempts < MaxAttempts
  /\ out' = prepareOutboundRequest(rewriteRequest(cloneRequest(in), u))
  /\ attempts' = attempts + 1
  /\ UNCHANGED <<orig, in>>

\* writeUpstreamHandshake, once and for a request that asks for the upgrade.
writeUpstreamHandshake(u) ==
  LET Handshake(h) == Put(Put(removeHopByHopHeaders(h), "Connection", <<"Upgrade">>), "Upgrade", <<"websocket">>)
  IN  /\ attempts = 0
      /\ isWebSocketUpgrade(in)
      /\ out' = appendForwardHeaders([rewriteRequest(cloneRequest(in), u) EXCEPT !.header = Handshake(@)])
      /\ attempts' = MaxAttempts
      /\ UNCHANGED <<orig, in>>
-----------------------------------------------------------------------------
\* "Hop-by-hop header sanitization" (README.md:26) on every attempt: no header of the
\* fixed list of headers.go:5-15 goes on but the two a handshake sets anew, and every
\* other header the request came with and Connection does not list goes on, however
\* many attempts were made before (headers.go:17-29, request.go:30-33).  Nothing is
\* said of the names that Connection lists.
Sanitized ==
  attempts > 0 =>
    /\ Present(out.header) \cap hopByHopHeaders \subseteq
         IF isWebSocketUpgrade(orig) THEN {"Connection", "Upgrade"} ELSE {}
    /\ \A n \in Present(orig.header) \ (hopByHopHeaders \cup Listed(orig.header)) :
         out.header[n] = orig.header[n]

\* "Forwarded header propagation" (README.md:27): each attempt names this client
\* once, behind the first line the request came with, and the scheme it came by: a
\* retry does not append to what an earlier attempt appended (request.go:11-19,
\* 35-50).
ForwardedOnce ==
  attempts > 0 =>
    /\ out.proto = IF orig.tls THEN "https" ELSE "http"
    /\ out.xff = <<Append(IF orig.xff = <<>> THEN <<>> ELSE orig.xff[1], Client)>>
=============================================================================
