------------------------------- MODULE Gateway -------------------------------
(***************************************************************************)
(* A request on its way through the gateway, for any configuration: it     *)
(* passes the limiter and the global plugins (internal/router), a route is *)
(* matched, its plugins run, the engine sends it on, and the response is   *)
(* copied back (internal/proxy/copier.go).  Composes RouteMatch,           *)
(* PluginChain, Plugins and Outbound; NginxGateway adds the reading of the *)
(* configuration.                                                          *)
(*                                                                         *)
(* The request is the first of its client since the start.  Retries,       *)
(* balancing and timeouts are in Engine: here any upstream of the route    *)
(* may be tried, and any number of times up to MaxAttempts.                *)
(***************************************************************************)
EXTENDS RouteMatch, PluginChain

CONSTANT Fields   \* header names of a response, Trailer and trailers included

ASSUME GatewayConfig == {"Connection", "Trailer"} \subseteq Fields

VARIABLES front,     \* what the request enters: "router", or "gateway" alone
          client,    \* the request as it arrives
          answer,    \* the response the upstream will give, and the trailers it announces
          conf,      \* the configuration
          stage,     \* where the request is
          todo,      \* plugins in front of it: <<list, place>>
          ran,       \* plugins it has met
          w,         \* the headers of the response so far (w.Header() of the plugins)
          reply      \* the response

given == <<front, client, answer>>
chain == <<todo, ran>>
gateway == <<vars, outbound, given, conf, stage, chain, w, reply>>

\* A response; its body is the gateway's own or the upstream's, whole or broken off.
Reply(status, header, trailer, body) ==
  [status |-> status, header |-> header, trailer |-> trailer, body |-> body]

NoHeader(names) == [n \in names |-> <<>>]

\* Go's client takes no response that announces a trailer named Trailer.
IsResponse(a) ==
  /\ a = [status |-> a.status, header |-> a.header, trailer |-> a.trailer, announced |-> a.announced]
  /\ IsHeader(a.header, Fields)
  /\ IsHeader(a.trailer, Fields)
  /\ a.announced \subseteq Fields \ {"Trailer"}

\* A configuration, as far as the gateway reads it.
IsConfig(c) ==
  /\ IsSeq(c.Plugins)
  /\ IsSeq(c.Proxy.Routes)
  /\ \A r \in Range(c.Proxy.Routes) :
       IsSeq(r.Plugins) /\ r.Host \in Hosts \cup {AnyHost} /\ r.PathPrefix \in Strings

\* buildRoutes, as far as match reads it.
buildRoutes(c) ==
  [k \in DOMAIN c.Proxy.Routes |-> [host |-> c.Proxy.Routes[k].Host, prefix |-> c.Proxy.Routes[k].PathPrefix]]

\* Where a request starts.
Door == IF front = "router" THEN "front" ELSE "global"

\* A request at the door of a gateway that was started with conf.
ServeInit ==
  /\ IsConfig(conf) /\ routes = buildRoutes(conf)
  /\ front \in {"router", "gateway"} /\ stage = Door
  /\ IsRequest(client) /\ OutboundInit({client})
  /\ host = client.host /\ host \in Hosts /\ path \in Strings /\ MatchStart
  /\ IsResponse(answer)
  /\ todo = <<>> /\ ran = <<>>
  /\ w = NoHeader(Fields) /\ reply = Reply(0, NoHeader(Fields), <<>>, "none")
-----------------------------------------------------------------------------
Entry(e) == IF e[1] = "global" THEN conf.Plugins[e[2]] ELSE conf.Proxy.Routes[best].Plugins[e[2]]

\* The plugins the request has met, the outermost first.
Met == [k \in DOMAIN ran |-> Entry(ran[k])]

\* Variant of WriteHeader: the outermost writer comes first.
WriteHeaderOuter(h) == WrittenBehind(h, Backwards(Met))

\* WriteHeader passes the writers of the plugins.
WriteHeader(h) == WrittenBehind(h, Met)

\* RequestID sets the same id on request and response.
RequestID(h) == Put(h, "X-Request-ID", <<"id">>)

\* The id of the response is set outside of http.TimeoutHandler, whose handler has
\* headers of its own: they are laid over the outer ones when it has returned.
Overlaid(h) == IF front = "router" /\ "X-Request-ID" \notin Present(h) THEN RequestID(h) ELSE h

\* http.Error and http.NotFound on a writer with these headers.
Error(status, h) ==
  /\ \E sent \in WriteHeader(Put(h, "Content-Type", <<"text/plain">>)) :
       reply' = Reply(status, Overlaid(sent), <<>>, "own")
  /\ stage' = "done"

Places(list, places) == [k \in DOMAIN places |-> <<list, places[k]>>]

\* CORS; its two other headers are set alike and left out.
CORS(h) == Put(h, "Access-Control-Allow-Origin", <<"*">>)

\* RequestID, RateLimit and CORS, in this order.
Enter ==
  /\ stage = "front"
  /\ in' = [in EXCEPT !.header = RequestID(@)]
  /\ IF conf.Rate.Burst = 0 THEN Error(429, w) /\ UNCHANGED <<w, todo>>
     ELSE IF client.method = "OPTIONS"
     THEN /\ reply' = Reply(204, Overlaid(CORS(w)), <<>>, "own")
          /\ stage' = "done"
          /\ UNCHANGED <<w, todo>>
     ELSE /\ w' = CORS(w)
          /\ todo' = Places("global", UseGlobal(conf.Plugins))
          /\ stage' = "global"
          /\ UNCHANGED reply
  /\ UNCHANGED <<vars, orig, out, attempts, given, conf, ran>>

\* The next plugin's handler.
RunPlugin ==
  /\ stage \in {"global", "route"} /\ todo # <<>>
  /\ \E o \in Handle(Entry(Head(todo)), in) :
       /\ in' = o.request
       /\ IF o.status = 0 THEN UNCHANGED <<stage, reply>> ELSE Error(o.status, w)
  /\ ran' = Append(ran, Head(todo))
  /\ todo' = Tail(todo)
  /\ UNCHANGED <<vars, orig, out, attempts, given, conf, w>>

Matching == stage = "global" /\ todo = <<>>

Scan == Matching /\ Consider /\ UNCHANGED <<outbound, given, conf, stage, chain, w, reply>>

\* Gateway.ServeHTTP: a 404, or the handler of the route.
Dispatch ==
  /\ Matching /\ ServeHTTP
  /\ IF result' = "notFound" THEN Error(404, w) /\ UNCHANGED todo
     ELSE /\ todo' = Places("route", buildPluginChain(conf.Proxy.Routes[best].Plugins))
          /\ stage' = "route"
          /\ UNCHANGED reply
  /\ UNCHANGED <<outbound, given, conf, ran, w>>
-----------------------------------------------------------------------------
\* The hosts of the route's upstreams (url.Parse).
Targets == {HostOf(u.URL) : u \in Range(conf.Proxy.Routes[best].Upstreams)}

\* A response transformer's writer is no http.Hijacker; the recorder of the router
\* is one, and fails with an error behind http.TimeoutHandler.
NotHijacker == \E k \in DOMAIN Met : Met[k].Name = "response-header-transformer"

\* Engine.ServeHTTP up to the first attempt.
EnterEngine ==
  /\ stage = "route" /\ todo = <<>>
  /\ IF Targets = {} THEN Error(503, w)
     ELSE IF isWebSocketUpgrade(in) /\ NotHijacker THEN Error(500, w)
     ELSE IF isWebSocketUpgrade(in) /\ front = "router"
     THEN reply' = Reply(200, Overlaid(w), <<>>, "own") /\ stage' = "done"
     ELSE stage' = "engine" /\ UNCHANGED reply
  /\ orig' = in /\ out' = in
  /\ UNCHANGED <<vars, in, attempts, given, conf, chain, w>>

Attempt ==
  /\ stage = "engine"
  /\ \E u \in Targets : forward(u) \/ writeUpstreamHandshake(u)
  /\ UNCHANGED <<vars, given, conf, stage, chain, w, reply>>

\* No attempt is left, or none is allowed.
BadGateway ==
  /\ stage = "engine" /\ attempts > 0 /\ ~isWebSocketUpgrade(in)
  /\ Error(502, w)
  /\ UNCHANGED <<vars, outbound, given, conf, chain, w>>

copyHeaders(dst, src) == [n \in DOMAIN dst |-> dst[n] \o src[n]]

\* Variant of declareTrailers: nothing is declared.
declareTrailersNone(h, trailers) == {h}

\* In the order of the map.
Declared(h, order) == Loop(LAMBDA g, n : Add(g, "Trailer", <<n>>), h, order)
declareTrailers(h, trailers) == {Declared(h, order) : order \in Orders(trailers)}

\* writeResponse.  Before the body is read resp.Trailer has the announced names as
\* its keys; then it has the trailers that came.  The body may break off, and then
\* no trailer is copied.  Behind http.TimeoutHandler the headers are sent when the
\* handler has returned.  The trailers sent are the ones declared when WriteHeader was
\* called: of the others the client gets nothing, or headers behind TimeoutHandler.
writeResponse ==
  /\ stage = "engine" /\ attempts > 0 /\ ~isWebSocketUpgrade(in)
  /\ \E declared \in declareTrailers(copyHeaders(w, removeHopByHopHeaders(answer.header)), answer.announced) :
     \E sent \in WriteHeader(declared), body \in {"whole", "broken"} :
       LET final == Overlaid(IF body = "broken" THEN sent ELSE copyHeaders(sent, answer.trailer))
       IN  reply' = Reply(answer.status, IF front = "router" THEN final ELSE sent,
                            [n \in {v[1] : v \in Range(sent["Trailer"])} |-> final[n]], body)
  /\ stage' = "done"
  /\ UNCHANGED <<vars, outbound, given, conf, chain, w>>

ServeNext ==
  Enter \/ RunPlugin \/ Scan \/ Dispatch \/ EnterEngine \/ Attempt \/ BadGateway \/ writeResponse

ServeSpec == ServeInit /\ [][ServeNext]_gateway
-----------------------------------------------------------------------------
UsableIn(list) == {k \in DOMAIN list : Usable(list[k])}

\* The plugins of both lists that are not skipped, and the order of the configuration.
Wanted ==
  {<<"global", k>> : k \in IF front = "router" THEN UsableIn(conf.Plugins) ELSE {}}
  \cup {<<"route", k>> : k \in IF result = "handled" THEN UsableIn(conf.Proxy.Routes[best].Plugins) ELSE {}}
Before(d, e) == (d[1] = "global" /\ e[1] = "route") \/ (d[1] = e[1] /\ d[2] < e[2])

\* "first plugin in config is outermost (runs first)" (gateway.go:142) and "applied to
\* every route before per-route plugins" (configs/config.yaml:28): a request meets
\* usable plugins only, each once, the global ones first and in the order of the
\* configuration, skips none on the way, whatever is disabled, unknown or refused in
\* between, and reaches an upstream only behind the last one.
RunsInOrder ==
  /\ Range(ran) \subseteq Wanted
  /\ \A j, k \in DOMAIN ran : j < k => Before(ran[j], ran[k])
  /\ \A e \in Wanted, k \in DOMAIN ran : Before(e, ran[k]) => e \in Range(ran)
  /\ attempts > 0 => Wanted \subseteq Range(ran)

Edit(k) == Transforms(Met[k].Config)

\* No plugin the request has met but transformers writes a header, and the renames of
\* each transformer are apart from each other.
OnlyEdits ==
  \A k \in DOMAIN Met :
    /\ Met[k].Name \notin {"jwt", "key-auth"}
    /\ Met[k].Name = "request-header-transformer" => Apart(Edit(k))

\* The headers as they entered the plugins, and as the transformers are to leave them.
Arrived == IF front = "router" THEN RequestID(client.header) ELSE client.header
Expected == EditedBehind(Arrived, Met)

\* remove, rename, add, "(old name -> new name)" (request_transformer.go:9-16): the
\* upstream gets the headers of the request with the edits of all transformers it
\* met, one after the other, when the renames of each are apart from each other;
\* the order in which Go ranges over a map does not show.
TransformedAsWritten ==
  attempts > 0 /\ OnlyEdits =>
    \A n \in DOMAIN Expected \ (hopByHopHeaders \cup Listed(Expected)) : out.header[n] = Expected[n]

\* "strip key before forwarding" (key_auth.go:17): behind a key-auth that hides its
\* key no attempt carries one, neither as a header nor as a query parameter, unless
\* a plugin further in writes that name or a handshake sets it.
HiddenCredentials ==
  attempts > 0 =>
    \A k \in DOMAIN Met :
      LET pc    == Met[k]
          inner == {Met[j] : j \in k + 1..Len(ran)}
      IN  pc.Name = "key-auth" /\ pc.Config.hide_credentials =>
            /\ KeyHeader(pc.Config) \in Present(out.header) \ {"Connection", "Upgrade"} =>
                 \E p \in inner : KeyHeader(pc.Config) \in Writes(p)
            /\ KeyQuery(pc.Config) \in Present(out.query) =>
                 \E p \in inner : KeyQuery(pc.Config) \in WritesQuery(p)

\* The places in ran of the response transformers the response passed.
Outer == {k \in DOMAIN Met : Met[k].Name = "response-header-transformer"}

\* Response transformers apply to every response that is written behind them, the
\* refusals and error pages of plugins and engine included: what one removes is gone,
\* and what it adds is there once, unless one further out says otherwise or the name
\* is that of a trailer (response_transformer.go:54-89).  The id that RequestID has set
\* on the writer outside of http.TimeoutHandler (router.go:25-27) stays.
AnsweredAsWritten ==
  stage = "done" =>
    \A k \in Outer :
      LET t    == Edit(k)
          mine == {n \in Fields \ Present(answer.trailer) : \A j \in Outer : j < k => n \notin Mentions(Edit(j))}
      IN  /\ \A n \in mine \cap DOMAIN t.add : reply.header[n] = <<t.add[n]>>
          /\ \A n \in mine \cap t.remove :
               n \notin DOMAIN t.add \cup Range(t.rename) => reply.header[n] = Overlaid(NoHeader(Fields))[n]

\* "Trailer propagation" (README.md:33): a response whose body is complete ends with
\* the trailers of the upstream, each with its values, of those that it announced
\* before the body (copier.go:15-25), unless they are headers of the response too or
\* a transformer edits them or the header that declares them.
TrailersPropagated ==
  stage = "done" /\ reply.body = "whole" =>
    \A n \in (Present(answer.trailer) \cap answer.announced) \ (Present(answer.header) \cup Present(w)) :
      (\A k \in Outer : {n, "Trailer"} \cap Mentions(Edit(k)) = {}) =>
        n \in DOMAIN reply.trailer /\ reply.trailer[n] = answer.trailer[n]
=============================================================================
