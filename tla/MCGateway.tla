------------------------------ MODULE MCGateway ------------------------------
(***************************************************************************)
(* A small instance of the gateway.  Its inputs come in families, each of  *)
(* which varies one part and keeps the others fixed: route tables, plugin  *)
(* lists, requests with hop-by-hop headers, responses, nginx files.        *)
(***************************************************************************)
EXTENDS NginxGateway

CONSTANTS MaxRoutes,   \* bound on the size of a route table
          MaxPlugins,  \* bound on the length of a list of plugins
          MaxText      \* bound on the length of a text that is no file

NoHost == <<>>
MCHosts == {<<"n1">>, <<"n2">>}

MCTokens ==
  LET Token1(secret, live, claims) == [secret |-> <<secret>>, alg |-> <<"HS256">>, live |-> live, claims |-> claims]
  IN  <<"t1">> :> Token1("s", TRUE, "sub" :> <<"u">>) @@ <<"t2">> :> Token1("s", FALSE, <<>>)
        @@ <<"t3">> :> Token1("z", TRUE, <<>>)

Filled(names, f) == [n \in names |-> IF n \in DOMAIN f THEN f[n] ELSE <<>>]

Plain(f) == Request("GET", <<"n1">>, Filled(Names, f), NoHeader(Keys), <<>>, FALSE)
Simple == Plain("Accept" :> <<<<"v">>>>)

Response(status, f, trailer, announced) ==
  [status |-> status, header |-> Filled(Fields, f), trailer |-> Filled(Fields, trailer), announced |-> announced]
Fine == Response(200, "Server" :> <<<<"s">>>>, <<>>, {})

Yaml(rate, global, table) ==
  [format |-> "yaml", text |-> <<>>, tree |-> <<>>,
   cfg |-> [NoConfig EXCEPT !.Rate.Burst = rate, !.Plugins = global, !.Proxy.Routes = table]]
OneRoute(plugins) == <<Route(NoHost, <<>>, <<UpstreamConfig(<<"http", "://", "h1">>, 0)>>, 0, plugins)>>

SeqsUpTo(S, n) == UNION {[1..k -> S] : k \in 0..n}
-----------------------------------------------------------------------------
\* Tables without upstreams: all that can be told apart is what is matched.
TableFamily ==
  LET prefixes == {<<>>, <<"/">>, <<"/", "a">>, <<"/", "a", "a">>, <<"a">>}
      entries  == {Route(h, p, <<>>, 0, <<>>) : h \in Hosts \cup {AnyHost}, p \in prefixes}
  IN  {[file |-> Yaml(1, <<>>, t), front |-> "gateway", client |-> [Simple EXCEPT !.host = h],
        path |-> p, answer |-> Fine] :
         t \in SeqsUpTo(entries, MaxRoutes), h \in Hosts,
         p \in {<<"/">>, <<"/", "a">>, <<"/", "a", "a">>, <<"/", "b">>}}

Request1(f, c, a) == [file |-> f, front |-> "router", client |-> c, path |-> <<"/">>, answer |-> a]

KeyConfig(header, keys, hide) ==
  [header |-> header, query |-> <<>>, keys |-> keys, hide_credentials |-> hide]
JWTConfig(secret, alg) == [secret |-> secret, algorithm |-> alg, claims_to_headers |-> "sub" :> <<"X-B">>]
IPConfig(allow, deny) == [allow |-> allow, deny |-> deny]
LimitConfig(type, rps, burst) ==
  [requests_per_second |-> [type |-> type, val |-> rps], burst |-> [type |-> "float64", val |-> burst]]

\* Entries that are skipped for each of the three reasons, and two that are not.
Skipping ==
  {PluginConfig("ip-restriction", IPConfig(<<>>, <<>>)),
   PluginConfig("response-header-transformer", NoEdits),
   [PluginConfig("ip-restriction", IPConfig(<<>>, <<>>)) EXCEPT !.Enabled = FALSE],
   PluginConfig("other", NoEdits),
   PluginConfig("jwt", JWTConfig(<<>>, <<>>))}

OrderFamily ==
  {Request1(Yaml(1, l[1], OneRoute(l[2])), Simple, Fine) :
     l \in (SeqsUpTo(Skipping, MaxPlugins) \X SeqsUpTo(Skipping, 1))
            \cup (SeqsUpTo(Skipping, 1) \X SeqsUpTo(Skipping, MaxPlugins))}

Editor(add, remove, rename) ==
  PluginConfig("request-header-transformer",
    [NoEdits EXCEPT !.add_headers = add, !.remove_headers = remove, !.rename_headers = rename])

Rules ==
  {PluginConfig("key-auth", KeyConfig(<<>>, <<<<"k">>>>, TRUE)),
   PluginConfig("key-auth", KeyConfig(<<"X-A">>, <<<<>>, NotString, <<"v">>>>, TRUE)),
   PluginConfig("key-auth", KeyConfig(<<>>, <<<<"k">>>>, FALSE)),
   PluginConfig("key-auth", KeyConfig(<<>>, <<>>, TRUE)),
   PluginConfig("jwt", JWTConfig(<<"s">>, <<>>)),
   PluginConfig("jwt", JWTConfig(<<"s">>, <<"hs256">>)),
   PluginConfig("jwt", JWTConfig(<<"s">>, <<"RS256">>)),
   PluginConfig("ip-restriction", IPConfig(<<<<Client>>>>, <<>>)),
   PluginConfig("ip-restriction", IPConfig(<<>>, <<<<Proxy>>>>)),
   PluginConfig("ip-restriction", IPConfig(<<Unparsable>>, <<<<Client>>>>)),
   PluginConfig("rate-limit", LimitConfig("float64", PerSecond, 0)),
   PluginConfig("rate-limit", LimitConfig("float64", PerSecond \div 2, 0)),
   PluginConfig("rate-limit", LimitConfig("int", PerSecond, 1)),
   Editor("X-API-Key" :> <<"added">>, <<<<"X-Trace">>>>, <<>>),
   Editor("X-A" :> <<"added">> @@ "X-B" :> NotString, <<<<"X-A">>>>, <<>>),
   Editor(<<>>, <<>>, "X-A" :> <<"X-B">> @@ "X-B" :> <<"X-A">>),
   Editor(<<>>, <<<<"X-B">>>>, "X-A" :> <<"X-B">> @@ "X-Trace" :> <<"X-API-Key">>),
   PluginConfig("request-header-transformer", [NoEdits EXCEPT !.add_query = "api_key" :> <<"q">>]),
   PluginConfig("request-header-transformer", [NoEdits EXCEPT !.remove_query = <<<<"api_key">>>>])}

RuleFamily ==
  LET clients == {[Plain("X-API-Key" :> key @@ "Authorization" :> auth @@ "X-A" :> a @@ "X-B" :> <<<<"b">>>>
                         @@ "X-Trace" :> <<<<"x">>>>)
                     EXCEPT !.query = Filled(Keys, "api_key" :> q), !.xff = xff] :
                    key \in {<<>>, <<<<"k">>>>, <<<<"bad">>>>}, q \in {<<>>, <<<<"k">>>>},
                    auth \in {<<>>, <<<<"t1">>>>}, a \in {<<<<"v">>, <<"v2">>>>},
                    xff \in {<<>>, <<<<Proxy, "other">>>>}}
                 \cup {[Simple EXCEPT !.method = "OPTIONS"]}
                 \cup {[Plain("Authorization" :> <<auth>>) EXCEPT !.xff = <<<<"junk">>>>] : auth \in DOMAIN MCTokens}
      lists   == {<<<<>>, r>> : r \in SeqsUpTo(Rules, 2)} \cup {<<<<g>>, <<r>>>> : g \in Rules, r \in Rules}
  IN  {Request1(Yaml(1, l[1], OneRoute(l[2])), c, Fine) : l \in lists, c \in clients}

\* Every set of hop-by-hop and other headers, every list in Connection.
HopFamily ==
  LET shown == {"Connection", "Upgrade", "Te", "Accept", "X-Trace"}
      Shows(sent, up, named) ==
        Filled(Names, [n \in sent |-> CASE n = "Upgrade" -> <<<<up>>>> [] n = "Connection" -> <<SetToSeq(named)>>
                                        [] OTHER -> <<<<"v">>>>])
  IN  {[file |-> Yaml(1, <<>>, OneRoute(p)), front |-> f, path |-> <<"/">>, answer |-> Fine,
        client |-> Request("GET", <<"n1">>, Shows(sent, up, named), NoHeader(Keys), xff, tls)] :
         sent \in SUBSET shown, named \in SUBSET (shown \ {"Connection"}), up \in {"websocket", "h2c"},
         xff \in {<<>>, <<<<Proxy>>, <<"other">>>>}, tls \in BOOLEAN, f \in {"router", "gateway"},
         p \in {<<>>, <<PluginConfig("response-header-transformer", NoEdits)>>}}

Answerer(add, remove, rename) ==
  PluginConfig("response-header-transformer",
    [NoEdits EXCEPT !.add_headers = add, !.remove_headers = remove, !.rename_headers = rename])

AnswerFamily ==
  LET writers == {Answerer("X-Powered-By" :> <<"g">>, <<<<"Server">>>>, <<>>),
                  Answerer(<<>>, <<<<"X-Powered-By">>, <<"Content-Type">>>>, "Server" :> <<"X-Powered-By">>),
                  Answerer("Server" :> <<"g">>, <<<<"Trailer">>>>, <<>>),
                  Answerer("X-Sum" :> <<"g">>, <<<<"Access-Control-Allow-Origin">>, <<"X-Request-ID">>>>, <<>>),
                  PluginConfig("key-auth", KeyConfig(<<>>, <<<<"k">>>>, TRUE))}
      sums    == "X-Sum" :> <<<<"1">>, <<"2">>>>
      answers == {Response(s, "Server" :> <<<<"s">>, <<"t">>>> @@ "Connection" :> named @@ h, t[1], t[2]) :
                    s \in {200, 502}, named \in {<<>>, <<<<"Server">>>>},
                    h \in {<<>>, "Te" :> <<<<"v">>>> @@ "X-Sum" :> <<<<"early">>>>,
                           "Access-Control-Allow-Origin" :> <<<<"site">>>> @@ "X-Request-ID" :> <<<<"own">>>>},
                    t \in {<<<<>>, {}>>, <<<<>>, {"X-End"}>>, <<sums, {"X-Sum"}>>,
                           <<sums @@ "X-End" :> <<<<"e">>>>, {"X-Sum"}>>,
                           <<sums @@ "X-End" :> <<<<"e">>>>, {"X-Sum", "X-End"}>>}}
  IN  {Request1(Yaml(1, l[1], OneRoute(l[2])), c, a) :
         l \in SeqsUpTo(writers, 1) \X SeqsUpTo(writers, 2), a \in answers,
         c \in {Simple, Plain("X-API-Key" :> <<<<"k">>>>)}}
-----------------------------------------------------------------------------
D(name, args) == Node(<<name>>, args, <<>>)

\* A text of nodes: blank puts a space between words, quote quotes the arguments,
\* and note stands in front of a semicolon or brace.
RECURSIVE TextOf(_, _)
TextOf(nodes, style) ==
  LET Escaped(v) == FlattenSeq([k \in 1..Len(v) |-> IF v[k] \in Quotes \cup {"\\"} THEN <<"\\", v[k]>> ELSE <<v[k]>>])
      Bare(v) == v # <<>> /\ ToSet(v) \cap (Spaces \cup Marks \cup Quotes \cup {"#"}) = {}
      Word(v) == style.blank \o IF Bare(v) /\ ~style.quote THEN v ELSE <<"\"">> \o Escaped(v) \o <<"\"">>
  IN  FlattenSeq([k \in 1..Len(nodes) |->
        LET n == nodes[k] IN
          n.Directive \o FlattenSeq([a \in 1..Len(n.Args) |-> Word(n.Args[a])])
            \o style.note \o IF n.Block = <<>> THEN <<";">> ELSE <<"{">> \o TextOf(n.Block, style) \o <<"}">>])

Styles == {[blank |-> <<" ">>, quote |-> FALSE, note |-> <<"#", "}", "\"", "\n">>],
           [blank |-> <<"\n", " ">>, quote |-> TRUE, note |-> <<>>]}

Group == Node(<<"upstream">>, <<<<"g">>>>,
           <<D("server", <<<<"h1">>>>), D("least_conn", <<>>), D("server", <<<<"h2">>, <<"weight=", "2">>>>)>>)

\* A group that comes after the first server, or before it under the same name.
Regroup == Node(<<"upstream">>, <<<<"g">>>>, <<D("server", <<<<"h6">>>>)>>)

Location(prefix, block) == Node(<<"location">>, prefix, block)
Pass1(target) == D("proxy_pass", <<target>>)

Locations ==
  LET g == <<"http", "://", "g">>
  IN  {Location(<<<<"/">>>>, <<Pass1(g)>>),
       Location(<<<<"/">>>>, <<Pass1(<<"h3">>), D("client_max_body_size", <<<<"1", "k">>>>)>>),
       Location(<<<<"/", "a">>>>, <<Pass1(Append(g, "/")), D("proxy_read_timeout", <<<<"2", "m">>>>),
                                    D("limit_req", <<<<"zone=z">>, <<"burst=", "2">>>>)>>),
       Location(<<<<"^~">>, <<"/", "a">>>>,
                <<D("proxy_set_header", <<<<"X-A">>, <<"one">>>>), D("add_header", <<<<"X-B">>, <<"b">>>>),
                  D("proxy_set_header", <<<<"X-B">>, <<"$", "host">>>>), Pass1(<<"http", "://", "h4", "/", "p">>),
                  D("proxy_set_header", <<<<"X-A">>, <<"a", "\"", ";", "b">>, <<"c">>>>)>>),
       Location(<<<<"/", "a">>>>, <<D("limit_req", <<<<"burst=", "1">>>>), Pass1(<<"h5">>), Pass1(g)>>),
       Location(<<<<"/", "a">>>>, <<D("root", <<<<"dir">>>>)>>),
       Location(<<<<"~">>, <<"/", "a">>>>, <<Pass1(<<"h5">>)>>)}

ServerOf(name, settings, locations) == Node(<<"server">>, <<>>, name \o settings \o locations)
ServerNames == {<<>>, <<D("server_name", <<<<"_">>>>)>>, <<D("server_name", <<<<"n1">>>>)>>}
Zone(rate) == D("limit_req_zone", <<<<"$", "addr">>, <<"zone=z">>, <<"rate=">> \o rate>>)
Settings ==
  {<<D("listen", <<<<"80">>>>), D("listen", <<<<"443">>, <<"ssl">>>>), D("ssl_certificate", <<<<"crt">>>>),
     D("ssl_certificate_key", <<<<"key">>>>), D("client_max_body_size", <<<<"2", "m">>>>), D("gzip", <<<<"on">>>>),
     D("gzip_min_length", <<<<"4">>>>), D("gzip_types", <<<<"t">>>>), D("gzip_comp_level", <<<<"1">>>>),
     Zone(<<"1", "r/s">>)>>,
   <<Zone(<<"2">>)>>}
Sparse == {<<>>, <<Zone(<<"30", "r/m">>)>>, <<Zone(<<"x">>), Zone(<<"1", "/s">>)>>}

\* Settings of a server that stand between two of its locations.
Late == {D("server_name", <<<<"n1">>>>), D("server_name", <<<<"_">>>>), D("client_max_body_size", <<<<"2", "m">>>>)}

Files ==
  {<<Group, ServerOf(n, s, ls)>> : n \in ServerNames, s \in Settings, ls \in SeqsUpTo(Locations, 2)}
  \cup {<<ServerOf(n, s, <<l>>), D("events", <<>>)>> : n \in ServerNames, s \in Sparse, l \in Locations}
  \cup {<<Group, ServerOf(n1, <<Zone(<<"2">>)>>, <<l1>>), ServerOf(n2, <<>>, <<l2>>)>> :
          n1 \in ServerNames, n2 \in ServerNames, l1 \in Locations, l2 \in Locations}
  \cup {<<Group, ServerOf(n, <<Zone(<<"2">>)>>, <<l1, d, l2>>)>> :
          n \in ServerNames, d \in Late, l1 \in Locations, l2 \in Locations}
  \cup {<<ServerOf(n, <<Zone(<<"2">>)>>, <<l1>>), Group, ServerOf(<<>>, <<>>, <<l2>>), Regroup>> :
          n \in ServerNames, l1 \in Locations, l2 \in Locations}
  \cup {<<Group, Regroup, ServerOf(n, <<Zone(<<"2">>)>>, <<l>>)>> : n \in ServerNames, l \in Locations}

NginxFamily ==
  {[file |-> [format |-> "nginx", text |-> TextOf(t, style), tree |-> t, cfg |-> NoConfig], front |-> "router",
    client |-> [Simple EXCEPT !.host = h],
    path |-> p, answer |-> Fine] :
     t \in Files, style \in Styles, h \in Hosts, p \in {<<"/">>, <<"/", "a">>}}

TextFamily ==
  {Request1([format |-> "nginx", text |-> t, tree |-> <<>>, cfg |-> NoConfig], Simple, Fine) :
     t \in SeqsUpTo({"w", " ", ";", "{", "}"}, MaxText)}
-----------------------------------------------------------------------------
InitFrom(inputs) ==
  \E x \in inputs :
    /\ file = x.file /\ front = x.front /\ client = x.client /\ answer = x.answer
    /\ routes = <<>> /\ host = x.client.host /\ path = x.path
    /\ MatchStart
    /\ OutboundInit({x.client})
    /\ conf = NoConfig /\ stage = "load" /\ todo = <<>> /\ ran = <<>>
    /\ w = NoHeader(Fields)
    /\ reply = Reply(0, NoHeader(Fields), <<>>, "none")

GatewayInit ==
  \/ InitFrom(TableFamily) \/ InitFrom(OrderFamily) \/ InitFrom(RuleFamily) \/ InitFrom(HopFamily)
  \/ InitFrom(AnswerFamily) \/ InitFrom(NginxFamily) \/ InitFrom(TextFamily)

GatewaySpec == GatewayInit /\ [][GatewayNext]_<<file, gateway>>

\* Only the nginx files.
NginxSpec == InitFrom(NginxFamily) /\ [][GatewayNext]_<<file, gateway>>
=============================================================================
