--------------------------- MODULE NginxTranslate ---------------------------
(***************************************************************************)
(* FromNginx (internal/config/nginx_translator.go): a configuration made   *)
(* from the nodes of an nginx file, in one pass over them.                 *)
(*                                                                         *)
(* A name, a number, a unit and the punctuation of a URL are atoms of a    *)
(* word.  The name of a route is left out: only logs and labels use it.    *)
(***************************************************************************)
EXTENDS NginxParser, Config

Is(n, directive) == n.Directive = <<directive>>

\* strconv.Atoi and its like, on the numbers that occur.
Digits == "0" :> 0 @@ "1" :> 1 @@ "2" :> 2 @@ "3" :> 3 @@ "4" :> 4 @@ "30" :> 30 @@ "80" :> 80 @@ "443" :> 443
IsNumber(w) == Len(w) = 1 /\ w[1] \in DOMAIN Digits
Number(w) == Digits[w[1]]

StartsWith(w, atom) == w # <<>> /\ w[1] = atom

\* A number with a unit behind it, or without one; 0 when it is no number.
Numeral(w, units) == IF w # <<>> /\ Last(w) \in DOMAIN units THEN Front(w) ELSE w
Scaled(w, units, plain) ==
  LET unit == IF Numeral(w, units) = w THEN plain ELSE units[Last(w)]
  IN  IF IsNumber(Numeral(w, units)) THEN Number(Numeral(w, units)) * unit ELSE 0

parseSize(w) == Scaled(w, "k" :> 1024 @@ "m" :> 1024 * 1024 @@ "g" :> 1024 * 1024 * 1024, 1)

parseDurationSeconds(w) == Scaled(w, "s" :> 1 @@ "m" :> 60 @@ "h" :> 3600 @@ "d" :> 86400, 1)

\* The first argument rate=... that holds a number.
parseRate(args) ==
  LET perMinute == PerSecond \div 60
      units == "r/s" :> PerSecond @@ "/s" :> PerSecond @@ "r/m" :> perMinute @@ "/m" :> perMinute
      given == SelectSeq(args, LAMBDA a : StartsWith(a, "rate=") /\ IsNumber(Numeral(Tail(a), units)))
  IN  IF given = <<>> THEN 0 ELSE Scaled(Tail(given[1]), units, PerSecond)

\* The first argument burst=... that holds a number.
parseLimitReqBurst(args) ==
  LET given == SelectSeq(args, LAMBDA a : StartsWith(a, "burst=") /\ IsNumber(Tail(a)))
  IN  IF given = <<>> THEN 0 ELSE Number(Tail(given[1]))

WithScheme(w) == IF "://" \in ToSet(w) THEN w ELSE <<"http", "://">> \o w

\* The host and port of a URL.
extractGroupName(w) ==
  LET rest == IF "://" \in ToSet(w) THEN SubSeq(w, Find(w, 1, {"://"}) + 1, Len(w)) ELSE w
  IN  SubSeq(rest, 1, Find(rest, 1, {"/"}) - 1)

\* strings.TrimRight(w, "/").
TrimSlashes(w) ==
  SubSeq(w, 1, Max({k \in 1..Len(w) : w[k] # "/"} \cup {0}))

\* An entry of an upstream block; of several weights the last one counts.
ServerEntry(args) ==
  LET weights == SelectSeq(Tail(args), LAMBDA a : StartsWith(a, "weight=") /\ IsNumber(Tail(a)))
  IN  UpstreamConfig(WithScheme(args[1]), IF weights = <<>> THEN 1 ELSE Number(Tail(Last(weights))))

parseUpstreamBlock(nodes) ==
  FoldLeft(LAMBDA g, n :
      CASE Is(n, "server") /\ n.Args # <<>> -> [g EXCEPT !.upstreams = Append(@, ServerEntry(n.Args))]
        [] Is(n, "least_conn") -> [g EXCEPT !.algorithm = "least_conn"]
        [] Is(n, "ip_hash") \/ Is(n, "random") -> [g EXCEPT !.algorithm = "round_robin"]
        [] OTHER -> g,
    [upstreams |-> <<>>, algorithm |-> ""], nodes)
-----------------------------------------------------------------------------
\* Variant of appendRequestTransformer: a header that was set before stays.
appendRequestTransformerOnce(plugins, header, value) ==
  LET k == SelectInSeq(plugins, LAMBDA pc : pc.Name = "request-header-transformer")
  IN  IF k # 0 THEN [plugins EXCEPT ![k].Config.add_headers = @ @@ header :> value]
      ELSE Append(plugins, PluginConfig("request-header-transformer",
                                        [NoEdits EXCEPT !.add_headers = header :> value]))

\* The route's first request transformer gets the header, or a new one at the end.
appendRequestTransformer(plugins, header, value) ==
  LET k == SelectInSeq(plugins, LAMBDA pc : pc.Name = "request-header-transformer")
  IN  IF k # 0 THEN [plugins EXCEPT ![k].Config.add_headers = header :> value @@ @]
      ELSE Append(plugins, PluginConfig("request-header-transformer",
                                        [NoEdits EXCEPT !.add_headers = header :> value]))

\* strings.Join(words, " ").
Join(words) == FlattenSeq([k \in 1..Len(words) |-> IF k = 1 THEN words[k] ELSE <<" ">> \o words[k]])

\* proxy_pass: a group that is known by now, or one upstream.
ProxyPass(l, target, groups) ==
  LET name == extractGroupName(target)
  IN  IF name \in DOMAIN groups
      THEN [l EXCEPT !.route.Upstreams = groups[name].upstreams, !.group = <<name>>]
      ELSE [l EXCEPT !.route.Upstreams = <<UpstreamConfig(WithScheme(target), 1)>>]

\* limit_req: half the burst as the rate, and the burst as an int.
LimitReq(l, burst) ==
  IF burst > 0
  THEN [l EXCEPT !.route.Plugins = Append(@, PluginConfig("rate-limit",
          [requests_per_second |-> [type |-> "float64", val |-> (burst * PerSecond) \div 2],
           burst |-> [type |-> "int", val |-> burst]]))]
  ELSE l

\* One directive of a location; those with fewer arguments than they need are skipped.
LocationDirective(l, n, groups) ==
  CASE Is(n, "proxy_pass") /\ n.Args # <<>> -> ProxyPass(l, TrimSlashes(n.Args[1]), groups)
    [] Is(n, "proxy_read_timeout") /\ n.Args # <<>> ->
         [l EXCEPT !.route.TimeoutSeconds = parseDurationSeconds(n.Args[1])]
    [] Is(n, "client_max_body_size") /\ n.Args # <<>> ->
         [l EXCEPT !.route.MaxBodyBytes = parseSize(n.Args[1])]
    [] Is(n, "limit_req") -> LimitReq(l, parseLimitReqBurst(n.Args))
    [] Is(n, "proxy_set_header") /\ Len(n.Args) >= 2 /\ "$" \notin ToSet(Join(Tail(n.Args))) ->
         [l EXCEPT !.route.Plugins = appendRequestTransformer(@, n.Args[1][1], Join(Tail(n.Args)))]
    [] OTHER -> l

parseLocationBlock(prefix, host, maxBody, nodes, groups) ==
  FoldLeft(LAMBDA l, n : LocationDirective(l, n, groups),
           [route |-> Route(host, prefix, <<>>, maxBody, <<>>), group |-> <<>>], nodes)

\* The prefix of a location that becomes a route: neither named nor exact nor regular.
RoutedPrefix(args) ==
  IF args = <<>> THEN {}
  ELSE IF StartsWith(args[1], "@") \/ args[1] \in {<<"~">>, <<"~*">>, <<"=">>} THEN {}
  ELSE IF args[1] = <<"^~">> THEN IF Len(args) > 1 THEN {args[2]} ELSE {}
  ELSE {args[1]}

\* The route of a location is added if it has upstreams; the first group that is
\* used and names an algorithm sets the one of the gateway.
AddLocation(s, prefix, block, groups) ==
  LET l    == parseLocationBlock(prefix, s.host, s.maxBody, block, groups)
      algo == IF l.group = <<>> THEN "" ELSE groups[l.group[1]].algorithm
  IN  IF l.route.Upstreams = <<>> THEN s
      ELSE [s EXCEPT !.cfg.Proxy.Routes = Append(@, l.route),
                     !.cfg.Proxy.Algorithm = IF @ = "" THEN algo ELSE @]

Listen(s, args) ==
  IF ~IsNumber(args[1]) THEN s
  ELSE IF Len(args) > 1 /\ args[2] = <<"ssl">> THEN [s EXCEPT !.cfg.Server.HTTPSPort = Number(args[1])]
  ELSE [s EXCEPT !.cfg.Server.Port = Number(args[1])]

\* Variant of LimitReqZone: no burst.
LimitReqZoneBare(s, rate) == [s EXCEPT !.cfg.Rate.RequestsPerSecond = rate]

\* limit_req_zone; the burst is set once.
LimitReqZone(s, rate) ==
  [s EXCEPT !.cfg.Rate.RequestsPerSecond = rate,
            !.cfg.Rate.Burst = IF @ = 0 THEN (rate \div PerSecond) * 5 ELSE @]

\* One directive of a server with at least one argument.
ServerDirective(s, n, groups) ==
  LET arg == n.Args[1]
  IN  CASE Is(n, "listen") -> Listen(s, n.Args)
        [] Is(n, "server_name") -> IF arg = <<"_">> THEN s ELSE [s EXCEPT !.host = arg]
        [] Is(n, "ssl_certificate") -> [s EXCEPT !.cfg.Server.TLSCertFile = arg]
        [] Is(n, "ssl_certificate_key") -> [s EXCEPT !.cfg.Server.TLSKeyFile = arg]
        [] Is(n, "client_max_body_size") -> [s EXCEPT !.maxBody = parseSize(arg)]
        [] Is(n, "gzip") -> [s EXCEPT !.cfg.Gzip.Enabled = @ \/ arg = <<"on">>]
        [] Is(n, "gzip_min_length") /\ IsNumber(arg) -> [s EXCEPT !.cfg.Gzip.MinLength = Number(arg)]
        [] Is(n, "gzip_types") -> [s EXCEPT !.cfg.Gzip.ContentTypes = @ \o n.Args]
        [] Is(n, "gzip_comp_level") /\ IsNumber(arg) -> [s EXCEPT !.cfg.Gzip.Level = Number(arg)]
        [] Is(n, "limit_req_zone") -> LimitReqZone(s, parseRate(n.Args))
        [] Is(n, "location") ->
             IF RoutedPrefix(n.Args) = {} THEN s
             ELSE AddLocation(s, CHOOSE p \in RoutedPrefix(n.Args) : TRUE, n.Block, groups)
        [] OTHER -> s

\* The host and the limit of a server start empty; without arguments the only
\* directive that does something is limit_req_zone.
applyServerBlock(cfg, nodes, groups) ==
  FoldLeft(LAMBDA s, n :
      IF n.Args # <<>> THEN ServerDirective(s, n, groups)
      ELSE IF Is(n, "limit_req_zone") THEN LimitReqZone(s, 0) ELSE s,
    [cfg |-> cfg, host |-> <<>>, maxBody |-> 0], nodes).cfg

\* Every other directive of the file is skipped.  A group that is defined again and
\* names no algorithm keeps the one it had.
FromNginx(nodes) ==
  LET Algorithm(f, name, algo) ==
        IF algo = "" /\ name \in DOMAIN f.groups THEN f.groups[name].algorithm ELSE algo
      Group(f, name, g) == name :> [g EXCEPT !.algorithm = Algorithm(f, name, @)] @@ f.groups
  IN  FoldLeft(LAMBDA f, n :
          CASE Is(n, "upstream") /\ n.Args # <<>> ->
                 [f EXCEPT !.groups = Group(f, n.Args[1], parseUpstreamBlock(n.Block))]
            [] Is(n, "server") -> [f EXCEPT !.cfg = applyServerBlock(@, n.Block, f.groups)]
            [] OTHER -> f,
        [cfg |-> NoConfig, groups |-> <<>>], nodes).cfg

\* No error is left after parsing.
LoadNginx(text) ==
  LET parsed == ParseNginxFile(text)
  IN  [ok |-> parsed.ok, cfg |-> applyDefaults(FromNginx(parsed.nodes))]
=============================================================================
