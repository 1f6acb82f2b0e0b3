----------------------------- MODULE NginxGateway -----------------------------
(***************************************************************************)
(* A gateway that is started with a file: what is loaded, what an nginx    *)
(* file says of the requests that are served with it, read off the file,   *)
(* and the properties that compare Gateway with it.  file.tree is the file *)
(* as nodes, and file.text one of the ways to write it down.               *)
(***************************************************************************)
EXTENDS Gateway, NginxTranslate

VARIABLE file   \* what is to be loaded: a text and what it means, or a Config

\* LoadAuto: the extension tells nginx from YAML; viper's part in reading YAML is
\* external and leaves a Config.
LoadAuto(f) == IF f.format = "nginx" THEN LoadNginx(f.text)
               ELSE [ok |-> TRUE, cfg |-> applyDefaults(f.cfg)]

\* The start of the gateway.
Load ==
  /\ stage = "load"
  /\ LET loaded == LoadAuto(file)
     IN  IF loaded.ok
         THEN conf' = loaded.cfg /\ routes' = buildRoutes(loaded.cfg) /\ stage' = Door
         ELSE stage' = "failed" /\ UNCHANGED <<conf, routes>>
  /\ UNCHANGED <<file, host, path, i, best, bestScore, result, outbound, given, chain, w, reply>>

GatewayNext == Load \/ (ServeNext /\ UNCHANGED file)
-----------------------------------------------------------------------------

\* The first argument of the last directive of that name.
Setting(block, directive, default) ==
  LET found == SelectSeq(block, LAMBDA n : Is(n, directive) /\ n.Args # <<>>)
  IN  IF found = <<>> THEN default ELSE Last(found).Args[1]

ServerAt(at) == file.tree[at[1]].Block
LocationAt(at) == ServerAt(at)[at[2]]
PrefixOf(at) == Last(LocationAt(at).Args)

\* A file is read in one pass: a location is under the settings of its server that
\* stand above it, and knows the groups that stand above its server.
SettingsAbove(at) == SubSeq(ServerAt(at), 1, at[2] - 1)
GroupsAbove(at, name) ==
  SelectSeq(SubSeq(file.tree, 1, at[1] - 1), LAMBDA n : Is(n, "upstream") /\ n.Args # <<>> /\ n.Args[1] = name)

\* <<"_">> stands for any name, and takes no other one back.
ServerName(at) ==
  LET NoName(n) == Is(n, "server_name") /\ n.Args # <<>> /\ n.Args[1] = <<"_">>
  IN  Setting(SelectSeq(SettingsAbove(at), LAMBDA n : ~NoName(n)), "server_name", <<"_">>)

\* The upstreams of the location: those of the last group of that name, or the one
\* host that its proxy_pass names.
PassedTo(at) ==
  LET name   == extractGroupName(Setting(LocationAt(at).Block, "proxy_pass", <<>>))
      groups == GroupsAbove(at, name)
  IN  IF groups = <<>> THEN {name}
      ELSE {n.Args[1] : n \in {m \in ToSet(Last(groups).Block) : Is(m, "server") /\ m.Args # <<>>}}

\* The locations with a proxy_pass that a request for host and path may go to.
Eligible ==
  {at \in (1..Len(file.tree)) \X (1..Max({Len(file.tree[k].Block) : k \in DOMAIN file.tree})) :
     /\ Is(file.tree[at[1]], "server") /\ at[2] \in DOMAIN ServerAt(at)
     /\ Is(LocationAt(at), "location")
     /\ LocationAt(at).Args[1] \notin {<<"~">>, <<"~*">>, <<"=">>} /\ ~StartsWith(LocationAt(at).Args[1], "@")
     /\ Setting(LocationAt(at).Block, "proxy_pass", <<>>) # <<>> /\ PassedTo(at) # {}
     /\ ServerName(at) \in {<<"_">>, host} /\ HasPrefix(path, PrefixOf(at))}

\* A named server comes first, then the longer prefix, then the earlier place.
Better(a, b) ==
  LET rank(at) == (IF ServerName(at) = <<"_">> THEN 0 ELSE HostBonus) + Len(PrefixOf(at))
  IN  \/ rank(a) > rank(b)
      \/ rank(a) = rank(b) /\ (a[1] < b[1] \/ (a[1] = b[1] /\ a[2] <= b[2]))

\* "Native nginx config ingestion" (README.md:172): from the text of a file to the
\* request an upstream gets.  The request goes to an upstream of the proxy_pass of the
\* location with the longest prefix, named servers first, with the headers that
\* this location sets and the limit and timeout that it, or its server above it,
\* sets; it gets a 404 when there is no such location.  What stands below a location
\* is not for it: FromNginx reads a file once, from top to bottom
\* (nginx_translator.go:18-35, 92-179).
ServedAsWritten ==
  file.tree # <<>> =>
    /\ stage = "done" /\ reply.status = 404 => Eligible = {}
    /\ attempts > 0 =>
         \E at \in Eligible :
           LET block == LocationAt(at).Block
               route == conf.Proxy.Routes[best]
               seconds == parseDurationSeconds(Setting(block, "proxy_read_timeout", <<"0">>))
               Of(n, name) == Is(n, "proxy_set_header") /\ Len(n.Args) > 1 /\ n.Args[1] = <<name>>
                                /\ "$" \notin ToSet(Join(Tail(n.Args)))
           IN  /\ \A other \in Eligible : Better(at, other)
               /\ out.host \in PassedTo(at)
               /\ route.MaxBodyBytes = parseSize(Setting(block, "client_max_body_size",
                                         Setting(SettingsAbove(at), "client_max_body_size", <<"0">>)))
               /\ route.TimeoutSeconds = IF seconds = 0 THEN 30 ELSE seconds
               /\ \A name \in Names \ (hopByHopHeaders \cup Listed(in.header)) :
                    LET sets == SelectSeq(block, LAMBDA n : Of(n, name))
                    IN  sets # <<>> => out.header[name] = <<Join(Tail(Last(sets).Args))>>

\* The parser reads back every file however its words are separated, quoted and
\* commented (nginx_parser.go:50-202).
ParseInverts ==
  stage \in {"front", "failed"} /\ file.tree # <<>> =>
    LET parsed == ParseNginxFile(file.text) IN parsed.ok /\ parsed.nodes = file.tree

\* A text without quotes and comments that is accepted, and never closes a block it
\* has not opened, closes all its blocks, and every word of it ends up at its depth
\* and in its place: a forgotten closing brace is an error, and a forgotten semicolon
\* may join two directives but does not drop a word or move it to another block
\* (nginx_parser.go:135-202).
NothingDropped ==
  stage = "front" /\ file.format = "nginx" /\ NeverBelow(file.text)
    /\ ToSet(file.text) \cap (Quotes \cup {"#"}) = {} =>
    /\ Opened(file.text, Len(file.text)) = 0
    /\ WordsOf(ParseNginxFile(file.text).nodes, 0) = WordsIn(file.text)

\* The directives of that name in all servers, or in all their locations.
InServers(directive) ==
  {n \in UNION {ToSet(s.Block) : s \in {m \in ToSet(file.tree) : Is(m, "server")}} : Is(n, directive)}
InLocations(directive) ==
  {n \in UNION {ToSet(l.Block) : l \in InServers("location")} : Is(n, directive)}

\* A file that declares a zone of at least one request per second, and in its
\* locations no burst of one, lets the first request of a client pass
\* (nginx_translator.go:153-158, 259-271, rate_limit.go:20-34).
AdmitsWhenDeclared ==
  file.tree # <<>> /\ stage = "done" /\ reply.status = 429 =>
    \/ \A z \in InServers("limit_req_zone") : parseRate(z.Args) < PerSecond
    \/ \E l \in InLocations("limit_req") : parseLimitReqBurst(l.Args) = 1

\* "Unknown directives are silently skipped so partial nginx.conf files work"
\* (nginx_translator.go:10): a gateway started with a file that gives routes and says
\* nothing of rates refuses no client's first request for its rate.
PartialFilesWork ==
  stage = "done" /\ file.tree # <<>> /\ conf.Proxy.Routes # <<>>
    /\ InServers("limit_req_zone") = {} /\ InLocations("limit_req") = {} => reply.status # 429
=============================================================================
