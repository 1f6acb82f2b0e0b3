------------------------------- MODULE Config -------------------------------
(***************************************************************************)
(* The configuration (internal/config/config.go) and the values that       *)
(* applyDefaults puts in the place of zero ones.                           *)
(*                                                                         *)
(* A string is a sequence of atoms.  A rate is counted in requests per two *)
(* minutes, which makes n/60 and n/2 per second whole numbers.             *)
(***************************************************************************)
EXTENDS Integers, Sequences

PerSecond == 120

\* An empty &Config{}.
NoConfig ==
  [Server |-> [Port |-> 0, HTTPSPort |-> 0, TLSCertFile |-> <<>>, TLSKeyFile |-> <<>>],
   Proxy |-> [Algorithm |-> "", Routes |-> <<>>],
   Rate |-> [RequestsPerSecond |-> 0, Burst |-> 0],
   Health |-> [Path |-> <<>>, IntervalSeconds |-> 0, TimeoutSeconds |-> 0],
   Admin |-> [Host |-> <<>>, Port |-> 0],
   Plugins |-> <<>>,
   Gzip |-> [Enabled |-> FALSE, Level |-> 0, MinLength |-> 0, ContentTypes |-> <<>>]]

Route(host, prefix, upstreams, maxBody, plugins) ==
  [Host |-> host, PathPrefix |-> prefix, Upstreams |-> upstreams, TimeoutSeconds |-> 0,
   MaxBodyBytes |-> maxBody, MaxRetries |-> 0, Plugins |-> plugins,
   CircuitBreaker |-> [FailureThreshold |-> 0, OpenDurationSeconds |-> 0, HalfOpenRequests |-> 0]]

UpstreamConfig(url, weight) == [URL |-> url, Weight |-> weight]

PluginConfig(name, config) == [Name |-> name, Enabled |-> TRUE, Config |-> config]

\* The configuration of a transformer with no edits.
NoEdits == [add_headers |-> <<>>, remove_headers |-> <<>>, rename_headers |-> <<>>,
            add_query |-> <<>>, remove_query |-> <<>>]

\* The host and port of an upstream's URL (url.Parse), which has a scheme.
HostOf(url) == <<url[3]>>

IntDefault(v, def) == IF v = 0 THEN def ELSE v
TextDefault(v, def) == IF v = <<>> THEN def ELSE v

RouteDefaults(r) ==
  [r EXCEPT
     !.PathPrefix = TextDefault(@, <<"/">>),
     !.TimeoutSeconds = IntDefault(@, 30),
     !.MaxRetries = IntDefault(@, 2),
     !.CircuitBreaker.FailureThreshold = IntDefault(@, 3),
     !.CircuitBreaker.OpenDurationSeconds = IntDefault(@, 30),
     !.CircuitBreaker.HalfOpenRequests = IntDefault(@, 1),
     !.Upstreams = [k \in DOMAIN @ |-> IF @[k].Weight <= 0 THEN [@[k] EXCEPT !.Weight = 1] ELSE @[k]]]

\* Rate has no default.
applyDefaults(c) ==
  [c EXCEPT
     !.Admin.Host = TextDefault(@, <<"127.0.0.1">>),
     !.Admin.Port = IntDefault(@, 8090),
     !.Gzip.Level = IntDefault(@, 6),
     !.Gzip.MinLength = IntDefault(@, 1024),
     !.Gzip.ContentTypes = TextDefault(@, <<<<"text/plain">>, <<"text/html">>, <<"text/css">>,
                                            <<"application/json">>, <<"application/javascript">>>>),
     !.Health.Path = TextDefault(@, <<"/">>),
     !.Health.IntervalSeconds = IntDefault(@, 5),
     !.Health.TimeoutSeconds = IntDefault(@, 2),
     !.Proxy.Routes = [k \in DOMAIN @ |-> RouteDefaults(@[k])]]
=============================================================================
