# A TLA+ model of the gateway

The repository is a reverse proxy in Go: a chi router with a middleware chain, a
gateway that maps requests to routes, and per route a proxy engine with a load
balancer, circuit breakers, retries and a WebSocket tunnel. This directory holds
TLA+ modules translated from `src/internal/`, TLC configurations that check them
on small instances, and TLAPS proofs of the main results for every instance.
`PROJECT.json` maps each definition to the lines it models.

    tlc -config engine_recovers.cfg MCEngine     # check a run
    tlapm EngineProofs.tla                       # check a module's proofs

## 1. Inventory

| Part (under `internal/`) | State | Operations | What makes it hard |
|---|---|---|---|
| circuit breaker, `types/upstream.go` | five `sync/atomic` fields per upstream | TryHalfOpen, RecordSuccess, RecordFailure, OpenCircuit | no lock: calls interleave at every atomic operation |
| balancers, `lb/` | ActiveConns, a counter | Next, Release, MarkFailure | Next has side effects on targets it does not pick |
| health checks, `health/` | Healthy | check, every interval | shares Healthy with the breaker |
| engine, `proxy/engine.go`, `retry.go` | locals of ServeHTTP | forward, retry, upgrade, answer | many exits; each must release, record and answer once |
| outbound request, `proxy/request.go`, `headers.go` | the cloned request | clone, rewrite, sanitize, forward headers | repeated on every attempt |
| tunnel, `proxy/tunnel.go` | two connections, three goroutines, a channel | handshake, relay | any step can fail, either side can end first |
| route table, `proxy/gateway.go` | an atomic pointer to a slice | match, Reload, buildPluginChain | precedence encoded in one integer |
| reload, `config/`, `admin/`, `shutdown/` | the global viper instance, a signal channel | SIGHUP, POST /admin/reload | nothing serialises reloads |
| rate limiter, `middleware/ratelimit.go` | a map of limiters under a mutex | get, Allow, cleanup | the limiter is used outside the lock, evicted by age |
| gzip, `middleware/gzip.go` | a buffering writer, a pool | Write, activate, close | changes mode in mid-body, compressors are shared |
| middleware chain, `router/`, `middleware/` | TimeoutHandler's buffer, the recorder | panic, timer, end of the handler | three ends race for one answer |
| plugins, `plugin/`, `pluginreg/` | the request and the response's headers | New and the handler of six plugins | order, Go maps, what one hides another rewrites |
| response, `proxy/copier.go` | headers, declared trailers | writeResponse | what is set when; errors of any layer pass the transformers |
| configuration, `config/config.go` | a Config | LoadAuto, applyDefaults | two formats, one set of defaults |
| nginx files, `config/nginx_*.go` | token, node, Config | lexer, parser, translation | errors are skipped silently; order matters |
| admin listings, metrics, logging, transport | none or write-only | | see section 7 |

The parts meet in these places: the engine drives balancer and breaker, and the
health checker writes to the same upstreams (composed in `Engine`, which extends
`Balancer`, which extends `Upstream`); a request passes from the configuration file
over the plugins and the route table to the upstream and back (composed in
`Gateway`, and with the file in `NginxGateway`); recovery, timeout and gzip wrap one writer (composed in `Middleware`);
a reload replaces the table `match` scans.

## 2. Modules

| Module | Models | Notes |
|---|---|---|
| `CircuitBreaker` | abstract: a three-state breaker, one step per call; a failed probe below the threshold is only counted | refined by `BreakerCalls` |
| `Upstream` | `types.Upstream` and the health checker's store | one action per atomic operation; `pc[g]` is the next one, `at[g]` the receiver |
| `BreakerCalls` | `Upstream` under any callers | also the scenario of a concurrent test |
| `Balancer` | RoundRobin, WeightedRoundRobin, LeastConnections | scan, choice, Release |
| `Engine` | `Engine.ServeHTTP` | composes the above with requests, outcomes, retries, and a panic while the response is written |
| `TokenBucket` | abstract: one bucket per client | refined by `RateLimiter` |
| `RateLimiter` | `NewIPRateLimit`, the store and cleanup | relative time |
| `Reload` | WatchReload, handleReload, config.Reload, Gateway.Reload | a configuration is the set of the versions its values are from; reading the file, replacing what viper holds and unmarshalling it are steps of their own |
| `RouteMatch` | Gateway.match and ServeHTTP | one action per turn of the loop |
| `Headers` | http.Header as the code uses it, the two transformers | a function from names to sequences of values; Loop is a Go loop over a slice |
| `Outbound` | the request an upstream sees | in, its clone, and the attempts made of it |
| `Config` | `config.Config`, applyDefaults, parts of a route | strings are sequences of words |
| `Plugins` | New and the handler of the six plugins, the registry | a handler is the set of its outcomes |
| `PluginChain` | router.New's plugin loop, buildPluginChain | pure functions and a reference |
| `NginxParser` | lexer and parser | recursion over a text of symbols |
| `NginxTranslate` | translateNginx, LoadNginx and the helpers that read sizes, rates, times | folds over directives, as the code's loops |
| `Gateway` | a request from the door to the response, for any configuration: the front of the router, plugins, match, engine entry, attempts, writeResponse | composes `RouteMatch`, `PluginChain`, `Plugins`, `Outbound`; ServeSpec is what the proofs are about |
| `NginxGateway` | LoadAuto and the start of the gateway | adds the file to `Gateway`, and what an nginx file says, read off the file itself |
| `GzipWriter` | gzipResponseWriter and its pool | bytes are named, compression is external |
| `Middleware` | Recovery, http.TimeoutHandler and the recorder around `GzipWriter` | `reply` is what the client gets |
| `Tunnel` | handleWebSocket, relayBidirectional | bytes are numbered |
| `MCEngine`, `MCGateway`, `MCMiddleware` | instances for TLC | |
| `BreakerProofs`, `EngineProofs`, `GatewayLemmas`, `GatewayProofs`, `MiddlewareProofs`, `RateLimiterProofs`, `ReloadProofs`, `TunnelProofs` | proofs | `GatewayLemmas`: what the loops of the gateway compute |

In `Gateway` a request goes through one `stage` after the other. Retry decisions,
balancing and time are in `Engine`, so that here every upstream of the route may be
tried any number of times up to a bound; the request is the first of its client, so
that a limiter refuses it exactly when its burst is 0. A Go map that the code ranges
over gives one outcome per order. Tokens, keys and addresses are members of small
sets with the attributes the code looks at (secret, algorithm, expiry, claims).

`Gateway` starts with a configuration and `NginxGateway` with a file, because the
parser is recursive and the prover cannot be used where a RECURSIVE operator is in
reach. Its action Load sets the configuration to what LoadAuto returns and builds the
table from it, as ServeInit does for any configuration.

Time is kept relative: `openFor` counts the seconds until an open circuit may be
probed, `idle` the age of an entry, and a Tick moves all of them. An operator
called "Variant of X" is a faulty form of X: putting it in the place of X breaks a
property, which shows that the property depends on that line of the code.

## 3. Runs

| Run | Instance | Checks |
|---|---|---|
| `breaker_sequential` | 1 goroutine, 2 upstreams | TypeOK; SequentialBreaker (refines `CircuitBreaker`) |
| `engine_recovers` | 2 requests, 1 upstream, threshold 2, 1 panic | ProbeBudget, NoMissedTrip, ConnsMatchHolders, NoWedge, and the liveness property Recovers |
| `engine_requests` | 1 request of any kind, 2 upstreams, LeastConnections, 2 retries, 1 panic per upstream | TypeOK, SentAtMost, ConnsMatchHolders, AnsweredOnce |
| `limiter` | 2 clients, 2 requests, cleanup | TypeOK, NoOrphan, IdealBucket (refines `TokenBucket`), StaleEvicted |
| `reload` | 1 admin reload at a time, the watcher, 2 rewrites | OnlyGoodTables, SighupInstalls |
| `gateway` | seven families of inputs, below | RightRoute, RunsInOrder, TransformedAsWritten, HiddenCredentials, Sanitized, ForwardedOnce, AnsweredAsWritten, TrailersPropagated, ParseInverts, NothingDropped, ServedAsWritten, AdmitsWhenDeclared |
| `middleware` | 2 responses of four kinds, 2 compressors, bodies of 3 bytes, panics, timer | Delivered, PoolConserved, AllOrNothing, and the liveness property CompressorsReturn |
| `tunnel_relay` | 1 upgrade, 2 bytes each way, all writers | ResultsFit, ClosedOnReturn, UpstreamStream, TasksEnd |
| `breaker_probe_race` | 2 goroutines | violated: ProbeSlotExclusive |
| `engine_stuck_probe` | 1 request at a time, 2 upstreams | violated: Recovers |
| `gzip_two_writes` | 1 response | violated: PassedThrough |
| `nginx_partial` | the nginx files of `gateway` | violated: PartialFilesWork |

The families of `gateway`, each of which varies one part and keeps the rest fixed:

- route tables of up to 3 routes, with 3 hosts and 5 prefixes;
- plugin lists of up to 3 entries, global or of the route, with entries that are
  disabled, unknown or refused among them (RunsInOrder);
- plugin configurations, two in a row, with requests that carry every mix of keys,
  tokens and forwarded addresses (TransformedAsWritten, HiddenCredentials);
- requests with every set of hop-by-hop headers and every list in Connection, with
  and without an upgrade, over two attempts (Sanitized, ForwardedOnce);
- responses with repeated headers, hop-by-hop headers and trailers, announced or not,
  behind up to three response transformers (AnsweredAsWritten, TrailersPropagated);
- nginx files with up to two servers and two locations, settings above and below the
  locations and groups that are declared late or twice, written down in two styles
  (ParseInverts, ServedAsWritten, AdmitsWhenDeclared);
- all texts of up to 6 symbols (NothingDropped).

Some properties stop where the code's promise does. Sanitized is about the fixed list
`hopByHopHeaders`, not about the names in Connection. TransformedAsWritten covers
renames that are apart: none gives or takes a name of another. Of others the result
depends on the order of a Go map. RightRoute is checked with prefixes shorter than the
bonus of a host. NothingDropped allows a forgotten `;` to join two directives, and
leaves out texts that close a block they never opened. AnsweredAsWritten excepts the
request id that is set outside of http.TimeoutHandler, TrailersPropagated the trailers
that were not announced, and Delivered the label of a body that is compressed twice.
Each is listed in section 6.

The four violated runs state what a test or a comment of the repository says and
show what the code does instead:

- **breaker_probe_race**: TryHalfOpen swaps the state to half-open and then stores
  0 in the slot count; a goroutine that takes a slot in between has it erased, and
  two are admitted where the test says one wins.
- **engine_stuck_probe**: Next takes a probe slot of every half-open upstream it
  scans and uses one. The others keep a slot that nobody returns and, with one
  slot configured, never see traffic again. `engine_recovers` shows that with one
  upstream, where scanned and picked are the same, recovery does work.
- **gzip_two_writes**: after a body of a type that is not compressed has passed
  MinLength, the next Write goes to a nil compressor and panics.
- **nginx_partial**: a file without `limit_req_zone` leaves rate and burst of the
  global limiter at 0, which no default fills in, and every request gets a 429;
  the comment says that partial files work.

**Bounds.** Two goroutines are enough for every race between two calls; the
results of section 5 hold for any number. Threshold 2 separates the failure that
trips from one that does not. OpenDurationSeconds 1 or 2 separates running from
expired. `counter` is kept modulo CounterPeriod, a multiple of the length of
every list it indexes. MinLength 2 with bodies of 3 bytes gives writes below, at
and above the limit. HostBonus 4 with prefixes of at most 3 characters keeps the
relation between the code's 10000 and the length of a path. Two plugins with edits
are enough for one to undo the other; three list entries let a skipped one stand
between two that run. Six symbols hold a block inside of a block, and every way to
leave out one of its marks. `middleware` keeps to four kinds of response (no gzip
accepted, type not listed, already encoded, to be compressed), all of which declare
their length, and to one status other than 200; two compressors for two responses let
one be reused while the other is in use. LastVersion 2 lets a
broken version stand between two good ones; one admin reload and the watcher are
enough for one to undo or tear what the other reads. MaxPanics 1 lets a target go on
being used after a Release was skipped. WeightedRoundRobin is in no run: its
list differs from RoundRobin's only in repetitions; the theorems cover it.

**Deadlock** is not checked where the system may stop: a request through the
gateway, a body, a tunnel or a request's attempts come to an end.

## 4. Fairness

- Engine: a goroutine that can run does, and a round trip ends (forward has a
  timeout; tunnels, which have none, are exempt); clients keep sending; the
  checker's ticker keeps firing and finds an upstream that is up; time passes.
- RateLimiter: handlers get on, the ticker fires, time passes.
- Reload: the watcher and the handlers run.
- Middleware: the timer of http.TimeoutHandler fires; a handler may take for ever
  until then, but returns once its context is cancelled, which ends its calls to the
  upstream; the deferred close of gzip runs.
- Tunnel: a goroutine with a result to send runs, and net/http cancels the context
  of a request that has returned. Nothing is assumed of the peers.

Recovers has the form "if from some moment on everything answers, then from some
moment on every upstream is in rotation"; its premise is stated over steps.

## 5. Theorems

Checked by TLAPS, for all values of the constants that satisfy the ASSUMEs.

| Theorem | States | Argument |
|---|---|---|
| `BreakerProofs!TypeCorrect` | types, the timer within one opening | per operation |
| `BreakerProofs!ProbeBudgetHolds` | slots taken never exceed the limit | a goroutine about to swap has seen a value below the limit (SwapBelowLimit), and the swap succeeds only on that value |
| `BreakerProofs!NoMissedTripHolds` | a count at the threshold has a goroutine about to trip | strengthened by what each goroutine in RecordFailure has seen |
| `BreakerProofs!SequentialRefinement` | with one goroutine the breaker implements `CircuitBreaker` | SoloInv relates the local count to the field; each operation is a step or a stutter |
| `BreakerProofs!RaceIsBounded` | of goroutines that race for an expired circuit, at most twice the limit are admitted (TwiceAtMost) | RaceInv: until the one store behind the swap there are no more winners than slots taken, after it at most one limit more |
| `EngineProofs!TypeCorrect`, `SendsBounded`, `OneAnswer` | types and retry budget, sends, exactly one answer | LocalOK: at each place of ServeHTTP, which target is held, how many were sent, whether it is answered |
| `EngineProofs!ConnsAccounted` | ActiveConns = requests in flight + requests that panicked in writeResponse | the set of holders changes only at Acquire, ReleaseConn and a panic, by one element |
| `EngineProofs!NoWedgeAlone` | with one upstream, a half-open circuit without a free slot has a request that will settle it | NoWedge is inductive with the types and places: who fills the last slot is answerable for the upstream (Watches) until a slot is free or the state another (Minds), which is before a panic can end it (Settled) |
| `EngineProofs!ProbesBounded`, `NoTripLost` | ProbeBudget and NoMissedTrip under the engine's own calls | BreakerInv; a step outside of the three methods leaves both counts and every goroutine inside of RecordFailure alone (Aside) |
| `RateLimiterProofs!NeverOrphaned` | no request uses an evicted limiter | a pending request's entry is no older than the request (Pending) |
| `RateLimiterProofs!BucketRefinement` | the limiter implements `TokenBucket` | assumes RefilledByEviction; an entry of age n has regained Refill * n (Refilled) |
| `ReloadProofs!ReloadIsSafe` | no version that cannot be loaded and no unchecked table is installed | what a reloader holds past Unmarshal is good or mixed, past Build checked |
| `ReloadProofs!NoRollbackAlone` | without the admin endpoint no value of the table gives way to one of an older version (NoRollback) | what the watcher has read is no older than what viper holds, which is no older than the table; what it unmarshals is exactly what viper holds (Newer) |
| `MiddlewareProofs!PoolSafe` | a compressor is in the pool or held by one response | StackInv: a compressor is held only between activation and close, points at its holder, and no two responses hold the same; a step of one response does not touch another (Same) and does nothing to the pool, one Get or one Put (Moves) |
| `MiddlewareProofs!WholeReplies` | a client gets a whole response or an error page | also in StackInv: what was written is what arrived plus what is buffered or in the compressor, in order; at the end nothing is left on its way |
| `MiddlewareProofs!BodiesDelivered` | a client can decode what the handler wrote, under the right status and length, and the right encoding unless it was compressed again | Headed: when the head has not been sent, when it must have been, and that there is only one it can be; Cut: a panic loses the end at most |
| `GatewayProofs!RoutesRight` | the scan finds the first route of the reference order | loop invariant ScanInv; needs prefixes shorter than the bonus |
| `GatewayProofs!PluginsRunInOrder` | plugins run in the order of the configuration, all before an attempt | met and waiting plugins form one ordered line that covers those wanted (InLine) |
| `GatewayProofs!AttemptsAreSanitized`, `AttemptsAreForwardedOnce` | the headers of every attempt | an attempt is made from the request as it reached the engine (OutInv) |
| `GatewayProofs!EditsArrive` | the upstream gets the request as the transformers edit it | after each plugin the header is what the edits met so far give (EditInv); renames that are apart commute |
| `GatewayProofs!CredentialsAreHidden` | a hidden key reaches no upstream | a key that is there was written by a plugin behind the one that hid it (HideInv) |
| `GatewayProofs!AnswersAreEdited` | every response carries the edits of its transformers, all but the request id set outside of http.TimeoutHandler | on the way out, the writers passed so far have had their say but for those further out (Filtered); the id is laid under the result (Laid) |
| `GatewayProofs!TrailersArrive` | the trailers that the upstream announced arrive | each is declared once the declaring loop is through, and no writer passed touches it |
| `TunnelProofs!AllClosed` | no connection is open on return | which connections can be open at each place of handleWebSocket |
| `TunnelProofs!ClientBytesInOrder` | the upstream gets a prefix of the client's bytes | passed on, read ahead and unread bytes follow each other (Follows) and add up to the bytes sent |
| `TunnelProofs!NeverBlocked` | each running goroutine of the relay has room for its result | RoomInv: results sent and goroutines that can still send add up to at most the three places of the channel |

Assumptions: a goroutine is delayed by at most MaxHold <= EvictAfter between two
statements of the limiter; prefixes are shorter than 10000; `Goroutines` is
finite; SequentialRefinement assumes a single goroutine, NoWedgeAlone a single
upstream, and NoRollbackAlone that nobody calls the admin endpoint. ProbeBudgetHolds
and NoMissedTripHolds are about the breaker under any callers (`BreakerCalls`).
The engine is no refinement of `BreakerCalls`, whose goroutines choose their target
in the step that enters a method while the engine moves on to it before; ProbesBounded
and NoTripLost therefore prove the two invariants of the engine itself.

**The gateway.** The eight theorems of `GatewayProofs` share one inductive
invariant, IInv. Its parts need each other: which edits a request has had follows
from which plugins it met, those depend on the route, and a plugin keeps its place in
the line only as long as the route stays the one found. They hold for tables, plugin
lists, maps of edits, claims and trailers of any size, which takes an induction over
each loop. The provers instantiate neither an induction theorem that has a predicate
for a parameter nor a lemma about a fold with any body. `GatewayLemmas` therefore
collects the bodies of all loops in one operator with a tag (Turn). FoldTurns, proved
once from the definition of the community modules' MapThenFoldSet, says that such a
loop takes its turns one after the other. SetInduction, which is about sets of numbers
instead of predicates, then carries a claim through all turns (RenameLoop, ApartLoop,
ClaimLoop, UseLoop, BuildLoop, WriteLoop, DeclareLoop). Maps are met in any order: the
lemmas are about every sequence that lists the keys once (OrderOf).

**One upstream.** NoWedge is false of two upstreams; `engine_stuck_probe` shows where
that leads. With one the proof goes through for every number of requests, since a
goroutine that took the last slot has no other target to go to.

**What holds instead.** Three theorems say what is left of a claim the code does
not keep. `breaker_probe_race` shows two winners where the test says one, and
RaceIsBounded that in this scenario, any number of goroutines that only call
TryHalfOpen, there are never three: the store that erases slots runs once per swap.
NoRollback is false as soon as two reloads overlap; NoRollbackAlone shows that the
watcher, which handles one signal after the other, cannot do this to itself.
NoWedgeAlone is the third.

**Only model-checked.** All liveness (Recovers, StaleEvicted, SighupInstalls,
TasksEnd, CompressorsReturn), which is outside of the prover's reach. What is said of
nginx files (ParseInverts, NothingDropped, ServedAsWritten, AdmitsWhenDeclared): the
parser descends recursively through a text, and no theorem can be about a RECURSIVE
operator here.

## 6. Known deviations without a run

Met while modelling; the models contain the behaviour, and the properties checked
above are stated so that they do not depend on it.

- `types/upstream.go:57-61`: the deadline is read before the swap; a circuit that
  was reopened in between becomes half-open while its new timer runs.
- `types/upstream.go:114-124`: a failed probe below the threshold leaves the circuit
  half-open; `CircuitBreaker` has it as a step of its own (FailedProbe).
- `lb/round_robin.go:55`: Release after a failed probe below the threshold finds
  the circuit half-open and closes it (`upstream_test.go:168`: "failure during
  probe must reopen circuit", with a threshold of 1).
- `proxy/engine.go:159`: a 502, 503 or 504 that is not retried counts as a success
  and clears the failures before it.
- `proxy/engine.go:161-163`: Release is not deferred: a panic in writeResponse, as the
  one of `gzip_two_writes`, leaves ActiveConns of the target one too high for good.
- `config/config.go:111-116`: viper has no lock. An admin reload that has read an older
  file and hands it over late undoes what the watcher has just read, and the SIGHUP is
  lost; one that does so while values are collected gives a table mixed of two
  versions, one of which may be broken.
- `proxy/gateway.go:52`: of two overlapping reloads the older may store last (see
  NoRollbackAlone).
- `middleware/ratelimit.go:82`: with a refill slower than the eviction
  (RefilledByEviction false) eviction hands out a full bucket early.
- `middleware/gzip.go:89`: an already encoded body is compressed again, and labelled
  with the second encoding only.
- `middleware/recorder.go:65`: the fallback of ReadFrom does not count its bytes;
  `logging.go:17`: a request that panics is not logged, and one that timed out is
  logged with the handler's status instead of the client's 503.
- `proxy/tunnel.go:53`: bytes that arrive with the 101 are lost.
- `router/router.go:27`: behind http.TimeoutHandler a request cannot be hijacked: an
  upgrade gets an empty 200, or a 500 behind a response transformer. Trailers
  appear among the headers as well. X-Request-ID is set outside of it: no response
  transformer can remove it, and one that an upstream sends replaces it.
- `proxy/copier.go:15-25`: trailers that the upstream did not announce are not
  declared, and do not arrive as trailers.
- `proxy/engine.go:188`: the context of an attempt is cancelled when forward returns,
  before the body is read; a body may break off.
- `proxy/headers.go:24`: Connection is deleted before the names it lists are read.
- `proxy/request.go:52`: X-Forwarded-Host is set after Host was rewritten;
  `request.go:12`: attempts share the body (not in the model).
- `proxy/copier.go:36`: headers are added to those of CORS, not set: an upstream's
  own Access-Control-Allow-Origin makes two.
- `plugins/request_transformer.go:36`: a rename to the same name loses the header, a
  rename keeps only the first value, and renames that give or take each other's names
  depend on the order of a Go map.
- `proxy/gateway.go:103-107`: a prefix of more than 10000 characters outweighs a host.
- `plugins/jwt.go:56`: an algorithm in lower case is accepted by New, and then no
  token is valid.
- `plugins/rate_limit.go:21-28`: an integer rate, as in `configs/config.yaml:33`, is
  refused, so that the plugin is skipped; an integer burst, as `limit_req` makes it
  (`nginx_translator.go:268`), counts as none; a rate below 1 gives a burst of 0,
  which refuses everything.
- `proxy/gateway.go:124`: the admin API lists plugins that were skipped.
- `config/nginx_translator.go:95-104`: `listen` with an address is skipped;
  `:18-35`, `:111-130`: a file is read in one pass, so that settings apply to the
  locations and groups to the servers that follow them, where nginx ignores the
  order; `:187`: the algorithm of all routes is that of the first group used.
- `config/nginx_parser.go:193`: the end of the file ends a directive without `;`;
  a stray `}` behind a word is taken as an argument, and one at the top level ends
  the file without an error.
- `config/config.go:111`: a gateway started from an nginx file reloads through viper,
  which never read it.

## 7. Not modelled

- Metrics are never read back. Logging and the transport are constructors of library
  values; the log line and the byte count of the recorder are output only.
- The listings of the admin API render snapshots and change nothing.
- shutdown.Wait hands a deadline to a callback that is outside of the repository.
- What viper does with a YAML file, and the types it decodes to, except where a plugin
  tells int from float64.
- Flush, Push and ReadFrom of the recorder; `/health` and `/metrics`.
- The length of the backoff, and negative `max_retries`.
- Names of routes, which label metrics only.
- The buckets of a rate-limit plugin over several requests: they are those of
  `RateLimiter`, and in `Gateway` a request is the first of its client.

## 8. Plan

Order of work: breaker, balancer, engine; limiter; reload; matching; the writer-side
modules; then the request from file to response and the middleware around gzip. All of
these exist. What would come next:

1. the bytes of a response through engine, copier and gzip in one model;
2. a proof of the bytes a tunnel passes down, once those behind the 101 are kept.
