------------------------------- MODULE Engine -------------------------------
(***************************************************************************)
(* internal/proxy/engine.go: Engine.ServeHTTP, the life of a request on a  *)
(* route.  Each goroutine serves one request at a time: it asks the        *)
(* balancer for a target, forwards, reports the outcome to the target's    *)
(* breaker, releases the target and then answers or tries again.  The      *)
(* health checker of the route and the clock run beside them.              *)
(*                                                                         *)
(* What the upstream and the client do is the outcome of a round trip:     *)
(*   "ok"          a response other than the three below                   *)
(*   "badStatus"   502, 503 or 504                                         *)
(*   "netError"    a transport error isRetryableTransportError accepts:    *)
(*                 a net.Error (timeouts included), ECONNRESET or EPIPE    *)
(*   "otherError"  any other error: an unexpected EOF, or a client that    *)
(*                 went away and cancelled the request's context           *)
(*   "tooLarge"    the request body exceeded max_body_bytes                *)
(* and, for a WebSocket upgrade, "tunnelled" or "upgradeFailed".           *)
(*                                                                         *)
(* Metrics are left out: the engine never reads them back.                 *)
(***************************************************************************)
EXTENDS Balancer

CONSTANTS MaxRetries,   \* the route's max_retries, after its default
          Kinds,        \* the kinds of requests clients send, see AllKinds
          MaxPanics     \* bound: responses of an upstream whose writing panics;
                        \*   0 without the gzip middleware

\* GET, HEAD and OPTIONS are "safe" (isReplaySafeMethod), other methods
\* "unsafe"; "upgrade" is a WebSocket upgrade, which is never retried.
AllKinds == {"safe", "unsafe", "upgrade"}

ASSUME EngineConfig ==
  /\ IsFiniteSet(Goroutines)
  /\ MaxRetries \in Nat
  /\ Kinds \subseteq AllKinds
  /\ MaxPanics \in Nat

VARIABLES kind,         \* the request of each goroutine
          attempt,      \* attempt
          outcome,      \* how its last round trip ended
          sent,         \* round trips made for the request
          answered,     \* responses written for the request
          lost          \* history: requests that panicked holding each upstream

requestVars == <<kind, attempt, outcome, sent, answered, lost>>
vars == <<fields, frame, balancerVars, requestVars>>

Responses == {"ok", "badStatus"}
Errors == {"netError", "otherError"}
RoundTrips == Responses \cup Errors \cup {"tooLarge"}
Tunnels == {"tunnelled", "upgradeFailed"}

\* Variant of shouldRetry: the method is not looked at.
shouldRetryAny(k, o) == o \in {"badStatus", "netError"}

shouldRetry(k, o) == k = "safe" /\ o \in {"badStatus", "netError"}

Init ==
  /\ FieldsInit
  /\ BalancerInit
  /\ pc = [g \in Goroutines |-> "idle"]
  /\ at = [g \in Goroutines |-> 0]
  /\ ret = [g \in Goroutines |-> "released"]
  /\ seen = [g \in Goroutines |-> 0]
  /\ kind = [g \in Goroutines |-> "none"]
  /\ attempt = [g \in Goroutines |-> 0]
  /\ outcome = [g \in Goroutines |-> "none"]
  /\ sent = [g \in Goroutines |-> 0]
  /\ answered = [g \in Goroutines |-> 0]
  /\ lost = [u \in Upstreams |-> 0]
-----------------------------------------------------------------------------
(***************************************************************************)
(* Helpers.                                                                *)
(***************************************************************************)
CallNext(g) == Goto(g, "scan") /\ at' = [at EXCEPT ![g] = 0]

\* Enter RecordSuccess or RecordFailure on the target.
Record(g, method, then) ==
  /\ Goto(g, method)
  /\ at' = [at EXCEPT ![g] = target[g]]
  /\ ret' = [ret EXCEPT ![g] = then]

Answer(g) == answered' = [answered EXCEPT ![g] = @ + 1]

\* ServeHTTP is left; its locals are gone.
Finish(g) ==
  /\ Goto(g, "idle")
  /\ kind' = [kind EXCEPT ![g] = "none"]
  /\ attempt' = [attempt EXCEPT ![g] = 0]
  /\ outcome' = [outcome EXCEPT ![g] = "none"]
  /\ sent' = [sent EXCEPT ![g] = 0]
  /\ at' = [at EXCEPT ![g] = 0]
  /\ ret' = [ret EXCEPT ![g] = "released"]
  /\ UNCHANGED <<fields, seen>>

\* Variant of WillRetry: attempt <= maxRetries.
WillRetryOnceMore(g, o) == shouldRetry(kind[g], o) /\ attempt[g] <= MaxRetries

WillRetry(g, o) == shouldRetry(kind[g], o) /\ attempt[g] < MaxRetries
-----------------------------------------------------------------------------
(***************************************************************************)
(* ServeHTTP.                                                              *)
(***************************************************************************)
Arrive(g) ==
  /\ pc[g] = "idle"
  /\ \E k \in Kinds : kind' = [kind EXCEPT ![g] = k]
  /\ answered' = [answered EXCEPT ![g] = 0]
  /\ CallNext(g)
  /\ UNCHANGED <<fields, ret, seen, balancerVars, attempt, outcome, sent, lost>>

\* Variant of NoUpstream: the break returns without the 502.
NoUpstreamSilent(g) ==
  /\ pc[g] = "none"
  /\ IF attempt[g] = 0 THEN Answer(g) ELSE UNCHANGED answered
  /\ Finish(g)
  /\ UNCHANGED <<balancerVars, lost>>

\* No target: 503 on the first attempt, or a break out of the retry loop to
\* the 502 after it.
NoUpstream(g) ==
  /\ pc[g] = "none"
  /\ Answer(g)
  /\ Finish(g)
  /\ UNCHANGED <<balancerVars, lost>>

\* forward, and the branch taken on what it returns.  A response that is not
\* retried is a success for the breaker, whatever its status; a request body
\* that is too large is neither a success nor a failure.
Forward(g) ==
  /\ pc[g] = "forward"
  /\ kind[g] # "upgrade"
  /\ sent' = [sent EXCEPT ![g] = @ + 1]
  /\ \E o \in RoundTrips :
       /\ outcome' = [outcome EXCEPT ![g] = o]
       /\ \/ /\ o = "tooLarge"
             /\ Answer(g)
             /\ Goto(g, "release")
             /\ UNCHANGED <<at, ret>>
          \/ /\ o \in Errors \/ WillRetry(g, o)
             /\ Record(g, "fail", "release")
             /\ UNCHANGED answered
          \/ /\ o \in Responses /\ ~WillRetry(g, o)
             /\ Record(g, "succ", "respond")
             /\ UNCHANGED answered
  /\ UNCHANGED <<fields, seen, balancerVars, kind, attempt, lost>>

\* handleWebSocket, which returns when the tunnel is torn down.
Upgrade(g) ==
  /\ pc[g] = "forward"
  /\ kind[g] = "upgrade"
  /\ sent' = [sent EXCEPT ![g] = @ + 1]
  /\ \E o \in Tunnels :
       /\ outcome' = [outcome EXCEPT ![g] = o]
       /\ Record(g, IF o = "upgradeFailed" THEN "fail" ELSE "succ", "release")
  /\ UNCHANGED <<fields, seen, balancerVars, kind, attempt, answered, lost>>

\* Variant of Respond: an early return before Release.
RespondUnreleased(g) ==
  /\ pc[g] = "respond"
  /\ Answer(g)
  /\ Finish(g)
  /\ UNCHANGED <<balancerVars, lost>>

\* writeResponse; an error while copying the body changes nothing here.
Respond(g) ==
  /\ pc[g] = "respond"
  /\ Answer(g)
  /\ Goto(g, "release")
  /\ UNCHANGED <<fields, at, ret, seen, balancerVars, kind, attempt, outcome, sent, lost>>

\* writeResponse panics in a Write of the gzip middleware, see GzipWriter!WritePanics.
\* Release is not deferred, so that the target stays counted for good; the client
\* gets the 500 of middleware.Recovery in place of the response.
RespondPanics(g) ==
  /\ pc[g] = "respond"
  /\ lost[target[g]] < MaxPanics
  /\ lost' = [lost EXCEPT ![target[g]] = @ + 1]
  /\ target' = [target EXCEPT ![g] = NoTarget]
  /\ Answer(g)
  /\ Finish(g)
  /\ UNCHANGED <<activeConns, counter, eligible>>

\* Back from Release, on the way to another attempt.
Retry(g) ==
  /\ pc[g] = "released"
  /\ WillRetry(g, outcome[g])
  /\ attempt' = [attempt EXCEPT ![g] = @ + 1]
  /\ CallNext(g)
  /\ UNCHANGED <<fields, ret, seen, balancerVars, kind, outcome, sent, answered, lost>>

\* Back from Release for good: an error that is not retried is answered with a
\* 502, everything else has been answered already.
Return(g) ==
  /\ pc[g] = "released"
  /\ ~WillRetry(g, outcome[g])
  /\ IF outcome[g] \in Errors THEN Answer(g) ELSE UNCHANGED answered
  /\ Finish(g)
  /\ UNCHANGED <<balancerVars, lost>>
-----------------------------------------------------------------------------
BreakerStep(g) ==
  /\ RecordSuccess(g) \/ RecordFailure(g)
  /\ UNCHANGED <<balancerVars, requestVars>>

Serve(g) ==
  \/ (NextTarget(g) \/ Release(g)) /\ UNCHANGED requestVars
  \/ BreakerStep(g)
  \/ NoUpstream(g) \/ Forward(g) \/ Upgrade(g)
  \/ Respond(g) \/ RespondPanics(g) \/ Retry(g) \/ Return(g)

Environment ==
  /\ Tick \/ \E u \in Upstreams, verdict \in BOOLEAN : Check(u, verdict)
  /\ UNCHANGED <<balancerVars, requestVars>>

Next == Environment \/ \E g \in Goroutines : Arrive(g) \/ Serve(g)

Spec == Init /\ [][Next]_vars
-----------------------------------------------------------------------------
(***************************************************************************)
(* Safety.                                                                 *)
(***************************************************************************)
EngineLabels == {"idle", "scan", "scanState", "admitted", "refused", "compare", "none",
                 "acquire", "forward", "respond", "release", "releaseState", "released"}

\* Every variable has its type; in particular a request never makes a further
\* attempt once it has used up max_retries.
TypeOK ==
  /\ healthy \in [Upstreams -> BOOLEAN]
  /\ failureCount \in [Upstreams -> Nat]
  /\ circuitState \in [Upstreams -> CircuitStates]
  /\ openFor \in [Upstreams -> 0..OpenSeconds]
  /\ halfOpenInFlight \in [Upstreams -> Int]
  /\ pc \in [Goroutines -> EngineLabels \cup TryLabels \cup SuccessLabels \cup FailureLabels]
  /\ at \in [Goroutines -> 0..NumTargets]
  /\ ret \in [Goroutines -> {"release", "respond", "released"}]
  /\ seen \in [Goroutines -> Int]
  /\ activeConns \in [Upstreams -> Int]
  /\ counter \in Nat
  /\ eligible \in [Goroutines -> Seq(Upstreams)]
  /\ target \in [Goroutines -> 0..NumTargets]
  /\ kind \in [Goroutines -> AllKinds \cup {"none"}]
  /\ attempt \in [Goroutines -> 0..MaxRetries]
  /\ outcome \in [Goroutines -> RoundTrips \cup Tunnels \cup {"none"}]
  /\ sent \in [Goroutines -> Nat]
  /\ answered \in [Goroutines -> Nat]
  /\ lost \in [Upstreams -> Nat]

\* The goroutines whose request occupies upstream u.
Holders(u) == {g \in Goroutines : target[g] = u /\ pc[g] \notin {"acquire", "idle"}}

\* ActiveConns of an upstream is the number of requests it is serving and of those
\* that panicked while writing its response, at every moment.  No path on which
\* ServeHTTP returns (retries, 413, upgrades, errors) forgets a Release, makes one
\* twice, or releases another target than the one Next returned; a panic in
\* writeResponse (engine.go:161-163) is the one way for the counts that
\* LeastConnections compares to drift, by one each time, and never back.
ConnsMatchHolders ==
  \A u \in Upstreams : activeConns[u] = Cardinality(Holders(u)) + lost[u]

\* A request that is not replay-safe is sent to at most one upstream, once, and
\* a replay-safe one at most max_retries times more ("POST must not be retried").
SentAtMost ==
  \A g \in Goroutines : sent[g] <= IF kind[g] = "safe" THEN MaxRetries + 1 ELSE 1

\* Whatever way ServeHTTP is left, exactly one response has been written for a
\* request that is not an upgrade: the break out of the retry loop, the 413 and
\* the failed last attempt all answer, and none answers twice.  (The one that a
\* panic cuts short is replaced by the 500 of Recovery, see Middleware.)
AnsweredOnce ==
  [][\A g \in Goroutines :
       pc[g] # "idle" /\ pc'[g] = "idle" /\ kind[g] # "upgrade" => answered'[g] = 1]_vars

\* Where the breaker has been told of the outcome and a panic may end the request.
Settled == {"succHealthy", "succReset", "respond"}

\* Some goroutine will still close the circuit of u or give its probe slots back.
ProbeOutstanding(u) ==
  \E g \in Goroutines :
    \/ target[g] = u /\ pc[g] \notin Settled
    \/ \E i \in DOMAIN eligible[g] : eligible[g][i] = u
    \/ /\ at[g] = u
       /\ pc[g] \in {"tryReset", "admitted", "releaseState", "succ", "succProbe", "succClose"}

\* A half-open circuit with no probe slot left has a request under way that will
\* settle it, whether or not the writing of its response panics.  Otherwise nothing
\* would: Next passes the upstream over for want of a slot, and only the end of a
\* request sent to it returns one.
NoWedge ==
  \A u \in Upstreams :
    circuitState[u] = "halfOpen" /\ halfOpenInFlight[u] >= MaxProbes => ProbeOutstanding(u)

-----------------------------------------------------------------------------
(***************************************************************************)
(* Liveness.  A goroutine that can run does, and a round trip ends because *)
(* of its timeout (a tunnel need not); clients keep sending requests; the  *)
(* health checker's ticker keeps firing, and finds an upstream that is up  *)
(* to be up; the clock keeps running.                                      *)
(***************************************************************************)
Fairness ==
  /\ \A g \in Goroutines :
       /\ WF_vars(Arrive(g))
       /\ WF_vars(Serve(g) /\ ~Upgrade(g))
  /\ \A u \in Upstreams : WF_vars(Check(u, TRUE) /\ UNCHANGED <<balancerVars, requestVars>>)
  /\ WF_vars(Tick /\ UNCHANGED <<balancerVars, requestVars>>)

FairSpec == Spec /\ Fairness

\* In this step no round trip ends other than with a proper response, and no
\* health check finds an upstream down.
Sound ==
  /\ \A g \in Goroutines : pc[g] = "forward" /\ pc'[g] # "forward" => outcome'[g] = "ok"
  /\ \A u \in Upstreams : healthy[u] /\ ~healthy'[u] => pc' # pc

Serving(u) == healthy[u] /\ circuitState[u] = "closed"

\* "recovered upstream should receive traffic": if from some moment on every
\* upstream answers every request and every health check, then from some moment
\* on every upstream is in rotation.
Recovers == <>[][Sound]_vars => <>[](\A u \in Upstreams : Serving(u))

=============================================================================
