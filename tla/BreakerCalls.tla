---------------------------- MODULE BreakerCalls ----------------------------
(***************************************************************************)
(* Upstream.tla under the most general caller: any goroutine may call any  *)
(* of TryHalfOpen, RecordSuccess and RecordFailure at any time, as the     *)
(* concurrent tests of internal/types/upstream_test.go do.  What holds     *)
(* here holds whatever order the balancers and the proxy engine call in.   *)
(***************************************************************************)
EXTENDS Upstream

ASSUME SomeUpstream == Upstreams # {}

vars == <<fields, frame>>

Returned == {"idle", "admitted", "refused"}

Init ==
  /\ FieldsInit
  /\ pc = [g \in Goroutines |-> "idle"]
  /\ at = [g \in Goroutines |-> CHOOSE u \in Upstreams : TRUE]
  /\ ret = [g \in Goroutines |-> "idle"]
  /\ seen = [g \in Goroutines |-> 0]

Call(g, u, method) ==
  /\ pc[g] \in Returned
  /\ at' = [at EXCEPT ![g] = u]
  /\ Goto(g, method)
  /\ UNCHANGED <<fields, ret, seen>>

Step(g) == TryHalfOpen(g) \/ RecordSuccess(g) \/ RecordFailure(g)

Next ==
  \/ \E g \in Goroutines :
       \/ Step(g)
       \/ \E u \in Upstreams : \E method \in {"try", "succ", "fail"} : Call(g, u, method)
  \/ \E u \in Upstreams, verdict \in BOOLEAN : Check(u, verdict)
  \/ Tick

Spec == Init /\ [][Next]_vars
-----------------------------------------------------------------------------
\* Every field and local has its type; in particular the timer never runs for
\* longer than one opening, however many goroutines open the circuit at once.
TypeOK ==
  /\ healthy \in [Upstreams -> BOOLEAN]
  /\ failureCount \in [Upstreams -> Nat]
  /\ circuitState \in [Upstreams -> CircuitStates]
  /\ openFor \in [Upstreams -> 0..OpenSeconds]
  /\ halfOpenInFlight \in [Upstreams -> Int]
  /\ pc \in [Goroutines -> Returned \cup TryLabels \cup SuccessLabels \cup FailureLabels]
  /\ at \in [Goroutines -> Upstreams]
  /\ ret \in [Goroutines -> {"idle"}]
  /\ seen \in [Goroutines -> Int]

-----------------------------------------------------------------------------
(***************************************************************************)
(* One goroutine: the breaker implements CircuitBreaker.  A call takes     *)
(* effect at the step that decides it: RecordFailure when it increments a  *)
(* count that stays below the threshold, or else when it stores the        *)
(* deadline; RecordSuccess when it closes a half-open circuit, or else     *)
(* when it finds that the circuit is not half-open.                        *)
(***************************************************************************)
Undecided(u) ==
  \E g \in Goroutines :
    /\ at[g] = u
    /\ pc[g] \in {"failState", "failProbe", "failUnhealthy", "failDeadline"}
    /\ seen[g] >= Threshold

AbsState == [u \in Upstreams |-> IF At(u, {"failOpen"}) THEN "open" ELSE circuitState[u]]

AbsFailures ==
  [u \in Upstreams |->
     IF Undecided(u) THEN failureCount[u] - 1
     ELSE IF At(u, {"failOpen", "failReset", "succHealthy", "succReset"}) THEN 0
     ELSE failureCount[u]]

CB == INSTANCE CircuitBreaker WITH
        state <- AbsState, failures <- AbsFailures, timer <- openFor

\* Calls that do not overlap get the breaker of CircuitBreaker, although each of
\* them changes its fields one at a time: it trips on exactly the Threshold-th
\* consecutive failure, also of a half-open circuit, which a failed probe below the
\* threshold leaves half-open; it stays open until its timer has run out, and a
\* success closes it again if it is half-open (upstream.go:53-131).
SequentialBreaker == CB!Spec
-----------------------------------------------------------------------------
(***************************************************************************)
(* The scenario of TestUpstream_ConcurrentTryHalfOpenOnlyOneWins: the      *)
(* circuit is open, its timer has expired, and every goroutine calls       *)
(* TryHalfOpen once.                                                       *)
(***************************************************************************)
ExpiredInit ==
  /\ healthy = [u \in Upstreams |-> FALSE]
  /\ failureCount = [u \in Upstreams |-> 0]
  /\ circuitState = [u \in Upstreams |-> "open"]
  /\ openFor = [u \in Upstreams |-> 0]
  /\ halfOpenInFlight = [u \in Upstreams |-> 0]
  /\ pc = [g \in Goroutines |-> "try"]
  /\ at \in [Goroutines -> Upstreams]
  /\ ret = [g \in Goroutines |-> "idle"]
  /\ seen = [g \in Goroutines |-> 0]

RaceSpec == ExpiredInit /\ [][\E g \in Goroutines : TryHalfOpen(g)]_vars

Winners(u) == {g \in Goroutines : at[g] = u /\ pc[g] = "admitted"}

\* "exactly one goroutine should win the probe slot": no more goroutines are
\* admitted by TryHalfOpen than there are probe slots.
ProbeSlotExclusive == \A u \in Upstreams : Cardinality(Winners(u)) <= MaxProbes

\* What holds instead: the slots are handed out at most twice, before and after the
\* one reset of the count (upstream.go:61-82).
TwiceAtMost == \A u \in Upstreams : Cardinality(Winners(u)) <= 2 * MaxProbes
=============================================================================
