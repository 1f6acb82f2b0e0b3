--------------------------- MODULE CircuitBreaker ---------------------------
(***************************************************************************)
(* What the circuit breaker of an upstream promises to a caller whose      *)
(* calls do not overlap with anybody else's: every call is one step.       *)
(*                                                                         *)
(*   - the Threshold-th consecutive failure opens the circuit, whatever    *)
(*     state it is in, and starts a timer of OpenSeconds seconds;          *)
(*   - an open circuit becomes half-open only once the timer has run out;  *)
(*   - a failure of a half-open circuit is counted like any other: unless  *)
(*     it is the Threshold-th, the circuit stays half-open.  This is not   *)
(*     the usual breaker, which a failed probe opens again at once, and    *)
(*     upstream_test.go:168 ("failure during probe must reopen circuit")   *)
(*     only sees the usual one because its threshold is 1;                 *)
(*   - a success forgets the failures counted so far, and closes the       *)
(*     circuit if it was half-open.                                        *)
(*                                                                         *)
(* Upstream.tla, the breaker as it is coded, is shown to implement this    *)
(* module when one goroutine at a time uses it.                            *)
(***************************************************************************)
EXTENDS Integers

CONSTANTS Upstreams,    \* the upstreams, each with a breaker of its own
          Threshold,    \* consecutive failures that open the circuit
          OpenSeconds   \* how long it then stays open

VARIABLES state,        \* "closed", "open" or "halfOpen", per upstream
          failures,     \* failures since the last success or opening
          timer         \* seconds until an open circuit may be probed

vars == <<state, failures, timer>>

Init ==
  /\ state = [u \in Upstreams |-> "closed"]
  /\ failures = [u \in Upstreams |-> 0]
  /\ timer = [u \in Upstreams |-> 0]

Count(u) ==
  /\ state[u] # "halfOpen"
  /\ failures[u] + 1 < Threshold
  /\ failures' = [failures EXCEPT ![u] = @ + 1]
  /\ UNCHANGED <<state, timer>>

FailedProbe(u) ==
  /\ state[u] = "halfOpen"
  /\ failures[u] + 1 < Threshold
  /\ failures' = [failures EXCEPT ![u] = @ + 1]
  /\ UNCHANGED <<state, timer>>

Trip(u) ==
  /\ failures[u] + 1 >= Threshold
  /\ state' = [state EXCEPT ![u] = "open"]
  /\ failures' = [failures EXCEPT ![u] = 0]
  /\ timer' = [timer EXCEPT ![u] = OpenSeconds]

Probe(u) ==
  /\ state[u] = "open"
  /\ timer[u] = 0
  /\ state' = [state EXCEPT ![u] = "halfOpen"]
  /\ UNCHANGED <<failures, timer>>

Forget(u) ==
  /\ state[u] # "halfOpen"
  /\ failures' = [failures EXCEPT ![u] = 0]
  /\ UNCHANGED <<state, timer>>

Recover(u) ==
  /\ state[u] = "halfOpen"
  /\ state' = [state EXCEPT ![u] = "closed"]
  /\ failures' = [failures EXCEPT ![u] = 0]
  /\ UNCHANGED timer

Elapse ==
  /\ timer' = [u \in Upstreams |-> IF timer[u] > 0 THEN timer[u] - 1 ELSE 0]
  /\ UNCHANGED <<state, failures>>

Next ==
  \/ Elapse
  \/ \E u \in Upstreams :
       Count(u) \/ FailedProbe(u) \/ Trip(u) \/ Probe(u) \/ Forget(u) \/ Recover(u)

Spec == Init /\ [][Next]_vars
=============================================================================
