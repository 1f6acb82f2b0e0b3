------------------------------ MODULE Balancer ------------------------------
(***************************************************************************)
(* internal/lb: the three load balancers of a route, RoundRobin,           *)
(* WeightedRoundRobin and LeastConnections.  Their Next scans the targets  *)
(* in order and skips the unhealthy ones; one whose circuit is not closed  *)
(* is kept only if TryHalfOpen grants a probe, and the grant is used up    *)
(* whether or not that target is the one picked in the end.  Release is    *)
(* the same in all three.                                                  *)
(*                                                                         *)
(* Next is entered at "scan" with at[g] = 0 and returns at "forward", with *)
(* the target in target[g], or at "none".  Release is entered at "release" *)
(* and returns at "released".                                              *)
(***************************************************************************)
EXTENDS Upstream, Sequences

CONSTANTS Algorithm,       \* proxy.algorithm
          Weight,          \* the Weight of every upstream
          CounterPeriod    \* bound on counter, see below

NumTargets == Cardinality(Upstreams)

\* An upstream is its position in the slice of targets.
ASSUME TargetsAreIndexed == IsFiniteSet(Upstreams) /\ Upstreams = 1..NumTargets

ASSUME BalancerConfig ==
  /\ Algorithm \in STRING
  /\ Weight \in [Upstreams -> Int]
  /\ CounterPeriod \in Nat \ {0}

VARIABLES activeConns,     \* ActiveConns
          counter,         \* counter, modulo CounterPeriod: a period that is a
                           \*   multiple of every length of the list of eligible
                           \*   targets leaves counter % length as it is
          eligible,        \* the list Next builds; LeastConnections keeps in
                           \*   it the one target selected so far
          target           \* the upstream Next picked, 0 after Release

balancerVars == <<activeConns, counter, eligible, target>>

NoTarget == 0

\* How often a target stands in the list the counter indexes.
Repeat(u) == IF Algorithm = "weighted_rr" /\ Weight[u] > 0 THEN Weight[u] ELSE 1
-----------------------------------------------------------------------------
(***************************************************************************)
(* Next: the scan.                                                         *)
(***************************************************************************)
ScanHealthy(g) ==
  /\ pc[g] \in {"scan", "refused"}
  /\ at[g] < NumTargets
  /\ at' = [at EXCEPT ![g] = @ + 1]
  /\ Goto(g, IF healthy[at[g] + 1] THEN "scanState" ELSE "scan")
  /\ UNCHANGED <<fields, ret, seen, balancerVars>>

ScanState(g) ==
  /\ pc[g] = "scanState"
  /\ Goto(g, IF circuitState[at[g]] = "closed" THEN "admitted" ELSE "try")
  /\ UNCHANGED <<fields, at, ret, seen, balancerVars>>

\* The target under the scan is eligible.  LeastConnections compares it with
\* the one selected so far, which takes two loads of ActiveConns.
Admit(g) ==
  /\ pc[g] = "admitted"
  /\ \/ /\ Algorithm # "least_conn" \/ eligible[g] = <<>>
        /\ eligible' = [eligible EXCEPT ![g] = @ \o [i \in 1..Repeat(at[g]) |-> at[g]]]
        /\ Goto(g, "scan")
        /\ UNCHANGED seen
     \/ /\ Algorithm = "least_conn" /\ eligible[g] # <<>>
        /\ seen' = [seen EXCEPT ![g] = activeConns[at[g]]]
        /\ Goto(g, "compare")
        /\ UNCHANGED eligible
  /\ UNCHANGED <<fields, at, ret, activeConns, counter, target>>

Compare(g) ==
  /\ pc[g] = "compare"
  /\ eligible' = [eligible EXCEPT ![g] =
                    IF seen[g] < activeConns[Head(@)] THEN <<at[g]>> ELSE @]
  /\ seen' = [seen EXCEPT ![g] = 0]
  /\ Goto(g, "scan")
  /\ UNCHANGED <<fields, at, ret, activeConns, counter, target>>
-----------------------------------------------------------------------------
(***************************************************************************)
(* Next: the choice, once every target has been looked at.                 *)
(***************************************************************************)
NoneEligible(g) ==
  /\ pc[g] \in {"scan", "refused"}
  /\ at[g] = NumTargets
  /\ eligible[g] = <<>>
  /\ Goto(g, "none")
  /\ UNCHANGED <<fields, at, ret, seen, balancerVars>>

Pick(g) ==
  /\ pc[g] \in {"scan", "refused"}
  /\ at[g] = NumTargets
  /\ eligible[g] # <<>>
  /\ \/ /\ Algorithm = "least_conn"
        /\ target' = [target EXCEPT ![g] = Head(eligible[g])]
        /\ UNCHANGED counter
     \/ /\ Algorithm # "least_conn"
        /\ counter' = (counter + 1) % CounterPeriod
        /\ target' = [target EXCEPT ![g] = eligible[g][(counter' % Len(eligible[g])) + 1]]
  /\ eligible' = [eligible EXCEPT ![g] = <<>>]
  /\ Goto(g, "acquire")
  /\ UNCHANGED <<fields, at, ret, seen, activeConns>>

\* Variant of Acquire: the last target scanned is counted, not the one picked.
AcquireLast(g) ==
  /\ pc[g] = "acquire"
  /\ activeConns' = [activeConns EXCEPT ![at[g]] = @ + 1]
  /\ Goto(g, "forward")
  /\ UNCHANGED <<fields, at, ret, seen, counter, eligible, target>>

Acquire(g) ==
  /\ pc[g] = "acquire"
  /\ activeConns' = [activeConns EXCEPT ![target[g]] = @ + 1]
  /\ Goto(g, "forward")
  /\ UNCHANGED <<fields, at, ret, seen, counter, eligible, target>>

NextTarget(g) ==
  \/ ScanHealthy(g) \/ ScanState(g) \/ Admit(g) \/ Compare(g)
  \/ NoneEligible(g) \/ Pick(g) \/ Acquire(g)
  \/ /\ TryHalfOpen(g)
     /\ UNCHANGED balancerVars
-----------------------------------------------------------------------------
(***************************************************************************)
(* Release.  A target found half-open is recorded as a success, whatever   *)
(* became of the request.                                                  *)
(***************************************************************************)
ReleaseConn(g) ==
  /\ pc[g] = "release"
  /\ activeConns' = [activeConns EXCEPT ![target[g]] = @ - 1]
  /\ at' = [at EXCEPT ![g] = target[g]]
  /\ target' = [target EXCEPT ![g] = NoTarget]
  /\ Goto(g, "releaseState")
  /\ UNCHANGED <<fields, ret, seen, counter, eligible>>

\* Variant of ReleaseState: the half-open target is left as it is.
ReleaseStateBare(g) ==
  /\ pc[g] = "releaseState"
  /\ Goto(g, "released")
  /\ UNCHANGED <<fields, at, ret, seen, balancerVars>>

ReleaseState(g) ==
  /\ pc[g] = "releaseState"
  /\ Goto(g, IF circuitState[at[g]] = "halfOpen" THEN "succ" ELSE "released")
  /\ ret' = [ret EXCEPT ![g] = "released"]
  /\ UNCHANGED <<fields, at, seen, balancerVars>>

Release(g) == ReleaseConn(g) \/ ReleaseState(g)

BalancerInit ==
  /\ activeConns = [u \in Upstreams |-> 0]
  /\ counter = 0
  /\ eligible = [g \in Goroutines |-> <<>>]
  /\ target = [g \in Goroutines |-> NoTarget]
=============================================================================
