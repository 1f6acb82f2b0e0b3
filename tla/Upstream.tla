------------------------------ MODULE Upstream ------------------------------
(***************************************************************************)
(* types.Upstream (internal/types/upstream.go): the health flag and the    *)
(* circuit breaker of an upstream, a handful of sync/atomic fields that    *)
(* request goroutines and health checkers update without a lock.           *)
(*                                                                         *)
(* One action is one atomic operation of the code, so that the steps of    *)
(* overlapping calls interleave as they do in the program.  A goroutine's  *)
(* pc is the operation it executes next; a method is entered at "try",     *)
(* "succ" or "fail" with its receiver in at[g].  TryHalfOpen returns TRUE  *)
(* by going to "admitted" and FALSE by going to "refused"; the other two   *)
(* return to ret[g].                                                       *)
(*                                                                         *)
(* Time: CircuitOpenUntil is only ever compared with the current second,   *)
(* so what is kept is openFor, the number of second boundaries until the   *)
(* comparison turns.  The clock is read in the same step as the field it   *)
(* is compared with or stored in.                                          *)
(***************************************************************************)
EXTENDS Integers, FiniteSets

CONSTANTS Upstreams,             \* the upstreams of a route
          Goroutines,            \* the goroutines that serve its requests
          FailureThreshold,      \* the route's circuit_breaker settings,
          OpenDurationSeconds,   \*   as they stand in the configuration:
          HalfOpenRequests       \*   0 is "not set"

ASSUME BreakerConfig ==
  FailureThreshold \in Int /\ OpenDurationSeconds \in Int /\ HalfOpenRequests \in Int

(***************************************************************************)
(* A setting of 0 is replaced when the upstream is built, a negative one   *)
(* when it is used.                                                        *)
(***************************************************************************)
intOr(v, def) == IF v = 0 THEN def ELSE v

Threshold == IF intOr(FailureThreshold, 3) <= 0 THEN 3 ELSE intOr(FailureThreshold, 3)

OpenSeconds == IF intOr(OpenDurationSeconds, 30) <= 0 THEN 30 ELSE intOr(OpenDurationSeconds, 30)

MaxProbes == IF intOr(HalfOpenRequests, 1) <= 0 THEN 1 ELSE intOr(HalfOpenRequests, 1)

VARIABLES healthy,            \* Healthy
          failureCount,       \* FailureCount
          circuitState,       \* circuitState
          openFor,            \* seconds until CircuitOpenUntil, 0 once passed
          halfOpenInFlight,   \* halfOpenInFlight
          pc,                 \* the next atomic operation of each goroutine
          at,                 \* receiver of the method it is in
          ret,                \* where RecordSuccess or RecordFailure returns to
          seen                \* the local the method keeps: cur or n

fields == <<healthy, failureCount, circuitState, openFor, halfOpenInFlight>>
frame == <<pc, at, ret, seen>>

CircuitStates == {"closed", "open", "halfOpen"}

TryLabels == {"try", "tryTimer", "trySwap", "tryReset", "tryLoad", "tryTake"}
SuccessLabels == {"succ", "succProbe", "succClose", "succHealthy", "succReset"}
FailureLabels == {"fail", "failState", "failProbe", "failUnhealthy",
                  "failDeadline", "failOpen", "failReset"}

\* Some goroutine is at one of these operations of a method of u.
At(u, labels) == \E g \in Goroutines : at[g] = u /\ pc[g] \in labels

Goto(g, label) == pc' = [pc EXCEPT ![g] = label]
-----------------------------------------------------------------------------
(***************************************************************************)
(* TryHalfOpen.                                                            *)
(***************************************************************************)
TryState(g) ==
  /\ pc[g] = "try"
  /\ Goto(g, [closed |-> "refused", open |-> "tryTimer", halfOpen |-> "tryLoad"]
               [circuitState[at[g]]])
  /\ UNCHANGED <<fields, at, ret, seen>>

TryTimer(g) ==
  /\ pc[g] = "tryTimer"
  /\ Goto(g, IF openFor[at[g]] > 0 THEN "refused" ELSE "trySwap")
  /\ UNCHANGED <<fields, at, ret, seen>>

\* The compare-and-swap open -> halfOpen.  Losing it is not an error: the
\* goroutine goes on to the probe slots, whatever the state has become.
TrySwap(g) ==
  /\ pc[g] = "trySwap"
  /\ \/ /\ circuitState[at[g]] = "open"
        /\ circuitState' = [circuitState EXCEPT ![at[g]] = "halfOpen"]
        /\ Goto(g, "tryReset")
     \/ /\ circuitState[at[g]] # "open"
        /\ UNCHANGED circuitState
        /\ Goto(g, "tryLoad")
  /\ UNCHANGED <<healthy, failureCount, openFor, halfOpenInFlight, at, ret, seen>>

TryReset(g) ==
  /\ pc[g] = "tryReset"
  /\ halfOpenInFlight' = [halfOpenInFlight EXCEPT ![at[g]] = 0]
  /\ Goto(g, "tryLoad")
  /\ UNCHANGED <<healthy, failureCount, circuitState, openFor, at, ret, seen>>

TryLoad(g) ==
  /\ pc[g] = "tryLoad"
  /\ \/ /\ halfOpenInFlight[at[g]] >= MaxProbes
        /\ Goto(g, "refused")
        /\ UNCHANGED seen
     \/ /\ halfOpenInFlight[at[g]] < MaxProbes
        /\ seen' = [seen EXCEPT ![g] = halfOpenInFlight[at[g]]]
        /\ Goto(g, "tryTake")
  /\ UNCHANGED <<fields, at, ret>>

\* Variant of TryTake: Add(1) in place of the compare-and-swap.
TryTakeUnchecked(g) ==
  /\ pc[g] = "tryTake"
  /\ halfOpenInFlight' = [halfOpenInFlight EXCEPT ![at[g]] = @ + 1]
  /\ Goto(g, "admitted")
  /\ seen' = [seen EXCEPT ![g] = 0]
  /\ UNCHANGED <<healthy, failureCount, circuitState, openFor, at, ret>>

TryTake(g) ==
  /\ pc[g] = "tryTake"
  /\ \/ /\ halfOpenInFlight[at[g]] = seen[g]
        /\ halfOpenInFlight' = [halfOpenInFlight EXCEPT ![at[g]] = seen[g] + 1]
        /\ Goto(g, "admitted")
     \/ /\ halfOpenInFlight[at[g]] # seen[g]
        /\ UNCHANGED halfOpenInFlight
        /\ Goto(g, "tryLoad")
  /\ seen' = [seen EXCEPT ![g] = 0]
  /\ UNCHANGED <<healthy, failureCount, circuitState, openFor, at, ret>>

TryHalfOpen(g) ==
  TryState(g) \/ TryTimer(g) \/ TrySwap(g) \/ TryReset(g) \/ TryLoad(g) \/ TryTake(g)
-----------------------------------------------------------------------------
(***************************************************************************)
(* RecordSuccess.                                                          *)
(***************************************************************************)
\* Variant of SuccState: the test for half-open is missing.
SuccStateUntested(g) ==
  /\ pc[g] = "succ"
  /\ Goto(g, "succProbe")
  /\ UNCHANGED <<fields, at, ret, seen>>

SuccState(g) ==
  /\ pc[g] = "succ"
  /\ Goto(g, IF circuitState[at[g]] = "halfOpen" THEN "succProbe" ELSE "succReset")
  /\ UNCHANGED <<fields, at, ret, seen>>

SuccProbe(g) ==
  /\ pc[g] = "succProbe"
  /\ halfOpenInFlight' = [halfOpenInFlight EXCEPT ![at[g]] = @ - 1]
  /\ Goto(g, "succClose")
  /\ UNCHANGED <<healthy, failureCount, circuitState, openFor, at, ret, seen>>

SuccClose(g) ==
  /\ pc[g] = "succClose"
  /\ circuitState' = [circuitState EXCEPT ![at[g]] = "closed"]
  /\ Goto(g, "succHealthy")
  /\ UNCHANGED <<healthy, failureCount, openFor, halfOpenInFlight, at, ret, seen>>

SuccHealthy(g) ==
  /\ pc[g] = "succHealthy"
  /\ healthy' = [healthy EXCEPT ![at[g]] = TRUE]
  /\ Goto(g, "succReset")
  /\ UNCHANGED <<failureCount, circuitState, openFor, halfOpenInFlight, at, ret, seen>>

SuccReset(g) ==
  /\ pc[g] = "succReset"
  /\ failureCount' = [failureCount EXCEPT ![at[g]] = 0]
  /\ Goto(g, ret[g])
  /\ UNCHANGED <<healthy, circuitState, openFor, halfOpenInFlight, at, ret, seen>>

RecordSuccess(g) ==
  SuccState(g) \/ SuccProbe(g) \/ SuccClose(g) \/ SuccHealthy(g) \/ SuccReset(g)
-----------------------------------------------------------------------------
(***************************************************************************)
(* RecordFailure, and OpenCircuit which only it calls.                     *)
(***************************************************************************)
FailCount(g) ==
  /\ pc[g] = "fail"
  /\ failureCount' = [failureCount EXCEPT ![at[g]] = @ + 1]
  /\ seen' = [seen EXCEPT ![g] = failureCount[at[g]] + 1]
  /\ Goto(g, "failState")
  /\ UNCHANGED <<healthy, circuitState, openFor, halfOpenInFlight, at, ret>>

\* Variant of FailBranch: n > threshold.
FailBranchLate(g) ==
  IF seen[g] > Threshold
  THEN Goto(g, "failUnhealthy") /\ UNCHANGED seen
  ELSE Goto(g, ret[g]) /\ seen' = [seen EXCEPT ![g] = 0]

\* "if n >= threshold", reached from either side of the half-open test.
FailBranch(g) ==
  IF seen[g] >= Threshold
  THEN Goto(g, "failUnhealthy") /\ UNCHANGED seen
  ELSE Goto(g, ret[g]) /\ seen' = [seen EXCEPT ![g] = 0]

FailState(g) ==
  /\ pc[g] = "failState"
  /\ IF circuitState[at[g]] = "halfOpen"
     THEN Goto(g, "failProbe") /\ UNCHANGED seen
     ELSE FailBranch(g)
  /\ UNCHANGED <<fields, at, ret>>

FailProbe(g) ==
  /\ pc[g] = "failProbe"
  /\ halfOpenInFlight' = [halfOpenInFlight EXCEPT ![at[g]] = @ - 1]
  /\ FailBranch(g)
  /\ UNCHANGED <<healthy, failureCount, circuitState, openFor, at, ret>>

FailUnhealthy(g) ==
  /\ pc[g] = "failUnhealthy"
  /\ healthy' = [healthy EXCEPT ![at[g]] = FALSE]
  /\ Goto(g, "failDeadline")
  /\ UNCHANGED <<failureCount, circuitState, openFor, halfOpenInFlight, at, ret, seen>>

\* Variant of FailDeadline: the duration is added to the old deadline.
FailDeadlineExtended(g) ==
  /\ pc[g] = "failDeadline"
  /\ openFor' = [openFor EXCEPT ![at[g]] = @ + OpenSeconds]
  /\ Goto(g, "failOpen")
  /\ UNCHANGED <<healthy, failureCount, circuitState, halfOpenInFlight, at, ret, seen>>

FailDeadline(g) ==
  /\ pc[g] = "failDeadline"
  /\ openFor' = [openFor EXCEPT ![at[g]] = OpenSeconds]
  /\ Goto(g, "failOpen")
  /\ UNCHANGED <<healthy, failureCount, circuitState, halfOpenInFlight, at, ret, seen>>

FailOpen(g) ==
  /\ pc[g] = "failOpen"
  /\ circuitState' = [circuitState EXCEPT ![at[g]] = "open"]
  /\ Goto(g, "failReset")
  /\ UNCHANGED <<healthy, failureCount, openFor, halfOpenInFlight, at, ret, seen>>

FailReset(g) ==
  /\ pc[g] = "failReset"
  /\ failureCount' = [failureCount EXCEPT ![at[g]] = 0]
  /\ seen' = [seen EXCEPT ![g] = 0]
  /\ Goto(g, ret[g])
  /\ UNCHANGED <<healthy, circuitState, openFor, halfOpenInFlight, at, ret>>

RecordFailure(g) ==
  \/ FailCount(g) \/ FailState(g) \/ FailProbe(g) \/ FailUnhealthy(g)
  \/ FailDeadline(g) \/ FailOpen(g) \/ FailReset(g)
-----------------------------------------------------------------------------
(***************************************************************************)
(* health.check stores the verdict of one probe of the upstream, whatever  *)
(* the circuit is doing.  Tick is the wall clock passing a second.         *)
(***************************************************************************)
\* Variant of Check: a good answer returns without storing anything.
CheckDownOnly(u, verdict) ==
  /\ healthy' = [healthy EXCEPT ![u] = @ /\ verdict]
  /\ UNCHANGED <<failureCount, circuitState, openFor, halfOpenInFlight, frame>>

Check(u, verdict) ==
  /\ healthy' = [healthy EXCEPT ![u] = verdict]
  /\ UNCHANGED <<failureCount, circuitState, openFor, halfOpenInFlight, frame>>

Tick ==
  /\ \E u \in Upstreams : openFor[u] > 0
  /\ openFor' = [u \in Upstreams |-> IF openFor[u] > 0 THEN openFor[u] - 1 ELSE 0]
  /\ UNCHANGED <<healthy, failureCount, circuitState, halfOpenInFlight, frame>>

\* A freshly built upstream, and goroutines that have not called it yet.
FieldsInit ==
  /\ healthy = [u \in Upstreams |-> TRUE]
  /\ failureCount = [u \in Upstreams |-> 0]
  /\ circuitState = [u \in Upstreams |-> "closed"]
  /\ openFor = [u \in Upstreams |-> 0]
  /\ halfOpenInFlight = [u \in Upstreams |-> 0]
-----------------------------------------------------------------------------
(***************************************************************************)
(* Properties of every interleaving, whoever the callers are.              *)
(***************************************************************************)

\* The retry loop of TryHalfOpen (upstream.go:74-82) never pushes the number of
\* probe slots taken beyond CBHalfOpenRequests, although the value it compared
\* with the limit may be stale when it swaps, and other goroutines decrement and
\* reset the counter under it.
ProbeBudget == \A u \in Upstreams : halfOpenInFlight[u] <= MaxProbes

\* g is inside RecordFailure, has seen the threshold reached on u, and has not
\* yet reset the count.
Tripping(g, u) ==
  /\ at[g] = u
  /\ pc[g] \in FailureLabels \ {"fail"}
  /\ seen[g] >= Threshold

\* RecordFailure (upstream.go:114-124) loses no trip: whenever the count stands
\* at the threshold or beyond, some goroutine is on its way to open the circuit,
\* even though successes and other failures race with the increment.
NoMissedTrip ==
  \A u \in Upstreams :
    failureCount[u] >= Threshold => \E g \in Goroutines : Tripping(g, u)
=============================================================================
