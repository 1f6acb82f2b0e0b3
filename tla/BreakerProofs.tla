---------------------------- MODULE BreakerProofs ----------------------------
(***************************************************************************)
(* Proofs about the circuit breaker under the most general caller, for any *)
(* number of goroutines and upstreams and any settings.                    *)
(***************************************************************************)
EXTENDS BreakerCalls, TLAPS, FiniteSetTheorems

\* Whatever the configuration says, the settings in force are positive.
LEMMA PositiveSettings ==
  /\ Threshold \in Nat /\ Threshold >= 1
  /\ OpenSeconds \in Nat /\ OpenSeconds >= 1
  /\ MaxProbes \in Nat /\ MaxProbes >= 1
BY BreakerConfig, SMTT(20), Z3T(20) DEF Threshold, OpenSeconds, MaxProbes, intOr
-----------------------------------------------------------------------------
(***************************************************************************)
(* Types.                                                                  *)
(***************************************************************************)
LEMMA TypeInit == Init => TypeOK
BY SomeUpstream, PositiveSettings, SMTT(20), Z3T(20) DEF Init, FieldsInit, TypeOK, CircuitStates, Returned

LEMMA TypeTry ==
  ASSUME TypeOK, NEW g \in Goroutines, TryHalfOpen(g)
  PROVE  TypeOK'
<1> USE DEF TypeOK, Goto, fields, CircuitStates, Returned, TryLabels
<1>1. CASE TryState(g)
  <2>1. circuitState[at[g]] \in CircuitStates
    OBVIOUS
  <2>2. pc'[g] \in {"refused", "tryTimer", "tryLoad"}
    BY <1>1, <2>1, SMTT(20), Z3T(20) DEF TryState
  <2> QED  BY <1>1, <2>2 DEF TryState
<1>2. CASE TryTimer(g)  BY <1>2 DEF TryTimer
<1>3. CASE TrySwap(g)   BY <1>3 DEF TrySwap
<1>4. CASE TryReset(g)  BY <1>4, SMTT(20), Z3T(20) DEF TryReset
<1>5. CASE TryLoad(g)   BY <1>5 DEF TryLoad
<1>6. CASE TryTake(g)   BY <1>6, SMTT(20), Z3T(20) DEF TryTake
<1> QED  BY <1>1, <1>2, <1>3, <1>4, <1>5, <1>6 DEF TryHalfOpen

LEMMA TypeSuccess ==
  ASSUME TypeOK, NEW g \in Goroutines, RecordSuccess(g)
  PROVE  TypeOK'
<1> USE DEF TypeOK, Goto, fields, CircuitStates, Returned, SuccessLabels
<1>1. CASE SuccState(g)    BY <1>1 DEF SuccState
<1>2. CASE SuccProbe(g)    BY <1>2, SMTT(20), Z3T(20) DEF SuccProbe
<1>3. CASE SuccClose(g)    BY <1>3 DEF SuccClose
<1>4. CASE SuccHealthy(g)  BY <1>4 DEF SuccHealthy
<1>5. CASE SuccReset(g)    BY <1>5 DEF SuccReset
<1> QED  BY <1>1, <1>2, <1>3, <1>4, <1>5 DEF RecordSuccess

LEMMA TypeFailure ==
  ASSUME TypeOK, NEW g \in Goroutines, RecordFailure(g)
  PROVE  TypeOK'
<1> USE PositiveSettings DEF TypeOK, Goto, fields, CircuitStates, Returned, FailureLabels
<1>1. CASE FailCount(g)      BY <1>1, SMTT(20), Z3T(20) DEF FailCount
<1>2. CASE FailState(g)      BY <1>2, SMTT(20), Z3T(20) DEF FailState, FailBranch
<1>3. CASE FailProbe(g)      BY <1>3, SMTT(20), Z3T(20) DEF FailProbe, FailBranch
<1>4. CASE FailUnhealthy(g)  BY <1>4 DEF FailUnhealthy
<1>5. CASE FailDeadline(g)   BY <1>5, SMTT(20), Z3T(20) DEF FailDeadline
<1>6. CASE FailOpen(g)       BY <1>6 DEF FailOpen
<1>7. CASE FailReset(g)      BY <1>7, SMTT(20), Z3T(20) DEF FailReset
<1> QED  BY <1>1, <1>2, <1>3, <1>4, <1>5, <1>6, <1>7, ZenonT(60) DEF RecordFailure

LEMMA TypeNext == TypeOK /\ [Next]_vars => TypeOK'
<1> SUFFICES ASSUME TypeOK, [Next]_vars PROVE TypeOK'
  OBVIOUS
<1>1. ASSUME NEW g \in Goroutines, Step(g) PROVE TypeOK'
  BY <1>1, TypeTry, TypeSuccess, TypeFailure DEF Step
<1>2. ASSUME NEW g \in Goroutines, NEW u \in Upstreams, NEW method \in {"try", "succ", "fail"},
             Call(g, u, method)
      PROVE  TypeOK'
  BY <1>2 DEF Call, Goto, fields, TypeOK, TryLabels, SuccessLabels, FailureLabels
<1>3. ASSUME NEW u \in Upstreams, NEW verdict \in BOOLEAN, Check(u, verdict) PROVE TypeOK'
  BY <1>3 DEF Check, frame, TypeOK
<1>4. CASE Tick
  BY <1>4, PositiveSettings, SMTT(20), Z3T(20) DEF Tick, frame, TypeOK
<1>5. CASE UNCHANGED vars
  BY <1>5 DEF vars, fields, frame, TypeOK
<1> QED  BY <1>1, <1>2, <1>3, <1>4, <1>5 DEF Next

\* Type correctness: whoever calls, the fields of types.Upstream keep their
\* types and the open timer never exceeds one open_duration.
THEOREM TypeCorrect == Spec => []TypeOK
BY TypeInit, TypeNext, PTL DEF Spec
-----------------------------------------------------------------------------
(***************************************************************************)
(* The probe budget.  It is not inductive by itself: the swap that takes a *)
(* slot writes seen[g] + 1, so a goroutine about to swap must have seen a  *)
(* count below the limit.                                                  *)
(***************************************************************************)
SwapBelowLimit == \A g \in Goroutines : pc[g] = "tryTake" => seen[g] < MaxProbes

BudgetInv == TypeOK /\ ProbeBudget /\ SwapBelowLimit

LEMMA BudgetStep ==
  ASSUME BudgetInv, NEW g \in Goroutines, Step(g)
  PROVE  (ProbeBudget /\ SwapBelowLimit)'
<1> USE PositiveSettings DEF BudgetInv, TypeOK, ProbeBudget, SwapBelowLimit, Goto, fields
<1>1. CASE TryHalfOpen(g)
  <2>1. CASE TryState(g)
    <3>1. pc'[g] # "tryTake"
      BY <2>1, SMTT(20), Z3T(20) DEF TryState, CircuitStates
    <3> QED  BY <2>1, <3>1 DEF TryState
  <2>2. CASE TryTimer(g)  BY <2>2 DEF TryTimer
  <2>3. CASE TrySwap(g)   BY <2>3 DEF TrySwap
  <2>4. CASE TryReset(g)  BY <2>4, SMTT(20), Z3T(20) DEF TryReset
  <2>5. CASE TryLoad(g)   BY <2>5 DEF TryLoad
  <2>6. CASE TryTake(g)   BY <2>6, SMTT(20), Z3T(20) DEF TryTake
  <2> QED  BY <1>1, <2>1, <2>2, <2>3, <2>4, <2>5, <2>6, ZenonT(60) DEF TryHalfOpen
<1>2. CASE RecordSuccess(g)
  BY <1>2, SMTT(20), Z3T(20) DEF RecordSuccess, SuccState, SuccProbe, SuccClose, SuccHealthy, SuccReset
<1>3. CASE RecordFailure(g)
  <2>1. CASE FailCount(g)      BY <2>1 DEF FailCount
  <2>2. CASE FailState(g)      BY <2>2 DEF FailState, FailBranch
  <2>3. CASE FailProbe(g)      BY <2>3, SMTT(20), Z3T(20) DEF FailProbe, FailBranch
  <2>4. CASE FailUnhealthy(g)  BY <2>4 DEF FailUnhealthy
  <2>5. CASE FailDeadline(g)   BY <2>5 DEF FailDeadline
  <2>6. CASE FailOpen(g)       BY <2>6 DEF FailOpen
  <2>7. CASE FailReset(g)      BY <2>7 DEF FailReset
  <2> QED  BY <1>3, <2>1, <2>2, <2>3, <2>4, <2>5, <2>6, <2>7, ZenonT(60) DEF RecordFailure
<1> QED  BY <1>1, <1>2, <1>3 DEF Step

\* No interleaving of TryHalfOpen with itself, RecordSuccess or RecordFailure
\* takes more probe slots than the configuration allows.
THEOREM ProbeBudgetHolds == Spec => []ProbeBudget
<1>1. Init => BudgetInv
  BY TypeInit, PositiveSettings, SMTT(20), Z3T(20) DEF Init, FieldsInit, BudgetInv, ProbeBudget, SwapBelowLimit
<1>2. BudgetInv /\ [Next]_vars => BudgetInv'
  <2> SUFFICES ASSUME BudgetInv, [Next]_vars PROVE BudgetInv'
    OBVIOUS
  <2> USE DEF BudgetInv
  <2>0. TypeOK'
    BY TypeNext
  <2>1. ASSUME NEW g \in Goroutines, Step(g) PROVE BudgetInv'
    BY <2>0, <2>1, BudgetStep
  <2>2. ASSUME NEW g \in Goroutines, NEW u \in Upstreams, NEW method \in {"try", "succ", "fail"},
               Call(g, u, method)
        PROVE  BudgetInv'
    BY <2>0, <2>2 DEF Call, Goto, fields, TypeOK, ProbeBudget, SwapBelowLimit
  <2>3. ASSUME NEW u \in Upstreams, NEW verdict \in BOOLEAN, Check(u, verdict) PROVE BudgetInv'
    BY <2>0, <2>3 DEF Check, frame, ProbeBudget, SwapBelowLimit
  <2>4. CASE Tick
    BY <2>0, <2>4 DEF Tick, frame, ProbeBudget, SwapBelowLimit
  <2>5. CASE UNCHANGED vars
    BY <2>0, <2>5 DEF vars, fields, frame, ProbeBudget, SwapBelowLimit
  <2> QED  BY <2>1, <2>2, <2>3, <2>4, <2>5 DEF Next
<1>3. BudgetInv => ProbeBudget
  BY DEF BudgetInv
<1> QED  BY <1>1, <1>2, <1>3, PTL DEF Spec
-----------------------------------------------------------------------------
(***************************************************************************)
(* No missed trip.  With the types this one is inductive: the goroutine    *)
(* whose increment reaches the threshold is the witness, and it stays one  *)
(* until the step that resets the count.                                   *)
(***************************************************************************)
LEMMA TripStep ==
  ASSUME TypeOK, NoMissedTrip, NEW g \in Goroutines, Step(g)
  PROVE  NoMissedTrip'
<1> SUFFICES ASSUME NEW u \in Upstreams, failureCount'[u] >= Threshold
             PROVE  \E h \in Goroutines : Tripping(h, u)'
  BY DEF NoMissedTrip
<1> USE PositiveSettings DEF TypeOK, Goto, fields, Tripping
\* Whoever else is tripping u goes on doing so.
<1>1. ASSUME NEW h \in Goroutines, h # g, Tripping(h, u) PROVE Tripping(h, u)'
  <2>1. pc'[h] = pc[h] /\ at'[h] = at[h] /\ seen'[h] = seen[h]
    BY <1>1, ZenonT(60) DEF Step, TryHalfOpen, TryState, TryTimer, TrySwap, TryReset, TryLoad, TryTake,
                RecordSuccess, SuccState, SuccProbe, SuccClose, SuccHealthy, SuccReset,
                RecordFailure, FailCount, FailState, FailProbe, FailBranch, FailUnhealthy,
                FailDeadline, FailOpen, FailReset
  <2> QED  BY <1>1, <2>1, ZenonT(60)
<1>2. ASSUME failureCount[u] >= Threshold, Tripping(g, u) => Tripping(g, u)'
      PROVE  \E h \in Goroutines : Tripping(h, u)'
  <2>1. PICK h \in Goroutines : Tripping(h, u)
    BY <1>2 DEF NoMissedTrip
  <2> QED  BY <1>1, <1>2, <2>1, ZenonT(60)
<1> USE DEF FailureLabels
<1>3. CASE TryHalfOpen(g)
  <2>1. failureCount' = failureCount /\ ~Tripping(g, u)
    BY <1>3, ZenonT(60) DEF TryHalfOpen, TryState, TryTimer, TrySwap, TryReset, TryLoad, TryTake
  <2> QED  BY <1>2, <2>1, ZenonT(60)
<1>4. CASE RecordSuccess(g)
  <2>1. failureCount[u] >= Threshold /\ ~Tripping(g, u)
    BY <1>4, SMTT(20), Z3T(20) DEF RecordSuccess, SuccState, SuccProbe, SuccClose, SuccHealthy, SuccReset
  <2> QED  BY <1>2, <2>1, ZenonT(60)
<1>5. CASE RecordFailure(g)
  <2>1. CASE FailCount(g)
    <3>1. CASE at[g] = u
      <4>1. Tripping(g, u)'
        BY <2>1, <3>1 DEF FailCount
      <4> QED  BY <4>1
    <3>2. CASE at[g] # u
      BY <1>2, <2>1, <3>2, ZenonT(60) DEF FailCount
    <3> QED  BY <3>1, <3>2
  <2>2. CASE FailState(g)      BY <1>2, <2>2, ZenonT(60) DEF FailState, FailBranch
  <2>3. CASE FailProbe(g)      BY <1>2, <2>3 DEF FailProbe, FailBranch
  <2>4. CASE FailUnhealthy(g)  BY <1>2, <2>4 DEF FailUnhealthy
  <2>5. CASE FailDeadline(g)   BY <1>2, <2>5 DEF FailDeadline
  <2>6. CASE FailOpen(g)       BY <1>2, <2>6, ZenonT(60) DEF FailOpen
  <2>7. CASE FailReset(g)
    <3>1. at[g] # u
      BY <2>7, SMTT(20), Z3T(20) DEF FailReset
    <3> QED  BY <1>2, <2>7, <3>1 DEF FailReset
  <2> QED  BY <1>5, <2>1, <2>2, <2>3, <2>4, <2>5, <2>6, <2>7, ZenonT(60) DEF RecordFailure
<1> QED  BY <1>3, <1>4, <1>5 DEF Step

\* However failures and successes race, a failure count at or beyond the
\* threshold always has a goroutine under way to open the circuit.
THEOREM NoMissedTripHolds == Spec => []NoMissedTrip
<1>1. Init => TypeOK /\ NoMissedTrip
  BY TypeInit, PositiveSettings, SMTT(20), Z3T(20) DEF Init, FieldsInit, NoMissedTrip
<1>2. TypeOK /\ NoMissedTrip /\ [Next]_vars => (TypeOK /\ NoMissedTrip)'
  <2> SUFFICES ASSUME TypeOK, NoMissedTrip, [Next]_vars PROVE NoMissedTrip'
    BY TypeNext
  <2>1. ASSUME NEW g \in Goroutines, Step(g) PROVE NoMissedTrip'
    BY <2>1, TripStep
  <2>2. ASSUME NEW g \in Goroutines, NEW u \in Upstreams, NEW method \in {"try", "succ", "fail"},
               Call(g, u, method)
        PROVE  NoMissedTrip'
    <3>1. failureCount' = failureCount
      BY <2>2 DEF Call, fields
    <3>2. ASSUME NEW h \in Goroutines, NEW v \in Upstreams, Tripping(h, v) PROVE Tripping(h, v)'
      <4>1. h # g
        BY <2>2, <3>2 DEF Tripping, Call, Returned, FailureLabels
      <4> QED  BY <2>2, <3>2, <4>1, ZenonT(60) DEF Tripping, Call, Goto, TypeOK
    <3> QED  BY <3>1, <3>2 DEF NoMissedTrip
  <2>3. ASSUME NEW u \in Upstreams, NEW verdict \in BOOLEAN, Check(u, verdict) PROVE NoMissedTrip'
    BY <2>3 DEF Check, frame, NoMissedTrip, Tripping
  <2>4. CASE Tick
    BY <2>4 DEF Tick, frame, NoMissedTrip, Tripping
  <2>5. CASE UNCHANGED vars
    BY <2>5, ZenonT(60) DEF vars, fields, frame, NoMissedTrip, Tripping
  <2> QED  BY <2>1, <2>2, <2>3, <2>4, <2>5 DEF Next
<1> QED  BY <1>1, <1>2, PTL DEF Spec
-----------------------------------------------------------------------------
(***************************************************************************)
(* When calls do not overlap, that is with a single goroutine, the coded   *)
(* breaker implements CircuitBreaker, for any number of upstreams and any  *)
(* settings.  What the goroutine has loaded is still so when it acts on    *)
(* it.                                                                     *)
(***************************************************************************)
SoloInv ==
  \A g \in Goroutines :
    /\ pc[g] \in {"tryTimer", "trySwap"} => circuitState[at[g]] = "open"
    /\ pc[g] = "trySwap" => openFor[at[g]] = 0
    /\ pc[g] \in {"succProbe", "succClose"} => circuitState[at[g]] = "halfOpen"
    /\ pc[g] \in FailureLabels \ {"fail"} => seen[g] = failureCount[at[g]]
    /\ pc[g] \in {"failUnhealthy", "failDeadline", "failOpen", "failReset"}
         => seen[g] >= Threshold
    /\ pc[g] = "failReset" => circuitState[at[g]] = "open"

LEMMA SoloStep ==
  ASSUME NEW me, Goroutines = {me}, TypeOK, SoloInv, Step(me)
  PROVE  SoloInv'
<1> USE PositiveSettings DEF TypeOK, SoloInv, Goto, fields, FailureLabels
<1>1. CASE TryHalfOpen(me)
  <2>1. CASE TryState(me)
    <3>1. /\ pc'[me] \in {"refused", "tryTimer", "tryLoad"}
          /\ pc'[me] = "tryTimer" => circuitState[at[me]] = "open"
      BY <2>1, SMTT(20), Z3T(20) DEF TryState, CircuitStates
    <3> QED  BY <2>1, <3>1, ZenonT(60) DEF TryState
  <2>2. CASE TryTimer(me)  BY <2>2, SMTT(20), Z3T(20) DEF TryTimer
  <2>3. CASE TrySwap(me)   BY <2>3, ZenonT(90) DEF TrySwap
  <2>4. CASE TryReset(me)  BY <2>4, ZenonT(60) DEF TryReset
  <2>5. CASE TryLoad(me)   BY <2>5, SMTT(20), Z3T(20) DEF TryLoad
  <2>6. CASE TryTake(me)   BY <2>6, SMTT(20), Z3T(20) DEF TryTake
  <2> QED  BY <1>1, <2>1, <2>2, <2>3, <2>4, <2>5, <2>6, ZenonT(60) DEF TryHalfOpen
<1>2. CASE RecordSuccess(me)
  <2>1. CASE SuccState(me)    BY <2>1, ZenonT(60) DEF SuccState
  <2>2. CASE SuccProbe(me)    BY <2>2, ZenonT(60) DEF SuccProbe
  <2>3. CASE SuccClose(me)    BY <2>3, ZenonT(60) DEF SuccClose
  <2>4. CASE SuccHealthy(me)  BY <2>4, ZenonT(60) DEF SuccHealthy
  <2>5. CASE SuccReset(me)    BY <2>5, SMTT(20), Z3T(20) DEF SuccReset
  <2> QED  BY <1>2, <2>1, <2>2, <2>3, <2>4, <2>5, ZenonT(60) DEF RecordSuccess
<1>3. CASE RecordFailure(me)
  <2>1. CASE FailCount(me)      BY <2>1, ZenonT(60) DEF FailCount
  <2>2. CASE FailState(me)      BY <2>2, SMTT(20), Z3T(20) DEF FailState, FailBranch
  <2>3. CASE FailProbe(me)      BY <2>3, ZenonT(90) DEF FailProbe, FailBranch
  <2>4. CASE FailUnhealthy(me)  BY <2>4 DEF FailUnhealthy
  <2>5. CASE FailDeadline(me)   BY <2>5, ZenonT(60) DEF FailDeadline
  <2>6. CASE FailOpen(me)       BY <2>6, ZenonT(60) DEF FailOpen
  <2>7. CASE FailReset(me)      BY <2>7 DEF FailReset
  <2> QED  BY <1>3, <2>1, <2>2, <2>3, <2>4, <2>5, <2>6, <2>7, ZenonT(60) DEF RecordFailure
<1> QED  BY <1>1, <1>2, <1>3, ZenonT(60) DEF Step

LEMMA SoloNext ==
  ASSUME NEW me, Goroutines = {me}, TypeOK, SoloInv, [Next]_vars
  PROVE  SoloInv'
<1>1. CASE Step(me)
  BY <1>1, SoloStep, ZenonT(60)
<1>2. ASSUME NEW u \in Upstreams, NEW method \in {"try", "succ", "fail"}, Call(me, u, method)
      PROVE  SoloInv'
  BY <1>2, ZenonT(60) DEF Call, Goto, fields, TypeOK, SoloInv, FailureLabels
<1>3. ASSUME NEW u \in Upstreams, NEW verdict \in BOOLEAN, Check(u, verdict) PROVE SoloInv'
  BY <1>3, ZenonT(60) DEF Check, frame, SoloInv
<1>4. CASE Tick
  <2>1. \A u \in Upstreams : openFor[u] = 0 => openFor'[u] = 0
    BY <1>4, SMTT(20), Z3T(20) DEF Tick
  <2>2. at[me] \in Upstreams
    BY ZenonT(60) DEF TypeOK
  <2> QED  BY <1>4, <2>1, <2>2 DEF Tick, frame, SoloInv
<1>5. CASE UNCHANGED vars
  BY <1>5, ZenonT(60) DEF vars, fields, frame, SoloInv
<1> QED  BY <1>1, <1>2, <1>3, <1>4, <1>5, ZenonT(60) DEF Next
-----------------------------------------------------------------------------
(***************************************************************************)
(* Every step is a step of CircuitBreaker under the mapping, or a stutter. *)
(***************************************************************************)
LEMMA SoloMapping ==
  ASSUME NEW me, Goroutines = {me}, TypeOK
  PROVE  /\ AbsState = [u \in Upstreams |->
                          IF at[me] = u /\ pc[me] = "failOpen" THEN "open" ELSE circuitState[u]]
         /\ AbsFailures = [u \in Upstreams |->
              IF /\ at[me] = u
                 /\ pc[me] \in {"failState", "failProbe", "failUnhealthy", "failDeadline"}
                 /\ seen[me] >= Threshold
              THEN failureCount[u] - 1
              ELSE IF at[me] = u /\ pc[me] \in {"failOpen", "failReset", "succHealthy", "succReset"}
              THEN 0 ELSE failureCount[u]]
BY ZenonT(60) DEF AbsState, AbsFailures, At, Undecided

LEMMA SimulateStep ==
  ASSUME NEW me, Goroutines = {me}, TypeOK, TypeOK', SoloInv, Step(me)
  PROVE  [CB!Next]_(CB!vars)
<1> DEFINE u == at[me]
<1>0. me \in Goroutines /\ u \in Upstreams
  BY DEF TypeOK
<1>a. /\ AbsState = [w \in Upstreams |->
                       IF u = w /\ pc[me] = "failOpen" THEN "open" ELSE circuitState[w]]
      /\ AbsFailures = [w \in Upstreams |->
           IF /\ u = w
              /\ pc[me] \in {"failState", "failProbe", "failUnhealthy", "failDeadline"}
              /\ seen[me] >= Threshold
           THEN failureCount[w] - 1
           ELSE IF u = w /\ pc[me] \in {"failOpen", "failReset", "succHealthy", "succReset"}
           THEN 0 ELSE failureCount[w]]
  BY SoloMapping
<1>b. /\ AbsState' = [w \in Upstreams |->
                       IF at'[me] = w /\ pc'[me] = "failOpen" THEN "open" ELSE circuitState'[w]]
      /\ AbsFailures' = [w \in Upstreams |->
           IF /\ at'[me] = w
              /\ pc'[me] \in {"failState", "failProbe", "failUnhealthy", "failDeadline"}
              /\ seen'[me] >= Threshold
           THEN failureCount'[w] - 1
           ELSE IF at'[me] = w /\ pc'[me] \in {"failOpen", "failReset", "succHealthy", "succReset"}
           THEN 0 ELSE failureCount'[w]]
  BY DEF AbsState, AbsFailures, At, Undecided
<1>t. /\ failureCount \in [Upstreams -> Nat] /\ failureCount' \in [Upstreams -> Nat]
      /\ circuitState \in [Upstreams -> CircuitStates]
      /\ pc \in [Goroutines -> Returned \cup TryLabels \cup SuccessLabels \cup FailureLabels]
      /\ openFor \in [Upstreams -> 0..OpenSeconds]
      /\ ret[me] = "idle" /\ at \in [Goroutines -> Upstreams] /\ seen \in [Goroutines -> Int]
  BY <1>0, ZenonT(60) DEF TypeOK
<1>s. /\ pc[me] = "trySwap" => circuitState[u] = "open" /\ openFor[u] = 0
      /\ pc[me] \in {"succProbe", "succClose"} => circuitState[u] = "halfOpen"
      /\ pc[me] \in FailureLabels \ {"fail"} => seen[me] = failureCount[u]
      /\ pc[me] \in {"failUnhealthy", "failDeadline", "failOpen", "failReset"}
           => seen[me] >= Threshold
      /\ pc[me] = "failReset" => circuitState[u] = "open"
  BY <1>0, ZenonT(60) DEF SoloInv
<1> USE <1>0, <1>t, PositiveSettings DEF Goto, fields
<1>1. CASE TryState(me)
  <2>1. pc'[me] \in {"refused", "tryTimer", "tryLoad"}
    BY <1>1, SMTT(20), Z3T(20) DEF TryState, CircuitStates
  <2> QED  BY <1>1, <1>a, <1>b, <2>1, ZenonT(60) DEF TryState, CB!vars
<1>2. CASE TryTimer(me)  BY <1>2, <1>a, <1>b DEF TryTimer, CB!vars
<1>3. CASE TrySwap(me)
  <2>1. CB!Probe(u)
    BY <1>3, <1>a, <1>b, <1>s, ZenonT(60) DEF TrySwap, CB!Probe
  <2> QED  BY <2>1, ZenonT(60) DEF CB!Next
<1>4. CASE TryReset(me)  BY <1>4, <1>a, <1>b, ZenonT(60) DEF TryReset, CB!vars
<1>5. CASE TryLoad(me)   BY <1>5, <1>a, <1>b, ZenonT(60) DEF TryLoad, CB!vars
<1>6. CASE TryTake(me)   BY <1>6, <1>a, <1>b DEF TryTake, CB!vars
<1>7. CASE SuccState(me)
  <2>1. CASE circuitState[u] = "halfOpen"
    BY <1>7, <2>1, <1>a, <1>b DEF SuccState, CB!vars
  <2>2. CASE circuitState[u] # "halfOpen"
    <3>1. CB!Forget(u)
      BY <1>7, <2>2, <1>a, <1>b, ZenonT(60) DEF SuccState, CB!Forget
    <3> QED  BY <3>1 DEF CB!Next
  <2> QED  BY <2>1, <2>2, SMTT(20), Z3T(20)
<1>8. CASE SuccProbe(me)  BY <1>8, <1>a, <1>b DEF SuccProbe, CB!vars
<1>9. CASE SuccClose(me)
  <2>1. CB!Recover(u)
    BY <1>9, <1>a, <1>b, <1>s, ZenonT(60) DEF SuccClose, CB!Recover
  <2> QED  BY <2>1 DEF CB!Next
<1>10. CASE SuccHealthy(me)  BY <1>10, <1>a, <1>b, ZenonT(60) DEF SuccHealthy, CB!vars
<1>11. CASE SuccReset(me)    BY <1>11, <1>a, <1>b DEF SuccReset, CB!vars
<1>12. CASE FailCount(me)
  <2>1. CASE failureCount[u] + 1 < Threshold
    <3>1. CASE circuitState[u] = "halfOpen"
      <4>1. CB!FailedProbe(u)
        BY <1>12, <2>1, <3>1, <1>a, <1>b, SMTT(20), Z3T(20) DEF FailCount, CB!FailedProbe
      <4> QED  BY <4>1, ZenonT(60) DEF CB!Next
    <3>2. CASE circuitState[u] # "halfOpen"
      <4>1. CB!Count(u)
        BY <1>12, <2>1, <3>2, <1>a, <1>b, SMTT(20), Z3T(20) DEF FailCount, CB!Count
      <4> QED  BY <4>1, ZenonT(60) DEF CB!Next
    <3> QED  BY <3>1, <3>2
  <2>2. CASE failureCount[u] + 1 >= Threshold
    BY <1>12, <2>2, <1>a, <1>b, SMTT(20), Z3T(20) DEF FailCount, CB!vars
  <2> QED  BY <2>1, <2>2, SMTT(20), Z3T(20)
<1>13. CASE FailState(me)
  BY <1>13, <1>a, <1>b, <1>s, ZenonT(60) DEF FailState, FailBranch, CB!vars, FailureLabels
<1>14. CASE FailProbe(me)
  BY <1>14, <1>a, <1>b, <1>s, ZenonT(60) DEF FailProbe, FailBranch, CB!vars, FailureLabels
<1>15. CASE FailUnhealthy(me)
  BY <1>15, <1>a, <1>b, <1>s, ZenonT(60) DEF FailUnhealthy, CB!vars
<1>16. CASE FailDeadline(me)
  <2>1. AbsFailures[u] + 1 >= Threshold
    BY <1>16, <1>a, <1>s, SMTT(20), Z3T(20) DEF FailDeadline, FailureLabels
  <2>2. AbsState' = [AbsState EXCEPT ![u] = "open"]
    BY <1>16, <1>a, <1>b, ZenonT(60) DEF FailDeadline
  <2>3. AbsFailures' = [AbsFailures EXCEPT ![u] = 0]
    BY <1>16, <1>a, <1>b, ZenonT(60) DEF FailDeadline
  <2>4. CB!Trip(u)
    BY <1>16, <2>1, <2>2, <2>3, ZenonT(60) DEF FailDeadline, CB!Trip
  <2> QED  BY <2>4, ZenonT(60) DEF CB!Next
<1>17. CASE FailOpen(me)   BY <1>17, <1>a, <1>b, ZenonT(60) DEF FailOpen, CB!vars
<1>18. CASE FailReset(me)  BY <1>18, <1>a, <1>b, <1>s DEF FailReset, CB!vars
<1> QED
  BY ZenonT(60), <1>1, <1>2, <1>3, <1>4, <1>5, <1>6, <1>7, <1>8, <1>9, <1>10, <1>11, <1>12,
     <1>13, <1>14, <1>15, <1>16, <1>17, <1>18
  DEF Step, TryHalfOpen, RecordSuccess, RecordFailure

LEMMA SimulateNext ==
  ASSUME NEW me, Goroutines = {me}, TypeOK, TypeOK', SoloInv, [Next]_vars
  PROVE  [CB!Next]_(CB!vars)
<1>1. CASE Step(me)
  BY <1>1, SimulateStep
<1>2. ASSUME NEW u \in Upstreams, NEW method \in {"try", "succ", "fail"}, Call(me, u, method)
      PROVE  UNCHANGED CB!vars
  <2>1. pc[me] \in Returned /\ pc'[me] \in {"try", "succ", "fail"}
    BY <1>2, ZenonT(60) DEF Call, Goto, TypeOK
  <2>2. AbsState = circuitState /\ AbsFailures = failureCount
    BY <2>1, ZenonT(60) DEF AbsState, AbsFailures, At, Undecided, Returned, TypeOK
  <2>3. AbsState' = circuitState' /\ AbsFailures' = failureCount'
    BY <2>1, ZenonT(60) DEF AbsState, AbsFailures, At, Undecided, TypeOK
  <2> QED  BY <1>2, <2>2, <2>3, ZenonT(60) DEF Call, fields, CB!vars
<1>3. ASSUME NEW u \in Upstreams, NEW verdict \in BOOLEAN, Check(u, verdict)
      PROVE  UNCHANGED CB!vars
  BY <1>3 DEF Check, frame, AbsState, AbsFailures, At, Undecided, CB!vars
<1>4. CASE Tick
  <2>1. CB!Elapse
    BY <1>4, ZenonT(60) DEF Tick, frame, AbsState, AbsFailures, At, Undecided, CB!Elapse
  <2> QED  BY <2>1, ZenonT(60) DEF CB!Next
<1>5. CASE UNCHANGED vars
  BY <1>5 DEF vars, fields, frame, AbsState, AbsFailures, At, Undecided, CB!vars
<1> QED  BY <1>1, <1>2, <1>3, <1>4, <1>5 DEF Next

LEMMA SimulateInit ==
  ASSUME Init
  PROVE  SoloInv /\ CB!Init
<1>1. SoloInv
  BY DEF Init, SoloInv, FailureLabels
<1>2. \A u \in Upstreams : ~Undecided(u) /\ ~At(u, {"failOpen"})
                           /\ ~At(u, {"failOpen", "failReset", "succHealthy", "succReset"})
  BY DEF Init, Undecided, At
<1> QED  BY <1>1, <1>2 DEF Init, FieldsInit, AbsState, AbsFailures, CB!Init

\* With one goroutine, whatever the upstreams and the settings, the methods of
\* upstream.go:53-125 implement the three-state breaker of CircuitBreaker.
THEOREM SequentialRefinement ==
  ASSUME NEW CONSTANT me, Goroutines = {me}
  PROVE  Spec => SequentialBreaker
<1>1. Init => SoloInv /\ CB!Init
  BY SimulateInit
<1>2. TypeOK /\ SoloInv /\ [Next]_vars => SoloInv'
  BY SoloNext
<1>3. TypeOK /\ TypeOK' /\ SoloInv /\ [Next]_vars => [CB!Next]_(CB!vars)
  BY SimulateNext, ZenonT(60)
<1> QED  BY <1>1, <1>2, <1>3, TypeCorrect, PTL DEF Spec, SequentialBreaker, CB!Spec
-----------------------------------------------------------------------------
(***************************************************************************)
(* The race of TestUpstream_ConcurrentTryHalfOpenOnlyOneWins.  One         *)
(* goroutine wins the swap, and only it resets the count.  Until it does,  *)
(* the winners have all taken their slots from the old count; afterwards   *)
(* as many again may take theirs from the new one.                         *)
(***************************************************************************)
RaceInv ==
  /\ TypeOK
  /\ \A g \in Goroutines : pc[g] = "tryTake" => seen[g] < MaxProbes
  /\ \A u \in Upstreams :
       /\ halfOpenInFlight[u] \in 0..MaxProbes
       /\ circuitState[u] = "open" => ~At(u, {"tryReset", "tryLoad", "tryTake", "admitted"})
       /\ IF At(u, {"tryReset"})
          THEN Cardinality(Winners(u)) <= halfOpenInFlight[u]
          ELSE Cardinality(Winners(u)) <= MaxProbes + halfOpenInFlight[u]
  /\ \A g, h \in Goroutines :
       pc[g] = "tryReset" /\ pc[h] = "tryReset" /\ at[g] = at[h] => g = h

LEMMA WinnersFinite ==
  ASSUME IsFiniteSet(Goroutines)
  PROVE  \A u : IsFiniteSet(Winners(u)) /\ Cardinality(Winners(u)) \in Nat
<1>1. \A u : Winners(u) \subseteq Goroutines
  BY DEF Winners
<1> QED  BY <1>1, FS_Subset, FS_CardinalityType, Zenon

\* A step that admits nobody: the winners stay, and only the count of the upstream
\* or who is about to reset it may change.
LEMMA SameWinners ==
  ASSUME TypeOK, NEW g \in Goroutines, NEW label, pc' = [pc EXCEPT ![g] = label], at' = at,
         pc[g] # "admitted", label # "admitted"
  PROVE  \A u \in Upstreams : Winners(u)' = Winners(u)
BY DEF TypeOK, Winners

LEMMA OneWinnerMore ==
  ASSUME TypeOK, IsFiniteSet(Goroutines), NEW g \in Goroutines,
         pc[g] = "tryTake", pc' = [pc EXCEPT ![g] = "admitted"], at' = at
  PROVE  \A u \in Upstreams :
           Cardinality(Winners(u)') = Cardinality(Winners(u)) + (IF at[g] = u THEN 1 ELSE 0)
<1> SUFFICES ASSUME NEW u \in Upstreams
             PROVE  Cardinality(Winners(u)') = Cardinality(Winners(u)) + (IF at[g] = u THEN 1 ELSE 0)
  OBVIOUS
<1>0. IsFiniteSet(Winners(u)) /\ Cardinality(Winners(u)) \in Nat
  BY WinnersFinite, Zenon
<1>1. CASE at[g] = u
  <2>1. Winners(u)' = Winners(u) \cup {g} /\ g \notin Winners(u)
    BY <1>1 DEF TypeOK, Winners
  <2>2. Cardinality(Winners(u) \cup {g}) = Cardinality(Winners(u)) + 1
    BY <1>0, <2>1, FS_AddElement, Zenon
  <2> QED  BY <1>1, <2>1, <2>2
<1>2. CASE at[g] # u
  <2>1. Winners(u)' = Winners(u)
    BY <1>2, ZenonT(60) DEF TypeOK, Winners
  <2> QED  BY <1>0, <1>2, <2>1, SMTT(20), Z3T(20)
<1> QED  BY <1>1, <1>2

\* A step that neither admits, nor resets, nor touches the upstream.
LEMMA RaceQuiet ==
  ASSUME RaceInv, TypeOK', NEW g \in Goroutines, NEW label,
         UNCHANGED <<circuitState, halfOpenInFlight, at>>,
         pc' = [pc EXCEPT ![g] = label],
         label \in {"refused", "tryTimer", "trySwap", "tryLoad", "tryTake"},
         pc[g] \notin {"tryReset", "admitted"},
         label \in {"tryLoad", "tryTake"} => circuitState[at[g]] # "open",
         label = "tryTake" => seen'[g] < MaxProbes,
         \A h \in Goroutines \ {g} : seen'[h] = seen[h]
  PROVE  RaceInv'
<1> USE DEF RaceInv, TypeOK
<1>1. \A h \in Goroutines : pc'[h] = "tryTake" => seen'[h] < MaxProbes
  BY ZenonT(60)
<1>2. ASSUME NEW u \in Upstreams
      PROVE  /\ halfOpenInFlight'[u] \in 0..MaxProbes
             /\ circuitState'[u] = "open" =>
                  ~At(u, {"tryReset", "tryLoad", "tryTake", "admitted"})'
             /\ IF At(u, {"tryReset"})'
                THEN Cardinality(Winners(u)') <= halfOpenInFlight'[u]
                ELSE Cardinality(Winners(u)') <= MaxProbes + halfOpenInFlight'[u]
  <2>1. Winners(u)' = Winners(u)
    BY SameWinners, ZenonT(60)
  <2>2. At(u, {"tryReset"})' <=> At(u, {"tryReset"})
    BY ZenonT(60) DEF At
  <2>3. circuitState'[u] = "open" => ~At(u, {"tryReset", "tryLoad", "tryTake", "admitted"})'
    BY ZenonT(60) DEF At
  <2> QED  BY <2>1, <2>2, <2>3
<1>3. \A h, k \in Goroutines : pc'[h] = "tryReset" /\ pc'[k] = "tryReset" /\ at'[h] = at'[k] => h = k
  OBVIOUS
<1> QED  BY <1>1, <1>2, <1>3, ZenonT(60)

LEMMA RaceStep ==
  ASSUME IsFiniteSet(Goroutines), RaceInv, NEW g \in Goroutines, TryHalfOpen(g)
  PROVE  RaceInv'
<1>0. TypeOK /\ TypeOK' /\ at[g] \in Upstreams
  BY TypeTry DEF RaceInv, TypeOK
<1>1. CASE TryState(g)
  <2> DEFINE label == [closed |-> "refused", open |-> "tryTimer", halfOpen |-> "tryLoad"][circuitState[at[g]]]
  <2>1. /\ pc' = [pc EXCEPT ![g] = label]
        /\ label \in {"refused", "tryTimer", "tryLoad"}
        /\ label = "tryLoad" => circuitState[at[g]] # "open"
    <3>1. circuitState[at[g]] \in CircuitStates
      BY <1>0 DEF TypeOK
    <3>2. pc' = [pc EXCEPT ![g] = label]
      BY <1>1, Zenon DEF TryState, Goto
    <3> QED  BY <3>1, <3>2, SMTT(20), Z3T(20) DEF CircuitStates
  <2> HIDE DEF label
  <2> QED  BY <1>0, <1>1, <2>1, RaceQuiet, ZenonT(60) DEF TryState, fields
<1>2. CASE TryTimer(g)
  <2>1. PICK label \in {"refused", "trySwap"} : pc' = [pc EXCEPT ![g] = label]
    BY <1>2, ZenonT(60) DEF TryTimer, Goto
  <2> QED  BY <1>0, <1>2, <2>1, RaceQuiet, ZenonT(60) DEF TryTimer, fields
<1>3. CASE TrySwap(g)
  <2>1. CASE circuitState[at[g]] # "open"
    BY <1>0, <1>3, <2>1, RaceQuiet, SMTT(20), Z3T(20) DEF TrySwap, Goto
  <2>2. CASE circuitState[at[g]] = "open"
    <3> USE DEF RaceInv, TypeOK
    <3>0. /\ circuitState' = [circuitState EXCEPT ![at[g]] = "halfOpen"]
          /\ pc[g] = "trySwap" /\ pc' = [pc EXCEPT ![g] = "tryReset"]
          /\ UNCHANGED <<halfOpenInFlight, at, seen>>
      BY <1>3, <2>2, ZenonT(60) DEF TrySwap, Goto
    <3>1. ASSUME NEW u \in Upstreams
          PROVE  /\ halfOpenInFlight'[u] \in 0..MaxProbes
                 /\ circuitState'[u] = "open" =>
                      ~At(u, {"tryReset", "tryLoad", "tryTake", "admitted"})'
                 /\ IF At(u, {"tryReset"})'
                    THEN Cardinality(Winners(u)') <= halfOpenInFlight'[u]
                    ELSE Cardinality(Winners(u)') <= MaxProbes + halfOpenInFlight'[u]
      <4>1. Winners(u)' = Winners(u)
        BY <1>0, <3>0, SameWinners, ZenonT(60)
      <4>2. CASE u = at[g]
        <5>1. Winners(u) = {}
          BY <2>2, <4>2, ZenonT(60) DEF At, Winners
        <5>2. Cardinality(Winners(u)') = 0
          BY <4>1, <5>1, FS_EmptySet, ZenonT(60)
        <5> QED  BY <1>0, <3>0, <4>2, <5>2, PositiveSettings, SMTT(20), Z3T(20)
      <4>3. CASE u # at[g]
        <5>1. \A L : At(u, L)' <=> At(u, L)
          BY <3>0, <4>3, ZenonT(60) DEF At
        <5> QED  BY <1>0, <3>0, <4>1, <4>3, <5>1, ZenonT(60)
      <4> QED  BY <4>2, <4>3
    <3>2. \A h, k \in Goroutines : pc'[h] = "tryReset" /\ pc'[k] = "tryReset" /\ at'[h] = at'[k] => h = k
      <4>1. \A h \in Goroutines : pc[h] = "tryReset" => at[h] # at[g]
        BY <1>0, <2>2, ZenonT(60) DEF At
      <4> QED  BY <3>0, <4>1, ZenonT(60)
    <3>3. \A h \in Goroutines : pc'[h] = "tryTake" => seen'[h] < MaxProbes
      BY <3>0, ZenonT(60)
    <3> QED  BY <1>0, <3>1, <3>2, <3>3, ZenonT(60)
  <2> QED  BY <2>1, <2>2, ZenonT(60)
<1>4. CASE TryReset(g)
  <2> USE DEF RaceInv, TypeOK
  <2>0. /\ halfOpenInFlight' = [halfOpenInFlight EXCEPT ![at[g]] = 0]
        /\ pc[g] = "tryReset" /\ pc' = [pc EXCEPT ![g] = "tryLoad"]
        /\ UNCHANGED <<circuitState, at, seen>>
    BY <1>4 DEF TryReset, Goto
  <2>1. ASSUME NEW u \in Upstreams
        PROVE  /\ halfOpenInFlight'[u] \in 0..MaxProbes
               /\ circuitState'[u] = "open" =>
                    ~At(u, {"tryReset", "tryLoad", "tryTake", "admitted"})'
               /\ IF At(u, {"tryReset"})'
                  THEN Cardinality(Winners(u)') <= halfOpenInFlight'[u]
                  ELSE Cardinality(Winners(u)') <= MaxProbes + halfOpenInFlight'[u]
    <3>1. Winners(u)' = Winners(u) /\ Cardinality(Winners(u)) \in Nat
      BY <1>0, <2>0, SameWinners, WinnersFinite, ZenonT(60)
    <3>2. CASE u = at[g]
      <4>1. ~At(u, {"tryReset"})' /\ At(u, {"tryReset"}) /\ circuitState[u] # "open"
        BY <2>0, <3>2, SMTT(20), Z3T(20) DEF At
      <4> QED  BY <1>0, <2>0, <3>1, <3>2, <4>1, PositiveSettings, SMTT(20), Z3T(20)
    <3>3. CASE u # at[g]
      <4>1. \A L : At(u, L)' <=> At(u, L)
        BY <2>0, <3>3, SMTT(20), Z3T(20) DEF At
      <4> QED  BY <1>0, <2>0, <3>1, <3>3, <4>1, ZenonT(60)
    <3> QED  BY <3>2, <3>3
  <2>2. \A h, k \in Goroutines : pc'[h] = "tryReset" /\ pc'[k] = "tryReset" /\ at'[h] = at'[k] => h = k
    BY <2>0, ZenonT(60)
  <2>3. \A h \in Goroutines : pc'[h] = "tryTake" => seen'[h] < MaxProbes
    BY <2>0, ZenonT(60)
  <2> QED  BY <1>0, <2>1, <2>2, <2>3, SMTT(20), Z3T(20)
<1>5. CASE TryLoad(g)
  <2>1. circuitState[at[g]] # "open"
    BY <1>0, <1>5, ZenonT(60) DEF TryLoad, RaceInv, At
  <2>2. CASE halfOpenInFlight[at[g]] >= MaxProbes
    BY <1>0, <1>5, <2>2, RaceQuiet, PositiveSettings, SMTT(20), Z3T(20) DEF TryLoad, Goto, fields, TypeOK
  <2>3. CASE halfOpenInFlight[at[g]] < MaxProbes
    BY <1>0, <1>5, <2>1, <2>3, RaceQuiet, PositiveSettings, ZenonT(60) DEF TryLoad, Goto, fields, TypeOK
  <2> QED  BY <1>0, <2>2, <2>3, PositiveSettings, SMTT(20), Z3T(20) DEF TypeOK
<1>6. CASE TryTake(g)
  <2>0. circuitState[at[g]] # "open" /\ pc[g] = "tryTake" /\ seen[g] < MaxProbes
    BY <1>0, <1>6, ZenonT(60) DEF TryTake, RaceInv, At
  <2>1. CASE halfOpenInFlight[at[g]] # seen[g]
    BY <1>0, <1>6, <2>0, <2>1, RaceQuiet, ZenonT(60) DEF TryTake, Goto, TypeOK
  <2>2. CASE halfOpenInFlight[at[g]] = seen[g]
    <3> USE DEF RaceInv, TypeOK
    <3>0. /\ halfOpenInFlight' = [halfOpenInFlight EXCEPT ![at[g]] = @ + 1]
          /\ pc' = [pc EXCEPT ![g] = "admitted"] /\ seen' = [seen EXCEPT ![g] = 0]
          /\ UNCHANGED <<circuitState, at>>
      BY <1>6, <2>2, ZenonT(60) DEF TryTake, Goto
    <3>1. ASSUME NEW u \in Upstreams
          PROVE  /\ halfOpenInFlight'[u] \in 0..MaxProbes
                 /\ circuitState'[u] = "open" =>
                      ~At(u, {"tryReset", "tryLoad", "tryTake", "admitted"})'
                 /\ IF At(u, {"tryReset"})'
                    THEN Cardinality(Winners(u)') <= halfOpenInFlight'[u]
                    ELSE Cardinality(Winners(u)') <= MaxProbes + halfOpenInFlight'[u]
      <4>1. /\ Cardinality(Winners(u)') = Cardinality(Winners(u)) + (IF at[g] = u THEN 1 ELSE 0)
            /\ Cardinality(Winners(u)) \in Nat
        BY <1>0, <2>0, <3>0, OneWinnerMore, WinnersFinite, ZenonT(60)
      <4>2. At(u, {"tryReset"})' <=> At(u, {"tryReset"})
        BY <2>0, <3>0, ZenonT(60) DEF At
      <4>3. circuitState'[u] = "open" => ~At(u, {"tryReset", "tryLoad", "tryTake", "admitted"})'
        BY <2>0, <3>0, ZenonT(60) DEF At
      <4> QED  BY <1>0, <2>0, <2>2, <3>0, <4>1, <4>2, <4>3, PositiveSettings, SMTT(20), Z3T(20)
    <3>2. \A h, k \in Goroutines : pc'[h] = "tryReset" /\ pc'[k] = "tryReset" /\ at'[h] = at'[k] => h = k
      BY <3>0, ZenonT(60)
    <3>3. \A h \in Goroutines : pc'[h] = "tryTake" => seen'[h] < MaxProbes
      BY <3>0
    <3> QED  BY <1>0, <3>1, <3>2, <3>3
  <2> QED  BY <2>1, <2>2, SMTT(20), Z3T(20)
<1> QED  BY <1>1, <1>2, <1>3, <1>4, <1>5, <1>6, ZenonT(60) DEF TryHalfOpen

\* However many goroutines race for the probe slots of an open circuit whose timer
\* has run out, TryHalfOpen admits at most twice as many as there are slots.  The
\* bound is reached: see ProbeSlotExclusive.
THEOREM RaceIsBounded ==
  ASSUME IsFiniteSet(Goroutines)
  PROVE  RaceSpec => []TwiceAtMost
<1>1. ExpiredInit => RaceInv
  <2> SUFFICES ASSUME ExpiredInit PROVE RaceInv
    OBVIOUS
  <2>1. TypeOK
    BY PositiveSettings, SMTT(20), Z3T(20) DEF ExpiredInit, TypeOK, CircuitStates, TryLabels
  <2>2. \A g \in Goroutines : pc[g] = "try"
    BY DEF ExpiredInit
  <2>3. \A u \in Upstreams : Winners(u) = {} /\ \A L : At(u, L) => "try" \in L
    BY <2>2 DEF Winners, At
  <2>4. \A u \in Upstreams : Cardinality(Winners(u)) = 0 /\ halfOpenInFlight[u] = 0
    BY <2>3, FS_EmptySet, ZenonT(60) DEF ExpiredInit
  <2>5. \A u \in Upstreams : ~At(u, {"tryReset"}) /\ ~At(u, {"tryReset", "tryLoad", "tryTake", "admitted"})
    BY <2>2 DEF At
  <2> QED  BY <2>1, <2>2, <2>4, <2>5, PositiveSettings, SMTT(20), Z3T(20) DEF RaceInv
<1>2. RaceInv /\ [\E g \in Goroutines : TryHalfOpen(g)]_vars => RaceInv'
  <2>1. CASE UNCHANGED vars
    BY <2>1, ZenonT(60) DEF vars, fields, frame, RaceInv, TypeOK, At, Winners
  <2> QED  BY <2>1, RaceStep, ZenonT(60)
<1>3. RaceInv => TwiceAtMost
  <2> SUFFICES ASSUME RaceInv, NEW u \in Upstreams PROVE Cardinality(Winners(u)) <= 2 * MaxProbes
    BY DEF TwiceAtMost
  <2>1. Cardinality(Winners(u)) \in Nat
    BY WinnersFinite
  <2> QED  BY <2>1, PositiveSettings, SMTT(20), Z3T(20) DEF RaceInv
<1> QED  BY <1>1, <1>2, <1>3, PTL DEF RaceSpec
=============================================================================
