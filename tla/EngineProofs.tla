---------------------------- MODULE EngineProofs ----------------------------
(***************************************************************************)
(* Proofs about the proxy engine, for any number of upstreams and          *)
(* concurrent requests, any balancer and any settings.                     *)
(*                                                                         *)
(* TypeOK is not inductive by itself: the balancer dereferences at[g] and  *)
(* target[g], so that they are positions of targets wherever that happens  *)
(* is part of the invariant (Places).                                      *)
(*                                                                         *)
(* NoWedge does not hold of several upstreams, where a request may leave a *)
(* probe behind at the first and go on to the second.  With one upstream   *)
(* it does, and is inductive together with Inv.                            *)
(***************************************************************************)
EXTENDS Engine, TLAPS, FiniteSetTheorems

LEMMA PositiveSettings ==
  /\ Threshold \in Nat /\ Threshold >= 1
  /\ OpenSeconds \in Nat /\ OpenSeconds >= 1
  /\ MaxProbes \in Nat /\ MaxProbes >= 1
BY BreakerConfig DEF Threshold, OpenSeconds, MaxProbes, intOr

\* How the two counts of the breaker stand to their limits.
LEMMA Limits ==
  /\ 0 <= MaxProbes /\ ~(0 >= Threshold)
  /\ \A n \in Int : n < MaxProbes => n + 1 <= MaxProbes
  /\ \A n \in Int : n <= MaxProbes => n - 1 <= MaxProbes
BY PositiveSettings

\* Where TryHalfOpen goes from the state it finds.
LEMMA FromState ==
  ASSUME NEW s \in CircuitStates
  PROVE  [closed |-> "refused", open |-> "tryTimer", halfOpen |-> "tryLoad"][s]
           \in {"refused", "tryTimer", "tryLoad"}
BY DEF CircuitStates

LEMMA Positions ==
  /\ NumTargets \in Nat
  /\ Upstreams = 1..NumTargets
  /\ NoTarget \notin Upstreams /\ NoTarget \in 0..NumTargets
BY TargetsAreIndexed, FS_CardinalityType DEF NumTargets, NoTarget

\* Where at[g] is dereferenced.
Aimed == {"scanState", "admitted", "compare", "releaseState"}
           \cup TryLabels \cup SuccessLabels \cup FailureLabels

\* Where g has no target, and where it has one.  RecordSuccess is called with a
\* target by ServeHTTP and without one, it has just been given up, by Release.
Free == {"idle", "scan", "scanState", "admitted", "refused", "compare", "none",
         "releaseState", "released"} \cup TryLabels
Holding == {"acquire", "forward", "respond", "release"} \cup FailureLabels

Places(g) ==
  /\ pc[g] \in Aimed => at[g] \in Upstreams
  /\ pc[g] \in Free => target[g] = NoTarget
  /\ pc[g] \in Holding => target[g] \in Upstreams
  /\ pc[g] \in FailureLabels => ret[g] = "release"
  /\ pc[g] \in SuccessLabels =>
       IF ret[g] = "released" THEN target[g] = NoTarget ELSE target[g] \in Upstreams

\* Where the attempt under way has not been sent.
Unsent == {"idle", "scan", "scanState", "admitted", "refused", "compare", "none",
           "acquire", "forward"} \cup TryLabels

Sends(g) ==
  /\ sent[g] = IF pc[g] \in Unsent THEN attempt[g] ELSE attempt[g] + 1
  /\ kind[g] # "safe" \/ pc[g] = "idle" => attempt[g] = 0

\* The outcome is one that gets no response before Release.
Bad(g) == outcome[g] \in Errors \/ WillRetry(g, outcome[g])

\* Where g is on its way through Release.
Leaving(g) ==
  \/ pc[g] \in {"release", "releaseState", "released"}
  \/ pc[g] \in SuccessLabels /\ ret[g] = "released"

\* Where g is about to write the response.
Responding(g) == pc[g] = "respond" \/ (pc[g] \in SuccessLabels /\ ret[g] = "respond")

Answers(g) ==
  /\ pc[g] \in Unsent \ {"idle"} => answered[g] = 0
  /\ Responding(g) => answered[g] = 0 /\ ~Bad(g)
  /\ pc[g] \in SuccessLabels /\ ret[g] = "release" => kind[g] = "upgrade"
  /\ pc[g] \in FailureLabels /\ kind[g] # "upgrade" => answered[g] = 0 /\ Bad(g)
  /\ Leaving(g) /\ kind[g] # "upgrade" => answered[g] = IF Bad(g) THEN 0 ELSE 1

LocalOK(g) == Places(g) /\ Sends(g) /\ Answers(g)

Labels == EngineLabels \cup TryLabels \cup SuccessLabels \cup FailureLabels

\* TypeOK, by the part of the system that owns the variables.
FieldTypes ==
  /\ healthy \in [Upstreams -> BOOLEAN]
  /\ failureCount \in [Upstreams -> Nat]
  /\ circuitState \in [Upstreams -> CircuitStates]
  /\ openFor \in [Upstreams -> 0..OpenSeconds]
  /\ halfOpenInFlight \in [Upstreams -> Int]

FrameTypes ==
  /\ pc \in [Goroutines -> Labels]
  /\ at \in [Goroutines -> 0..NumTargets]
  /\ ret \in [Goroutines -> {"release", "respond", "released"}]
  /\ seen \in [Goroutines -> Int]

BalancerTypes ==
  /\ activeConns \in [Upstreams -> Int]
  /\ counter \in Nat
  /\ eligible \in [Goroutines -> Seq(Upstreams)]
  /\ target \in [Goroutines -> 0..NumTargets]

RequestTypes ==
  /\ kind \in [Goroutines -> AllKinds \cup {"none"}]
  /\ attempt \in [Goroutines -> 0..MaxRetries]
  /\ outcome \in [Goroutines -> RoundTrips \cup Tunnels \cup {"none"}]
  /\ sent \in [Goroutines -> Nat]
  /\ answered \in [Goroutines -> Nat]
  /\ lost \in [Upstreams -> Nat]

Types == FieldTypes /\ FrameTypes /\ BalancerTypes /\ RequestTypes

LEMMA TypesAreTypeOK == Types <=> TypeOK
BY DEF Types, TypeOK, FieldTypes, FrameTypes, BalancerTypes, RequestTypes, Labels

Inv == Types /\ \A g \in Goroutines : LocalOK(g)
-----------------------------------------------------------------------------
LEMMA InvInit == Init => Inv
<1> SUFFICES ASSUME Init PROVE Inv
  OBVIOUS
<1>1. FieldTypes
  BY PositiveSettings DEF Init, FieldsInit, FieldTypes, CircuitStates
<1>2. FrameTypes
  BY Positions DEF Init, FrameTypes, Labels, EngineLabels
<1>3. BalancerTypes
  <2>1. <<>> \in Seq(Upstreams)
    OBVIOUS
  <2> QED  BY Positions, <2>1 DEF Init, BalancerInit, BalancerTypes
<1>4. RequestTypes
  BY EngineConfig DEF Init, RequestTypes
<1>5. ASSUME NEW g \in Goroutines PROVE LocalOK(g)
  <2>1. /\ pc[g] = "idle" /\ target[g] = NoTarget
        /\ sent[g] = 0 /\ attempt[g] = 0 /\ kind[g] = "none"
    BY DEF Init, BalancerInit
  <2> QED
    BY <2>1 DEF LocalOK, Places, Sends, Answers, Aimed, Holding, Unsent, Responding,
                Leaving, TryLabels, SuccessLabels, FailureLabels
<1> QED  BY <1>1, <1>2, <1>3, <1>4, <1>5, Zenon DEF Inv, Types
-----------------------------------------------------------------------------
(***************************************************************************)
(* The methods of the breaker: they keep the fields typed, and move one    *)
(* goroutine on.                                                           *)
(***************************************************************************)
Moves(g, labels) ==
  /\ at' = at
  /\ ret' = ret
  /\ \E label \in labels : pc' = [pc EXCEPT ![g] = label]

LEMMA TryEffect ==
  ASSUME FieldTypes, seen \in [Goroutines -> Int], NEW g \in Goroutines,
         at[g] \in Upstreams, TryHalfOpen(g)
  PROVE  /\ FieldTypes' /\ seen' \in [Goroutines -> Int]
         /\ pc[g] \in TryLabels /\ Moves(g, TryLabels \cup {"admitted", "refused"})
<1> USE DEF FieldTypes, Moves, Goto, fields, CircuitStates, TryLabels
<1>1. CASE TryState(g)
  <2>1. [closed |-> "refused", open |-> "tryTimer", halfOpen |-> "tryLoad"][circuitState[at[g]]]
          \in {"refused", "tryTimer", "tryLoad"}
    OBVIOUS
  <2> QED  BY <1>1, <2>1, Zenon DEF TryState
<1>2. CASE TryTimer(g)  BY <1>2, Zenon DEF TryTimer
<1>3. CASE TrySwap(g)   BY <1>3 DEF TrySwap
<1>4. CASE TryReset(g)  BY <1>4 DEF TryReset
<1>5. CASE TryLoad(g)   BY <1>5 DEF TryLoad
<1>6. CASE TryTake(g)   BY <1>6 DEF TryTake
<1> QED  BY <1>1, <1>2, <1>3, <1>4, <1>5, <1>6, Zenon DEF TryHalfOpen

LEMMA SuccessEffect ==
  ASSUME FieldTypes, NEW g \in Goroutines, at[g] \in Upstreams, RecordSuccess(g)
  PROVE  /\ FieldTypes' /\ seen' = seen
         /\ pc[g] \in SuccessLabels /\ Moves(g, SuccessLabels \cup {ret[g]})
<1> USE DEF FieldTypes, Moves, Goto, fields, CircuitStates, SuccessLabels
<1>1. CASE SuccState(g)    BY <1>1, Zenon DEF SuccState
<1>2. CASE SuccProbe(g)    BY <1>2 DEF SuccProbe
<1>3. CASE SuccClose(g)    BY <1>3 DEF SuccClose
<1>4. CASE SuccHealthy(g)  BY <1>4 DEF SuccHealthy
<1>5. CASE SuccReset(g)    BY <1>5 DEF SuccReset
<1> QED  BY <1>1, <1>2, <1>3, <1>4, <1>5, Zenon DEF RecordSuccess

LEMMA FailureEffect ==
  ASSUME FieldTypes, seen \in [Goroutines -> Int], NEW g \in Goroutines,
         at[g] \in Upstreams, RecordFailure(g)
  PROVE  /\ FieldTypes' /\ seen' \in [Goroutines -> Int]
         /\ pc[g] \in FailureLabels /\ Moves(g, FailureLabels \cup {ret[g]})
<1> USE PositiveSettings DEF FieldTypes, Moves, Goto, fields, CircuitStates, FailureLabels
<1>1. CASE FailCount(g)      BY <1>1 DEF FailCount
<1>2. CASE FailState(g)      BY <1>2 DEF FailState, FailBranch
<1>3. CASE FailProbe(g)      BY <1>3 DEF FailProbe, FailBranch
<1>4. CASE FailUnhealthy(g)  BY <1>4 DEF FailUnhealthy
<1>5. CASE FailDeadline(g)   BY <1>5 DEF FailDeadline
<1>6. CASE FailOpen(g)       BY <1>6 DEF FailOpen
<1>7. CASE FailReset(g)      BY <1>7 DEF FailReset
<1> QED  BY <1>1, <1>2, <1>3, <1>4, <1>5, <1>6, <1>7, Zenon DEF RecordFailure

LEMMA EnvironmentEffect ==
  ASSUME FieldTypes, Environment
  PROVE  FieldTypes' /\ UNCHANGED <<frame, balancerVars, requestVars>>
<1>1. CASE Tick
  BY <1>1, PositiveSettings DEF FieldTypes, Environment, Tick
<1>2. ASSUME NEW u \in Upstreams, NEW verdict \in BOOLEAN, Check(u, verdict)
      PROVE  FieldTypes' /\ UNCHANGED frame
  BY <1>2 DEF FieldTypes, Check
<1> QED  BY <1>1, <1>2 DEF Environment, Tick
-----------------------------------------------------------------------------
(***************************************************************************)
(* LocalOK is about one goroutine at a time, and a step leaves the others  *)
(* where they are.                                                         *)
(***************************************************************************)
Locals(g) == <<pc[g], at[g], ret[g], target[g], kind[g], attempt[g], outcome[g],
               sent[g], answered[g]>>

\* LocalOK(g) speaks of nothing but the locals of g.
LEMMA Same ==
  ASSUME NEW g \in Goroutines, LocalOK(g),
         pc'[g] = pc[g], at'[g] = at[g], ret'[g] = ret[g], target'[g] = target[g],
         kind'[g] = kind[g], attempt'[g] = attempt[g], outcome'[g] = outcome[g],
         sent'[g] = sent[g], answered'[g] = answered[g]
  PROVE  LocalOK(g)'
<1>1. Places(g)'
  BY DEF LocalOK, Places
<1>2. Sends(g)'
  BY DEF LocalOK, Sends
<1>3. /\ Bad(g)' <=> Bad(g)
      /\ Leaving(g)' <=> Leaving(g)
      /\ Responding(g)' <=> Responding(g)
  BY Zenon DEF Bad, WillRetry, Leaving, Responding
<1>4. Answers(g)'
  BY <1>3, Zenon DEF LocalOK, Answers
<1> QED  BY <1>1, <1>2, <1>4, Zenon DEF LocalOK

LEMMA Elsewhere ==
  ASSUME NEW g \in Goroutines, \A h \in Goroutines : LocalOK(h),
         \A h \in Goroutines \ {g} : Locals(h)' = Locals(h), LocalOK(g)'
  PROVE  (\A h \in Goroutines : LocalOK(h))'
<1> SUFFICES ASSUME NEW h \in Goroutines \ {g} PROVE LocalOK(h)'
  OBVIOUS
<1>1. LocalOK(h)
  OBVIOUS
<1>2. /\ pc'[h] = pc[h] /\ at'[h] = at[h] /\ ret'[h] = ret[h] /\ target'[h] = target[h]
      /\ kind'[h] = kind[h] /\ attempt'[h] = attempt[h] /\ outcome'[h] = outcome[h]
      /\ sent'[h] = sent[h] /\ answered'[h] = answered[h]
  BY DEF Locals
<1> QED  BY <1>1, <1>2, Same

\* What a goroutine inside a method of the breaker keeps.
LEMMA Moved ==
  ASSUME Types, \A h \in Goroutines : LocalOK(h), NEW g \in Goroutines,
         NEW labels, Moves(g, labels), UNCHANGED <<balancerVars, requestVars>>
  PROVE  /\ \A h \in Goroutines \ {g} : Locals(h)' = Locals(h)
         /\ pc'[g] \in labels
         /\ <<at'[g], ret'[g], target'[g], kind'[g], attempt'[g], outcome'[g], sent'[g], answered'[g]>>
              = <<at[g], ret[g], target[g], kind[g], attempt[g], outcome[g], sent[g], answered[g]>>
         /\ labels \subseteq Labels /\ seen' \in [Goroutines -> Int] => FrameTypes'
         /\ BalancerTypes' /\ RequestTypes'
<1>1. PICK label \in labels : pc' = [pc EXCEPT ![g] = label]
  BY Zenon DEF Moves
<1>2. at' = at /\ ret' = ret
  BY DEF Moves
<1>3. /\ \A h \in Goroutines \ {g} : pc'[h] = pc[h]
      /\ pc'[g] = label
      /\ label \in Labels => pc' \in [Goroutines -> Labels]
  BY <1>1 DEF Types, FrameTypes
<1>4. BalancerTypes'
  BY DEF Types, BalancerTypes, balancerVars
<1>5. RequestTypes'
  BY DEF Types, RequestTypes, requestVars
<1>6. labels \subseteq Labels /\ seen' \in [Goroutines -> Int] => FrameTypes'
  BY <1>2, <1>3 DEF Types, FrameTypes
<1> QED
  BY <1>2, <1>3, <1>4, <1>5, <1>6, Zenon DEF Locals, balancerVars, requestVars

LEMMA InvTry ==
  ASSUME Inv, NEW g \in Goroutines, TryHalfOpen(g), UNCHANGED <<balancerVars, requestVars>>
  PROVE  Inv'
<1>1. pc[g] \in TryLabels
  BY DEF TryHalfOpen, TryState, TryTimer, TrySwap, TryReset, TryLoad, TryTake, TryLabels
<1>2. at[g] \in Upstreams
  BY <1>1 DEF Inv, LocalOK, Places, Aimed
<1>3. /\ FieldTypes' /\ seen' \in [Goroutines -> Int]
      /\ Moves(g, TryLabels \cup {"admitted", "refused"})
  BY <1>2, TryEffect DEF Inv, Types, FrameTypes
<1>4. TryLabels \cup {"admitted", "refused"} \subseteq Labels
  BY DEF Labels, EngineLabels
<1>5. LocalOK(g)'
  <2>1. /\ pc'[g] \in TryLabels \cup {"admitted", "refused"}
        /\ at'[g] = at[g] /\ ret'[g] = ret[g] /\ target'[g] = target[g] /\ kind'[g] = kind[g]
        /\ attempt'[g] = attempt[g] /\ sent'[g] = sent[g] /\ answered'[g] = answered[g]
    BY <1>3, Moved DEF Inv
  <2>2. LocalOK(g)
    BY Zenon DEF Inv
  <2>3. Places(g)'
    BY Zenon, <1>1, <1>2, <2>1, <2>2
    DEF LocalOK, Places, Aimed, Free, Holding, TryLabels, SuccessLabels, FailureLabels
  <2>4. Sends(g)'
    BY <1>1, <2>1, <2>2, Zenon DEF LocalOK, Sends, Unsent, TryLabels
  <2>5. Answers(g)'
    BY Zenon, <1>1, <2>1, <2>2
    DEF LocalOK, Answers, Responding, Leaving, Unsent, TryLabels, SuccessLabels, FailureLabels
  <2> QED  BY <2>3, <2>4, <2>5, Zenon DEF LocalOK
<1>6. (\A h \in Goroutines : LocalOK(h))'
  BY <1>3, <1>5, Moved, Elsewhere, Zenon DEF Inv
<1> QED  BY <1>3, <1>4, <1>6, Moved, Zenon DEF Inv, Types

LEMMA InvSuccess ==
  ASSUME Inv, NEW g \in Goroutines, RecordSuccess(g), UNCHANGED <<balancerVars, requestVars>>
  PROVE  Inv'
<1>1. pc[g] \in SuccessLabels
  BY Zenon DEF RecordSuccess, SuccState, SuccProbe, SuccClose, SuccHealthy, SuccReset, SuccessLabels
<1>2. at[g] \in Upstreams
  BY <1>1 DEF Inv, LocalOK, Places, Aimed
<1>3. FieldTypes' /\ seen' = seen /\ Moves(g, SuccessLabels \cup {ret[g]})
  BY <1>2, SuccessEffect DEF Inv, Types
<1>4. ret[g] \in {"release", "respond", "released"}
  BY DEF Inv, Types, FrameTypes
<1>5. SuccessLabels \cup {ret[g]} \subseteq Labels
  BY <1>4, Zenon DEF Labels, EngineLabels
<1>6. LocalOK(g)'
  <2>1. Bad(g)' = Bad(g)
    BY <1>3, Moved, Zenon DEF Inv, Bad, WillRetry
  <2>2. /\ pc'[g] \in SuccessLabels \cup {ret[g]}
        /\ at'[g] = at[g] /\ ret'[g] = ret[g] /\ target'[g] = target[g] /\ kind'[g] = kind[g]
        /\ attempt'[g] = attempt[g] /\ sent'[g] = sent[g] /\ answered'[g] = answered[g]
    BY <1>3, Moved, Zenon DEF Inv
  <2>3. LocalOK(g)
    BY DEF Inv
  <2>4. Places(g)'
    BY Zenon, <1>1, <1>2, <1>4, <2>2, <2>3
    DEF LocalOK, Places, Aimed, Free, Holding, TryLabels, SuccessLabels, FailureLabels
  <2>5. Sends(g)'
    BY <1>1, <1>2, <1>4, <2>2, <2>3, Zenon DEF LocalOK, Sends, Unsent, TryLabels, SuccessLabels, FailureLabels
  <2>6. Answers(g)'
    BY Zenon, <1>1, <1>2, <1>4, <2>1, <2>2, <2>3
    DEF LocalOK, Answers, Responding, Leaving, Unsent, TryLabels, SuccessLabels, FailureLabels
  <2> QED  BY <2>4, <2>5, <2>6 DEF LocalOK
<1>7. (\A h \in Goroutines : LocalOK(h))'
  BY <1>3, <1>6, Moved, Elsewhere, Zenon DEF Inv
<1>8. FrameTypes'
  BY <1>3, <1>5, Moved, Zenon DEF Inv, Types, FrameTypes
<1> QED  BY <1>3, <1>7, <1>8, Moved, Zenon DEF Inv, Types

LEMMA InvFailure ==
  ASSUME Inv, NEW g \in Goroutines, RecordFailure(g), UNCHANGED <<balancerVars, requestVars>>
  PROVE  Inv'
<1>1. pc[g] \in FailureLabels
  BY DEF RecordFailure, FailCount, FailState, FailProbe, FailUnhealthy, FailDeadline,
         FailOpen, FailReset, FailureLabels
<1>2. at[g] \in Upstreams /\ ret[g] = "release"
  BY <1>1 DEF Inv, LocalOK, Places, Aimed
<1>3. /\ FieldTypes' /\ seen' \in [Goroutines -> Int]
      /\ Moves(g, FailureLabels \cup {"release"})
  BY <1>2, FailureEffect DEF Inv, Types, FrameTypes
<1>4. FailureLabels \cup {"release"} \subseteq Labels
  BY Zenon DEF Labels, EngineLabels
<1>5. LocalOK(g)'
  <2>1. Bad(g)' = Bad(g)
    BY <1>3, Moved, Zenon DEF Inv, Bad, WillRetry
  <2>2. /\ pc'[g] \in FailureLabels \cup {"release"}
        /\ at'[g] = at[g] /\ ret'[g] = ret[g] /\ target'[g] = target[g] /\ kind'[g] = kind[g]
        /\ attempt'[g] = attempt[g] /\ sent'[g] = sent[g] /\ answered'[g] = answered[g]
    BY <1>3, Moved, Zenon DEF Inv
  <2>3. LocalOK(g)
    BY DEF Inv
  <2>4. Places(g)'
    BY Zenon, <1>1, <1>2, <2>2, <2>3
    DEF LocalOK, Places, Aimed, Free, Holding, TryLabels, SuccessLabels, FailureLabels
  <2>5. Sends(g)'
    BY <1>1, <1>2, <2>2, <2>3, Zenon DEF LocalOK, Sends, Unsent, TryLabels, SuccessLabels, FailureLabels
  <2>6. Answers(g)'
    BY Zenon, <1>1, <1>2, <2>1, <2>2, <2>3
    DEF LocalOK, Answers, Responding, Leaving, Unsent, TryLabels, SuccessLabels, FailureLabels
  <2> QED  BY <2>4, <2>5, <2>6 DEF LocalOK
<1>6. (\A h \in Goroutines : LocalOK(h))'
  BY <1>3, <1>5, Moved, Elsewhere, Zenon DEF Inv
<1> QED  BY <1>3, <1>4, <1>6, Moved, Zenon DEF Inv, Types
-----------------------------------------------------------------------------
(***************************************************************************)
(* The balancer.                                                           *)
(***************************************************************************)
LEMMA InvScan ==
  ASSUME Inv, NEW g \in Goroutines, UNCHANGED requestVars,
         ScanHealthy(g) \/ ScanState(g) \/ NoneEligible(g)
  PROVE  Inv'
<1>0. /\ pc \in [Goroutines -> Labels] /\ at \in [Goroutines -> 0..NumTargets]
      /\ UNCHANGED <<fields, ret, seen, balancerVars>>
  BY DEF Inv, Types, FrameTypes, ScanHealthy, ScanState, NoneEligible
<1>1. /\ pc[g] \in {"scan", "refused", "scanState"}
      /\ pc[g] = "scanState" => at[g] \in Upstreams
  BY DEF ScanHealthy, ScanState, NoneEligible, Inv, LocalOK, Places, Aimed
<1>2. PICK label \in {"scan", "scanState", "admitted", "try", "none"} :
        pc' = [pc EXCEPT ![g] = label]
  BY DEF ScanHealthy, ScanState, NoneEligible, Goto
<1>3. PICK i \in 0..NumTargets :
        at' = [at EXCEPT ![g] = i] /\ (pc'[g] \in Aimed => i \in Upstreams)
  <2>1. CASE ScanHealthy(g)
    <3>1. at[g] + 1 \in Upstreams
      BY <1>0, <2>1, Positions DEF ScanHealthy
    <3>2. at[g] + 1 \in 0..NumTargets
      BY <3>1, Positions
    <3>3. at' = [at EXCEPT ![g] = at[g] + 1]
      BY <2>1 DEF ScanHealthy
    <3> QED  BY <3>1, <3>2, <3>3, Zenon
  <2>2. CASE ScanState(g)
    BY <1>0, <1>1, <2>2, Zenon DEF ScanState
  <2>3. CASE NoneEligible(g)
    BY <1>0, <1>1, <2>3
    DEF NoneEligible, Goto, Aimed, TryLabels, SuccessLabels, FailureLabels
  <2> QED  BY <2>1, <2>2, <2>3
<1>4. FrameTypes'
  BY <1>0, <1>2, <1>3, Zenon DEF Inv, Types, FrameTypes, Labels, EngineLabels, TryLabels
<1>5. LocalOK(g)'
  BY Zenon, <1>0, <1>1, <1>2, <1>3
  DEF Inv, LocalOK, Places, Sends, Answers, Responding, Leaving, Free, Holding, Unsent,
      TryLabels, SuccessLabels, FailureLabels, balancerVars, requestVars
<1>6. \A h \in Goroutines \ {g} : Locals(h)' = Locals(h)
  BY <1>0, <1>2, <1>3, Zenon DEF Locals, balancerVars, requestVars
<1>7. FieldTypes' /\ BalancerTypes' /\ RequestTypes'
  BY <1>0, Zenon DEF Inv, Types, FieldTypes, BalancerTypes, RequestTypes, fields, balancerVars, requestVars
<1> QED  BY <1>4, <1>5, <1>6, <1>7, Elsewhere, Zenon DEF Inv, Types

LEMMA InvAdmit ==
  ASSUME Inv, NEW g \in Goroutines, UNCHANGED requestVars, Admit(g) \/ Compare(g)
  PROVE  Inv'
<1>0. /\ pc \in [Goroutines -> Labels] /\ seen \in [Goroutines -> Int]
      /\ eligible \in [Goroutines -> Seq(Upstreams)] /\ activeConns \in [Upstreams -> Int]
      /\ UNCHANGED <<fields, at, ret, activeConns, counter, target>>
  BY Zenon DEF Inv, Types, FrameTypes, BalancerTypes, Admit, Compare
<1>1. pc[g] \in {"admitted", "compare"} /\ at[g] \in Upstreams
  BY Zenon DEF Admit, Compare, Inv, LocalOK, Places, Aimed
<1>2. PICK label \in {"scan", "compare"} : pc' = [pc EXCEPT ![g] = label]
  BY DEF Admit, Compare, Goto
<1>3. seen' \in [Goroutines -> Int]
  BY <1>0, <1>1 DEF Admit, Compare
<1>4. eligible' \in [Goroutines -> Seq(Upstreams)]
  <2>1. Repeat(at[g]) \in Nat
    BY <1>1, BalancerConfig DEF Repeat
  <2>2. [i \in 1..Repeat(at[g]) |-> at[g]] \in Seq(Upstreams)
    BY <1>1, <2>1
  <2>3. eligible[g] \o [i \in 1..Repeat(at[g]) |-> at[g]] \in Seq(Upstreams)
    BY <1>0, <2>2, SMTT(20), Z3T(20)
  <2>4. <<at[g]>> \in Seq(Upstreams)
    BY <1>1
  <2>5. CASE Admit(g)
    <3>1. CASE UNCHANGED eligible
      BY <1>0, <3>1, ZenonT(60)
    <3>2. CASE eligible' = [eligible EXCEPT ![g] = @ \o [i \in 1..Repeat(at[g]) |-> at[g]]]
      BY <1>0, <2>3, <3>2
    <3> QED  BY <2>5, <3>1, <3>2, Zenon DEF Admit
  <2>6. CASE Compare(g)
    <3>1. PICK s \in {<<at[g]>>, eligible[g]} : eligible' = [eligible EXCEPT ![g] = s]
      BY <2>6, Zenon DEF Compare
    <3> QED  BY <1>0, <2>4, <3>1, Zenon
  <2> QED  BY <2>5, <2>6
<1>5. FrameTypes' /\ BalancerTypes'
  BY <1>0, <1>2, <1>3, <1>4, Zenon DEF Inv, Types, FrameTypes, BalancerTypes, Labels, EngineLabels
<1>6. LocalOK(g)'
  BY Zenon, <1>0, <1>1, <1>2
  DEF Inv, LocalOK, Places, Sends, Answers, Responding, Leaving, Aimed, Free, Holding, Unsent,
      TryLabels, SuccessLabels, FailureLabels, requestVars
<1>7. \A h \in Goroutines \ {g} : Locals(h)' = Locals(h)
  BY <1>0, <1>2, Zenon DEF Locals, requestVars
<1>8. FieldTypes' /\ RequestTypes'
  BY <1>0, ZenonT(60) DEF Inv, Types, FieldTypes, RequestTypes, fields, requestVars
<1> QED  BY <1>5, <1>6, <1>7, <1>8, Elsewhere, ZenonT(60) DEF Inv, Types

LEMMA InvPick ==
  ASSUME Inv, NEW g \in Goroutines, UNCHANGED requestVars, Pick(g)
  PROVE  Inv'
<1>0. /\ pc \in [Goroutines -> Labels] /\ counter \in Nat
      /\ eligible \in [Goroutines -> Seq(Upstreams)] /\ target \in [Goroutines -> 0..NumTargets]
      /\ UNCHANGED <<fields, at, ret, seen, activeConns>>
      /\ pc[g] \in {"scan", "refused"} /\ pc' = [pc EXCEPT ![g] = "acquire"]
  BY DEF Inv, Types, FrameTypes, BalancerTypes, Pick, Goto
<1>1. eligible[g] \in Seq(Upstreams) /\ eligible[g] # <<>>
  BY <1>0 DEF Pick
<1>2. counter' \in Nat
  <2>1. (counter + 1) % CounterPeriod \in Nat
    BY <1>0, BalancerConfig
  <2> QED  BY <1>0, <2>1 DEF Pick
<1>3. PICK u \in Upstreams : target' = [target EXCEPT ![g] = u]
  <2>1. Len(eligible[g]) \in Nat \ {0} /\ Head(eligible[g]) \in Upstreams
    BY <1>1
  <2>2. (counter' % Len(eligible[g])) + 1 \in 1..Len(eligible[g])
    BY <1>2, <2>1
  <2>3. eligible[g][(counter' % Len(eligible[g])) + 1] \in Upstreams
    BY <1>1, <2>2
  <2> QED  BY <2>1, <2>3 DEF Pick
<1>4. eligible' \in [Goroutines -> Seq(Upstreams)]
  <2>1. <<>> \in Seq(Upstreams)
    OBVIOUS
  <2> QED  BY <1>0, <2>1 DEF Pick
<1>5. FrameTypes'
  BY <1>0 DEF Inv, Types, FrameTypes, Labels, EngineLabels
<1>6. BalancerTypes'
  <2>1. u \in 0..NumTargets
    BY Positions
  <2>2. target' \in [Goroutines -> 0..NumTargets]
    BY <1>0, <1>3, <2>1, ZenonT(60)
  <2> QED  BY <1>0, <1>2, <1>4, <2>2, Zenon DEF Inv, Types, BalancerTypes
<1>7. LocalOK(g)'
  BY Zenon, <1>0, <1>3
  DEF Inv, LocalOK, Places, Sends, Answers, Responding, Leaving, Aimed, Free, Holding, Unsent,
      TryLabels, SuccessLabels, FailureLabels, requestVars
<1>8. \A h \in Goroutines \ {g} : Locals(h)' = Locals(h)
  BY <1>0, <1>3, Zenon DEF Locals, requestVars
<1>9. FieldTypes' /\ RequestTypes'
  BY <1>0, Zenon DEF Inv, Types, FieldTypes, RequestTypes, fields, requestVars
<1> QED  BY <1>5, <1>6, <1>7, <1>8, <1>9, Elsewhere, Zenon DEF Inv, Types

LEMMA InvAcquire ==
  ASSUME Inv, NEW g \in Goroutines, UNCHANGED requestVars, Acquire(g)
  PROVE  Inv'
<1>1. pc[g] = "acquire" /\ target[g] \in Upstreams
  BY Zenon DEF Inv, LocalOK, Places, Holding, Acquire
<1>2. /\ activeConns' = [activeConns EXCEPT ![target[g]] = @ + 1]
      /\ pc' = [pc EXCEPT ![g] = "forward"]
      /\ UNCHANGED <<fields, at, ret, seen, counter, eligible, target>>
  BY DEF Acquire, Goto
<1>3. FrameTypes' /\ BalancerTypes'
  BY <1>1, <1>2 DEF Inv, Types, FrameTypes, BalancerTypes, Labels, EngineLabels
<1>4. LocalOK(g)'
  BY Zenon, <1>1, <1>2
  DEF Inv, Types, FrameTypes, LocalOK, Places, Sends, Answers, Responding, Leaving, Aimed, Free,
      Holding, Unsent, TryLabels, SuccessLabels, FailureLabels, requestVars
<1>5. \A h \in Goroutines \ {g} : Locals(h)' = Locals(h)
  BY <1>2, ZenonT(60) DEF Inv, Types, FrameTypes, Locals, requestVars
<1>6. FieldTypes' /\ RequestTypes'
  BY <1>2 DEF Inv, Types, FieldTypes, RequestTypes, fields, requestVars
<1> QED  BY <1>3, <1>4, <1>5, <1>6, Elsewhere, ZenonT(60) DEF Inv, Types

LEMMA InvReleaseConn ==
  ASSUME Inv, NEW g \in Goroutines, UNCHANGED requestVars, ReleaseConn(g)
  PROVE  Inv'
<1>1. pc[g] = "release" /\ target[g] \in Upstreams /\ target[g] \in 0..NumTargets
  BY DEF Inv, Types, BalancerTypes, LocalOK, Places, Holding, ReleaseConn
<1>2. /\ activeConns' = [activeConns EXCEPT ![target[g]] = @ - 1]
      /\ at' = [at EXCEPT ![g] = target[g]]
      /\ target' = [target EXCEPT ![g] = NoTarget]
      /\ pc' = [pc EXCEPT ![g] = "releaseState"]
      /\ UNCHANGED <<fields, ret, seen, counter, eligible>>
  BY DEF ReleaseConn, Goto
<1>3. FrameTypes'
  BY <1>1, <1>2, ZenonT(60) DEF Inv, Types, FrameTypes, Labels, EngineLabels
<1>4. BalancerTypes'
  BY <1>1, <1>2, Positions DEF Inv, Types, BalancerTypes
<1>5. LocalOK(g)'
  <2>1. Bad(g)' = Bad(g)
    BY Zenon DEF Bad, WillRetry, requestVars
  <2> QED
    BY Zenon, <1>1, <1>2, <2>1
    DEF Inv, Types, FrameTypes, BalancerTypes, LocalOK, Places, Sends, Answers, Responding, Leaving,
        Aimed, Free, Holding, Unsent, TryLabels, SuccessLabels, FailureLabels, requestVars
<1>6. \A h \in Goroutines \ {g} : Locals(h)' = Locals(h)
  BY <1>2, ZenonT(60) DEF Inv, Types, FrameTypes, BalancerTypes, Locals, requestVars
<1>7. FieldTypes' /\ RequestTypes'
  BY <1>2 DEF Inv, Types, FieldTypes, RequestTypes, fields, requestVars
<1> QED  BY <1>3, <1>4, <1>5, <1>6, <1>7, Elsewhere, ZenonT(60) DEF Inv, Types

LEMMA InvReleaseState ==
  ASSUME Inv, NEW g \in Goroutines, UNCHANGED requestVars, ReleaseState(g)
  PROVE  Inv'
<1>1. pc[g] = "releaseState"
  BY DEF ReleaseState
<1>2. PICK label \in {"succ", "released"} : pc' = [pc EXCEPT ![g] = label]
  BY Zenon DEF ReleaseState, Goto
<1>3. ret' = [ret EXCEPT ![g] = "released"] /\ UNCHANGED <<fields, at, seen, balancerVars>>
  BY DEF ReleaseState
<1>4. FrameTypes'
  BY <1>1, <1>2, <1>3, Zenon DEF Inv, Types, FrameTypes, Labels, EngineLabels, SuccessLabels
<1>5. LocalOK(g)'
  <2>1. Bad(g)' = Bad(g)
    BY Zenon DEF Bad, WillRetry, requestVars
  <2> QED
    BY Zenon, <1>1, <1>2, <1>3, <2>1
    DEF Inv, Types, FrameTypes, LocalOK, Places, Sends, Answers, Responding, Leaving,
        Aimed, Free, Holding, Unsent, TryLabels, SuccessLabels, FailureLabels,
        balancerVars, requestVars
<1>6. \A h \in Goroutines \ {g} : Locals(h)' = Locals(h)
  BY <1>2, <1>3, Zenon DEF Inv, Types, FrameTypes, Locals, balancerVars, requestVars
<1>7. FieldTypes' /\ BalancerTypes' /\ RequestTypes'
  BY <1>3, ZenonT(60) DEF Inv, Types, FieldTypes, BalancerTypes, RequestTypes, fields, balancerVars, requestVars
<1> QED  BY <1>4, <1>5, <1>6, <1>7, Elsewhere, Zenon DEF Inv, Types
-----------------------------------------------------------------------------
(***************************************************************************)
(* ServeHTTP.                                                              *)
(***************************************************************************)
LEMMA InvArrive ==
  ASSUME Inv, NEW g \in Goroutines, Arrive(g)
  PROVE  Inv'
<1>1. PICK k \in AllKinds : kind' = [kind EXCEPT ![g] = k]
  BY EngineConfig, Zenon DEF Arrive
<1>2. /\ pc[g] = "idle"
      /\ answered' = [answered EXCEPT ![g] = 0]
      /\ pc' = [pc EXCEPT ![g] = "scan"]
      /\ at' = [at EXCEPT ![g] = 0]
      /\ UNCHANGED <<fields, ret, seen, balancerVars, attempt, outcome, sent, lost>>
  BY ZenonT(60) DEF Arrive, CallNext, Goto
<1>3. FrameTypes' /\ RequestTypes'
  BY <1>1, <1>2, Positions DEF Inv, Types, FrameTypes, RequestTypes, Labels, EngineLabels
<1>a. attempt[g] = 0 /\ sent[g] = 0
  BY <1>2, Zenon DEF Inv, LocalOK, Sends, Answers, Unsent
<1>4. LocalOK(g)'
  BY Zenon, <1>1, <1>2, <1>a
  DEF Inv, Types, FrameTypes, RequestTypes, LocalOK, Places, Sends, Answers, Responding, Leaving,
      Aimed, Free, Holding, Unsent, TryLabels, SuccessLabels, FailureLabels, balancerVars
<1>5. \A h \in Goroutines \ {g} : Locals(h)' = Locals(h)
  BY <1>1, <1>2, ZenonT(60) DEF Inv, Types, FrameTypes, RequestTypes, Locals, balancerVars
<1>6. FieldTypes' /\ BalancerTypes'
  BY <1>2 DEF Inv, Types, FieldTypes, BalancerTypes, fields, balancerVars
<1> QED  BY <1>3, <1>4, <1>5, <1>6, Elsewhere, Zenon DEF Inv, Types

LEMMA InvFinish ==
  ASSUME Inv, NEW g \in Goroutines, Finish(g), Answer(g) \/ UNCHANGED answered,
         BalancerTypes', lost' \in [Upstreams -> Nat], target'[g] = NoTarget,
         \A h \in Goroutines \ {g} : target'[h] = target[h]
  PROVE  Inv'
<1>1. PICK n \in Nat : answered' = [answered EXCEPT ![g] = n]
  BY DEF Inv, Types, RequestTypes, Answer
<1>2. FrameTypes' /\ RequestTypes'
  BY <1>1, Positions, EngineConfig, SMTT(20), Z3T(20)
  DEF Finish, Goto, Inv, Types, FrameTypes, RequestTypes, Labels, EngineLabels
<1>3. LocalOK(g)'
  BY <1>1, ZenonT(60)
  DEF Inv, Types, FrameTypes, RequestTypes, Finish, Goto, LocalOK, Places, Sends, Answers,
      Responding, Leaving, Aimed, Free, Holding, Unsent, TryLabels, SuccessLabels, FailureLabels
<1>4. \A h \in Goroutines \ {g} : Locals(h)' = Locals(h)
  BY <1>1 DEF Finish, Goto, Inv, Types, FrameTypes, RequestTypes, Locals
<1>5. FieldTypes'
  BY Zenon DEF Finish, Inv, Types, FieldTypes, fields
<1> QED  BY <1>2, <1>3, <1>4, <1>5, Elsewhere, Zenon DEF Inv, Types

LEMMA InvReturn ==
  ASSUME Inv, NEW g \in Goroutines, NoUpstream(g) \/ Return(g)
  PROVE  Inv'
<1>1. /\ pc[g] \in {"none", "released"} /\ Finish(g)
      /\ Answer(g) \/ UNCHANGED answered
      /\ UNCHANGED <<balancerVars, lost>>
  BY ZenonT(60) DEF NoUpstream, Return
<1>2. target[g] = NoTarget
  BY <1>1 DEF Inv, LocalOK, Places, Free
<1>3. BalancerTypes' /\ lost' \in [Upstreams -> Nat] /\ target' = target
  BY <1>1, ZenonT(60) DEF Inv, Types, BalancerTypes, RequestTypes, balancerVars
<1> QED  BY <1>1, <1>2, <1>3, InvFinish, ZenonT(60)

LEMMA InvPanic ==
  ASSUME Inv, NEW g \in Goroutines, RespondPanics(g)
  PROVE  Inv'
<1>1. /\ pc[g] = "respond" /\ Finish(g) /\ Answer(g)
      /\ lost' = [lost EXCEPT ![target[g]] = @ + 1]
      /\ target' = [target EXCEPT ![g] = NoTarget]
      /\ UNCHANGED <<activeConns, counter, eligible>>
  BY ZenonT(60) DEF RespondPanics
<1>2. target[g] \in Upstreams
  BY <1>1, Zenon DEF Inv, LocalOK, Places, Holding
<1>3. lost' \in [Upstreams -> Nat]
  BY <1>1, <1>2 DEF Inv, Types, RequestTypes
<1>4. BalancerTypes'
  BY <1>1, Positions, Zenon DEF Inv, Types, BalancerTypes
<1>5. target'[g] = NoTarget /\ \A h \in Goroutines \ {g} : target'[h] = target[h]
  BY <1>1, Zenon DEF Inv, Types, BalancerTypes
<1> QED  BY <1>1, <1>3, <1>4, <1>5, InvFinish, ZenonT(60)

LEMMA InvRetry ==
  ASSUME Inv, NEW g \in Goroutines, Retry(g)
  PROVE  Inv'
<1>1. /\ pc[g] = "released" /\ WillRetry(g, outcome[g])
      /\ attempt' = [attempt EXCEPT ![g] = @ + 1]
      /\ pc' = [pc EXCEPT ![g] = "scan"]
      /\ at' = [at EXCEPT ![g] = 0]
      /\ UNCHANGED <<fields, ret, seen, balancerVars, kind, outcome, sent, answered, lost>>
  BY DEF Retry, CallNext, Goto
<1>2. kind[g] = "safe" /\ attempt[g] + 1 \in 0..MaxRetries
  BY <1>1, EngineConfig, SMTT(20), Z3T(20) DEF Inv, Types, RequestTypes, WillRetry, shouldRetry
<1>3. FrameTypes' /\ RequestTypes'
  BY <1>1, <1>2, Positions DEF Inv, Types, FrameTypes, RequestTypes, Labels, EngineLabels
<1>4. LocalOK(g)'
  <2>1. Bad(g) /\ Leaving(g)
    BY <1>1 DEF Bad, Leaving
  <2> QED
    BY ZenonT(60), <1>1, <1>2, <2>1
    DEF Inv, Types, FrameTypes, RequestTypes, LocalOK, Places, Sends, Answers, Responding, Leaving,
        Aimed, Free, Holding, Unsent, TryLabels, SuccessLabels, FailureLabels, balancerVars
<1>5. \A h \in Goroutines \ {g} : Locals(h)' = Locals(h)
  BY <1>1, Zenon DEF Inv, Types, FrameTypes, RequestTypes, Locals, balancerVars
<1>6. FieldTypes' /\ BalancerTypes'
  BY <1>1, Zenon DEF Inv, Types, FieldTypes, BalancerTypes, fields, balancerVars
<1> QED  BY <1>3, <1>4, <1>5, <1>6, Elsewhere, Zenon DEF Inv, Types

LEMMA InvRespond ==
  ASSUME Inv, NEW g \in Goroutines, Respond(g)
  PROVE  Inv'
<1>1. /\ pc[g] = "respond"
      /\ answered' = [answered EXCEPT ![g] = @ + 1]
      /\ pc' = [pc EXCEPT ![g] = "release"]
      /\ UNCHANGED <<fields, at, ret, seen, balancerVars, kind, attempt, outcome, sent, lost>>
  BY ZenonT(60) DEF Respond, Answer, Goto
<1>2. FrameTypes' /\ RequestTypes'
  BY <1>1 DEF Inv, Types, FrameTypes, RequestTypes, Labels, EngineLabels
<1>3. LocalOK(g)'
  <2>1. answered[g] = 0 /\ ~Bad(g) /\ Bad(g)' = Bad(g)
    BY <1>1, ZenonT(60) DEF Inv, LocalOK, Answers, Responding, Bad, WillRetry
  <2>2. /\ pc'[g] = "release" /\ answered'[g] = 1 /\ target'[g] = target[g]
        /\ kind'[g] = kind[g] /\ attempt'[g] = attempt[g] /\ sent'[g] = sent[g]
    BY <1>1, <2>1 DEF Inv, Types, FrameTypes, RequestTypes, balancerVars
  <2>3. LocalOK(g)
    BY Zenon DEF Inv
  <2>4. Places(g)'
    BY Zenon, <1>1, <2>2, <2>3
    DEF LocalOK, Places, Aimed, Free, Holding, TryLabels, SuccessLabels, FailureLabels
  <2>5. Sends(g)'
    BY <1>1, <2>2, <2>3, Zenon DEF LocalOK, Sends, Unsent, TryLabels
  <2>6. Answers(g)'
    BY Zenon, <2>1, <2>2
    DEF Answers, Responding, Leaving, Unsent, TryLabels, SuccessLabels, FailureLabels
  <2> QED  BY <2>4, <2>5, <2>6, Zenon DEF LocalOK
<1>4. \A h \in Goroutines \ {g} : Locals(h)' = Locals(h)
  BY <1>1, ZenonT(60) DEF Inv, Types, FrameTypes, RequestTypes, Locals, balancerVars
<1>5. FieldTypes' /\ BalancerTypes'
  BY <1>1 DEF Inv, Types, FieldTypes, BalancerTypes, fields, balancerVars
<1> QED  BY <1>2, <1>3, <1>4, <1>5, Elsewhere, ZenonT(60) DEF Inv, Types

LEMMA InvUpgrade ==
  ASSUME Inv, NEW g \in Goroutines, Upgrade(g)
  PROVE  Inv'
<1>1. PICK o \in Tunnels :
        /\ outcome' = [outcome EXCEPT ![g] = o]
        /\ Record(g, IF o = "upgradeFailed" THEN "fail" ELSE "succ", "release")
  BY Zenon DEF Upgrade
<1>2. PICK label \in {"fail", "succ"} : pc' = [pc EXCEPT ![g] = label]
  BY <1>1, ZenonT(60) DEF Record, Goto
<1>3. /\ pc[g] = "forward" /\ kind[g] = "upgrade"
      /\ sent' = [sent EXCEPT ![g] = @ + 1]
      /\ at' = [at EXCEPT ![g] = target[g]]
      /\ ret' = [ret EXCEPT ![g] = "release"]
      /\ UNCHANGED <<fields, seen, balancerVars, kind, attempt, answered, lost>>
  BY <1>1 DEF Upgrade, Record
<1>4. target[g] \in Upstreams /\ target[g] \in 0..NumTargets
  BY <1>3, Zenon DEF Inv, Types, BalancerTypes, LocalOK, Places, Holding
<1>5. FrameTypes' /\ RequestTypes'
  BY <1>1, <1>2, <1>3, <1>4
  DEF Inv, Types, FrameTypes, RequestTypes, Labels, EngineLabels, SuccessLabels, FailureLabels
<1>6. LocalOK(g)'
  BY Zenon, <1>1, <1>2, <1>3, <1>4
  DEF Inv, Types, FrameTypes, RequestTypes, LocalOK, Places, Sends, Answers, Responding, Leaving,
      Aimed, Free, Holding, Unsent, TryLabels, SuccessLabels, FailureLabels, balancerVars
<1>7. \A h \in Goroutines \ {g} : Locals(h)' = Locals(h)
  BY <1>1, <1>2, <1>3, Zenon DEF Inv, Types, FrameTypes, RequestTypes, Locals, balancerVars
<1>8. FieldTypes' /\ BalancerTypes'
  BY <1>3, Zenon DEF Inv, Types, FieldTypes, BalancerTypes, fields, balancerVars
<1> QED  BY <1>5, <1>6, <1>7, <1>8, Elsewhere, Zenon DEF Inv, Types

\* The three ways on from a round trip.
LEMMA Forwarded ==
  ASSUME NEW g \in Goroutines, LocalOK(g), pc[g] = "forward", kind[g] # "upgrade",
         target[g] \in Upstreams, attempt[g] \in Nat, sent[g] \in Nat,
         target'[g] = target[g], kind'[g] = kind[g], attempt'[g] = attempt[g],
         sent'[g] = sent[g] + 1,
         \/ pc'[g] = "release" /\ answered'[g] = 1 /\ ~Bad(g)'
         \/ /\ pc'[g] = "fail" /\ at'[g] = target[g] /\ ret'[g] = "release"
            /\ answered'[g] = 0 /\ Bad(g)'
         \/ /\ pc'[g] = "succ" /\ at'[g] = target[g] /\ ret'[g] = "respond"
            /\ answered'[g] = 0 /\ ~Bad(g)'
  PROVE  LocalOK(g)'
<1>1. Places(g)'
  BY Zenon DEF Places, Aimed, Free, Holding, TryLabels, SuccessLabels, FailureLabels
<1>2. Sends(g)'
  BY Zenon DEF LocalOK, Sends, Unsent, TryLabels
<1>3. Answers(g)'
  BY Zenon DEF Answers, Responding, Leaving, Unsent, TryLabels, SuccessLabels, FailureLabels
<1> QED  BY <1>1, <1>2, <1>3, Zenon DEF LocalOK

LEMMA InvForward ==
  ASSUME Inv, NEW g \in Goroutines, Forward(g)
  PROVE  Inv'
<1>0. /\ pc[g] = "forward" /\ kind[g] # "upgrade"
      /\ sent' = [sent EXCEPT ![g] = @ + 1]
      /\ UNCHANGED <<fields, seen, balancerVars, kind, attempt, lost>>
  BY Zenon DEF Forward
<1>1. target[g] \in Upstreams /\ target[g] \in 0..NumTargets /\ answered[g] = 0
  BY <1>0, Zenon DEF Inv, Types, BalancerTypes, LocalOK, Places, Answers, Holding, Unsent
<1>2. PICK o \in RoundTrips :
        /\ outcome' = [outcome EXCEPT ![g] = o]
        /\ \/ /\ o = "tooLarge" /\ Answer(g) /\ Goto(g, "release") /\ UNCHANGED <<at, ret>>
           \/ /\ o \in Errors \/ WillRetry(g, o)
              /\ Record(g, "fail", "release") /\ UNCHANGED answered
           \/ /\ o \in Responses /\ ~WillRetry(g, o)
              /\ Record(g, "succ", "respond") /\ UNCHANGED answered
  BY Zenon DEF Forward
<1>3. outcome'[g] = o /\ (Bad(g)' <=> o \in Errors \/ WillRetry(g, o))
  BY <1>0, <1>2 DEF Inv, Types, RequestTypes, Bad, WillRetry
<1>4. ~("tooLarge" \in Errors) /\ ~WillRetry(g, "tooLarge")
      /\ \A r \in Responses : r \notin Errors
  BY Zenon DEF Errors, Responses, WillRetry, shouldRetry
<1>5. FrameTypes' /\ RequestTypes'
  BY <1>0, <1>1, <1>2
  DEF Inv, Types, FrameTypes, RequestTypes, Labels, EngineLabels, SuccessLabels, FailureLabels,
      Answer, Record, Goto
<1>6. LocalOK(g)'
  <2>a. /\ LocalOK(g) /\ sent \in [Goroutines -> Nat] /\ answered \in [Goroutines -> Nat]
        /\ attempt[g] \in 0..MaxRetries /\ pc \in [Goroutines -> Labels]
    BY DEF Inv, Types, FrameTypes, RequestTypes
  <2>b. target' = target /\ kind' = kind /\ attempt' = attempt
    BY <1>0, Zenon DEF balancerVars
  <2>0. /\ LocalOK(g) /\ attempt[g] \in Nat /\ sent[g] \in Nat
        /\ target'[g] = target[g] /\ kind'[g] = kind[g] /\ attempt'[g] = attempt[g]
        /\ sent'[g] = sent[g] + 1
    <3>1. attempt[g] \in Nat
      BY <2>a, EngineConfig, SMTT(30), Z3T(20)
    <3>2. sent[g] \in Nat /\ sent'[g] = sent[g] + 1
      BY <1>0, <2>a, Zenon
    <3> QED  BY <2>a, <2>b, <3>1, <3>2, Zenon
  <2>1. CASE o = "tooLarge" /\ Answer(g) /\ Goto(g, "release") /\ UNCHANGED <<at, ret>>
    <3>a. ~Bad(g)'
      BY <1>3, <1>4, <2>1, Zenon
    <3>1. pc'[g] = "release" /\ answered'[g] = 1 /\ ~Bad(g)'
      <4>1. pc'[g] = "release" /\ answered'[g] = 0 + 1
        BY <1>1, <2>1, <2>a, Zenon DEF Answer, Goto
      <4> QED  BY <3>a, <4>1, SMTT(30), Z3T(20)
    <3> QED  BY <1>0, <1>1, <2>0, <3>1, Forwarded, Zenon
  <2>2. CASE (o \in Errors \/ WillRetry(g, o)) /\ Record(g, "fail", "release") /\ UNCHANGED answered
    <3>1. /\ pc'[g] = "fail" /\ at'[g] = target[g] /\ ret'[g] = "release"
          /\ answered'[g] = 0 /\ Bad(g)'
      BY <1>1, <1>3, <2>2, Zenon DEF Inv, Types, FrameTypes, Record, Goto
    <3> QED  BY <1>0, <1>1, <2>0, <3>1, Forwarded, Zenon
  <2>3. CASE o \in Responses /\ ~WillRetry(g, o) /\ Record(g, "succ", "respond") /\ UNCHANGED answered
    <3>1. /\ pc'[g] = "succ" /\ at'[g] = target[g] /\ ret'[g] = "respond"
          /\ answered'[g] = 0 /\ ~Bad(g)'
      BY <1>1, <1>3, <1>4, <2>3, Zenon DEF Inv, Types, FrameTypes, Record, Goto
    <3> QED  BY <1>0, <1>1, <2>0, <3>1, Forwarded, Zenon
  <2> QED  BY <1>2, <2>1, <2>2, <2>3, Zenon
<1>7. \A h \in Goroutines \ {g} : Locals(h)' = Locals(h)
  BY ZenonT(60), <1>0, <1>2
  DEF Inv, Types, FrameTypes, RequestTypes, Locals, balancerVars, Answer, Record, Goto
<1>8. FieldTypes' /\ BalancerTypes'
  BY <1>0, Zenon DEF Inv, Types, FieldTypes, BalancerTypes, fields, balancerVars
<1> QED  BY <1>5, <1>6, <1>7, <1>8, Elsewhere, ZenonT(60) DEF Inv, Types
-----------------------------------------------------------------------------
\* A step that leaves requests and balancer alone.
LEMMA InvIdle ==
  ASSUME Inv, FieldTypes', UNCHANGED <<frame, balancerVars, requestVars>>
  PROVE  Inv'
<1>1. FrameTypes' /\ BalancerTypes' /\ RequestTypes'
  BY Zenon DEF Inv, Types, FrameTypes, BalancerTypes, RequestTypes, frame, balancerVars, requestVars
<1>2. ASSUME NEW g \in Goroutines PROVE LocalOK(g)'
  <2>1. LocalOK(g)
    BY DEF Inv
  <2> QED  BY <2>1, Same, Zenon DEF frame, balancerVars, requestVars
<1> QED  BY <1>1, <1>2, Zenon DEF Inv, Types

LEMMA InvNext == Inv /\ [Next]_vars => Inv'
<1> SUFFICES ASSUME Inv, [Next]_vars PROVE Inv'
  OBVIOUS
<1>1. ASSUME NEW g \in Goroutines, Serve(g) PROVE Inv'
  <2>1. CASE NextTarget(g) /\ UNCHANGED requestVars
    BY <2>1, InvScan, InvAdmit, InvPick, InvAcquire, InvTry, Zenon DEF NextTarget
  <2>2. CASE Release(g) /\ UNCHANGED requestVars
    BY <2>2, InvReleaseConn, InvReleaseState, ZenonT(60) DEF Release
  <2>3. CASE BreakerStep(g)
    BY <2>3, InvSuccess, InvFailure, ZenonT(60) DEF BreakerStep
  <2> QED
    BY <1>1, <2>1, <2>2, <2>3, InvReturn, InvForward, InvUpgrade, InvRespond, InvPanic, InvRetry,
       ZenonT(60) DEF Serve
<1>2. CASE Environment
  <2>1. FieldTypes' /\ UNCHANGED <<frame, balancerVars, requestVars>>
    BY <1>2, EnvironmentEffect DEF Inv, Types
  <2> QED  BY <2>1, InvIdle
<1>3. CASE UNCHANGED vars
  <2>1. FieldTypes'
    BY <1>3 DEF Inv, Types, FieldTypes, vars, fields
  <2> QED  BY <1>3, <2>1, InvIdle, Zenon DEF vars
<1> QED  BY <1>1, <1>2, <1>3, InvArrive, ZenonT(60) DEF Next

LEMMA Invariance == Spec => []Inv
BY InvInit, InvNext, PTL DEF Spec

\* The state of engine.go, the balancers and the breakers is always well typed:
\* no balancer is left holding a target that is not one, and no request makes
\* more than max_retries further attempts (engine.go:87).
THEOREM TypeCorrect == Spec => []TypeOK
<1>1. Inv => TypeOK
  BY TypesAreTypeOK, Zenon DEF Inv
<1> QED  BY <1>1, Invariance, PTL

\* However the requests overlap, a request that is not replay-safe is sent once,
\* and any other at most max_retries times more (engine.go:87, 115, 133).
THEOREM SendsBounded == Spec => []SentAtMost
<1>1. Inv => SentAtMost
  BY EngineConfig DEF Inv, Types, RequestTypes, LocalOK, Sends, SentAtMost
<1> QED  BY <1>1, Invariance, PTL

LEMMA AnswerStep ==
  ASSUME Inv, [Next]_vars, NEW g \in Goroutines,
         pc[g] # "idle", pc'[g] = "idle", kind[g] # "upgrade"
  PROVE  answered'[g] = 1
<1>1. /\ pc \in [Goroutines -> Labels] /\ answered \in [Goroutines -> Nat]
      /\ ret[g] \in {"release", "respond", "released"}
      /\ LocalOK(g)
  BY Zenon DEF Inv, Types, FrameTypes, RequestTypes
<1>2. ASSUME NEW h \in Goroutines, Arrive(h) \/ Serve(h) PROVE h = g
  <2> SUFFICES ASSUME h # g PROVE FALSE
    BY Zenon
  <2>1. PICK label : pc' = [pc EXCEPT ![h] = label]
    BY Zenon, <1>2
    DEF Arrive, CallNext, Serve, NextTarget, Release, BreakerStep, TryHalfOpen, RecordSuccess,
        RecordFailure, TryState, TryTimer, TrySwap, TryReset, TryLoad, TryTake, SuccState,
        SuccProbe, SuccClose, SuccHealthy, SuccReset, FailCount, FailState, FailProbe, FailBranch,
        FailUnhealthy, FailDeadline, FailOpen, FailReset, ScanHealthy, ScanState, Admit, Compare,
        NoneEligible, Pick, Acquire, ReleaseConn, ReleaseState, NoUpstream, Forward, Upgrade,
        Respond, RespondPanics, Retry, Return, Finish, Record, Goto
  <2> QED  BY <1>1, <2>1, Zenon
<1>3. CASE NoUpstream(g)
  <2>1. answered[g] = 0
    BY <1>1, <1>3, Zenon DEF NoUpstream, LocalOK, Answers, Unsent
  <2> QED  BY <1>1, <1>3, <2>1 DEF NoUpstream, Answer
<1>4. CASE Return(g)
  <2>1. answered[g] = IF Bad(g) THEN 0 ELSE 1
    BY <1>1, <1>4, Zenon DEF Return, LocalOK, Answers, Leaving
  <2>2. ~WillRetry(g, outcome[g])
    BY <1>4, Zenon DEF Return
  <2>3. CASE outcome[g] \in Errors
    <3>1. answered[g] = 0 /\ Answer(g)
      BY <1>4, <2>1, <2>3, Zenon DEF Return, Bad
    <3> QED  BY <1>1, <3>1 DEF Answer
  <2>4. CASE outcome[g] \notin Errors
    <3>1. answered[g] = 1 /\ UNCHANGED answered
      BY <1>4, <2>1, <2>2, <2>4, Zenon DEF Return, Bad
    <3> QED  BY <3>1, Zenon
  <2> QED  BY <2>3, <2>4, Zenon
<1>5. CASE NextTarget(g)
  <2>1. CASE TryHalfOpen(g)
    <3>1. pc[g] \in TryLabels
      BY <2>1, Zenon DEF TryHalfOpen, TryState, TryTimer, TrySwap, TryReset, TryLoad, TryTake, TryLabels
    <3>2. at[g] \in Upstreams
      BY <1>1, <3>1, Zenon DEF LocalOK, Places, Aimed
    <3>3. Moves(g, TryLabels \cup {"admitted", "refused"})
      BY <2>1, <3>2, TryEffect, Zenon DEF Inv, Types, FrameTypes
    <3> QED  BY <1>1, <3>3, Zenon DEF Moves, TryLabels
  <2>2. CASE ~TryHalfOpen(g)
    BY Zenon, <1>1, <1>5, <2>2
    DEF NextTarget, ScanHealthy, ScanState, Admit, Compare, NoneEligible, Pick, Acquire, Goto
  <2> QED  BY <2>1, <2>2, Zenon
<1>6. CASE Release(g)
  BY <1>1, <1>6, Zenon DEF Release, ReleaseConn, ReleaseState, Goto
<1>7. CASE BreakerStep(g)
  <2>1. pc[g] \in SuccessLabels \cup FailureLabels
    BY Zenon, <1>7
    DEF BreakerStep, RecordSuccess, SuccState, SuccProbe, SuccClose, SuccHealthy, SuccReset,
        RecordFailure, FailCount, FailState, FailProbe, FailUnhealthy, FailDeadline, FailOpen,
        FailReset, SuccessLabels, FailureLabels
  <2>2. at[g] \in Upstreams /\ ret[g] # "idle"
    BY <1>1, <2>1, Zenon DEF LocalOK, Places, Aimed
  <2>3. Moves(g, SuccessLabels \cup {ret[g]}) \/ Moves(g, FailureLabels \cup {ret[g]})
    BY <1>7, <2>2, SuccessEffect, FailureEffect, Zenon DEF BreakerStep, Inv, Types, FrameTypes
  <2> QED  BY <1>1, <2>2, <2>3, Zenon DEF Moves, SuccessLabels, FailureLabels
<1>8. CASE Forward(g) \/ Upgrade(g) \/ Respond(g) \/ Retry(g) \/ Arrive(g)
  BY <1>1, <1>8, Zenon DEF Forward, Upgrade, Respond, Retry, Arrive, CallNext, Record, Goto
<1>9. CASE RespondPanics(g)
  <2>1. answered[g] = 0
    BY <1>1, <1>9, Zenon DEF RespondPanics, LocalOK, Answers, Responding
  <2> QED  BY <1>1, <1>9, <2>1 DEF RespondPanics, Answer
<1>10. CASE Environment \/ UNCHANGED vars
  BY <1>10, EnvironmentEffect, Zenon DEF Inv, Types, frame, vars
<1> QED
  BY <1>2, <1>3, <1>4, <1>5, <1>6, <1>7, <1>8, <1>9, <1>10, ZenonT(60) DEF Next, Serve

\* Every path out of ServeHTTP (engine.go:45-180) has written exactly one
\* response, unless the request was a WebSocket upgrade.
THEOREM OneAnswer == Spec => AnsweredOnce
<1>1. Inv /\ [Next]_vars
        => [\A g \in Goroutines :
              pc[g] # "idle" /\ pc'[g] = "idle" /\ kind[g] # "upgrade" => answered'[g] = 1]_vars
  BY AnswerStep
<1> QED  BY <1>1, Invariance, PTL DEF Spec, AnsweredOnce
-----------------------------------------------------------------------------
(***************************************************************************)
(* ActiveConns.  A goroutine joins the holders of its target at Acquire    *)
(* and leaves them at ReleaseConn, or by a panic, which is counted as lost *)
(* instead; no other step changes who holds what.                          *)
(***************************************************************************)
LEMMA HoldersAre ==
  ASSUME Inv, NEW u \in Upstreams
  PROVE  Holders(u) = {g \in Goroutines : target[g] = u /\ pc[g] # "acquire"}
<1>1. ASSUME NEW g \in Goroutines, pc[g] = "idle" PROVE target[g] # u
  BY <1>1, Positions DEF Inv, LocalOK, Places, Free
<1> QED  BY <1>1, Zenon DEF Holders

LEMMA HoldersFinite ==
  ASSUME NEW u
  PROVE  IsFiniteSet(Holders(u)) /\ Cardinality(Holders(u)) \in Nat
<1>1. Holders(u) \subseteq Goroutines
  BY Zenon DEF Holders
<1> QED  BY <1>1, EngineConfig, FS_Subset, FS_CardinalityType, Zenon

Quiet(g) ==
  /\ UNCHANGED <<activeConns, target>>
  /\ pc[g] # "acquire"
  /\ \E label \in Labels \ {"acquire"} : pc' = [pc EXCEPT ![g] = label]

LEMMA QuietSteps ==
  ASSUME Inv, NEW g \in Goroutines, Arrive(g) \/ Serve(g)
  PROVE  Quiet(g) \/ Pick(g) \/ Acquire(g) \/ ReleaseConn(g) \/ RespondPanics(g)
<1> USE DEF Quiet, Goto, balancerVars, Labels, EngineLabels
<1>1. CASE ScanHealthy(g) \/ ScanState(g) \/ NoneEligible(g)
  BY <1>1, Zenon DEF ScanHealthy, ScanState, NoneEligible, TryLabels
<1>2. CASE Admit(g) \/ Compare(g)
  BY <1>2, Zenon DEF Admit, Compare
<1>3. CASE TryHalfOpen(g) /\ UNCHANGED balancerVars
  <2>1. pc[g] \in TryLabels
    BY <1>3, Zenon DEF TryHalfOpen, TryState, TryTimer, TrySwap, TryReset, TryLoad, TryTake, TryLabels
  <2>2. at[g] \in Upstreams
    BY <2>1, Zenon DEF Inv, LocalOK, Places, Aimed
  <2>3. Moves(g, TryLabels \cup {"admitted", "refused"})
    BY <1>3, <2>2, TryEffect, Zenon DEF Inv, Types, FrameTypes
  <2> QED  BY <1>3, <2>1, <2>3, Zenon DEF Moves, TryLabels
<1>4. CASE BreakerStep(g)
  <2>1. pc[g] \in SuccessLabels \cup FailureLabels
    BY Zenon, <1>4
    DEF BreakerStep, RecordSuccess, SuccState, SuccProbe, SuccClose, SuccHealthy, SuccReset,
        RecordFailure, FailCount, FailState, FailProbe, FailUnhealthy, FailDeadline, FailOpen,
        FailReset, SuccessLabels, FailureLabels
  <2>2. at[g] \in Upstreams /\ ret[g] \in {"release", "respond", "released"}
    BY <2>1, Zenon DEF Inv, Types, FrameTypes, LocalOK, Places, Aimed
  <2>3. Moves(g, SuccessLabels \cup {ret[g]}) \/ Moves(g, FailureLabels \cup {ret[g]})
    BY <1>4, <2>2, SuccessEffect, FailureEffect, Zenon DEF BreakerStep, Inv, Types, FrameTypes
  <2> QED  BY <1>4, <2>1, <2>2, <2>3, Zenon DEF BreakerStep, Moves, SuccessLabels, FailureLabels
<1>5. CASE ReleaseState(g)
  BY <1>5, Zenon DEF ReleaseState, SuccessLabels
<1>6. CASE NoUpstream(g) \/ Return(g)
  BY <1>6, Zenon DEF NoUpstream, Return, Finish
<1>7. CASE Forward(g) \/ Upgrade(g)
  BY <1>7, Zenon DEF Forward, Upgrade, Record, SuccessLabels, FailureLabels
<1>8. CASE Respond(g) \/ Retry(g) \/ Arrive(g)
  BY <1>8, Zenon DEF Respond, Retry, Arrive, CallNext
<1> QED
  BY <1>1, <1>2, <1>3, <1>4, <1>5, <1>6, <1>7, <1>8, ZenonT(60) DEF Serve, NextTarget, Release

LEMMA LostOnlyByPanic ==
  ASSUME NEW g \in Goroutines, Arrive(g) \/ Serve(g), ~RespondPanics(g)
  PROVE  lost' = lost
BY ZenonT(60) DEF Arrive, Serve, BreakerStep, NoUpstream, Forward, Upgrade, Respond, Retry, Return,
                requestVars

LEMMA Drift ==
  ASSUME NEW n \in Nat, NEW l \in Nat
  PROVE  /\ (n + l) + 1 = (n + 1) + l
         /\ (n + l) - 1 = (n - 1) + l
         /\ n + l = (n - 1) + (l + 1)
OBVIOUS

LEMMA ConnsNext ==
  ASSUME Inv, Inv', ConnsMatchHolders, [Next]_vars
  PROVE  ConnsMatchHolders'
<1> SUFFICES ASSUME NEW u \in Upstreams
             PROVE  activeConns'[u] = Cardinality(Holders(u)') + lost'[u]
  BY DEF ConnsMatchHolders
<1>1. /\ Holders(u) = {h \in Goroutines : target[h] = u /\ pc[h] # "acquire"}
      /\ Holders(u)' = {h \in Goroutines : target'[h] = u /\ pc'[h] # "acquire"}
  <2>1. Holders(u) = {h \in Goroutines : target[h] = u /\ pc[h] # "acquire"}
    BY HoldersAre, Zenon
  <2>2. ASSUME NEW h \in Goroutines, pc'[h] = "idle" PROVE target'[h] # u
    BY <2>2, Positions, ZenonT(60) DEF Inv, LocalOK, Places, Free
  <2> QED  BY <2>1, <2>2 DEF Holders
<1>2. /\ activeConns[u] = Cardinality(Holders(u)) + lost[u]
      /\ activeConns \in [Upstreams -> Int] /\ lost \in [Upstreams -> Nat]
      /\ Cardinality(Holders(u)) \in Nat /\ lost[u] \in Nat
  BY HoldersFinite, ZenonT(60) DEF ConnsMatchHolders, Inv, Types, BalancerTypes, RequestTypes
<1>3. pc \in [Goroutines -> Labels] /\ target \in [Goroutines -> 0..NumTargets]
  BY DEF Inv, Types, FrameTypes, BalancerTypes
\* A step that changes neither count.
<1>4. ASSUME Holders(u)' = Holders(u), activeConns'[u] = activeConns[u], lost'[u] = lost[u]
      PROVE  activeConns'[u] = Cardinality(Holders(u)') + lost'[u]
  BY <1>2, <1>4, Zenon
<1>5. ASSUME NEW g \in Goroutines, Quiet(g), lost' = lost
      PROVE  activeConns'[u] = Cardinality(Holders(u)') + lost'[u]
  <2>1. Holders(u)' = Holders(u)
    BY <1>1, <1>3, <1>5, ZenonT(60) DEF Quiet
  <2> QED  BY <1>4, <1>5, <2>1, Zenon DEF Quiet
<1>6. ASSUME NEW g \in Goroutines, Pick(g), lost' = lost
      PROVE  activeConns'[u] = Cardinality(Holders(u)') + lost'[u]
  <2>1. target[g] = NoTarget /\ pc' = [pc EXCEPT ![g] = "acquire"] /\ activeConns' = activeConns
    BY <1>6, Zenon DEF Pick, Goto, Inv, LocalOK, Places, Free
  <2>2. \A h \in Goroutines \ {g} : target'[h] = target[h]
    BY <1>3, <1>6, Zenon DEF Pick
  <2>3. Holders(u)' = Holders(u)
    BY <1>1, <1>3, <2>1, <2>2, Positions, Zenon
  <2> QED  BY <1>4, <1>6, <2>1, <2>3, Zenon
<1>7. ASSUME NEW g \in Goroutines, Acquire(g), lost' = lost
      PROVE  activeConns'[u] = Cardinality(Holders(u)') + lost'[u]
  <2>1. /\ target' = target /\ pc[g] = "acquire" /\ pc' = [pc EXCEPT ![g] = "forward"]
        /\ activeConns' = [activeConns EXCEPT ![target[g]] = @ + 1]
    BY <1>7, Zenon DEF Acquire, Goto
  <2>2. CASE target[g] = u
    <3>1. g \notin Holders(u) /\ Holders(u)' = Holders(u) \cup {g}
      BY <1>1, <1>3, <2>1, <2>2, Zenon
    <3>2. Cardinality(Holders(u) \cup {g}) = Cardinality(Holders(u)) + 1
      BY <3>1, HoldersFinite, FS_AddElement, Zenon
    <3>3. activeConns'[u] = (Cardinality(Holders(u)) + lost[u]) + 1
      BY <1>2, <2>1, <2>2, ZenonT(60)
    <3> QED  BY <1>2, <1>7, <3>1, <3>2, <3>3, Drift, ZenonT(60)
  <2>3. CASE target[g] # u
    <3>1. Holders(u)' = Holders(u) /\ activeConns'[u] = activeConns[u]
      BY <1>1, <1>2, <1>3, <2>1, <2>3, ZenonT(60)
    <3> QED  BY <1>4, <1>7, <3>1, ZenonT(60)
  <2> QED  BY <2>2, <2>3, Zenon
<1>8. ASSUME NEW g \in Goroutines, ReleaseConn(g), lost' = lost
      PROVE  activeConns'[u] = Cardinality(Holders(u)') + lost'[u]
  <2>1. /\ target' = [target EXCEPT ![g] = NoTarget]
        /\ pc[g] = "release" /\ pc' = [pc EXCEPT ![g] = "releaseState"]
        /\ activeConns' = [activeConns EXCEPT ![target[g]] = @ - 1]
    BY <1>8, Zenon DEF ReleaseConn, Goto
  <2>2. CASE target[g] = u
    <3>1. g \in Holders(u) /\ Holders(u)' = Holders(u) \ {g}
      BY <1>1, <1>3, <2>1, <2>2, Positions, Zenon
    <3>2. Cardinality(Holders(u) \ {g}) = Cardinality(Holders(u)) - 1
      BY <3>1, HoldersFinite, FS_RemoveElement, Zenon
    <3>3. activeConns'[u] = (Cardinality(Holders(u)) + lost[u]) - 1
      BY <1>2, <2>1, <2>2, ZenonT(60)
    <3> QED  BY <1>2, <1>8, <3>1, <3>2, <3>3, Drift, ZenonT(60)
  <2>3. CASE target[g] # u
    <3>1. Holders(u)' = Holders(u) /\ activeConns'[u] = activeConns[u]
      BY <1>1, <1>2, <1>3, <2>1, <2>3, Positions, ZenonT(60)
    <3> QED  BY <1>4, <1>8, <3>1, ZenonT(60)
  <2> QED  BY <2>2, <2>3, ZenonT(60)
<1>9. ASSUME NEW g \in Goroutines, RespondPanics(g)
      PROVE  activeConns'[u] = Cardinality(Holders(u)') + lost'[u]
  <2>1. /\ target' = [target EXCEPT ![g] = NoTarget]
        /\ pc[g] = "respond" /\ pc' = [pc EXCEPT ![g] = "idle"]
        /\ activeConns' = activeConns /\ lost' = [lost EXCEPT ![target[g]] = @ + 1]
    BY <1>9, Zenon DEF RespondPanics, Finish, Goto
  <2>2. CASE target[g] = u
    <3>1. g \in Holders(u) /\ Holders(u)' = Holders(u) \ {g}
      BY <1>1, <1>3, <2>1, <2>2, Positions, Zenon
    <3>2. Cardinality(Holders(u) \ {g}) = Cardinality(Holders(u)) - 1
      BY <3>1, HoldersFinite, FS_RemoveElement, Zenon
    <3>3. lost'[u] = lost[u] + 1
      BY <1>2, <2>1, <2>2, ZenonT(60)
    <3> QED  BY <1>2, <2>1, <3>1, <3>2, <3>3, Drift, ZenonT(60)
  <2>3. CASE target[g] # u
    <3>1. Holders(u)' = Holders(u) /\ lost'[u] = lost[u]
      BY <1>1, <1>2, <1>3, <2>1, <2>3, Positions, ZenonT(60)
    <3> QED  BY <1>4, <2>1, <3>1, ZenonT(60)
  <2> QED  BY <2>2, <2>3, ZenonT(60)
<1>10. CASE Environment \/ UNCHANGED vars
  <2>1. pc' = pc /\ target' = target /\ activeConns' = activeConns /\ lost' = lost
    BY <1>10, ZenonT(60) DEF Environment, Tick, Check, vars, frame, balancerVars, requestVars
  <2> QED  BY <1>1, <1>2, <2>1, Zenon
<1> QED
  BY <1>5, <1>6, <1>7, <1>8, <1>9, <1>10, QuietSteps, LostOnlyByPanic, ZenonT(60) DEF Next

\* However many requests are in flight on however many upstreams, ActiveConns of
\* each upstream is the number of requests it is serving, and of those whose
\* writeResponse has panicked: Next and Release of internal/lb are called in pairs
\* on every other path of engine.go:45-180.
THEOREM ConnsAccounted == Spec => []ConnsMatchHolders
<1>1. Init => ConnsMatchHolders
  <2> SUFFICES ASSUME Init, NEW u \in Upstreams
               PROVE  activeConns[u] = Cardinality(Holders(u)) + lost[u]
    BY DEF ConnsMatchHolders
  <2>1. Holders(u) = {}
    BY DEF Init, Holders
  <2>2. activeConns[u] = 0 /\ lost[u] = 0 /\ Cardinality(Holders(u)) = 0
    BY <2>1, FS_EmptySet, ZenonT(60) DEF Init, BalancerInit
  <2> QED  BY <2>2
<1>2. Inv /\ Inv' /\ ConnsMatchHolders /\ [Next]_vars => ConnsMatchHolders'
  BY ConnsNext, ZenonT(60)
<1> QED  BY <1>1, <1>2, Invariance, PTL DEF Spec
-----------------------------------------------------------------------------
(***************************************************************************)
(* NoWedge, for a route with one upstream.  It is inductive: a step that   *)
(* fills the last probe slot of a half-open circuit leaves its goroutine   *)
(* answerable for the upstream, and a goroutine stops being answerable     *)
(* only by emptying a slot or by finding or leaving the circuit in another *)
(* state.  That is where the one upstream is needed: a goroutine that was  *)
(* granted a probe of one of several may pick another.  A goroutine that   *)
(* may panic before it gets to Release has settled the circuit by then.    *)
(***************************************************************************)
\* The operations of a method of u by a goroutine that is answerable for u.
Settling == {"tryReset", "admitted", "releaseState", "succ", "succProbe", "succClose"}

Watches(g, u) ==
  \/ target[g] = u /\ pc[g] \notin Settled
  \/ \E i \in DOMAIN eligible[g] : eligible[g][i] = u
  \/ at[g] = u /\ pc[g] \in Settling

Full(u) == circuitState[u] = "halfOpen" /\ halfOpenInFlight[u] >= MaxProbes

\* g leaves the others alone, and leaves u full only if it watches u afterwards,
\* or u was full before and g did not watch it.
Minds(g, u) ==
  /\ \A h \in Goroutines \ {g} : /\ pc'[h] = pc[h] /\ at'[h] = at[h]
                                 /\ target'[h] = target[h] /\ eligible'[h] = eligible[h]
  /\ Full(u)' => Watches(g, u)' \/ (Full(u) /\ ~Watches(g, u))

\* TryHalfOpen (upstream.go).
LEMMA MindTry ==
  ASSUME Inv, NEW u, Upstreams = {u}, NEW g \in Goroutines, TryHalfOpen(g), UNCHANGED balancerVars
  PROVE  Minds(g, u)
<1>1. /\ pc[g] \in TryLabels
      /\ pc \in [Goroutines -> Labels] /\ UNCHANGED <<at, target, eligible>>
      /\ circuitState \in [Upstreams -> CircuitStates] /\ halfOpenInFlight \in [Upstreams -> Int]
      /\ seen \in [Goroutines -> Int]
  BY Zenon DEF TryHalfOpen, TryState, TryTimer, TrySwap, TryReset, TryLoad, TryTake, TryLabels,
               balancerVars, fields, Inv, Types, FrameTypes, FieldTypes
<1>2. at[g] = u
  BY <1>1, Zenon DEF Inv, LocalOK, Places, Aimed
<1>3. \E label : pc' = [pc EXCEPT ![g] = label]
  BY Zenon DEF TryHalfOpen, TryState, TryTimer, TrySwap, TryReset, TryLoad, TryTake, Goto
<1>4. \A h \in Goroutines \ {g} : /\ pc'[h] = pc[h] /\ at'[h] = at[h]
                                  /\ target'[h] = target[h] /\ eligible'[h] = eligible[h]
  BY <1>1, <1>3
<1>t. target[g] # u
  BY <1>1, Positions, Zenon DEF Inv, LocalOK, Places, Free
<1>5. Watches(g, u)' <=> pc'[g] \in Settling \/ \E i \in DOMAIN eligible[g] : eligible[g][i] = u
  BY <1>1, <1>2, <1>t, Zenon DEF Watches
<1>6. Watches(g, u) <=> pc[g] \in Settling \/ \E i \in DOMAIN eligible[g] : eligible[g][i] = u
  BY <1>2, <1>t, Zenon DEF Watches
<1>7. Full(u)' => Watches(g, u)' \/ (Full(u) /\ ~Watches(g, u))
  <2>1. CASE TryState(g) \/ TryTimer(g) \/ TryLoad(g)
    <3>1. UNCHANGED <<circuitState, halfOpenInFlight>> /\ pc[g] \notin Settling
      BY <2>1, ZenonT(60) DEF TryState, TryTimer, TryLoad, fields, Settling
    <3> QED BY <3>1, <1>5, <1>6, ZenonT(60) DEF Full
  <2>2. CASE TrySwap(g)
    <3>1. pc[g] = "trySwap" /\ UNCHANGED halfOpenInFlight
      BY <2>2, ZenonT(60) DEF TrySwap
    <3>2. CASE circuitState[at[g]] = "open"
      <4>1. pc'[g] = "tryReset"
        BY <1>1, <2>2, <3>2, ZenonT(60) DEF TrySwap, Goto
      <4> QED BY <4>1, <1>5, ZenonT(60) DEF Settling
    <3>3. CASE circuitState[at[g]] # "open"
      <4>1. UNCHANGED circuitState
        BY <2>2, <3>3, ZenonT(60) DEF TrySwap
      <4> QED BY <3>1, <4>1, <1>5, <1>6, ZenonT(60) DEF Full, Settling
    <3> QED BY <3>2, <3>3, ZenonT(60)
  <2>3. CASE TryReset(g)
    <3>1. halfOpenInFlight'[u] = 0
      BY <1>1, <1>2, <2>3, ZenonT(60) DEF TryReset
    <3> QED BY <3>1, PositiveSettings DEF Full
  <2>4. CASE TryTake(g)
    <3>1. CASE halfOpenInFlight[at[g]] = seen[g]
      <4>1. pc'[g] = "admitted"
        BY <1>1, <2>4, <3>1, ZenonT(60) DEF TryTake, Goto
      <4> QED BY <4>1, <1>5, ZenonT(60) DEF Settling
    <3>2. CASE halfOpenInFlight[at[g]] # seen[g]
      <4>1. pc[g] = "tryTake" /\ UNCHANGED <<circuitState, halfOpenInFlight>>
        BY <2>4, <3>2, ZenonT(60) DEF TryTake
      <4> QED BY <4>1, <1>5, <1>6, ZenonT(60) DEF Full, Settling
    <3> QED BY <3>1, <3>2, ZenonT(60)
  <2> QED BY <2>1, <2>2, <2>3, <2>4, Zenon DEF TryHalfOpen
<1> QED BY <1>4, <1>7 DEF Minds

\* RecordSuccess and RecordFailure.
LEMMA MindRecord ==
  ASSUME Inv, NEW u, Upstreams = {u}, NEW g \in Goroutines, BreakerStep(g)
  PROVE  Minds(g, u)
<1>1. /\ pc[g] \in SuccessLabels \cup FailureLabels
      /\ pc \in [Goroutines -> Labels] /\ UNCHANGED <<at, ret, target, eligible>>
      /\ circuitState \in [Upstreams -> CircuitStates] /\ halfOpenInFlight \in [Upstreams -> Int]
  BY Zenon DEF BreakerStep, RecordSuccess, SuccState, SuccProbe, SuccClose, SuccHealthy, SuccReset,
               RecordFailure, FailCount, FailState, FailProbe, FailUnhealthy, FailDeadline, FailOpen,
               FailReset, SuccessLabels, FailureLabels, balancerVars, fields, Inv, Types, FrameTypes, FieldTypes
<1>2. at[g] = u
  BY <1>1, Zenon DEF Inv, LocalOK, Places, Aimed
<1>3. \E label : pc' = [pc EXCEPT ![g] = label]
  BY Zenon DEF BreakerStep, RecordSuccess, SuccState, SuccProbe, SuccClose, SuccHealthy, SuccReset,
               RecordFailure, FailCount, FailState, FailProbe, FailUnhealthy, FailDeadline, FailOpen,
               FailReset, FailBranch, Goto
<1>4. \A h \in Goroutines \ {g} : /\ pc'[h] = pc[h] /\ at'[h] = at[h]
                                  /\ target'[h] = target[h] /\ eligible'[h] = eligible[h]
  BY <1>1, <1>3
<1>5. target[g] = u /\ pc'[g] \notin Settled => Watches(g, u)'
  BY <1>1, Zenon DEF Watches
<1>6. pc[g] \in Settled \ Settling
        => (Watches(g, u) <=> \E i \in DOMAIN eligible[g] : eligible[g][i] = u)
  BY Zenon DEF Watches
<1>7. /\ pc'[g] \in Settling => Watches(g, u)'
      /\ (\E i \in DOMAIN eligible[g] : eligible[g][i] = u) => Watches(g, u)'
  BY <1>1, <1>2, Zenon DEF Watches
<1>8. Full(u)' => Watches(g, u)' \/ (Full(u) /\ ~Watches(g, u))
  <2>1. CASE RecordFailure(g)
    <3>1. pc[g] \in FailureLabels
      BY <2>1, Zenon DEF RecordFailure, FailCount, FailState, FailProbe, FailUnhealthy, FailDeadline,
                         FailOpen, FailReset, FailureLabels
    <3>2. target[g] = u
      BY <3>1, Zenon DEF Inv, LocalOK, Places, Holding
    <3>3. ret[g] = "release"
      BY <3>1, Zenon DEF Inv, LocalOK, Places
    <3>4. pc'[g] \in FailureLabels \cup {"release"}
      BY <1>1, <2>1, <3>3, ZenonT(60)
      DEF RecordFailure, FailCount, FailState, FailProbe, FailBranch, FailUnhealthy, FailDeadline,
          FailOpen, FailReset, Goto, FailureLabels
    <3>5. pc'[g] \notin Settled
      BY <3>4, Zenon DEF FailureLabels, Settled
    <3> QED BY <3>2, <3>5, <1>5, ZenonT(60)
  <2>2. CASE SuccState(g)
    <3>1. CASE circuitState[u] = "halfOpen"
      <4>1. pc'[g] = "succProbe"
        BY <1>1, <1>2, <2>2, <3>1, ZenonT(60) DEF SuccState, Goto
      <4> QED BY <4>1, <1>7, ZenonT(60) DEF Settling
    <3>2. CASE circuitState[u] # "halfOpen"
      BY <2>2, <3>2, ZenonT(60) DEF SuccState, fields, Full
    <3> QED BY <3>1, <3>2, ZenonT(60)
  <2>3. CASE SuccProbe(g)
    <3>1. pc'[g] = "succClose"
      BY <1>1, <2>3, ZenonT(60) DEF SuccProbe, Goto
    <3> QED BY <3>1, <1>7, ZenonT(60) DEF Settling
  <2>4. CASE SuccClose(g)
    <3>1. circuitState'[u] = "closed"
      BY <1>1, <1>2, <2>4, ZenonT(60) DEF SuccClose
    <3> QED BY <3>1, ZenonT(60) DEF Full
  <2>5. CASE SuccHealthy(g) \/ SuccReset(g)
    <3>1. pc[g] \in Settled \ Settling /\ UNCHANGED <<circuitState, halfOpenInFlight>>
      BY <2>5, ZenonT(60) DEF SuccHealthy, SuccReset, Settling, Settled
    <3> QED BY <3>1, <1>6, <1>7, ZenonT(60) DEF Full
  <2> QED BY <2>1, <2>2, <2>3, <2>4, <2>5, Zenon DEF BreakerStep, RecordSuccess
<1> QED BY <1>4, <1>8, ZenonT(60) DEF Minds

\* A list of the one upstream.
LEMMA AllThatOne ==
  ASSUME NEW u, NEW s \in Seq({u}), s # <<>>
  PROVE  /\ Len(s) \in Nat \ {0} /\ Head(s) = u
         /\ \A i \in 1..Len(s) : s[i] = u
<1>1. Len(s) \in Nat \ {0}
  OBVIOUS
<1>2. \A i \in 1..Len(s) : s[i] \in {u}
  OBVIOUS
<1>3. Head(s) = s[1] /\ 1 \in 1..Len(s)
  BY <1>1
<1> QED BY <1>1, <1>2, <1>3, Zenon

\* The index of round robin.
LEMMA InBounds ==
  ASSUME NEW c \in Nat, NEW n \in Nat \ {0}
  PROVE  (c + 1) % n \in Nat /\ (c % n) + 1 \in 1..n
BY SMTT(20), Z3T(20)

\* The balancer's Next.
LEMMA MindNext ==
  ASSUME Inv, NEW u, Upstreams = {u}, NEW g \in Goroutines,
         ScanHealthy(g) \/ ScanState(g) \/ Admit(g) \/ Compare(g) \/ NoneEligible(g) \/ Pick(g) \/ Acquire(g)
  PROVE  Minds(g, u)
<1>1. /\ pc \in [Goroutines -> Labels] /\ at \in [Goroutines -> 0..NumTargets]
      /\ target \in [Goroutines -> 0..NumTargets]
      /\ eligible \in [Goroutines -> Seq(Upstreams)] /\ UNCHANGED <<circuitState, halfOpenInFlight>>
  BY Zenon DEF ScanHealthy, ScanState, Admit, Compare, NoneEligible, Pick, Acquire, fields,
               Inv, Types, FrameTypes, BalancerTypes
<1>2. /\ \E label : pc' = [pc EXCEPT ![g] = label]
      /\ \E i : at' = [at EXCEPT ![g] = i]
      /\ \E t : target' = [target EXCEPT ![g] = t]
      /\ \E s : eligible' = [eligible EXCEPT ![g] = s]
  <2>1. at = [at EXCEPT ![g] = at[g]] /\ target = [target EXCEPT ![g] = target[g]]
        /\ eligible = [eligible EXCEPT ![g] = eligible[g]]
    BY <1>1
  <2>2. \E label : pc' = [pc EXCEPT ![g] = label]
    BY Zenon DEF ScanHealthy, ScanState, Admit, Compare, NoneEligible, Pick, Acquire, Goto
  <2>3. \E i : at' = [at EXCEPT ![g] = i]
    BY <2>1, Zenon DEF ScanHealthy, ScanState, Admit, Compare, NoneEligible, Pick, Acquire
  <2>4. \E t : target' = [target EXCEPT ![g] = t]
    BY <2>1, Zenon DEF ScanHealthy, ScanState, Admit, Compare, NoneEligible, Pick, Acquire, balancerVars
  <2>5. \E s : eligible' = [eligible EXCEPT ![g] = s]
    BY <2>1, Zenon DEF ScanHealthy, ScanState, Admit, Compare, NoneEligible, Pick, Acquire, balancerVars
  <2> QED BY <2>2, <2>3, <2>4, <2>5, ZenonT(60)
<1>3. \A h \in Goroutines \ {g} : /\ pc'[h] = pc[h] /\ at'[h] = at[h]
                                  /\ target'[h] = target[h] /\ eligible'[h] = eligible[h]
  BY <1>1, <1>2
<1>4. Watches(g, u)' \/ ~Watches(g, u)
  <2>1. CASE ScanHealthy(g) \/ ScanState(g) \/ NoneEligible(g)
    <3>1. pc[g] \in {"scan", "scanState", "refused"} /\ UNCHANGED <<target, eligible>>
      BY <2>1, ZenonT(60) DEF ScanHealthy, ScanState, NoneEligible, balancerVars
    <3>2. pc[g] \notin Settling /\ target[g] # u
      BY <3>1, Positions, ZenonT(60) DEF Inv, LocalOK, Places, Free, Settling
    <3> QED BY <3>1, <3>2, ZenonT(60) DEF Watches
  <2>2. CASE Admit(g)
    <3>1. at[g] = u
      BY <2>2, Zenon DEF Admit, Inv, LocalOK, Places, Aimed
    <3>2. CASE eligible' = [eligible EXCEPT ![g] = @ \o [i \in 1..Repeat(at[g]) |-> at[g]]]
      <4> DEFINE r == Repeat(u)
                 s == [i \in 1..r |-> u]
                 e == eligible[g]
      <4>1. r \in Nat /\ r >= 1
        BY BalancerConfig DEF Repeat
      <4>2. s \in Seq(Upstreams) /\ Len(s) = r /\ s[1] = u
        BY <4>1
      <4>3. e \in Seq(Upstreams) /\ Len(e) \in Nat
        BY <1>1, SMTT(20), Z3T(20)
      <4> HIDE DEF s, r, e
      <4>4. e \o s \in Seq(Upstreams) /\ Len(e \o s) = Len(e) + r /\ (e \o s)[Len(e) + 1] = u
        BY <4>1, <4>2, <4>3, SMTT(20), Z3T(20)
      <4>5. Len(e) + 1 \in DOMAIN (e \o s)
        BY <4>1, <4>3, <4>4, SMTT(20), Z3T(20)
      <4>6. eligible'[g] = e \o s
        BY <1>1, <3>1, <3>2, ZenonT(60) DEF e, s, r
      <4> QED BY <4>4, <4>5, <4>6, Zenon DEF Watches
    <3>3. CASE eligible[g] # <<>> /\ UNCHANGED eligible
      <4>1. 1 \in DOMAIN eligible[g] /\ eligible[g][1] = u
        BY <1>1, <3>3
      <4> QED BY <4>1, <3>3, Zenon DEF Watches
    <3> QED BY <2>2, <3>2, <3>3, Zenon DEF Admit
  <2>3. CASE Compare(g)
    <3>1. at[g] = u /\ target[g] # u /\ pc[g] \notin Settling
      BY <2>3, Positions, ZenonT(60) DEF Compare, Inv, LocalOK, Places, Aimed, Free, Settling
    <3>2. eligible'[g] \in {<<u>>, eligible[g]}
      BY <1>1, <2>3, <3>1, ZenonT(60) DEF Compare
    <3>3. CASE eligible'[g] = <<u>>
      <4>1. 1 \in DOMAIN eligible'[g] /\ eligible'[g][1] = u
        <5>1. 1 \in DOMAIN <<u>> /\ <<u>>[1] = u
          BY SMTT(20), Z3T(20)
        <5> QED BY <3>3, <5>1, ZenonT(60)
      <4> QED BY <4>1, ZenonT(60) DEF Watches
    <3> QED BY <3>1, <3>2, <3>3, Zenon DEF Watches
  <2>4. CASE Pick(g)
    <3>1. eligible[g] # <<>> /\ counter \in Nat
      BY <2>4, ZenonT(60) DEF Pick, Inv, Types, BalancerTypes
    <3>2. Len(eligible[g]) \in Nat \ {0} /\ Head(eligible[g]) = u
          /\ \A i \in 1..Len(eligible[g]) : eligible[g][i] = u
      <4>1. eligible[g] \in Seq(Upstreams)
        BY <1>1, ZenonT(60)
      <4> QED BY <3>1, <4>1, AllThatOne, ZenonT(60)
    <3>3. target'[g] = u
      <4>1. CASE Algorithm = "least_conn"
        BY <1>1, <2>4, <3>2, <4>1, ZenonT(60) DEF Pick
      <4>2. CASE Algorithm # "least_conn"
        <5>1. counter' \in Nat
          <6>1. counter' = (counter + 1) % CounterPeriod
            BY <2>4, <4>2, ZenonT(60) DEF Pick
          <6> QED BY <3>1, <6>1, BalancerConfig, InBounds, ZenonT(60)
        <5>2. (counter' % Len(eligible[g])) + 1 \in 1..Len(eligible[g])
          BY <5>1, <3>2, InBounds, ZenonT(60)
        <5>3. target'[g] = eligible[g][(counter' % Len(eligible[g])) + 1]
          BY <1>1, <2>4, <4>2, ZenonT(60) DEF Pick
        <5> QED BY <5>2, <5>3, <3>2, ZenonT(60)
      <4> QED BY <4>1, <4>2, ZenonT(60)
    <3>4. pc'[g] = "acquire"
      BY <1>1, <2>4, ZenonT(60) DEF Pick, Goto
    <3> QED BY <3>3, <3>4, ZenonT(60) DEF Watches, Settled
  <2>5. CASE Acquire(g)
    <3>1. pc[g] \notin Settling /\ pc'[g] = "forward" /\ UNCHANGED <<target, eligible>>
      BY <1>1, <2>5, ZenonT(60) DEF Acquire, Goto, Settling
    <3> QED BY <3>1, ZenonT(60) DEF Watches, Settled
  <2> QED BY <2>1, <2>2, <2>3, <2>4, <2>5, Zenon
<1> QED BY <1>1, <1>3, <1>4, Zenon DEF Minds, Full

\* The rest of a request.
LEMMA MindServe ==
  ASSUME Inv, NEW u, Upstreams = {u}, NEW g \in Goroutines,
         \/ Release(g) \/ Arrive(g) \/ NoUpstream(g) \/ Forward(g) \/ Upgrade(g)
         \/ Respond(g) \/ RespondPanics(g) \/ Retry(g) \/ Return(g)
  PROVE  Minds(g, u)
<1>1. /\ pc \in [Goroutines -> Labels] /\ at \in [Goroutines -> 0..NumTargets]
      /\ target \in [Goroutines -> 0..NumTargets]
      /\ UNCHANGED <<circuitState, halfOpenInFlight, eligible>>
  BY Zenon DEF Release, ReleaseConn, ReleaseState, Arrive, NoUpstream, Forward, Upgrade, Respond, RespondPanics,
               Retry, Return, Finish, fields, balancerVars, Inv, Types, FrameTypes, BalancerTypes
<1>2. /\ \E label : pc' = [pc EXCEPT ![g] = label]
      /\ \E i : at' = [at EXCEPT ![g] = i]
      /\ \E t : target' = [target EXCEPT ![g] = t]
  <2>1. at = [at EXCEPT ![g] = at[g]] /\ target = [target EXCEPT ![g] = target[g]]
    BY <1>1
  <2>2. \E label : pc' = [pc EXCEPT ![g] = label]
    BY Zenon DEF Release, ReleaseConn, ReleaseState, Arrive, NoUpstream, Forward, Upgrade, Respond, RespondPanics,
                 Retry, Return, Finish, CallNext, Record, Goto
  <2>3. \E i : at' = [at EXCEPT ![g] = i]
    BY <2>1, Zenon DEF Release, ReleaseConn, ReleaseState, Arrive, NoUpstream, Forward, Upgrade, Respond, RespondPanics,
                 Retry, Return, Finish, CallNext, Record
  <2>4. \E t : target' = [target EXCEPT ![g] = t]
    BY <2>1, Zenon DEF Release, ReleaseConn, ReleaseState, Arrive, NoUpstream, Forward, Upgrade, Respond, RespondPanics,
                 Retry, Return, Finish, balancerVars
  <2> QED BY <2>2, <2>3, <2>4, ZenonT(60)
<1>3. \A h \in Goroutines \ {g} : /\ pc'[h] = pc[h] /\ at'[h] = at[h]
                                  /\ target'[h] = target[h] /\ eligible'[h] = eligible[h]
  BY <1>1, <1>2, ZenonT(60)
<1>4. Full(u)' => Watches(g, u)' \/ (Full(u) /\ ~Watches(g, u))
  <2>1. CASE ReleaseConn(g)
    <3>1. target[g] = u
      BY <2>1, Zenon DEF ReleaseConn, Inv, LocalOK, Places, Holding
    <3>2. at'[g] = u /\ pc'[g] = "releaseState"
      BY <1>1, <2>1, <3>1, ZenonT(60) DEF ReleaseConn, Goto
    <3> QED BY <3>2, Zenon DEF Watches, Settling
  <2>2. CASE ReleaseState(g)
    <3>1. at[g] = u /\ at' = at
      BY <2>2, Zenon DEF ReleaseState, Inv, LocalOK, Places, Aimed
    <3>2. CASE circuitState[u] = "halfOpen"
      <4>1. pc'[g] = "succ"
        BY <1>1, <2>2, <3>1, <3>2, ZenonT(60) DEF ReleaseState, Goto
      <4> QED BY <3>1, <4>1, Zenon DEF Watches, Settling
    <3>3. CASE circuitState[u] # "halfOpen"
      BY <1>1, <3>3, Zenon DEF Full
    <3> QED BY <3>2, <3>3, ZenonT(60)
  <2>3. CASE Forward(g) \/ Upgrade(g) \/ Respond(g)
    <3>1. pc[g] \in {"forward", "respond"} /\ target' = target
      BY <2>3, Zenon DEF Forward, Upgrade, Respond, balancerVars
    <3>2. pc'[g] \in {"release", "fail", "succ"}
      BY <1>1, <2>3, ZenonT(60) DEF Forward, Upgrade, Respond, Record, Goto
    <3>3. target[g] = u
      BY <3>1, Zenon DEF Inv, LocalOK, Places, Holding
    <3> QED BY <3>1, <3>2, <3>3, ZenonT(60) DEF Watches, Settled
  <2>4. CASE Arrive(g) \/ NoUpstream(g) \/ Retry(g) \/ Return(g) \/ RespondPanics(g)
    <3>1. pc[g] \in {"idle", "none", "released", "respond"}
      BY <2>4, Zenon DEF Arrive, NoUpstream, Retry, Return, RespondPanics
    <3>2. pc[g] \notin Settling /\ (target[g] = u => pc[g] \in Settled)
      BY <3>1, Positions, ZenonT(60) DEF Inv, LocalOK, Places, Free, Settling, Settled
    <3> QED BY <1>1, <3>2, ZenonT(60) DEF Watches, Full
  <2> QED BY <2>1, <2>2, <2>3, <2>4, ZenonT(60) DEF Release
<1> QED BY <1>3, <1>4, Zenon DEF Minds

\* A route with one upstream never strands the probes of its breaker: whenever a
\* half-open circuit has no slot left (upstream.go:74-82), a request under way
\* will give one back or settle the circuit, however requests, their panics, the
\* health checker and the clock interleave, for any settings and any balancer of
\* internal/lb.
THEOREM NoWedgeAlone ==
  ASSUME NumTargets = 1
  PROVE  Spec => []NoWedge
<1>1. Upstreams = {1}
  BY TargetsAreIndexed
<1>2. Init => NoWedge
  BY <1>1 DEF Init, FieldsInit, NoWedge
<1>3. Inv /\ NoWedge /\ [Next]_vars => NoWedge'
  <2> SUFFICES ASSUME Inv, NoWedge, [Next]_vars, Full(1)'
               PROVE  \E h \in Goroutines : Watches(h, 1)'
    BY <1>1 DEF NoWedge, Full, Watches, ProbeOutstanding, Settling
  <2>1. Full(1) => \E h \in Goroutines : Watches(h, 1)
    BY <1>1, Zenon DEF NoWedge, Full, Watches, ProbeOutstanding, Settling
  <2>2. ASSUME NEW g \in Goroutines, Minds(g, 1) PROVE \E h \in Goroutines : Watches(h, 1)'
    <3>1. CASE Watches(g, 1)'
      BY <3>1, ZenonT(60)
    <3>2. CASE Full(1) /\ ~Watches(g, 1)
      <4>1. PICK h \in Goroutines : Watches(h, 1)
        BY <2>1, <3>2, ZenonT(60)
      <4>2. Watches(h, 1)'
        BY <2>2, <3>2, <4>1, Zenon DEF Minds, Watches
      <4> QED BY <4>2, ZenonT(60)
    <3> QED BY <2>2, <3>1, <3>2, Zenon DEF Minds
  <2>3. ASSUME NEW g \in Goroutines, Arrive(g) \/ Serve(g) PROVE Minds(g, 1)
    BY <1>1, <2>3, MindTry, MindRecord, MindNext, MindServe, Zenon DEF Serve, NextTarget
  <2>4. CASE Environment \/ UNCHANGED vars
    <3>1. UNCHANGED <<circuitState, halfOpenInFlight, frame, balancerVars>>
      BY <2>4, Zenon DEF Environment, Tick, Check, vars, fields
    <3> QED BY <2>1, <3>1, Zenon DEF Full, Watches, frame, balancerVars
  <2> QED BY <2>2, <2>3, <2>4, ZenonT(60) DEF Next
<1> QED BY <1>2, <1>3, Invariance, PTL DEF Spec
-----------------------------------------------------------------------------
(***************************************************************************)
(* The breaker under the engine's calls.  The budget of probes needs that  *)
(* a goroutine about to swap has seen a count below the limit; the trips   *)
(* are inductive by themselves.  No step outside the methods of the        *)
(* breaker touches the two counts or a goroutine inside RecordFailure.     *)
(***************************************************************************)
SwapBelowLimit == \A g \in Goroutines : pc[g] = "tryTake" => seen[g] < MaxProbes

BreakerInv == ProbeBudget /\ SwapBelowLimit /\ NoMissedTrip

\* Only g moves.
OnlyMoves(g) ==
  \A h \in Goroutines \ {g} : pc'[h] = pc[h] /\ at'[h] = at[h] /\ seen'[h] = seen[h]

Aside(g) ==
  /\ UNCHANGED <<failureCount, halfOpenInFlight>>
  /\ OnlyMoves(g)
  /\ pc[g] \notin FailureLabels
  /\ pc'[g] # "tryTake"

LEMMA BreakerAside ==
  ASSUME BreakerInv, NEW g \in Goroutines, Aside(g)
  PROVE  BreakerInv'
<1>1. ProbeBudget'
  BY DEF BreakerInv, ProbeBudget, Aside
<1>2. SwapBelowLimit'
  BY Zenon DEF BreakerInv, SwapBelowLimit, Aside, OnlyMoves
<1>3. ASSUME NEW u \in Upstreams, failureCount'[u] >= Threshold
      PROVE  \E h \in Goroutines : Tripping(h, u)'
  <2>1. PICK h \in Goroutines : Tripping(h, u)
    BY <1>3 DEF BreakerInv, NoMissedTrip, Aside
  <2>2. h # g
    BY <2>1, Zenon DEF Tripping, Aside
  <2> QED BY <2>1, <2>2, Zenon DEF Tripping, Aside, OnlyMoves
<1> QED BY <1>1, <1>2, <1>3, Zenon DEF BreakerInv, NoMissedTrip

\* What the methods of the breaker know of the state.
LEMMA InMethod ==
  ASSUME Inv, NEW g \in Goroutines, TryHalfOpen(g) \/ RecordSuccess(g) \/ RecordFailure(g)
  PROVE  /\ at[g] \in Upstreams /\ ret[g] \in {"release", "respond", "released"}
         /\ failureCount \in [Upstreams -> Nat] /\ circuitState \in [Upstreams -> CircuitStates]
         /\ halfOpenInFlight \in [Upstreams -> Int]
         /\ pc \in [Goroutines -> Labels] /\ seen \in [Goroutines -> Int] /\ at' = at
         /\ OnlyMoves(g)
<1>1. /\ failureCount \in [Upstreams -> Nat] /\ circuitState \in [Upstreams -> CircuitStates]
      /\ halfOpenInFlight \in [Upstreams -> Int] /\ FieldTypes
      /\ pc \in [Goroutines -> Labels] /\ seen \in [Goroutines -> Int]
      /\ ret[g] \in {"release", "respond", "released"}
  BY DEF Inv, Types, FieldTypes, FrameTypes
<1>2. pc[g] \in TryLabels \cup SuccessLabels \cup FailureLabels
  <2>1. CASE TryHalfOpen(g)
    BY <2>1, Zenon DEF TryHalfOpen, TryState, TryTimer, TrySwap, TryReset, TryLoad, TryTake, TryLabels
  <2>2. CASE RecordSuccess(g)
    BY <2>2, Zenon DEF RecordSuccess, SuccState, SuccProbe, SuccClose, SuccHealthy, SuccReset, SuccessLabels
  <2>3. CASE RecordFailure(g)
    BY <2>3, Zenon DEF RecordFailure, FailCount, FailState, FailProbe, FailUnhealthy, FailDeadline,
                       FailOpen, FailReset, FailureLabels
  <2> QED BY <2>1, <2>2, <2>3, Zenon
<1>3. at[g] \in Upstreams
  BY <1>2, Zenon DEF Inv, LocalOK, Places, Aimed
<1>4. at' = at /\ \E label : pc' = [pc EXCEPT ![g] = label]
  <2>1. CASE TryHalfOpen(g)
    BY <1>1, <1>3, <2>1, TryEffect, Zenon DEF Moves
  <2>2. CASE RecordSuccess(g)
    BY <1>1, <1>3, <2>2, SuccessEffect, Zenon DEF Moves
  <2>3. CASE RecordFailure(g)
    BY <1>1, <1>3, <2>3, FailureEffect, Zenon DEF Moves
  <2> QED BY <2>1, <2>2, <2>3, Zenon
<1>5. seen' = seen \/ \E n : seen' = [seen EXCEPT ![g] = n]
  BY Zenon DEF TryHalfOpen, TryState, TryTimer, TrySwap, TryReset, TryLoad, TryTake,
         RecordSuccess, SuccState, SuccProbe, SuccClose, SuccHealthy, SuccReset,
         RecordFailure, FailCount, FailState, FailProbe, FailBranch, FailUnhealthy,
         FailDeadline, FailOpen, FailReset
<1>6. OnlyMoves(g)
  BY <1>1, <1>4, <1>5, Zenon DEF OnlyMoves
<1> QED BY <1>1, <1>3, <1>4, <1>6, Zenon

\* Inside the methods a slot is taken only by a swap on a count seen below the limit.
LEMMA BudgetStep ==
  ASSUME Inv, BreakerInv, NEW g \in Goroutines,
         TryHalfOpen(g) \/ RecordSuccess(g) \/ RecordFailure(g)
  PROVE  (ProbeBudget /\ SwapBelowLimit)'
<1>1. /\ at[g] \in Upstreams /\ ret[g] \in {"release", "respond", "released"}
      /\ circuitState[at[g]] \in CircuitStates
      /\ halfOpenInFlight \in [Upstreams -> Int] /\ pc \in [Goroutines -> Labels]
      /\ seen \in [Goroutines -> Int] /\ OnlyMoves(g) /\ MaxProbes \in Nat /\ MaxProbes >= 1
  BY InMethod, PositiveSettings, ZenonT(60)
<1>2. ProbeBudget /\ SwapBelowLimit
  BY DEF BreakerInv
\* Taking no slot and not being about to is enough.
<1>3. ASSUME halfOpenInFlight'[at[g]] <= MaxProbes, pc'[g] = "tryTake" => seen'[g] < MaxProbes,
             \A u \in Upstreams \ {at[g]} : halfOpenInFlight'[u] = halfOpenInFlight[u]
      PROVE  (ProbeBudget /\ SwapBelowLimit)'
  <2>1. ProbeBudget'
    BY <1>2, <1>3, Zenon DEF ProbeBudget
  <2>2. SwapBelowLimit'
    BY <1>1, <1>2, <1>3, Zenon DEF SwapBelowLimit, OnlyMoves
  <2> QED BY <2>1, <2>2
<1>4. ASSUME UNCHANGED halfOpenInFlight, pc'[g] # "tryTake" PROVE (ProbeBudget /\ SwapBelowLimit)'
  BY <1>1, <1>2, <1>3, <1>4, Zenon DEF ProbeBudget
<1> USE DEF Goto
<1>5. CASE TryState(g)
  <2> DEFINE next == [closed |-> "refused", open |-> "tryTimer", halfOpen |-> "tryLoad"]
  <2>1. next[circuitState[at[g]]] \in {"refused", "tryTimer", "tryLoad"}
    BY <1>1, FromState, Zenon
  <2>2. pc'[g] = next[circuitState[at[g]]]
    BY <1>1, <1>5, Zenon DEF TryState
  <2> HIDE DEF next
  <2>3. pc'[g] # "tryTake"
    BY <2>1, <2>2, Zenon
  <2> QED BY <1>4, <1>5, <2>3, Zenon DEF TryState, fields
<1>6. CASE TryTimer(g)
  BY <1>1, <1>4, <1>6, ZenonT(60) DEF TryTimer, fields
<1>7. CASE TrySwap(g)
  BY <1>1, <1>4, <1>7, ZenonT(60) DEF TrySwap
<1>8. CASE TryReset(g)
  BY <1>1, <1>3, <1>8, Limits, ZenonT(60) DEF TryReset
<1>9. CASE TryLoad(g)
  <2>1. halfOpenInFlight' = halfOpenInFlight /\ (pc'[g] = "tryTake" => seen'[g] < MaxProbes)
    BY <1>1, <1>9, ZenonT(60) DEF TryLoad, fields
  <2> QED BY <1>1, <1>2, <1>3, <2>1, Zenon DEF ProbeBudget
<1>10. CASE TryTake(g)
  <2>1. seen[g] < MaxProbes /\ pc'[g] # "tryTake"
    BY <1>1, <1>2, <1>10, ZenonT(60) DEF TryTake, SwapBelowLimit
  <2>2. CASE halfOpenInFlight[at[g]] = seen[g]
    <3>1. halfOpenInFlight' = [halfOpenInFlight EXCEPT ![at[g]] = seen[g] + 1]
      BY <1>10, <2>2, Zenon DEF TryTake
    <3>2. seen[g] + 1 <= MaxProbes
      BY <1>1, <2>1, Limits, Zenon
    <3> QED BY <1>1, <1>3, <2>1, <3>1, <3>2, ZenonT(60)
  <2>3. CASE halfOpenInFlight[at[g]] # seen[g]
    BY <1>4, <1>10, <2>1, <2>3, Zenon DEF TryTake
  <2> QED BY <2>2, <2>3, ZenonT(60)
<1>11. CASE SuccProbe(g) \/ FailProbe(g)
  <2>1. /\ halfOpenInFlight' = [halfOpenInFlight EXCEPT ![at[g]] = @ - 1]
        /\ pc'[g] # "tryTake"
    BY <1>1, <1>11, ZenonT(60) DEF SuccProbe, FailProbe, FailBranch
  <2>2. halfOpenInFlight[at[g]] - 1 <= MaxProbes
    BY <1>1, <1>2, Limits, Zenon DEF ProbeBudget
  <2> QED BY <1>1, <1>3, <2>1, <2>2, Zenon
<1>12. CASE SuccState(g) \/ SuccClose(g) \/ SuccHealthy(g) \/ SuccReset(g)
  <2>1. pc'[g] # "tryTake" /\ UNCHANGED halfOpenInFlight
    BY <1>1, <1>12, ZenonT(60) DEF SuccState, SuccClose, SuccHealthy, SuccReset, fields
  <2> QED BY <1>4, <2>1
<1>13. CASE \/ FailCount(g) \/ FailState(g) \/ FailUnhealthy(g)
            \/ FailDeadline(g) \/ FailOpen(g) \/ FailReset(g)
  <2>1. pc'[g] # "tryTake" /\ UNCHANGED halfOpenInFlight
    BY <1>1, <1>13, ZenonT(60) DEF FailCount, FailState, FailBranch, FailUnhealthy, FailDeadline,
                                 FailOpen, FailReset, fields
  <2> QED BY <1>4, <2>1
<1> QED
  BY <1>5, <1>6, <1>7, <1>8, <1>9, <1>10, <1>11, <1>12, <1>13, ZenonT(60)
  DEF TryHalfOpen, RecordSuccess, RecordFailure

\* The increment that reaches the threshold is the trip's own, and only a trip or a
\* success that resets the count ends it.
LEMMA TripStep ==
  ASSUME Inv, BreakerInv, NEW g \in Goroutines,
         TryHalfOpen(g) \/ RecordSuccess(g) \/ RecordFailure(g)
  PROVE  NoMissedTrip'
<1> SUFFICES ASSUME NEW u \in Upstreams, failureCount'[u] >= Threshold
             PROVE  \E h \in Goroutines : Tripping(h, u)'
  BY ZenonT(60) DEF NoMissedTrip
<1>1. /\ at[g] \in Upstreams /\ failureCount \in [Upstreams -> Nat]
      /\ pc \in [Goroutines -> Labels] /\ seen \in [Goroutines -> Int] /\ at' = at
      /\ OnlyMoves(g) /\ Threshold \in Nat /\ Threshold >= 1
  BY InMethod, PositiveSettings, ZenonT(60)
\* Whoever else is tripping u goes on doing so.
<1>2. ASSUME failureCount[u] >= Threshold, Tripping(g, u) => Tripping(g, u)'
      PROVE  \E h \in Goroutines : Tripping(h, u)'
  <2>1. PICK h \in Goroutines : Tripping(h, u)
    BY <1>2, Zenon DEF BreakerInv, NoMissedTrip
  <2>2. CASE h = g
    BY <1>2, <2>1, <2>2, Zenon
  <2>3. CASE h # g
    BY <1>1, <2>1, <2>3, Zenon DEF Tripping, OnlyMoves
  <2> QED BY <2>2, <2>3
<1> USE DEF Goto
<1>3. CASE TryHalfOpen(g)
  <2>1. failureCount' = failureCount
    BY <1>3, Zenon DEF TryHalfOpen, TryState, TryTimer, TrySwap, TryReset, TryLoad, TryTake, fields
  <2>2. pc[g] \notin FailureLabels
    BY <1>3, Zenon DEF TryHalfOpen, TryState, TryTimer, TrySwap, TryReset, TryLoad, TryTake, FailureLabels
  <2> QED BY <1>2, <2>1, <2>2, Zenon DEF Tripping
<1>4. CASE RecordSuccess(g)
  <2>1. failureCount[u] >= Threshold
    <3>1. CASE SuccReset(g)
      BY <1>1, <3>1, Limits, Zenon DEF SuccReset
    <3>2. CASE ~SuccReset(g)
      BY <1>4, <3>2, Zenon DEF RecordSuccess, SuccState, SuccProbe, SuccClose, SuccHealthy, fields
    <3> QED BY <3>1, <3>2, ZenonT(60)
  <2>2. pc[g] \notin FailureLabels
    BY <1>4, Zenon DEF RecordSuccess, SuccState, SuccProbe, SuccClose, SuccHealthy, SuccReset, FailureLabels
  <2> QED BY <1>2, <2>1, <2>2, Zenon DEF Tripping
<1>5. CASE FailCount(g)
  <2>1. /\ failureCount' = [failureCount EXCEPT ![at[g]] = @ + 1] /\ pc[g] = "fail"
        /\ pc'[g] = "failState" /\ seen'[g] = failureCount[at[g]] + 1
    BY <1>1, <1>5, Zenon DEF FailCount
  <2>2. CASE at[g] = u
    <3>1. seen'[g] >= Threshold
      BY <1>1, <2>1, <2>2, ZenonT(60)
    <3> QED BY <1>1, <2>1, <2>2, <3>1, Zenon DEF Tripping, FailureLabels
  <2>3. CASE at[g] # u
    <3>1. failureCount[u] >= Threshold
      BY <1>1, <2>1, <2>3, ZenonT(60)
    <3> QED BY <1>2, <2>1, <3>1, Zenon DEF Tripping
  <2> QED BY <2>2, <2>3, ZenonT(60)
<1>6. CASE FailState(g) \/ FailProbe(g)
  <2>1. failureCount' = failureCount
    BY <1>6, Zenon DEF FailState, FailProbe, fields
  <2>2. Tripping(g, u) => Tripping(g, u)'
    <3>1. seen[g] >= Threshold => seen' = seen /\ pc'[g] \in {"failProbe", "failUnhealthy"}
      BY <1>1, <1>6, ZenonT(60) DEF FailState, FailProbe, FailBranch
    <3> QED BY <1>1, <3>1, Zenon DEF Tripping, FailureLabels
  <2> QED BY <1>2, <2>1, <2>2, Zenon
<1>7. CASE FailUnhealthy(g) \/ FailDeadline(g) \/ FailOpen(g)
  <2>1. /\ failureCount' = failureCount /\ seen' = seen
        /\ pc'[g] \in {"failDeadline", "failOpen", "failReset"}
    BY <1>1, <1>7, ZenonT(60) DEF FailUnhealthy, FailDeadline, FailOpen
  <2>2. Tripping(g, u) => Tripping(g, u)'
    BY <1>1, <2>1, Zenon DEF Tripping, FailureLabels
  <2> QED BY <1>2, <2>1, <2>2, Zenon
<1>8. CASE FailReset(g)
  <2>1. failureCount[u] >= Threshold /\ at[g] # u
    BY <1>1, <1>8, Limits, ZenonT(60) DEF FailReset
  <2> QED BY <1>2, <2>1, Zenon DEF Tripping
<1> QED BY <1>3, <1>4, <1>5, <1>6, <1>7, <1>8, Zenon DEF RecordFailure

\* Selection, release and the handler around them keep clear of the breaker's
\* counts.
LEMMA OutsideMethods ==
  ASSUME Inv, NEW g \in Goroutines,
         \/ ScanHealthy(g) \/ ScanState(g) \/ Admit(g) \/ Compare(g) \/ NoneEligible(g)
         \/ Pick(g) \/ Acquire(g) \/ Release(g)
         \/ Arrive(g) \/ NoUpstream(g) \/ Forward(g) \/ Upgrade(g) \/ Respond(g)
         \/ RespondPanics(g) \/ Retry(g) \/ Return(g)
  PROVE  Aside(g)
<1> DEFINE From == EngineLabels
           To == EngineLabels \cup {"try", "succ", "fail"}
           Step == /\ fields' = fields
                   /\ pc[g] \in From /\ \E l \in To : pc' = [pc EXCEPT ![g] = l]
                   /\ at' = at \/ \E a : at' = [at EXCEPT ![g] = a]
                   /\ seen' = seen \/ \E n : seen' = [seen EXCEPT ![g] = n]
<1>1. ASSUME ScanHealthy(g) \/ ScanState(g) PROVE Step
  BY <1>1, Zenon DEF ScanHealthy, ScanState, Goto, EngineLabels
<1>2. ASSUME Admit(g) \/ Compare(g) PROVE Step
  BY <1>2, Zenon DEF Admit, Compare, Goto, EngineLabels
<1>3. ASSUME NoneEligible(g) \/ Pick(g) \/ Acquire(g) PROVE Step
  BY <1>3, Zenon DEF NoneEligible, Pick, Acquire, Goto, EngineLabels
<1>4. ASSUME Release(g) PROVE Step
  BY <1>4, Zenon DEF Release, ReleaseConn, ReleaseState, Goto, EngineLabels
<1>5. ASSUME Arrive(g) \/ Respond(g) \/ Retry(g) PROVE Step
  BY <1>5, Zenon DEF Arrive, Respond, Retry, CallNext, Goto, EngineLabels
<1>6. ASSUME NoUpstream(g) \/ Return(g) \/ RespondPanics(g) PROVE Step
  BY <1>6, Zenon DEF NoUpstream, Return, RespondPanics, Finish, Goto, EngineLabels
<1>7. ASSUME Forward(g) PROVE Step
  BY <1>7, Zenon DEF Forward, Record, Goto, EngineLabels
<1>8. ASSUME Upgrade(g) PROVE Step
  BY <1>8, Zenon DEF Upgrade, Record, Goto, EngineLabels
<1>9. Step
  BY <1>1, <1>2, <1>3, <1>4, <1>5, <1>6, <1>7, <1>8, ZenonT(60)
<1>10. /\ pc \in [Goroutines -> Labels] /\ at \in [Goroutines -> 0..NumTargets]
       /\ seen \in [Goroutines -> Int]
  BY Zenon DEF Inv, Types, FrameTypes
<1>11. OnlyMoves(g) /\ pc'[g] \in To
  BY <1>9, <1>10, Zenon DEF OnlyMoves
<1>12. From \cap FailureLabels = {} /\ "tryTake" \notin To
  BY DEF EngineLabels, FailureLabels
<1> QED BY <1>9, <1>11, <1>12, Zenon DEF Aside, fields

LEMMA BreakerNext == Inv /\ BreakerInv /\ [Next]_vars => BreakerInv'
<1> SUFFICES ASSUME Inv, BreakerInv, [Next]_vars PROVE BreakerInv'
  OBVIOUS
<1>1. ASSUME NEW g \in Goroutines, TryHalfOpen(g) \/ RecordSuccess(g) \/ RecordFailure(g)
      PROVE  BreakerInv'
  BY <1>1, BudgetStep, TripStep, Zenon DEF BreakerInv
<1>2. ASSUME NEW g \in Goroutines, Arrive(g) \/ Serve(g)
      PROVE  BreakerInv'
  <2>1. CASE TryHalfOpen(g) \/ RecordSuccess(g) \/ RecordFailure(g)
    BY <1>1, <2>1, ZenonT(60)
  <2>2. CASE ~(TryHalfOpen(g) \/ RecordSuccess(g) \/ RecordFailure(g))
    <3>1. Aside(g)
      BY <1>2, <2>2, OutsideMethods, Zenon DEF Serve, NextTarget, BreakerStep
    <3> QED BY <3>1, BreakerAside, ZenonT(60)
  <2> QED BY <2>1, <2>2, ZenonT(60)
<1>3. CASE Environment \/ UNCHANGED vars
  <2>1. UNCHANGED <<failureCount, halfOpenInFlight, pc, at, seen>>
    BY <1>3, Zenon DEF Environment, Tick, Check, vars, fields, frame
  <2> QED BY <2>1, Zenon DEF BreakerInv, ProbeBudget, SwapBelowLimit, NoMissedTrip, Tripping
<1> QED BY <1>2, <1>3, Zenon DEF Next

LEMMA BreakerHolds == Spec => []BreakerInv
<1>1. Init => BreakerInv
  BY PositiveSettings DEF Init, FieldsInit, BreakerInv, ProbeBudget, SwapBelowLimit, NoMissedTrip
<1> QED BY <1>1, BreakerNext, Invariance, PTL DEF Spec

\* However many requests the engine serves, and however their selection, their
\* outcomes and their releases interleave on the fields of an upstream, tryHalfOpen
\* never pushes HalfOpenInFlight over half_open_requests.
THEOREM ProbesBounded == Spec => []ProbeBudget
BY BreakerHolds, PTL DEF BreakerInv

\* In every interleaving of retries, tunnels and responses, a failure count that
\* has reached the threshold has a RecordFailure at work that will open the
\* circuit: no failing upstream stays in rotation because its trip was lost.
THEOREM NoTripLost == Spec => []NoMissedTrip
BY BreakerHolds, PTL DEF BreakerInv
=============================================================================
