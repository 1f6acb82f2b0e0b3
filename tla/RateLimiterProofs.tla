-------------------------- MODULE RateLimiterProofs --------------------------
(***************************************************************************)
(* The rate limiter is a token bucket per client, for any number of        *)
(* clients and concurrent requests, whenever an idle bucket refills before *)
(* it is dropped.                                                          *)
(***************************************************************************)
EXTENDS RateLimiter, TLAPS

\* What an untouched bucket has gained after n ticks at least.
Gained(n) == Refill * n

LEMMA CapacityType == Capacity \in Nat
BY LimiterConfig DEF Capacity

LEMMA Gains ==
  /\ \A n \in Int : Gained(n) \in Int
  /\ \A n \in Int : Gained(n + 1) = Gained(n) + Refill
  /\ \A n \in Int : n <= 0 => Gained(n) <= 0
  /\ \A m, n \in Int : m <= n => Gained(m) <= Gained(n)
<1>1. \A n \in Int : Gained(n) \in Int
  BY LimiterConfig DEF Gained
<1>2. \A n \in Int : Gained(n + 1) = Gained(n) + Refill
  BY LimiterConfig DEF Gained
<1>3. \A m, n \in Int : m <= n => Gained(m) <= Gained(n)
  BY LimiterConfig DEF Gained
<1>4. Gained(0) = 0
  BY LimiterConfig DEF Gained
<1> QED  BY <1>1, <1>2, <1>3, <1>4

(***************************************************************************)
(* The inductive invariant.  lastSeen is younger than any pending lookup,  *)
(* which is what keeps cleanup away from its entry; and a bucket has been  *)
(* refilled for as long as it has been idle, less the time its last token  *)
(* may have been taken after lastSeen was set.                             *)
(***************************************************************************)
Pending == \A r \in Requests : pc[r] = "allow" => ip[r] \in present /\ idle[ip[r]] <= held[r]

Refilled ==
  \A c \in Clients :
    /\ c \in present => tokens[c] = Capacity \/ tokens[c] >= Gained(idle[c] - MaxHold)
    /\ c \notin present => tokens[c] = Capacity /\ idle[c] = 0

Inv == TypeOK /\ Pending /\ Refilled

LEMMA InvInit == Init => Inv
<1> SUFFICES ASSUME Init PROVE Inv
  OBVIOUS
<1>1. Capacity \in 0..Capacity /\ 0 \in 0..MaxAge /\ 0 \in 0..MaxHold
  BY CapacityType, LimiterConfig DEF MaxAge
<1>2. TypeOK
  BY <1>1 DEF Init, TypeOK
<1> QED  BY <1>2 DEF Init, Inv, Pending, Refilled

LEMMA InvLookup ==
  ASSUME Inv, NEW r \in Requests, NEW forwarded \in Clients \cup {"none"}, NEW peer \in Clients,
         Lookup(r, forwarded, peer)
  PROVE  Inv'
<1> DEFINE c == clientIP(forwarded, peer)
<1>1. c \in Clients
  BY DEF clientIP
<1>2. /\ present' = present \cup {c} /\ tokens' = tokens /\ idle' = [idle EXCEPT ![c] = 0]
      /\ ip' = [ip EXCEPT ![r] = c] /\ held' = [held EXCEPT ![r] = 0]
      /\ verdict' = [verdict EXCEPT ![r] = "none"] /\ pc' = [pc EXCEPT ![r] = "allow"]
      /\ UNCHANGED cleaner
  BY <1>1 DEF Lookup, get, Inv, TypeOK, Refilled
<1> HIDE DEF c
<1>3. TypeOK'
  BY <1>1, <1>2, LimiterConfig DEF Inv, TypeOK, cleaner, MaxAge
<1>4. Pending'
  BY <1>1, <1>2, LimiterConfig DEF Inv, TypeOK, Pending, MaxAge
<1>5. Refilled'
  <2>1. tokens[c] >= Gained(0 - MaxHold)
    <3>1. tokens[c] \in Nat /\ 0 - MaxHold \in Int /\ 0 - MaxHold <= 0
      BY <1>1, LimiterConfig, CapacityType DEF Inv, TypeOK
    <3> QED  BY <3>1, Gains
  <2>2. idle'[c] = 0 /\ \A d \in Clients \ {c} : idle'[d] = idle[d]
    BY <1>1, <1>2 DEF Inv, TypeOK
  <2> QED  BY <1>1, <1>2, <2>1, <2>2 DEF Inv, Refilled
<1> QED  BY <1>3, <1>4, <1>5 DEF Inv

LEMMA InvAllow ==
  ASSUME Inv, NEW r \in Requests, Allow(r)
  PROVE  Inv'
<1>1. /\ pc[r] = "allow" /\ ip[r] \in Clients /\ ip[r] \in present
      /\ idle[ip[r]] \in Nat /\ idle[ip[r]] <= MaxHold
  BY LimiterConfig DEF Inv, TypeOK, Pending, Allow
<1>2. TypeOK'
  BY <1>1, LimiterConfig, CapacityType DEF Inv, TypeOK, Allow, cleaner
<1>3. Pending'
  BY <1>1 DEF Inv, TypeOK, Pending, Allow
<1>4. Refilled'
  <2>1. present' = present /\ idle' = idle /\ \A c \in Clients \ {ip[r]} : tokens'[c] = tokens[c]
    BY <1>1 DEF Allow, Inv, TypeOK
  <2>2. tokens'[ip[r]] >= Gained(idle[ip[r]] - MaxHold)
    <3>1. tokens'[ip[r]] \in Nat
      BY <1>1, <1>2, CapacityType DEF TypeOK
    <3>2. idle[ip[r]] - MaxHold \in Int /\ idle[ip[r]] - MaxHold <= 0
      BY <1>1, LimiterConfig
    <3> QED  BY <3>1, <3>2, Gains, SMTT(20), Z3T(20)
  <2> QED  BY <1>1, <2>1, <2>2 DEF Inv, Refilled
<1> QED  BY <1>2, <1>3, <1>4 DEF Inv

\* cleanup never drops an entry a request is about to use.
LEMMA StaleIsUnused ==
  ASSUME Inv, NEW r \in Requests, pc[r] = "allow"
  PROVE  ~Stale(ip[r])
BY LimiterConfig DEF Inv, TypeOK, Pending, Stale

LEMMA InvSweep ==
  ASSUME Inv, Sweep
  PROVE  Inv'
<1>1. /\ present' = {c \in present : ~Stale(c)}
      /\ idle' = [c \in Clients |-> IF c \in present' THEN idle[c] ELSE 0]
      /\ tokens' = [c \in Clients |-> IF c \in present' THEN tokens[c] ELSE Capacity]
      /\ sweeping' = FALSE /\ cutoffAge' = 0
      /\ pc' = pc /\ ip' = ip /\ held' = held /\ verdict' = verdict
  BY DEF Sweep, requests
<1>2. TypeOK'
  <2>1. Capacity \in 0..Capacity /\ 0 \in 0..MaxAge /\ 0 \in 0..MaxHold
    BY CapacityType, LimiterConfig DEF MaxAge
  <2> QED  BY <1>1, <2>1 DEF Inv, TypeOK
<1>3. Pending'
  BY <1>1, StaleIsUnused DEF Inv, TypeOK, Pending
<1>4. Refilled'
  BY <1>1 DEF Inv, Refilled
<1> QED  BY <1>2, <1>3, <1>4 DEF Inv

LEMMA InvTick ==
  ASSUME Inv, Tick
  PROVE  Inv'
<1>1. TypeOK'
  BY LimiterConfig, CapacityType DEF Inv, TypeOK, Tick, Filled, Older, MaxAge
<1>2. Pending'
  <2> SUFFICES ASSUME NEW r \in Requests, pc'[r] = "allow"
               PROVE  ip'[r] \in present' /\ idle'[ip'[r]] <= held'[r]
    BY DEF Pending
  <2>1. /\ pc[r] = "allow" /\ ip'[r] = ip[r] /\ present' = present /\ held'[r] = held[r] + 1
        /\ ip[r] \in Clients /\ ip[r] \in present /\ idle[ip[r]] <= held[r]
    BY DEF Tick, Inv, TypeOK, Pending
  <2>2. idle'[ip[r]] = Older(idle[ip[r]])
    BY <2>1 DEF Tick
  <2>3. idle[ip[r]] \in 0..MaxAge /\ held[r] \in 0..MaxHold
    BY <2>1 DEF Inv, TypeOK
  <2> QED  BY <2>1, <2>2, <2>3, LimiterConfig DEF Older, MaxAge
<1>3. Refilled'
  <2> SUFFICES ASSUME NEW c \in Clients
               PROVE  /\ c \in present' => \/ tokens'[c] = Capacity
                                           \/ tokens'[c] >= Gained(idle'[c] - MaxHold)
                      /\ c \notin present' => tokens'[c] = Capacity /\ idle'[c] = 0
    BY DEF Refilled
  <2>1. CASE c \notin present
    BY <2>1 DEF Tick
  <2>2. CASE c \in present
    <3>1. /\ tokens'[c] = Filled(tokens[c]) /\ idle'[c] = Older(idle[c]) /\ present' = present
          /\ tokens[c] \in 0..Capacity /\ idle[c] \in 0..MaxAge
          /\ tokens[c] = Capacity \/ tokens[c] >= Gained(idle[c] - MaxHold)
      BY <2>2 DEF Tick, Inv, TypeOK, Refilled
    <3>2. MaxAge \in Nat /\ MaxHold \in Nat /\ Refill \in Nat /\ Capacity \in Nat
      BY LimiterConfig, CapacityType DEF MaxAge
    <3>3. Gained(idle[c] - MaxHold) \in Int
          /\ Gained((idle[c] + 1) - MaxHold) = Gained(idle[c] - MaxHold) + Refill
      <4>1. idle[c] - MaxHold \in Int /\ (idle[c] + 1) - MaxHold = (idle[c] - MaxHold) + 1
        BY <3>1, <3>2
      <4> QED  BY <4>1, Gains, SMTT(20), Z3T(20)
    <3>4. CASE tokens[c] = Capacity
      BY <2>2, <3>1, <3>2, <3>4 DEF Filled
    <3>5. CASE tokens[c] >= Gained(idle[c] - MaxHold)
      <4>1. tokens'[c] = Capacity \/ tokens'[c] = tokens[c] + Refill
        BY <3>1, <3>2 DEF Filled
      <4>2. idle'[c] = idle[c] + 1 \/ (idle'[c] = MaxAge /\ idle[c] = MaxAge)
        BY <3>1, <3>2 DEF Older
      <4>3. CASE idle'[c] = idle[c] + 1
        BY <2>2, <3>1, <3>2, <3>3, <3>5, <4>1, <4>3
      <4>4. CASE idle'[c] = idle[c]
        BY <2>2, <3>1, <3>2, <3>3, <3>5, <4>1, <4>4
      <4> QED  BY <4>2, <4>3, <4>4
    <3> QED  BY <3>1, <3>4, <3>5
  <2> QED  BY <2>1, <2>2
<1> QED  BY <1>1, <1>2, <1>3 DEF Inv

LEMMA InvNext == Inv /\ [Next]_vars => Inv'
<1> SUFFICES ASSUME Inv, [Next]_vars PROVE Inv'
  OBVIOUS
<1>1. CASE Cutoff
  BY <1>1, LimiterConfig DEF Cutoff, Inv, TypeOK, Pending, Refilled, entries, requests
<1>2. CASE UNCHANGED vars
  BY <1>2 DEF vars, Inv, TypeOK, Pending, Refilled, entries, requests, cleaner
<1> QED  BY <1>1, <1>2, InvLookup, InvAllow, InvSweep, InvTick DEF Next

LEMMA Invariance == Spec => []Inv
BY InvInit, InvNext, PTL DEF Spec

\* The buckets never go below zero or above burst (ratelimit.go:61-64, and the
\* limiter behind it), however requests and cleanup interleave.
THEOREM TypeCorrect == Spec => []TypeOK
<1>1. Inv => TypeOK
  BY DEF Inv
<1> QED  BY <1>1, Invariance, PTL

\* cleanup (ratelimit.go:73-88) never drops an entry between a request's get
\* and its Allow.
THEOREM NeverOrphaned == Spec => []NoOrphan
<1>1. Inv => NoOrphan
  BY DEF Inv, Pending, NoOrphan
<1> QED  BY <1>1, Invariance, PTL
-----------------------------------------------------------------------------
LEMMA BucketStep ==
  ASSUME RefilledByEviction, Inv, [Next]_vars
  PROVE  [TB!Next]_(TB!vars)
<1>1. ASSUME NEW r \in Requests, NEW forwarded \in Clients \cup {"none"}, NEW peer \in Clients,
             Lookup(r, forwarded, peer)
      PROVE  TB!Next
  <2>1. clientIP(forwarded, peer) \in Clients
    BY DEF clientIP
  <2>2. tokens' = tokens
    BY <1>1, <2>1 DEF Lookup, get, Inv, TypeOK, Refilled
  <2>3. TB!Arrive(r)
    BY <1>1, <2>2 DEF Lookup, TB!Arrive
  <2> QED  BY <2>3 DEF TB!Next
<1>2. ASSUME NEW r \in Requests, Allow(r) PROVE TB!Next
  <2>1. ip[r] \in Clients
    BY DEF Inv, TypeOK
  <2>2. TB!Decide(r, ip[r])
    BY <1>2 DEF Allow, TB!Decide
  <2> QED  BY <2>1, <2>2 DEF TB!Next
<1>3. CASE Tick
  <2>1. \A c \in Clients \ present : Capacity = Filled(tokens[c])
    BY LimiterConfig, CapacityType DEF Inv, Refilled, Filled
  <2>2. tokens' = [c \in Clients |-> Filled(tokens[c])]
    BY <1>3, <2>1 DEF Tick
  <2>3. TB!Elapse
    BY <1>3, <2>2 DEF Tick, TB!Elapse, TB!Filled, Filled
  <2> QED  BY <2>3 DEF TB!Next
<1>4. CASE Sweep
  <2>1. ASSUME NEW c \in present, Stale(c) PROVE tokens[c] = Capacity
    <3>1. c \in Clients /\ idle[c] \in Nat /\ tokens[c] \in 0..Capacity
          /\ idle[c] - MaxHold >= EvictAfter + 1 - MaxHold
      BY <2>1, LimiterConfig DEF Inv, TypeOK, Stale
    <3>2. Gained(idle[c] - MaxHold) >= Gained(EvictAfter + 1 - MaxHold)
      <4>1. idle[c] - MaxHold \in Int /\ EvictAfter + 1 - MaxHold \in Int
        BY <3>1, LimiterConfig
      <4> QED  BY <3>1, <4>1, Gains
    <3>3. Gained(EvictAfter + 1 - MaxHold) >= Capacity
      BY DEF RefilledByEviction, Gained
    <3>4. Gained(idle[c] - MaxHold) \in Int /\ Gained(EvictAfter + 1 - MaxHold) \in Int
      <4>1. idle[c] - MaxHold \in Int /\ EvictAfter + 1 - MaxHold \in Int
        BY <3>1, LimiterConfig
      <4> QED  BY <4>1, Gains, SMTT(20), Z3T(20)
    <3>5. tokens[c] = Capacity \/ tokens[c] >= Gained(idle[c] - MaxHold)
      BY <3>1 DEF Inv, Refilled
    <3> QED  BY <3>1, <3>2, <3>3, <3>4, <3>5, CapacityType
  <2>2. \A c \in Clients : c \notin present' => tokens[c] = Capacity
    BY <1>4, <2>1 DEF Sweep, Inv, Refilled
  <2>3. tokens' = tokens
    BY <1>4, <2>2 DEF Sweep, Inv, TypeOK
  <2> QED  BY <1>4, <2>3 DEF Sweep, requests, TB!vars
<1>5. CASE Cutoff
  BY <1>5 DEF Cutoff, entries, requests, TB!vars
<1>6. CASE UNCHANGED vars
  BY <1>6 DEF vars, entries, requests, TB!vars
<1> QED  BY <1>1, <1>2, <1>3, <1>4, <1>5, <1>6 DEF Next

\* A limiter whose bucket refills before cleanup may drop it is a token bucket
\* per client: eviction (ratelimit.go:80-84) changes nobody's verdict.
THEOREM BucketRefinement ==
  ASSUME RefilledByEviction
  PROVE  Spec => IdealBucket
<1>1. Init => TB!Init
  BY DEF Init, TB!Init
<1>2. Inv /\ [Next]_vars => [TB!Next]_(TB!vars)
  BY BucketStep
<1> QED  BY <1>1, <1>2, Invariance, PTL DEF Spec, IdealBucket, TB!Spec
=============================================================================
