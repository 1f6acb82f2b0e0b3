----------------------------- MODULE RateLimiter -----------------------------
(***************************************************************************)
(* internal/middleware/ratelimit.go: a token bucket per client address in  *)
(* a map guarded by a mutex.  A request looks its bucket up under the lock *)
(* (get) and then takes a token from it outside (Allow); a background      *)
(* goroutine computes a cutoff, takes the lock and drops the entries not   *)
(* seen since (cleanup).  An address whose entry was dropped starts again  *)
(* with a full bucket.                                                     *)
(*                                                                         *)
(* The buckets are golang.org/x/time/rate limiters, modelled from their    *)
(* use: full when made, Refill units per tick of the clock, Price units    *)
(* per request (so that a rate below one request per tick is a Refill      *)
(* below Price), never above Capacity = burst * Price.                     *)
(*                                                                         *)
(* Time is relative: idle[c] is the age of lastSeen, cutoffAge that of the *)
(* clock reading cutoff was computed from, held[r] the time a request has  *)
(* spent between get and Allow.  A goroutine takes at most MaxHold ticks   *)
(* from one of these statements to the next.  idle is capped at MaxAge,    *)
(* beyond which every cutoff finds the entry stale.                        *)
(***************************************************************************)
EXTENDS Integers

CONSTANTS Clients,      \* client addresses
          Requests,     \* the handler goroutines
          Burst,        \* burst
          Refill,       \* rps, in units per tick
          Price,        \* units per request
          EvictAfter,   \* the 10 minutes of cleanup, in ticks
          MaxHold       \* what a goroutine may lose between two statements

ASSUME LimiterConfig ==
  /\ Burst \in Nat
  /\ Refill \in Nat
  /\ Price \in Nat \ {0}
  /\ EvictAfter \in Nat \ {0}
  /\ MaxHold \in 0..EvictAfter

Capacity == Burst * Price
MaxAge == EvictAfter + MaxHold + 1

VARIABLES present,      \* the addresses that have an entry in ips
          tokens,       \* what their limiters hold
          idle,         \* age of lastSeen
          pc,           \* "idle" or "allow", of each request
          ip,           \* what clientIP returned for it
          held,         \* time since its get
          verdict,      \* "admitted", "denied" (429), or "none"
          sweeping,     \* cleanup has computed a cutoff it has not used yet
          cutoffAge     \* and how long ago

entries == <<present, tokens, idle>>
requests == <<pc, ip, held, verdict>>
cleaner == <<sweeping, cutoffAge>>
vars == <<entries, requests, cleaner>>

Older(age) == IF age < MaxAge THEN age + 1 ELSE MaxAge
Filled(t) == IF t + Refill > Capacity THEN Capacity ELSE t + Refill

\* The first address of X-Forwarded-For, or else the peer's.
clientIP(forwarded, peer) == IF forwarded \in Clients THEN forwarded ELSE peer

Init ==
  /\ present = {}
  /\ tokens = [c \in Clients |-> Capacity]
  /\ idle = [c \in Clients |-> 0]
  /\ pc = [r \in Requests |-> "idle"]
  /\ ip \in [Requests -> Clients]
  /\ held = [r \in Requests |-> 0]
  /\ verdict = [r \in Requests |-> "none"]
  /\ sweeping = FALSE
  /\ cutoffAge = 0
-----------------------------------------------------------------------------
\* Variant of get: an entry that is there is returned without touching lastSeen.
getUnseen(r, c) ==
  /\ present' = present \cup {c}
  /\ tokens' = [tokens EXCEPT ![c] = IF c \in present THEN @ ELSE Capacity]
  /\ idle' = [idle EXCEPT ![c] = IF c \in present THEN @ ELSE 0]

get(r, c) ==
  /\ present' = present \cup {c}
  /\ tokens' = [tokens EXCEPT ![c] = IF c \in present THEN @ ELSE Capacity]
  /\ idle' = [idle EXCEPT ![c] = 0]

\* A request arrives and looks its limiter up.
Lookup(r, forwarded, peer) ==
  /\ pc[r] = "idle"
  /\ get(r, clientIP(forwarded, peer))
  /\ ip' = [ip EXCEPT ![r] = clientIP(forwarded, peer)]
  /\ held' = [held EXCEPT ![r] = 0]
  /\ verdict' = [verdict EXCEPT ![r] = "none"]
  /\ pc' = [pc EXCEPT ![r] = "allow"]
  /\ UNCHANGED cleaner

\* Variant of Allow: the answer of the limiter is ignored.
AllowIgnored(r) ==
  /\ pc[r] = "allow"
  /\ tokens' = [tokens EXCEPT ![ip[r]] = @ - Price]
  /\ verdict' = [verdict EXCEPT ![r] = "admitted"]
  /\ pc' = [pc EXCEPT ![r] = "idle"]
  /\ held' = [held EXCEPT ![r] = 0]
  /\ UNCHANGED <<present, idle, ip, cleaner>>

\* lim.Allow(), and the 429 if it refuses.  The limiter is the one get found:
\* NoOrphan says that it is still the one in the map.
Allow(r) ==
  /\ pc[r] = "allow"
  /\ \/ /\ tokens[ip[r]] >= Price
        /\ tokens' = [tokens EXCEPT ![ip[r]] = @ - Price]
        /\ verdict' = [verdict EXCEPT ![r] = "admitted"]
     \/ /\ tokens[ip[r]] < Price
        /\ verdict' = [verdict EXCEPT ![r] = "denied"]
        /\ UNCHANGED tokens
  /\ pc' = [pc EXCEPT ![r] = "idle"]
  /\ held' = [held EXCEPT ![r] = 0]
  /\ UNCHANGED <<present, idle, ip, cleaner>>

\* The ticker fires; cutoff is computed before the lock is taken.
Cutoff ==
  /\ ~sweeping
  /\ sweeping' = TRUE
  /\ cutoffAge' = 0
  /\ UNCHANGED <<entries, requests>>

\* Variant of Stale: entries as old as the cutoff go too.
StaleEarly(c) == idle[c] >= EvictAfter + cutoffAge

\* Variant of Stale: the operands of Before are swapped.
StaleSwapped(c) == idle[c] < EvictAfter + cutoffAge

\* lastSeen is before the cutoff.
Stale(c) == idle[c] > EvictAfter + cutoffAge

Sweep ==
  /\ sweeping
  /\ present' = {c \in present : ~Stale(c)}
  /\ idle' = [c \in Clients |-> IF c \in present' THEN idle[c] ELSE 0]
  /\ tokens' = [c \in Clients |-> IF c \in present' THEN tokens[c] ELSE Capacity]
  /\ sweeping' = FALSE
  /\ cutoffAge' = 0
  /\ UNCHANGED requests

Tick ==
  /\ \A r \in Requests : pc[r] = "allow" => held[r] < MaxHold
  /\ sweeping => cutoffAge < MaxHold
  /\ tokens' = [c \in Clients |-> IF c \in present THEN Filled(tokens[c]) ELSE Capacity]
  /\ idle' = [c \in Clients |-> IF c \in present THEN Older(idle[c]) ELSE 0]
  /\ held' = [r \in Requests |-> IF pc[r] = "allow" THEN held[r] + 1 ELSE 0]
  /\ cutoffAge' = IF sweeping THEN cutoffAge + 1 ELSE 0
  /\ UNCHANGED <<present, pc, ip, verdict, sweeping>>

Next ==
  \/ \E r \in Requests :
       \/ Allow(r)
       \/ \E forwarded \in Clients \cup {"none"}, peer \in Clients : Lookup(r, forwarded, peer)
  \/ Cutoff \/ Sweep \/ Tick

Spec == Init /\ [][Next]_vars
-----------------------------------------------------------------------------
\* Every variable has its type; in particular no limiter ever holds less than
\* nothing or more than the burst (ratelimit.go:36, 64).
TypeOK ==
  /\ present \subseteq Clients
  /\ tokens \in [Clients -> 0..Capacity]
  /\ idle \in [Clients -> 0..MaxAge]
  /\ pc \in [Requests -> {"idle", "allow"}]
  /\ ip \in [Requests -> Clients]
  /\ held \in [Requests -> 0..MaxHold]
  /\ verdict \in [Requests -> {"none", "admitted", "denied"}]
  /\ sweeping \in BOOLEAN
  /\ cutoffAge \in 0..MaxHold

\* No request takes its token from a limiter that cleanup has dropped from the
\* map meanwhile (ratelimit.go:33-35, 78-85): the next request of that client
\* would get a second bucket beside it.
NoOrphan == \A r \in Requests : pc[r] = "allow" => ip[r] \in present

TB == INSTANCE TokenBucket WITH level <- tokens

\* "a per-IP token-bucket rate limiter": dropping idle entries and starting them
\* afresh is invisible, every client gets exactly the verdicts of one bucket of
\* its own that is never dropped.
IdealBucket == TB!Spec

\* A bucket that is dropped would have been full by then, even when its last
\* token was taken as late as possible after lastSeen was set.
RefilledByEviction == Refill * (EvictAfter + 1 - MaxHold) >= Capacity
-----------------------------------------------------------------------------
(***************************************************************************)
(* Liveness: handlers get on, the ticker of cleanup keeps firing, and time *)
(* passes.                                                                 *)
(***************************************************************************)
Fairness ==
  /\ \A r \in Requests : WF_vars(Allow(r))
  /\ WF_vars(Cutoff) /\ WF_vars(Sweep) /\ WF_vars(Tick)

FairSpec == Spec /\ Fairness

\* "evicts entries not seen in the last 10 minutes": no entry stays in the map
\* for ever unless its client comes back.
StaleEvicted ==
  \A c \in Clients : c \in present /\ idle[c] > 0 ~> c \notin present \/ idle[c] = 0
=============================================================================
