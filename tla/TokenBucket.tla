----------------------------- MODULE TokenBucket -----------------------------
(***************************************************************************)
(* What a per-client rate limiter promises: each client has one bucket,    *)
(* full at first, that is refilled at a fixed rate up to its capacity; a   *)
(* request is admitted exactly when the bucket holds the price of one.     *)
(***************************************************************************)
EXTENDS Integers

CONSTANTS Clients,    \* the clients
          Requests,   \* the requests that may be under way at a time
          Capacity,   \* what a full bucket holds,
          Refill,     \*   what it gains in a tick of the clock
          Price       \*   and what a request costs

VARIABLES level,      \* the bucket of each client
          verdict     \* what each request was told: "none", "admitted", "denied"

vars == <<level, verdict>>

Filled(l) == IF l + Refill > Capacity THEN Capacity ELSE l + Refill

Init ==
  /\ level = [c \in Clients |-> Capacity]
  /\ verdict = [r \in Requests |-> "none"]

Arrive(r) ==
  /\ verdict' = [verdict EXCEPT ![r] = "none"]
  /\ UNCHANGED level

Decide(r, c) ==
  \/ /\ level[c] >= Price
     /\ level' = [level EXCEPT ![c] = @ - Price]
     /\ verdict' = [verdict EXCEPT ![r] = "admitted"]
  \/ /\ level[c] < Price
     /\ verdict' = [verdict EXCEPT ![r] = "denied"]
     /\ UNCHANGED level

Elapse ==
  /\ level' = [c \in Clients |-> Filled(level[c])]
  /\ UNCHANGED verdict

Next ==
  \/ Elapse
  \/ \E r \in Requests : Arrive(r) \/ \E c \in Clients : Decide(r, c)

Spec == Init /\ [][Next]_vars
=============================================================================
