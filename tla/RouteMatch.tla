----------------------------- MODULE RouteMatch -----------------------------
(***************************************************************************)
(* Gateway.ServeHTTP and Gateway.match (internal/proxy/gateway.go): the    *)
(* linear scan that picks the route of a request from the table it loaded, *)
(* by a score that adds the length of the path prefix and a bonus for a    *)
(* route bound to a host.                                                  *)
(*                                                                         *)
(* A path or prefix is a sequence of characters.  A host stands for all    *)
(* its spellings in upper and lower case, which strings.EqualFold does not *)
(* tell apart; AnyHost is the empty host of a route that takes every one.  *)
(***************************************************************************)
EXTENDS Integers, Sequences

CONSTANTS Hosts,       \* hosts of requests and of host-bound routes
          AnyHost,     \* ""
          Chars,       \* characters of paths
          MaxLen,      \* bound on the length of paths and prefixes
          HostBonus    \* 10000

Strings == UNION {[1..n -> Chars] : n \in 0..MaxLen}
Entries == [host : Hosts \cup {AnyHost}, prefix : Strings]

\* A prefix is shorter than the bonus.
ASSUME MatchConfig ==
  /\ AnyHost \notin Hosts
  /\ MaxLen \in Nat
  /\ HostBonus \in Nat /\ MaxLen < HostBonus

VARIABLES routes,      \* the table
          host, path,  \* the request
          i,           \* the entry match looks at next
          best,        \* the index of the entry best points to, 0 for nil
          bestScore,
          result       \* what ServeHTTP does: "pending", "handled", "notFound"

request == <<routes, host, path>>
vars == <<request, i, best, bestScore, result>>

HasPrefix(s, p) == Len(p) <= Len(s) /\ \A k \in 1..Len(p) : s[k] = p[k]

\* Before the loop.
MatchStart ==
  /\ i = 1
  /\ best = 0
  /\ bestScore = -1
  /\ result = "pending"

Matches(r) == r.host \in {AnyHost, host} /\ HasPrefix(path, r.prefix)

\* Variant of score: the bonus goes to the routes without a host.
scoreSwapped(r) == Len(r.prefix) + IF r.host = AnyHost THEN HostBonus ELSE 0

score(r) == Len(r.prefix) + IF r.host # AnyHost THEN HostBonus ELSE 0

\* One turn of the loop.
Consider ==
  /\ i <= Len(routes)
  /\ IF Matches(routes[i]) /\ score(routes[i]) > bestScore
     THEN best' = i /\ bestScore' = score(routes[i])
     ELSE UNCHANGED <<best, bestScore>>
  /\ i' = i + 1
  /\ UNCHANGED <<request, result>>

ServeHTTP ==
  /\ i > Len(routes)
  /\ result = "pending"
  /\ result' = IF best = 0 THEN "notFound" ELSE "handled"
  /\ UNCHANGED <<request, i, best, bestScore>>
-----------------------------------------------------------------------------
(***************************************************************************)
(* The reference.  A host-bound route comes before one that takes every    *)
(* host, then the longer prefix before the shorter, then the route that    *)
(* stands earlier in the configuration.                                    *)
(***************************************************************************)
Precedes(j, k) ==
  LET a == routes[j]
      b == routes[k]
  IN  \/ a.host # AnyHost /\ b.host = AnyHost
      \/ /\ (a.host = AnyHost) = (b.host = AnyHost)
         /\ \/ Len(a.prefix) > Len(b.prefix)
            \/ Len(a.prefix) = Len(b.prefix) /\ j < k

\* "Longest-prefix route matching", "Deterministic route precedence": a request
\* is handled by the one matching route that precedes all the others, and gets a
\* 404 only when no route matches (gateway.go:73-116).  Prefixes are shorter than
\* the bonus of a host; a longer one would outweigh it.
RightRoute ==
  /\ result = "handled" =>
       /\ best \in 1..Len(routes)
       /\ Matches(routes[best])
       /\ \A k \in 1..Len(routes) : Matches(routes[k]) /\ k # best => Precedes(best, k)
  /\ result = "notFound" => \A k \in 1..Len(routes) : ~Matches(routes[k])
=============================================================================
