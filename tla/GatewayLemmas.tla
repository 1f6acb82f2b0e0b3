---------------------------- MODULE GatewayLemmas ----------------------------
(***************************************************************************)
(* What the loops on a request's way through the gateway compute, for      *)
(* lists of any length: the transformers' loops over their renames, the    *)
(* one over the claims of a token, the two that build chains of plugins,   *)
(* the declaration of trailers, the passage through several writers, and   *)
(* the scan for a route.                                                   *)
(*                                                                         *)
(* All but the scan are a Loop of Headers.  The provers do not reason      *)
(* about an operator that is an argument: Turn holds the bodies of all     *)
(* loops, told apart by a tag, and FoldTurns shows once that such a loop   *)
(* takes its turns one after the other.  What holds after every turn then  *)
(* follows from SetInduction, which is about sets of numbers and not about *)
(* predicates.                                                             *)
(***************************************************************************)
EXTENDS Gateway, WellFoundedInduction, TLAPS

\* The body of the loop that e names.
Turn(e, x, y) ==
  CASE e[1] = "rename"  -> Rename(x, y, e[2][y])
    [] e[1] = "claim"   -> (IF y \in DOMAIN e[2] THEN Put(x, NameIn(e[3][y]), e[2][y]) ELSE x)
    [] e[1] = "use"     -> (IF Usable(e[2][y]) THEN Append(x, y) ELSE x)
    [] e[1] = "build"   -> (IF Usable(e[2][y]) THEN Wrapped(y, x) ELSE x)
    [] e[1] = "declare" -> Add(x, "Trailer", <<y>>)
    [] e[1] = "write"   -> Written(x, y)
    [] e[1] = "edit"    -> EditedBy(x, y)

\* A loop over s that starts with base.
Fold(e, base, s) == Loop(LAMBDA x, y : Turn(e, x, y), base, s)

\* What the loop holds after each of its turns.
Turns(turn, e, base, s) ==
  /\ turn[0] = base
  /\ \A n \in 0..Len(s) - 1 : turn[n + 1] = Turn(e, turn[n], s[n + 1])
  /\ turn[Len(s)] = Fold(e, base, s)
-----------------------------------------------------------------------------
\* A set of natural numbers has a least element.
LEMMA Least ==
  ASSUME NEW T \in SUBSET Nat, T # {}
  PROVE  \E x \in T : \A y \in T : x <= y
<1> DEFINE R == {ss \in Nat \X Nat : ss[1] < ss[2]}
<1>1. IsWellFoundedOn(R, Nat)
  BY NatLessThanWellFounded, Zenon DEF OpToRel
<1>2. PICK x \in T : \A y \in T : ~(<<y, x>> \in R)
  <2> HIDE DEF R
  <2> QED BY <1>1, WFMin, Zenon
<1>3. \A y \in T : ~(y < x)
  BY <1>2, Zenon
<1> QED BY <1>3

\* Induction up to a bound, for the numbers of a set.
LEMMA SetInduction ==
  ASSUME NEW N \in Nat, NEW T, 0 \in T, \A n \in 0..N - 1 : n \in T => n + 1 \in T
  PROVE  N \in T
<1> SUFFICES ASSUME N \notin T PROVE FALSE
  OBVIOUS
<1>1. PICK x \in (0..N \ T) : \A y \in (0..N \ T) : x <= y
  <2>1. 0..N \ T \in SUBSET Nat /\ 0..N \ T # {}
    OBVIOUS
  <2> QED BY <2>1, Least, Zenon
<1>2. x # 0 /\ x - 1 \in 0..N - 1
  BY <1>1
<1> QED BY <1>1, <1>2

\* Max of a nonempty set of numbers up to n.
LEMMA MaxIn ==
  ASSUME NEW n \in Nat, NEW S \in SUBSET (1..n), S # {}
  PROVE  Max(S) \in S /\ \A y \in S : Max(S) >= y
<1> DEFINE T == {m \in 0..n : \A y \in S : y <= m}
<1>1. T \in SUBSET Nat /\ n \in T
  OBVIOUS
<1>2. PICK m \in T : \A y \in T : m <= y
  <2> HIDE DEF T
  <2> QED BY <1>1, Least
<1>3. m \in S
  <2> SUFFICES ASSUME m \notin S PROVE FALSE
    OBVIOUS
  <2>1. m # 0
    <3>1. PICK y \in S : y \in 1..n /\ y <= m
      BY <1>2, Zenon
    <3> QED BY <3>1
  <2>2. m - 1 \in T
    BY <2>1
  <2> QED BY <2>2, <1>2
<1>4. \E x \in S : \A y \in S : x >= y
  BY <1>3
<1> QED BY <1>4, Zenon DEF Max

\* A fold takes its turns one after the other.
LEMMA FoldTurns ==
  ASSUME NEW e, NEW base, NEW S, NEW s \in Seq(S)
  PROVE  \E turn : Turns(turn, e, base, s)
<1> DEFINE N == Len(s)
           Step(g, d) == IF d = {} THEN base ELSE Turn(e, g[d \ {Max(d)}], s[Max(d)])
           Sol(g, n) == g = [d \in SUBSET (1..n) |-> Step(g, d)]
           T == {n \in 0..N : \E g : Sol(g, n)}
<1>0. N \in Nat /\ DOMAIN s = 1..N
  OBVIOUS
<1> HIDE DEF N
<1>1. 0 \in T
  <2>1. Sol([d \in SUBSET (1..0) |-> base], 0)
    <3>1. SUBSET (1..0) = {{}}
      OBVIOUS
    <3> QED BY <3>1
  <2> HIDE DEF Sol
  <2> QED BY <2>1, <1>0
<1>2. ASSUME NEW n \in 0..N - 1, n \in T PROVE n + 1 \in T
  <2>0. n \in Nat /\ n + 1 \in Nat /\ n + 1 \in 0..N
    BY <1>0
  <2>1. PICK g : Sol(g, n)
    BY <1>2, Zenon
  <2> DEFINE f == [d \in SUBSET (1..n + 1) |->
                     IF n + 1 \in d THEN Turn(e, g[d \ {n + 1}], s[n + 1]) ELSE g[d]]
  <2>2. ASSUME NEW d \in SUBSET (1..n + 1) PROVE f[d] = Step(f, d)
    <3>1. CASE d = {}
      <4>1. g[d] = base
        BY <2>1, <3>1
      <4>2. f[d] = g[d]
        BY <3>1
      <4> QED BY <4>1, <4>2, <3>1
    <3>2. CASE n + 1 \in d
      <4>1. Max(d) = n + 1
        <5>1. d # {}
          BY <3>2
        <5>2. Max(d) \in d /\ \A y \in d : Max(d) >= y
          <6> HIDE DEF f
          <6> QED BY <5>1, <2>0, MaxIn, Zenon
        <5>3. Max(d) \in 1..n + 1 /\ Max(d) >= n + 1
          BY <5>2, <3>2, Zenon
        <5> QED BY <5>3, <2>0
      <4>2. f[d \ {n + 1}] = g[d \ {n + 1}]
        OBVIOUS
      <4> QED BY <4>1, <4>2, <3>2
    <3>3. CASE d # {} /\ n + 1 \notin d
      <4>1. d \in SUBSET (1..n) /\ d \ {Max(d)} \in SUBSET (1..n)
        <5>1. ASSUME NEW y \in d PROVE y \in 1..n
          BY <3>3, <2>0
        <5> QED BY <5>1, Zenon
      <4>2. g[d] = Step(g, d)
        BY <2>1, <4>1, Zenon
      <4>3. f[d] = g[d] /\ f[d \ {Max(d)}] = g[d \ {Max(d)}]
        BY <4>1, <3>3
      <4> QED BY <4>2, <4>3, <3>3
    <3> QED BY <3>1, <3>2, <3>3
  <2>3. Sol(f, n + 1)
    <3> HIDE DEF Step
    <3> QED BY <2>2, Zenon
  <2> HIDE DEF Sol, f
  <2> QED BY <2>3, <2>0
<1>3. N \in T
  <2> HIDE DEF T
  <2> QED BY <1>0, <1>1, <1>2, SetInduction
<1> DEFINE iter == CHOOSE g : Sol(g, N)
<1>4. Sol(iter, N)
  <2>1. \E g : Sol(g, N)
    <3> HIDE DEF Sol
    <3> QED BY <1>3
  <2> HIDE DEF Sol
  <2> QED BY <2>1
<1>5. Fold(e, base, s) = iter[1..N]
  BY <1>0, Zenon DEF Fold, Loop, MapThenFoldSet
<1> HIDE DEF iter
<1> DEFINE turn == [k \in 0..N |-> iter[1..k]]
<1>6. turn[0] = base
  <2>1. 1..0 = {} /\ {} \in SUBSET (1..N)
    OBVIOUS
  <2>2. iter[{}] = base
    BY <1>4, <2>1
  <2> QED BY <1>0, <2>1, <2>2
<1>7. ASSUME NEW k \in 1..N PROVE turn[k] = Turn(e, turn[k - 1], s[k])
  <2>0. k \in Nat /\ k \in 1..k /\ 1..k \subseteq 1..N
    BY <1>0
  <2>1. 1..k \in SUBSET (1..N) /\ 1..k # {} /\ (1..k) \ {k} = 1..k - 1
    BY <2>0, SMTT(20), Z3T(20)
  <2>2. Max(1..k) = k
    <3>1. Max(1..k) \in 1..k /\ Max(1..k) >= k
      BY <2>0, <2>1, MaxIn, Zenon
    <3> QED BY <3>1
  <2>3. iter[1..k] = Turn(e, iter[1..k - 1], s[k])
    BY <1>4, <2>1, <2>2, Zenon
  <2>4. turn[k] = iter[1..k] /\ turn[k - 1] = iter[1..k - 1]
    BY <1>0
  <2> QED BY <2>3, <2>4
<1>8. turn[N] = iter[1..N]
  BY <1>0
<1> HIDE DEF turn
<1>9. ASSUME NEW n \in 0..N - 1 PROVE turn[n + 1] = Turn(e, turn[n], s[n + 1])
  <2>1. n + 1 \in 1..N /\ n + 1 - 1 = n
    BY <1>0
  <2> QED BY <1>7, <2>1
<1>10. WITNESS turn
<1> QED BY <1>5, <1>6, <1>8, <1>9 DEF N, Turns

\* An element more is a turn more.
LEMMA FoldAppend ==
  ASSUME NEW e, NEW base, NEW S, NEW s \in Seq(S), NEW y \in S
  PROVE  Fold(e, base, Append(s, y)) = Turn(e, Fold(e, base, s), y)
<1> DEFINE t == Append(s, y)
<1>1. /\ t \in Seq(S) /\ Len(s) \in Nat /\ Len(t) = Len(s) + 1
      /\ t[Len(s) + 1] = y /\ \A k \in 1..Len(s) : t[k] = s[k]
  OBVIOUS
<1> HIDE DEF t
<1>2. PICK a : Turns(a, e, base, s)
  BY FoldTurns, Zenon
<1>3. PICK b : Turns(b, e, base, t)
  BY <1>1, FoldTurns, Zenon
<1> DEFINE D == {k \in 0..Len(s) : a[k] = b[k]}
<1>4. 0 \in D
  BY <1>1, <1>2, <1>3 DEF Turns
<1>5. ASSUME NEW n \in 0..Len(s) - 1, n \in D PROVE n + 1 \in D
  <2>1. n + 1 \in 1..Len(s) /\ n + 1 \in 0..Len(s) /\ n \in 0..Len(t) - 1
    BY <1>1
  <2>2. a[n + 1] = Turn(e, a[n], s[n + 1]) /\ b[n + 1] = Turn(e, b[n], t[n + 1]) /\ t[n + 1] = s[n + 1]
    BY <1>1, <1>2, <1>3, <2>1 DEF Turns
  <2> QED BY <2>1, <2>2, <1>5
<1>6. a[Len(s)] = b[Len(s)]
  <2>1. Len(s) \in D
    <3> HIDE DEF D
    <3> QED BY <1>1, <1>4, <1>5, SetInduction
  <2> QED BY <2>1
<1>7. Len(s) \in 0..Len(t) - 1
  BY <1>1
<1>8. b[Len(s) + 1] = Turn(e, b[Len(s)], y)
  BY <1>1, <1>3, <1>7 DEF Turns
<1> QED BY <1>1, <1>2, <1>3, <1>6, <1>8 DEF t, Turns

\* The loop over the renames of a transformer (request_transformer.go, response_transformer.go).
LEMMA RenamesFold ==
  ASSUME NEW h, NEW rename, NEW order
  PROVE  Renamed(h, rename, order) = Fold(<<"rename", rename>>, h, order)
<1> DEFINE A(g) == [d \in SUBSET DOMAIN order |->
                      IF d = {} THEN h ELSE Turn(<<"rename", rename>>, g[d \ {Max(d)}], order[Max(d)])]
           B(g) == [d \in SUBSET DOMAIN order |->
                      IF d = {} THEN h ELSE Rename(g[d \ {Max(d)}], order[Max(d)], rename[order[Max(d)]])]
<1>1. \A g : A(g) = B(g)
  BY DEF Turn
<1>2. (CHOOSE g : g = A(g)) = (CHOOSE g : g = B(g))
  <2> HIDE DEF A, B
  <2> QED BY <1>1
<1>3. Fold(<<"rename", rename>>, h, order) = (CHOOSE g : g = A(g))[DOMAIN order]
  BY Zenon DEF Fold, Loop, MapThenFoldSet
<1>4. Renamed(h, rename, order) = (CHOOSE g : g = B(g))[DOMAIN order]
  BY Zenon DEF Renamed, Loop, MapThenFoldSet
<1> HIDE DEF A, B
<1> QED BY <1>2, <1>3, <1>4, Zenon

\* The loop of jwt.go that writes claims into headers.
LEMMA ClaimsFold ==
  ASSUME NEW h, NEW claims, NEW map, NEW order
  PROVE  Claimed(h, claims, map, order) = Fold(<<"claim", claims, map>>, h, order)
<1> DEFINE A(g) == [d \in SUBSET DOMAIN order |->
                      IF d = {} THEN h ELSE Turn(<<"claim", claims, map>>, g[d \ {Max(d)}], order[Max(d)])]
           B(g) == [d \in SUBSET DOMAIN order |->
                      IF d = {} THEN h ELSE (IF order[Max(d)] \in DOMAIN claims THEN Put(g[d \ {Max(d)}], NameIn(map[order[Max(d)]]), claims[order[Max(d)]]) ELSE g[d \ {Max(d)}])]
<1>1. \A g : A(g) = B(g)
  BY DEF Turn
<1>2. (CHOOSE g : g = A(g)) = (CHOOSE g : g = B(g))
  <2> HIDE DEF A, B
  <2> QED BY <1>1
<1>3. Fold(<<"claim", claims, map>>, h, order) = (CHOOSE g : g = A(g))[DOMAIN order]
  BY Zenon DEF Fold, Loop, MapThenFoldSet
<1>4. Claimed(h, claims, map, order) = (CHOOSE g : g = B(g))[DOMAIN order]
  BY Zenon DEF Claimed, Loop, MapThenFoldSet
<1> HIDE DEF A, B
<1> QED BY <1>2, <1>3, <1>4, Zenon

\* The loop of router.New over the global plugins.
LEMMA UseFold ==
  ASSUME NEW list
  PROVE  UseGlobal(list) = Fold(<<"use", list>>, <<>>, [k \in 1..Len(list) |-> k])
<1> DEFINE s == [k \in 1..Len(list) |-> k]
<1> DEFINE A(g) == [d \in SUBSET DOMAIN s |->
                      IF d = {} THEN <<>> ELSE Turn(<<"use", list>>, g[d \ {Max(d)}], s[Max(d)])]
           B(g) == [d \in SUBSET DOMAIN s |->
                      IF d = {} THEN <<>> ELSE (IF Usable(list[s[Max(d)]]) THEN Append(g[d \ {Max(d)}], s[Max(d)]) ELSE g[d \ {Max(d)}])]
<1>1. \A g : A(g) = B(g)
  <2> HIDE DEF s
  <2> QED BY DEF Turn
<1>2. (CHOOSE g : g = A(g)) = (CHOOSE g : g = B(g))
  <2> HIDE DEF A, B
  <2> QED BY <1>1
<1>3. Fold(<<"use", list>>, <<>>, s) = (CHOOSE g : g = A(g))[DOMAIN s]
  BY Zenon DEF Fold, Loop, MapThenFoldSet
<1>4. UseGlobal(list) = (CHOOSE g : g = B(g))[DOMAIN s]
  BY Zenon DEF UseGlobal, Loop, MapThenFoldSet
<1> HIDE DEF A, B
<1> QED BY <1>2, <1>3, <1>4, Zenon

\* The loop of buildPluginChain over the plugins of a route.
LEMMA BuildFold ==
  ASSUME NEW list
  PROVE  buildPluginChain(list) = Fold(<<"build", list>>, <<>>, [k \in 1..Len(list) |-> Len(list) + 1 - k])
<1> DEFINE s == [k \in 1..Len(list) |-> Len(list) + 1 - k]
<1> DEFINE A(g) == [d \in SUBSET DOMAIN s |->
                      IF d = {} THEN <<>> ELSE Turn(<<"build", list>>, g[d \ {Max(d)}], s[Max(d)])]
           B(g) == [d \in SUBSET DOMAIN s |->
                      IF d = {} THEN <<>> ELSE (IF Usable(list[s[Max(d)]]) THEN Wrapped(s[Max(d)], g[d \ {Max(d)}]) ELSE g[d \ {Max(d)}])]
<1>1. \A g : A(g) = B(g)
  <2> HIDE DEF s
  <2> QED BY DEF Turn
<1>2. (CHOOSE g : g = A(g)) = (CHOOSE g : g = B(g))
  <2> HIDE DEF A, B
  <2> QED BY <1>1
<1>3. Fold(<<"build", list>>, <<>>, s) = (CHOOSE g : g = A(g))[DOMAIN s]
  BY Zenon DEF Fold, Loop, MapThenFoldSet
<1>4. buildPluginChain(list) = (CHOOSE g : g = B(g))[DOMAIN s]
  BY Zenon DEF buildPluginChain, Loop, MapThenFoldSet
<1> HIDE DEF A, B
<1> QED BY <1>2, <1>3, <1>4, Zenon
-----------------------------------------------------------------------------
\* A function on S.
IsFun(f, S) == f = [x \in S |-> f[x]]

\* The sequence has every element of the set once.
Lists(order, S) ==
  /\ order \in Seq(S)
  /\ \A j, k \in 1..Len(order) : order[j] = order[k] => j = k
  /\ \A x \in S : \E k \in 1..Len(order) : order[k] = x

\* An order in which a map may be met has every key of it once.
LEMMA OrderOf ==
  ASSUME NEW S, NEW order \in Orders(S)
  PROVE  Lists(order, S)
<1> DEFINE D == 1..Cardinality(S)
<1>1. order \in Injection(D, S) /\ order \in Surjection(D, S) /\ order \in Seq(Range(order))
  BY DEF Orders, Bijection, IsSeq
<1> HIDE DEF D
<1>2. order \in [D -> S] /\ IsInjective(order) /\ \A x \in S : \E k \in D : order[k] = x
  BY <1>1 DEF Injection, Surjection
<1>3. D = 1..Len(order) /\ Len(order) \in Nat
  BY <1>1, <1>2
<1>4. order \in Seq(S)
  BY <1>2, <1>3
<1> QED BY <1>2, <1>3, <1>4 DEF IsInjective, Lists

\* The rename loop leaves the names alone that it does not mention, and only gives
\* values to the new ones.
LEMMA RenameStep ==
  ASSUME NEW h, NEW g, IsFun(g, DOMAIN h), NEW rename, NEW old \in DOMAIN rename,
         \A n \in DOMAIN h : n \notin DOMAIN rename \cup Range(rename) => g[n] = h[n],
         \A n \in DOMAIN h : n \notin Range(rename) => g[n] \in {h[n], <<>>}
  PROVE  LET f == Rename(g, old, rename[old])
         IN  /\ IsFun(f, DOMAIN h)
             /\ \A n \in DOMAIN h : n \notin DOMAIN rename \cup Range(rename) => f[n] = h[n]
             /\ \A n \in DOMAIN h : n \notin Range(rename) => f[n] \in {h[n], <<>>}
<1>1. CASE Get(g, old) = <<>>
  BY <1>1 DEF Rename
<1>2. CASE Get(g, old) # <<>>
  <2> DEFINE f == Rename(g, old, rename[old])
             p == Put(g, rename[old], Get(g, old))
  <2>1. rename[old] \in Range(rename)
    BY DEF Range
  <2>2. DOMAIN p = DOMAIN h /\ \A n \in DOMAIN h : n # rename[old] => p[n] = g[n]
    BY DEF Put, IsFun
  <2>3. f = Del(p, {old})
    BY <1>2 DEF Rename
  <2>4. f = [n \in DOMAIN h |-> IF n = old THEN <<>> ELSE p[n]]
    <3> HIDE DEF f, p
    <3> QED BY <2>2, <2>3 DEF Del
  <2> HIDE DEF f, p
  <2>5. IsFun(f, DOMAIN h)
    BY <2>4 DEF IsFun
  <2> QED BY <2>1, <2>2, <2>4, <2>5 DEF f
<1> QED BY <1>1, <1>2

\* So does the whole loop.
LEMMA RenameLoop ==
  ASSUME NEW h, IsFun(h, DOMAIN h), NEW rename, NEW order \in Seq(DOMAIN rename)
  PROVE  LET f == Renamed(h, rename, order)
         IN  /\ IsFun(f, DOMAIN h)
             /\ \A n \in DOMAIN h : n \notin DOMAIN rename \cup Range(rename) => f[n] = h[n]
             /\ \A n \in DOMAIN h : n \notin Range(rename) => f[n] \in {h[n], <<>>}
<1> DEFINE e == <<"rename", rename>>
           Good(g) == /\ IsFun(g, DOMAIN h)
                      /\ \A n \in DOMAIN h : n \notin DOMAIN rename \cup Range(rename) => g[n] = h[n]
                      /\ \A n \in DOMAIN h : n \notin Range(rename) => g[n] \in {h[n], <<>>}
<1>1. ASSUME NEW g, NEW old \in DOMAIN rename, Good(g) PROVE Good(Turn(e, g, old))
  BY <1>1, RenameStep DEF Turn
<1>2. PICK turn : Turns(turn, e, h, order)
  BY FoldTurns, Zenon
<1> DEFINE D == {k \in 0..Len(order) : Good(turn[k])}
<1>3. Len(order) \in Nat /\ \A k \in 1..Len(order) : order[k] \in DOMAIN rename
  OBVIOUS
<1>4. Good(h)
  OBVIOUS
<1> HIDE DEF Good, e
<1>5. 0 \in D
  BY <1>2, <1>3, <1>4 DEF Turns
<1>6. ASSUME NEW n \in 0..Len(order) - 1, n \in D PROVE n + 1 \in D
  <2>1. n + 1 \in 1..Len(order) /\ n + 1 \in 0..Len(order)
    BY <1>3
  <2>2. turn[n + 1] = Turn(e, turn[n], order[n + 1]) /\ order[n + 1] \in DOMAIN rename
    BY <1>2, <1>3, <2>1 DEF Turns
  <2> QED BY <2>1, <2>2, <1>6, <1>1
<1>7. Len(order) \in D
  <2> HIDE DEF D
  <2> QED BY <1>3, <1>5, <1>6, SetInduction
<1>8. Good(Fold(e, h, order))
  BY <1>2, <1>7 DEF Turns
<1> QED BY <1>8, RenamesFold DEF Good, e

\* Renames that are apart from each other, done of which are through.
Halfway(g, h, rename, done) ==
  /\ IsFun(g, DOMAIN h)
  /\ \A n \in DOMAIN h : n \notin DOMAIN rename \cup Range(rename) => g[n] = h[n]
  /\ \A old \in DOMAIN rename \cap DOMAIN h :
       g[old] = IF old \in done /\ Get(h, old) # <<>> THEN <<>> ELSE h[old]
  /\ \A old \in DOMAIN rename : rename[old] \in DOMAIN h =>
       g[rename[old]] = IF old \in done /\ Get(h, old) # <<>> THEN <<Get(h, old)>> ELSE h[rename[old]]

\* A turn puts one more rename through.
LEMMA ApartStep ==
  ASSUME NEW h, NEW rename, IsInjective(rename), Range(rename) \cap DOMAIN rename = {},
         NEW done, NEW old \in DOMAIN rename \ done, NEW g, Halfway(g, h, rename, done)
  PROVE  Halfway(Rename(g, old, rename[old]), h, rename, done \cup {old})
<1>1. DOMAIN g = DOMAIN h
  BY DEF Halfway, IsFun
<1>2. Get(g, old) = Get(h, old)
  BY <1>1 DEF Halfway, Get, Present
<1>3. \A o \in DOMAIN rename : o # old => rename[o] # rename[old]
  BY DEF IsInjective
<1>4. \A o \in DOMAIN rename : rename[o] \notin DOMAIN rename
  BY ZenonT(60) DEF Range
<1>5. CASE Get(h, old) = <<>>
  <2>1. Rename(g, old, rename[old]) = g
    BY <1>2, <1>5, ZenonT(60) DEF Rename
  <2> QED BY <2>1, <1>5 DEF Halfway
<1>6. CASE Get(h, old) # <<>>
  <2> DEFINE v == Get(h, old)
             f == Rename(g, old, rename[old])
  <2>1. f = [n \in DOMAIN h |-> IF n = old THEN <<>> ELSE IF n = rename[old] THEN <<v>> ELSE g[n]]
    <3>1. f = Del(Put(g, rename[old], v), {old})
      BY <1>2, <1>6 DEF Rename
    <3> HIDE DEF f, v
    <3> QED BY <3>1, <1>1 DEF Del, Put
  <2>2. rename[old] \in Range(rename)
    BY DEF Range
  <2>3. v # <<>> /\ v = Get(h, old)
    BY <1>6
  <2> HIDE DEF f, v
  <2>4. IsFun(f, DOMAIN h)
    BY <2>1, ZenonT(60) DEF IsFun
  <2>5. \A n \in DOMAIN h : n \notin DOMAIN rename \cup Range(rename) => f[n] = h[n]
    BY <2>1, <2>2, ZenonT(60) DEF Halfway
  <2>6. ASSUME NEW o \in DOMAIN rename \cap DOMAIN h
        PROVE f[o] = IF o \in done \cup {old} /\ Get(h, o) # <<>> THEN <<>> ELSE h[o]
    BY <2>1, <1>4, <2>3, ZenonT(60) DEF Halfway
  <2>7. ASSUME NEW o \in DOMAIN rename, rename[o] \in DOMAIN h
        PROVE f[rename[o]] = IF o \in done \cup {old} /\ Get(h, o) # <<>> THEN <<Get(h, o)>> ELSE h[rename[o]]
    BY <2>1, <2>7, <1>3, <1>4, <2>3, ZenonT(60) DEF Halfway
  <2> QED BY <2>4, <2>5, <2>6, <2>7, ZenonT(60) DEF Halfway, f
<1> QED BY <1>5, <1>6

\* In the end all are through, in whatever order the map was met.
LEMMA ApartLoop ==
  ASSUME NEW h, IsFun(h, DOMAIN h), NEW rename,
         IsInjective(rename), Range(rename) \cap DOMAIN rename = {},
         NEW order \in Orders(DOMAIN rename)
  PROVE  Halfway(Renamed(h, rename, order), h, rename, DOMAIN rename)
<1> DEFINE e == <<"rename", rename>>
           Seen(k) == {order[j] : j \in 1..k}
<1>1. /\ order \in Seq(DOMAIN rename)
      /\ \A j, k \in 1..Len(order) : order[j] = order[k] => j = k
      /\ \A x \in DOMAIN rename : \E k \in 1..Len(order) : order[k] = x
  <2>1. Lists(order, DOMAIN rename)
    BY OrderOf, Zenon
  <2> QED BY <2>1, Zenon DEF Lists
<1>2. PICK turn : Turns(turn, e, h, order)
  BY <1>1, FoldTurns, Zenon
<1> DEFINE D == {k \in 0..Len(order) : Halfway(turn[k], h, rename, Seen(k))}
<1>3. Len(order) \in Nat /\ \A k \in 1..Len(order) : order[k] \in DOMAIN rename
  BY <1>1, SMTT(20), Z3T(20)
<1>4. ASSUME NEW g, NEW old PROVE Turn(e, g, old) = Rename(g, old, rename[old])
  BY DEF Turn
<1>5. Halfway(h, h, rename, Seen(0))
  <2>1. Seen(0) = {}
    BY SMTT(20), Z3T(20)
  <2> HIDE DEF Seen
  <2> QED BY <2>1 DEF Halfway
<1> HIDE DEF e
<1>6. 0 \in D
  BY <1>2, <1>3, <1>5 DEF Turns
<1>7. ASSUME NEW n \in 0..Len(order) - 1, n \in D PROVE n + 1 \in D
  <2>1. n + 1 \in 1..Len(order) /\ n + 1 \in 0..Len(order) /\ n \in Nat
    BY <1>3, SMTT(20), Z3T(20)
  <2>2. turn[n + 1] = Rename(turn[n], order[n + 1], rename[order[n + 1]])
    BY <1>2, <1>4, <2>1, ZenonT(60) DEF Turns
  <2>3. order[n + 1] \in DOMAIN rename \ Seen(n)
    <3>1. ASSUME NEW j \in 1..n PROVE order[j] # order[n + 1]
      <4>1. j \in 1..Len(order) /\ j # n + 1
        BY <1>3, <2>1
      <4> QED BY <1>1, <2>1, <4>1, SMTT(20), Z3T(20)
    <3> QED BY <1>3, <2>1, <3>1, ZenonT(60)
  <2>4. Seen(n + 1) = Seen(n) \cup {order[n + 1]}
    <3>1. 1..n + 1 = 1..n \cup {n + 1}
      BY <2>1, SMTT(20), Z3T(20)
    <3> QED BY <3>1
  <2>5. Halfway(turn[n], h, rename, Seen(n))
    BY <1>7, ZenonT(60)
  <2> HIDE DEF Seen
  <2>6. Halfway(turn[n + 1], h, rename, Seen(n + 1))
    BY <2>2, <2>3, <2>4, <2>5, ApartStep, SMTT(20), Z3T(20)
  <2> QED BY <2>1, <2>6
<1>8. Len(order) \in D
  <2> HIDE DEF D
  <2> QED BY <1>3, <1>6, <1>7, SetInduction
<1>9. Seen(Len(order)) = DOMAIN rename
  <2>1. ASSUME NEW x \in DOMAIN rename PROVE x \in Seen(Len(order))
    BY <1>1, ZenonT(60)
  <2> QED BY <1>3, <2>1, Zenon
<1>10. Halfway(turn[Len(order)], h, rename, Seen(Len(order)))
  BY <1>8
<1> HIDE DEF Seen
<1> QED BY <1>2, <1>9, <1>10, RenamesFold DEF e, Turns

\* What the edits of a transformer do to a header: the names they do not mention are
\* left alone, what is added is there once, what is removed is gone unless an edit
\* writes it, and only additions and renames give a name a value.
LEMMA TransformsKeep ==
  ASSUME NEW h, IsFun(h, DOMAIN h), NEW t, NEW f \in applyTransforms(h, t)
  PROVE  /\ IsFun(f, DOMAIN h)
         /\ \A n \in DOMAIN h : n \notin Mentions(t) => f[n] = h[n]
         /\ \A n \in DOMAIN h : n \in DOMAIN t.add => f[n] = <<t.add[n]>>
         /\ \A n \in DOMAIN h : n \notin DOMAIN t.add \cup Range(t.rename) => f[n] \in {h[n], <<>>}
         /\ \A n \in DOMAIN h : n \in t.remove /\ n \notin DOMAIN t.add \cup Range(t.rename) => f[n] = <<>>
<1>1. PICK order \in Orders(DOMAIN t.rename) : f = PutAll(Renamed(Del(h, t.remove), t.rename, order), t.add)
  BY DEF applyTransforms
<1> DEFINE rename == t.rename
           kept == Del(h, t.remove)
           moved == Renamed(kept, rename, order)
<1>2. IsFun(kept, DOMAIN kept) /\ DOMAIN kept = DOMAIN h
  BY DEF Del, IsFun
<1>3. \A n \in DOMAIN h : kept[n] = IF n \in t.remove THEN <<>> ELSE h[n]
  BY DEF Del
<1>4. order \in Seq(DOMAIN rename)
  <2>1. Lists(order, DOMAIN rename)
    BY OrderOf, Zenon
  <2> QED BY <2>1, Zenon DEF Lists
<1> HIDE DEF kept, rename
<1>5. /\ IsFun(moved, DOMAIN h)
      /\ \A n \in DOMAIN h : n \notin DOMAIN rename \cup Range(rename) => moved[n] = kept[n]
      /\ \A n \in DOMAIN h : n \notin Range(rename) => moved[n] \in {kept[n], <<>>}
  BY <1>2, <1>4, RenameLoop, ZenonT(60)
<1> HIDE DEF moved
<1>6. f = PutAll(moved, t.add) /\ DOMAIN moved = DOMAIN h
  BY <1>1, <1>5, ZenonT(60) DEF moved, kept, rename, IsFun
<1>7. f = [n \in DOMAIN h |-> IF n \in DOMAIN t.add THEN <<t.add[n]>> ELSE moved[n]]
  BY <1>6 DEF PutAll
<1>8. IsFun(f, DOMAIN h)
  BY <1>7 DEF IsFun
<1> QED BY <1>3, <1>5, <1>7, <1>8 DEF Mentions, rename

\* Renames that are apart from each other come out as if they had happened at once.
LEMMA TransformsExact ==
  ASSUME NEW h, IsFun(h, DOMAIN h), NEW t, Apart(t), NEW f \in applyTransforms(h, t)
  PROVE  f = Edited(h, t)
<1>1. PICK order \in Orders(DOMAIN t.rename) : f = PutAll(Renamed(Del(h, t.remove), t.rename, order), t.add)
  BY DEF applyTransforms
<1> DEFINE rename == t.rename
           kept == Del(h, t.remove)
           moved == Renamed(kept, rename, order)
           olds == {old \in DOMAIN rename : Get(kept, old) # <<>>}
           From(n) == {old \in olds : rename[old] = n}
           made == [n \in DOMAIN h |-> IF From(n) # {} THEN <<Get(kept, CHOOSE old \in From(n) : TRUE)>>
                                       ELSE Del(kept, olds)[n]]
<1>2. IsFun(kept, DOMAIN kept) /\ DOMAIN kept = DOMAIN h
  BY DEF Del, IsFun
<1>3. /\ order \in Orders(DOMAIN rename)
      /\ IsInjective(rename) /\ Range(rename) \cap DOMAIN rename = {}
  BY DEF Apart
<1>4. Edited(h, t) = PutAll(made, t.add)
  BY Zenon DEF Edited
<1> HIDE DEF kept, rename
<1>5. Halfway(moved, kept, rename, DOMAIN rename)
  BY <1>2, <1>3, ApartLoop
<1>6. f = PutAll(moved, t.add)
  BY <1>1 DEF kept, rename
<1> HIDE DEF moved
<1>7. moved = [n \in DOMAIN h |-> moved[n]]
  BY <1>2, <1>5, ZenonT(60) DEF IsFun, Halfway
<1>8. ASSUME NEW o \in DOMAIN rename, rename[o] \in DOMAIN h
      PROVE  moved[rename[o]] = IF o \in olds THEN <<Get(kept, o)>> ELSE kept[rename[o]]
  <2>1. rename[o] \in DOMAIN kept
    BY <1>2, <1>8, ZenonT(60)
  <2> QED BY <2>1, <1>5 DEF Halfway
<1>9. ASSUME NEW n \in DOMAIN h
      PROVE  moved[n] = IF From(n) # {} THEN <<Get(kept, CHOOSE old \in From(n) : TRUE)>> ELSE Del(kept, olds)[n]
  <2>0. Del(kept, olds)[n] = IF n \in olds THEN <<>> ELSE kept[n]
    BY <1>2, ZenonT(60) DEF Del
  <2>1. CASE From(n) # {}
    <3> DEFINE o == CHOOSE old \in From(n) : TRUE
    <3>1. o \in From(n)
      BY <2>1, SMTT(20), Z3T(20)
    <3>2. o \in DOMAIN rename /\ o \in olds /\ rename[o] = n
      BY <3>1
    <3>3. moved[n] = <<Get(kept, o)>>
      <4> HIDE DEF o, olds
      <4> QED BY <3>2, <1>8, Zenon
    <3> QED BY <3>3, <2>1, ZenonT(60)
  <2>2. CASE From(n) = {} /\ n \in DOMAIN rename
    <3>1. moved[n] = IF n \in olds THEN <<>> ELSE kept[n]
      BY <2>2, <1>2, <1>5, ZenonT(60) DEF Halfway
    <3> QED BY <3>1, <2>0, <2>2, ZenonT(60)
  <2>3. CASE From(n) = {} /\ n \notin DOMAIN rename
    <3>1. moved[n] = kept[n]
      <4>1. CASE n \in Range(rename)
        <5>1. PICK o \in DOMAIN rename : rename[o] = n
          BY <4>1, ZenonT(60) DEF Range
        <5>2. o \notin olds
          BY <5>1, <2>3, ZenonT(60)
        <5> HIDE DEF olds
        <5> QED BY <5>1, <5>2, <1>8, Zenon
      <4>2. CASE n \notin Range(rename)
        BY <4>2, <2>3, <1>2, <1>5, ZenonT(60) DEF Halfway
      <4> QED BY <4>1, <4>2
    <3> QED BY <3>1, <2>0, <2>3, ZenonT(60)
  <2> QED BY <2>1, <2>2, <2>3, ZenonT(60)
<1>10. moved = made
  <2> HIDE DEF olds, From
  <2> QED BY <1>7, <1>9, ZenonT(60)
<1> HIDE DEF made
<1> QED BY <1>4, <1>6, <1>10

\* The loop over the claims writes the headers of its map and no other.
LEMMA ClaimLoop ==
  ASSUME NEW h, IsFun(h, DOMAIN h), NEW claims, NEW map, NEW order \in Seq(DOMAIN map)
  PROVE  LET f == Claimed(h, claims, map, order)
         IN  /\ IsFun(f, DOMAIN h)
             /\ \A n \in DOMAIN h : n \notin {NameIn(v) : v \in Range(map)} => f[n] = h[n]
<1> DEFINE e == <<"claim", claims, map>>
           names == {NameIn(v) : v \in Range(map)}
           Good(g) == IsFun(g, DOMAIN h) /\ \A n \in DOMAIN h : n \notin names => g[n] = h[n]
<1>1. ASSUME NEW g, NEW k \in DOMAIN map, Good(g) PROVE Good(Turn(e, g, k))
  <2>1. Turn(e, g, k) = IF k \in DOMAIN claims THEN Put(g, NameIn(map[k]), claims[k]) ELSE g
    BY DEF Turn
  <2>2. NameIn(map[k]) \in names
    BY ZenonT(60) DEF Range
  <2> HIDE DEF names, e
  <2>3. IsFun(Put(g, NameIn(map[k]), claims[k]), DOMAIN h)
    BY <1>1 DEF IsFun, Put
  <2>4. \A n \in DOMAIN h : n \notin names => Put(g, NameIn(map[k]), claims[k])[n] = h[n]
    BY <2>2, <1>1 DEF IsFun, Put
  <2> QED BY <2>1, <2>3, <2>4, <1>1, ZenonT(60)
<1>2. PICK turn : Turns(turn, e, h, order)
  BY FoldTurns, Zenon
<1> DEFINE D == {k \in 0..Len(order) : Good(turn[k])}
<1>3. Len(order) \in Nat /\ \A k \in 1..Len(order) : order[k] \in DOMAIN map
  OBVIOUS
<1>4. Good(h)
  BY ZenonT(60)
<1> HIDE DEF Good, e
<1>5. 0 \in D
  BY <1>2, <1>3, <1>4 DEF Turns
<1>6. ASSUME NEW n \in 0..Len(order) - 1, n \in D PROVE n + 1 \in D
  <2>1. n + 1 \in 1..Len(order) /\ n + 1 \in 0..Len(order)
    BY <1>3
  <2> QED BY <2>1, <1>1, <1>2, <1>3, <1>6, ZenonT(60) DEF Turns
<1>7. Len(order) \in D
  <2> HIDE DEF D
  <2> QED BY <1>3, <1>5, <1>6, SetInduction
<1>8. Good(Fold(e, h, order))
  BY <1>2, <1>7 DEF Turns
<1> QED BY <1>8, ClaimsFold, ZenonT(60) DEF Good, e
-----------------------------------------------------------------------------
\* The usable entries of S, in the order of the list.
Chain(c, S, list) ==
  /\ c \in Seq(S)
  /\ \A j, k \in 1..Len(c) : j < k => c[j] < c[k]
  /\ \A k \in S : Usable(list[k]) <=> \E j \in 1..Len(c) : c[j] = k

\* No place, no plugin.
LEMMA Nothing ==
  ASSUME NEW list
  PROVE  Chain(<<>>, {}, list)
<1>1. <<>> \in Seq({}) /\ Len(<<>>) = 0
  OBVIOUS
<1>2. 1..0 = {}
  OBVIOUS
<1> QED BY <1>1, <1>2 DEF Chain

\* A turn of router.New appends a plugin that is usable.
LEMMA UseStep ==
  ASSUME NEW list, NEW n \in Nat, NEW c, Chain(c, 1..n, list)
  PROVE  Chain(IF Usable(list[n + 1]) THEN Append(c, n + 1) ELSE c, 1..n + 1, list)
<1>1. 1..n + 1 = 1..n \cup {n + 1} /\ c \in Seq(1..n + 1) /\ Len(c) \in Nat
  BY DEF Chain
<1>2. \A j \in 1..Len(c) : c[j] \in 1..n /\ c[j] < n + 1
  BY DEF Chain
<1>3. CASE ~Usable(list[n + 1])
  BY <1>1, <1>2, <1>3, ZenonT(60) DEF Chain
<1>4. CASE Usable(list[n + 1])
  <2> DEFINE d == Append(c, n + 1)
  <2>1. /\ d \in Seq(1..n + 1) /\ Len(d) = Len(c) + 1 /\ d[Len(c) + 1] = n + 1
        /\ \A j \in 1..Len(c) : d[j] = c[j]
    BY <1>1
  <2>2. 1..Len(d) = 1..Len(c) \cup {Len(c) + 1}
    BY <1>1, <2>1
  <2> HIDE DEF d
  <2>3. ASSUME NEW j \in 1..Len(d), NEW k \in 1..Len(d), j < k PROVE d[j] < d[k]
    <3>1. j \in 1..Len(c)
      BY <2>1, <2>3, <1>1, SMTT(20), Z3T(20)
    <3>2. CASE k = Len(c) + 1
      BY <3>1, <3>2, <2>1, <1>2, ZenonT(60)
    <3>3. CASE k \in 1..Len(c)
      BY <3>1, <3>3, <2>1, <2>3, ZenonT(60) DEF Chain
    <3> QED BY <2>2, <3>2, <3>3
  <2>4. ASSUME NEW k \in 1..n + 1 PROVE Usable(list[k]) <=> \E j \in 1..Len(d) : d[j] = k
    <3>1. CASE k = n + 1
      BY <3>1, <1>1, <1>4, <2>1, <2>2, ZenonT(60)
    <3>2. CASE k \in 1..n
      <4>1. k # n + 1
        BY <3>2, SMTT(20), Z3T(20)
      <4> QED BY <3>2, <4>1, <2>1, <2>2, Zenon DEF Chain
    <3> QED BY <1>1, <3>1, <3>2
  <2> QED BY <1>4, <2>1, <2>3, <2>4, ZenonT(60) DEF Chain, d
<1> QED BY <1>3, <1>4

\* A turn of buildPluginChain, from the back, puts a usable plugin in front.
LEMMA BuildStep ==
  ASSUME NEW list, NEW N \in Nat, NEW m \in 1..N, NEW c, Chain(c, m + 1..N, list)
  PROVE  Chain(IF Usable(list[m]) THEN Wrapped(m, c) ELSE c, m..N, list)
<1>1. m..N = m + 1..N \cup {m} /\ c \in Seq(m..N) /\ Len(c) \in Nat /\ m \in Nat
  BY SMTT(20), Z3T(20) DEF Chain
<1>2. \A j \in 1..Len(c) : c[j] \in m + 1..N /\ m < c[j]
  BY SMTT(20), Z3T(20) DEF Chain
<1>3. CASE ~Usable(list[m])
  BY <1>1, <1>2, <1>3, ZenonT(60) DEF Chain
<1>4. CASE Usable(list[m])
  <2> DEFINE d == Wrapped(m, c)
  <2>1. /\ d \in Seq(m..N) /\ Len(d) = Len(c) + 1 /\ d[1] = m
        /\ \A j \in 2..Len(c) + 1 : d[j] = c[j - 1]
    BY <1>1, SMTT(20), Z3T(20) DEF Wrapped
  <2>2. 1..Len(d) = {1} \cup 2..Len(c) + 1
    BY <1>1, <2>1, SMTT(20), Z3T(20)
  <2> HIDE DEF d
  <2>3. ASSUME NEW j \in 1..Len(d), NEW k \in 1..Len(d), j < k PROVE d[j] < d[k]
    <3>1. k \in 2..Len(c) + 1 /\ k - 1 \in 1..Len(c)
      BY <2>1, <2>3, <1>1, SMTT(20), Z3T(20)
    <3>2. CASE j = 1
      BY <3>1, <3>2, <2>1, <1>2, ZenonT(60)
    <3>3. CASE j # 1
      <4>1. j \in 2..Len(c) + 1 /\ j - 1 \in 1..Len(c) /\ j - 1 < k - 1
        BY <2>3, <3>1, <3>3, <1>1, SMTT(20), Z3T(20)
      <4> QED BY <3>1, <4>1, <2>1, Zenon DEF Chain
    <3> QED BY <3>2, <3>3
  <2>4. ASSUME NEW k \in m..N PROVE Usable(list[k]) <=> \E j \in 1..Len(d) : d[j] = k
    <3>1. CASE k = m
      <4>1. 1 \in 1..Len(d)
        BY <2>2
      <4> QED BY <3>1, <4>1, <1>4, <2>1
    <3>2. CASE k \in m + 1..N
      <4>1. k # m
        BY <3>2, SMTT(20), Z3T(20)
      <4>2. ASSUME NEW j \in 1..Len(c) PROVE j + 1 \in 1..Len(d) /\ d[j + 1] = c[j]
        <5>1. j + 1 \in 2..Len(c) + 1 /\ j + 1 - 1 = j
          BY <1>1, SMTT(20), Z3T(20)
        <5> QED BY <5>1, <2>1, <2>2, SMTT(20), Z3T(20)
      <4>3. ASSUME NEW j \in 1..Len(d), d[j] = k PROVE \E x \in 1..Len(c) : c[x] = k
        <5>1. j # 1
          BY <4>1, <4>3, <2>1
        <5>2. j \in 2..Len(c) + 1 /\ j - 1 \in 1..Len(c)
          BY <5>1, <2>1, <1>1, SMTT(20), Z3T(20)
        <5> QED BY <5>2, <4>3, <2>1, Zenon
      <4> QED BY <3>2, <4>2, <4>3, Zenon DEF Chain
    <3> QED BY <1>1, <3>1, <3>2, ZenonT(60)
  <2> QED BY <1>4, <2>1, <2>3, <2>4, ZenonT(60) DEF Chain, d
<1> QED BY <1>3, <1>4

\* router.New puts the usable global plugins around the router in their order.
LEMMA UseLoop ==
  ASSUME NEW list, Len(list) \in Nat
  PROVE  Chain(UseGlobal(list), 1..Len(list), list)
<1> DEFINE e == <<"use", list>>
           N == Len(list)
           s == [k \in 1..N |-> k]
<1>1. s \in Seq(Nat) /\ Len(s) = N
  BY SMTT(20), Z3T(20)
<1>2. \A k \in 1..N : s[k] = k
  OBVIOUS
<1>3. UseGlobal(list) = Fold(e, <<>>, s)
  BY UseFold
<1>4. ASSUME NEW c, NEW n PROVE Turn(e, c, n) = IF Usable(list[n]) THEN Append(c, n) ELSE c
  BY DEF Turn
<1> HIDE DEF s, e, N
<1>5. PICK turn : Turns(turn, e, <<>>, s)
  BY <1>1, FoldTurns, ZenonT(60)
<1> DEFINE D == {k \in 0..N : Chain(turn[k], 1..k, list)}
<1>6. 0 \in D
  <2>1. 1..0 = {} /\ 0 \in 0..N
    BY SMTT(20), Z3T(20) DEF N
  <2>2. Chain(<<>>, {}, list)
    BY Nothing
  <2> QED BY <1>5, <2>1, <2>2 DEF Turns
<1>7. ASSUME NEW n \in 0..N - 1, n \in D PROVE n + 1 \in D
  <2>1. n \in Nat /\ n + 1 \in 1..N /\ n + 1 \in 0..N
    BY SMTT(20), Z3T(20) DEF N
  <2>2. turn[n + 1] = IF Usable(list[n + 1]) THEN Append(turn[n], n + 1) ELSE turn[n]
    BY <2>1, <1>1, <1>2, <1>4, <1>5, Zenon DEF Turns
  <2> QED BY <2>1, <2>2, <1>7, UseStep
<1>8. N \in D
  <2> HIDE DEF D
  <2>1. N \in Nat
    BY ZenonT(60) DEF N
  <2> QED BY <2>1, <1>6, <1>7, SetInduction
<1> QED BY <1>1, <1>3, <1>5, <1>8 DEF N, Turns

\* buildPluginChain wraps the usable plugins of a route in their order.
LEMMA BuildLoop ==
  ASSUME NEW list, Len(list) \in Nat
  PROVE  Chain(buildPluginChain(list), 1..Len(list), list)
<1> DEFINE e == <<"build", list>>
           N == Len(list)
           s == [k \in 1..N |-> N + 1 - k]
<1>1. s \in Seq(Nat) /\ Len(s) = N
  BY SMTT(20), Z3T(20)
<1>2. \A k \in 1..N : s[k] = N + 1 - k
  OBVIOUS
<1>3. buildPluginChain(list) = Fold(e, <<>>, s)
  BY BuildFold
<1>4. ASSUME NEW c, NEW n PROVE Turn(e, c, n) = IF Usable(list[n]) THEN Wrapped(n, c) ELSE c
  BY ZenonT(60) DEF Turn
<1> HIDE DEF s, e, N
<1>5. PICK turn : Turns(turn, e, <<>>, s)
  BY <1>1, FoldTurns
<1> DEFINE D == {k \in 0..N : Chain(turn[k], N + 1 - k..N, list)}
<1>0. N \in Nat
  BY DEF N
<1>6. 0 \in D
  <2>1. N + 1 - 0..N = {}
    BY <1>0, SMTT(20), Z3T(20)
  <2>2. Chain(<<>>, {}, list)
    BY Nothing
  <2> QED BY <1>0, <1>5, <2>1, <2>2, SMTT(20), Z3T(20) DEF Turns
<1>7. ASSUME NEW n \in 0..N - 1, n \in D PROVE n + 1 \in D
  <2> DEFINE m == N - n
  <2>1. n \in Nat /\ n + 1 \in 1..N /\ n + 1 \in 0..N /\ m \in 1..N /\ N + 1 - (n + 1) = m /\ N + 1 - n = m + 1
    BY <1>0, SMTT(20), Z3T(20)
  <2>2. turn[n + 1] = IF Usable(list[m]) THEN Wrapped(m, turn[n]) ELSE turn[n]
    <3>1. turn[n + 1] = Turn(e, turn[n], s[n + 1])
      BY <1>1, <1>5 DEF Turns
    <3>2. s[n + 1] = m
      BY <1>0, <1>2, <2>1
    <3> QED BY <1>4, <3>1, <3>2, ZenonT(60)
  <2>3. Chain(turn[n], m + 1..N, list)
    BY <1>7, <2>1, ZenonT(60)
  <2> HIDE DEF m
  <2>4. Chain(turn[n + 1], m..N, list)
    BY <1>0, <2>1, <2>2, <2>3, BuildStep, ZenonT(60)
  <2> QED BY <2>1, <2>4
<1>8. N \in D
  <2> HIDE DEF D
  <2> QED BY <1>0, <1>6, <1>7, SetInduction
<1>9. N + 1 - N = 1
  BY <1>0, SMTT(20), Z3T(20)
<1> QED BY <1>1, <1>3, <1>5, <1>8, <1>9 DEF N, Turns

\* No element, no turn.
LEMMA FoldEmpty ==
  ASSUME NEW e, NEW base
  PROVE  Fold(e, base, <<>>) = base
<1>1. <<>> \in Seq({}) /\ Len(<<>>) = 0
  BY SMTT(20), Z3T(20)
<1>2. PICK turn : Turns(turn, e, base, <<>>)
  BY <1>1, FoldTurns, Zenon
<1> QED BY <1>1, <1>2 DEF Turns

\* The loops of the model are folds.
LEMMA WriteFold ==
  ASSUME NEW h, NEW met
  PROVE  WrittenBehind(h, met) = Fold(<<"write">>, {h}, Backwards(met))
<1> DEFINE s == Backwards(met)
<1> DEFINE A(g) == [d \in SUBSET DOMAIN s |->
                      IF d = {} THEN {h} ELSE Turn(<<"write">>, g[d \ {Max(d)}], s[Max(d)])]
           B(g) == [d \in SUBSET DOMAIN s |-> IF d = {} THEN {h} ELSE Written(g[d \ {Max(d)}], s[Max(d)])]
<1>1. \A g : A(g) = B(g)
  <2> HIDE DEF s
  <2> QED BY DEF Turn
<1>2. (CHOOSE g : g = A(g)) = (CHOOSE g : g = B(g))
  <2> HIDE DEF A, B
  <2> QED BY <1>1
<1>3. Fold(<<"write">>, {h}, s) = (CHOOSE g : g = A(g))[DOMAIN s]
  BY Zenon DEF Fold, Loop, MapThenFoldSet
<1>4. WrittenBehind(h, met) = (CHOOSE g : g = B(g))[DOMAIN s]
  BY Zenon DEF WrittenBehind, Loop, MapThenFoldSet
<1> HIDE DEF A, B
<1> QED BY <1>2, <1>3, <1>4, Zenon

\* The edits of several transformers.
LEMMA EditFold ==
  ASSUME NEW h, NEW met
  PROVE  EditedBehind(h, met) = Fold(<<"edit">>, h, met)
<1> DEFINE A(g) == [d \in SUBSET DOMAIN met |->
                      IF d = {} THEN h ELSE Turn(<<"edit">>, g[d \ {Max(d)}], met[Max(d)])]
           B(g) == [d \in SUBSET DOMAIN met |-> IF d = {} THEN h ELSE EditedBy(g[d \ {Max(d)}], met[Max(d)])]
<1>1. \A g : A(g) = B(g)
  BY DEF Turn
<1>2. (CHOOSE g : g = A(g)) = (CHOOSE g : g = B(g))
  <2> HIDE DEF A, B
  <2> QED BY <1>1
<1>3. Fold(<<"edit">>, h, met) = (CHOOSE g : g = A(g))[DOMAIN met]
  BY Zenon DEF Fold, Loop, MapThenFoldSet
<1>4. EditedBehind(h, met) = (CHOOSE g : g = B(g))[DOMAIN met]
  BY Zenon DEF EditedBehind, Loop, MapThenFoldSet
<1> HIDE DEF A, B
<1> QED BY <1>2, <1>3, <1>4, Zenon

\* A transformer more is an edit more.
LEMMA EditMore ==
  ASSUME NEW h, NEW S, NEW met \in Seq(S), NEW pc \in S
  PROVE  EditedBehind(h, Append(met, pc)) = EditedBy(EditedBehind(h, met), pc)
<1>1. Fold(<<"edit">>, h, Append(met, pc)) = Turn(<<"edit">>, Fold(<<"edit">>, h, met), pc)
  BY FoldAppend, SMTT(20), Z3T(20)
<1>2. \A x : Turn(<<"edit">>, x, pc) = EditedBy(x, pc)
  BY ZenonT(60) DEF Turn
<1> QED BY <1>1, <1>2, EditFold
-----------------------------------------------------------------------------
\* A request with its header and its query.
Shape(r) == {"header", "query", "xff", "tls", "proto", "host", "forwardedHost"} \subseteq DOMAIN r
            /\ IsFun(r.header, Names) /\ IsFun(r.query, Keys)

\* What a plugin hands on: a request whose headers and parameters are those of the
\* one it got, or ones it may write.
Handed(pc, r, o) ==
  /\ Shape(o.request)
  /\ \A n \in Names : o.request.header[n] # <<>> => r.header[n] # <<>> \/ n \in Writes(pc)
  /\ \A n \in Keys : o.request.query[n] # <<>> => r.query[n] # <<>> \/ n \in WritesQuery(pc)

\* key_auth.go, with what it hides.
LEMMA KeyAuthHands ==
  ASSUME NEW pc, pc.Name = "key-auth", NEW r, Shape(r), NEW o \in Handle(pc, r)
  PROVE  /\ Handed(pc, r, o)
         /\ o.status = 0 /\ pc.Config.hide_credentials =>
              /\ KeyHeader(pc.Config) \in Names => o.request.header[KeyHeader(pc.Config)] = <<>>
              /\ KeyQuery(pc.Config) \in Keys => o.request.query[KeyQuery(pc.Config)] = <<>>
<1> DEFINE H == KeyHeader(pc.Config)
           Q == KeyQuery(pc.Config)
<1>1. o \in KeyAuth(pc.Config, r)
  BY ZenonT(60) DEF Handle
<1>2. CASE ~ValidKey(pc.Config, r)
  <2>1. o = [status |-> 401, request |-> r]
    BY <1>1, <1>2, ZenonT(60) DEF KeyAuth, Refuse
  <2> QED BY <2>1, SMTT(20), Z3T(20) DEF Handed
<1>3. CASE ValidKey(pc.Config, r) /\ ~pc.Config.hide_credentials
  <2>1. o = [status |-> 0, request |-> r]
    BY <1>1, <1>3, ZenonT(60) DEF KeyAuth, Pass
  <2> QED BY <2>1, <1>3 DEF Handed
<1>4. CASE ValidKey(pc.Config, r) /\ pc.Config.hide_credentials
  <2> DEFINE q == [r EXCEPT !.header = Del(r.header, {H}), !.query = Del(r.query, {Q})]
  <2>1. o = [status |-> 0, request |-> q]
    BY <1>1, <1>4 DEF KeyAuth, Pass
  <2>2. q.header = Del(r.header, {H}) /\ q.query = Del(r.query, {Q}) /\ DOMAIN q = DOMAIN r
    BY ZenonT(60) DEF Shape
  <2> HIDE DEF q, H, Q
  <2>3. q.header = [n \in Names |-> IF n = H THEN <<>> ELSE r.header[n]]
    BY <2>2, ZenonT(60) DEF Del, Shape, IsFun
  <2>4. q.query = [n \in Keys |-> IF n = Q THEN <<>> ELSE r.query[n]]
    BY <2>2 DEF Del, Shape, IsFun
  <2>5. Shape(q)
    BY <2>2, <2>3, <2>4, Zenon DEF Shape, IsFun
  <2> QED BY <2>1, <2>3, <2>4, <2>5 DEF Handed, H, Q
<1> QED BY <1>2, <1>3, <1>4

\* jwt.go.
LEMMA JWTHands ==
  ASSUME NEW pc, pc.Name = "jwt", NEW r, Shape(r), NEW o \in Handle(pc, r)
  PROVE  Handed(pc, r, o)
<1> DEFINE v == Get(r.header, "Authorization")
           map == stringMap(pc.Config.claims_to_headers)
<1>1. o \in JWT(pc.Config, r)
  BY DEF Handle
<1>2. CASE o \in Refuse(r, 401)
  <2>1. o = [status |-> 401, request |-> r]
    BY <1>2, ZenonT(60) DEF Refuse
  <2> QED BY <2>1 DEF Handed
<1>3. CASE o \notin Refuse(r, 401)
  <2>1. PICK order \in Orders(DOMAIN map) :
          o \in Pass([r EXCEPT !.header = Claimed(r.header, Tokens[v].claims, map, order)])
    BY <1>1, <1>3 DEF JWT
  <2> DEFINE h == Claimed(r.header, Tokens[v].claims, map, order)
             q == [r EXCEPT !.header = h]
  <2>2. o = [status |-> 0, request |-> q]
    BY <2>1 DEF Pass
  <2>3. order \in Seq(DOMAIN map)
    <3>1. Lists(order, DOMAIN map)
      BY OrderOf, Zenon
    <3> QED BY <3>1, Zenon DEF Lists
  <2>4. DOMAIN r.header = Names /\ IsFun(r.header, DOMAIN r.header)
    BY ZenonT(60) DEF Shape, IsFun
  <2>5. IsFun(h, Names) /\ \A n \in Names : n \notin {NameIn(x) : x \in Range(map)} => h[n] = r.header[n]
    <3> DEFINE claims == Tokens[v].claims
               g == r.header
    <3> HIDE DEF claims, map, g
    <3>1. LET f == Claimed(g, claims, map, order)
          IN  /\ IsFun(f, DOMAIN g)
              /\ \A n \in DOMAIN g : n \notin {NameIn(x) : x \in Range(map)} => f[n] = g[n]
      BY <2>3, <2>4, ClaimLoop, SMTT(20), Z3T(20) DEF g
    <3> QED BY <2>4, <3>1, ZenonT(60) DEF claims, g
  <2>6. Writes(pc) = {NameIn(x) : x \in Range(map)}
    BY DEF Writes
  <2> HIDE DEF h
  <2>7. q.header = h /\ q.query = r.query /\ DOMAIN q = DOMAIN r
    BY ZenonT(60) DEF Shape
  <2> HIDE DEF q, map
  <2>8. o.request = q
    BY <2>2, Zenon
  <2>9. Shape(q)
    BY <2>5, <2>7, ZenonT(60) DEF Shape
  <2>10. \A n \in Names : q.header[n] # <<>> => r.header[n] # <<>> \/ n \in Writes(pc)
    BY <2>5, <2>6, <2>7, ZenonT(60)
  <2> QED BY <2>7, <2>8, <2>9, <2>10, ZenonT(60) DEF Handed
<1> QED BY <1>2, <1>3

\* request_transformer.go.
LEMMA TransformerHands ==
  ASSUME NEW pc, pc.Name = "request-header-transformer", NEW r, Shape(r), NEW o \in Handle(pc, r)
  PROVE  /\ Handed(pc, r, o)
         /\ Apart(Transforms(pc.Config)) => o.request.header = EditedBy(r.header, pc)
<1> DEFINE t == Transforms(pc.Config)
           added == stringMap(pc.Config.add_query)
           query == PutAll(Del(r.query, NamesIn(pc.Config.remove_query)), added)
<1>1. o \in RequestTransformer(pc.Config, r)
  BY DEF Handle
<1>2. PICK h \in applyTransforms(r.header, t) : o \in Pass([r EXCEPT !.header = h, !.query = query])
  BY <1>1, Zenon DEF RequestTransformer
<1> DEFINE q == [r EXCEPT !.header = h, !.query = query]
<1>3. o = [status |-> 0, request |-> q]
  BY <1>2, ZenonT(60) DEF Pass
<1>5. DOMAIN r.header = Names /\ IsFun(r.header, DOMAIN r.header)
  BY ZenonT(60) DEF Shape, IsFun
<1>6. DOMAIN r.query = Keys
  BY ZenonT(60) DEF Shape, IsFun
<1>7. query = [n \in Keys |-> IF n \in DOMAIN added THEN <<added[n]>>
                              ELSE IF n \in NamesIn(pc.Config.remove_query) THEN <<>> ELSE r.query[n]]
  BY <1>6 DEF PutAll, Del
<1>8. Writes(pc) = DOMAIN t.add \cup Range(t.rename) /\ WritesQuery(pc) = DOMAIN added
  BY DEF Writes, WritesQuery
<1>9. EditedBy(r.header, pc) = Edited(r.header, t)
  BY DEF EditedBy
<1> HIDE DEF query, t, added
<1>10. q.header = h /\ q.query = query /\ DOMAIN q = DOMAIN r
  BY DEF Shape
<1> HIDE DEF q
<1>11. /\ IsFun(h, Names)
       /\ \A n \in Names : n \notin DOMAIN t.add \cup Range(t.rename) => h[n] \in {r.header[n], <<>>}
  BY <1>2, <1>5, TransformsKeep
<1>12. Apart(t) => h = Edited(r.header, t)
  BY <1>2, <1>5, TransformsExact, ZenonT(60)
<1>13. IsFun(query, Keys)
  BY <1>7, ZenonT(60) DEF IsFun
<1>14. Shape(q)
  BY <1>10, <1>11, <1>13, ZenonT(60) DEF Shape
<1>15. \A n \in Names : h[n] # <<>> => r.header[n] # <<>> \/ n \in Writes(pc)
  BY <1>8, <1>11, ZenonT(60)
<1>16. \A n \in Keys : query[n] # <<>> => r.query[n] # <<>> \/ n \in WritesQuery(pc)
  BY <1>7, <1>8, ZenonT(60)
<1>17. Handed(pc, r, o)
  BY <1>3, <1>10, <1>14, <1>15, <1>16, ZenonT(60) DEF Handed
<1> QED BY <1>3, <1>9, <1>10, <1>12, <1>17, ZenonT(60) DEF t

\* The others hand on what they got, and only a plugin that is no response
\* transformer refuses.
LEMMA OthersHand ==
  ASSUME NEW pc, pc.Name \in {"ip-restriction", "rate-limit", "response-header-transformer"},
         NEW r, Shape(r), NEW o \in Handle(pc, r)
  PROVE  /\ Handed(pc, r, o) /\ o.request = r
         /\ pc.Name = "response-header-transformer" => o.status = 0
<1>1. CASE pc.Name = "ip-restriction"
  BY <1>1, SMTT(20), Z3T(20) DEF Handle, IPRestriction, Refuse, Pass, Handed
<1>2. CASE pc.Name = "rate-limit"
  BY <1>2, SMTT(20), Z3T(20) DEF Handle, Limit, Refuse, Pass, Handed
<1>3. CASE pc.Name = "response-header-transformer"
  BY <1>3, SMTT(20), Z3T(20) DEF Handle, Pass, Handed
<1> QED BY <1>1, <1>2, <1>3

\* Every plugin.
LEMMA PluginHands ==
  ASSUME NEW pc, pc.Name \in Registry, NEW r, Shape(r), NEW o \in Handle(pc, r)
  PROVE  /\ Handed(pc, r, o)
         /\ o.status = 0 /\ pc.Name = "key-auth" /\ pc.Config.hide_credentials =>
              /\ KeyHeader(pc.Config) \in Names => o.request.header[KeyHeader(pc.Config)] = <<>>
              /\ KeyQuery(pc.Config) \in Keys => o.request.query[KeyQuery(pc.Config)] = <<>>
         /\ /\ pc.Name \notin {"jwt", "key-auth"}
            /\ pc.Name = "request-header-transformer" => Apart(Transforms(pc.Config))
            => o.request.header = EditedBy(r.header, pc)
         /\ pc.Name = "response-header-transformer" => o.status = 0
<1>1. CASE pc.Name = "key-auth"
  BY <1>1, KeyAuthHands, Zenon
<1>2. CASE pc.Name = "jwt"
  BY <1>2, JWTHands, ZenonT(60)
<1>3. CASE pc.Name = "request-header-transformer"
  BY <1>3, TransformerHands, ZenonT(60)
<1>4. CASE pc.Name \in {"ip-restriction", "rate-limit", "response-header-transformer"}
  <2>1. EditedBy(r.header, pc) = r.header
    BY <1>4 DEF EditedBy
  <2> QED BY <1>4, <2>1, OthersHand, SMTT(20), Z3T(20)
<1> QED BY <1>1, <1>2, <1>3, <1>4, Zenon DEF Registry
-----------------------------------------------------------------------------
\* The plugin has a writer.
Answers(pc) == pc.Name = "response-header-transformer"

\* What f became behind the writers of the entries from m on: a name that none of
\* them mentions is left alone, and of those that mention a name the outermost has
\* the last word.
Filtered(f, h, names, met, m) ==
  /\ IsFun(f, names)
  /\ \A n \in names :
       (\A k \in m..Len(met) : Answers(met[k]) => n \notin Mentions(Transforms(met[k].Config))) => f[n] = h[n]
  /\ \A k \in m..Len(met), n \in names :
       /\ Answers(met[k])
       /\ \A j \in m..Len(met) : j < k /\ Answers(met[j]) => n \notin Mentions(Transforms(met[j].Config))
       => /\ n \in DOMAIN Transforms(met[k].Config).add => f[n] = <<Transforms(met[k].Config).add[n]>>
          /\ /\ n \in Transforms(met[k].Config).remove
             /\ n \notin DOMAIN Transforms(met[k].Config).add \cup Range(Transforms(met[k].Config).rename)
             => f[n] = <<>>

\* The response passes one writer more.
LEMMA WriteStep ==
  ASSUME NEW h, NEW names, NEW S, NEW met \in Seq(S), NEW m \in 1..Len(met),
         NEW g, Filtered(g, h, names, met, m + 1),
         NEW f, IF Answers(met[m]) THEN f \in applyTransforms(g, Transforms(met[m].Config)) ELSE f = g
  PROVE  Filtered(f, h, names, met, m)
<1> DEFINE N == Len(met)
           T(k) == Transforms(met[k].Config)
<1>0. N \in Nat /\ m \in Nat /\ m \in m..N /\ m..N = {m} \cup m + 1..N /\ \A k \in m + 1..N : m < k /\ ~(k < m) /\ k \in m..N
  BY SMTT(20), Z3T(20)
<1>1. CASE ~Answers(met[m])
  <2>1. f = g
    BY <1>1
  <2> QED BY <2>1, <1>0, <1>1, Zenon DEF Filtered
<1>2. CASE Answers(met[m])
  <2> DEFINE t == T(m)
  <2>2. DOMAIN g = names /\ IsFun(g, DOMAIN g) /\ f \in applyTransforms(g, t)
    BY <1>2, ZenonT(60) DEF Filtered, IsFun
  <2> HIDE DEF t
  <2>3. /\ IsFun(f, names)
        /\ \A n \in names : n \notin Mentions(t) => f[n] = g[n]
        /\ \A n \in names : n \in DOMAIN t.add => f[n] = <<t.add[n]>>
        /\ \A n \in names : n \in t.remove /\ n \notin DOMAIN t.add \cup Range(t.rename) => f[n] = <<>>
    BY <2>2, TransformsKeep, SMTT(20), Z3T(20)
  <2>4. ASSUME NEW n \in names,
               \A k \in m..N : Answers(met[k]) => n \notin Mentions(T(k))
        PROVE  f[n] = h[n]
    <3>1. n \notin Mentions(t) /\ \A k \in m + 1..N : Answers(met[k]) => n \notin Mentions(T(k))
      BY <2>4, <1>0, <1>2, ZenonT(60) DEF t
    <3>2. g[n] = h[n]
      BY <3>1 DEF Filtered
    <3> QED BY <3>1, <3>2, <2>3, ZenonT(60)
  <2>5. ASSUME NEW k \in m..N, NEW n \in names, Answers(met[k]),
               \A j \in m..N : j < k /\ Answers(met[j]) => n \notin Mentions(T(j))
        PROVE  /\ n \in DOMAIN T(k).add => f[n] = <<T(k).add[n]>>
               /\ n \in T(k).remove /\ n \notin DOMAIN T(k).add \cup Range(T(k).rename) => f[n] = <<>>
    <3>1. CASE k = m
      BY <3>1, <2>3, Zenon DEF t
    <3>2. CASE k \in m + 1..N
      <4>1. n \notin Mentions(t) /\ \A j \in m + 1..N : j < k /\ Answers(met[j]) => n \notin Mentions(T(j))
        BY <2>5, <3>2, <1>0, <1>2, ZenonT(60) DEF t
      <4>2. f[n] = g[n]
        BY <4>1, <2>3, ZenonT(60)
      <4>3. /\ n \in DOMAIN T(k).add => g[n] = <<T(k).add[n]>>
            /\ n \in T(k).remove /\ n \notin DOMAIN T(k).add \cup Range(T(k).rename) => g[n] = <<>>
        BY <4>1, <3>2, <2>5, ZenonT(60) DEF Filtered
      <4> QED BY <4>2, <4>3, ZenonT(60)
    <3> QED BY <3>1, <3>2, <1>0, Zenon
  <2> QED BY <2>3, <2>4, <2>5, ZenonT(60) DEF Filtered
<1> QED BY <1>1, <1>2, ZenonT(60)

\* The response passes the writers of all plugins met.
LEMMA WriteLoop ==
  ASSUME NEW h, NEW names, IsFun(h, names), NEW S, NEW met \in Seq(S), NEW f \in WrittenBehind(h, met)
  PROVE  Filtered(f, h, names, met, 1)
<1> DEFINE e == <<"write">>
           N == Len(met)
           s == Backwards(met)
<1>1. N \in Nat /\ s \in Seq(S) /\ Len(s) = N /\ \A k \in 1..N : s[k] = met[N - k + 1]
  BY SMTT(20), Z3T(20) DEF Backwards
<1>2. WrittenBehind(h, met) = Fold(e, {h}, s)
  BY WriteFold
<1>3. ASSUME NEW hs, NEW pc PROVE Turn(e, hs, pc) = Written(hs, pc)
  BY DEF Turn
<1> HIDE DEF e, s, N
<1>4. PICK turn : Turns(turn, e, {h}, s)
  BY <1>1, FoldTurns, Zenon
<1> DEFINE D == {k \in 0..N : \A g \in turn[k] : Filtered(g, h, names, met, N + 1 - k)}
<1>5. 0 \in D
  <2>1. N + 1 - 0..Len(met) = {} /\ 0 \in 0..N
    BY <1>1, SMTT(20), Z3T(20) DEF N
  <2>2. Filtered(h, h, names, met, N + 1 - 0)
    BY <2>1, ZenonT(60) DEF Filtered
  <2>3. turn[0] = {h}
    BY <1>4, ZenonT(60) DEF Turns
  <2> QED BY <2>1, <2>2, <2>3, ZenonT(60)
<1>6. ASSUME NEW n \in 0..N - 1, n \in D PROVE n + 1 \in D
  <2> DEFINE m == N - n
  <2>1. /\ n \in Nat /\ n + 1 \in 1..N /\ n + 1 \in 0..N /\ m \in 1..N
        /\ N + 1 - (n + 1) = m /\ N + 1 - n = m + 1 /\ N - (n + 1) + 1 = m
    BY <1>1, SMTT(20), Z3T(20)
  <2>2. turn[n + 1] = Written(turn[n], met[m])
    BY <2>1, <1>1, <1>3, <1>4, SMTT(20), Z3T(20) DEF Turns
  <2>3. \A g \in turn[n] : Filtered(g, h, names, met, m + 1)
    BY <1>6, <2>1, ZenonT(60)
  <2>4. m \in 1..Len(met)
    BY <2>1, ZenonT(60) DEF N
  <2> HIDE DEF m
  <2>5. ASSUME NEW x \in turn[n + 1] PROVE Filtered(x, h, names, met, m)
    <3>1. PICK g \in turn[n] : IF Answers(met[m]) THEN x \in applyTransforms(g, Transforms(met[m].Config)) ELSE x = g
      BY <2>2, ZenonT(60) DEF Written, Answers
    <3>2. Filtered(g, h, names, met, m + 1)
      BY <2>3, ZenonT(60)
    <3> QED BY <3>1, <3>2, <2>4, WriteStep, ZenonT(60)
  <2> QED BY <2>1, <2>5, ZenonT(60)
<1>7. N \in D
  <2> HIDE DEF D
  <2> QED BY <1>1, <1>5, <1>6, SetInduction, ZenonT(60)
<1>8. N + 1 - N = 1
  BY <1>1, SMTT(20), Z3T(20)
<1>9. turn[N] = WrittenBehind(h, met)
  BY <1>1, <1>2, <1>4 DEF Turns
<1> QED BY <1>7, <1>8, <1>9, ZenonT(60)

\* The declaration of the trailers.
LEMMA DeclareFold ==
  ASSUME NEW h, NEW order
  PROVE  Declared(h, order) = Fold(<<"declare">>, h, order)
<1> DEFINE A(g) == [d \in SUBSET DOMAIN order |->
                      IF d = {} THEN h ELSE Turn(<<"declare">>, g[d \ {Max(d)}], order[Max(d)])]
           B(g) == [d \in SUBSET DOMAIN order |->
                      IF d = {} THEN h ELSE Add(g[d \ {Max(d)}], "Trailer", <<order[Max(d)]>>)]
<1>1. \A g : A(g) = B(g)
  BY DEF Turn
<1>2. (CHOOSE g : g = A(g)) = (CHOOSE g : g = B(g))
  <2> HIDE DEF A, B
  <2> QED BY <1>1
<1>3. Fold(<<"declare">>, h, order) = (CHOOSE g : g = A(g))[DOMAIN order]
  BY Zenon DEF Fold, Loop, MapThenFoldSet
<1>4. Declared(h, order) = (CHOOSE g : g = B(g))[DOMAIN order]
  BY Zenon DEF Declared, Loop, MapThenFoldSet
<1> HIDE DEF A, B
<1> QED BY <1>2, <1>3, <1>4, Zenon

\* Every trailer is declared, and only the header Trailer is touched (copier.go:42-46).
LEMMA DeclareLoop ==
  ASSUME NEW names, "Trailer" \in names, NEW h, IsFun(h, names), h["Trailer"] = <<>>, NEW S, NEW order \in Seq(S)
  PROVE  /\ IsFun(Declared(h, order), names)
         /\ \A n \in names : n # "Trailer" => Declared(h, order)[n] = h[n]
         /\ Declared(h, order)["Trailer"] = [j \in 1..Len(order) |-> <<order[j]>>]
<1> DEFINE e == <<"declare">>
           N == Len(order)
           Good(g, k) == /\ IsFun(g, names)
                         /\ \A n \in names : n # "Trailer" => g[n] = h[n]
                         /\ g["Trailer"] = [j \in 1..k |-> <<order[j]>>]
<1>1. N \in Nat
  BY SMTT(20), Z3T(20)
<1>2. ASSUME NEW g, NEW k \in 0..N - 1, Good(g, k) PROVE Good(Add(g, "Trailer", <<order[k + 1]>>), k + 1)
  <2> DEFINE s == [j \in 1..k |-> <<order[j]>>]
             v == <<order[k + 1]>>
             f == Add(g, "Trailer", v)
             T == {<<order[j]>> : j \in 1..N}
  <2>1. k \in Nat /\ k + 1 \in 1..N /\ 1..k + 1 = 1..k \cup {k + 1} /\ k + 1 \notin 1..k /\ 1..k \subseteq 1..N
    BY <1>1, SMTT(20), Z3T(20)
  <2>2. s \in [1..k -> T] /\ v \in T
    BY <2>1, ZenonT(60)
  <2>3. s \in Seq(T) /\ Len(s) = k /\ \A j \in 1..k : s[j] = <<order[j]>>
    <3>1. DOMAIN s = 1..k /\ \A j \in 1..k : s[j] = <<order[j]>>
      OBVIOUS
    <3> HIDE DEF s, T
    <3>2. s \in Seq(T)
      BY <2>1, <2>2, SMTT(20), Z3T(20)
    <3>3. Len(s) = k
      BY <2>1, <3>1, <3>2, SMTT(20), Z3T(20)
    <3> QED BY <3>1, <3>2, <3>3, Zenon
  <2>4. f = [n \in names |-> IF n = "Trailer" THEN Append(s, v) ELSE g[n]]
    <3> HIDE DEF v
    <3>1. DOMAIN g = names /\ g["Trailer"] = s /\ g = [n \in names |-> g[n]]
      BY <1>2 DEF IsFun
    <3> HIDE DEF s
    <3> QED BY <3>1, Zenon DEF Add
  <2> HIDE DEF s, f, T
  <2>5. Append(s, v) = [j \in 1..k + 1 |-> <<order[j]>>]
    <3> DEFINE a == Append(s, v)
    <3>1. a \in Seq(T) /\ Len(a) = k + 1 /\ a[k + 1] = v /\ \A j \in 1..k : a[j] = s[j]
      BY <2>2, <2>3, SMTT(20), Z3T(20)
    <3> HIDE DEF a
    <3>2. a = [j \in 1..k + 1 |-> a[j]]
      BY <3>1, SMTT(20), Z3T(20)
    <3>3. \A j \in 1..k + 1 : a[j] = <<order[j]>>
      BY <2>1, <2>3, <3>1, ZenonT(60)
    <3>4. a = [j \in 1..k + 1 |-> <<order[j]>>]
      BY <3>2, <3>3
    <3> QED BY <3>4, Zenon DEF a
  <2>6. IsFun(f, names)
    BY <2>4 DEF IsFun
  <2> QED BY <1>2, <2>4, <2>5, <2>6, Zenon DEF f
<1>3. PICK turn : Turns(turn, e, h, order)
  BY FoldTurns, Zenon
<1> DEFINE D == {k \in 0..N : Good(turn[k], k)}
<1>4. Good(h, 0)
  <2>1. [j \in 1..0 |-> <<order[j]>>] = <<>>
    BY SMTT(20), Z3T(20)
  <2> QED BY <2>1
<1>5. \A g, y : Turn(e, g, y) = Add(g, "Trailer", <<y>>)
  BY ZenonT(60) DEF Turn
<1> HIDE DEF e, Good
<1>6. 0 \in D
  BY <1>1, <1>3, <1>4, SMTT(20), Z3T(20) DEF Turns
<1>7. ASSUME NEW n \in 0..N - 1, n \in D PROVE n + 1 \in D
  <2>1. n + 1 \in 0..N
    BY <1>1, SMTT(20), Z3T(20)
  <2> QED BY <2>1, <1>2, <1>3, <1>5, <1>7, ZenonT(60) DEF Turns
<1>8. N \in D
  <2> HIDE DEF D
  <2> QED BY <1>1, <1>6, <1>7, SetInduction
<1>9. Good(Declared(h, order), N)
  BY <1>3, <1>8, DeclareFold DEF Turns, e
<1> QED BY <1>9 DEF Good

-----------------------------------------------------------------------------
\* Without Connection nothing is listed: the fixed names go.
LEMMA HopByHop ==
  ASSUME NEW names, "Connection" \in names, NEW h, IsFun(h, names)
  PROVE  removeHopByHopHeaders(h) = [n \in names |-> IF n \in hopByHopHeaders THEN <<>> ELSE h[n]]
<1> DEFINE left == Del(h, hopByHopHeaders)
<1>1. left = [n \in names |-> IF n \in hopByHopHeaders THEN <<>> ELSE h[n]]
  BY DEF Del, IsFun
<1>2. left["Connection"] = <<>>
  BY <1>1 DEF hopByHopHeaders
<1>3. Listed(left) = {}
  <2> HIDE DEF left
  <2> QED BY <1>2, SMTT(20), Z3T(20) DEF Listed, Range
<1>4. removeHopByHopHeaders(h) = Del(left, Listed(left))
  BY DEF removeHopByHopHeaders
<1>5. Del(left, {}) = left
  <2> HIDE DEF left
  <2> QED BY <1>1 DEF Del
<1> QED BY <1>1, <1>3, <1>4, <1>5

\* The usable plugins of a list, in its order.
Line(line, l, list) ==
  /\ line \in Seq({<<l, k>> : k \in UsableIn(list)})
  /\ \A j, k \in 1..Len(line) : j < k => Before(line[j], line[k])
  /\ \A k \in UsableIn(list) : \E j \in 1..Len(line) : line[j] = <<l, k>>
  /\ \A j \in 1..Len(line) : line[j][1] = l

\* Both chains are such lines.
LEMMA ChainLine ==
  ASSUME NEW l, l \in {"global", "route"}, NEW list, IsSeq(list), NEW c, Chain(c, 1..Len(list), list)
  PROVE  Line(Places(l, c), l, list)
<1> DEFINE line == Places(l, c)
           N == Len(list)
<1>1. N \in Nat /\ DOMAIN list = 1..N
  BY SMTT(20), Z3T(20) DEF IsSeq
<1>2. /\ c \in Seq(1..N) /\ Len(c) \in Nat /\ DOMAIN c = 1..Len(c)
      /\ \A j, k \in 1..Len(c) : j < k => c[j] < c[k]
      /\ \A k \in 1..N : Usable(list[k]) <=> \E j \in 1..Len(c) : c[j] = k
      /\ \A j \in 1..Len(c) : c[j] \in 1..N
  BY <1>1, SMTT(20), Z3T(20) DEF Chain
<1> HIDE DEF N
<1>3. line = [k \in 1..Len(c) |-> <<l, c[k]>>]
  BY <1>2 DEF Places
<1>4. \A j \in 1..Len(c) : c[j] \in UsableIn(list)
  BY <1>1, <1>2, ZenonT(60) DEF UsableIn
<1>5. line \in [1..Len(c) -> {<<l, k>> : k \in UsableIn(list)}]
  BY <1>3, <1>4
<1>6. line \in Seq({<<l, k>> : k \in UsableIn(list)}) /\ Len(line) = Len(c)
  <2> DEFINE T == {<<l, k>> : k \in UsableIn(list)}
             n == Len(c)
  <2>1. line \in [1..n -> T] /\ n \in Nat
    BY <1>2, <1>5
  <2> HIDE DEF T, n, line
  <2>2. line \in Seq(T) /\ Len(line) = n
    BY <2>1, SMTT(20), Z3T(20)
  <2> QED BY <2>2, ZenonT(60) DEF T, n
<1>7. \A j \in 1..Len(c) : line[j] = <<l, c[j]>> /\ line[j][1] = l /\ line[j][2] = c[j]
  BY <1>3, SMTT(20), Z3T(20)
<1> HIDE DEF line
<1>8. \A j, k \in 1..Len(c) : j < k => Before(line[j], line[k])
  BY <1>2, <1>7, ZenonT(60) DEF Before
<1>9. \A k \in UsableIn(list) : \E j \in 1..Len(c) : line[j] = <<l, k>>
  BY <1>1, <1>2, <1>7, SMTT(20), Z3T(20) DEF UsableIn
<1> QED BY <1>6, <1>7, <1>8, <1>9, Zenon DEF line, Line

\* The two headers that the middleware in front sets.
LEMMA FrontHeaders ==
  ASSUME NEW names, NEW h, IsFun(h, names)
  PROVE  /\ IsFun(RequestID(h), names) /\ IsFun(CORS(h), names)
         /\ "Trailer" \in names => CORS(h)["Trailer"] = h["Trailer"]
<1>1. IsFun(RequestID(h), names)
  BY DEF IsFun, RequestID, Put
<1>2. IsFun(CORS(h), names) /\ ("Trailer" \in names => CORS(h)["Trailer"] = h["Trailer"])
  BY DEF IsFun, CORS, Put
<1> QED BY <1>1, <1>2

\* A header of the inner writer, and what the outer one has in its place when there
\* is none.
Laid(v, n) == IF v = <<>> THEN Overlaid(NoHeader(Fields))[n] ELSE v

LEMMA OverlaidHeader ==
  ASSUME NEW h, DOMAIN h = Fields, NEW n \in Fields
  PROVE  /\ Overlaid(h)[n] = Laid(h[n], n)
         /\ front # "router" => \A v : Laid(v, n) = v
<1> DEFINE none == NoHeader(Fields)
<1>1. DOMAIN none = Fields /\ \A m \in Fields : none[m] = <<>>
  BY DEF NoHeader
<1> HIDE DEF none
<1>2. CASE front # "router"
  BY <1>1, <1>2, ZenonT(60) DEF Overlaid, Laid, none
<1>3. CASE front = "router" /\ n # "X-Request-ID"
  <2>1. \A g : DOMAIN g = Fields => RequestID(g)[n] = g[n]
    BY <1>3, ZenonT(60) DEF RequestID, Put
  <2>2. \A g : DOMAIN g = Fields => Overlaid(g)[n] = g[n]
    BY <2>1, ZenonT(60) DEF Overlaid
  <2> QED BY <1>1, <1>3, <2>2, ZenonT(60) DEF Laid, none
<1>4. CASE front = "router" /\ n = "X-Request-ID"
  <2>1. \A g : DOMAIN g = Fields => RequestID(g)[n] = <<<<"id">>>>
    BY <1>4, ZenonT(60) DEF RequestID, Put
  <2>2. \A g : DOMAIN g = Fields => Overlaid(g)[n] = IF g[n] = <<>> THEN <<<<"id">>>> ELSE g[n]
    BY <1>4, <2>1, ZenonT(60) DEF Overlaid, Present
  <2> QED BY <1>1, <1>4, <2>2, ZenonT(60) DEF Laid, none
<1> QED BY <1>2, <1>3, <1>4, ZenonT(60)

\* Two lines, one behind the other.
Behind(a, b) ==
  /\ \A j, k \in 1..Len(a) : j < k => Before(a[j], a[k])
  /\ \A j, k \in 1..Len(b) : j < k => Before(b[j], b[k])
  /\ \A j \in 1..Len(a), k \in 1..Len(b) : Before(a[j], b[k])
Covers(W, a, b) == \A e \in W : (\E k \in 1..Len(a) : a[k] = e) \/ \E k \in 1..Len(b) : b[k] = e

\* The head of the second line joins the first, and nothing is skipped.
LEMMA NextInLine ==
  ASSUME NEW W, NEW a \in Seq(W), NEW b \in Seq(W), b # <<>>, Behind(a, b), Covers(W, a, b)
  PROVE  /\ Append(a, Head(b)) \in Seq(W) /\ Tail(b) \in Seq(W)
         /\ Behind(Append(a, Head(b)), Tail(b))
         /\ Covers(W, Append(a, Head(b)), Tail(b))
<1> DEFINE c == Append(a, Head(b))
           d == Tail(b)
<1>1. /\ Len(a) \in Nat /\ Len(b) \in Nat /\ 1 \in 1..Len(b) /\ Head(b) = b[1] /\ Head(b) \in W
      /\ c \in Seq(W) /\ Len(c) = Len(a) + 1
      /\ d \in Seq(W) /\ Len(d) = Len(b) - 1
  BY SMTT(20), Z3T(20)
<1>2. /\ \A j \in 1..Len(a) : c[j] = a[j]
      /\ c[Len(a) + 1] = b[1]
      /\ \A k \in 1..Len(d) : d[k] = b[k + 1]
  BY <1>1, SMTT(20), Z3T(20)
<1>3. /\ 1..Len(c) = 1..Len(a) \cup {Len(a) + 1}
      /\ \A k \in 1..Len(d) : k + 1 \in 1..Len(b) /\ 1 < k + 1
      /\ \A k \in 1..Len(b) : k # 1 => k - 1 \in 1..Len(d) /\ k - 1 + 1 = k
      /\ \A j \in 1..Len(a) : ~(Len(a) + 1 < j)
  BY <1>1, SMTT(20), Z3T(20)
<1> HIDE DEF c, d
<1>4. ASSUME NEW j \in 1..Len(c), NEW k \in 1..Len(c), j < k PROVE Before(c[j], c[k])
  <2>1. j \in 1..Len(a)
    BY <1>1, <1>4, SMTT(20), Z3T(20)
  <2>2. CASE k = Len(a) + 1
    BY <2>1, <2>2, <1>1, <1>2, ZenonT(60) DEF Behind
  <2>3. CASE k \in 1..Len(a)
    BY <2>1, <2>3, <1>2, <1>4, ZenonT(60) DEF Behind
  <2> QED BY <1>3, <2>2, <2>3, ZenonT(60)
<1>5. ASSUME NEW j \in 1..Len(d), NEW k \in 1..Len(d), j < k PROVE Before(d[j], d[k])
  <2>1. j + 1 < k + 1
    BY <1>1, <1>5, SMTT(20), Z3T(20)
  <2> QED BY <2>1, <1>2, <1>3, ZenonT(60) DEF Behind
<1>6. ASSUME NEW j \in 1..Len(c), NEW k \in 1..Len(d) PROVE Before(c[j], d[k])
  <2>1. d[k] = b[k + 1] /\ k + 1 \in 1..Len(b) /\ 1 < k + 1
    BY <1>2, <1>3, ZenonT(60)
  <2>2. CASE j = Len(a) + 1
    BY <2>1, <2>2, <1>1, <1>2, ZenonT(60) DEF Behind
  <2>3. CASE j \in 1..Len(a)
    BY <2>1, <2>3, <1>2, ZenonT(60) DEF Behind
  <2> QED BY <1>3, <2>2, <2>3, Zenon
<1>7. ASSUME NEW e \in W PROVE (\E k \in 1..Len(c) : c[k] = e) \/ \E k \in 1..Len(d) : d[k] = e
  <2>1. CASE \E k \in 1..Len(a) : a[k] = e
    BY <2>1, <1>2, <1>3, ZenonT(60)
  <2>2. CASE \E k \in 1..Len(b) : b[k] = e
    <3>1. PICK k \in 1..Len(b) : b[k] = e
      BY <2>2, ZenonT(60)
    <3>2. CASE k = 1
      BY <3>1, <3>2, <1>2, <1>3, ZenonT(60)
    <3>3. CASE k # 1
      BY <3>1, <3>3, <1>2, <1>3, Zenon
    <3> QED BY <3>2, <3>3, ZenonT(60)
  <2> QED BY <2>1, <2>2, ZenonT(60) DEF Covers
<1>8. c \in Seq(W) /\ d \in Seq(W)
  BY <1>1
<1> QED BY <1>4, <1>5, <1>6, <1>7, <1>8, Zenon DEF Behind, Covers, c, d

\* Who is before one that was met was met.
LEMMA NoneSkipped ==
  ASSUME NEW W, \A d, e \in W : Before(d, e) => ~Before(e, d),
         NEW a \in Seq(W), NEW b \in Seq(W), Behind(a, b), Covers(W, a, b), NEW e \in W,
         NEW k \in 1..Len(a), Before(e, a[k])
  PROVE  \E j \in 1..Len(a) : a[j] = e
<1>1. ASSUME NEW m \in 1..Len(b), b[m] = e PROVE FALSE
  <2>1. a[k] \in W /\ Before(a[k], e)
    BY <1>1, SMTT(20), Z3T(20) DEF Behind
  <2> QED BY <2>1, ZenonT(60)
<1> QED BY <1>1, ZenonT(60) DEF Covers

-----------------------------------------------------------------------------
\* The types of the scan.
Typed ==
  /\ routes \in Seq(Entries)
  /\ i \in 1..Len(routes) + 1
  /\ best \in 0..i - 1
  /\ bestScore \in Int
  /\ result \in {"pending", "handled", "notFound"}

\* best is the first of the best-scored matches among the entries before i.
ScanInv ==
  /\ best = 0 =>
       /\ bestScore = -1
       /\ \A k \in 1..i - 1 : ~Matches(routes[k])
  /\ best # 0 =>
       /\ Matches(routes[best])
       /\ bestScore = score(routes[best])
       /\ \A k \in 1..i - 1 :
            Matches(routes[k]) =>
              /\ score(routes[k]) <= bestScore
              /\ k < best => score(routes[k]) < bestScore

\* The outcome is the one the scan found.
ResultInv ==
  result # "pending" =>
    /\ i = Len(routes) + 1
    /\ (result = "handled") = (best # 0)

MatchInv == Typed /\ ScanInv /\ ResultInv

\* The length of an entry's prefix is bounded and its score is a natural number.
LEMMA ScoreBounds ==
  ASSUME NEW r \in Entries
  PROVE  Len(r.prefix) \in 0..MaxLen /\ score(r) \in Nat
<1>1. PICK n \in 0..MaxLen : r.prefix \in [1..n -> Chars]
  BY DEF Entries, Strings
<1>2. n \in Nat /\ Len(r.prefix) = n
  BY <1>1, MatchConfig, SMTT(20), Z3T(20)
<1> QED BY <1>1, <1>2, MatchConfig, SMTT(20), Z3T(20) DEF score

\* The scores order the routes the way the reference does: this is where a
\* prefix has to be shorter than the bonus.
LEMMA ScoreOrder ==
  ASSUME NEW a \in Entries, NEW b \in Entries
  PROVE  /\ score(a) > score(b) =>
              \/ a.host # AnyHost /\ b.host = AnyHost
              \/ /\ (a.host = AnyHost) = (b.host = AnyHost)
                 /\ Len(a.prefix) > Len(b.prefix)
         /\ score(a) = score(b) =>
              /\ (a.host = AnyHost) = (b.host = AnyHost)
              /\ Len(a.prefix) = Len(b.prefix)
<1>1. Len(a.prefix) \in 0..MaxLen /\ Len(b.prefix) \in 0..MaxLen
  BY ScoreBounds, ZenonT(60)
<1>2. CASE a.host = AnyHost /\ b.host = AnyHost
  BY <1>1, <1>2, MatchConfig, SMTT(20), Z3T(20) DEF score
<1>3. CASE a.host = AnyHost /\ b.host # AnyHost
  BY <1>1, <1>3, MatchConfig, SMTT(20), Z3T(20) DEF score
<1>4. CASE a.host # AnyHost /\ b.host = AnyHost
  BY <1>1, <1>4, MatchConfig, SMTT(20), Z3T(20) DEF score
<1>5. CASE a.host # AnyHost /\ b.host # AnyHost
  BY <1>1, <1>5, MatchConfig, SMTT(20), Z3T(20) DEF score
<1> QED BY <1>2, <1>3, <1>4, <1>5, ZenonT(60)

\* The table of a configuration.
LEMMA MatchInit == ServeInit => MatchInv
<1> SUFFICES ASSUME ServeInit PROVE MatchInv
  BY ZenonT(60)
<1> DEFINE rs == conf.Proxy.Routes
<1>1. rs \in Seq(Range(rs)) /\ \A r \in Range(rs) : r.Host \in Hosts \cup {AnyHost} /\ r.PathPrefix \in Strings
  BY ZenonT(60) DEF ServeInit, IsConfig, IsSeq
<1>2. Len(rs) \in Nat /\ DOMAIN rs = 1..Len(rs) /\ \A k \in 1..Len(rs) : rs[k] \in Range(rs)
  BY <1>1, SMTT(20), Z3T(20) DEF Range
<1>3. routes = [k \in 1..Len(rs) |-> [host |-> rs[k].Host, prefix |-> rs[k].PathPrefix]]
  BY <1>2, ZenonT(60) DEF ServeInit, buildRoutes
<1>4. routes \in [1..Len(rs) -> Entries]
  BY <1>1, <1>2, <1>3, ZenonT(60) DEF Entries
<1>5. routes \in Seq(Entries) /\ Len(routes) \in Nat
  BY <1>2, <1>4, SMTT(20), Z3T(20)
<1> QED BY <1>5, SMTT(20), Z3T(20) DEF ServeInit, MatchStart, MatchInv, Typed, ScanInv, ResultInv

\* A turn of the loop extends the scanned part by one entry.
LEMMA ConsiderStep ==
  ASSUME MatchInv, Consider
  PROVE  MatchInv'
<1> USE DEF MatchInv
<1>1. /\ routes' = routes /\ result' = result /\ i' = i + 1
      /\ i \in 1..Len(routes) /\ Len(routes) \in Nat
      /\ \A r : Matches(r)' = Matches(r)
  BY SMTT(20), Z3T(20) DEF Consider, request, Typed, Matches
<1>2. routes[i] \in Entries /\ score(routes[i]) \in Nat
  BY <1>1, ScoreBounds, SMTT(20), Z3T(20) DEF Typed
<1>3. ResultInv'
  BY <1>1, SMTT(20), Z3T(20) DEF ResultInv, Typed
<1>4. CASE Matches(routes[i]) /\ score(routes[i]) > bestScore
  <2>1. best' = i /\ bestScore' = score(routes[i])
    BY <1>4, ZenonT(60) DEF Consider
  <2>2. Typed'
    BY <1>1, <1>2, <2>1, SMTT(20), Z3T(20) DEF Typed
  <2>3. ASSUME NEW k \in 1..i, Matches(routes[k])
        PROVE  /\ score(routes[k]) <= bestScore'
               /\ k < i => score(routes[k]) < bestScore'
    <3>1. CASE k = i
      BY <3>1, <2>1, <1>2, SMTT(20), Z3T(20)
    <3>2. CASE k # i
      <4>1. k \in 1..i - 1 /\ routes[k] \in Entries
        BY <3>2, <1>1, SMTT(20), Z3T(20) DEF Typed
      <4>2. score(routes[k]) \in Nat
        BY <4>1, ScoreBounds, ZenonT(60)
      <4>3. best # 0 /\ score(routes[k]) <= bestScore
        BY <4>1, <2>3, ZenonT(60) DEF ScanInv
      <4> QED BY <4>2, <4>3, <2>1, <1>2, <1>4, SMTT(20), Z3T(20) DEF Typed
    <3> QED BY <3>1, <3>2, ZenonT(60)
  <2>4. ScanInv'
    BY <1>1, <1>4, <2>1, <2>3, SMTT(20), Z3T(20) DEF ScanInv, score
  <2> QED BY <1>3, <2>2, <2>4, ZenonT(60)
<1>5. CASE ~(Matches(routes[i]) /\ score(routes[i]) > bestScore)
  <2>1. best' = best /\ bestScore' = bestScore
    BY <1>5, ZenonT(60) DEF Consider
  <2>2. Typed'
    BY <1>1, <2>1, SMTT(20), Z3T(20) DEF Typed
  <2>3. best = 0 => ~Matches(routes[i])
    BY <1>5, <1>2, SMTT(20), Z3T(20) DEF ScanInv
  <2>4. \A k \in 1..i : k = i \/ k \in 1..i - 1
    BY <1>1, SMTT(20), Z3T(20)
  <2>5. best \in 0..i - 1
    BY DEF Typed
  <2>6. Matches(routes[i]) => score(routes[i]) <= bestScore
    BY <1>2, <1>5, SMTT(20), Z3T(20) DEF Typed
  <2>7. ~(i < best)
    BY <1>1, <2>5, SMTT(20), Z3T(20)
  <2>8. i' - 1 = i
    BY <1>1, SMTT(20), Z3T(20)
  <2>9. (best = 0 => bestScore = -1 /\ \A k \in 1..i' - 1 : ~Matches(routes[k]))
    BY <2>3, <2>4, <2>8, ZenonT(60) DEF ScanInv
  <2>10. best # 0 => \A k \in 1..i' - 1 :
            Matches(routes[k]) =>
              /\ score(routes[k]) <= bestScore
              /\ k < best => score(routes[k]) < bestScore
    BY <2>4, <2>6, <2>7, <2>8, ZenonT(60) DEF ScanInv
  <2>11. ScanInv'
    BY <1>1, <2>1, <2>9, <2>10, ZenonT(60) DEF ScanInv, score
  <2> QED BY <1>3, <2>2, <2>11
<1> QED BY <1>4, <1>5, ZenonT(60)

\* Every step of the match preserves its invariant.
LEMMA MatchStep ==
  ASSUME MatchInv, [Consider \/ ServeHTTP]_vars
  PROVE  MatchInv'
<1>1. CASE Consider
  BY <1>1, ConsiderStep, ZenonT(60)
<1>2. CASE ServeHTTP
  BY <1>2, SMTT(20), Z3T(20) DEF ServeHTTP, request, MatchInv, Typed, ScanInv, ResultInv, Matches, score
<1>3. CASE UNCHANGED vars
  BY <1>3 DEF vars, request, MatchInv, Typed, ScanInv, ResultInv, Matches, score
<1> QED BY <1>1, <1>2, <1>3

\* At the end of the scan the loop invariant is the claim.
LEMMA MatchImplies == MatchInv => RightRoute
<1> SUFFICES ASSUME MatchInv PROVE RightRoute
  OBVIOUS
<1> USE DEF MatchInv
<1>1. ASSUME result = "notFound", NEW k \in 1..Len(routes)
      PROVE  ~Matches(routes[k])
  BY <1>1, SMTT(20), Z3T(20) DEF Typed, ScanInv, ResultInv
<1>2. CASE result = "handled"
  <2>1. best # 0 /\ i = Len(routes) + 1 /\ best \in 1..Len(routes) /\ Matches(routes[best])
    BY <1>2, SMTT(20), Z3T(20) DEF Typed, ScanInv, ResultInv
  <2>2. ASSUME NEW k \in 1..Len(routes), Matches(routes[k]), k # best
        PROVE  Precedes(best, k)
    <3>1. routes[k] \in Entries /\ routes[best] \in Entries
      BY <2>1, SMTT(20), Z3T(20) DEF Typed
    <3>2. score(routes[k]) \in Nat /\ score(routes[best]) \in Nat
      BY <3>1, ScoreBounds, ZenonT(60)
    <3>3. k \in 1..i - 1
      BY <2>1, SMTT(20), Z3T(20) DEF Typed
    <3>4. /\ score(routes[k]) <= score(routes[best])
          /\ k < best => score(routes[k]) < score(routes[best])
      BY <2>1, <2>2, <3>3, ZenonT(60) DEF ScanInv
    <3>5. CASE score(routes[best]) > score(routes[k])
      BY <3>1, <3>5, ScoreOrder, ZenonT(60) DEF Precedes
    <3>6. CASE score(routes[best]) = score(routes[k])
      <4>1. best < k
        BY <3>2, <3>4, <3>6, <2>1, <2>2, SMTT(20), Z3T(20)
      <4> QED BY <4>1, <3>1, <3>6, ScoreOrder, ZenonT(60) DEF Precedes
    <3> QED BY <3>2, <3>4, <3>5, <3>6, SMTT(20), Z3T(20)
  <2> QED BY <1>2, <2>1, <2>2, ZenonT(60) DEF RightRoute
<1>3. CASE result # "handled"
  BY <1>1, <1>3 DEF RightRoute
<1> QED BY <1>2, <1>3
==============================================================================
