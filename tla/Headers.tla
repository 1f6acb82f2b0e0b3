------------------------------- MODULE Headers -------------------------------
(***************************************************************************)
(* Header maps (net/http.Header, net/url.Values) and the edits that the    *)
(* two transformer plugins make to them (internal/plugin/plugins,          *)
(* request_transformer.go and response_transformer.go).                    *)
(*                                                                         *)
(* A map gives every name of its domain the sequence of its values, the    *)
(* empty sequence for a name that is absent; names outside the domain are  *)
(* not told apart and always absent.  A name stands for all its spellings. *)
(* A value is a sequence of atoms, the empty string the empty sequence.    *)
(***************************************************************************)
EXTENDS Integers, Sequences, FiniteSetsExt, Functions

\* for _, y := range s { x = op(x, y) }, and s from the end.  These are FoldLeft and
\* Reverse of SequencesExt, a module that fills every proof with facts about bags.
Loop(op(_, _), x, s) == MapThenFoldSet(LAMBDA y, z : op(z, y), x, LAMBDA k : s[k], LAMBDA S : Max(S), DOMAIN s)
Backwards(s) == [k \in DOMAIN s |-> s[Len(s) + 1 - k]]

\* A sequence; a map with these names.
IsSeq(s) == s \in Seq(Range(s))
IsHeader(h, names) == h \in [names -> Seq(UNION {Range(h[n]) : n \in DOMAIN h})]

Present(h) == {n \in DOMAIN h : h[n] # <<>>}

Get(h, n) == IF n \in Present(h) THEN h[n][1] ELSE <<>>

Put(h, n, v) == [h EXCEPT ![n] = <<v>>]

Add(h, n, v) == [h EXCEPT ![n] = Append(@, v)]

Del(h, S) == [n \in DOMAIN h |-> IF n \in S THEN <<>> ELSE h[n]]

\* The orders in which a Go program may range over a map with these keys.
Orders(S) == {s \in Bijection(1..Cardinality(S), S) : IsSeq(s)}

\* One turn of the rename loop, and the loop.
Rename(h, old, new) ==
  IF Get(h, old) = <<>> THEN h ELSE Del(Put(h, new, Get(h, old)), {old})
Renamed(h, rename, order) == Loop(LAMBDA g, old : Rename(g, old, rename[old]), h, order)

\* The add loop: every name gets one value.
PutAll(h, map) == [n \in DOMAIN h |-> IF n \in DOMAIN map THEN <<map[n]>> ELSE h[n]]

\* Variant of applyTransforms: the additions come before the removals.
applyTransformsAddFirst(h, t) ==
  {Renamed(Del(PutAll(h, t.add), t.remove), t.rename, order) : order \in Orders(DOMAIN t.rename)}

\* Remove, then rename, then add.  What comes out may depend on the order in which
\* the renames are met.
applyTransforms(h, t) ==
  {PutAll(Renamed(Del(h, t.remove), t.rename, order), t.add) : order \in Orders(DOMAIN t.rename)}
-----------------------------------------------------------------------------
\* The names that the edits are about.
Mentions(t) == t.remove \cup DOMAIN t.add \cup DOMAIN t.rename \cup Range(t.rename)

(***************************************************************************)
(* The reference: all renames happen at once.  It is defined for renames   *)
(* that do not meet: no two give the same name, and none gives a name that *)
(* another one takes away.                                                 *)
(***************************************************************************)
Apart(t) == IsInjective(t.rename) /\ Range(t.rename) \cap DOMAIN t.rename = {}

Edited(h, t) ==
  LET kept  == Del(h, t.remove)
      moved == {old \in DOMAIN t.rename : Get(kept, old) # <<>>}
      From(n) == {old \in moved : t.rename[old] = n}
  IN  PutAll([n \in DOMAIN h |-> IF From(n) # {} THEN <<Get(kept, CHOOSE old \in From(n) : TRUE)>>
                                 ELSE Del(kept, moved)[n]], t.add)
=============================================================================
