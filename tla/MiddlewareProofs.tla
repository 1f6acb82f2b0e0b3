-------------------------- MODULE MiddlewareProofs --------------------------
(***************************************************************************)
(* For any number of responses and compressors: no compressor is shared or *)
(* lost, and a client gets a whole response or an error page.              *)
(*                                                                         *)
(* Delivered speaks of finished responses only, and says how many bytes of *)
(* which writes are there.  Its invariant follows the bytes of a response  *)
(* on their way through buffer, compressor and wire (Headed), and says     *)
(* what a panic may cut off (Cut).                                         *)
(***************************************************************************)
EXTENDS Middleware, SequenceTheorems, TLAPS

Bytes == Responses \X Nat

Types ==
  /\ pc \in [Responses -> {"idle", "serving", "closing", "putting", "done"}]
  /\ accepts \in [Responses -> BOOLEAN] /\ listed \in [Responses -> BOOLEAN]
  /\ panicked \in [Responses -> BOOLEAN] /\ activated \in [Responses -> BOOLEAN]
  /\ written \in [Responses -> Seq(Bytes)]
  /\ wire \in [Responses -> Seq(Bytes)]
  /\ buf \in [Responses -> Seq(Bytes)]
  /\ gz \in [Responses -> Writers \cup {None}]
  /\ pool \subseteq Writers
  /\ sink \in [Writers -> Responses \cup {None}]
  /\ pending \in [Writers -> Seq(Bytes)]

\* The bytes of r that are still on their way.
Rest(r) ==
  IF gz[r] # None THEN pending[gz[r]] ELSE IF activated[r] THEN <<>> ELSE buf[r]

\* The part of the invariant that is about one response: a compressor is held only
\* between activation and the end, points at its holder and is not in the pool; and
\* what was written is what arrived and what is on its way.
Local(r) ==
  /\ pc[r] \in {"idle", "done"} \/ ~activated[r] => gz[r] = None
  /\ pc[r] = "putting" => gz[r] # None /\ pending[gz[r]] = <<>>
  /\ ~accepts[r] => ~activated[r] /\ buf[r] = <<>> /\ pc[r] \notin {"closing", "putting"}
  /\ gz[r] # None => gz[r] \notin pool /\ sink[gz[r]] = r
  /\ ~panicked[r] => written[r] = IF pc[r] = "done" THEN wire[r] ELSE wire[r] \o Rest(r)

\* A compressor is held by one response at most, and by one if it is not in the pool.
Owned ==
  /\ \A r, s \in Responses : gz[r] # None /\ gz[r] = gz[s] => r = s
  /\ \A w \in Writers \ pool : \E r \in Responses : gz[r] = w

StackInv == Types /\ (\A r \in Responses : Local(r)) /\ Owned

\* A step of another response does not touch s.
Same(s) ==
  /\ pc'[s] = pc[s] /\ accepts'[s] = accepts[s] /\ panicked'[s] = panicked[s]
  /\ activated'[s] = activated[s] /\ written'[s] = written[s] /\ wire'[s] = wire[s]
  /\ buf'[s] = buf[s] /\ gz'[s] = gz[s]
  /\ gz[s] # None => /\ gz[s] \notin pool'
                     /\ sink'[gz[s]] = sink[gz[s]] /\ pending'[gz[s]] = pending[gz[s]]

\* What a step of r does to the pool: nothing, a Get or a Put.
Moves(r) ==
  \/ pool' = pool /\ gz' = gz
  \/ gz[r] = None /\ \E w \in pool : pool' = pool \ {w} /\ gz' = [gz EXCEPT ![r] = w]
  \/ gz[r] # None /\ pool' = pool \cup {gz[r]} /\ gz' = [gz EXCEPT ![r] = None]

LEMMA Concat ==
  /\ <<>> \in Seq(Bytes)
  /\ \A a \in Seq(Bytes) : a \o <<>> = a /\ <<>> \o a = a
  /\ \A a, b \in Seq(Bytes) : a \o b \in Seq(Bytes)
  BY ConcatProperties, ConcatEmptySeq, EmptySeq

LEMMA Regroup ==
  \A a, b, c \in Seq(Bytes) : (a \o b) \o c = a \o (b \o c)
<1>1. ASSUME NEW a \in Seq(Bytes), NEW b \in Seq(Bytes), NEW c \in Seq(Bytes)
      PROVE  (a \o b) \o c = a \o (b \o c)
  BY ConcatAssociative, SMTT(20), Z3T(20)
<1> QED  BY <1>1, ZenonT(60)

LEMMA ChunkIsSeq ==
  ASSUME Types, NEW r \in Responses, NEW n \in 1..MaxBytes
  PROVE  Chunk(r, n) \in Seq(Bytes)
<1>1. n \in Nat /\ Len(written[r]) \in Nat
  BY GzipConfig, LenProperties, SMTT(20), Z3T(20) DEF Types
<1>2. Chunk(r, n) \in [1..n -> Bytes]
  BY <1>1, SMTT(20), Z3T(20) DEF Chunk, Bytes
<1> QED  BY <1>1, <1>2, SeqDef, SMTT(20), Z3T(20)

LEMMA InvInit == StackInit => StackInv
<1> SUFFICES ASSUME StackInit PROVE StackInv
  OBVIOUS
<1>1. <<>> \in Seq(Bytes) /\ <<>> \o <<>> = <<>>
  BY EmptySeq, ConcatEmptySeq
<1>2. Types
  BY <1>1 DEF StackInit, Init, Types
<1>3. \A r \in Responses : Local(r)
  BY <1>1, ZenonT(60) DEF StackInit, Init, Local, Rest
<1>4. Owned
  BY DEF StackInit, Init, Owned
<1> QED  BY <1>2, <1>3, <1>4 DEF StackInv

\* A step of r keeps the invariant, and the other responses as they are.
Advances(r) == StackInv' /\ \A s \in Responses \ {r} : Same(s)

\* The invariant from the parts that the proofs of the actions establish.
LEMMA Combine ==
  ASSUME StackInv, NEW r \in Responses,
         Types', Local(r)', Moves(r), \A s \in Responses \ {r} : Same(s)
  PROVE  Advances(r)
<1>1. \A s \in Responses \ {r} : Local(s)'
  BY SMTT(20), Z3T(20) DEF StackInv, Local, Same, Rest
<1>2. Owned'
  <2>1. CASE pool' = pool /\ gz' = gz
    BY <2>1 DEF StackInv, Owned
  <2>2. ASSUME gz[r] = None, NEW w \in pool, pool' = pool \ {w}, gz' = [gz EXCEPT ![r] = w]
        PROVE  Owned'
    <3>1. w # None /\ \A s \in Responses : gz[s] # w /\ gz'[s] = IF s = r THEN w ELSE gz[s]
      BY <2>2, GzipConfig, SMTT(20), Z3T(20) DEF StackInv, Local, Types
    <3>2. \A q, s \in Responses : gz'[q] # None /\ gz'[q] = gz'[s] => q = s
      BY <3>1 DEF StackInv, Owned
    <3>3. \A v \in Writers \ pool' : \E q \in Responses : gz'[q] = v
      <4> SUFFICES ASSUME NEW v \in Writers \ pool', v # w PROVE \E q \in Responses : gz'[q] = v
        BY <3>1
      <4>1. PICK q \in Responses : gz[q] = v
        BY <2>2 DEF StackInv, Owned
      <4>2. q # r
        BY <4>1, <2>2, GzipConfig
      <4> QED  BY <4>1, <4>2, <3>1
    <3> QED  BY <3>2, <3>3 DEF Owned
  <2>3. CASE gz[r] # None /\ pool' = pool \cup {gz[r]} /\ gz' = [gz EXCEPT ![r] = None]
    BY <2>3, GzipConfig, SMTT(20), Z3T(20) DEF StackInv, Owned, Local, Types
  <2> QED  BY <2>1, <2>2, <2>3 DEF Moves
<1> QED  BY <1>1, <1>2 DEF StackInv, Advances

\* A step that moves no bytes and leaves the pool alone.
LEMMA Quiet ==
  ASSUME StackInv, NEW r \in Responses, Local(r)',
         NEW to \in {"serving", "closing", "done"}, pc' = [pc EXCEPT ![r] = to],
         NEW p \in BOOLEAN, panicked' = [panicked EXCEPT ![r] = p],
         UNCHANGED <<accepts, listed, written, buf, gz, activated, wire, shared>>
  PROVE  Advances(r)
<1>1. Types'
  BY DEF StackInv, Types, shared
<1>2. \A s \in Responses \ {r} : Same(s)
  BY DEF StackInv, Types, Local, Same, shared
<1>3. Moves(r)
  BY DEF Moves, shared
<1> QED  BY <1>1, <1>2, <1>3, Combine

\* Write, by its five cases.
LEMMA WriteStep ==
  ASSUME StackInv, NEW r \in Responses, NEW n \in 1..MaxBytes, Write(r, n)
  PROVE  Advances(r)
<1> DEFINE b == Chunk(r, n)
<1>0. b \in Seq(Bytes)
  BY ChunkIsSeq DEF StackInv
<1> HIDE DEF b
<1>1. /\ pc[r] = "serving" /\ written' = [written EXCEPT ![r] = @ \o b]
      /\ UNCHANGED <<accepts, listed>>
  BY DEF Write, kind, b
<1>2. written' \in [Responses -> Seq(Bytes)]
  BY <1>0, <1>1, Concat DEF StackInv, Types
<1>3. /\ wire[r] \in Seq(Bytes) /\ buf[r] \in Seq(Bytes) /\ written[r] \in Seq(Bytes)
      /\ gz[r] # None => gz[r] \in Writers /\ pending[gz[r]] \in Seq(Bytes)
      /\ Rest(r) \in Seq(Bytes)
  BY EmptySeq DEF StackInv, Types, Rest
<1>4. Local(r) /\ Types
  BY DEF StackInv
<1>5. ~panicked[r] => written'[r] = wire[r] \o (Rest(r) \o b)
  <2>1. ~panicked[r] => written[r] = wire[r] \o Rest(r)
    BY <1>1, <1>4 DEF Local
  <2>2. (wire[r] \o Rest(r)) \o b = wire[r] \o (Rest(r) \o b)
    BY <1>0, <1>3, Regroup, ZenonT(90)
  <2>3. written'[r] = written[r] \o b
    BY <1>1, <1>4 DEF Types
  <2> QED  BY <2>1, <2>2, <2>3, ZenonT(60)
<1>6. \A s \in Responses \ {r} : accepts'[s] = accepts[s] /\ written'[s] = written[s]
  BY <1>1, <1>4 DEF Types
<1>7. CASE WritePlain(r, b)
  <2>1. /\ ~accepts[r] /\ wire' = [wire EXCEPT ![r] = @ \o b]
        /\ UNCHANGED <<pc, panicked, buf, gz, activated, pool, sink, pending>>
    BY <1>7 DEF WritePlain, local, shared
  <2>2. Rest(r) = <<>> /\ Rest(r)' = <<>> /\ wire'[r] = wire[r] \o b /\ wire[r] \o b \in Seq(Bytes)
    BY <2>1, <1>0, <1>3, <1>4, Concat DEF Local, Rest, Types
  <2>3. wire'[r] \o Rest(r)' = wire[r] \o (Rest(r) \o b)
    BY <2>2, <1>0, <1>3, Concat
  <2>4. Types'
    BY <2>1, <2>2, <1>1, <1>2, <1>4, Zenon DEF Types
  <2>5. Local(r)'
    BY <2>1, <2>3, <1>1, <1>4, <1>5, ZenonT(60) DEF Local
  <2>6. \A s \in Responses \ {r} : Same(s)
    BY <2>1, <1>4, <1>6 DEF Same, StackInv, Local, Types
  <2>7. Moves(r)
    BY <2>1 DEF Moves
  <2> QED  BY <2>4, <2>5, <2>6, <2>7, Combine
<1>8. CASE WriteBuffered(r, b)
  <2>1. /\ accepts[r] /\ ~activated[r] /\ buf' = [buf EXCEPT ![r] = @ \o b]
        /\ UNCHANGED <<pc, panicked, gz, activated, wire, pool, sink, pending>>
    BY <1>8 DEF WriteBuffered, out, shared
  <2>2. Rest(r)' = Rest(r) \o b /\ buf[r] \o b \in Seq(Bytes)
    BY <2>1, <1>0, <1>3, <1>4, Concat DEF Local, Rest, Types
  <2>4. Types'
    BY <2>1, <2>2, <1>1, <1>2, <1>4, Zenon DEF Types
  <2>5. Local(r)'
    BY <2>1, <2>2, <1>1, <1>4, <1>5, ZenonT(60) DEF Local
  <2>6. \A s \in Responses \ {r} : Same(s)
    BY <2>1, <1>4, <1>6, SMTT(20), Z3T(20) DEF Same, StackInv, Local, Types
  <2>7. Moves(r)
    BY <2>1 DEF Moves
  <2> QED  BY <2>4, <2>5, <2>6, <2>7, Combine
<1>9. CASE WriteActivates(r, b) /\ ActivateGzip(r, b)
  <2>1. /\ accepts[r] /\ ~activated[r] /\ activated' = [activated EXCEPT ![r] = TRUE]
        /\ buf' = [buf EXCEPT ![r] = <<>>]
        /\ UNCHANGED <<pc, panicked>>
    BY <1>9 DEF WriteActivates
  <2>2. gz[r] = None /\ Rest(r) = buf[r]
    BY <2>1, <1>4 DEF Local, Rest
  <2>3. PICK w \in pool :
          /\ pool' = pool \ {w} /\ gz' = [gz EXCEPT ![r] = w] /\ sink' = [sink EXCEPT ![w] = r]
          /\ \/ pending' = [pending EXCEPT ![w] = buf[r] \o b] /\ wire' = wire
             \/ pending' = [pending EXCEPT ![w] = <<>>] /\ wire' = [wire EXCEPT ![r] = @ \o buf[r] \o b]
    BY <1>9, Zenon DEF ActivateGzip
  <2>4. /\ buf[r] \o b \in Seq(Bytes) /\ <<>> \in Seq(Bytes)
        /\ (wire[r] \o buf[r]) \o b = wire[r] \o (buf[r] \o b)
        /\ wire[r] \o (buf[r] \o b) \in Seq(Bytes)
    <3>1. (wire[r] \o buf[r]) \o b = wire[r] \o (buf[r] \o b)
      BY <1>0, <1>3, Regroup, ZenonT(90)
    <3>2. buf[r] \o b \in Seq(Bytes) /\ <<>> \in Seq(Bytes)
      BY <1>0, <1>3, Concat
    <3> QED  BY <3>1, <3>2, <1>3, Concat
  <2>5. w \in Writers /\ w # None
    BY GzipConfig, <1>4 DEF Types
  <2>6. Rest(r)' = pending'[w] /\ gz'[r] = w /\ sink'[w] = r /\ activated'[r] /\ w \notin pool'
    BY <2>1, <2>3, <2>5, <1>4 DEF Rest, Types
  <2>7. wire'[r] \o Rest(r)' = wire[r] \o (Rest(r) \o b)
    <3>1. CASE pending' = [pending EXCEPT ![w] = buf[r] \o b] /\ wire' = wire
      BY <3>1, <2>2, <2>5, <2>6, <1>4, ZenonT(60) DEF Types
    <3>2. CASE pending' = [pending EXCEPT ![w] = <<>>] /\ wire' = [wire EXCEPT ![r] = @ \o buf[r] \o b]
      <4>1. wire'[r] = wire[r] \o (buf[r] \o b) /\ Rest(r)' = <<>>
        BY <3>2, <2>4, <2>5, <2>6, <1>4, ZenonT(60) DEF Types
      <4> QED  BY <4>1, <2>2, <2>4, Concat, Zenon
    <3> QED  BY <3>1, <3>2, <2>3, Zenon
  <2>8. Types'
    <3>1. wire' \in [Responses -> Seq(Bytes)] /\ pending' \in [Writers -> Seq(Bytes)]
      <4>1. CASE pending' = [pending EXCEPT ![w] = buf[r] \o b] /\ wire' = wire
        BY <4>1, <2>4, <1>4, ZenonT(60) DEF Types
      <4>2. CASE pending' = [pending EXCEPT ![w] = <<>>] /\ wire' = [wire EXCEPT ![r] = @ \o buf[r] \o b]
        <5>1. wire' = [wire EXCEPT ![r] = wire[r] \o (buf[r] \o b)]
          BY <4>2, <2>4
        <5> QED  BY <5>1, <4>2, <2>4, <1>4 DEF Types
      <4> QED  BY <4>1, <4>2, <2>3, Zenon
    <3> QED  BY <3>1, <2>1, <2>3, <2>4, <2>5, <1>1, <1>2, <1>4, ZenonT(60) DEF Types
  <2>9. Local(r)'
    BY <2>1, <2>5, <2>6, <2>7, <1>1, <1>4, <1>5, Zenon DEF Local
  <2>10. \A s \in Responses \ {r} : Same(s)
    <3>1. \A s \in Responses : gz[s] # w
      BY <2>3, <2>5 DEF StackInv, Local
    <3> QED  BY <3>1, <2>1, <2>3, <2>5, <1>4, <1>6, SMTT(20), Z3T(20) DEF Same, StackInv, Local, Types
  <2>11. Moves(r)
    BY <2>2, <2>3, Zenon DEF Moves
  <2> QED  BY <2>8, <2>9, <2>10, <2>11, Combine
<1>10. CASE WriteActivates(r, b) /\ ActivatePlain(r, b)
  <2>1. /\ accepts[r] /\ ~activated[r] /\ activated' = [activated EXCEPT ![r] = TRUE]
        /\ buf' = [buf EXCEPT ![r] = <<>>] /\ wire' = [wire EXCEPT ![r] = @ \o buf[r] \o b]
        /\ UNCHANGED <<pc, panicked, gz, pool, sink, pending>>
    BY <1>10 DEF WriteActivates, ActivatePlain, shared
  <2>2. gz[r] = None /\ Rest(r) = buf[r] /\ Rest(r)' = <<>>
    BY <2>1, <1>4 DEF Local, Rest, Types
  <2>3. /\ (wire[r] \o buf[r]) \o b = wire[r] \o (buf[r] \o b) /\ <<>> \in Seq(Bytes)
        /\ wire[r] \o (buf[r] \o b) \in Seq(Bytes)
    <3>1. (wire[r] \o buf[r]) \o b = wire[r] \o (buf[r] \o b)
      BY <1>0, <1>3, Regroup, ZenonT(90)
    <3>2. buf[r] \o b \in Seq(Bytes) /\ <<>> \in Seq(Bytes)
      BY <1>0, <1>3, Concat
    <3> QED  BY <3>1, <3>2, <1>3, Concat
  <2>4. wire'[r] \o Rest(r)' = wire[r] \o (Rest(r) \o b)
    <3>1. wire'[r] = wire[r] \o (buf[r] \o b)
      BY <2>1, <2>3, <1>4, ZenonT(60) DEF Types
    <3> QED  BY <3>1, <2>2, <2>3, Concat
  <2>5. Types'
    BY <2>1, <2>3, <1>1, <1>2, <1>4, Zenon DEF Types
  <2>6. Local(r)'
    BY <2>1, <2>2, <2>4, <1>1, <1>4, <1>5, ZenonT(60) DEF Local
  <2>7. \A s \in Responses \ {r} : Same(s)
    BY <2>1, <1>4, <1>6, SMTT(20), Z3T(20) DEF Same, StackInv, Local, Types
  <2>8. Moves(r)
    BY <2>1, Zenon DEF Moves
  <2> QED  BY <2>5, <2>6, <2>7, <2>8, Combine
<1>11. CASE WriteCompressed(r, b)
  <2> DEFINE w == gz[r]
  <2>1. /\ accepts[r] /\ activated[r] /\ gz[r] # None
        /\ UNCHANGED <<pc, panicked, buf, gz, activated, pool, sink>>
        /\ \/ pending' = [pending EXCEPT ![w] = @ \o b] /\ wire' = wire
           \/ /\ pending' = [pending EXCEPT ![w] = <<>>]
              /\ wire' = [wire EXCEPT ![sink[w]] = @ \o pending[w] \o b]
    BY <1>11, ZenonT(60) DEF WriteCompressed, Compress, local
  <2>2. sink[w] = r /\ w \in Writers /\ Rest(r) = pending[w] /\ Rest(r)' = pending'[w]
    BY <2>1, <1>3, <1>4, ZenonT(60) DEF Local, Rest
  <2>3. /\ pending[w] \o b \in Seq(Bytes) /\ <<>> \in Seq(Bytes)
        /\ (wire[r] \o pending[w]) \o b = wire[r] \o (pending[w] \o b)
        /\ wire[r] \o (pending[w] \o b) \in Seq(Bytes)
    <3>1. (wire[r] \o pending[w]) \o b = wire[r] \o (pending[w] \o b)
      BY <2>1, <1>0, <1>3, Regroup, ZenonT(90)
    <3>2. pending[w] \o b \in Seq(Bytes) /\ <<>> \in Seq(Bytes)
      BY <2>1, <1>0, <1>3, Concat, Zenon
    <3> QED  BY <3>1, <3>2, <1>3, Concat
  <2>4. wire'[r] \o Rest(r)' = wire[r] \o (Rest(r) \o b)
    <3>1. CASE pending' = [pending EXCEPT ![w] = @ \o b] /\ wire' = wire
      BY <3>1, <2>2, <1>4, Zenon DEF Types
    <3>2. CASE pending' = [pending EXCEPT ![w] = <<>>] /\ wire' = [wire EXCEPT ![sink[w]] = @ \o pending[w] \o b]
      <4>1. wire'[r] = wire[r] \o (pending[w] \o b) /\ Rest(r)' = <<>>
        BY <3>2, <2>2, <2>3, <1>4, Zenon DEF Types
      <4> QED  BY <4>1, <2>2, <2>3, Concat, Zenon
    <3> QED  BY <3>1, <3>2, <2>1, ZenonT(60)
  <2>5. Types'
    <3>1. wire' \in [Responses -> Seq(Bytes)] /\ pending' \in [Writers -> Seq(Bytes)]
      <4>1. CASE pending' = [pending EXCEPT ![w] = @ \o b] /\ wire' = wire
        BY <4>1, <2>3, <1>4, ZenonT(60) DEF Types
      <4>2. CASE pending' = [pending EXCEPT ![w] = <<>>] /\ wire' = [wire EXCEPT ![sink[w]] = @ \o pending[w] \o b]
        <5>1. wire' = [wire EXCEPT ![r] = wire[r] \o (pending[w] \o b)]
          BY <4>2, <2>2, <2>3
        <5>2. wire' \in [Responses -> Seq(Bytes)]
          BY <5>1, <2>3, <1>4 DEF Types
        <5>3. pending' \in [Writers -> Seq(Bytes)]
          BY <4>2, <2>2, <2>3, <1>4, Zenon DEF Types
        <5> QED  BY <5>2, <5>3, SMTT(20), Z3T(20)
      <4> QED  BY <4>1, <4>2, <2>1, ZenonT(60)
    <3> QED  BY <3>1, <2>1, <1>1, <1>2, <1>4, ZenonT(60) DEF Types
  <2>6. Local(r)'
    BY <2>1, <2>2, <2>4, <1>1, <1>4, <1>5, ZenonT(60) DEF Local
  <2>7. \A s \in Responses \ {r} : Same(s)
    <3>1. \A s \in Responses \ {r} : gz[s] # w
      BY <2>1, ZenonT(60) DEF StackInv, Owned
    <3> QED  BY <3>1, <2>1, <2>2, <1>4, <1>6, SMTT(30), Z3T(20) DEF Same, StackInv, Local, Types
  <2>8. Moves(r)
    BY <2>1, ZenonT(60) DEF Moves
  <2> QED  BY <2>5, <2>6, <2>7, <2>8, Combine
<1>12. CASE WritePanics(r, b)
  <2>1. /\ accepts[r] /\ activated[r] /\ gz[r] = None
        /\ panicked' = [panicked EXCEPT ![r] = TRUE] /\ pc' = [pc EXCEPT ![r] = "closing"]
        /\ UNCHANGED <<buf, gz, activated, wire, pool, sink, pending>>
    BY <1>12 DEF WritePanics, Goto, local, out, shared
  <2>2. Types'
    BY <2>1, <1>1, <1>2, <1>4, Zenon DEF Types
  <2>3. Local(r)'
    BY <2>1, <1>1, <1>4, ZenonT(60) DEF Local, Types
  <2>4. \A s \in Responses \ {r} : Same(s)
    BY <2>1, <1>4, <1>6, SMTT(20), Z3T(20) DEF Same, StackInv, Local, Types
  <2>5. Moves(r)
    BY <2>1 DEF Moves
  <2> QED  BY <2>2, <2>3, <2>4, <2>5, Combine
<1> QED  BY <1>7, <1>8, <1>9, <1>10, <1>11, <1>12 DEF Write, WriteActivates, b

\* The other steps of a handler.
LEMMA StepInv ==
  ASSUME StackInv, NEW r \in Responses, Step(r)
  PROVE  Advances(r)
<1>1. Types /\ Local(r)
  BY DEF StackInv
<1>2. wire[r] \in Seq(Bytes) /\ (gz[r] # None => gz[r] \in Writers /\ pending[gz[r]] \in Seq(Bytes))
  BY <1>1 DEF Types
<1>3. <<>> \in Seq(Bytes) /\ wire[r] \o <<>> = wire[r]
  BY <1>2, Concat
<1>4. panicked = [panicked EXCEPT ![r] = panicked[r]] /\ pc = [pc EXCEPT ![r] = pc[r]]
  BY <1>1 DEF Types
<1>5. CASE Begin(r)
  <2>1. /\ pc[r] = "idle" /\ pc' = [pc EXCEPT ![r] = "serving"] /\ panicked' = panicked
        /\ UNCHANGED <<accepts, listed, written, buf, gz, activated, wire, shared>>
    BY <1>5 DEF Begin, Goto, handler, kind, local, out
  <2>2. Local(r)'
    BY <2>1, <1>1 DEF Local, Types, Rest, shared
  <2> QED  BY <2>1, <2>2, <1>1, <1>4, Quiet, ZenonT(60) DEF Types
<1>6. CASE WriteHeader(r, 404)
  <2>1. /\ pc[r] = "serving" /\ pc' = pc /\ panicked' = panicked
        /\ UNCHANGED <<accepts, listed, written, buf, gz, activated, wire, shared>>
    BY <1>6, ZenonT(60) DEF WriteHeader, handler, kind
  <2>2. Local(r)'
    BY <2>1, <1>1 DEF Local, Types, Rest, shared
  <2> QED  BY <2>1, <2>2, <1>1, <1>4, Quiet, ZenonT(60) DEF Types
<1>7. CASE \E n \in 1..MaxBytes : Write(r, n)
  BY <1>7, WriteStep
<1>8. CASE Return(r)
  <2>1. /\ pc[r] = "serving" /\ pc' = [pc EXCEPT ![r] = IF accepts[r] THEN "closing" ELSE "done"]
        /\ UNCHANGED <<accepts, listed, written, panicked, buf, gz, activated, wire, shared>>
    BY <1>8 DEF Return, Goto, handler, kind, local, out
  <2>2. Local(r)'
    BY <2>1, <1>1, <1>3, Zenon DEF Local, Types, Rest, shared
  <2> QED  BY <2>1, <2>2, <1>1, <1>4, Quiet, Zenon DEF Types
<1>9. CASE CloseBuffered(r)
  <2>1. /\ pc[r] = "closing" /\ ~activated[r] /\ pc' = [pc EXCEPT ![r] = "done"]
        /\ wire' = [wire EXCEPT ![r] = @ \o buf[r]]
        /\ UNCHANGED <<accepts, listed, written, panicked, buf, gz, activated, pool, sink, pending>>
    BY <1>9 DEF CloseBuffered, Goto, handler, kind, shared
  <2>2. wire[r] \o buf[r] \in Seq(Bytes)
    BY <1>1, Concat DEF Types
  <2>3. Types'
    BY <2>1, <2>2, <1>1, ZenonT(60) DEF Types
  <2>4. Local(r)'
    BY <2>1, <1>1, ZenonT(60) DEF Local, Types, Rest
  <2>5. \A s \in Responses \ {r} : Same(s)
    BY <2>1, <1>1, SMTT(20), Z3T(20) DEF Same, StackInv, Local, Types
  <2>6. Moves(r)
    BY <2>1 DEF Moves
  <2> QED  BY <2>3, <2>4, <2>5, <2>6, Combine, ZenonT(60)
<1>10. CASE ClosePlain(r)
  <2>1. /\ pc[r] = "closing" /\ activated[r] /\ gz[r] = None /\ pc' = [pc EXCEPT ![r] = "done"]
        /\ UNCHANGED <<accepts, listed, written, panicked, buf, gz, activated, wire, shared>>
    BY <1>10 DEF ClosePlain, Goto, handler, kind, local, out
  <2>2. Local(r)'
    BY <2>1, <1>1, <1>3, ZenonT(60) DEF Local, Types, Rest, shared
  <2> QED  BY <2>1, <2>2, <1>1, <1>4, Quiet, Zenon DEF Types
<1>11. CASE CloseGzip(r)
  <2> DEFINE w == gz[r]
  <2>1. /\ pc[r] = "closing" /\ w # None /\ pc' = [pc EXCEPT ![r] = "putting"]
        /\ pending' = [pending EXCEPT ![w] = <<>>]
        /\ wire' = [wire EXCEPT ![sink[w]] = @ \o pending[w]]
        /\ UNCHANGED <<accepts, listed, written, panicked, buf, gz, activated, pool, sink>>
    BY <1>11, Zenon DEF CloseGzip, Drain, Goto, handler, kind, local
  <2>2. sink[w] = r /\ Rest(r) = pending[w] /\ wire[r] \o pending[w] \in Seq(Bytes)
    BY <2>1, <1>1, <1>2, Concat, Zenon DEF Local, Rest
  <2>3. wire'[r] = wire[r] \o Rest(r) /\ Rest(r)' = <<>>
    BY <2>1, <2>2, <1>1, <1>2, Zenon DEF Types, Rest
  <2>4. wire'[r] \o Rest(r)' = wire[r] \o Rest(r)
    BY <2>2, <2>3, Concat
  <2>5. Types'
    BY <2>1, <2>2, <1>1, <1>2, <1>3, Zenon DEF Types
  <2>6. Local(r)'
    BY <2>1, <2>2, <2>4, <1>1, <1>2, ZenonT(60) DEF Local, Types
  <2>7. \A s \in Responses \ {r} : Same(s)
    <3>1. \A s \in Responses \ {r} : gz[s] # w
      BY <2>1, ZenonT(60) DEF StackInv, Owned
    <3> QED  BY <3>1, <2>1, <2>2, <1>1, <1>2, SMTT(30), Z3T(20) DEF Same, StackInv, Local, Types
  <2>8. Moves(r)
    BY <2>1, ZenonT(60) DEF Moves
  <2> QED  BY <2>5, <2>6, <2>7, <2>8, Combine
<1>12. CASE PutGzip(r)
  <2>1. /\ pc[r] = "putting" /\ gz[r] # None /\ pc' = [pc EXCEPT ![r] = "done"]
        /\ pool' = pool \cup {gz[r]} /\ gz' = [gz EXCEPT ![r] = None]
        /\ UNCHANGED <<accepts, listed, written, panicked, buf, activated, wire, sink, pending>>
    BY <1>1, <1>12, ZenonT(60) DEF PutGzip, Goto, handler, kind, out, Local
  <2>2. Rest(r) = <<>>
    BY <2>1, <1>1 DEF Local, Rest
  <2>3. Types'
    BY <2>1, <1>1, <1>2 DEF Types
  <2>4. Local(r)'
    BY <2>1, <2>2, <1>1, <1>3, ZenonT(60) DEF Local, Types
  <2>5. \A s \in Responses \ {r} : Same(s)
    <3>1. \A s \in Responses \ {r} : gz[s] # gz[r]
      BY <2>1 DEF StackInv, Owned
    <3> QED  BY <3>1, <2>1, <1>1, SMTT(20), Z3T(20) DEF Same, StackInv, Local, Types
  <2>6. Moves(r)
    BY <2>1 DEF Moves
  <2> QED  BY <2>3, <2>4, <2>5, <2>6, Combine
<1> QED  BY <1>5, <1>6, <1>7, <1>8, <1>9, <1>10, <1>11, <1>12 DEF Step

LEMMA PanicInv ==
  ASSUME StackInv, NEW r \in Responses, Panic(r)
  PROVE  Advances(r)
<1>1. Types /\ Local(r)
  BY DEF StackInv
<1>2. /\ pc[r] = "serving" /\ pc' = [pc EXCEPT ![r] = IF accepts[r] THEN "closing" ELSE "done"]
      /\ panicked' = [panicked EXCEPT ![r] = TRUE]
      /\ UNCHANGED <<accepts, listed, written, buf, gz, activated, wire, shared>>
  BY ZenonT(60) DEF Panic, Goto, kind, local, out
<1>3. Local(r)'
  BY <1>1, <1>2 DEF Local, Types, shared
<1> QED  BY <1>1, <1>2, <1>3, Quiet, Zenon DEF Types

LEMMA InvNext == StackInv /\ [StackNext]_stack => StackInv'
<1> SUFFICES ASSUME StackInv, [StackNext]_stack PROVE StackInv'
  OBVIOUS
<1>1. CASE UNCHANGED vars
  BY <1>1, ZenonT(60) DEF vars, handler, kind, local, out, shared, StackInv, Types, Local, Rest, Owned
<1>2. ASSUME NEW r \in Responses, Server(r) PROVE StackInv'
  BY <1>1, <1>2 DEF Server, Finish, Recover, Expire
<1> QED  BY <1>1, <1>2, StepInv, PanicInv DEF StackNext, stack, Advances

\* "`sync.Pool` writer reuse" (README.md:145): for any number of responses and
\* compressors, and whatever handler panics, a compressor is in the pool or in the
\* hands of exactly one response (gzip.go:83-85, 126-130).
THEOREM PoolSafe == StackSpec => []PoolConserved
<1>1. StackInv => PoolConserved
  BY GzipConfig, SMTT(20), Z3T(20) DEF StackInv, Types, Local, Owned, PoolConserved
<1> QED  BY <1>1, InvInit, InvNext, PTL DEF StackSpec

\* A step of one handler: its response is not yet done, a panic is not undone, and the
\* other responses keep what the client's reply rests on.
Stays(r) ==
  /\ pc[r] # "done" /\ (panicked[r] => panicked'[r])
  /\ \A s \in Responses \ {r} :
       pc'[s] = pc[s] /\ written'[s] = written[s] /\ panicked'[s] = panicked[s]

LEMMA StepStays ==
  ASSUME StackInv, NEW r \in Responses, Step(r) \/ Panic(r)
  PROVE  Stays(r)
<1>1. Types
  BY DEF StackInv
<1>2. ASSUME NEW n \in 1..MaxBytes, Write(r, n) PROVE Stays(r)
  <2>1. /\ pc[r] = "serving" /\ written' = [written EXCEPT ![r] = @ \o Chunk(r, n)]
        /\ \/ pc' = pc /\ panicked' = panicked
           \/ /\ pc' = [pc EXCEPT ![r] = "closing"]
              /\ panicked' = [panicked EXCEPT ![r] = TRUE]
    BY <1>2, ZenonT(60) DEF Write, WritePlain, WriteBuffered, WriteActivates, WriteCompressed,
                            WritePanics, Goto
  <2> QED  BY <2>1, <1>1, Zenon DEF Stays, Types
<1>3. CASE Panic(r)
  BY <1>1, <1>3 DEF Panic, Goto, Stays, Types
<1>4. CASE WriteHeader(r, 404)
  BY <1>1, <1>4 DEF WriteHeader, handler, Stays, Types
<1>5. CASE Begin(r) \/ Return(r) \/ CloseBuffered(r) \/ ClosePlain(r) \/ CloseGzip(r) \/ PutGzip(r)
  <2>1. pc[r] # "done" /\ written' = written /\ panicked' = panicked
        /\ \E to : pc' = [pc EXCEPT ![r] = to]
    BY <1>5, Zenon DEF Begin, Return, CloseBuffered, ClosePlain, CloseGzip, PutGzip, Goto, handler
  <2> QED  BY <2>1, <1>1, Zenon DEF Stays, Types
<1> QED  BY <1>2, <1>3, <1>4, <1>5 DEF Step

\* AllOrNothing with the domain of reply.
Answers == reply = [r \in Responses |-> reply[r]] /\ AllOrNothing

LEMMA AnswersNext == StackInv /\ Answers /\ [StackNext]_stack => Answers'
<1> SUFFICES ASSUME StackInv, Answers, [StackNext]_stack PROVE Answers'
  OBVIOUS
<1>1. CASE UNCHANGED stack
  BY <1>1, SMTT(20), Z3T(20) DEF stack, vars, handler, Answers, AllOrNothing
<1>2. ASSUME NEW r \in Responses, Step(r) \/ Panic(r), reply' = reply PROVE Answers'
  BY <1>2, StepStays, SMTT(20), Z3T(20) DEF Stays, Answers, AllOrNothing
<1>3. ASSUME NEW r \in Responses, Server(r) PROVE Answers'
  <2>1. written' = written /\ pc' = pc /\ panicked' = panicked
    BY <1>3 DEF Server, Finish, Recover, Expire, vars, handler
  <2>2. CASE Finish(r)
    <3> DEFINE a == [status |-> Recorded(r), body |-> wire[r],
                     encoding |-> IF head[r] = Unsent THEN header[r].encoding
                                  ELSE head[r].encoding]
    <3>1. /\ pc[r] = "done" /\ ~panicked[r]
          /\ a.body = wire[r] /\ reply' = [reply EXCEPT ![r] = a]
      BY <2>2, ZenonT(60) DEF Finish
    <3>2. wire[r] = written[r]
      BY <3>1 DEF StackInv, Local
    <3> HIDE DEF a
    <3> QED  BY <3>1, <3>2, <2>1, SMTT(30), Z3T(20) DEF Answers, AllOrNothing
  <2>3. CASE Recover(r) \/ Expire(r)
    BY <2>1, <2>3, SMTT(20), Z3T(20) DEF Recover, Expire, Answers, AllOrNothing
  <2> QED  BY <1>3, <2>2, <2>3, ZenonT(60) DEF Server
<1>4. ASSUME NEW r \in Responses, Panic(r) PROVE reply' = reply
  BY <1>4 DEF Panic
<1> QED  BY <1>1, <1>2, <1>3, <1>4 DEF StackNext

\* "request timeout" (timeout.go:13), "internal server error" (recovery.go:10): for any
\* number of concurrent responses, a client gets all that the handler wrote, or one of
\* the two pages, the 500 only after a panic.
THEOREM WholeReplies == StackSpec => []AllOrNothing
<1>1. StackInit => Answers
  BY DEF StackInit, Answers, AllOrNothing
<1>2. Answers => AllOrNothing
  BY DEF Answers
<1> QED  BY <1>1, <1>2, InvInit, InvNext, AnswersNext, PTL DEF StackSpec
-----------------------------------------------------------------------------
(***************************************************************************)
(* Delivered.  The status line and headers are sent late and from several  *)
(* places, so the invariant says when they may not have been sent yet,     *)
(* when they must have been, and that there is one head a response can     *)
(* get: that of its own status and of the header map as it stands, which   *)
(* activation changes only before anything is sent.                        *)
(***************************************************************************)
\* The headers as the handler sets them.
Own(r) == [encoding |-> IF encoded[r] THEN "gzip" ELSE "identity", length |-> declared[r]]

\* The one head that r can get.
Final(r) == [status |-> IF status[r] = 0 THEN 200 ELSE status[r],
             encoding |-> header[r].encoding, length |-> header[r].length]

\* The head of r has been sent.
Due(r) ==
  \/ status[r] # 0 /\ (~accepts[r] \/ activated[r] \/ pc[r] = "done")
  \/ written[r] # <<>> /\ ~accepts[r]
  \/ activated[r] /\ gz[r] = None
  \/ pc[r] = "putting"
  \/ pc[r] = "done" /\ written[r] # <<>> /\ ~panicked[r]

\* The head of r, before and after it was sent, and the writer it was sent from.
Headed(r) ==
  /\ status[r] \in {0, 404}
  /\ header[r] = IF Squeezed(r) THEN Gzipped ELSE Own(r)
  /\ head[r] \in {Unsent, Final(r)}
  /\ accepts[r] /\ ~activated[r] /\ pc[r] # "done" =>
       head[r] = Unsent /\ ~headersSent[r] /\ wire[r] = <<>>
  /\ ~accepts[r] /\ status[r] = 0 /\ written[r] = <<>> => head[r] = Unsent
  /\ Due(r) => head[r] = Final(r)
  /\ activated[r] => written[r] # <<>>

\* What has reached the client of r or will, if nothing more is written.
Held(r) == IF pc[r] = "done" THEN wire[r] ELSE wire[r] \o Rest(r)

\* A panic may lose the end of what was written, no more.
Cut(r) ==
  panicked[r] => /\ pc[r] \in {"closing", "putting", "done"}
                 /\ \E z \in Seq(Bytes) : written[r] = Held(r) \o z

\* The types of the maps that hold heads.
Maps ==
  /\ head = [r \in Responses |-> head[r]]
  /\ header = [r \in Responses |-> header[r]]
  /\ status = [r \in Responses |-> status[r]]
  /\ headersSent = [r \in Responses |-> headersSent[r]]
  /\ encoded \in [Responses -> BOOLEAN] /\ declared \in [Responses -> BOOLEAN]

HeadInv == Maps /\ \A r \in Responses : Headed(r) /\ Cut(r)

\* A step of another response does not touch the head of s either.
SameHead(s) ==
  /\ head'[s] = head[s] /\ header'[s] = header[s] /\ status'[s] = status[s]
  /\ headersSent'[s] = headersSent[s]

\* The status net/http sends by default is not the zero of a status that is not set.
LEMMA TwoHundred == 200 # 0
OBVIOUS

\* The two fields of the header that the wrapper leaves.
LEMMA GzippedFields == Gzipped.encoding = "gzip" /\ Gzipped.length = FALSE
BY DEF Gzipped

\* What is known of the head of another response stays so.
LEMMA HeadElse ==
  ASSUME HeadInv, NEW r \in Responses, Advances(r), UNCHANGED kind,
         Maps', Headed(r)', Cut(r)', \A s \in Responses \ {r} : SameHead(s)
  PROVE  HeadInv'
<1> SUFFICES ASSUME NEW s \in Responses \ {r} PROVE Headed(s)' /\ Cut(s)'
  BY DEF HeadInv
<1>1. Same(s) /\ SameHead(s) /\ Headed(s) /\ Cut(s)
  BY Zenon DEF Advances, HeadInv
<1>2. accepts' = accepts /\ listed' = listed /\ encoded' = encoded /\ declared' = declared
  BY DEF kind
<1>3. Rest(s)' = Rest(s)
  BY <1>1, Zenon DEF Same, Rest
<1>4. Cut(s)'
  BY <1>1, <1>3, Zenon DEF Same, Cut, Held
<1>5. (Squeezed(s)' <=> Squeezed(s)) /\ Own(s)' = Own(s) /\ Final(s)' = Final(s) /\ (Due(s)' <=> Due(s))
  BY <1>1, <1>2, Zenon DEF Same, SameHead, Squeezed, Own, Final, Due
<1>6. Headed(s)'
  <2>1. /\ header'[s] = IF Squeezed(s)' THEN Gzipped ELSE Own(s)'
        /\ status'[s] \in {0, 404} /\ head'[s] \in {Unsent, Final(s)'}
    <3>1. /\ header[s] = IF Squeezed(s) THEN Gzipped ELSE Own(s)
          /\ status[s] \in {0, 404} /\ head[s] \in {Unsent, Final(s)}
      BY <1>1, Zenon DEF Headed
    <3>2. header'[s] = header[s] /\ status'[s] = status[s] /\ head'[s] = head[s]
      BY <1>1, Zenon DEF SameHead
    <3>3. CASE Squeezed(s)
      BY <1>5, <3>1, <3>2, <3>3, ZenonT(60)
    <3>4. CASE ~Squeezed(s)
      BY <1>5, <3>1, <3>2, <3>4, ZenonT(60)
    <3> QED BY <3>3, <3>4, Zenon
  <2>2. /\ accepts'[s] /\ ~activated'[s] /\ pc'[s] # "done" =>
             head'[s] = Unsent /\ ~headersSent'[s] /\ wire'[s] = <<>>
        /\ ~accepts'[s] /\ status'[s] = 0 /\ written'[s] = <<>> => head'[s] = Unsent
    <3>1. /\ accepts'[s] = accepts[s] /\ activated'[s] = activated[s] /\ pc'[s] = pc[s]
          /\ wire'[s] = wire[s] /\ written'[s] = written[s]
          /\ head'[s] = head[s] /\ headersSent'[s] = headersSent[s] /\ status'[s] = status[s]
      BY <1>1, Zenon DEF Same, SameHead
    <3>2. /\ accepts[s] /\ ~activated[s] /\ pc[s] # "done" =>
               head[s] = Unsent /\ ~headersSent[s] /\ wire[s] = <<>>
          /\ ~accepts[s] /\ status[s] = 0 /\ written[s] = <<>> => head[s] = Unsent
      BY <1>1, Zenon DEF Headed
    <3> QED BY <3>1, <3>2, Zenon
  <2>3. (Due(s)' => head'[s] = Final(s)') /\ (activated'[s] => written'[s] # <<>>)
    BY <1>1, <1>5, ZenonT(60) DEF Same, SameHead, Headed
  <2> QED BY <2>1, <2>2, <2>3, ZenonT(60) DEF Headed
<1> QED BY <1>4, <1>6

\* No step of r changes what the handler is and what its client accepts.
LEMMA KindStays ==
  ASSUME NEW r \in Responses, Step(r) \/ Panic(r)
  PROVE  UNCHANGED kind
BY Zenon DEF Step, Panic, Begin, WriteHeader, Write, Return, CloseBuffered, ClosePlain, CloseGzip,
             PutGzip, handler

\* The wrapped writer sends the one head r can get, whichever code the caller falls
\* back on.
LEMMA Sending ==
  ASSUME NEW r, Headed(r), NEW code, code = IF status[r] = 0 THEN 200 ELSE status[r]
  PROVE  SendHead(head[r], code, header[r]) = Final(r)
BY ZenonT(60) DEF Headed, SendHead, Final, Unsent

\* A write to the underlying writer sends a head of 200 only where none was sent.
LEMMA Falling ==
  ASSUME NEW r, Headed(r), status[r] # 0 => head[r] = Final(r)
  PROVE  SendHead(head[r], 200, header[r]) = Final(r)
<1>1. Final(r) # Unsent
  BY SMTT(20), Z3T(20) DEF Headed, Final, Unsent
<1>2. CASE status[r] = 0
  BY <1>2, Sending
<1>3. CASE status[r] # 0
  BY <1>1, <1>3, Zenon DEF SendHead
<1> QED BY <1>2, <1>3

\* The deferred close keeps what is held.
LEMMA CloseHolds ==
  ASSUME StackInv, NEW r \in Responses,
         CloseBuffered(r) \/ ClosePlain(r) \/ CloseGzip(r) \/ PutGzip(r)
  PROVE  Held(r)' = Held(r)
<1>1. Types /\ Local(r)
  BY DEF StackInv
<1>2. wire[r] \in Seq(Bytes) /\ (gz[r] # None => gz[r] \in Writers /\ pending[gz[r]] \in Seq(Bytes))
  BY <1>1 DEF Types
<1>3. wire[r] \o <<>> = wire[r]
  BY <1>2, Concat
<1>4. CASE CloseBuffered(r)
  <2>1. pc[r] = "closing" /\ pc'[r] = "done" /\ ~activated[r] /\ wire'[r] = wire[r] \o buf[r]
    BY <1>1, <1>4, ZenonT(60) DEF CloseBuffered, Goto, Types
  <2>2. gz[r] = None
    BY <1>1, <2>1 DEF Local
  <2> QED BY <2>1, <2>2, ZenonT(60) DEF Held, Rest
<1>5. CASE ClosePlain(r)
  <2>1. pc[r] = "closing" /\ pc'[r] = "done" /\ activated[r] /\ gz[r] = None /\ wire' = wire
    BY <1>1, <1>5 DEF ClosePlain, Goto, Types, out
  <2> QED BY <1>3, <2>1, Zenon DEF Held, Rest
<1>6. CASE CloseGzip(r)
  <2>1. /\ pc[r] = "closing" /\ pc'[r] = "putting" /\ gz[r] # None /\ sink[gz[r]] = r /\ gz' = gz
        /\ pending' = [pending EXCEPT ![gz[r]] = <<>>]
        /\ wire' = [wire EXCEPT ![sink[gz[r]]] = @ \o pending[gz[r]]]
    BY <1>1, <1>6 DEF CloseGzip, Drain, Goto, Types, Local, local
  <2>2. pending'[gz[r]] = <<>> /\ wire'[r] = wire[r] \o pending[gz[r]]
    BY <1>1, <1>2, <2>1, Zenon DEF Types
  <2>3. wire[r] \o pending[gz[r]] \in Seq(Bytes)
    BY <1>2, <2>1, Concat, Zenon
  <2>4. Rest(r)' = <<>> /\ Rest(r) = pending[gz[r]]
    BY <2>1, <2>2, Zenon DEF Rest
  <2>5. Held(r)' = (wire[r] \o pending[gz[r]]) \o <<>>
    BY <2>1, <2>2, <2>4, Zenon DEF Held
  <2>6. Held(r) = wire[r] \o pending[gz[r]]
    BY <2>1, <2>4, Zenon DEF Held
  <2> QED BY <2>3, <2>5, <2>6, Concat, ZenonT(60)
<1>7. CASE PutGzip(r)
  <2>1. pc[r] = "putting" /\ pc'[r] = "done" /\ wire' = wire /\ gz[r] # None /\ pending[gz[r]] = <<>>
    BY <1>1, <1>7 DEF PutGzip, Goto, Types, Local, out
  <2> QED BY <1>3, <2>1, Zenon DEF Held, Rest
<1> QED BY <1>4, <1>5, <1>6, <1>7

\* Every step keeps what is held.
LEMMA CutStep ==
  ASSUME StackInv, NEW r \in Responses, Cut(r), Step(r) \/ Panic(r)
  PROVE  Cut(r)'
<1>1. Types /\ Local(r) /\ <<>> \in Seq(Bytes)
  BY Concat DEF StackInv
<1>2. CASE Begin(r) \/ WriteHeader(r, 404) \/ Return(r)
  <2>1. pc[r] \in {"idle", "serving"} /\ panicked' = panicked
    BY <1>2, Zenon DEF Begin, WriteHeader, Return, handler
  <2> QED BY <2>1, Zenon DEF Cut
<1>3. ASSUME NEW n \in 1..MaxBytes, Write(r, n) PROVE Cut(r)'
  <2> DEFINE b == Chunk(r, n)
  <2>1. pc[r] = "serving" /\ written' = [written EXCEPT ![r] = @ \o b]
    BY <1>3, ZenonT(60) DEF Write
  <2>2. ~panicked[r] /\ b \in Seq(Bytes)
    BY <1>1, <2>1, ChunkIsSeq DEF Cut
  <2> HIDE DEF b
  <2>3. CASE panicked' = panicked
    BY <2>2, <2>3, Zenon DEF Cut
  <2>4. CASE WritePanics(r, b)
    <3>1. activated[r] /\ gz[r] = None /\ pc' = [pc EXCEPT ![r] = "closing"]
          /\ UNCHANGED <<wire, activated, gz>>
      BY <2>4 DEF WritePanics, Goto, local, out
    <3>2. Rest(r) = <<>> /\ Rest(r)' = <<>>
      BY <3>1, Zenon DEF Rest
    <3>3. written[r] = wire[r] \o <<>> /\ pc'[r] = "closing" /\ written'[r] = written[r] \o b
      BY <1>1, <2>1, <2>2, <3>1, <3>2, Zenon DEF Local, Types
    <3>4. Held(r)' = wire[r] \o <<>>
      BY <3>1, <3>2, <3>3, Zenon DEF Held
    <3> QED BY <2>2, <3>3, <3>4, Zenon DEF Cut
  <2>5. panicked' = panicked \/ WritePanics(r, b)
    BY <1>3, Zenon DEF Write, WritePlain, WriteBuffered, WriteActivates, WriteCompressed, b
  <2> QED BY <2>3, <2>4, <2>5
<1>4. CASE CloseBuffered(r) \/ ClosePlain(r) \/ CloseGzip(r) \/ PutGzip(r)
  <2>1. panicked' = panicked /\ written' = written /\ pc'[r] \in {"putting", "done"}
    BY <1>1, <1>4, ZenonT(60) DEF CloseBuffered, ClosePlain, CloseGzip, PutGzip, Goto, handler, Types
  <2> QED BY <1>4, <2>1, CloseHolds, ZenonT(60) DEF Cut
<1>5. CASE Panic(r)
  <2>1. /\ pc[r] = "serving" /\ pc'[r] = (IF accepts[r] THEN "closing" ELSE "done")
        /\ UNCHANGED <<written, wire, gz, activated, buf, pending>>
    BY <1>1, <1>5 DEF Panic, Goto, Types, local, out, shared
  <2>2. ~panicked[r] /\ Rest(r)' = Rest(r)
    BY <2>1, Zenon DEF Cut, Rest
  <2>3. ~accepts[r] => Rest(r) = <<>>
    BY <1>1, Zenon DEF Local, Rest
  <2>4. wire[r] \in Seq(Bytes) /\ Rest(r) \in Seq(Bytes)
    BY <1>1 DEF Types, Rest
  <2>5. wire[r] \o <<>> = wire[r] /\ wire[r] \o Rest(r) \in Seq(Bytes)
    BY <2>4, Concat, Zenon
  <2>6. written[r] = wire[r] \o Rest(r)
    BY <1>1, <2>1, <2>2, Zenon DEF Local
  <2>7. Held(r)' = written[r] /\ written[r] \in Seq(Bytes)
    BY <2>1, <2>2, <2>3, <2>5, <2>6, Zenon DEF Held
  <2>8. written[r] = written[r] \o <<>>
    BY <2>7, Concat, ZenonT(60)
  <2>9. pc'[r] \in {"closing", "putting", "done"}
    BY <2>1, ZenonT(60)
  <2> QED BY <1>1, <2>1, <2>7, <2>8, <2>9, Zenon DEF Cut
<1> QED BY <1>2, <1>3, <1>4, <1>5 DEF Step

\* A Write is never of nothing.
LEMMA Grown ==
  ASSUME Types, NEW r \in Responses, NEW n \in 1..MaxBytes, Write(r, n)
  PROVE  written'[r] # <<>>
<1>1. n \in Nat /\ n >= 1
  BY GzipConfig, SMTT(20), Z3T(20)
<1>2. Chunk(r, n) \in Seq(Bytes) /\ Len(Chunk(r, n)) = n
  <2>1. Chunk(r, n) \in Seq(Bytes)
    BY ChunkIsSeq, Zenon
  <2>2. DOMAIN Chunk(r, n) = 1..n
    BY DEF Chunk
  <2> QED BY <1>1, <2>1, <2>2, SMTT(20), Z3T(20)
<1>3. written[r] \in Seq(Bytes) /\ Len(written[r]) \in Nat
  BY LenProperties, ZenonT(60) DEF Types
<1>4. written'[r] = written[r] \o Chunk(r, n)
  BY DEF Write, Types
<1>5. Len(written'[r]) = Len(written[r]) + n
  <2>1. \A a, b \in Seq(Bytes) : Len(a \o b) = Len(a) + Len(b)
    BY SMTT(20), Z3T(20)
  <2> QED BY <2>1, <1>2, <1>3, <1>4, Zenon
<1>6. Len(written'[r]) # 0
  BY <1>1, <1>3, <1>5, SMTT(20), Z3T(20)
<1> QED BY <1>6, EmptySeq

\* The step changes the maps of the writers at r only.
Touches(r) ==
  /\ \E x : head' = [head EXCEPT ![r] = x]
  /\ \E x : header' = [header EXCEPT ![r] = x]
  /\ \E x : status' = [status EXCEPT ![r] = x]
  /\ \E x : headersSent' = [headersSent EXCEPT ![r] = x]

\* Where such a step leaves the maps alone.
LEMMA Untouched ==
  ASSUME Maps, NEW r \in Responses
  PROVE  /\ head = [head EXCEPT ![r] = head[r]] /\ header = [header EXCEPT ![r] = header[r]]
         /\ status = [status EXCEPT ![r] = status[r]]
         /\ headersSent = [headersSent EXCEPT ![r] = headersSent[r]]
<1>1. head = [head EXCEPT ![r] = head[r]]
  BY ZenonT(60) DEF Maps
<1>2. header = [header EXCEPT ![r] = header[r]]
  BY ZenonT(60) DEF Maps
<1>3. status = [status EXCEPT ![r] = status[r]]
  BY ZenonT(60) DEF Maps
<1>4. headersSent = [headersSent EXCEPT ![r] = headersSent[r]]
  BY ZenonT(60) DEF Maps
<1> QED BY <1>1, <1>2, <1>3, <1>4

\* Such a step keeps the types of the maps.
LEMMA Touch ==
  ASSUME Maps, NEW r \in Responses, Touches(r), UNCHANGED kind
  PROVE  Maps' /\ \A s \in Responses \ {r} : SameHead(s)
<1>1. Maps'
  <2>1. \A x : [head EXCEPT ![r] = x] = [s \in Responses |-> [head EXCEPT ![r] = x][s]]
    BY DEF Maps
  <2>2. \A x : [header EXCEPT ![r] = x] = [s \in Responses |-> [header EXCEPT ![r] = x][s]]
    BY ZenonT(60) DEF Maps
  <2>3. \A x : [status EXCEPT ![r] = x] = [s \in Responses |-> [status EXCEPT ![r] = x][s]]
    BY DEF Maps
  <2>4. \A x : [headersSent EXCEPT ![r] = x] = [s \in Responses |-> [headersSent EXCEPT ![r] = x][s]]
    BY DEF Maps
  <2>5. encoded' \in [Responses -> BOOLEAN] /\ declared' \in [Responses -> BOOLEAN]
    BY DEF Maps, kind
  <2> QED BY <2>1, <2>2, <2>3, <2>4, <2>5, ZenonT(60) DEF Touches, Maps
<1>2. ASSUME NEW s \in Responses \ {r} PROVE SameHead(s)
  <2>1. s \in DOMAIN head /\ s \in DOMAIN header /\ s \in DOMAIN status /\ s \in DOMAIN headersSent
    BY DEF Maps
  <2> QED BY <2>1 DEF Touches, SameHead
<1> QED BY <1>1, <1>2

\* Steps that send nothing and leave the writer as it is.
LEMMA QuietHead ==
  ASSUME StackInv, HeadInv, NEW r \in Responses,
         Begin(r) \/ Return(r) \/ ClosePlain(r) \/ PutGzip(r) \/ Panic(r)
  PROVE  Touches(r) /\ Headed(r)'
<1>1. Types /\ Local(r) /\ Maps /\ Headed(r)
  BY DEF StackInv, HeadInv
<1>2. /\ UNCHANGED <<head, header, status, headersSent, activated, written, wire, kind>>
      /\ pc[r] # "done"
  BY Zenon DEF Begin, Return, ClosePlain, PutGzip, Panic, handler, local, out
<1>3. Touches(r)
  BY <1>1, <1>2, Untouched, Zenon DEF Touches
<1>4. Final(r)' = Final(r) /\ (Squeezed(r)' <=> Squeezed(r)) /\ Own(r)' = Own(r)
  BY <1>2, Zenon DEF Final, Squeezed, Own, kind
<1>5. Due(r)' => Due(r)
  <2>1. CASE Begin(r)
    <3>1. pc'[r] = "serving" /\ gz' = gz
      BY <1>1, <2>1, ZenonT(60) DEF Begin, Goto, Types, local
    <3> QED BY <1>2, <3>1, ZenonT(60) DEF Due, kind
  <2>2. CASE Return(r) \/ Panic(r)
    <3>1. pc'[r] = (IF accepts[r] THEN "closing" ELSE "done") /\ gz' = gz
      BY <1>1, <2>2, ZenonT(60) DEF Return, Panic, Goto, Types, local
    <3> QED BY <1>2, <3>1, ZenonT(60) DEF Due, kind
  <2>3. CASE ClosePlain(r)
    BY <2>3, SMTT(20), Z3T(20) DEF ClosePlain, Due
  <2>4. CASE PutGzip(r)
    BY <2>4, ZenonT(60) DEF PutGzip, Due
  <2> QED BY <2>1, <2>2, <2>3, <2>4, ZenonT(60)
<1>6. /\ status'[r] \in {0, 404} /\ header'[r] = (IF Squeezed(r)' THEN Gzipped ELSE Own(r)')
      /\ head'[r] \in {Unsent, Final(r)'}
  BY <1>1, <1>2, <1>4, ZenonT(60) DEF Headed
<1>7. /\ accepts'[r] /\ ~activated'[r] /\ pc'[r] # "done" =>
           head'[r] = Unsent /\ ~headersSent'[r] /\ wire'[r] = <<>>
      /\ ~accepts'[r] /\ status'[r] = 0 /\ written'[r] = <<>> => head'[r] = Unsent
      /\ activated'[r] => written'[r] # <<>>
  BY <1>1, <1>2, Zenon DEF Headed, kind
<1>8. Due(r)' => head'[r] = Final(r)'
  BY <1>1, <1>2, <1>4, <1>5, Zenon DEF Headed
<1> QED BY <1>3, <1>6, <1>7, <1>8, ZenonT(60) DEF Headed

\* WriteHeader (gzip.go:54-56) keeps the status for later.
LEMMA WriteHeaderHead ==
  ASSUME StackInv, HeadInv, NEW r \in Responses, WriteHeader(r, 404)
  PROVE  Touches(r) /\ Headed(r)'
<1>1. Types /\ Local(r) /\ Maps /\ Headed(r)
  BY DEF StackInv, HeadInv
<1>2. /\ pc[r] = "serving" /\ status[r] = 0 /\ written[r] = <<>> /\ status' = [status EXCEPT ![r] = 404]
      /\ UNCHANGED <<pc, header, headersSent, activated, written, wire, gz, kind>>
      /\ head' = IF accepts[r] THEN head ELSE [head EXCEPT ![r] = SendHead(@, 404, header[r])]
  BY Zenon DEF WriteHeader, handler
<1>3. Touches(r)
  <2>1. /\ header' = [header EXCEPT ![r] = header[r]]
        /\ headersSent' = [headersSent EXCEPT ![r] = headersSent[r]]
        /\ accepts[r] => head' = [head EXCEPT ![r] = head[r]]
    BY <1>1, <1>2, Untouched, ZenonT(60)
  <2>2. ~accepts[r] => head' = [head EXCEPT ![r] = SendHead(head[r], 404, header[r])]
    BY <1>2
  <2>3. \E x : head' = [head EXCEPT ![r] = x]
    BY <2>1, <2>2, Zenon
  <2>4. status' = [status EXCEPT ![r] = 404]
    BY <1>2
  <2> QED BY <2>1, <2>3, <2>4, ZenonT(60) DEF Touches
<1>4. status'[r] = 404 /\ ~activated[r] /\ head[r] = Unsent
  BY <1>1, <1>2, SMTT(20), Z3T(20) DEF Maps, Headed
<1>5. Final(r)' = [status |-> 404, encoding |-> header[r].encoding, length |-> header[r].length]
  <2>1. (IF status'[r] = 0 THEN 200 ELSE status'[r]) = 404
    BY <1>4, SMTT(20), Z3T(20)
  <2> QED BY <1>2, <2>1, Zenon DEF Final
<1>6. head'[r] = IF accepts[r] THEN Unsent ELSE Final(r)'
  BY <1>1, <1>2, <1>4, <1>5 DEF Maps, SendHead
<1>7. (Squeezed(r)' <=> Squeezed(r)) /\ Own(r)' = Own(r)
  BY <1>2, ZenonT(60) DEF Squeezed, Own, kind
<1>8. Due(r)' => ~accepts[r]
  BY <1>2, <1>4 DEF Due, kind
<1>9. header'[r] = IF Squeezed(r)' THEN Gzipped ELSE Own(r)'
  BY <1>1, <1>2, <1>7, ZenonT(60) DEF Headed
<1>10. /\ accepts'[r] /\ ~activated'[r] /\ pc'[r] # "done" =>
            head'[r] = Unsent /\ ~headersSent'[r] /\ wire'[r] = <<>>
       /\ activated'[r] => written'[r] # <<>>
  BY <1>1, <1>2, <1>4, <1>6, Zenon DEF Headed, kind
<1>11. status'[r] \in {0, 404} /\ status'[r] # 0
  BY <1>4, SMTT(20), Z3T(20)
<1>12. head'[r] \in {Unsent, Final(r)'} /\ (Due(r)' => head'[r] = Final(r)')
  BY <1>6, <1>8, Zenon
<1> QED BY <1>3, <1>9, <1>10, <1>11, <1>12, ZenonT(60) DEF Headed

\* The steps that leave the header map and the status as they are, and leave the
\* head that is the final one.
LEMMA SentHead ==
  ASSUME StackInv, HeadInv, NEW r \in Responses, Types', UNCHANGED <<kind, header, status>>,
         head' = [head EXCEPT ![r] = Final(r)], \E x : headersSent' = [headersSent EXCEPT ![r] = x],
         accepts[r] => activated'[r] \/ pc'[r] = "done",
         activated'[r] => (listed[r] /\ activated[r]) \/ ~listed[r],
         activated[r] => activated'[r],
         activated'[r] \/ (~accepts[r] /\ status[r] = 0) => written'[r] # <<>>
  PROVE  Touches(r) /\ Headed(r)'
<1>1. Types /\ Maps /\ Headed(r)
  BY DEF StackInv, HeadInv
<1>2. Touches(r)
  BY <1>1, Untouched, Zenon DEF Touches
<1>3. head'[r] = Final(r) /\ Final(r)' = Final(r) /\ header'[r] = header[r] /\ status'[r] = status[r]
  <2>1. head'[r] = Final(r)
    BY <1>1 DEF Maps
  <2> QED BY <2>1, Zenon DEF Final
<1>4. Own(r)' = Own(r) /\ (Squeezed(r)' <=> Squeezed(r))
  <2>1. Own(r)' = Own(r) /\ accepts' = accepts /\ listed' = listed
    BY DEF Own, kind
  <2> QED BY <2>1, Zenon DEF Squeezed
<1>5. header'[r] = IF Squeezed(r)' THEN Gzipped ELSE Own(r)'
  BY <1>1, <1>3, <1>4, ZenonT(60) DEF Headed
<1>6. accepts' = accepts
  BY DEF kind
<1>7. status'[r] \in {0, 404}
  BY <1>1, <1>3, Zenon DEF Headed
<1> QED BY <1>2, <1>3, <1>5, <1>6, <1>7, ZenonT(60) DEF Headed

\* The deferred Close (gzip.go:117-132).
LEMMA CloseHead ==
  ASSUME StackInv, StackInv', HeadInv, NEW r \in Responses, CloseBuffered(r) \/ CloseGzip(r)
  PROVE  Touches(r) /\ Headed(r)'
<1>1. Types /\ Local(r) /\ Maps /\ Headed(r) /\ Types'
  BY DEF StackInv, HeadInv
<1>2. CASE CloseGzip(r)
  <2>1. /\ pc[r] = "closing" /\ gz[r] # None
        /\ head' = [head EXCEPT ![sink[gz[r]]] = SendHead(@, 200, header[sink[gz[r]]])]
        /\ UNCHANGED <<kind, header, status, headersSent, activated, written>>
    BY <1>2, Zenon DEF CloseGzip, Drain, handler, local
  <2>2. sink[gz[r]] = r /\ activated[r] /\ accepts[r]
    BY <1>1, <2>1, Zenon DEF Local
  <2>3. status[r] # 0 => head[r] = Final(r)
    BY <1>1, <2>2, ZenonT(60) DEF Headed, Due
  <2>4. head' = [head EXCEPT ![r] = Final(r)]
    BY <1>1, <2>1, <2>2, <2>3, Falling, ZenonT(60)
  <2>5. written[r] # <<>>
    BY <1>1, <2>2, Zenon DEF Headed
  <2>6. /\ UNCHANGED <<kind, header, status>> /\ activated'[r] = activated[r] /\ written'[r] = written[r]
        /\ headersSent' = [headersSent EXCEPT ![r] = headersSent[r]]
    BY <1>1, <2>1, Untouched, ZenonT(60)
  <2> QED BY <1>1, <2>2, <2>4, <2>5, <2>6, SentHead, Zenon
<1>3. CASE CloseBuffered(r)
  <2>1. /\ pc[r] = "closing" /\ ~activated[r] /\ pc' = [pc EXCEPT ![r] = "done"]
        /\ headersSent' = [headersSent EXCEPT ![r] = TRUE]
        /\ head' = IF buf[r] = <<>> THEN flushHeaders(r, header[r])
                   ELSE [flushHeaders(r, header[r]) EXCEPT ![r] = SendHead(@, 200, header[r])]
        /\ UNCHANGED <<kind, header, status, activated, written, panicked, buf, gz>>
    BY <1>3, ZenonT(60) DEF CloseBuffered, Goto, handler
  <2>2. accepts[r] /\ pc'[r] = "done" /\ activated'[r] = activated[r] /\ written'[r] = written[r]
    BY <1>1, <2>1, ZenonT(60) DEF Local, Types
  <2>3. head[r] = Unsent /\ ~headersSent[r] /\ wire[r] = <<>>
    BY <1>1, <2>1, <2>2, ZenonT(60) DEF Headed
  <2>4. CASE status[r] # 0
    <3>1. flushHeaders(r, header[r]) = [head EXCEPT ![r] = Final(r)]
      BY <1>1, <2>3, <2>4, Sending, ZenonT(60) DEF flushHeaders
    <3>2. [head EXCEPT ![r] = Final(r)][r] = Final(r) /\ Final(r) # Unsent
      BY <1>1, SMTT(20), Z3T(20) DEF Maps, Final, Unsent, Headed
    <3>3. SendHead(Final(r), 200, header[r]) = Final(r)
      BY <3>2, Zenon DEF SendHead
    <3>4. [[head EXCEPT ![r] = Final(r)] EXCEPT ![r] = Final(r)] = [head EXCEPT ![r] = Final(r)]
      BY <1>1, ZenonT(60) DEF Maps
    <3>5. head' = [head EXCEPT ![r] = Final(r)]
      BY <2>1, <3>1, <3>2, <3>3, <3>4, ZenonT(60)
    <3>6. UNCHANGED <<kind, header, status>> /\ \E x : headersSent' = [headersSent EXCEPT ![r] = x]
      BY <2>1, Zenon
    <3> QED BY <1>1, <2>1, <2>2, <2>4, <3>5, <3>6, SentHead, Zenon
  <2>5. CASE status[r] = 0 /\ buf[r] # <<>>
    <3>1. flushHeaders(r, header[r]) = head
      BY <2>5, SMTT(20), Z3T(20) DEF flushHeaders
    <3>2. head' = [head EXCEPT ![r] = Final(r)]
      BY <1>1, <2>1, <2>5, <3>1, Falling, ZenonT(60)
    <3>3. UNCHANGED <<kind, header, status>> /\ \E x : headersSent' = [headersSent EXCEPT ![r] = x]
      BY <2>1, Zenon
    <3> QED BY <1>1, <2>1, <2>2, <3>2, <3>3, SentHead, Zenon
  <2>6. CASE status[r] = 0 /\ buf[r] = <<>>
    <3>1. head' = head
      BY <2>1, <2>6, ZenonT(60) DEF flushHeaders
    <3>2. Touches(r)
      <4>1. head' = [head EXCEPT ![r] = head[r]] /\ header' = [header EXCEPT ![r] = header[r]]
            /\ status' = [status EXCEPT ![r] = status[r]]
        BY <1>1, <2>1, <3>1, Untouched, ZenonT(60)
      <4>2. headersSent' = [headersSent EXCEPT ![r] = TRUE]
        BY <2>1, ZenonT(60)
      <4> QED BY <4>1, <4>2, Zenon DEF Touches
    <3>3. panicked[r] \/ written[r] = <<>>
      <4>1. gz[r] = None
        BY <1>1, <2>1, Zenon DEF Local
      <4>2. Rest(r) = <<>> /\ <<>> \o <<>> = <<>>
        BY <2>1, <2>6, <4>1, Concat, Zenon DEF Rest
      <4>3. panicked[r] \/ written[r] = wire[r] \o Rest(r)
        BY <1>1, <2>1, ZenonT(60) DEF Local
      <4> QED BY <2>3, <4>2, <4>3, Zenon
    <3>4. ~Due(r)'
      BY <2>1, <2>2, <2>6, <3>3, ZenonT(60) DEF Due, kind
    <3>5. (Squeezed(r)' <=> Squeezed(r)) /\ Own(r)' = Own(r)
      BY <2>1, Zenon DEF Squeezed, Own, kind
    <3>6. header'[r] = (IF Squeezed(r)' THEN Gzipped ELSE Own(r)') /\ status'[r] \in {0, 404} /\ head'[r] = Unsent
      BY <1>1, <2>1, <2>3, <3>1, <3>5, ZenonT(60) DEF Headed
    <3> QED BY <2>1, <2>2, <3>2, <3>4, <3>6, Zenon DEF Headed
  <2> QED BY <2>4, <2>5, <2>6
<1> QED BY <1>2, <1>3

\* Write (gzip.go:58-103), by its cases.
LEMMA WriteHead ==
  ASSUME StackInv, StackInv', HeadInv, NEW r \in Responses, NEW n \in 1..MaxBytes, Write(r, n)
  PROVE  Touches(r) /\ Headed(r)'
<1> DEFINE b == Chunk(r, n)
<1>1. Types /\ Local(r) /\ Maps /\ Headed(r) /\ Types'
  BY DEF StackInv, HeadInv
<1>2. pc[r] = "serving" /\ written'[r] # <<>> /\ UNCHANGED kind
  BY <1>1, Grown, ZenonT(60) DEF Write
<1> HIDE DEF b
<1>3. CASE WritePlain(r, b)
  <2>1. /\ ~accepts[r] /\ head' = [head EXCEPT ![r] = SendHead(@, 200, header[r])]
        /\ UNCHANGED <<pc, header, status, headersSent, activated>>
    BY <1>3, Zenon DEF WritePlain, local
  <2>2. status[r] # 0 => head[r] = Final(r)
    BY <1>1, <2>1, ZenonT(60) DEF Headed, Due
  <2>3. head' = [head EXCEPT ![r] = Final(r)]
    BY <1>1, <2>1, <2>2, Falling, ZenonT(60)
  <2>4. ~activated[r] /\ ~activated'[r]
    BY <1>1, <2>1, Zenon DEF Local
  <2>5. UNCHANGED <<kind, header, status>> /\ headersSent' = [headersSent EXCEPT ![r] = headersSent[r]]
    BY <1>1, <1>2, <2>1, Untouched, Zenon
  <2> QED BY <1>1, <1>2, <2>1, <2>3, <2>4, <2>5, SentHead, Zenon
<1>4. CASE WriteBuffered(r, b)
  <2>1. accepts[r] /\ ~activated[r] /\ UNCHANGED <<pc, head, header, status, headersSent, activated, wire, gz>>
    BY <1>4, Zenon DEF WriteBuffered, out
  <2>2. Touches(r)
    BY <1>1, <2>1, Untouched, ZenonT(60) DEF Touches
  <2>3. head[r] = Unsent /\ ~headersSent[r] /\ wire[r] = <<>>
    BY <1>1, <1>2, <2>1, ZenonT(60) DEF Headed
  <2>4. ~Due(r)'
    BY <1>2, <2>1 DEF Due, kind
  <2>5. (Squeezed(r)' <=> Squeezed(r)) /\ Own(r)' = Own(r)
    BY <1>2, <2>1, Zenon DEF Squeezed, Own, kind
  <2>6. header'[r] = (IF Squeezed(r)' THEN Gzipped ELSE Own(r)') /\ status'[r] \in {0, 404}
    BY <1>1, <2>1, <2>5, ZenonT(60) DEF Headed
  <2> QED BY <1>2, <2>1, <2>2, <2>3, <2>4, <2>6, Zenon DEF Headed
<1>5. CASE WriteActivates(r, b)
  <2>1. /\ accepts[r] /\ ~activated[r] /\ activated' = [activated EXCEPT ![r] = TRUE]
        /\ headersSent' = [headersSent EXCEPT ![r] = TRUE] /\ UNCHANGED <<pc, status>>
    BY <1>5, Zenon DEF WriteActivates
  <2>2. activated'[r] /\ head[r] = Unsent /\ ~headersSent[r]
    <3>1. activated'[r]
      BY <1>1, <2>1 DEF Types
    <3> QED BY <1>1, <1>2, <2>1, <3>1, ZenonT(60) DEF Headed
  <2>3. CASE ActivatePlain(r, b)
    <3>1. /\ ~listed[r] /\ UNCHANGED header
          /\ head' = [flushHeaders(r, header[r]) EXCEPT ![r] = SendHead(@, 200, header[r])]
      BY <2>3, Zenon DEF ActivatePlain
    <3>2. head' = [head EXCEPT ![r] = Final(r)]
      <4>1. CASE status[r] # 0
        <5>1. flushHeaders(r, header[r]) = [head EXCEPT ![r] = Final(r)]
          BY <1>1, <2>2, <4>1, Sending, ZenonT(60) DEF flushHeaders
        <5>2. [head EXCEPT ![r] = Final(r)][r] = Final(r) /\ Final(r) # Unsent
          BY <1>1, SMTT(20), Z3T(20) DEF Maps, Final, Unsent, Headed
        <5>3. SendHead(Final(r), 200, header[r]) = Final(r)
          BY <5>2, Zenon DEF SendHead
        <5>4. [[head EXCEPT ![r] = Final(r)] EXCEPT ![r] = Final(r)] = [head EXCEPT ![r] = Final(r)]
          BY <1>1, ZenonT(60) DEF Maps
        <5> QED BY <3>1, <5>1, <5>2, <5>3, <5>4, ZenonT(60)
      <4>2. CASE status[r] = 0
        <5>1. flushHeaders(r, header[r]) = head
          BY <4>2 DEF flushHeaders
        <5> QED BY <1>1, <3>1, <4>2, <5>1, Falling, ZenonT(60)
      <4> QED BY <4>1, <4>2, SMTT(20), Z3T(20)
    <3>3. UNCHANGED <<kind, header, status>> /\ \E x : headersSent' = [headersSent EXCEPT ![r] = x]
      BY <1>2, <2>1, <3>1, Zenon
    <3> QED BY <1>1, <1>2, <2>1, <2>2, <3>1, <3>2, <3>3, SentHead, Zenon
  <2>4. CASE ActivateGzip(r, b)
    <3> DEFINE f == [status |-> IF status[r] = 0 THEN 200 ELSE status[r], encoding |-> "gzip", length |-> FALSE]
               sent == flushHeaders(r, Gzipped)
    <3>1. PICK w \in pool :
            /\ gz' = [gz EXCEPT ![r] = w] /\ header' = [header EXCEPT ![r] = Gzipped]
            /\ head' = sent \/ head' = [sent EXCEPT ![r] = SendHead(@, 200, Gzipped)]
      BY <2>4, Zenon DEF ActivateGzip
    <3>2. sent = IF status[r] # 0 THEN [head EXCEPT ![r] = f] ELSE head
      BY <1>1, <2>2, ZenonT(60) DEF flushHeaders, SendHead, Maps, Gzipped
    <3>3. f # Unsent
      <4>1. f.status # 0 /\ Unsent.status = 0
        BY TwoHundred, ZenonT(60) DEF Unsent
      <4> QED BY <4>1, Zenon
    <3>4. SendHead(f, 200, Gzipped) = f /\ (status[r] = 0 => SendHead(Unsent, 200, Gzipped) = f)
      BY <3>3, ZenonT(60) DEF SendHead, Gzipped
    <3> HIDE DEF f, sent
    <3>5. head' = [head EXCEPT ![r] = f] \/ (status[r] = 0 /\ head' = head)
      <4>1. [head EXCEPT ![r] = f][r] = f /\ [[head EXCEPT ![r] = f] EXCEPT ![r] = f] = [head EXCEPT ![r] = f]
        BY <1>1, ZenonT(60) DEF Maps
      <4>2. CASE status[r] # 0
        BY <3>1, <3>2, <3>4, <4>1, <4>2, ZenonT(60)
      <4>3. CASE status[r] = 0
        BY <2>2, <3>1, <3>2, <3>4, <4>3, ZenonT(60)
      <4> QED BY <4>2, <4>3
    <3>6. header'[r] = Gzipped /\ status'[r] = status[r] /\ gz'[r] = w /\ w # None
      BY <1>1, <2>1, <3>1, GzipConfig, SMTT(20), Z3T(20) DEF Maps, Types
    <3>7. Final(r)' = f
      BY <3>6, GzippedFields, Zenon DEF Final, f
    <3>8. head'[r] = f \/ (status[r] = 0 /\ head'[r] = Unsent)
      BY <1>1, <2>2, <3>5 DEF Maps
    <3>9. Touches(r)
      <4>1. head' = [head EXCEPT ![r] = f] \/ head' = [head EXCEPT ![r] = head[r]]
        BY <1>1, <3>5, Untouched, Zenon
      <4>2. status' = [status EXCEPT ![r] = status[r]]
        BY <1>1, <2>1, Untouched, ZenonT(60)
      <4> QED BY <2>1, <3>1, <4>1, <4>2, ZenonT(60) DEF Touches
    <3>10. listed[r] /\ accepts' = accepts /\ listed' = listed
      BY <1>2, <2>4, ZenonT(60) DEF ActivateGzip, kind
    <3>11. Squeezed(r)'
      BY <2>1, <2>2, <3>10, Zenon DEF Squeezed
    <3>12. Due(r)' => head'[r] = Final(r)'
      <4>1. Due(r)' => status[r] # 0
        BY <1>2, <2>1, <3>6, <3>10, SMTT(20), Z3T(20) DEF Due
      <4> QED BY <4>1, <3>7, <3>8, ZenonT(60)
    <3>13. status'[r] \in {0, 404} /\ head'[r] \in {Unsent, Final(r)'}
      BY <1>1, <3>6, <3>7, <3>8, ZenonT(60) DEF Headed
    <3> QED BY <1>2, <2>1, <2>2, <3>6, <3>9, <3>10, <3>11, <3>12, <3>13, Zenon DEF Headed
  <2> QED BY <1>5, <2>3, <2>4 DEF WriteActivates
<1>6. CASE WriteCompressed(r, b)
  <2>1. /\ accepts[r] /\ activated[r] /\ gz[r] # None /\ UNCHANGED <<pc, header, status, headersSent, activated, gz>>
        /\ \/ head' = head
           \/ head' = [head EXCEPT ![sink[gz[r]]] = SendHead(@, 200, header[sink[gz[r]]])]
    BY <1>6, Zenon DEF WriteCompressed, Compress, local
  <2>2. sink[gz[r]] = r /\ (status[r] # 0 => head[r] = Final(r))
    BY <1>1, <2>1, Zenon DEF Local, Headed, Due
  <2>3. CASE head' # head
    <3>1. head' = [head EXCEPT ![r] = Final(r)]
      BY <1>1, <2>1, <2>2, <2>3, Falling, SMTT(20), Z3T(20)
    <3>2. /\ UNCHANGED <<kind, header, status>> /\ headersSent' = [headersSent EXCEPT ![r] = headersSent[r]]
          /\ activated'[r]
      BY <1>1, <1>2, <2>1, Untouched, Zenon
    <3> QED BY <1>1, <1>2, <2>1, <3>1, <3>2, SentHead, Zenon
  <2>4. CASE head' = head
    <3>1. Touches(r)
      <4>1. head' = [head EXCEPT ![r] = head[r]] /\ header' = [header EXCEPT ![r] = header[r]]
            /\ status' = [status EXCEPT ![r] = status[r]]
            /\ headersSent' = [headersSent EXCEPT ![r] = headersSent[r]]
        BY <1>1, <2>1, <2>4, Untouched, ZenonT(60)
      <4> QED BY <4>1, Zenon DEF Touches
    <3>2. /\ Final(r)' = Final(r) /\ (Squeezed(r)' <=> Squeezed(r)) /\ Own(r)' = Own(r)
          /\ accepts' = accepts
      BY <1>2, <2>1, ZenonT(60) DEF Final, Squeezed, Own, kind
    <3>3. Due(r)' => status[r] # 0
      BY <1>2, <2>1, <3>2, ZenonT(60) DEF Due
    <3>4. /\ header'[r] = (IF Squeezed(r)' THEN Gzipped ELSE Own(r)') /\ status'[r] \in {0, 404}
          /\ head'[r] \in {Unsent, Final(r)'}
      BY <1>1, <2>1, <2>4, <3>2, Zenon DEF Headed
    <3>5. Due(r)' => head'[r] = Final(r)'
      BY <2>2, <2>4, <3>2, <3>3, Zenon
    <3>6. accepts'[r] /\ activated'[r]
      BY <2>1, <3>2, Zenon
    <3> QED BY <1>2, <3>1, <3>4, <3>5, <3>6, Zenon DEF Headed
  <2> QED BY <2>3, <2>4
<1>7. CASE WritePanics(r, b)
  <2>1. /\ accepts[r] /\ activated[r] /\ gz[r] = None
        /\ UNCHANGED <<head, header, status, headersSent, activated>>
    BY <1>7, Zenon DEF WritePanics, local, out
  <2>2. head[r] = Final(r)
    BY <1>1, <2>1, Zenon DEF Headed, Due
  <2>3. head' = [head EXCEPT ![r] = Final(r)]
    BY <1>1, <2>1, <2>2, Untouched, Zenon
  <2>4. /\ UNCHANGED <<kind, header, status>> /\ headersSent' = [headersSent EXCEPT ![r] = headersSent[r]]
        /\ activated'[r]
    BY <1>1, <1>2, <2>1, Untouched, Zenon
  <2> QED BY <1>1, <1>2, <2>1, <2>3, <2>4, SentHead, Zenon
<1> QED BY <1>3, <1>4, <1>5, <1>6, <1>7, SMTT(20), Z3T(20) DEF Write, b

\* No head is sent at the start.
LEMMA HeadInit == StackInit => HeadInv
<1> SUFFICES ASSUME StackInit PROVE HeadInv
  OBVIOUS
<1>1. Maps
  BY SMTT(20), Z3T(20) DEF StackInit, Init, Maps
<1>2. ASSUME NEW r \in Responses PROVE Headed(r) /\ Cut(r)
  <2>1. /\ pc[r] = "idle" /\ ~activated[r] /\ status[r] = 0 /\ written[r] = <<>> /\ wire[r] = <<>>
        /\ head[r] = Unsent /\ ~headersSent[r] /\ ~panicked[r] /\ header[r] = Own(r)
    BY ZenonT(60) DEF StackInit, Init, Own
  <2>2. ~Due(r) /\ ~Squeezed(r)
    BY <2>1, ZenonT(60) DEF Due, Squeezed
  <2> QED BY <2>1, <2>2, ZenonT(60) DEF Headed, Cut
<1> QED BY <1>1, <1>2, ZenonT(60) DEF HeadInv

\* Every step keeps the invariant of the heads.
LEMMA HeadNext == StackInv /\ StackInv' /\ HeadInv /\ [StackNext]_stack => HeadInv'
<1> SUFFICES ASSUME StackInv, StackInv', HeadInv, [StackNext]_stack PROVE HeadInv'
  OBVIOUS
<1>1. ASSUME NEW r \in Responses, Step(r) \/ Panic(r) PROVE HeadInv'
  <2>1. Touches(r) /\ Headed(r)'
    BY <1>1, QuietHead, WriteHeaderHead, WriteHead, CloseHead, SMTT(20), Z3T(20) DEF Step
  <2>2. Advances(r)
    BY <1>1, StepInv, PanicInv
  <2>3. UNCHANGED kind
    BY <1>1, KindStays
  <2>4. Cut(r)'
    BY <1>1, CutStep DEF HeadInv
  <2>5. Maps' /\ \A s \in Responses \ {r} : SameHead(s)
    BY <2>1, <2>3, Touch DEF HeadInv
  <2> QED BY <2>1, <2>2, <2>3, <2>4, <2>5, HeadElse, ZenonT(60)
<1>2. CASE UNCHANGED vars
  <2>1. Maps'
    BY <1>2, Zenon DEF vars, handler, kind, local, out, HeadInv, Maps
  <2>2. ASSUME NEW r \in Responses PROVE Headed(r)' /\ Cut(r)'
    <3>1. Headed(r) /\ Cut(r)
      BY ZenonT(60) DEF HeadInv
    <3>2. Rest(r)' = Rest(r)
      BY <1>2, ZenonT(60) DEF vars, local, shared, Rest
    <3>3. Held(r)' = Held(r)
      BY <1>2, <3>2 DEF vars, out, Held
    <3>4. Cut(r)'
      BY <1>2, <3>1, <3>3, Zenon DEF vars, handler, Cut
    <3>5. Headed(r)'
      BY <1>2, <3>1, ZenonT(60) DEF vars, handler, kind, local, out, Headed, Due, Final, Own, Squeezed
    <3> QED BY <3>4, <3>5
  <2> QED BY <2>1, <2>2 DEF HeadInv
<1>3. ASSUME NEW r \in Responses, Server(r) PROVE UNCHANGED vars
  BY <1>3 DEF Server, Finish, Recover, Expire
<1> QED BY <1>1, <1>2, <1>3 DEF StackNext, stack

\* For any number of responses, compressors and handlers, panics included: once the
\* compression of the middleware is undone a body is what its handler wrote, under the
\* handler's status; Content-Length tells the truth about it, and so does
\* Content-Encoding unless the handler's body was encoded and has been compressed
\* again (gzip.go:54-132).
THEOREM BodiesDelivered == StackSpec => []Delivered
<1>1. StackInv /\ HeadInv => Delivered
  <2> SUFFICES ASSUME StackInv, HeadInv, NEW r \in Responses
               PROVE  /\ Len(wire[r]) <= Len(written[r])
                      /\ \A n \in DOMAIN wire[r] : wire[r][n] = written[r][n]
                      /\ pc[r] = "done" /\ ~panicked[r] =>
                           /\ wire[r] = written[r]
                           /\ status[r] # 0 => head[r].status = status[r]
                           /\ written[r] # <<>> =>
                                /\ (head[r].encoding = "gzip") = (Squeezed(r) \/ encoded[r])
                                /\ head[r].length = (declared[r] /\ ~Squeezed(r))
    BY ZenonT(60) DEF Delivered
  <2>1. Types /\ Local(r) /\ Maps /\ Headed(r) /\ Cut(r)
    BY ZenonT(60) DEF StackInv, HeadInv
  <2>2. /\ wire[r] \in Seq(Bytes) /\ Rest(r) \in Seq(Bytes)
        /\ encoded[r] \in BOOLEAN /\ declared[r] \in BOOLEAN
    BY <2>1, EmptySeq DEF Types, Rest, Maps
  <2>3. \E z \in Seq(Bytes) : written[r] = wire[r] \o z
    <3>1. \E z \in Seq(Bytes) : written[r] = Held(r) \o z
      <4>1. CASE panicked[r]
        BY <2>1, <4>1, ZenonT(60) DEF Cut
      <4>2. CASE ~panicked[r]
        <5>1. written[r] = Held(r)
          BY <2>1, <4>2, Zenon DEF Local, Held
        <5>2. Held(r) \in Seq(Bytes)
          BY <2>2, Concat, Zenon DEF Held
        <5>3. Held(r) = Held(r) \o <<>> /\ <<>> \in Seq(Bytes)
          BY <5>2, Concat, Zenon
        <5> QED BY <5>1, <5>3, Zenon
      <4> QED BY <4>1, <4>2, ZenonT(60)
    <3>2. PICK z \in Seq(Bytes) : written[r] = Held(r) \o z
      BY <3>1
    <3>3. (wire[r] \o Rest(r)) \o z = wire[r] \o (Rest(r) \o z) /\ Rest(r) \o z \in Seq(Bytes)
      <4>1. (wire[r] \o Rest(r)) \o z = wire[r] \o (Rest(r) \o z)
        BY <2>2, Regroup, ZenonT(90)
      <4> QED BY <2>2, <4>1, Concat, Zenon
    <3> QED BY <3>2, <3>3, Zenon DEF Held
  <2>4. /\ Len(wire[r]) <= Len(written[r])
        /\ \A n \in DOMAIN wire[r] : wire[r][n] = written[r][n]
    <3>1. PICK z \in Seq(Bytes) : written[r] = wire[r] \o z
      BY <2>3, Zenon
    <3> DEFINE a == wire[r]
    <3>2. a \in Seq(Bytes)
      BY <2>2
    <3> HIDE DEF a
    <3>3. Len(a) <= Len(a \o z) /\ \A n \in DOMAIN a : a[n] = (a \o z)[n]
      BY <3>2, SMTT(20), Z3T(20)
    <3> QED BY <3>1, <3>3, Zenon DEF a
  <2>5. ASSUME pc[r] = "done", ~panicked[r]
        PROVE  /\ wire[r] = written[r]
               /\ status[r] # 0 => head[r].status = status[r]
               /\ written[r] # <<>> =>
                    /\ (head[r].encoding = "gzip") = (Squeezed(r) \/ encoded[r])
                    /\ head[r].length = (declared[r] /\ ~Squeezed(r))
    <3>1. wire[r] = written[r]
      BY <2>1, <2>5 DEF Local
    <3>2. status[r] # 0 \/ written[r] # <<>> => head[r] = Final(r)
      BY <2>1, <2>5, ZenonT(60) DEF Headed, Due
    <3>3. status[r] # 0 => Final(r).status = status[r]
      BY ZenonT(60) DEF Final
    <3>4. Final(r).encoding = header[r].encoding /\ Final(r).length = header[r].length
      BY ZenonT(60) DEF Final
    <3>5. header[r] = IF Squeezed(r) THEN Gzipped ELSE Own(r)
      BY <2>1, ZenonT(60) DEF Headed
    <3>6. CASE Squeezed(r)
      <4>1. header[r].encoding = "gzip" /\ header[r].length = FALSE
        BY <3>5, <3>6, GzippedFields, ZenonT(60)
      <4> QED BY <2>2, <3>1, <3>2, <3>3, <3>4, <3>6, <4>1, ZenonT(60)
    <3>7. CASE ~Squeezed(r)
      <4>1. /\ header[r].encoding = (IF encoded[r] THEN "gzip" ELSE "identity")
            /\ header[r].length = declared[r]
        BY <3>5, <3>7, SMTT(20), Z3T(20) DEF Own
      <4> QED BY <2>2, <3>1, <3>2, <3>3, <3>4, <3>7, <4>1, ZenonT(60)
    <3> QED BY <3>6, <3>7, ZenonT(60)
  <2> QED BY <2>4, <2>5, ZenonT(60)
<1> QED BY <1>1, InvInit, InvNext, HeadInit, HeadNext, PTL DEF StackSpec
=============================================================================
