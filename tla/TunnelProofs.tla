---------------------------- MODULE TunnelProofs ----------------------------
(***************************************************************************)
(* A tunnel leaves no connection open, and passes on the client's bytes    *)
(* from the first one on, for any number of bytes and all writers.         *)
(***************************************************************************)
EXTENDS Tunnel, SequenceTheorems, TLAPS

\* Which connections are open where handleWebSocket is.
ConnInv ==
  /\ conn \in [Sides -> {"none", "open", "closed"}]
  /\ pc = "hijack" => \A s \in Sides : conn[s] = "none"
  /\ pc = "dial" => conn["upstream"] = "none"
  /\ ClosedOnReturn

LEMMA LeaveCloses ==
  ASSUME ConnInv, NEW S \in SUBSET Sides, Leave(S), \A s \in Sides \ S : conn[s] # "open"
  PROVE  ConnInv'
  BY DEF ConnInv, Leave, ClosedOnReturn

\* "Context-aware tunnel cleanup" (README.md:119): however the handshake fails or the
\* relay ends, handleWebSocket returns with no connection open (tunnel.go:36-75, 168).
THEOREM AllClosed == Spec => []ClosedOnReturn
<1>1. Init => ConnInv
  BY DEF Init, ConnInv, ClosedOnReturn
<1>2. ConnInv /\ [Next]_vars => ConnInv'
  <2> SUFFICES ASSUME ConnInv, [Next]_vars PROVE ConnInv'
    OBVIOUS
  <2>1. CASE Hijack
    <3>1. CASE Leave({})
      BY <2>1, <3>1, LeaveCloses DEF Hijack, ConnInv
    <3>2. CASE conn' = [conn EXCEPT !["client"] = "open"] /\ pc' = "dial"
      BY <2>1, <3>2 DEF Hijack, ConnInv, ClosedOnReturn, Sides
    <3> QED  BY <2>1, <3>1, <3>2 DEF Hijack
  <2>2. CASE Dial
    <3>1. CASE Leave({"client"})
      BY <2>2, <3>1, LeaveCloses DEF Dial, ConnInv, Sides
    <3>2. CASE conn' = [conn EXCEPT !["upstream"] = "open"] /\ pc' = "handshake"
      BY <3>2 DEF ConnInv, ClosedOnReturn, Sides
    <3> QED  BY <2>2, <3>1, <3>2 DEF Dial
  <2>3. CASE Leave(Sides)
    BY <2>3, LeaveCloses
  <2>4. ASSUME UNCHANGED conn, pc' = pc \/ pc' \in {"read", "answer", "relay"} PROVE ConnInv'
    BY <2>4 DEF ConnInv, ClosedOnReturn
  <2>5. CASE Handshake \/ ReadResponse \/ WriteResponse \/ Receive
    BY <2>3, <2>4, <2>5 DEF Handshake, ReadResponse, WriteResponse, Receive
  <2>6. CASE \/ \E s \in Sides : PeerSends(s) \/ PeerCloses(s)
             \/ Cancel \/ CopyUp \/ CopyDown \/ \E t \in Tasks : Report(t)
    BY <2>4, <2>6 DEF PeerSends, PeerCloses, Cancel, CopyUp, CopyDown, Report
  <2>7. CASE UNCHANGED vars
    BY <2>4, <2>7 DEF vars
  <2> QED  BY <2>1, <2>2, <2>5, <2>6, <2>7 DEF Next, handleWebSocket
<1>3. ConnInv => ClosedOnReturn
  BY DEF ConnInv
<1> QED  BY <1>1, <1>2, <1>3, PTL DEF Spec
-----------------------------------------------------------------------------
Running(t) == IF task[t] = "running" THEN 1 ELSE 0

\* The results in the channel and those still to come fill it at most; before the
\* relay starts there are none of either.
RoomInv ==
  /\ task \in [Tasks -> {"off", "running", "ended"}]
  /\ errCh \in Nat
  /\ errCh + Running("up") + Running("down") + Running("ctx") <= errChCap
  /\ pc \in {"hijack", "dial", "handshake", "read", "answer"} =>
       errCh = 0 /\ \A t \in Tasks : task[t] = "off"

\* No goroutine of the relay is ever left waiting to send its result, whichever of
\* them ends first and whether or not anybody still receives (tunnel.go:133-170).
THEOREM NeverBlocked == Spec => []ResultsFit
<1> USE DEF errChCap, Tasks
<1>1. Init => RoomInv
  BY DEF Init, RoomInv, Running
<1>2. RoomInv /\ [Next]_vars => RoomInv'
  <2> SUFFICES ASSUME RoomInv, [Next]_vars PROVE RoomInv'
    OBVIOUS
  <2>1. CASE WriteResponse
    BY <2>1 DEF WriteResponse, Leave, RoomInv, Running
  <2>2. CASE Receive
    BY <2>2 DEF Receive, Leave, RoomInv, Running
  <2>3. ASSUME NEW t \in Tasks, Report(t) PROVE RoomInv'
    BY <2>3 DEF Report, RoomInv, Running
  <2>4. CASE Hijack \/ Dial \/ Handshake \/ ReadResponse
    BY <2>4 DEF Hijack, Dial, Handshake, ReadResponse, Leave, relay, RoomInv, Running
  <2>5. ASSUME UNCHANGED <<pc, relay>> PROVE RoomInv'
    BY <2>5 DEF relay, RoomInv, Running
  <2>6. CASE \/ \E s \in Sides : PeerSends(s) \/ PeerCloses(s)
             \/ Cancel \/ CopyUp \/ CopyDown \/ UNCHANGED vars
    BY <2>5, <2>6 DEF PeerSends, PeerCloses, Cancel, CopyUp, CopyDown, vars
  <2> QED  BY <2>1, <2>2, <2>3, <2>4, <2>6 DEF Next, handleWebSocket
<1>3. RoomInv => ResultsFit
  BY DEF RoomInv, ResultsFit, Running
<1> QED  BY <1>1, <1>2, <1>3, PTL DEF Spec
-----------------------------------------------------------------------------
\* q holds the bytes that follow the first n.
Follows(q, n) == q \in Seq(Nat) /\ \A k \in 1..Len(q) : q[k] = n + k

\* What was passed on, read ahead and not yet read of the client are its bytes in
\* order; nothing is passed on or read ahead before the hijack.
StreamInv ==
  /\ sent \in [Sides -> Nat] /\ net \in [Sides -> Seq(Nat)] /\ got \in [Sides -> Seq(Nat)]
  /\ task \in [Tasks -> {"off", "running", "ended"}]
  /\ clientBuf \in Seq(Nat)
  /\ LET g == Len(got["upstream"])
         c == Len(clientBuf)
     IN  /\ Follows(got["upstream"], 0)
         /\ Follows(clientBuf, g)
         /\ Follows(net["client"], g + c)
         /\ g + c + Len(net["client"]) = sent["client"]
  /\ pc = "hijack" => clientBuf = <<>> /\ task["up"] = "off"

LEMMA Appended ==
  ASSUME NEW q, NEW n \in Nat, Follows(q, n), NEW m, m = n + Len(q) + 1
  PROVE  Follows(Append(q, m), n) /\ Len(Append(q, m)) = Len(q) + 1
  BY DEF Follows

LEMMA Consumed ==
  ASSUME NEW q, NEW n \in Nat, Follows(q, n), q # <<>>
  PROVE  /\ Head(q) = n + 1 /\ Head(q) \in Nat
         /\ Follows(Tail(q), n + 1) /\ Len(q) = Len(Tail(q)) + 1 /\ Len(Tail(q)) \in Nat
  BY DEF Follows

LEMMA Cut ==
  ASSUME NEW q, NEW n \in Nat, Follows(q, n), NEW m \in 0..Len(q)
  PROVE  /\ Follows(SubSeq(q, 1, m), n) /\ Len(SubSeq(q, 1, m)) = m
         /\ Follows(Drop(q, m), n + m) /\ Len(Drop(q, m)) = Len(q) - m
<1>1. q \in Seq(Nat) /\ Len(q) \in Nat /\ \A k \in 1..Len(q) : q[k] = n + k
  BY DEF Follows
<1>2. /\ SubSeq(q, 1, m) \in Seq(Nat) /\ Len(SubSeq(q, 1, m)) = m
      /\ \A k \in 1..m : SubSeq(q, 1, m)[k] = q[k]
  BY <1>1, SubSeqProperties, SMTT(20), Z3T(20)
<1>3. /\ Drop(q, m) \in Seq(Nat) /\ Len(Drop(q, m)) = Len(q) - m
      /\ \A k \in 1..(Len(q) - m) : Drop(q, m)[k] = q[m + k]
  BY <1>1, SubSeqProperties, SMTT(20), Z3T(20) DEF Drop
<1>4. Follows(SubSeq(q, 1, m), n)
  BY <1>1, <1>2 DEF Follows
<1>5. \A k \in 1..(Len(q) - m) : m + k \in 1..Len(q) /\ n + (m + k) = (n + m) + k
  BY <1>1
<1>6. Follows(Drop(q, m), n + m)
  BY <1>1, <1>3, <1>5 DEF Follows
<1> QED  BY <1>2, <1>3, <1>4, <1>6

\* A step that does not touch the client's bytes.
LEMMA Aside ==
  ASSUME StreamInv, UNCHANGED <<clientBuf, net["client"], got["upstream"], sent["client"]>>,
         sent' \in [Sides -> Nat], net' \in [Sides -> Seq(Nat)], got' \in [Sides -> Seq(Nat)],
         task' \in [Tasks -> {"off", "running", "ended"}],
         pc' = "hijack" => pc = "hijack" /\ task'["up"] = task["up"]
  PROVE  StreamInv'
  BY Zenon DEF StreamInv, Follows

\* relayBidirectional (tunnel.go:126-151): whatever the server had read ahead, the
\* upstream gets the client's bytes in order, none missing before the last.
THEOREM ClientBytesInOrder == Spec => []UpstreamStream
<1>1. Init => StreamInv
  BY DEF Init, StreamInv, Follows, Sides, Tasks
<1>2. StreamInv /\ [Next]_vars => StreamInv'
  <2> SUFFICES ASSUME StreamInv, [Next]_vars PROVE StreamInv'
    OBVIOUS
  <2> DEFINE g == Len(got["upstream"])
             c == Len(clientBuf)
  <2>1. /\ sent \in [Sides -> Nat] /\ net \in [Sides -> Seq(Nat)] /\ got \in [Sides -> Seq(Nat)]
        /\ task \in [Tasks -> {"off", "running", "ended"}] /\ clientBuf \in Seq(Nat)
        /\ "client" \in Sides /\ "upstream" \in Sides /\ "up" \in Tasks
        /\ g \in Nat /\ c \in Nat
    BY DEF StreamInv, Sides, Tasks
  <2>2. /\ Follows(got["upstream"], 0) /\ Follows(clientBuf, g) /\ Follows(net["client"], g + c)
        /\ g + c + Len(net["client"]) = sent["client"]
    BY Zenon DEF StreamInv
  <2>3. ASSUME NEW s \in Sides, PeerSends(s) PROVE StreamInv'
    <3>1. CASE s = "upstream"
      <4>1. /\ net' = [net EXCEPT !["upstream"] = Append(@, sent["upstream"] + 1)]
            /\ sent' = [sent EXCEPT !["upstream"] = @ + 1]
            /\ UNCHANGED <<pc, clientBuf, got, task>>
        BY <2>3, <3>1 DEF PeerSends, relay
      <4>2. net' \in [Sides -> Seq(Nat)] /\ net'["client"] = net["client"]
        BY <4>1, <2>1, SMTT(20), Z3T(20)
      <4> QED  BY <4>1, <4>2, <2>1, Aside, SMTT(20), Z3T(20)
    <3>2. CASE s = "client"
      <4>1. /\ net' = [net EXCEPT !["client"] = Append(@, sent["client"] + 1)]
            /\ sent' = [sent EXCEPT !["client"] = @ + 1]
            /\ UNCHANGED <<pc, clientBuf, got, task>>
        BY <2>3, <3>2 DEF PeerSends, relay
      <4>2. /\ Follows(Append(net["client"], sent["client"] + 1), g + c)
            /\ Len(Append(net["client"], sent["client"] + 1)) = Len(net["client"]) + 1
        BY <2>1, <2>2, Appended
      <4>3. net' \in [Sides -> Seq(Nat)] /\ sent' \in [Sides -> Nat]
        BY <4>1, <4>2, <2>1, SMTT(20), Z3T(20) DEF Follows
      <4>4. Follows(net'["client"], g + c) /\ g + c + Len(net'["client"]) = sent'["client"]
        BY <4>1, <4>2, <2>1, <2>2
      <4>5. pc' = "hijack" => clientBuf' = <<>> /\ task'["up"] = "off"
        BY <4>1 DEF StreamInv
      <4> QED  BY <4>1, <4>3, <4>4, <4>5, <2>1, <2>2, Zenon DEF StreamInv
    <3> QED  BY <3>1, <3>2 DEF Sides
  <2>4. CASE Hijack
    <3>1. CASE UNCHANGED <<clientBuf, net>>
      BY <2>1, <2>4, <3>1, Aside DEF Hijack, relay, Leave
    <3>2. ASSUME NEW n \in 0..Len(net["client"]), clientBuf' = SubSeq(net["client"], 1, n),
                 net' = [net EXCEPT !["client"] = Drop(@, n)], pc' = "dial"
          PROVE  StreamInv'
      <4>1. c = 0 /\ UNCHANGED <<sent, got, task>>
        BY <2>4 DEF Hijack, relay, StreamInv
      <4>2. /\ Follows(clientBuf', g) /\ Len(clientBuf') = n
            /\ Follows(net'["client"], g + n) /\ Len(net'["client"]) = Len(net["client"]) - n
        BY <3>2, <4>1, <2>1, <2>2, Cut, SMTT(30), Z3T(20)
      <4>3. clientBuf' \in Seq(Nat) /\ net' \in [Sides -> Seq(Nat)]
        BY <3>2, <4>2, <2>1, Zenon DEF Follows
      <4>4. g + n + Len(net'["client"]) = sent'["client"]
        BY <4>1, <4>2, <2>1, <2>2
      <4> QED  BY <3>2, <4>1, <4>2, <4>3, <4>4, <2>1, <2>2, Zenon DEF StreamInv
    <3> QED  BY <2>4, <3>1, <3>2 DEF Hijack
  <2>5. CASE CopyUp
    <3>1. pc # "hijack" /\ UNCHANGED <<pc, sent, task>>
      BY <2>5 DEF CopyUp, relay, StreamInv
    <3>2. CASE /\ clientBuf # <<>> /\ clientBuf' = Tail(clientBuf) /\ UNCHANGED net
               /\ got' = [got EXCEPT !["upstream"] = Append(@, Head(clientBuf))]
      <4>1. /\ Head(clientBuf) = g + 1 /\ Follows(clientBuf', g + 1) /\ c = Len(clientBuf') + 1
            /\ Len(clientBuf') \in Nat
        BY <3>2, <2>1, <2>2, Consumed
      <4>2. Follows(got'["upstream"], 0) /\ Len(got'["upstream"]) = g + 1
        BY <3>2, <4>1, <2>1, <2>2, Appended
      <4>3. clientBuf' \in Seq(Nat) /\ got' \in [Sides -> Seq(Nat)]
        BY <3>2, <4>1, <4>2, <2>1 DEF Follows
      <4>4. g + 1 + Len(clientBuf') = g + c
        BY <4>1, <2>1
      <4> QED  BY <3>1, <3>2, <4>1, <4>2, <4>3, <4>4, <2>1, <2>2, SMTT(30), Z3T(20) DEF StreamInv
    <3>3. CASE /\ clientBuf = <<>> /\ net["client"] # <<>> /\ UNCHANGED clientBuf
               /\ got' = [got EXCEPT !["upstream"] = Append(@, Head(net["client"]))]
               /\ net' = [net EXCEPT !["client"] = Tail(@)]
      <4>1. /\ c = 0 /\ Head(net["client"]) = g + 1 /\ Follows(net'["client"], g + 1)
            /\ Len(net["client"]) = Len(net'["client"]) + 1 /\ Len(net'["client"]) \in Nat
        <5>1. c = 0 /\ g + c = g
          BY <3>3, <2>1
        <5>2. Follows(net["client"], g) /\ net'["client"] = Tail(net["client"])
          BY <3>3, <5>1, <2>1, <2>2
        <5> QED  BY <3>3, <5>1, <5>2, <2>1, Consumed
      <4>2. Follows(got'["upstream"], 0) /\ Len(got'["upstream"]) = g + 1
        BY <3>3, <4>1, <2>1, <2>2, Appended
      <4>3. net' \in [Sides -> Seq(Nat)] /\ got' \in [Sides -> Seq(Nat)]
        BY <3>3, <4>1, <4>2, <2>1, SMTT(20), Z3T(20) DEF Follows
      <4>4. Follows(clientBuf', g + 1) /\ Len(clientBuf') = 0
        BY <3>3, <2>1 DEF Follows
      <4>5. g + 1 + 0 + Len(net'["client"]) = sent'["client"]
        <5> HIDE DEF g
        <5>1. g + (Len(net'["client"]) + 1) = sent["client"] /\ sent' = sent
          BY <3>1, <4>1, <2>1, <2>2
        <5>2. \A a, b \in Nat : a + 1 + 0 + b = a + (b + 1)
          OBVIOUS
        <5>3. g \in Nat /\ Len(net'["client"]) \in Nat
          BY <4>1, <2>1
        <5> QED  BY <5>1, <5>2, <5>3, Zenon
      <4>6. g + 1 + 0 = g + 1
        BY <2>1
      <4> QED  BY <3>1, <3>3, <4>1, <4>2, <4>3, <4>4, <4>5, <4>6, <2>1, SMTT(30), Z3T(20) DEF StreamInv
    <3> QED  BY <2>5, <3>2, <3>3 DEF CopyUp
  <2>6. CASE ReadResponse
    <3>1. net' \in [Sides -> Seq(Nat)] /\ net'["client"] = net["client"]
      <4>1. CASE UNCHANGED net
        BY <4>1, <2>1
      <4>2. ASSUME NEW n \in 0..Len(net["upstream"]), net' = [net EXCEPT !["upstream"] = Drop(@, n)]
            PROVE  net' \in [Sides -> Seq(Nat)] /\ net'["client"] = net["client"]
        <5>1. Drop(net["upstream"], n) \in Seq(Nat)
          BY <2>1, SubSeqProperties, SMTT(20), Z3T(20) DEF Drop
        <5> QED  BY <4>2, <5>1, <2>1
      <4> QED  BY <2>6, <4>1, <4>2 DEF ReadResponse
    <3> QED  BY <3>1, <2>1, <2>6, Aside DEF ReadResponse, relay, Leave
  <2>7. CASE CopyDown
    BY <2>1, <2>7, Aside, SMTT(20), Z3T(20) DEF CopyDown, relay
  <2>8. CASE WriteResponse
    BY <2>1, <2>8, Aside DEF WriteResponse, streams, Leave
  <2>9. CASE Dial \/ Handshake \/ Receive \/ Cancel \/ \E s \in Sides : PeerCloses(s)
    BY <2>1, <2>9, Aside, SMTT(20), Z3T(20) DEF Dial, Handshake, Receive, Cancel, PeerCloses, streams, relay, Leave
  <2>10. ASSUME NEW t \in Tasks, Report(t) PROVE StreamInv'
    BY <2>1, <2>10, Aside DEF Report, streams, StreamInv
  <2>11. CASE UNCHANGED vars
    BY <2>1, <2>11, Aside DEF vars, streams, relay
  <2> QED  BY <2>3, <2>4, <2>5, <2>6, <2>7, <2>8, <2>9, <2>10, <2>11 DEF Next, handleWebSocket
<1>3. StreamInv => UpstreamStream
  BY SMTT(20), Z3T(20) DEF StreamInv, Follows, Sides, UpstreamStream
<1> QED  BY <1>1, <1>2, <1>3, PTL DEF Spec
=============================================================================
