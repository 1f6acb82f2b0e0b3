------------------------------- MODULE Tunnel -------------------------------
(***************************************************************************)
(* A WebSocket request (internal/proxy/tunnel.go): handleWebSocket, which  *)
(* takes over the client's connection, dials the upstream and passes the   *)
(* handshake on, and relayBidirectional with its three goroutines and the  *)
(* channel they report to.                                                 *)
(*                                                                         *)
(* A connection is a stream of bytes from its peer: the bytes that arrived *)
(* and were not read yet (net), and whether the peer has closed.  Bytes of *)
(* a peer are numbered.  The peers, net/http's server and the network are  *)
(* external; the writer of a request is the chain of wrappers router.New   *)
(* puts around the server's own, or none when the gateway is served as it  *)
(* is.                                                                     *)
(***************************************************************************)
EXTENDS Integers, Sequences

CONSTANTS Writers,    \* writers a request may come with
          MaxBytes    \* bound on the bytes a peer sends

Sides == {"client", "upstream"}
Tasks == {"up", "down", "ctx"}

ASSUME TunnelConfig ==
  /\ Writers \subseteq {"server", "router", "routerGzip"}
  /\ MaxBytes \in Nat

VARIABLES writer,    \* what wraps the writer of this request
          pc,        \* where handleWebSocket is
          conn,      \* this end of each connection: "none", "open", "closed"
          sent,      \* number of bytes a peer has sent
          net,       \* bytes that arrived from a peer and were not read
          gone,      \* the peer has closed its end
          clientBuf, \* bytes the server had read ahead when it was hijacked
          got,       \* bytes written to a peer
          task,      \* "off", "running", "ended"
          errCh,     \* number of results in the channel
          ctxDone    \* the request's context is cancelled

streams == <<sent, net, gone, clientBuf, got>>
relay == <<task, errCh>>
given == <<ctxDone, writer>>
vars == <<pc, conn, streams, relay, given>>

Init ==
  /\ writer \in Writers
  /\ pc = "hijack"
  /\ conn = [s \in Sides |-> "none"]
  /\ sent = [s \in Sides |-> 0]
  /\ net = [s \in Sides |-> <<>>]
  /\ gone = [s \in Sides |-> FALSE]
  /\ clientBuf = <<>>
  /\ got = [s \in Sides |-> <<>>]
  /\ task = [t \in Tasks |-> "off"]
  /\ errCh = 0
  /\ ctxDone = FALSE

Other(s) == IF s = "client" THEN "upstream" ELSE "client"
Drop(q, n) == SubSeq(q, n + 1, Len(q))

\* Return closing the connections in S.
Leave(S) ==
  /\ pc' = "returned"
  /\ conn' = [s \in Sides |-> IF s \in S THEN "closed" ELSE conn[s]]
-----------------------------------------------------------------------------
\* The peers.  The upstream has nothing to say before the handshake is written.
PeerSends(s) ==
  /\ sent[s] < MaxBytes /\ ~gone[s]
  /\ s = "upstream" => pc \in {"read", "answer", "relay", "returned"} /\ conn[s] # "none"
  /\ sent' = [sent EXCEPT ![s] = @ + 1]
  /\ net' = [net EXCEPT ![s] = Append(@, sent[s] + 1)]
  /\ UNCHANGED <<pc, conn, gone, clientBuf, got, relay, given>>

PeerCloses(s) ==
  /\ ~gone[s]
  /\ s = "upstream" => conn[s] # "none"
  /\ gone' = [gone EXCEPT ![s] = TRUE]
  /\ UNCHANGED <<pc, conn, sent, net, clientBuf, got, relay, given>>

\* net/http cancels the request's context when the handler has returned, and when
\* it sees the client go before the connection is hijacked.
Cancel ==
  /\ ~ctxDone
  /\ pc = "returned" \/ (pc = "hijack" /\ gone["client"])
  /\ ctxDone' = TRUE
  /\ UNCHANGED <<pc, conn, streams, relay, writer>>
-----------------------------------------------------------------------------
\* The wrappers of router.New.  http.TimeoutHandler's writer is no Hijacker;
\* ResponseRecorder.Hijack asks the writer it wraps; gzipResponseWriter has no
\* Hijack.
isHijacker == writer # "routerGzip"
hijackWorks == writer = "server"

\* w.(http.Hijacker) and Hijack: the server hands over what it has read ahead.
Hijack ==
  /\ pc = "hijack"
  /\ IF isHijacker /\ hijackWorks
     THEN \E n \in 0..Len(net["client"]) :
            /\ clientBuf' = SubSeq(net["client"], 1, n)
            /\ net' = [net EXCEPT !["client"] = Drop(@, n)]
            /\ conn' = [conn EXCEPT !["client"] = "open"]
            /\ pc' = "dial"
     ELSE Leave({}) /\ UNCHANGED <<clientBuf, net>>
  /\ UNCHANGED <<sent, gone, got, relay, given>>

\* Variant of Dial: the client's connection is left open when the dial fails.
DialLeaves ==
  /\ pc = "dial"
  /\ \/ conn' = [conn EXCEPT !["upstream"] = "open"] /\ pc' = "handshake"
     \/ Leave({})
  /\ UNCHANGED <<streams, relay, given>>

\* dialUpstream.
Dial ==
  /\ pc = "dial"
  /\ \/ conn' = [conn EXCEPT !["upstream"] = "open"] /\ pc' = "handshake"
     \/ Leave({"client"})
  /\ UNCHANGED <<streams, relay, given>>

\* writeUpstreamHandshake.
Handshake ==
  /\ pc = "handshake"
  /\ \/ pc' = "read" /\ UNCHANGED conn
     \/ Leave(Sides)
  /\ UNCHANGED <<streams, relay, given>>

\* http.ReadResponse through a bufio.Reader of its own: what arrived right behind
\* the head stays in that reader.  An error or any status but 101 ends the
\* request.
ReadResponse ==
  /\ pc = "read"
  /\ \/ /\ \E n \in 0..Len(net["upstream"]) :
             net' = [net EXCEPT !["upstream"] = Drop(@, n)]
        /\ pc' = "answer"
        /\ UNCHANGED conn
     \/ Leave(Sides) /\ UNCHANGED net
  /\ UNCHANGED <<sent, gone, clientBuf, got, relay, given>>

\* resp.Write to the client, and the start of relayBidirectional.
WriteResponse ==
  /\ pc = "answer"
  /\ \/ /\ pc' = "relay"
        /\ task' = [t \in Tasks |-> "running"]
        /\ UNCHANGED conn
     \/ Leave(Sides) /\ UNCHANGED task
  /\ UNCHANGED <<streams, errCh, given>>
-----------------------------------------------------------------------------
Source(t) == IF t = "up" THEN "client" ELSE "upstream"

\* Variant of errChCap: room for one result only.
errChCapOne == 1

errChCap == 3

\* Variant of CopyUp: clientConn is copied whatever the server had read ahead.
CopyUpUnbuffered ==
  /\ task["up"] = "running"
  /\ \A s \in Sides : conn[s] = "open"
  /\ net["client"] # <<>>
  /\ got' = [got EXCEPT !["upstream"] = Append(@, Head(net["client"]))]
  /\ net' = [net EXCEPT !["client"] = Tail(@)]
  /\ UNCHANGED <<pc, conn, sent, gone, clientBuf, relay, given>>

\* io.Copy to upstreamConn: from clientBuf, which goes on to clientConn when it is
\* empty, or from clientConn when nothing was read ahead.
CopyUp ==
  /\ task["up"] = "running"
  /\ \A s \in Sides : conn[s] = "open"
  /\ \/ /\ clientBuf # <<>>
        /\ got' = [got EXCEPT !["upstream"] = Append(@, Head(clientBuf))]
        /\ clientBuf' = Tail(clientBuf)
        /\ UNCHANGED net
     \/ /\ clientBuf = <<>> /\ net["client"] # <<>>
        /\ got' = [got EXCEPT !["upstream"] = Append(@, Head(net["client"]))]
        /\ net' = [net EXCEPT !["client"] = Tail(@)]
        /\ UNCHANGED clientBuf
  /\ UNCHANGED <<pc, conn, sent, gone, relay, given>>

\* io.Copy to clientConn.
CopyDown ==
  /\ task["down"] = "running"
  /\ \A s \in Sides : conn[s] = "open"
  /\ net["upstream"] # <<>>
  /\ got' = [got EXCEPT !["client"] = Append(@, Head(net["upstream"]))]
  /\ net' = [net EXCEPT !["upstream"] = Tail(@)]
  /\ UNCHANGED <<pc, conn, sent, gone, clientBuf, relay, given>>

\* io.Copy returns: the source is at its end, the destination's peer is gone and a
\* write fails, or this end was closed.
CopyOver(t) ==
  LET s == Source(t)
  IN  \/ gone[s] /\ net[s] = <<>> /\ (t = "up" => clientBuf = <<>>)
      \/ gone[Other(s)] /\ (net[s] # <<>> \/ (t = "up" /\ clientBuf # <<>>))
      \/ \E c \in Sides : conn[c] = "closed"

\* A goroutine sends its result, if there is room for it, and ends.
Report(t) ==
  /\ task[t] = "running"
  /\ IF t = "ctx" THEN ctxDone ELSE CopyOver(t)
  /\ errCh < errChCap
  /\ errCh' = errCh + 1
  /\ task' = [task EXCEPT ![t] = "ended"]
  /\ UNCHANGED <<pc, conn, streams, given>>

\* The first result closes both connections, once, and is returned.
Receive ==
  /\ pc = "relay" /\ errCh > 0
  /\ errCh' = errCh - 1
  /\ Leave(Sides)
  /\ UNCHANGED <<streams, task, given>>

handleWebSocket == Hijack \/ Dial \/ Handshake \/ ReadResponse \/ WriteResponse \/ Receive

Next ==
  \/ \E s \in Sides : PeerSends(s) \/ PeerCloses(s)
  \/ Cancel
  \/ handleWebSocket
  \/ CopyUp \/ CopyDown
  \/ \E t \in Tasks : Report(t)

Spec == Init /\ [][Next]_vars

\* The scheduler runs a goroutine that has a result to send, and the server cancels
\* the context of a request that is over.  Nothing is assumed of the peers, of the
\* network or of the pace of the copying.
FairSpec ==
  /\ Spec
  /\ WF_vars(Cancel /\ pc = "returned")
  /\ \A t \in Tasks : WF_vars(Report(t))
-----------------------------------------------------------------------------
\* Every error path and the end of the relay close what was opened (tunnel.go:37-75,
\* 126-131, 168): handleWebSocket returns with no connection of its own open.
ClosedOnReturn == pc = "returned" => \A s \in Sides : conn[s] # "open"

\* The upstream gets the client's bytes from the first one on, in order, those the
\* server had read before the hijack included (tunnel.go:135-151).
UpstreamStream ==
  /\ Len(got["upstream"]) <= sent["client"]
  /\ \A n \in DOMAIN got["upstream"] : got["upstream"][n] = n

\* The capacity of errCh is enough (tunnel.go:133): whichever results are sent,
\* received or left in the channel, a goroutine of the relay that still runs finds
\* room for its own, so that none waits for a receiver that has returned.
ResultsFit == \A t \in Tasks : task[t] = "running" => errCh < errChCap

\* "Context-aware tunnel cleanup" (README.md:119): no goroutine of the relay
\* outlives its request for ever, whichever of the three ends it first: the
\* channel has room for the results nobody waits for (tunnel.go:133, 161-170).
TasksEnd == (pc = "returned") ~> (\A t \in Tasks : task[t] # "running")

=============================================================================
