----------------------------- MODULE Middleware -----------------------------
(***************************************************************************)
(* What stands in front of the gzip middleware (internal/router and        *)
(* internal/middleware): Recovery around http.TimeoutHandler around        *)
(* Logging.  The writer that gzip wraps is the recorder on top of the      *)
(* buffer of TimeoutHandler, so that head and wire of GzipWriter are what  *)
(* that buffer holds; the client sees a reply, once.                       *)
(*                                                                         *)
(* TimeoutHandler runs the handler in a goroutine and waits for its end,   *)
(* its panic or the timer, whichever it meets first; what the handler      *)
(* writes after the timer fired goes nowhere.                              *)
(***************************************************************************)
EXTENDS GzipWriter

VARIABLE reply    \* what the client got

stack == <<vars, reply>>

Waiting == [status |-> 0, encoding |-> "unsent", body |-> <<>>]
Page(code, text) == [status |-> code, encoding |-> "identity", body |-> <<text>>]

StackInit ==
  /\ Init
  /\ reply = [r \in Responses |-> Waiting]

\* Variant of Panic: the close of gzip is not deferred, and does not run.
PanicUnclosed(r) ==
  /\ pc[r] = "serving"
  /\ panicked' = [panicked EXCEPT ![r] = TRUE]
  /\ Goto(r, "done")
  /\ UNCHANGED <<kind, written, local, out, shared, reply>>

\* The handler panics (a Write to a nil compressor is GzipWriter's own case); the
\* deferred close of gzip still runs.
Panic(r) ==
  /\ pc[r] = "serving"
  /\ panicked' = [panicked EXCEPT ![r] = TRUE]
  /\ Goto(r, IF accepts[r] THEN "closing" ELSE "done")
  /\ UNCHANGED <<kind, written, local, out, shared, reply>>

\* recorder.StatusCode: what WriteHeader was told, 200 at first.  The buffer of
\* TimeoutHandler holds the same.
Recorded(r) == IF head[r].status = 0 THEN 200 ELSE head[r].status

\* TimeoutHandler after the handler's end: the headers, status and body of the buffer.
Finish(r) ==
  /\ pc[r] = "done" /\ ~panicked[r] /\ reply[r] = Waiting
  /\ reply' = [reply EXCEPT ![r] = [status |-> Recorded(r), body |-> wire[r],
                 encoding |-> IF head[r] = Unsent THEN header[r].encoding ELSE head[r].encoding]]
  /\ UNCHANGED vars

\* Variant of Recover: Recovery stands inside of the timeout, and writes into its buffer.
RecoverInside(r) ==
  /\ pc[r] = "done" /\ panicked[r] /\ reply[r] = Waiting
  /\ LET sent == SendHead(head[r], 500, header[r])
     IN  reply' = [reply EXCEPT ![r] = [status |-> sent.status, encoding |-> sent.encoding,
                                        body |-> Append(wire[r], "error")]]
  /\ UNCHANGED vars

\* The panic passes through TimeoutHandler to Recovery, whose writer is untouched.
Recover(r) ==
  /\ pc[r] = "done" /\ panicked[r] /\ reply[r] = Waiting
  /\ reply' = [reply EXCEPT ![r] = Page(500, "error")]
  /\ UNCHANGED vars

\* The timer of TimeoutHandler, which also cancels the request's context.
Expire(r) ==
  /\ pc[r] # "idle" /\ reply[r] = Waiting
  /\ reply' = [reply EXCEPT ![r] = Page(503, "timeout")]
  /\ UNCHANGED vars

Server(r) == Finish(r) \/ Recover(r) \/ Expire(r)

StackNext == \E r \in Responses : (Step(r) /\ UNCHANGED reply) \/ Panic(r) \/ Server(r)

\* The deferred close of gzip.
Close(r) == CloseBuffered(r) \/ ClosePlain(r) \/ CloseGzip(r) \/ PutGzip(r)

\* A handler may take for ever, until the timer of TimeoutHandler, which fires, has
\* cancelled the context of its request: that ends its calls to the upstream, and
\* it returns.  What is deferred runs.
StackFairness ==
  \A r \in Responses :
    /\ WF_stack(Expire(r))
    /\ WF_stack(reply[r] # Waiting /\ Return(r) /\ UNCHANGED reply)
    /\ WF_stack(Close(r) /\ UNCHANGED reply)

StackSpec == StackInit /\ [][StackNext]_stack /\ StackFairness
-----------------------------------------------------------------------------
\* "request timeout" (timeout.go:13) and "internal server error" (recovery.go:10): a
\* client gets the handler's response whole, or one of the two error pages and
\* nothing else, never a part of a response or a page labelled as compressed; the
\* 500 only after a panic.
AllOrNothing ==
  \A r \in Responses :
    \/ reply[r] \in {Waiting, Page(503, "timeout")}
    \/ reply[r] = Page(500, "error") /\ panicked[r]
    \/ reply[r].body = written[r] /\ pc[r] = "done" /\ ~panicked[r]

\* "`sync.Pool` writer reuse" (README.md:145): a compressor that is taken out of the
\* pool comes back to it, although its handler may panic, or hang until the timer
\* of another middleware has answered in its place (gzip.go:36, 126-130).
CompressorsReturn == \A w \in Writers : w \notin pool ~> w \in pool
=============================================================================
