----------------------------- MODULE GzipWriter -----------------------------
(***************************************************************************)
(* The gzip middleware (internal/middleware/gzip.go): responses that are   *)
(* produced concurrently, each through a gzipResponseWriter of its own,    *)
(* and the pool of compressors they share.                                 *)
(*                                                                         *)
(* The handler behind the middleware sets its headers, may call            *)
(* WriteHeader, calls Write any number of times and returns; the deferred  *)
(* close runs then, and also when Write panics.  A byte is named by the    *)
(* response it belongs to and its place in it, so that bytes delivered to  *)
(* the wrong response, twice or out of order are seen.  Each action makes  *)
(* at most one operation on the pool.                                      *)
(***************************************************************************)
EXTENDS Integers, Sequences

CONSTANTS Responses,   \* responses in progress
          Writers,     \* compressors (sync.Pool makes one whenever it has none)
          None,        \* nil
          MinLength,   \* cfg.MinLength
          MaxBytes     \* bound on the length of a body

ASSUME GzipConfig ==
  /\ None \notin Responses \cup Writers
  /\ MinLength \in Nat /\ MaxBytes \in Nat

VARIABLES pc,          \* idle, serving, closing, putting, done
          accepts,     \* acceptsGzip(request)
          listed,      \* matchContentType(the handler's Content-Type)
          encoded,     \* the handler's body already has Content-Encoding: gzip
          declared,    \* the handler sets Content-Length
          written,     \* bytes the handler passed to Write
          panicked,    \* Write dereferenced a nil compressor
          buf, gz, status, activated, headersSent,    \* gzipResponseWriter
          header,      \* Content-Encoding and Content-Length in the wrapped writer's map
          head,        \* status line and these headers once they are sent
          wire,        \* body bytes the wrapped writer got, compression undone
          pool,        \* compressors in the pool
          sink,        \* the response a compressor writes to
          pending      \* bytes a compressor has taken and not yet emitted

kind == <<accepts, listed, encoded, declared>>
handler == <<kind, written, panicked>>
local == <<buf, gz, status, activated, headersSent>>
out == <<header, head, wire>>
shared == <<pool, sink, pending>>
vars == <<pc, handler, local, out, shared>>

Unsent == [status |-> 0, encoding |-> "unsent", length |-> FALSE]
Gzipped == [encoding |-> "gzip", length |-> FALSE]

Init ==
  /\ pc = [r \in Responses |-> "idle"]
  /\ accepts \in [Responses -> BOOLEAN]
  /\ listed \in [Responses -> BOOLEAN]
  /\ encoded \in [Responses -> BOOLEAN]
  /\ declared \in [Responses -> BOOLEAN]
  /\ written = [r \in Responses |-> <<>>]
  /\ panicked = [r \in Responses |-> FALSE]
  /\ buf = [r \in Responses |-> <<>>]
  /\ gz = [r \in Responses |-> None]
  /\ status = [r \in Responses |-> 0]
  /\ activated = [r \in Responses |-> FALSE]
  /\ headersSent = [r \in Responses |-> FALSE]
  /\ header = [r \in Responses |-> [encoding |-> IF encoded[r] THEN "gzip" ELSE "identity",
                                   length |-> declared[r]]]
  /\ head = [r \in Responses |-> Unsent]
  /\ wire = [r \in Responses |-> <<>>]
  /\ pool = Writers
  /\ sink = [w \in Writers |-> None]
  /\ pending = [w \in Writers |-> <<>>]

Goto(r, label) == pc' = [pc EXCEPT ![r] = label]

\* The next n bytes of the body of r.
Chunk(r, n) == [k \in 1..n |-> <<r, Len(written[r]) + k>>]

\* The wrapped http.ResponseWriter: the first header wins, and a Write without
\* one sends 200.
SendHead(hd, code, h) ==
  IF hd = Unsent THEN [status |-> code, encoding |-> h.encoding, length |-> h.length] ELSE hd
-----------------------------------------------------------------------------
\* Gzip's handler function: the handler runs behind a new gzipResponseWriter, or
\* behind the plain writer when the client does not accept gzip.
Begin(r) ==
  /\ pc[r] = "idle"
  /\ Goto(r, "serving")
  /\ UNCHANGED <<handler, local, out, shared>>

\* gzipResponseWriter.WriteHeader, or the plain one.
WriteHeader(r, code) ==
  /\ pc[r] = "serving" /\ status[r] = 0 /\ written[r] = <<>>
  /\ status' = [status EXCEPT ![r] = code]
  /\ head' = IF accepts[r] THEN head
             ELSE [head EXCEPT ![r] = SendHead(@, code, header[r])]
  /\ UNCHANGED <<pc, handler, buf, gz, activated, headersSent, header, wire, shared>>

\* Write to the plain writer.
WritePlain(r, b) ==
  /\ ~accepts[r]
  /\ head' = [head EXCEPT ![r] = SendHead(@, 200, header[r])]
  /\ wire' = [wire EXCEPT ![r] = @ \o b]
  /\ UNCHANGED <<pc, panicked, local, header, shared>>

\* Write before activation: the bytes are only buffered.
WriteBuffered(r, b) ==
  /\ accepts[r] /\ ~activated[r]
  /\ Len(buf[r] \o b) < MinLength
  /\ buf' = [buf EXCEPT ![r] = @ \o b]
  /\ UNCHANGED <<pc, panicked, gz, status, activated, headersSent, out, shared>>

\* gz.Write: a compressor emits nothing yet, or all it has.
Compress(w, b) ==
  \/ /\ pending' = [pending EXCEPT ![w] = @ \o b]
     /\ UNCHANGED <<head, wire>>
  \/ /\ pending' = [pending EXCEPT ![w] = <<>>]
     /\ head' = [head EXCEPT ![sink[w]] = SendHead(@, 200, header[sink[w]])]
     /\ wire' = [wire EXCEPT ![sink[w]] = @ \o pending[w] \o b]

\* Write after activation with a compressor.
WriteCompressed(r, b) ==
  /\ accepts[r] /\ activated[r] /\ gz[r] # None
  /\ Compress(gz[r], b)
  /\ UNCHANGED <<pc, panicked, local, header, pool, sink>>

\* Write after activation without one: g.gz is nil, the call panics and the
\* deferred close runs.
WritePanics(r, b) ==
  /\ accepts[r] /\ activated[r] /\ gz[r] = None
  /\ panicked' = [panicked EXCEPT ![r] = TRUE]
  /\ Goto(r, "closing")
  /\ UNCHANGED <<local, out, shared>>

\* flushHeaders, as the new value of head.
flushHeaders(r, h) ==
  IF ~headersSent[r] /\ status[r] # 0
  THEN [head EXCEPT ![r] = SendHead(@, status[r], h)]
  ELSE head

\* Variant of ActivateGzip: the compressor is not reset to this response.
ActivateGzipUnreset(r, b) ==
  /\ listed[r]
  /\ \E w \in pool :
       LET to   == IF sink[w] = None THEN r ELSE sink[w]
           sent == flushHeaders(r, Gzipped)
       IN  /\ pool' = pool \ {w}
           /\ gz' = [gz EXCEPT ![r] = w]
           /\ header' = [header EXCEPT ![r] = Gzipped]
           /\ sink' = [sink EXCEPT ![w] = to]
           /\ \/ pending' = [pending EXCEPT ![w] = buf[r] \o b] /\ head' = sent /\ wire' = wire
              \/ /\ pending' = [pending EXCEPT ![w] = <<>>]
                 /\ head' = [sent EXCEPT ![to] = SendHead(@, 200, Gzipped)]
                 /\ wire' = [wire EXCEPT ![to] = @ \o buf[r] \o b]

\* activate with a listed content type: a compressor from the pool, reset to this
\* response; the headers; then the buffered bytes through the compressor.
ActivateGzip(r, b) ==
  /\ listed[r]
  /\ \E w \in pool :
       LET sent == flushHeaders(r, Gzipped)
       IN  /\ pool' = pool \ {w}
           /\ gz' = [gz EXCEPT ![r] = w]
           /\ header' = [header EXCEPT ![r] = Gzipped]
           /\ sink' = [sink EXCEPT ![w] = r]
           /\ \/ pending' = [pending EXCEPT ![w] = buf[r] \o b] /\ head' = sent /\ wire' = wire
              \/ /\ pending' = [pending EXCEPT ![w] = <<>>]
                 /\ head' = [sent EXCEPT ![r] = SendHead(@, 200, Gzipped)]
                 /\ wire' = [wire EXCEPT ![r] = @ \o buf[r] \o b]

\* activate with any other content type: the buffered bytes as they are.
ActivatePlain(r, b) ==
  /\ ~listed[r]
  /\ head' = [flushHeaders(r, header[r]) EXCEPT ![r] = SendHead(@, 200, header[r])]
  /\ wire' = [wire EXCEPT ![r] = @ \o buf[r] \o b]
  /\ UNCHANGED <<gz, header, shared>>

\* Write that fills the buffer up to MinLength: activate.
WriteActivates(r, b) ==
  /\ accepts[r] /\ ~activated[r]
  /\ Len(buf[r] \o b) >= MinLength
  /\ ActivateGzip(r, b) \/ ActivatePlain(r, b)
  /\ buf' = [buf EXCEPT ![r] = <<>>]
  /\ activated' = [activated EXCEPT ![r] = TRUE]
  /\ headersSent' = [headersSent EXCEPT ![r] = TRUE]
  /\ UNCHANGED <<pc, panicked, status>>

Write(r, n) ==
  /\ pc[r] = "serving"
  /\ Len(written[r]) + n <= MaxBytes
  /\ written' = [written EXCEPT ![r] = @ \o Chunk(r, n)]
  /\ \/ WritePlain(r, Chunk(r, n))
     \/ WriteBuffered(r, Chunk(r, n))
     \/ WriteActivates(r, Chunk(r, n))
     \/ WriteCompressed(r, Chunk(r, n))
     \/ WritePanics(r, Chunk(r, n))
  /\ UNCHANGED kind

\* The handler returns.
Return(r) ==
  /\ pc[r] = "serving"
  /\ Goto(r, IF accepts[r] THEN "closing" ELSE "done")
  /\ UNCHANGED <<handler, local, out, shared>>

\* close of a response that never reached MinLength.
CloseBuffered(r) ==
  /\ pc[r] = "closing" /\ ~activated[r]
  /\ headersSent' = [headersSent EXCEPT ![r] = TRUE]
  /\ head' = IF buf[r] = <<>> THEN flushHeaders(r, header[r])
             ELSE [flushHeaders(r, header[r]) EXCEPT ![r] = SendHead(@, 200, header[r])]
  /\ wire' = [wire EXCEPT ![r] = @ \o buf[r]]
  /\ Goto(r, "done")
  /\ UNCHANGED <<handler, buf, gz, status, activated, header, shared>>

\* close without a compressor.
ClosePlain(r) ==
  /\ pc[r] = "closing" /\ activated[r] /\ gz[r] = None
  /\ Goto(r, "done")
  /\ UNCHANGED <<handler, local, out, shared>>

\* g.gz.Close: the compressor emits the rest.
Drain(r) ==
  /\ pending' = [pending EXCEPT ![gz[r]] = <<>>]
  /\ head' = [head EXCEPT ![sink[gz[r]]] = SendHead(@, 200, header[sink[gz[r]]])]
  /\ wire' = [wire EXCEPT ![sink[gz[r]]] = @ \o pending[gz[r]]]
  /\ UNCHANGED header

\* close with a compressor, first step.
CloseGzip(r) ==
  /\ pc[r] = "closing" /\ gz[r] # None
  /\ Drain(r)
  /\ Goto(r, "putting")
  /\ UNCHANGED <<handler, local, pool, sink>>

\* Variant of PutGzip: the compressor is dropped from the response but not put.
PutGzipDropped(r) ==
  /\ pc[r] = "putting"
  /\ gz' = [gz EXCEPT ![r] = None]
  /\ Goto(r, "done")
  /\ UNCHANGED <<handler, buf, status, activated, headersSent, out, shared>>

\* close with a compressor, second step: pool.Put and g.gz = nil.
PutGzip(r) ==
  /\ pc[r] = "putting"
  /\ pool' = pool \cup {gz[r]}
  /\ gz' = [gz EXCEPT ![r] = None]
  /\ Goto(r, "done")
  /\ UNCHANGED <<handler, buf, status, activated, headersSent, out, sink, pending>>

\* One step of the goroutine of r; a handler that does not call WriteHeader sends 200.
Step(r) ==
  \/ Begin(r)
  \/ WriteHeader(r, 404)
  \/ \E n \in 1..MaxBytes : Write(r, n)
  \/ Return(r)
  \/ CloseBuffered(r) \/ ClosePlain(r) \/ CloseGzip(r) \/ PutGzip(r)

Next == \E r \in Responses : Step(r)

Spec == Init /\ [][Next]_vars
-----------------------------------------------------------------------------
\* The response went through a compressor.
Squeezed(r) == accepts[r] /\ activated[r] /\ listed[r]

\* A body that was encoded when it came was compressed again: activate sets
\* Content-Encoding without a look at the one that is there (gzip.go:87-90).
Recompressed(r) == encoded[r] /\ Squeezed(r)

\* Once the compression of this middleware is undone a body is what the handler wrote,
\* whichever compressor the bytes went through and whichever response used it before
\* (gzip.go:58-132): nothing is lost, repeated, reordered or sent to another
\* response, the status is the handler's, and a length is announced exactly when the
\* handler's still holds.  Content-Encoding says gzip exactly when the body is
\* gzip, of bodies that are not compressed a second time: the one label such a
\* body has does not say so.
Delivered ==
  \A r \in Responses :
    /\ Len(wire[r]) <= Len(written[r])
    /\ \A n \in DOMAIN wire[r] : wire[r][n] = written[r][n]
    /\ pc[r] = "done" /\ ~panicked[r] =>
         /\ wire[r] = written[r]
         /\ status[r] # 0 => head[r].status = status[r]
         /\ written[r] # <<>> =>
              /\ ~Recompressed(r) => (head[r].encoding = "gzip") = (Squeezed(r) \/ encoded[r])
              /\ head[r].length = (declared[r] /\ ~Squeezed(r))

\* "`sync.Pool` writer reuse" (README.md:145): a compressor is in the pool or in
\* the hands of exactly one response, so that none is shared and none is lost,
\* panics included (gzip.go:83-85, 126-130).
PoolConserved ==
  \A w \in Writers :
    IF w \in pool THEN \A r \in Responses : gz[r] # w
    ELSE \E r \in Responses : gz[r] = w /\ \A s \in Responses \ {r} : gz[s] # w

\* "compresses responses with gzip when the client supports it and the response
\* content-type matches the configured list" (gzip.go:13-14): a response of another
\* type is passed on in full, in however many Writes it comes.
PassedThrough ==
  \A r \in Responses : pc[r] = "done" /\ ~listed[r] => wire[r] = written[r]
=============================================================================
