---------------------------- MODULE MCMiddleware ----------------------------
(***************************************************************************)
(* Middleware on two concurrent responses.                                 *)
(***************************************************************************)
EXTENDS Middleware

\* Four kinds of response: to a client that does not accept gzip, and of a type that is
\* not listed, already encoded, or to be compressed; each announces its length.
MCInit ==
  /\ StackInit
  /\ \A r \in Responses : declared[r] /\ (encoded[r] => listed[r]) /\ (listed[r] => accepts[r])

MCSpec == MCInit /\ [][StackNext]_stack /\ StackFairness
=============================================================================
