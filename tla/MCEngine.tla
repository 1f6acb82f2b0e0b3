------------------------------ MODULE MCEngine ------------------------------
(***************************************************************************)
(* Small instances of Engine.                                              *)
(***************************************************************************)
EXTENDS Engine

\* Every upstream has the weight a configuration without weights gives it.
Even == [u \in Upstreams |-> 1]
=============================================================================
