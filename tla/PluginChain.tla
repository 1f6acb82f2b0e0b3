---------------------------- MODULE PluginChain -----------------------------
(***************************************************************************)
(* The plugins a request runs through: router.New puts the global ones     *)
(* around the router in the order of the configuration, and                *)
(* Gateway.buildPluginChain wraps a route's engine from the last plugin to *)
(* the first (internal/router/router.go, internal/proxy/gateway.go).       *)
(*                                                                         *)
(* A handler is the sequence of the entries a request meets in it, the     *)
(* outermost first; an entry is given by its place in its list.            *)
(***************************************************************************)
EXTENDS Plugins

\* Registry.Get.
Registered(name) == name \in Registry

\* Not skipped: enabled, registered, and New returns no error.
Usable(pc) == pc.Enabled /\ Registered(pc.Name) /\ New(pc)

\* The loop of router.New over the global list: r.Use adds inside what is there.
UseGlobal(list) ==
  Loop(LAMBDA handler, n : IF Usable(list[n]) THEN Append(handler, n) ELSE handler,
           <<>>, [k \in 1..Len(list) |-> k])

\* Variant of Wrapped: the middleware goes inside the handler.
WrappedInside(n, handler) == Append(handler, n)

\* mw(handler).
Wrapped(n, handler) == <<n>> \o handler

\* The loop of buildPluginChain, from the last entry to the first.
buildPluginChain(list) ==
  Loop(LAMBDA handler, n : IF Usable(list[n]) THEN Wrapped(n, handler) ELSE handler,
           <<>>, [k \in 1..Len(list) |-> Len(list) + 1 - k])
=============================================================================
