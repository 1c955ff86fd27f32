----------------------------- MODULE MCRuntime -----------------------------
(* Instances of Runtime for TLC.  The packages are modelled on those of    *)
(* my_bindings: a binding with both roles (new-tcp-binding), ones that     *)
(* bring a server (http-binding, coap-binding) or a client only, and       *)
(* faulty ones (wrong-binding and others that fail at a later step).       *)
EXTENDS Runtime, TLC

CONSTANTS a, b, new, coap, http

Plain(id, scheme, roles) ==
    [id |-> id, valid |-> TRUE, schemes |-> {scheme}, roles |-> roles, requires |-> {},
     loads |-> TRUE,
     factory |-> IF "client" \in roles THEN "ok" ELSE "none", clientScheme |-> scheme,
     server |-> IF "server" \in roles THEN "ok" ELSE "none", serverScheme |-> scheme,
     drains |-> TRUE]

Tcp == Plain(a, new, {"client", "server"})
TcpNext == Plain(a, coap, {"client"})
Rival == [Plain(b, new, {"server"}) EXCEPT !.requires = {<<http, "server">>}]
OverNew == [Plain(b, coap, {"client"}) EXCEPT !.requires = {<<new, "client">>}]
Coap == [Plain(b, coap, {"server"}) EXCEPT !.drains = FALSE]
WrongBinding == [Plain(b, coap, {"client"}) EXCEPT !.factory = "invalid"]
FailsToInit == [Plain(a, new, {"client"}) EXCEPT !.factory = "initFails"]
WrongServer == [Plain(b, new, {"client", "server"}) EXCEPT !.server = "invalid"]
CannotExpose == [Plain(b, coap, {"client", "server"}) EXCEPT !.server = "exposeThrows"]
NoExport == [Plain(a, coap, {"client"}) EXCEPT !.loads = FALSE]
Malformed == [Plain(a, coap, {"client"}) EXCEPT !.valid = FALSE]
Empty == [Plain(b, coap, {"client"}) EXCEPT !.factory = "none"]

AllPackages == {Tcp, TcpNext, Rival, OverNew, Coap, WrongBinding, FailsToInit,
                WrongServer, CannotExpose, NoExport, Malformed, Empty}
OverlapPackages == {Tcp, TcpNext, Rival, CannotExpose}
OnePackage == {Tcp}
ClientPackage == {TcpNext}
TwoTcp == {Tcp, Plain(b, coap, {"client", "server"})}

Symmetric == Permutations(Requests)
=============================================================================
