--------------------------- MODULE NetconfClient ---------------------------
(***************************************************************************)
(* The client of binding-netconf (netconf-client.ts) over the promises of  *)
(* async-node-netconf.ts: one router, the connection to a device, which    *)
(* the first request opens.  A step is the code between two awaits.        *)
(***************************************************************************)
EXTENDS Naturals, SequencesExt

CONSTANTS
    Hosts,
    Calls,      \* the requests of one behaviour: they read, write or invoke
    MaxRouters, \* bound on the routers opened
    None

VARIABLES
    router,     \* the router in use, or None
    connected,
    params,     \* routerParams: a host, or None
    routers,    \* all there ever were: [host, stage]
    calls,
    overlapped  \* a request has begun while another one opened a router

vars == <<router, connected, params, routers, calls, overlapped>>

NewCall == [stage |-> "unused", host |-> None, via |-> None]

Init ==
    /\ router = None /\ connected = FALSE /\ params = None
    /\ routers = <<>>
    /\ calls = [c \in Calls |-> NewCall]
    /\ overlapped = FALSE

\* closeRouter: whether or not there is one, nothing counts as connected.
Closed(all) == IF router = None THEN all ELSE [all EXCEPT ![router].stage = "closed"]

\* Mutant: a router that could not be opened is kept.
KeptRouter(failed) == router
\* deleteRouter, whichever router that is by now.
DeletedRouter(failed) == None

Opening == {c \in Calls : calls[c].stage \in {"initializing", "opening"}}

\* Rpc: over the router of the client, whatever became of it.
Sent(call) ==
    IF router = None THEN [call EXCEPT !.stage = "thrown"] ELSE [call EXCEPT !.stage = "sent", !.via = router]

\* readResource, writeResource and invokeResource: only without a router is
\* one opened.  initializeRouter may read the key from a file.
Request(c, host) ==
    /\ calls[c].stage = "unused"
    /\ IF router # None
       THEN /\ calls' = [calls EXCEPT ![c] = Sent([@ EXCEPT !.host = host])]
            /\ UNCHANGED <<connected, params>>
       ELSE /\ calls' = [calls EXCEPT ![c] = [@ EXCEPT !.stage = "initializing", !.host = host]]
            /\ connected' = FALSE
            /\ params' = host
    /\ overlapped' = (overlapped \/ Opening # {})
    /\ UNCHANGED <<router, routers>>

KeyMissing(c) ==
    /\ calls[c].stage = "initializing"
    /\ calls' = [calls EXCEPT ![c].stage = "thrown"]
    /\ router' = DeletedRouter(c)
    /\ UNCHANGED <<connected, params, routers, overlapped>>

\* openRouter: what is connected is closed, what is being opened is not.
OpenRouter(c) ==
    /\ calls[c].stage = "initializing" /\ Len(routers) < MaxRouters
    /\ routers' = Append(IF connected THEN Closed(routers) ELSE routers, [host |-> params, stage |-> "opening"])
    /\ router' = Len(routers')
    /\ connected' = FALSE
    /\ calls' = [calls EXCEPT ![c] = [@ EXCEPT !.stage = "opening", !.via = Len(routers')]]
    /\ UNCHANGED <<params, overlapped>>

\* The callback of open(): the request goes on, but over what is the router now.
Opened(c) ==
    /\ calls[c].stage = "opening"
    /\ routers' = [routers EXCEPT ![calls[c].via].stage = IF @ = "opening" THEN "open" ELSE @]
    /\ connected' = TRUE
    /\ calls' = [calls EXCEPT ![c] = Sent(@)]
    /\ UNCHANGED <<router, params, overlapped>>

OpenFails(c) ==
    /\ calls[c].stage = "opening"
    /\ routers' = [routers EXCEPT ![calls[c].via].stage = "failed"]
    /\ calls' = [calls EXCEPT ![c].stage = "thrown"]
    /\ router' = DeletedRouter(c)
    /\ UNCHANGED <<connected, params, overlapped>>

Answered(c) ==
    /\ calls[c].stage = "sent"
    /\ \E stage \in {"done", "thrown"} : calls' = [calls EXCEPT ![c].stage = stage]
    /\ UNCHANGED <<router, connected, params, routers, overlapped>>

Next ==
    \E c \in Calls :
        \/ \E h \in Hosts : Request(c, h)
        \/ KeyMissing(c) \/ OpenRouter(c) \/ Opened(c) \/ OpenFails(c)
        \/ Answered(c)

Spec == Init /\ [][Next]_vars

-----------------------------------------------------------------------------
(* Properties                                                              *)

\* As long as no request begins while another one opens the router, there is
\* one open router, which is the one in use, and all requests of a client
\* that is used for one device go over it.  With two devices the requests to
\* the second one go to the first.  This is about the test of getRouter() for
\* null, which two awaits part from where the router is set.
OneRouter ==
    overlapped \/
        /\ \A r \in DOMAIN routers : routers[r].stage = "open" => router = r
        /\ \A c \in Calls :
              calls[c].stage = "sent" =>
                 /\ routers[calls[c].via].stage = "open"
                 /\ \/ routers[calls[c].via].host = calls[c].host
                    \/ \E d \in Calls : calls[d].host \notin {None, calls[c].host}
=============================================================================
