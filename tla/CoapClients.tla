---------------------------- MODULE CoapClients ----------------------------
(***************************************************************************)
(* The two CoAP clients: CoapClient (binding-coap/src/coap-client.ts),     *)
(* each of whose requests makes an agent, and CoapsClient (coaps-client.ts)*)
(* for which the library keeps the keys of all clients by host.            *)
(*                                                                         *)
(* A step is the code between two awaits; what a message says is left out. *)
(***************************************************************************)
EXTENDS Naturals

CONSTANTS
    Clients,    \* instances of CoapsClient
    Key,        \* the key that each of them has been given, or None
    Hosts,
    Requests,   \* of CoapsClient
    Calls,      \* of one CoapClient
    None

VARIABLES
    params,     \* the library's security parameters by host
    requests,   \* of CoapsClient
    calls,      \* of CoapClient
    agent,      \* the call whose agent the CoapClient has, None: the first one
    closed      \* the calls whose agent stop() has closed

vars == <<params, requests, calls, agent, closed>>

NewRequest == [stage |-> "unused", client |-> None, host |-> None, used |-> None, raced |-> FALSE]
NewCall == [stage |-> "unused", kind |-> None, body |-> FALSE]

Init ==
    /\ params = [h \in Hosts |-> None]
    /\ requests = [r \in Requests |-> NewRequest]
    /\ calls = [c \in Calls |-> NewCall]
    /\ agent = None /\ closed = {}

-----------------------------------------------------------------------------
(* CoapsClient                                                             *)

\* Mutant: the key of a host is set once.
KeyOfFirst(client, host) == IF params[host] # None THEN params[host] ELSE Key[client]

\* setSecurityParams; without a key what is there is left.
KeyFor(client, host) == IF Key[client] = None THEN params[host] ELSE Key[client]

\* Requests of other clients that await their content.
Overtaken(client, host) ==
    {r \in Requests : /\ requests[r].stage = "buffering"
                      /\ requests[r].host = host /\ requests[r].client # client}

\* generateRequest: the key is set, and then the content awaited.
Generate(r, client, host) ==
    /\ requests[r].stage = "unused"
    /\ params' = [params EXCEPT ![host] = KeyFor(client, host)]
    /\ requests' = [q \in Requests |->
          IF q = r THEN [NewRequest EXCEPT !.stage = "buffering", !.client = client, !.host = host]
          ELSE IF q \in Overtaken(client, host) THEN [requests[q] EXCEPT !.raced = TRUE] ELSE requests[q]]
    /\ UNCHANGED <<calls, agent, closed>>

\* subscribeResource sets the key and observes without an await; what two
\* observe at one address ends for both when one of them stops.
Observe(r, client, host) ==
    /\ requests[r].stage = "unused"
    /\ params' = [params EXCEPT ![host] = KeyFor(client, host)]
    /\ requests' = [q \in Requests |->
          IF q = r THEN [NewRequest EXCEPT !.stage = "sent", !.client = client, !.host = host,
                                          !.used = KeyFor(client, host)]
          ELSE IF q \in Overtaken(client, host) THEN [requests[q] EXCEPT !.raced = TRUE] ELSE requests[q]]
    /\ UNCHANGED <<calls, agent, closed>>

\* The content is there, or its stream failed.
Send(r) ==
    /\ requests[r].stage = "buffering"
    /\ \E stage \in {"sent", "thrown"} :
          requests' = [requests EXCEPT ![r] = [@ EXCEPT !.stage = stage, !.used = params[requests[r].host]]]
    /\ UNCHANGED <<params, calls, agent, closed>>

Answered(r) ==
    /\ requests[r].stage = "sent"
    /\ \E stage \in {"done", "thrown"} : requests' = [requests EXCEPT ![r].stage = stage]
    /\ UNCHANGED <<params, calls, agent, closed>>

-----------------------------------------------------------------------------
(* CoapClient                                                              *)

Kinds == {"read", "write", "invoke", "unlink", "subscribe", "describe"}

\* writeResource awaits its content and then makes the request, the others
\* make it at once; invokeResource awaits its content afterwards.
Begin(c, kind, body) ==
    /\ calls[c].stage = "unused" /\ (body => kind = "invoke")
    /\ calls' = [calls EXCEPT ![c] = [stage |-> CASE kind = "write" -> "buffering"
                                                 [] body -> "streaming"
                                                 [] OTHER -> "sent",
                                      kind |-> kind, body |-> body]]
    /\ agent' = IF kind = "write" THEN agent ELSE c
    /\ UNCHANGED <<params, requests, closed>>

\* The content of writeResource
Buffered(c) ==
    /\ calls[c].stage = "buffering"
    /\ \/ /\ calls' = [calls EXCEPT ![c].stage = "sent"] /\ agent' = c
       \/ /\ calls' = [calls EXCEPT ![c].stage = "thrown"] /\ UNCHANGED agent
    /\ UNCHANGED <<params, requests, closed>>

\* The content of invokeResource: that it failed nobody handles, and the
\* promise of the call does not settle.
Streamed(c) ==
    /\ calls[c].stage = "streaming"
    /\ \E stage \in {"sent", "uncaught"} : calls' = [calls EXCEPT ![c].stage = stage]
    /\ UNCHANGED <<params, requests, agent, closed>>

Response(c) ==
    /\ calls[c].stage = "sent" /\ c \notin closed
    /\ calls' = [calls EXCEPT ![c].stage = IF calls[c].kind = "subscribe" THEN "active" ELSE "done"]
    /\ UNCHANGED <<params, requests, agent, closed>>

\* Mutant: as for a subscription, only a callback is called.
ErrorUntold(call) == IF call.kind = "subscribe" THEN "waiting" ELSE "hung"
\* A subscription's promise is left as it is, its error callback is called.
AfterError(call) == IF call.kind = "subscribe" THEN "waiting" ELSE "thrown"

Error(c) ==
    /\ calls[c].stage = "sent" /\ c \notin closed
    /\ calls' = [calls EXCEPT ![c].stage = AfterError(calls[c])]
    /\ UNCHANGED <<params, requests, agent, closed>>

\* Subscription.unsubscribe; unlinkResource does not end one.
Unsubscribe(c) ==
    /\ calls[c].stage = "active"
    /\ calls' = [calls EXCEPT ![c].stage = "ended"]
    /\ UNCHANGED <<params, requests, agent, closed>>

\* stop() closes one agent, the last.
Stop ==
    /\ closed' = closed \cup {agent}
    /\ UNCHANGED <<params, requests, calls, agent>>

Keys ==
    \E r \in Requests :
          \/ \E client \in Clients, host \in Hosts : Generate(r, client, host) \/ Observe(r, client, host)
          \/ Send(r) \/ Answered(r)

Exchanges ==
    \/ \E c \in Calls :
          \/ \E kind \in Kinds, body \in BOOLEAN : Begin(c, kind, body)
          \/ Buffered(c) \/ Streamed(c) \/ Response(c) \/ Error(c) \/ Unsubscribe(c)
    \/ Stop

Next == Keys \/ Exchanges

\* Content arrives or fails; a request is answered, or the library gives it up.
Fairness ==
    \A c \in Calls : WF_vars(Buffered(c) \/ Streamed(c) \/ Response(c) \/ Error(c))

Spec == Init /\ [][Next]_vars /\ Fairness

-----------------------------------------------------------------------------
(* Properties                                                              *)

\* A request goes out with the key of its client, unless one of another client
\* to the same host was begun while its content was awaited.  One of a client
\* without a key goes out with that of another.
KeyIsOwn ==
    \A r \in Requests :
        requests[r].stage \in {"sent", "done"} /\ ~requests[r].raced /\ Key[requests[r].client] # None
        => requests[r].used = Key[requests[r].client]

Settled(call) == call.stage \in {"done", "thrown", "active", "ended"}

\* The promises that are known not to settle: of an action whose content
\* failed, and of a subscription that was answered with an error.
LeftOpen(call) ==
    \/ call.kind = "invoke" /\ call.stage = "uncaught"
    \/ call.kind = "subscribe" /\ call.stage = "waiting"

\* Keys do not mix; and the promise of each call settles, but for the two
\* that are known not to, and for a call whose agent stop() has closed while
\* it waited.  This is about setSecurityParams, which is called before an
\* await and counts after it, and about the listeners on each request.
CoapRequestsSettle ==
    /\ []KeyIsOwn
    /\ \A c \in Calls :
          calls[c].stage # "unused" ~>
              Settled(calls[c]) \/ LeftOpen(calls[c]) \/ (calls[c].stage = "sent" /\ c \in closed)
=============================================================================
