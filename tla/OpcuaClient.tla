---------------------------- MODULE OpcuaClient ----------------------------
(***************************************************************************)
(* The OPC UA client (binding-opcua/src/opcua-protocol-client.ts): one     *)
(* connection to each endpoint, that all calls share from when it is asked *)
(* for, and one monitored item for each node that is subscribed to.        *)
(*                                                                         *)
(* A step is the code between two awaits.  What the calls carry, and how a *)
(* connection is secured, is left out.                                     *)
(***************************************************************************)
EXTENDS Naturals, SequencesExt

CONSTANTS
    Endpoints, Nodes,
    Calls,          \* the calls of one behaviour
    MaxConnections, MaxStops,   \* bounds
    None

VARIABLES
    connections,    \* all promises of _createConnection, in order
    cached,         \* _connections: which of them an endpoint has, or None
    items,          \* all monitored items, see NewItem
    monitored,      \* _monitoredItems: which of them a node has, or None
    calls,
    stopping,       \* stop(): how far it is
    stops,
    raced           \* nodes for which two items were asked for at once

vars == <<connections, cached, items, monitored, calls, stopping, stops, raced>>

\* late: the connection was asked for while stop() was under way, or stop()
\* failed to close it.
NewConnection(e) == [endpoint |-> e, stage |-> "opening", late |-> stopping.stage # "no"]

\* kind: "use" for read, write and invoke, or "subscribe" or "unlink";
\* waits: the connection it waits for; on: the one whose session it has got.
NewCall == [stage |-> "unused", kind |-> None, endpoint |-> None, node |-> None, waits |-> None, on |-> None]

\* cut: its handlers when _unmonitor took its entry; stray: its termination
\* failed then; stopped: stop() ended the subscription that it was in.
NewItem(k, c) ==
    [connection |-> k, live |-> TRUE, handlers |-> {c}, cut |-> {}, stray |-> FALSE, stopped |-> FALSE]

Idle == [stage |-> "no", left |-> <<>>]

Init ==
    /\ connections = <<>> /\ cached = [e \in Endpoints |-> None]
    /\ items = <<>> /\ monitored = [n \in Nodes |-> None]
    /\ calls = [c \in Calls |-> NewCall]
    /\ stopping = Idle /\ stops = 0
    /\ raced = {}

-----------------------------------------------------------------------------
(* Connections                                                             *)

\* _withConnection, up to where it waits: for the connection that the
\* endpoint has or a new one.
WithConnection(c, call) ==
    LET e == call.endpoint
        new == cached[e] = None
        k == IF new THEN Len(connections) + 1 ELSE cached[e]
    IN  /\ new => Len(connections) < MaxConnections
        /\ connections' = IF new THEN Append(connections, NewConnection(e)) ELSE connections
        /\ cached' = [cached EXCEPT ![e] = k]
        /\ calls' = [calls EXCEPT ![c] = [call EXCEPT !.waits = k]]
        /\ UNCHANGED <<items, monitored, stopping, stops, raced>>

\* Mutant: what failed is evicted, even if another connection has its place.
EvictedAny(k) == [cached EXCEPT ![connections[k].endpoint] = None]

Evicted(k) == [cached EXCEPT ![connections[k].endpoint] = IF @ = k THEN None ELSE @]

Waits(c, k) == calls[c].waits = k /\ calls[c].stage \in {"connecting", "resolving"}

\* Session and subscription are there.
Opened(k) ==
    /\ connections[k].stage = "opening"
    /\ connections' = [connections EXCEPT ![k].stage = "open"]
    /\ UNCHANGED <<cached, items, monitored, calls, stopping, stops, raced>>

\* A step of _createConnection fails: the client disconnects, and all that
\* wait for it fail, among them stop(), which then closes nothing.
ConnectionFails(k) ==
    /\ connections[k].stage = "opening"
    /\ connections' = [connections EXCEPT ![k].stage = "failed"]
    /\ cached' = Evicted(k)
    /\ calls' = [c \in Calls |-> IF Waits(c, k) THEN [calls[c] EXCEPT !.stage = "thrown"] ELSE calls[c]]
    /\ stopping' = IF stopping.stage = "waiting" /\ Contains(stopping.left, k) THEN Idle ELSE stopping
    /\ UNCHANGED <<items, monitored, stops, raced>>

-----------------------------------------------------------------------------
(* Calls                                                                   *)

Begin(c, kind, e, n) ==
    /\ calls[c].stage = "unused"
    /\ WithConnection(c, [NewCall EXCEPT !.stage = "connecting", !.kind = kind, !.endpoint = e, !.node = n])

Ready(c, stage) == calls[c].stage = stage /\ connections[calls[c].waits].stage \notin {"opening", "failed"}

\* _resolveNodeId asks for the namespaces, over the connection that the
\* endpoint has by then.
ResolveNodeId(c) ==
    /\ Ready(c, "connecting")
    /\ WithConnection(c, [calls[c] EXCEPT !.stage = "resolving", !.on = calls[c].waits])

Others == <<connections, cached, stopping, stops>>

\* The node cannot be resolved, or the service fails or has a bad status; a
\* monitored item can also be refused.
CallFails(c) ==
    /\ Ready(c, "resolving") \/ calls[c].stage = "monitoring"
    /\ calls' = [calls EXCEPT ![c].stage = "thrown"]
    /\ UNCHANGED <<Others, items, monitored, raced>>

\* readResource, writeResource and invokeResource, over an open connection.
UseSession(c) ==
    /\ Ready(c, "resolving") /\ calls[c].kind = "use" /\ connections[calls[c].on].stage = "open"
    /\ calls' = [calls EXCEPT ![c].stage = "done"]
    /\ UNCHANGED <<Others, items, monitored, raced>>

\* subscribeResource: an item that is there is shared, be it of another
\* endpoint or dead.
Subscribe(c) ==
    LET n == calls[c].node IN
    /\ Ready(c, "resolving") /\ calls[c].kind = "subscribe"
    /\ IF monitored[n] # None
       THEN /\ calls' = [calls EXCEPT ![c].stage = "active"]
            /\ items' = [items EXCEPT ![monitored[n]].handlers = @ \cup {c}]
            /\ UNCHANGED raced
       ELSE /\ calls' = [calls EXCEPT ![c].stage = "monitoring"]
            /\ raced' = IF \E d \in Calls : calls[d].stage = "monitoring" /\ calls[d].node = n
                        THEN raced \cup {n} ELSE raced
            /\ UNCHANGED items
    /\ UNCHANGED <<Others, monitored>>

\* subscription.monitor() resolves.
Monitored(c) ==
    /\ calls[c].stage = "monitoring" /\ connections[calls[c].on].stage = "open"
    /\ items' = Append(items, NewItem(calls[c].on, c))
    /\ monitored' = [monitored EXCEPT ![calls[c].node] = Len(items')]
    /\ calls' = [calls EXCEPT ![c].stage = "active"]
    /\ UNCHANGED <<Others, raced>>

\* Mutant: the entry stays.
ForgottenNot(n) == monitored

Forgotten(n) == [monitored EXCEPT ![n] = None]

\* terminate(), which may reject, and the item then be alive.
Terminated(item, live) == [item EXCEPT !.live = @ /\ live, !.cut = item.handlers, !.stray = live]

\* _unmonitor, for whomever the item is: the entry goes, then terminate() is
\* awaited.
Unmonitor(n, done) ==
    /\ monitored' = Forgotten(n)
    /\ IF monitored[n] = None THEN done /\ UNCHANGED items
       ELSE \E live \in {FALSE, ~done} :
               items' = [items EXCEPT ![monitored[n]] = Terminated(@, live)]

Unsubscribe(c) ==
    /\ calls[c].stage = "active"
    /\ \E done \in BOOLEAN : Unmonitor(calls[c].node, done)
    /\ calls' = [calls EXCEPT ![c].stage = "ended"]
    /\ UNCHANGED <<Others, raced>>

UnlinkResource(c) ==
    /\ Ready(c, "resolving") /\ calls[c].kind = "unlink"
    /\ \E done \in BOOLEAN :
          /\ Unmonitor(calls[c].node, done)
          /\ calls' = [calls EXCEPT ![c].stage = IF done THEN "done" ELSE "thrown"]
    /\ UNCHANGED <<Others, raced>>

-----------------------------------------------------------------------------
(* The end, after which the client can be used all the same                *)

Stop ==
    /\ stopping = Idle /\ stops < MaxStops
    /\ stopping' = [stage |-> "waiting", left |-> SetToSeq(Range(cached) \ {None})]
    /\ stops' = stops + 1
    /\ UNCHANGED <<connections, cached, items, monitored, calls, raced>>

AllConnected ==
    /\ stopping.stage = "waiting"
    /\ \A k \in Range(stopping.left) : connections[k].stage # "opening"
    /\ stopping' = [stopping EXCEPT !.stage = "closing"]
    /\ UNCHANGED <<connections, cached, items, monitored, calls, stops, raced>>

\* The items of a subscription that is terminated.
WithoutItemsOf(k) ==
    [i \in DOMAIN items |->
        IF items[i].connection = k
        THEN [items[i] EXCEPT !.live = FALSE, !.stopped = @ \/ items[i].live]
        ELSE items[i]]

\* The subscription, the session and the client, one after the other: where
\* one fails the rest is left.
CloseNext ==
    LET k == Head(stopping.left) IN
    /\ stopping.stage = "closing" /\ stopping.left # <<>>
    /\ stopping' = [stopping EXCEPT !.left = Tail(@)]
    /\ \/ /\ connections' = [connections EXCEPT ![k].stage = "closed"]
          /\ items' = WithoutItemsOf(k)
       \/ /\ connections' = [connections EXCEPT ![k].late = TRUE]
          /\ items' \in {items, WithoutItemsOf(k)}
    /\ UNCHANGED <<cached, monitored, calls, stops, raced>>

Stopped ==
    /\ stopping.stage = "closing" /\ stopping.left = <<>>
    /\ stopping' = Idle
    /\ cached' = [e \in Endpoints |-> None]
    /\ UNCHANGED <<connections, items, monitored, calls, stops, raced>>

Next ==
    \/ \E c \in Calls :
          \/ \E kind \in {"use", "subscribe", "unlink"}, e \in Endpoints, n \in Nodes : Begin(c, kind, e, n)
          \/ ResolveNodeId(c) \/ CallFails(c) \/ UseSession(c)
          \/ Subscribe(c) \/ Monitored(c) \/ Unsubscribe(c) \/ UnlinkResource(c)
    \/ \E k \in DOMAIN connections : Opened(k) \/ ConnectionFails(k)
    \/ Stop \/ AllConnected \/ CloseNext \/ Stopped

Spec == Init /\ [][Next]_vars

-----------------------------------------------------------------------------
(* Properties                                                              *)

\* A connection that is open can be found by the next call and by stop(),
\* unless it was asked for while stop() was under way, which forgets it, or
\* stop() could not close it.  This is about the cache of promises, out of
\* which a failed connection is taken and stop() takes all.
OpenIsCached ==
    \A k \in DOMAIN connections :
        connections[k].stage = "open" => cached[connections[k].endpoint] = k \/ connections[k].late

\* A subscription that has ended hears no more, unless the termination of its
\* item failed, or two were begun for the node at once, since the item of the
\* first of them cannot be terminated by anybody.  One that has not ended
\* hears the node, unless its item was terminated by a call for the node when
\* it had joined already, which ends all that share the item, or was ended by
\* stop(), which keeps the entry of the item, for later ones to join.  This
\* is about _monitoredItems, which is read before monitor() is awaited and
\* set after, and whose entries go before their items are terminated.
HearsWhileActive ==
    \A c \in Calls :
        LET own == {items[i] : i \in {j \in DOMAIN items : c \in items[j].handlers}} IN
        /\ calls[c].stage = "ended" /\ calls[c].node \notin raced =>
              \A item \in own : item.live => item.stray
        /\ calls[c].stage = "active" =>
              \E item \in own : item.live \/ c \in item.cut \/ item.stopped
=============================================================================
