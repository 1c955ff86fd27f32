----------------------------- MODULE MCBindings -----------------------------
(***************************************************************************)
(* Parts of the protocol bindings that are independent of each other: the  *)
(* HTTP server, with a request to a Thing of every kind of security; the   *)
(* HTTP client, with requests that share a credential or with two          *)
(* subscriptions; the clients for OPC UA, NETCONF, M-Bus and CoAP; the     *)
(* subscriptions of the Modbus client; and the binding for TCP.            *)
(***************************************************************************)
EXTENDS HttpRoutes

CONSTANTS Metadata, Rotating, MaxTokens, Calls, Subscriptions, Hrefs, MaxEvents,
          Endpoints, Nodes, OpcuaCalls, MaxConnections, MaxStops,
          Hosts, NetconfCalls, MaxRouters,
          Ops, MaxRetries,
          Clients, CoapHosts, CoapRequests, CoapCalls,
          Ids, MaxPolls, MaxReads,
          Things, Addresses, MaxForms, MaxEntries, TcpCalls, Chunks

VARIABLES side, credential, valid, refreshable, issued, requests, doubled, subs, active,
          connections, cached, items, monitored, opcuaCalls, stopping, stops, raced,
          router, connected, params, routers, netconfCalls, overlapped,
          queue, current, linked, timer, waiting, op,
          keys, coapRequests, coapCalls, agent, closed,
          polls, subscriptions,
          server, entries, forms, tcpCalls, died

clientVars == <<credential, valid, refreshable, issued, requests, doubled, subs, active>>
opcuaVars == <<connections, cached, items, monitored, opcuaCalls, stopping, stops, raced>>
netconfVars == <<router, connected, params, routers, netconfCalls, overlapped>>
mbusVars == <<queue, current, linked, timer, waiting, op>>
coapVars == <<keys, coapRequests, coapCalls, agent, closed>>
pollVars == <<polls, subscriptions>>
tcpVars == <<server, entries, forms, tcpCalls, died>>

ASSUME BindingsAssumption ==
    /\ None \notin Nat \cup Subscriptions \cup Hrefs \cup Hosts \cup Nodes
    /\ IsFiniteSet(Endpoints)

MCUnit == [o \in Ops |-> IF o = 1 THEN 2 ELSE 1]
MCKey == [c \in Clients |-> c]
MCSlug == [t \in Things |-> <<"title">>]

Client == INSTANCE HttpClient WITH Requests <- Calls
Opcua == INSTANCE OpcuaClient WITH Calls <- OpcuaCalls, calls <- opcuaCalls
Netconf == INSTANCE NetconfClient WITH Calls <- NetconfCalls, calls <- netconfCalls
Mbus == INSTANCE MbusConnection WITH Unit <- MCUnit, connected <- linked
Coap == INSTANCE CoapClients WITH Key <- MCKey, Hosts <- CoapHosts, Requests <- CoapRequests,
            Calls <- CoapCalls, params <- keys, requests <- coapRequests, calls <- coapCalls
Modbus == INSTANCE ModbusPolling
Tcp == INSTANCE TcpBinding WITH Slug <- MCSlug, Calls <- TcpCalls, calls <- tcpCalls

MCConfigured == <<"basic", "oauth2", "bearer", "digest">>

MCDeclared ==
    {d \in SecurityType : /\ d.selected \in {None} \cup 0..Len(d.defs)
                          /\ \A k \in DOMAIN d.defs : d.defs[k] # "nosec" \/ k = 1}

Plain == [method |-> "GET", known |-> TRUE, dir |-> "properties", name |-> "on", content |-> TRUE,
          cors |-> FALSE, auth |-> "password", accept |-> TRUE, malformed |-> FALSE]
Ask(method, dir, name) == [Plain EXCEPT !.method = method, !.dir = dir, !.name = name]
Methods == {"GET", "PUT", "POST", "HEAD", "OPTIONS", "DELETE"}

MCRequests ==
    {Ask(m, x[1], x[2]) : m \in Methods,
        x \in {<<"properties", "on">>, <<"properties", None>>, <<"events", "hot">>,
               <<"actions", "toggle">>, <<"actions", "fade">>, <<"observable", "on">>}}
    \cup {[Ask("OPTIONS", "actions", "toggle") EXCEPT !.cors = TRUE, !.auth = "none"],
          [Ask("POST", "actions", "toggle") EXCEPT !.auth = "token"],
          [Ask("POST", "actions", "toggle") EXCEPT !.auth = "none"],
          [Ask("POST", "actions", "toggle") EXCEPT !.content = FALSE],
          Ask("PUT", "properties", "power"), Ask("GET", "properties", "unknown"),
          Ask("GET", "/", None), Ask("GET", "td", None), Ask("GET", "other", None),
          [Ask("GET", "td", None) EXCEPT !.accept = FALSE], [Plain EXCEPT !.known = FALSE],
          [Plain EXCEPT !.auth = "wrong"]}
    \cup {[Ask(x[1], x[2], x[3]) EXCEPT !.malformed = TRUE] :
              x \in {<<"GET", "properties", "on">>, <<"HEAD", "observable", "on">>,
                     <<"GET", "properties", None>>, <<"POST", "actions", "toggle">>,
                     <<"GET", "events", "hot">>, <<"HEAD", "events", "hot">>}}

MCIntrospected ==
    {[usable |-> TRUE, active |-> TRUE, scope |-> {"read"}, allowedClient |-> TRUE],
     [usable |-> TRUE, active |-> TRUE, scope |-> None, allowedClient |-> TRUE],
     [usable |-> TRUE, active |-> FALSE, scope |-> {"read"}, allowedClient |-> TRUE],
     [usable |-> FALSE, active |-> TRUE, scope |-> {"read"}, allowedClient |-> TRUE]}

MCMetadata ==
    {[scheme |-> s, configured |-> TRUE] : s \in {"nosec", "basic", "client", "password", "code", "tuya"}}
    \cup {[scheme |-> "basic", configured |-> FALSE]}

MCInit ==
    /\ Init /\ Client!Init /\ Opcua!Init /\ Netconf!Init /\ Mbus!Init
    /\ Coap!Init /\ Modbus!Init /\ Tcp!Init
    /\ \/ side = "server"
       \/ /\ side \in {"tokens", "subscriptions", "opcua", "netconf", "mbus", "keys", "exchanges",
                    "polling", "tcp"}
          /\ declared = [defs |-> <<>>, selected |-> None]

MCNext ==
    /\ \/ /\ side = "server" /\ Next
          /\ UNCHANGED <<clientVars, opcuaVars, netconfVars, mbusVars, coapVars, pollVars, tcpVars>>
       \/ /\ side = "tokens" /\ Client!Tokens
          /\ UNCHANGED <<vars, opcuaVars, netconfVars, mbusVars, coapVars, pollVars, tcpVars>>
       \/ /\ side = "subscriptions" /\ Client!Subscribing
          /\ UNCHANGED <<vars, opcuaVars, netconfVars, mbusVars, coapVars, pollVars, tcpVars>>
       \/ /\ side = "opcua" /\ Opcua!Next
          /\ UNCHANGED <<vars, clientVars, netconfVars, mbusVars, coapVars, pollVars, tcpVars>>
       \/ /\ side = "netconf" /\ Netconf!Next
          /\ UNCHANGED <<vars, clientVars, opcuaVars, mbusVars, coapVars, pollVars, tcpVars>>
       \/ /\ side = "mbus" /\ Mbus!Next
          /\ UNCHANGED <<vars, clientVars, opcuaVars, netconfVars, coapVars, pollVars, tcpVars>>
       \/ /\ side = "keys" /\ Coap!Keys
          /\ UNCHANGED <<vars, clientVars, opcuaVars, netconfVars, mbusVars, pollVars, tcpVars>>
       \/ /\ side = "exchanges" /\ Coap!Exchanges
          /\ UNCHANGED <<vars, clientVars, opcuaVars, netconfVars, mbusVars, pollVars, tcpVars>>
       \/ /\ side = "polling" /\ Modbus!Next
          /\ UNCHANGED <<vars, clientVars, opcuaVars, netconfVars, mbusVars, coapVars, tcpVars>>
       \/ /\ side = "tcp" /\ Tcp!Next
          /\ UNCHANGED <<vars, clientVars, opcuaVars, netconfVars, mbusVars, coapVars, pollVars>>
    /\ UNCHANGED side

MCSpec ==
    /\ MCInit
    /\ [][MCNext]_<<side, vars, clientVars, opcuaVars, netconfVars, mbusVars, coapVars, pollVars, tcpVars>>
    /\ \A r \in Slots : WF_vars(Settles(r))
    /\ Client!Fairness /\ Mbus!Fairness /\ Coap!Fairness /\ Tcp!Fairness

ActiveIffOpen == Client!ActiveIffOpen
RefusedIfDoubled == Client!RefusedIfDoubled
PollsAgain == Client!PollsAgain
OpenIsCached == Opcua!OpenIsCached
HearsWhileActive == Opcua!HearsWhileActive
OneRouter == Netconf!OneRouter
OperationsSettle == Mbus!OperationsSettle
CoapRequestsSettle == Coap!CoapRequestsSettle
PollsWhileLinked == Modbus!PollsWhileLinked
TcpServes == Tcp!TcpServes
=============================================================================
