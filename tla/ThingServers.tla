---------------------------- MODULE ThingServers ----------------------------
(***************************************************************************)
(* What the HTTP, WebSocket and MQTT servers keep of the Things that are   *)
(* exposed on them (binding-http/src/http-server.ts,                       *)
(* binding-websockets/src/ws-server.ts,                                    *)
(* binding-mqtt/src/mqtt-broker-server.ts): the names they give them, the  *)
(* forms they append and where a request under a name arrives.  expose()   *)
(* and destroy() of these servers await nothing: each is one function from *)
(* registry to registry.                                                   *)
(***************************************************************************)
EXTENDS Naturals, Sequences, FiniteSetsExt, SequencesExt, Functions

CONSTANTS
    Servers,
    Kind,           \* of each server: "http", "ws" or "mqtt"
    Things,         \* by their id
    Title,          \* of each Thing: a word, and the numbers that follow
                    \* underscores at its end
    Slug,           \* what slugify makes of the title of each Thing
    Escaped,        \* words of titles and names of affordances that
                    \* encodeURIComponent changes
    Properties, ReadOnly, WriteOnly, Observable,
    Actions, Events,
    DevFriendly,    \* the configuration devFriendlyUri of an HTTP server
    Refused,        \* Things whose security scheme the HTTP servers lack
    None

ASSUME ThingServersAssumption ==
    /\ Kind \in [Servers -> {"http", "ws", "mqtt"}]
    /\ \A t \in Things : Title[t] \in (STRING \X Seq(Nat)) /\ Slug[t] \in (STRING \X Seq(Nat))
    /\ DOMAIN Title = Things
    /\ ReadOnly \cup WriteOnly \cup Observable \subseteq Properties
    /\ DevFriendly \in [Servers -> BOOLEAN]
    /\ Refused \subseteq Things
    /\ None \notin Things \cup Servers

Affordances == Properties \cup Actions \cup Events

\* names: the entries of the Map `things` (of the Set thingNames) by their
\* place in its order, which they keep until they are deleted.  last: the
\* place of the newest.  paths: thingPaths.  sockets: the Things behind
\* socketServers.  topics: those subscribed at the broker.  handlers: of
\* messages, at the client.
Nothing ==
    LET none == [x \in {} |-> None] IN
    [names |-> none, last |-> 0, paths |-> none, sockets |-> none, topics |-> {}, handlers |-> 0]

Keys(r) == {r.names[k].name : k \in DOMAIN r.names}
Place(r, name) == CHOOSE k \in DOMAIN r.names : r.names[k].name = name
Owner(r, name) == IF name \in Keys(r) THEN r.names[Place(r, name)].thing ELSE None
Mine(r, t) == {k \in DOMAIN r.names : r.names[k].thing = t}

\* Map.set and Map.delete
SetName(r, name, t) ==
    LET k == IF name \in Keys(r) THEN Place(r, name) ELSE r.last + 1 IN
    [r EXCEPT !.names = [j \in DOMAIN @ \cup {k} |->
                           IF j = k THEN [name |-> name, thing |-> t] ELSE @[j]],
              !.last = IF name \in Keys(r) THEN @ ELSE k]
Delete(r, gone) == [r EXCEPT !.names = [k \in DOMAIN @ \ gone |-> @[k]]]
Without(r, gone) == Delete(r, {k \in DOMAIN r.names : r.names[k].name \in gone})

-----------------------------------------------------------------------------
(* Names                                                                   *)

\* Names are titles and ids, which are no titles.
IdName(t) == <<t>>

Suffixed(title, n) == IF n = 1 THEN title ELSE <<title[1], Append(title[2], n)>>

\* Mutant: clashes are not looked for.
UniqueUnchecked(r, t) == Slug[t]

\* `title`, or else the first of `title_2`, `title_3`... that is free.
Unique(r, t) ==
    Suffixed(Slug[t],
             Min({n \in 1..(Cardinality(DOMAIN r.names) + 1) : Suffixed(Slug[t], n) \notin Keys(r)}))

\* The broker server tries one other name, taken or not: it counts the
\* number at the end of the title up, or appends one.
Second(title) ==
    LET last == Len(title[2]) IN
    <<title[1], IF last = 0 THEN <<2>> ELSE [title[2] EXCEPT ![last] = @ + 1]>>

BrokerName(r, t) == IF Title[t] \in Keys(r) THEN Second(Title[t]) ELSE Title[t]

-----------------------------------------------------------------------------
(* Forms: the server and name they lead to, the affordance (None for those *)
(* of all properties) and its operations.  (One of each for each address   *)
(* and media type.)                                                        *)

Form(s, name, aff, op) == [server |-> s, name |-> name, aff |-> aff, op |-> op]

AllOps ==
    LET reading == {"readallproperties", "readmultipleproperties"}
        writing == {"writeallproperties", "writemultipleproperties"}
    IN  CASE Properties = ReadOnly /\ Properties # WriteOnly -> reading
          [] Properties = WriteOnly /\ Properties # ReadOnly -> writing
          [] OTHER -> reading \cup writing

ReadWrite(p) ==
    CASE p \in ReadOnly -> {"readproperty"}
      [] p \in WriteOnly \ ReadOnly -> {"writeproperty"}
      [] OTHER -> {"readproperty", "writeproperty"}

Observing == {"observeproperty", "unobserveproperty"}

HttpForms(s, name) ==
    {Form(s, name, None, AllOps) : p \in Properties}
    \cup {Form(s, name, p, ReadWrite(p)) : p \in Properties}
    \cup {Form(s, name, p, Observing) : p \in Observable}
    \cup {Form(s, name, a, {"invokeaction"}) : a \in Actions}
    \cup {Form(s, name, e, {"subscribeevent", "unsubscribeevent"}) : e \in Events}

WsForms(s, name) ==
    {Form(s, name, p, (IF p \in WriteOnly THEN {} ELSE {"readproperty"} \cup Observing)
                      \cup (IF p \in ReadOnly THEN {} ELSE {"writeproperty"})) : p \in Properties}
    \cup {Form(s, name, a, {"invokeaction"}) : a \in Actions}
    \cup {Form(s, name, e, {"subscribeevent"}) : e \in Events}

MqttForms(s, name) ==
    {Form(s, name, p, {"readproperty"} \cup Observing) : p \in Properties \ WriteOnly}
    \cup {Form(s, name, p, {"writeproperty"}) : p \in Properties \ ReadOnly}
    \cup {Form(s, name, a, {"invokeaction"}) : a \in Actions}
    \cup {Form(s, name, e, {"subscribeevent", "unsubscribeevent"}) : e \in Events}

-----------------------------------------------------------------------------
(* expose and destroy                                                      *)

\* An HTTP server serves a Thing under its title and under its id.
HttpNames(s, r, t) == (IF DevFriendly[s] THEN {Unique(r, t)} ELSE {}) \cup {IdName(t)}
HttpExpose(s, r, t) ==
    SetName(IF DevFriendly[s] THEN SetName(r, Unique(r, t), t) ELSE r, IdName(t), t)

\* A socket server for each property and event, in place of one of before.
WsExpose(r, t) ==
    LET name == Unique(r, t)
        here == {name} \X (Properties \cup Events)
    IN  [SetName(r, name, t) EXCEPT
           !.paths = [x \in DOMAIN @ \cup {t} |-> IF x = t THEN name ELSE @[x]],
           !.sockets = [x \in DOMAIN @ \cup here |-> IF x \in here THEN t ELSE @[x]]]

MqttExpose(r, t) ==
    LET name == BrokerName(r, t) IN
    [SetName(r, name, t) EXCEPT
        !.topics = @ \cup ({name} \X ((Properties \ ReadOnly) \cup Actions)),
        !.handlers = @ + 1]

\* expose() of a server that is up.  fillSecurityScheme, which may throw,
\* comes after the names have been taken.
Exposed(s, r, t) ==
    CASE Kind[s] = "http" -> HttpExpose(s, r, t)
      [] Kind[s] = "ws" -> WsExpose(r, t)
      [] Kind[s] = "mqtt" -> MqttExpose(r, t)

Rejects(s, t) == Kind[s] = "http" /\ t \in Refused

FormsFrom(s, r, t) ==
    CASE Kind[s] = "http" ->
           IF t \in Refused THEN {} ELSE UNION {HttpForms(s, n) : n \in HttpNames(s, r, t)}
      [] Kind[s] = "ws" -> WsForms(s, Unique(r, t))
      [] Kind[s] = "mqtt" -> MqttForms(s, BrokerName(r, t))

\* Mutant: the id of the Thing stays.
HttpDestroyOne(r, t) ==
    IF Mine(r, t) = {} THEN r ELSE Delete(r, {Min(Mine(r, t))})

\* The first entry of the Thing and the one under its id.
HttpDestroy(r, t) ==
    IF Mine(r, t) = {} THEN r ELSE Without(r, {r.names[Min(Mine(r, t))].name, IdName(t)})

\* destroy() of a WebSocket server frees the last names of all Things and
\* keeps the socket servers.
Destroyed(s, r, t) ==
    CASE Kind[s] = "http" -> HttpDestroy(r, t)
      [] Kind[s] = "ws" -> Without(r, Range(r.paths))
      [] Kind[s] = "mqtt" -> Delete(r, Mine(r, t))

-----------------------------------------------------------------------------
(* Where a request arrives                                                 *)

\* The routes and handleMessage look the name up; a broker passes on what
\* is subscribed, and its server looks up what it finds in the topic, where
\* the names of the Thing and of the affordance are escaped.  What a Thing
\* itself publishes needs no subscription.
LeadsTo(s, r, name, aff, op) ==
    CASE Kind[s] = "http" -> Owner(r, name)
      [] Kind[s] = "ws" ->
           IF <<name, aff>> \in DOMAIN r.sockets THEN r.sockets[<<name, aff>>] ELSE None
      [] Kind[s] = "mqtt" ->
           IF op \cap {"writeproperty", "invokeaction"} = {} THEN Owner(r, name)
           ELSE IF /\ <<name, aff>> \in r.topics /\ r.handlers > 0
                   /\ name[1] \notin Escaped /\ aff \notin Escaped
                THEN Owner(r, name) ELSE None
=============================================================================
