------------------------------ MODULE Servient ------------------------------
(***************************************************************************)
(* The Servient (core/src/servient.ts) with produce() of wot-impl.ts: it   *)
(* keeps the Things of the application and the protocol servers that       *)
(* expose them, and starts and stops those servers.                        *)
(*                                                                         *)
(* A step is the code between two awaits.  Calls overlap: each of them     *)
(* waits for the promises of the servers (Promise.all), which settle in    *)
(* any order.                                                              *)
(***************************************************************************)
EXTENDS ThingServers

CONSTANTS
    Initial,        \* the servers added before anything else
    Broken,         \* servers whose start may fail
    Calls,          \* of start, shutdown and removeServer
    MaxExposed      \* how often each Thing is exposed

ASSUME ServientAssumption ==
    /\ Initial \cup Broken \subseteq Servers
    /\ MaxExposed \in [Things -> Nat]
    /\ Servers \cap Calls = {} /\ None \notin Calls

VARIABLES
    servers,    \* those of the Servient
    sharing,    \* WebSocket servers on the HTTP server of another
    wot,        \* #wotInstance is set
    shut,       \* #shutdown
    socket,     \* of each server: "new", "open", "closing" or "closed" (of
                \* a sharing server: whether it handles upgrades)
    attempts,   \* of each server: the calls whose start() is under way
    client,     \* servers to which some client is connected
    calls,
    things,     \* those of the Servient, in the order of their production
    forms,      \* of each Thing
    reg,        \* the registry of each server, see ThingServers
    history     \* what has happened, for the properties, see NoHistory

vars == <<servers, sharing, wot, shut, socket, attempts, client, calls, things, forms, reg, history>>

Idle == [kind |-> None, stage |-> "idle", waiting |-> {}]

\* late: servers that joined after the first start().  overlap: a start()
\* that found another one or a server under way, a server started for itself
\* during a shutdown, or a shutdown that found a server under way.  early:
\* servers removed before start() was done or while they were being started.
\* exposed: how often each Thing was, by server.  titled: how often Things of
\* a title were (servers that join when they are up already, which broker
\* servers never are, not counted).  stray: Things exposed after they were
\* destroyed.  destroyed: those destroyed.
NoHistory ==
    [late |-> {}, overlap |-> FALSE, early |-> {}, exposed |-> [x \in Servers \X Things |-> 0],
     titled |-> [x \in Servers \X Range(Title) |-> 0], stray |-> {}, destroyed |-> {}]

Init ==
    /\ servers = Initial
    /\ sharing \in SUBSET {s \in Servers : Kind[s] = "ws" /\ \E h \in Servers : Kind[h] = "http"}
    /\ wot = FALSE /\ shut = FALSE
    /\ socket = [s \in Servers |-> "new"]
    /\ attempts = [s \in Servers |-> {}]
    /\ client = {}
    /\ calls = [c \in Calls |-> Idle]
    /\ things = <<>>
    /\ forms = [t \in Things |-> {}]
    /\ reg = [s \in Servers |-> Nothing]
    /\ history = NoHistory

LifeCycle == <<servers, sharing, wot, shut, socket, attempts, client, calls>>
Registry == <<things, forms, reg>>

Under(kind) == {c \in Calls : calls[c].kind = kind /\ calls[c].stage = "waiting"}
Host == CHOOSE h \in Servers : Kind[h] = "http"
Up(s) == socket[IF s \in sharing THEN Host ELSE s] = "open"

-----------------------------------------------------------------------------
(* Things                                                                  *)

\* produce and addThing: an id that is taken is refused.
Produce(t) ==
    /\ t \notin Range(things)
    /\ things' = Append(things, t)
    /\ forms' = [forms EXCEPT ![t] = {}]
    /\ history' = [history EXCEPT !.stray = @ \ {t}]
    /\ UNCHANGED <<LifeCycle, reg>>

Exposures(t, on) ==
    /\ reg' = [s \in Servers |-> IF s \in on THEN Exposed(s, reg[s], t) ELSE reg[s]]
    /\ history' = [history EXCEPT
         !.exposed = [x \in Servers \X Things |-> IF x[1] \in on /\ x[2] = t THEN @[x] + 1 ELSE @[x]],
         !.titled = [x \in Servers \X Range(Title) |->
                       IF x[1] \in on /\ x[2] = Title[t] THEN @[x] + 1 ELSE @[x]],
         !.stray = IF t \in Range(things) THEN @ ELSE @ \cup {t}]

\* expose: the Thing need not be one of the Servient any longer.  A server
\* without a port exposes nothing.  A server that is down resolves too.
Expose(t) ==
    /\ t \in Range(things) \cup history.destroyed
    /\ \A s \in Servers : history.exposed[<<s, t>>] < MaxExposed[t]
    /\ servers # {}
    /\ LET on == {s \in servers : Up(s)} IN
       /\ on # {}
       /\ forms' = [forms EXCEPT ![t] = UNION {FormsFrom(s, reg[s], t) : s \in on}]
       /\ Exposures(t, on)
    /\ UNCHANGED <<LifeCycle, things>>

DestroyThing(t) ==
    /\ t \in Range(things)
    /\ things' = RemoveAt(things, CHOOSE k \in DOMAIN things : things[k] = t)
    /\ reg' = [s \in Servers |-> IF s \in servers THEN Destroyed(s, reg[s], t) ELSE reg[s]]
    /\ history' = [history EXCEPT !.destroyed = @ \cup {t}]
    /\ UNCHANGED <<LifeCycle, forms>>

-----------------------------------------------------------------------------
(* Servers                                                                 *)

\* One more Thing on a server; it keeps its forms.
With(s, done, t) ==
    [reg |-> Exposed(s, done.reg, t),
     forms |-> [done.forms EXCEPT ![t] = @ \cup FormsFrom(s, done.reg, t)]]

\* All Things, one after the other.
Joining(s) ==
    LET done[k \in 0..Len(things)] ==
          IF k = 0 THEN [reg |-> reg[s], forms |-> forms] ELSE With(s, done[k - 1], things[k])
    IN  done
AllOn(s) == Joining(s)[Len(things)]

\* addServer exposes all Things on the server and does not start it.  Only
\* one on the HTTP server of another has a port by then.
AddServer(s) ==
    /\ s \notin servers \cup history.early /\ socket[s] = "new"
    /\ servers' = servers \cup {s}
    /\ IF Up(s)
       THEN reg' = [reg EXCEPT ![s] = AllOn(s).reg] /\ forms' = AllOn(s).forms
       ELSE UNCHANGED <<reg, forms>>
    /\ history' = [history EXCEPT
         !.late = IF \E c \in Calls : calls[c].kind = "start" THEN @ \cup {s} ELSE @,
         !.exposed = [x \in Servers \X Things |->
                        IF Up(s) /\ x[1] = s /\ x[2] \in Range(things) THEN @[x] + 1 ELSE @[x]]]
    /\ UNCHANGED <<sharing, wot, shut, socket, attempts, client, calls, things>>

\* Mutant: a WebSocket server leaves its HTTP server open.
StoppedServersForgetful(on) ==
    [s \in Servers |-> IF s \in on /\ socket[s] = "open" /\ Kind[s] # "ws" THEN "closing"
                       ELSE socket[s]]

\* server.stop() of all of them
StoppedServers(on) ==
    [s \in Servers |-> IF s \in on /\ socket[s] = "open"
                       THEN IF s \in sharing \/ Kind[s] = "mqtt" THEN "closed" ELSE "closing"
                       ELSE socket[s]]

\* Mutant: nobody waits for a server.
StopsLaterForNone(on) == {}

\* stop() of a server that is not open resolves, and so does that of a
\* broker server, which ends its client.  stop() of a WebSocket server on
\* the HTTP server of another one never does.
StopsLater(on) ==
    {s \in on : s \in sharing \/ (Kind[s] # "mqtt" /\ socket[s] \in {"open", "closing"})}

\* A WebSocket server ends its connections, an HTTP server waits for them.
ClientsAfter(on) == {s \in client : s \notin on \/ Kind[s] # "ws"}

RemoveServer(c, s) ==
    /\ calls[c] = Idle
    /\ s \in servers
    /\ servers' = servers \ {s}
    /\ calls' = [calls EXCEPT ![c] =
         [kind |-> "remove", waiting |-> IF wot THEN StopsLater({s}) ELSE {}, stage |-> "waiting"]]
    /\ IF wot THEN socket' = StoppedServers({s}) /\ client' = ClientsAfter({s})
       ELSE UNCHANGED <<socket, client>>
    /\ history' = [history EXCEPT !.early = IF wot /\ attempts[s] = {} THEN @ ELSE @ \cup {s}]
    /\ UNCHANGED <<sharing, wot, shut, attempts, Registry>>

\* What starts at once.  An HTTP or WebSocket server that listens already,
\* or is about to, throws; an MQTT server connects once more.
Again == {s \in servers \ sharing : Kind[s] # "mqtt" /\ (socket[s] = "open" \/ attempts[s] # {})}

Settle(c, stage) == calls' = [calls EXCEPT ![c] = [kind |-> @.kind, stage |-> stage, waiting |-> {}]]

\* A WebSocket server on the HTTP server of another is started at once.
Awaited == servers \ sharing

StartCall(c) ==
    /\ calls[c] = Idle
    /\ IF wot \/ shut
       THEN /\ calls' = [calls EXCEPT ![c] = [kind |-> "start", stage |-> IF wot THEN "done" ELSE "threw",
                                              waiting |-> {}]]
            /\ UNCHANGED <<socket, attempts, history>>
       ELSE /\ calls' = [calls EXCEPT ![c] =
                 [kind |-> "start", stage |-> IF Again = {} THEN "waiting" ELSE "threw",
                  waiting |-> IF Again = {} THEN Awaited ELSE {}]]
            /\ attempts' = [s \in Servers |-> IF s \in servers \ (sharing \cup Again)
                                              THEN attempts[s] \cup {c} ELSE attempts[s]]
            /\ socket' = [s \in Servers |-> IF s \in servers \cap sharing THEN "open" ELSE socket[s]]
            /\ history' = [history EXCEPT
                 !.overlap = \/ @ \/ Under("start") # {}
                             \/ \E s \in servers : attempts[s] # {} \/ socket[s] # "new"]
    /\ UNCHANGED <<servers, sharing, wot, shut, client, Registry>>

\* The application starts a server that joined late, as the management
\* runtime does (registerBinding).
StartAlone(s) ==
    /\ wot /\ s \in history.late \cap servers
    /\ socket[s] = "new" /\ attempts[s] = {}
    /\ IF s \in sharing THEN socket' = [socket EXCEPT ![s] = "open"] /\ UNCHANGED attempts
       ELSE attempts' = [attempts EXCEPT ![s] = {None}] /\ UNCHANGED socket
    /\ history' = [history EXCEPT !.overlap = @ \/ Under("shutdown") # {}]
    /\ UNCHANGED <<servers, sharing, wot, shut, client, calls, Registry>>

\* A server listens, or the client of an MQTT server is connected: a second
\* one replaces the first, with its handlers and its subscriptions.
Opens(s) ==
    \E c \in attempts[s] :
        /\ attempts' = [attempts EXCEPT ![s] = @ \ {c}]
        /\ socket' = [socket EXCEPT ![s] = "open"]
        /\ reg' = IF Kind[s] = "mqtt" THEN [reg EXCEPT ![s].topics = {}, ![s].handlers = 0] ELSE reg
        /\ calls' = IF c = None THEN calls ELSE [calls EXCEPT ![c].waiting = @ \ {s}]
        /\ UNCHANGED <<servers, sharing, wot, shut, client, things, forms, history>>

\* The port is in use, the broker cannot be reached: the call rejects while
\* the other servers go on.
OpenFails(s) ==
    /\ s \in Broken
    /\ \E c \in attempts[s] :
        /\ attempts' = [attempts EXCEPT ![s] = @ \ {c}]
        /\ IF c = None THEN UNCHANGED calls ELSE Settle(c, "threw")
    /\ UNCHANGED <<servers, sharing, wot, shut, socket, client, Registry, history>>

Started(c) ==
    /\ c \in Under("start") /\ calls[c].waiting = {}
    /\ wot' = TRUE
    /\ Settle(c, "done")
    /\ UNCHANGED <<servers, sharing, shut, socket, attempts, client, Registry, history>>

\* shutdown checks #wotInstance, which the end of another shutdown takes
\* away: that #shutdown is set is never found.
ShutdownCall(c) ==
    /\ calls[c] = Idle
    /\ IF wot
       THEN /\ calls' = [calls EXCEPT ![c] =
                 [kind |-> "shutdown", stage |-> "waiting", waiting |-> StopsLater(servers)]]
            /\ socket' = StoppedServers(servers)
            /\ client' = ClientsAfter(servers)
            /\ history' = [history EXCEPT !.overlap = @ \/ \E s \in Servers : attempts[s] # {}]
       ELSE /\ calls' = [calls EXCEPT ![c] = [kind |-> "shutdown", stage |-> "threw", waiting |-> {}]]
            /\ UNCHANGED <<socket, client, history>>
    /\ UNCHANGED <<servers, sharing, wot, shut, attempts, Registry>>

\* The `close` of a server, once nobody is connected.
Closes(s) ==
    /\ socket[s] = "closing" /\ s \notin client
    /\ socket' = [socket EXCEPT ![s] = "closed"]
    /\ calls' = [c \in Calls |-> IF calls[c].kind = "start" THEN calls[c]
                                 ELSE [calls[c] EXCEPT !.waiting = @ \ {s}]]
    /\ UNCHANGED <<servers, sharing, wot, shut, attempts, client, Registry, history>>

Stopped(c) ==
    /\ c \in Under("shutdown") \cup Under("remove") /\ calls[c].waiting = {}
    /\ IF calls[c].kind = "shutdown" THEN shut' = TRUE /\ wot' = FALSE ELSE UNCHANGED <<shut, wot>>
    /\ Settle(c, "done")
    /\ UNCHANGED <<servers, sharing, socket, attempts, client, Registry, history>>

\* A client that waits in a long poll or holds a WebSocket.
Connect(s) ==
    /\ socket[s] = "open" /\ Kind[s] # "mqtt" /\ s \notin client \cup sharing
    /\ client' = client \cup {s}
    /\ UNCHANGED <<servers, sharing, wot, shut, socket, attempts, calls, Registry, history>>

Disconnect(s) ==
    /\ s \in client
    /\ client' = client \ {s}
    /\ UNCHANGED <<servers, sharing, wot, shut, socket, attempts, calls, Registry, history>>

Next ==
    \/ \E t \in Things : Produce(t) \/ Expose(t) \/ DestroyThing(t)
    \/ \E c \in Calls : StartCall(c) \/ Started(c) \/ ShutdownCall(c) \/ Stopped(c)
    \/ \E c \in Calls, s \in Servers : RemoveServer(c, s)
    \/ \E s \in Servers :
          \/ AddServer(s) \/ StartAlone(s) \/ Opens(s) \/ OpenFails(s) \/ Closes(s)
          \/ Connect(s) \/ Disconnect(s)

\* Sockets open or fail, and close once nobody is connected; promises
\* settle.  Nothing makes a client leave: after an hour a long poll only
\* loses its listener.
Fairness ==
    /\ \A s \in Servers : WF_vars(Opens(s)) /\ WF_vars(Closes(s))
    /\ \A c \in Calls : WF_vars(Started(c)) /\ WF_vars(Stopped(c))

Spec == Init /\ [][Next]_vars /\ Fairness

-----------------------------------------------------------------------------
(* Properties                                                              *)

\* The names that a broker server gives to Things of a title, and the other
\* titles of which it has exposed Things under one of them.
BrokerNames(title) == {title, Second(title)}
Rivals(s, title) ==
    {other \in Range(Title) \ {title} :
        /\ history.titled[<<s, other>>] # 0
        /\ BrokerNames(other) \cap BrokerNames(title) # {}}

\* What the code does not promise.  WebSocket servers serve no action, and
\* every destroy() frees the names of all their Things.  A broker server
\* does not find what is written to or invoked where the title or the name
\* of the affordance is escaped, gives the same name to the second and the
\* third exposure of a title (`lamp_2`) and to a Thing that has it for its
\* title, and starts anew when start() is called again.  A Thing may be
\* exposed when it has been destroyed.
Unreliable(f, t) ==
    \/ Kind[f.server] = "ws" /\ (f.aff \in Actions \/ history.destroyed # {})
    \/ /\ Kind[f.server] = "mqtt"
       /\ \/ /\ Title[t][1] \in Escaped \/ f.aff \in Escaped
             /\ f.op \cap {"writeproperty", "invokeaction"} # {}
          \/ 2 < history.titled[<<f.server, Title[t]>>]
          \/ Rivals(f.server, Title[t]) # {}
          \/ history.overlap

\* A client that uses a form of a Thing reaches that Thing, whatever other
\* Things of its title, or of a title that is another one's name, come and
\* go and in whatever order servers join, but for what is named above.
\* This is about the names in expose() and destroy() of the three servers.
FormsLead ==
    \A t \in Range(things) : \A f \in forms[t] :
        Up(f.server) /\ socket[f.server] = "open" /\ ~Unreliable(f, t)
          => LeadsTo(f.server, reg[f.server], f.name, f.aff, f.op) = t

\* A Thing that has been destroyed is not served any longer, but by the
\* WebSocket servers, which keep their socket servers, and, if it has been
\* exposed more than once, by the HTTP servers, which forget one name.
DestroyedIsGone ==
    \A t \in history.destroyed \ (Range(things) \cup history.stray), s \in servers :
        Kind[s] = "mqtt" \/ (Kind[s] = "http" /\ history.exposed[<<s, t>>] <= 1)
          => \A name \in Keys(reg[s]) : Owner(reg[s], name) # t

\* When the Servient has been shut down nothing of it listens, but servers
\* removed before it or they were started (removeServer does not stop
\* those), those whose removal is still awaited and those of starts that overlapped with
\* one another or with the shutdown.
NothingListensOn ==
    shut /\ ~history.overlap =>
        \A s \in Servers \ (history.early \cup UNION {calls[c].waiting : c \in Under("remove")}) :
            socket[s] \notin {"open", "closing"}

\* shutdown() and removeServer() resolve if the clients of HTTP servers
\* leave in the end, which nothing in the code makes them do (those of
\* WebSocket servers are sent away), unless they wait for a WebSocket server
\* that shares an HTTP server.
StopsResolve ==
    (\A s \in Servers : Kind[s] = "http" => []<>(s \notin client)) =>
        \A c \in Calls :
            (c \in Under("shutdown") \cup Under("remove") /\ calls[c].waiting \cap sharing = {})
              ~> calls[c].stage = "done"
=============================================================================
