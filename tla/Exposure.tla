------------------------------ MODULE Exposure ------------------------------
(***************************************************************************)
(* An exposed Thing and those who listen to it: core/src/exposed-thing.ts  *)
(* and protocol-listener-registry.ts, with the forms that protocol servers *)
(* append when the Thing is exposed and the routes of the servers through  *)
(* which clients observe its properties and subscribe to its events: the   *)
(* long polls of binding-http, the connections of binding-websockets and   *)
(* the publications of binding-mqtt.                                       *)
(*                                                                         *)
(* A step is the code between two awaits that wait for the network or for  *)
(* a handler of the application.  The Thing is exposed once; servers join  *)
(* later, as the bindings that the management runtime adds do.  Its        *)
(* properties can be read and written, and observed.                       *)
(***************************************************************************)
EXTENDS Naturals, Sequences, FiniteSetsExt, Functions

CONSTANTS
    Affordances,    (* the properties and events of the Thing               *)
    Properties,     (* those that are properties                            *)
    Servers,        (* instances of the protocol servers                    *)
    Type,           (* of each server: "http", "ws" or "mqtt"               *)
    Offered,        (* how many forms a server appends for one resource:
                       media types, addresses and paths                     *)
    Conns,          (* requests and connections of clients                  *)
    Secured,        (* credentials are checked by asking another server     *)
    Handled,        (* affordances with observe or subscribe handlers of the
                       application, which may wait and may reject           *)
    None

ASSUME ExposureAssumption ==
    /\ Properties \subseteq Affordances
    /\ Handled \subseteq Affordances
    /\ Type \in [Servers -> {"http", "ws", "mqtt"}]
    /\ Offered \in Nat \ {0}
    /\ Secured \in BOOLEAN
    /\ None \notin Affordances \cup Servers
    /\ Conns \cap (Servers \X Affordances) = {}

VARIABLES
    forms,      (* the forms of each affordance                             *)
    exposing,   (* the servers that expose the Thing                        *)
    listeners,  (* ProtocolListenerRegistry: of each affordance and form,
                   its listeners in order                                   *)
    awaited,    (* listeners whose observe or subscribe handler is awaited  *)
    conn,       (* the requests and connections                             *)
    destroyed,  (* ExposedThing.destroy() has been called                   *)
    uncaught    (* an exception nobody catches has ended the process, and
                   where it came from                                       *)

vars == <<forms, exposing, listeners, awaited, conn, destroyed, uncaught>>

Events == Affordances \ Properties

(* A publication of a server to a topic, or a client's connection.         *)
Publication(s, a) == <<s, a>>
Listeners == Conns \cup (Servers \X Affordances)

FormType ==
    [type : {"http", "ws", "mqtt"},
     path : {"value", "observable", "event", "write"},
     op : SUBSET {"read", "write", "observe", "unobserve", "subscribe",
                  "unsubscribe"}]

(* checking: checkCredentials() is awaited.  attached: the callbacks that  *)
(* clean up are attached, in time to be called.  index: options.formIndex; *)
(* of a WebSocket, under how many forms it was registered when it came.    *)
(* notified: a notification was written; finished, closed: of the response *)
(* or the socket.                                                          *)
ConnType ==
    [server : Servers \cup {None}, aff : Affordances \cup {None},
     checking : BOOLEAN, attached : BOOLEAN, index : Nat, notified : BOOLEAN,
     finished : BOOLEAN, closed : BOOLEAN, timedOut : BOOLEAN]

Unused == [server |-> None, aff |-> None, checking |-> FALSE, attached |-> FALSE,
           index |-> 0, notified |-> FALSE, finished |-> FALSE, closed |-> FALSE,
           timedOut |-> FALSE]

Init ==
    /\ forms = [a \in Affordances |-> <<>>]
    /\ exposing = {}
    /\ listeners = [a \in Affordances |-> <<>>]
    /\ awaited = {}
    /\ conn = [c \in Conns |-> Unused]
    /\ destroyed = FALSE
    /\ uncaught = "no"

-----------------------------------------------------------------------------
(* Forms                                                                   *)

Appended(type, a) ==
    LET Form(path, op) == [type |-> type, path |-> path, op |-> op] IN
    CASE type = "http" /\ a \in Properties ->
           <<Form("value", {"read", "write"}),
             Form("observable", {"observe", "unobserve"})>>
      [] type = "http" /\ a \in Events ->
           <<Form("event", {"subscribe", "unsubscribe"})>>
      [] type = "ws" /\ a \in Properties ->
           <<Form("value", {"read", "observe", "unobserve", "write"})>>
      [] type = "ws" /\ a \in Events -> <<Form("event", {"subscribe"})>>
      [] type = "mqtt" /\ a \in Properties ->
           <<Form("value", {"read", "observe", "unobserve"}), Form("write", {"write"})>>
      [] type = "mqtt" /\ a \in Events ->
           <<Form("event", {"subscribe", "unsubscribe"})>>

(* One topic for each affordance, one form for each address and media type *)
(* otherwise.                                                              *)
Repeated(type, a) ==
    LET once == Appended(type, a)
        times == IF type = "mqtt" THEN 1 ELSE Offered
    IN  [k \in 1 .. times * Len(once) |-> once[((k - 1) % Len(once)) + 1]]

(* findRequestMatchingFormIndex: the first form of that protocol and path, *)
(* whichever server appended it; the first form if there is none.          *)
MatchingForm(a, type, path) ==
    LET matching == {k \in DOMAIN forms[a] :
                       forms[a][k].type = type /\ forms[a][k].path = path}
    IN  IF matching = {} THEN 1 ELSE Min(matching)

(* getFormIndexForOperation: the form asked for if it has the operation,   *)
(* else the first that has, 0 if none has.  Subscribing and unsubscribing  *)
(* are the default operations of an event, so that any of its forms will   *)
(* do.                                                                     *)
FormFor(a, op, index) ==
    LET able == {k \in DOMAIN forms[a] : a \in Events \/ op \in forms[a][k].op} IN
    IF index \in able THEN index ELSE IF able = {} THEN 0 ELSE Min(able)

ObserveOp(a) == IF a \in Properties THEN "observe" ELSE "subscribe"
UnobserveOp(a) == IF a \in Properties THEN "unobserve" ELSE "unsubscribe"

-----------------------------------------------------------------------------
(* The registry                                                            *)

At(a, k) == IF k \in DOMAIN listeners[a] THEN listeners[a][k] ELSE <<>>

(* register, under each of some forms                                      *)
Registered(l, a, indices) ==
    [listeners EXCEPT ![a] =
       [k \in DOMAIN listeners[a] \cup indices |->
          IF k \in indices THEN Append(At(a, k), l) ELSE listeners[a][k]]]

IsListening(l, a, k) == l \in Range(At(a, k))

Position(l, list) == Min({j \in DOMAIN list : list[j] = l})

(* Mutant: splice(index) takes all listeners from there on.                *)
WithoutRest(l, list) == SubSeq(list, 1, Position(l, list) - 1)

Without(l, list) ==
    [j \in 1 .. Len(list) - 1 |-> IF j < Position(l, list) THEN list[j] ELSE list[j + 1]]

(* unregister, for the forms where the listener is                         *)
Unregistered(l, a, indices) ==
    [listeners EXCEPT ![a] =
       [k \in DOMAIN listeners[a] |->
          IF k \in indices /\ IsListening(l, a, k)
          THEN Without(l, listeners[a][k]) ELSE listeners[a][k]]]

(* Mutant: the form that was appended last instead of the one that was     *)
(* chosen.                                                                 *)
ReleaseLatest(c, index) ==
    LET a == conn[c].aff
        k == FormFor(a, UnobserveOp(a), Len(forms[a]))
    IN  /\ listeners' = Unregistered(c, a, {k})
        /\ uncaught' = IF IsListening(c, a, k) THEN uncaught ELSE "listener"

(* handleUnobserveProperty or handleUnsubscribeEvent in a callback: what   *)
(* unregister() throws for a listener it does not find ends the process.   *)
Release(c, index) ==
    LET a == conn[c].aff
        k == FormFor(a, UnobserveOp(a), index)
    IN  /\ listeners' = Unregistered(c, a, {k})
        /\ uncaught' = IF IsListening(c, a, k) THEN uncaught ELSE "listener"

-----------------------------------------------------------------------------
(* Exposing the Thing on a server                                          *)

(* server.expose(): forms are appended; a broker also listens itself, to   *)
(* the first form that it appends.                                         *)
AddServer(s) ==
    /\ ~destroyed
    /\ s \notin exposing
    /\ exposing' = exposing \cup {s}
    /\ forms' = [a \in Affordances |-> forms[a] \o Repeated(Type[s], a)]
    /\ IF Type[s] = "mqtt"
       THEN /\ listeners' =
                 [a \in Affordances |->
                    Registered(Publication(s, a), a, {Len(forms[a]) + 1})[a]]
            /\ awaited' = awaited \cup {Publication(s, a) : a \in Handled}
       ELSE UNCHANGED <<listeners, awaited>>
    /\ UNCHANGED <<conn, destroyed, uncaught>>

-----------------------------------------------------------------------------
(* Long polls: binding-http/src/routes                                     *)

IsOn(c, type) == conn[c].server # None /\ Type[conn[c].server] = type

(* handleObserveProperty, handleSubscribeEvent.  When the application has  *)
(* no handler the route goes on at once and attaches its callbacks.        *)
Observe(c, record) ==
    LET a == record.aff
        path == IF a \in Properties THEN "observable" ELSE "event"
        index == MatchingForm(a, "http", path)
        waits == a \in Handled /\ ~destroyed
    IN  /\ listeners' = Registered(c, a, {FormFor(a, ObserveOp(a), index)})
        /\ awaited' = IF waits THEN awaited \cup {c} ELSE awaited
        /\ conn' = [conn EXCEPT ![c] =
                      [record EXCEPT !.checking = FALSE, !.index = index,
                                     !.attached = ~waits /\ ~record.closed]]

(* A GET of an observable property or an event.                            *)
Poll(c, s, a) ==
    LET record == [Unused EXCEPT !.server = s, !.aff = a, !.checking = Secured] IN
    /\ conn[c] = Unused
    /\ s \in exposing /\ Type[s] = "http"
    /\ ~destroyed
    /\ IF Secured
       THEN /\ conn' = [conn EXCEPT ![c] = record]
            /\ UNCHANGED <<listeners, awaited>>
       ELSE Observe(c, record)
    /\ UNCHANGED <<forms, exposing, destroyed, uncaught>>

(* checkCredentials: 401, or the route goes on with the Thing it found.    *)
CredentialsChecked(c) ==
    /\ conn[c].checking
    /\ \/ Observe(c, conn[c])
       \/ /\ conn' = [conn EXCEPT ![c].checking = FALSE, ![c].finished = TRUE]
          /\ UNCHANGED <<listeners, awaited>>
    /\ UNCHANGED <<forms, exposing, destroyed, uncaught>>

(* The handler of the application resolves: only now the route listens for *)
(* the end of the response, of the event's request for its closing.        *)
HandlerDone(l) ==
    /\ l \in awaited
    /\ awaited' = awaited \ {l}
    /\ IF l \in Conns /\ IsOn(l, "http")
       THEN conn' = [conn EXCEPT ![l].attached =
                       ~conn[l].closed /\ (conn[l].aff \in Events \/ ~conn[l].finished)]
       ELSE UNCHANGED conn
    /\ UNCHANGED <<forms, exposing, listeners, destroyed, uncaught>>

(* The handler rejects: nobody catches that in a route or in expose(), and *)
(* a WebSocket that is open cannot be closed with code -1.                 *)
HandlerRejects(l) ==
    /\ l \in awaited
    /\ awaited' = awaited \ {l}
    /\ uncaught' = IF l \in Conns /\ IsOn(l, "ws") /\ conn[l].closed
                   THEN uncaught ELSE "handler"
    /\ UNCHANGED <<forms, exposing, listeners, conn, destroyed>>

(* Mutant: the response of an event is released when it is finished, too.  *)
FinishReleasing(c) ==
    /\ IsOn(c, "http")
    /\ conn[c].notified /\ ~conn[c].finished /\ ~conn[c].closed
    /\ conn' = [conn EXCEPT ![c].finished = TRUE]
    /\ IF conn[c].attached
       THEN Release(c, conn[c].index)
       ELSE UNCHANGED <<listeners, uncaught>>
    /\ UNCHANGED <<forms, exposing, awaited, destroyed>>

(* The notification is written: the response ends with its body.           *)
Finish(c) ==
    /\ IsOn(c, "http")
    /\ conn[c].notified /\ ~conn[c].finished /\ ~conn[c].closed
    /\ conn' = [conn EXCEPT ![c].finished = TRUE]
    /\ IF conn[c].attached /\ conn[c].aff \in Properties
       THEN Release(c, conn[c].index)
       ELSE UNCHANGED <<listeners, uncaught>>
    /\ UNCHANGED <<forms, exposing, awaited, destroyed>>

(* The response is closed, after it is finished or because the client has  *)
(* gone: of an observation nothing is cleaned up then.                     *)
Close(c) ==
    /\ IsOn(c, "http")
    /\ ~conn[c].closed
    /\ conn' = [conn EXCEPT ![c].closed = TRUE]
    /\ IF conn[c].attached /\ conn[c].aff \in Events
       THEN Release(c, conn[c].index)
       ELSE UNCHANGED <<listeners, uncaught>>
    /\ UNCHANGED <<forms, exposing, awaited, destroyed>>

(* res.setTimeout: an hour without a notification.  The request stays.     *)
Timeout(c) ==
    /\ IsOn(c, "http")
    /\ conn[c].attached /\ ~conn[c].notified /\ ~conn[c].closed /\ ~conn[c].timedOut
    /\ conn' = [conn EXCEPT ![c].timedOut = TRUE]
    /\ Release(c, conn[c].index)
    /\ UNCHANGED <<forms, exposing, awaited, destroyed>>

-----------------------------------------------------------------------------
(* Connections: binding-websockets/src/ws-server.ts                        *)

(* A connection listens to an event under every form that the event has by *)
(* now, also those of other servers; to a property that can be read under  *)
(* none.  destroy() leaves the server of the path in place.                *)
Connect(c, s, a) ==
    /\ conn[c] = Unused
    /\ s \in exposing /\ Type[s] = "ws"
    /\ conn' = [conn EXCEPT ![c] =
                  [Unused EXCEPT !.server = s, !.aff = a, !.attached = TRUE,
                                 !.index = IF a \in Events THEN Len(forms[a]) ELSE 0]]
    /\ IF a \in Events
       THEN /\ listeners' = Registered(c, a, DOMAIN forms[a])
            /\ awaited' = IF a \in Handled /\ ~destroyed THEN awaited \cup {c}
                          ELSE awaited
       ELSE UNCHANGED <<listeners, awaited>>
    /\ UNCHANGED <<forms, exposing, destroyed, uncaught>>

(* At the end it stops listening under every form that there is by then,   *)
(* until the first where it does not listen.                               *)
Disconnect(c) ==
    LET a == conn[c].aff
        missing == {k \in DOMAIN forms[a] : ~IsListening(c, a, k)}
    IN  /\ IsOn(c, "ws")
        /\ ~conn[c].closed
        /\ conn' = [conn EXCEPT ![c].closed = TRUE]
        /\ listeners' = Unregistered(c, a, {k \in DOMAIN forms[a] : \A j \in missing : k < j})
        /\ uncaught' = IF missing = {} THEN uncaught ELSE "listener"
        /\ UNCHANGED <<forms, exposing, awaited, destroyed>>

-----------------------------------------------------------------------------
(* Notification                                                            *)

(* The listeners of one form share one body.  Each response is piped the   *)
(* whole of it; of the WebSockets, which iterate over it, the first gets   *)
(* all there is.                                                           *)
Receives(c, a, k) ==
    /\ IsListening(c, a, k)
    /\ ~conn[c].closed /\ ~conn[c].finished
    /\ IF IsOn(c, "http") THEN ~conn[c].notified
       ELSE \A j \in DOMAIN At(a, k) :
              At(a, k)[j] \in Conns /\ IsOn(At(a, k)[j], "ws")
                => j >= Position(c, At(a, k))

(* emitEvent, or emitPropertyChange when the read handler it awaits, for   *)
(* however long, has returned.                                             *)
Notify(a) ==
    /\ conn' = [c \in Conns |->
                  [conn[c] EXCEPT !.notified =
                     @ \/ \E k \in DOMAIN listeners[a] : Receives(c, a, k)]]
    /\ UNCHANGED <<forms, exposing, listeners, awaited, destroyed, uncaught>>

(* ExposedThing.destroy: the servers forget the Thing, nobody listens any  *)
(* more; requests that are under way go on.                                *)
Destroy ==
    /\ destroyed' = TRUE
    /\ listeners' = [a \in Affordances |-> <<>>]
    /\ UNCHANGED <<forms, exposing, awaited, conn, uncaught>>

(* A request or connection that has left nothing behind is forgotten.      *)
Forget(c) ==
    /\ conn[c].closed /\ ~conn[c].checking
    /\ c \notin awaited
    /\ \A a \in Affordances : \A k \in DOMAIN listeners[a] : ~IsListening(c, a, k)
    /\ conn' = [conn EXCEPT ![c] = Unused]
    /\ UNCHANGED <<forms, exposing, listeners, awaited, destroyed, uncaught>>

-----------------------------------------------------------------------------
Next ==
    /\ uncaught = "no"
    /\ \/ \E s \in Servers : AddServer(s)
       \/ \E c \in Conns, s \in Servers, a \in Affordances : Poll(c, s, a) \/ Connect(c, s, a)
       \/ \E c \in Conns :
            \/ CredentialsChecked(c)
            \/ Finish(c) \/ Close(c) \/ Timeout(c)
            \/ Disconnect(c)
            \/ Forget(c)
       \/ \E l \in Listeners : HandlerDone(l) \/ HandlerRejects(l)
       \/ \E a \in Affordances : Notify(a)
       \/ Destroy

Spec == Init /\ [][Next]_vars

-----------------------------------------------------------------------------
(* Properties                                                              *)

(* An open long poll whose route has attached its callbacks.               *)
Waiting(c) ==
    /\ IsOn(c, "http") /\ conn[c].attached
    /\ ~conn[c].closed /\ ~conn[c].finished /\ ~conn[c].timedOut

Places(l, a) ==
    UNION {{<<k, n>> : n \in {j \in DOMAIN listeners[a][k] : listeners[a][k][j] = l}} :
             k \in DOMAIN listeners[a]}

ListensOnce(l, a, able) ==
    \E place \in Places(l, a) :
      Places(l, a) = {place} /\ forms[a][place[1]] \in able

(* Whoever else comes, goes, times out or joins with forms of its own: as  *)
(* long as the Thing exists, an open long poll is registered exactly once, *)
(* under a form of its own protocol that offers the operation, and so is   *)
(* the publication of each affordance by each broker.                      *)
EachListensOnce ==
    uncaught = "no" /\ ~destroyed =>
      /\ \A c \in Conns : Waiting(c) =>
           ListensOnce(c, conn[c].aff,
             {f \in Range(forms[conn[c].aff]) :
                f.type = "http" /\ ObserveOp(conn[c].aff) \in f.op})
      /\ \A s \in exposing, a \in Affordances : Type[s] = "mqtt" =>
           ListensOnce(Publication(s, a), a,
             {f \in Range(forms[a]) : f.type = "mqtt" /\ ObserveOp(a) \in f.op})

(* A connection to an event whose callbacks were attached in time leaves   *)
(* no listener behind when it closes, whatever has changed meanwhile.      *)
ReleasedOnClose ==
    \A c \in Conns :
      conn[c].closed /\ conn[c].attached /\ conn[c].aff \in Events
        => \A k \in DOMAIN listeners[conn[c].aff] : ~IsListening(c, conn[c].aff, k)

(* What takes away the listener of a request or connection, or never was   *)
(* one, before its callback looks for it: its own hour; for a WebSocket, a *)
(* form that was appended after it came, or that it is one to a property.  *)
Unlisted(c) ==
    \/ IsOn(c, "http") /\ conn[c].timedOut
    \/ /\ IsOn(c, "ws")
       /\ conn[c].aff \in Properties \/ conn[c].index < Len(forms[conn[c].aff])

(* A callback fails to find its listener, which ends the process, only of  *)
(* a request or connection that was itself unlisted, or when the Thing has *)
(* been destroyed: nothing that others do takes a listener away.           *)
FoundUnlessRemoved ==
    [][uncaught' = "listener" =>
         destroyed \/ \E c \in Conns : conn'[c] # conn[c] /\ Unlisted(c)]_vars

=============================================================================
