----------------------------- MODULE CoapServer -----------------------------
(***************************************************************************)
(* The CoAP server (binding-coap/src/coap-server.ts) with its mDNS         *)
(* introducer: Things are exposed under paths, listed and announced, and   *)
(* requests for them are answered.                                         *)
(*                                                                         *)
(* A step is the code between two awaits that wait for the network, a      *)
(* timer or a handler of the application.  Under which of its forms an     *)
(* affordance is observed is the matter of Exposure.                       *)
(***************************************************************************)
EXTENDS Naturals, Sequences, FiniteSetsExt, SequencesExt

CONSTANTS
    Things,
    Title,          \* of each Thing, as slugify makes it: a word, and the
                    \* numbers that follow underscores at its end
    Reserved,       \* words with one of `:`, `@` and `+` in them
    Properties, ReadOnly, WriteOnly, Observable,
    Actions, Events,
    Escaped,        \* affordances with a name that is escaped in an address
    Parameterized,  \* affordances with URI variables, of their own or the Thing's
    Handled,        \* affordances whose handler of the application may wait
    Slots,          \* the requests of one behaviour
    Requests,       \* what can be asked in each slot, see RequestType
    MaxExposed,     \* how often each Thing is exposed
    None

VARIABLES
    listening,  \* "open" while the server has a socket
    things,     \* the Map of exposed Things: [path, thing] in order
    resources,  \* coreResources, by path
    announced,  \* mdnsEntries, by path
    forms,      \* what its servers have appended to each Thing, see FormType
    destroyed,  \* Things on which destroy() was called
    req,        \* the request in each slot and its response
    listeners,  \* slots that are registered as listeners of their Thing
    timers,     \* slots whose one-hour timer runs
    uncaught    \* an exception that nobody catches, and where it was thrown

vars == <<listening, things, resources, announced, forms, destroyed, req,
          listeners, timers, uncaught>>

-----------------------------------------------------------------------------
(* Paths and listings                                                      *)

PathsInUse == {things[k].path : k \in DOMAIN things}
At(path) == things[CHOOSE k \in DOMAIN things : things[k].path = path].thing

Suffixed(title, n) == IF n = 1 THEN title ELSE <<title[1], Append(title[2], n)>>

\* Mutant: the second of several clashing names is taken without a look.
UrlPathSecond(t) == Suffixed(Title[t], IF Title[t] \in PathsInUse THEN 2 ELSE 1)

\* createThingUrlPath: `title`, `title_2`, `title_3`..., of which one may be
\* the title of another Thing.
UrlPath(t) ==
    Suffixed(Title[t],
             Min({n \in 1..(Len(things) + 1) : Suffixed(Title[t], n) \notin PathsInUse}))

\* createPropertyMetaOpValues: the operations of the form of all properties.
MetaOps ==
    (IF Properties \ WriteOnly # {} THEN {"readmultipleproperties"} ELSE {})
    \cup (IF Properties # {} /\ WriteOnly = {} THEN {"readallproperties"} ELSE {})

\* Observing has a form of its own beside reading and writing.
PropertyOps(p) ==
    {{op \in {"readproperty", "writeproperty"} :
         IF op = "readproperty" THEN p \notin WriteOnly ELSE p \notin ReadOnly},
     {op \in {"observeproperty", "unobserveproperty"} : p \in Observable}} \ {{}}

\* A segment of an address: a name, how often it is escaped, and whether
\* `{?...}` with the URI variables is at its end, which is escaped with it.
Segment(name) == [name |-> name, escapes |-> 0, variables |-> FALSE]

EncodeURIComponent(segment) ==
    IF segment.name \in Escaped \/ segment.variables
    THEN [segment EXCEPT !.escapes = @ + 1] ELSE segment

NamePattern(name) ==
    [EncodeURIComponent(Segment(name)) EXCEPT !.variables = name \in Parameterized]

\* A form: what its href is made of, and its operations.  (One of those
\* for each address and media type.)  The pattern is escaped once more.
Form(path, dir, name, op) ==
    [path |-> path, dir |-> dir, segment |-> EncodeURIComponent(NamePattern(name)), op |-> op]

FormsUnder(path) ==
    {Form(path, "properties", None, op) : op \in {MetaOps} \ {{}}}
    \cup (UNION {{Form(path, "properties", p, op) : op \in PropertyOps(p)} : p \in Properties})
    \cup {Form(path, "actions", a, {"invokeaction"}) : a \in Actions}
    \cup {Form(path, "events", e, {"subscribeevent", "unsubscribeevent"}) : e \in Events}

-----------------------------------------------------------------------------
(* Requests                                                                *)

\* A request: its method and path (that of a Thing, "/" or "core"), the
\* segments behind it (dir and name, where None is also a name that no
\* affordance has), the Observe option (0 registers, 1 cancels), whether the
\* Content-Format and the Accept option are supported (None: there is no
\* Accept), whether the port of the sender is valid, and whether what is
\* percent-encoded in its path and query can be decoded.
RequestType ==
    [method : {"GET", "PUT", "POST", "DELETE"},
     path : ({"/", "core"} \cup {Title[t][1] : t \in Things}) \X Seq(Nat),
     dir : {None, "properties", "actions", "events", "other"},
     name : {None} \cup Properties \cup Actions \cup Events, observe : {None, 0, 1},
     format : BOOLEAN, accept : {None, TRUE, FALSE}, validPort : BOOLEAN,
     encoding : {"good", "badPath", "badQuery"}]

\* "/" and "core" stand for the paths of the server itself; the former would
\* also be that of a Thing of whose title nothing is left in a path.
ASSUME CoapAssumption ==
    /\ ReadOnly \subseteq Properties /\ WriteOnly \subseteq Properties
    /\ MaxExposed \in [Things -> Nat]
    /\ Requests \in [Slots -> SUBSET RequestType]
    /\ \A t \in Things : Title[t] \in (STRING \ {"/", "core"}) \X Seq(Nat)
    /\ None \notin Things \cup Properties \cup Nat \cup {"properties", "actions", "events"}

\* stage: what is awaited.  ended: end() was called, or a body that ends the
\* response is piped into it.  attached: the listener of `finish` is there.
Unused == [stage |-> "unused", q |-> None, thing |-> None, code |-> None, ended |-> FALSE,
           finished |-> FALSE, attached |-> FALSE, delivered |-> 0]

Init ==
    /\ listening = "new"
    /\ things = <<>>
    /\ resources = {} /\ announced = {}
    /\ forms = [t \in Things |-> {}]
    /\ destroyed = {}
    /\ req = [r \in Slots |-> Unused]
    /\ listeners = {} /\ timers = {}
    /\ uncaught = "no"

Serving == <<listening, things, resources, announced, forms, destroyed>>

-----------------------------------------------------------------------------
(* Life cycle                                                              *)

Rest == <<things, resources, announced, forms, destroyed, req, listeners, timers, uncaught>>

\* listen() may fail, which changes nothing.  (A Servient starts and stops
\* its servers once.)
Start == listening = "new" /\ listening' = "open" /\ UNCHANGED Rest

Stop == listening = "open" /\ listening' = "closed" /\ UNCHANGED Rest

\* registerExposedThing: determineTarget throws when there is no address to
\* announce.
Announce(path) == announced' \in {announced, announced \cup {path}}

\* expose(), aborted without a port.  When the announcement fails expose()
\* rejects, but the Thing is there.
Expose(t) ==
    LET path == UrlPath(t) IN
    /\ listening = "open"
    /\ t \notin destroyed
    /\ Cardinality({f.path : f \in forms[t]}) < MaxExposed[t]
    /\ things' = Append(things, [path |-> path, thing |-> t])
    /\ resources' = resources \cup {path}
    /\ forms' = [forms EXCEPT ![t] = @ \cup FormsUnder(path)]
    /\ Announce(path)
    /\ UNCHANGED <<listening, destroyed, req, listeners, timers, uncaught>>

\* ExposedThing.destroy: destroy() of the server takes away the first path
\* of the Thing; then nobody listens to the Thing any more.
Destroy(t) ==
    LET own == {k \in DOMAIN things : things[k].thing = t} IN
    /\ t \notin destroyed
    /\ destroyed' = destroyed \cup {t}
    /\ IF own = {} THEN UNCHANGED <<things, resources, announced>>
       ELSE LET path == things[Min(own)].path
            IN  /\ things' = RemoveAt(things, Min(own))
                /\ resources' = resources \ {path}
                /\ announced' = announced \ {path}
    /\ listeners' = {r \in listeners : req[r].thing # t}
    /\ UNCHANGED <<listening, forms, req, timers, uncaught>>

-----------------------------------------------------------------------------
(* handleRequest                                                           *)

PropertyRequest(q) ==
    CASE q.name \notin Properties ->
           (IF MetaOps = {} THEN "4.04" ELSE IF q.method = "GET" THEN "handle" ELSE "4.05")
      [] q.name \in Properties /\ q.method = "GET" ->
           (IF q.observe = None THEN "handle" ELSE "observe")
      [] q.name \in Properties /\ q.method = "PUT" ->
           (IF q.name \in ReadOnly THEN "4.00" ELSE "handle")
      [] OTHER -> "4.05"

ActionRequest(q) ==
    IF q.name \notin Actions THEN "4.04" ELSE IF q.method # "POST" THEN "4.05" ELSE "handle"

EventRequest(q) ==
    CASE q.name \notin Events -> "4.04"
      [] q.name \in Events /\ q.method # "GET" -> "4.05"
      [] q.name \in Events /\ q.method = "GET" /\ q.observe = None -> "4.00"
      [] q.name \in Events /\ q.method = "GET" /\ q.observe = 1 -> "5.01"
      [] OTHER -> "observe"

\* createInteractionOptions throws on a query that cannot be decoded, in
\* the `try` only of readings and writings.
WithQuery(q, outcome) ==
    CASE q.encoding # "badQuery" \/ outcome \notin {"handle", "observe"} -> outcome
      [] q.encoding = "badQuery" /\ outcome = "handle" /\ q.dir = "properties" -> "5.00"
      [] OTHER -> "throws"

\* The branches of handleRequest for a Thing.
ThingRequest(q) ==
    CASE q.dir = None -> (IF q.method # "GET" THEN "4.05"
                          ELSE IF q.accept = FALSE THEN "4.06" ELSE "2.05")
      [] q.dir = "properties" -> PropertyRequest(q)
      [] q.dir = "actions" -> ActionRequest(q)
      [] q.dir = "events" -> EventRequest(q)
      [] OTHER -> "4.04"

\* The code of the response, or which handlers of the Thing are called, or
\* that an exception is thrown which nobody catches.
Dispatch(q) ==
    CASE ~q.validPort -> "ignored"
      [] q.validPort /\ q.method \in {"PUT", "POST"} /\ ~q.format -> "4.15"
      [] OTHER ->
           CASE q.path[1] \in {"/", "core"} -> (IF q.method = "GET" THEN "2.05" ELSE "4.05")
             [] q.path[1] \notin {"/", "core"} /\ q.encoding = "badPath" -> "throws"
             [] OTHER ->
                  IF q.path \notin PathsInUse THEN "4.04" ELSE WithQuery(q, ThingRequest(q))

Done(record, code) ==
    [record EXCEPT !.stage = "done", !.q = None, !.code = code, !.ended = TRUE]

Answer(r, code) ==
    /\ req' = [req EXCEPT ![r] = Done(@, code)]
    /\ UNCHANGED <<listeners, timers>>

\* A handler of the application is called and awaited; destroy() has
\* forgotten those of the properties.
Handle(r, q, t) ==
    IF t \in destroyed /\ q.name \notin Actions THEN Answer(r, "5.00") ELSE
    /\ req' = [req EXCEPT ![r] = [@ EXCEPT !.stage = "handler", !.q = q, !.thing = t]]
    /\ UNCHANGED <<listeners, timers>>

\* The end of handleObserveProperty and of the branch of handleEventRequest
\* that subscribes: the response is ended first, then `finish` is listened
\* to, then the timer of a property is set.
Observing(record, r) ==
    /\ req' = [req EXCEPT ![r] = [record EXCEPT !.stage = "done", !.ended = TRUE,
                                      !.attached = ~record.finished]]
    /\ timers' = IF record.q.name \in Properties THEN timers \cup {r} ELSE timers

\* The listener is registered before the handler is awaited.
Observe(r, q, t) ==
    LET record == [req[r] EXCEPT !.q = q, !.thing = t, !.code = "2.05"] IN
    /\ listeners' = listeners \cup {r}
    /\ IF q.name \in Handled /\ t \notin destroyed
       THEN /\ req' = [req EXCEPT ![r] = [record EXCEPT !.stage = "observe"]]
            /\ UNCHANGED timers
       ELSE Observing(record, r)

Receive(r, q) ==
    LET outcome == Dispatch(q) IN
    /\ listening = "open"
    /\ req[r] = Unused
    /\ CASE outcome \in {"ignored", "throws"} ->
              /\ req' = [req EXCEPT ![r].stage = "ignored"]
              /\ UNCHANGED <<listeners, timers>>
         [] outcome = "handle" -> Handle(r, q, At(q.path))
         [] outcome = "observe" -> Observe(r, q, At(q.path))
         [] OTHER -> Answer(r, outcome)
    /\ uncaught' = IF outcome = "throws" THEN "uri" ELSE uncaught
    /\ UNCHANGED Serving

\* Mutant: a handler that rejects is logged, and that is all.
HandlerRejectsSilently(r) ==
    /\ req[r].stage = "handler"
    /\ req' = [req EXCEPT ![r].stage = "done", ![r].code = "5.00"]
    /\ UNCHANGED Serving /\ UNCHANGED <<listeners, timers, uncaught>>

\* The handler of a read, a write or an action.
HandlerRejects(r) ==
    /\ req[r].stage = "handler"
    /\ req' = [req EXCEPT ![r] = Done(@, "5.00")]
    /\ UNCHANGED Serving /\ UNCHANGED <<listeners, timers, uncaught>>

\* A value is piped into the response, which ends with it; a write and an
\* action without output are answered with 2.04.
HandlerDone(r) ==
    /\ req[r].stage = "handler"
    /\ \E code \in CASE req[r].q.method = "GET" -> {"2.05"}
                     [] req[r].q.method = "PUT" -> {"2.04"}
                     [] OTHER -> {"2.04", "2.05"} :
         req' = [req EXCEPT ![r] = Done(@, code)]
    /\ UNCHANGED Serving /\ UNCHANGED <<listeners, timers, uncaught>>

\* The observe or subscribe handler resolves or rejects, which is caught.
Observed(r) ==
    /\ req[r].stage = "observe"
    /\ Observing(req[r], r)
    /\ UNCHANGED Serving /\ UNCHANGED <<listeners, uncaught>>

\* A property changes or an event is emitted: each listener pipes the value
\* into its response, which ends with it.  A response that has ended takes
\* nothing more.
Notify(t, a) ==
    LET open == {r \in listeners : req[r].thing = t /\ req[r].q.name = a /\ ~req[r].ended}
    IN
    /\ open # {}
    /\ req' = [r \in Slots |-> IF r \in open
                 THEN [req[r] EXCEPT !.ended = TRUE, !.delivered = @ + 1] ELSE req[r]]
    /\ UNCHANGED Serving /\ UNCHANGED <<listeners, timers, uncaught>>

-----------------------------------------------------------------------------
(* Callbacks of observations                                               *)

\* handleUnobserveProperty and handleUnsubscribeEvent throw when they do not
\* find the listener; in a callback nobody catches that.
Release(r, where) ==
    /\ listeners' = listeners \ {r}
    /\ uncaught' = IF r \in listeners THEN uncaught ELSE where

\* Mutant: the end of a subscription is only logged.
FinishLogged(r) ==
    /\ req[r].ended /\ ~req[r].finished /\ req[r].q # None
    /\ req' = [req EXCEPT ![r].finished = TRUE]
    /\ UNCHANGED <<listeners, uncaught, timers>>
    /\ UNCHANGED Serving

\* The response is flushed.  The callback of a property expects an error;
\* when there is none it throws before it unregisters the listener.
Finish(r) ==
    /\ req[r].ended /\ ~req[r].finished /\ req[r].q # None
    /\ req' = [req EXCEPT ![r].finished = TRUE]
    /\ IF ~req[r].attached THEN UNCHANGED <<listeners, uncaught>>
       ELSE \/ Release(r, "finish")
            \/ /\ req[r].q.name \in Properties
               /\ uncaught' = "message"
               /\ UNCHANGED listeners
    /\ UNCHANGED timers /\ UNCHANGED Serving

\* One hour after an observation has begun.
TimerFires(r) ==
    /\ r \in timers
    /\ timers' = timers \ {r}
    /\ Release(r, "timer")
    /\ UNCHANGED req /\ UNCHANGED Serving

-----------------------------------------------------------------------------
Next ==
    /\ uncaught = "no"
    /\ \/ Start \/ Stop
       \/ \E t \in Things : Expose(t) \/ Destroy(t)
       \/ \E r \in Slots : \E q \in Requests[r] : Receive(r, q)
       \/ \E r \in Slots :
            \/ HandlerDone(r) \/ HandlerRejects(r) \/ Observed(r)
            \/ Finish(r) \/ TimerFires(r)
       \/ \E t \in Things, a \in Properties \cup Events : Notify(t, a)

\* Handlers of the application settle.
Settles(r) == HandlerDone(r) \/ HandlerRejects(r) \/ Observed(r)
Fairness == \A r \in Slots : WF_vars(uncaught = "no" /\ Settles(r))

Spec == Init /\ [][Next]_vars /\ Fairness

-----------------------------------------------------------------------------
(* Properties                                                              *)

\* parseUriSegments decodes an address once, and leaves what stands for a
\* reserved character as it is.  (None: what no Thing or affordance is called;
\* no affordance is named like the escaped name of another one.)
ThingKey(path) == IF path[1] \in Reserved THEN <<None, path[2]>> ELSE path

AffordanceKey(segment) ==
    IF segment.escapes \in {0, 1} /\ ~segment.variables THEN segment.name ELSE None

\* The request a client makes for an operation of a form.
RequestFor(f, op) ==
    [method |-> CASE op = "writeproperty" -> "PUT" [] op = "invokeaction" -> "POST" [] OTHER -> "GET",
     path |-> ThingKey(f.path), dir |-> f.dir, name |-> AffordanceKey(f.segment),
     observe |-> CASE op \in {"observeproperty", "subscribeevent"} -> 0
                   [] op \in {"unobserveproperty", "unsubscribeevent"} -> 1
                   [] OTHER -> None,
     format |-> TRUE, accept |-> None, validPort |-> TRUE, encoding |-> "good"]

\* The operations that handlers of the Thing serve.  Those that cancel are
\* served by none: that of a property registers another listener, that of
\* an event is refused.
ServedOps ==
    {"readproperty", "writeproperty", "readmultipleproperties", "readallproperties",
     "observeproperty", "invokeaction", "subscribeevent"}

\* However often Things of the same title are exposed and destroyed, also
\* beside Things that have the name with a suffix for their title, the
\* operations of the forms of a living Thing reach the handlers of that
\* Thing and affordance (createThingUrlPath, fillInBindingData,
\* parseUriSegments, handleRequest).  The exceptions are addresses that are
\* not decoded to what was encoded: a name that needs escapes or has URI
\* variables, as it is escaped twice, and a title with a reserved character.
\* What is listed is what is served (setUpIntroductionMethods, destroy), and
\* nothing else is announced.
FormsAreServed ==
    /\ \A t \in Things \ destroyed : \A f \in forms[t] : \A op \in f.op \cap ServedOps :
         f.segment.name \notin Escaped \cup Parameterized /\ f.path[1] \notin Reserved =>
           LET q == RequestFor(f, op) IN
           /\ Dispatch(q) = IF q.observe = 0 THEN "observe" ELSE "handle"
           /\ At(q.path) = t /\ q.name = f.segment.name
    /\ resources = PathsInUse
    /\ announced \subseteq resources

\* handleObserveProperty, handleEventRequest: when the response of an
\* observation is flushed, its listener is gone, unless that came before
\* the callback was attached.
ReleasedOnFinish ==
    \A r \in Slots : uncaught = "no" /\ req[r].finished /\ req[r].attached
                        => r \notin listeners

\* handleRequest: whatever handlers of the application do, each request they
\* are called for is answered.
Answered ==
    \A r \in Slots : req[r].stage \in {"handler", "observe"} ~> req[r].ended \/ uncaught # "no"
=============================================================================
