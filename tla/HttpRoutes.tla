----------------------------- MODULE HttpRoutes -----------------------------
(***************************************************************************)
(* Requests to an HTTP server of binding-http: handleRequest() and the     *)
(* routes (binding-http/src/http-server.ts, routes/*.ts), the choice of a  *)
(* security scheme when a Thing is exposed, and the check of credentials,  *)
(* which for oauth2 asks another server (oauth-token-validation.ts).       *)
(*                                                                         *)
(* A step is the code between two awaits that wait for the network or for  *)
(* a handler of the application.  How long polls are notified and released *)
(* is the matter of Exposure.                                              *)
(***************************************************************************)
EXTENDS Naturals, Sequences, FiniteSetsExt, SequencesExt

CONSTANTS
    Configured,     \* the schemes of config.security, in order; or <<>>
    Validation,     \* there is a method of validation for oauth2
    Declared,       \* what the Thing may declare, see SecurityType
    Scopes,         \* the scopes of its oauth2 definition
    Properties, ReadOnly, Actions, Events,
    Silent,         \* actions without output
    Slots,          \* the requests of one behaviour
    Requests,       \* what can be asked, see RequestType
    Introspected,   \* the answers of the introspection endpoint
    None

VARIABLES
    declared,   \* what the Thing declared
    scheme,     \* what the routes find as the scheme of the Thing, if any
    req,        \* the requests
    uncaught    \* a rejection that nobody handles

vars == <<declared, scheme, req, uncaught>>

Schemes == {"nosec", "basic", "digest", "bearer", "Bearer", "oauth2", "apikey"}

\* The schemes of the securityDefinitions in order, and the one that
\* `security` names, if any: its place, or 0 for a name without definition.
SecurityType == [defs : UNION {[1..n -> Schemes] : n \in 0..2}, selected : {None} \cup 0..2]

-----------------------------------------------------------------------------
(* Security of an exposed Thing                                            *)

\* The constructor: several schemes replace "nosec", a single one follows it.
Supported == (IF Len(Configured) > 1 THEN <<>> ELSE <<"nosec">>) \o Configured

Lower(s) == IF s = "Bearer" THEN "bearer" ELSE s

\* fillSecurityScheme: the selection of the Thing must be supported as it is
\* spelled...
Selected(d) ==
    IF d.selected = 0 \/ d.defs[d.selected] \notin Range(Supported) THEN None
    ELSE d.defs[d.selected]

\* ... or the first of its definitions that is supported is selected, where
\* oauth2 counts as oauth; without definitions it is the first supported.
Filled(d) ==
    LET fits == {k \in DOMAIN d.defs : /\ d.defs[k] # "oauth2"
                                       /\ Lower(d.defs[k]) \in Range(Supported)}
    IN  CASE d.selected # None -> Selected(d)
          [] d.selected = None /\ d.defs = <<>> -> Supported[1]
          [] OTHER -> IF fits = {} THEN None ELSE d.defs[Min(fits)]

Accepted(d) == Filled(d) # None

\* expose() puts the Thing among the things before it rejects.
Found(d) == IF ~Accepted(d) /\ d.selected \in DOMAIN d.defs THEN d.defs[d.selected] ELSE Filled(d)

\* The answer of an endpoint, or what makes it unusable.
IntrospectionType ==
    [usable : BOOLEAN, active : BOOLEAN, scope : (SUBSET {"read", "other"}) \cup {None},
     allowedClient : BOOLEAN]

\* validate: "error" is thrown.  Without scopes any active token will do.
Validated(auth, answer) ==
    CASE auth # "token" \/ ~answer.usable -> "error"
      [] auth = "token" /\ answer.usable /\ ~answer.active -> "no"
      [] auth = "token" /\ answer.usable /\ answer.active /\ Scopes = {} -> "yes"
      [] OTHER -> IF answer.scope # None /\ answer.scope \cap Scopes # {} /\ answer.allowedClient
                  THEN "yes" ELSE "no"

\* checkCredentials but for oauth2.  auth: which authorization came along.
Granted(s, auth) ==
    \/ s = "nosec"
    \/ s = "basic" /\ auth = "password"
    \/ s = "Bearer" /\ auth = "token"

-----------------------------------------------------------------------------
(* Requests                                                                *)

\* dir: "/" (the list of Things), "td", "properties" (all of them, or a
\* single one by name), "observable", "actions", "events" or "other".
\* content: whether the Content-Type is supported; cors: a preflight with
\* Origin and Access-Control-Request-Method; accept: some media type of the
\* Accept header is supported; malformed: the query has an escape that
\* decodeURIComponent does not take.
RequestType ==
    [method : {"GET", "PUT", "POST", "HEAD", "OPTIONS", "DELETE"}, known : BOOLEAN,
     dir : {"/", "td", "properties", "observable", "actions", "events", "other"},
     name : {None, "unknown"} \cup Properties \cup Actions \cup Events, content : BOOLEAN,
     cors : BOOLEAN, auth : {"none", "wrong", "password", "token"}, accept : BOOLEAN,
     malformed : BOOLEAN]

ASSUME HttpRoutesAssumption ==
    /\ Range(Configured) \subseteq Schemes \ {"apikey", "Bearer"}
    /\ Declared \subseteq SecurityType
    /\ ReadOnly \subseteq Properties /\ Silent \subseteq Actions
    /\ Requests \subseteq RequestType
    /\ Introspected \subseteq IntrospectionType
    /\ Validation \in BOOLEAN

Unused == [stage |-> "unused", q |-> None, status |-> None, handled |-> FALSE, granted |-> FALSE]

Init ==
    /\ declared \in Declared
    /\ scheme = Found(declared)
    /\ req = [r \in Slots |-> Unused]
    /\ uncaught = FALSE

\* The methods that the router knows for a path.
Routed(q) ==
    LET reading == {"GET", "HEAD", "OPTIONS"} IN
    q.method \in CASE q.dir \in {"/", "td"} -> {"GET"}
                   [] q.dir = "properties" /\ q.name = None -> reading
                   [] q.dir = "properties" /\ q.name # None -> reading \cup {"PUT"}
                   [] q.dir \in {"observable", "events"} -> reading
                   [] q.dir = "actions" -> {"POST", "OPTIONS"}
                   [] OTHER -> {}

Interactions(q) ==
    CASE q.dir \in {"properties", "observable"} -> Properties
      [] q.dir = "actions" -> Actions
      [] q.dir = "events" -> Events
      [] OTHER -> {}

AllProperties(q) == q.dir = "properties" /\ q.name = None

\* What is answered before the credentials are checked; None: nothing yet.
AtOnce(q) ==
    CASE q.method \in {"PUT", "POST"} /\ ~q.content -> 415
      [] ~Routed(q) -> 404
      [] q.dir = "/" -> 200
      [] q.dir # "/" /\ ~q.known -> 404
      [] q.dir = "td" /\ q.known -> IF q.accept THEN 200 ELSE 406
      [] OTHER -> IF AllProperties(q) \/ q.name \in Interactions(q) THEN None ELSE 404

\* respondUnallowedMethod
Unallowed(q) == IF q.method = "OPTIONS" /\ q.cors THEN 200 ELSE 405

\* What is answered without a handler once the credentials are in order.
WithoutHandler(q) ==
    CASE q.method \in {"GET", "POST"} -> None
      [] q.method = "PUT" -> IF q.name \in ReadOnly THEN 405 ELSE None
      [] q.method = "HEAD" -> IF q.dir = "properties" /\ ~AllProperties(q) THEN 405 ELSE 202
      [] OTHER -> Unallowed(q)

Answer(r, status) ==
    req' = [req EXCEPT ![r].stage = "done", ![r].status = status]

\* parseUrlParameters throws outside of any try: for properties ahead of the
\* credentials, for events and actions once the method is known.
EarlyThrow(q) ==
    q.malformed /\ (q.dir = "observable" \/ (q.dir = "properties" /\ ~AllProperties(q)))
LateThrow(q) == q.malformed /\ q.dir \in {"actions", "events"} /\ WithoutHandler(q) = None

\* Mutant: the answer 401 does not end the route.
RefusedNever(q, granted) == FALSE

\* A preflight goes on without credentials.
RefusedWith401(q, granted) == ~granted /\ ~(q.method = "OPTIONS" /\ q.cors)

Proceed(r, q, granted) ==
    LET done(status) == [req[r] EXCEPT !.q = q, !.stage = "done", !.status = status] IN
    \/ /\ RefusedWith401(q, granted)
       /\ req' = [req EXCEPT ![r] = done(401)] /\ UNCHANGED uncaught
    \/ /\ ~RefusedWith401(q, granted) /\ WithoutHandler(q) # None
       /\ req' = [req EXCEPT ![r] = done(WithoutHandler(q))] /\ UNCHANGED uncaught
    \/ /\ ~RefusedWith401(q, granted) /\ WithoutHandler(q) = None
       /\ LET throws == LateThrow(q) IN
          /\ req' = [req EXCEPT ![r] = [@ EXCEPT !.q = q, !.stage = IF throws THEN "lost" ELSE "handler",
                                                !.handled = ~throws, !.granted = granted]]
          /\ uncaught' = throws

-----------------------------------------------------------------------------
(* Steps                                                                   *)

\* A request up to its first await.  Without a scheme setCorsForThing
\* throws, without a validator checkCredentials does.
Receive(r, q) ==
    /\ req[r].stage = "unused" /\ ~uncaught
    /\ IF AtOnce(q) # None
       THEN /\ req' = [req EXCEPT ![r] = [@ EXCEPT !.q = q, !.stage = "done", !.status = AtOnce(q)]]
            /\ UNCHANGED uncaught
       ELSE IF ~EarlyThrow(q) /\ scheme \notin {None, "oauth2"}
       THEN Proceed(r, q, Granted(scheme, q.auth))
       ELSE IF ~EarlyThrow(q) /\ scheme = "oauth2" /\ Validation
       THEN /\ req' = [req EXCEPT ![r] = [@ EXCEPT !.q = q, !.stage = "credentials"]]
            /\ UNCHANGED uncaught
       ELSE /\ req' = [req EXCEPT ![r] = [@ EXCEPT !.q = q, !.stage = "lost"]]
            /\ uncaught' = TRUE
    /\ UNCHANGED <<declared, scheme>>

\* The validator answers; what it throws counts as a refusal.
CredentialsChecked(r) ==
    /\ req[r].stage = "credentials" /\ ~uncaught
    /\ \E answer \in Introspected :
          Proceed(r, req[r].q, Validated(req[r].q.auth, answer) = "yes")
    /\ UNCHANGED <<declared, scheme>>

Waits(q) == q.dir \in {"observable", "events"}

\* A handler of the application resolves: an observer or subscriber is
\* answered by the first notification.
HandlerResolves(r) ==
    /\ req[r].stage = "handler" /\ ~uncaught
    /\ LET q == req[r].q IN
       IF Waits(q) THEN req' = [req EXCEPT ![r].stage = "polling"]
       ELSE Answer(r, IF q.method = "PUT" \/ q.name \in Silent THEN 204 ELSE 200)
    /\ UNCHANGED <<declared, scheme, uncaught>>

\* Mutant: the action route catches nothing.
CatchesNoAction(q) == ~Waits(q) /\ q.dir # "actions"

\* handleObserveProperty and handleSubscribeEvent are awaited outside try.
Catches(q) == ~Waits(q)

HandlerRejects(r) ==
    /\ req[r].stage = "handler" /\ ~uncaught
    /\ IF Catches(req[r].q) THEN Answer(r, 500) /\ UNCHANGED uncaught
       ELSE /\ req' = [req EXCEPT ![r].stage = "lost"]
            /\ uncaught' = TRUE
    /\ UNCHANGED <<declared, scheme>>

\* The properties have been read, and the head of the answer written; what
\* then fails with one of the contents is caught, but the second head throws.
ContentFails(r) ==
    /\ req[r].stage = "handler" /\ ~uncaught /\ AllProperties(req[r].q)
    /\ req' = [req EXCEPT ![r].stage = "lost"]
    /\ uncaught' = TRUE
    /\ UNCHANGED <<declared, scheme>>

\* A notification ends the poll.
Notified(r) ==
    /\ req[r].stage = "polling" /\ ~uncaught
    /\ Answer(r, 200)
    /\ UNCHANGED <<declared, scheme, uncaught>>

\* After an hour the listener is given back, and nothing else: the answer
\* stays open, and nothing will be written to it.
HourOver(r) ==
    /\ req[r].stage = "polling" /\ ~uncaught
    /\ req' = [req EXCEPT ![r].stage = "deaf"]
    /\ UNCHANGED <<declared, scheme, uncaught>>

ClientLeaves(r) ==
    /\ req[r].stage \in {"polling", "deaf"} /\ ~uncaught
    /\ req' = [req EXCEPT ![r].stage = "left"]
    /\ UNCHANGED <<declared, scheme, uncaught>>

\* Validators and handlers of the application settle.  Nothing is assumed of
\* notifications, nor that a client leaves.
Settles(r) == CredentialsChecked(r) \/ HandlerResolves(r) \/ HandlerRejects(r) \/ ContentFails(r)

Polls(r) == Notified(r) \/ HourOver(r) \/ ClientLeaves(r)

Next == \E r \in Slots : Settles(r) \/ Polls(r) \/ \E q \in Requests : Receive(r, q)

Spec == Init /\ [][Next]_vars /\ \A r \in Slots : WF_vars(Settles(r))

-----------------------------------------------------------------------------
(* Properties                                                              *)

\* A handler of the application runs only for requests with the credentials
\* of the scheme of the Thing, those of Things that were refused included.
\* This is about the order of checks and returns in the routes.
HandledIfGranted ==
    \A r \in Slots : req[r].handled => req[r].granted

\* Every request is answered, or is a long poll that the route has handed to
\* the application, unless a route rejects, which ends the process: for a
\* Thing without a scheme, for oauth2 without a validation method, for a
\* malformed query, and when the handler of an observer or subscriber rejects
\* or the content of one of all the properties fails.  This is about the
\* returns, awaits and catches of the routes.
RequestsAnswered ==
    \A r \in Slots :
        (req[r].stage # "unused")
          ~> \/ req[r].stage \in {"done", "polling", "deaf", "left"}
             \/ uncaught /\ (scheme = None \/ (scheme = "oauth2" /\ ~Validation))
             \/ \E x \in Slots :
                   /\ req[x].stage = "lost"
                   /\ req[x].q.malformed \/ Waits(req[x].q) \/ AllProperties(req[x].q)
=============================================================================
