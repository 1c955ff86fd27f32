------------------------------- MODULE MCCoap -------------------------------
(* Two Things, one of which has the second name of the other for its      *)
(* title, and what clients can ask of them.                                *)
EXTENDS CoapServer, TLC

CONSTANTS t1, t2

MCTitle == t1 :> <<"lamp", <<>>>> @@ t2 :> <<"lamp", <<2>>>>

Plain == [method |-> "GET", path |-> <<"lamp", <<>>>>, dir |-> None, name |-> None, observe |-> None,
          format |-> TRUE, accept |-> None, validPort |-> TRUE, encoding |-> "good"]
Ask(method, path, dir, name) ==
    [Plain EXCEPT !.method = method, !.path = path, !.dir = dir, !.name = name]
First == <<"lamp", <<>>>>
Second == <<"lamp", <<2>>>>
Registering(q) == [q EXCEPT !.observe = 0]

Registrations ==
    {Registering(Ask("GET", First, "properties", p)) : p \in {"on", "power"}}
    \cup {Registering(Ask("GET", Second, "events", "hot"))}

Others ==
    {Ask(m, First, "properties", "on") : m \in {"GET", "PUT", "DELETE"}}
    \cup {Ask("PUT", First, "properties", "power"), Ask("GET", First, "properties", None),
          Ask("POST", First, "properties", None)}
    \cup {[Ask("GET", First, "events", "hot") EXCEPT !.observe = 1],
          Ask("GET", First, "events", "hot"), Ask("POST", First, "events", "hot"),
          Ask("GET", First, "events", None)}
    \cup {Ask("POST", Second, "actions", "toggle")}
    \cup {Ask("GET", First, "actions", "toggle"), Ask("POST", First, "actions", None),
          [Ask("POST", First, "actions", "toggle") EXCEPT !.format = FALSE]}
    \cup {Ask("GET", <<"/", <<>>>>, None, None), Ask("PUT", <<"core", <<>>>>, None, None),
          Ask("GET", <<"core", <<>>>>, None, None), Ask("GET", <<"lamp", <<4>>>>, None, None),
          Ask("PUT", First, None, None), Plain, [Plain EXCEPT !.accept = FALSE],
          Ask("GET", First, "other", None), [Plain EXCEPT !.validPort = FALSE]}

Undecodable ==
    {[Ask("GET", First, None, None) EXCEPT !.encoding = "badPath"]}
    \cup {[q EXCEPT !.encoding = "badQuery"] :
            q \in {Ask("PUT", First, "properties", "on"), Ask("POST", First, "actions", "toggle"),
                  Registering(Ask("GET", First, "properties", "on"))}}

Neighbours ==
    {Registering(Ask("GET", First, "properties", "on")), Registering(Ask("GET", First, "events", "hot"))}
MCRequests == <<Registrations \cup Others \cup Undecodable, Neighbours>>
MCMaxExposed == t1 :> 2 @@ t2 :> 1
=============================================================================
