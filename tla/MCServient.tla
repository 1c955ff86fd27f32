---------------------------- MODULE MCServient ----------------------------
(* Two Things of one title, and one that has for its title what an MQTT    *)
(* server makes of it, on an HTTP server, a WebSocket server and a broker.  *)
EXTENDS Servient, TLC

CONSTANTS t1, t2, t3, h, w, m

MCKind == h :> "http" @@ w :> "ws" @@ m :> "mqtt"
MCTitle == t1 :> <<"lamp", <<>>>> @@ t2 :> <<"lamp", <<>>>> @@ t3 :> <<"lamp", <<2>>>>
MCDevFriendly == [s \in Servers |-> TRUE]
MCMaxExposed == t1 :> 2 @@ t2 :> 1 @@ t3 :> 1

\* Bounds: either there are no Things, or the only call is the first one,
\* nobody stays connected, the Things are t1 and one other, of which one at
\* most is destroyed, and nothing is exposed after an exposure of that one.
Apart ==
    Range(things') \cup history'.destroyed # {} =>
        /\ client' = {}
        /\ Cardinality({c \in Calls : calls'[c] # Idle}) <= 1
        /\ ~({t2, t3} \subseteq Range(things') \cup history'.destroyed)
        /\ Cardinality(history'.destroyed) <= 1
        /\ history.stray # {} => history'.exposed = history.exposed

MCSpec == Init /\ [][Next /\ Apart]_vars /\ Fairness
=============================================================================
